---------------------------- MODULE ProtectedDram ----------------------------
(***************************************************************************)
(* DramModel in the regime on-die ECC is built for: ODECC stays on and at  *)
(* most one cell of each codeword is weak, whether a soft error, a stuck   *)
(* cell, a leaking cell or the victim of a cell in another codeword.       *)
(* The program's own calls (writes, reads, scrubs, refresh, temperature,   *)
(* power) are unrestricted; only the faults that may strike are.           *)
(*                                                                         *)
(* In that regime the memory is an ideal one: reads return what was last   *)
(* written although cells, parity and fault table keep changing.           *)
(***************************************************************************)
EXTENDS DramModel

VARIABLE call   \* the last access or power cycle completed, as its caller saw it

\* The cells of c that are wrong now or that a fault in the table can make wrong.
WeakCells(c) ==
    (UNION {faults[i].mask : i \in {j \in DOMAIN faults :
               faults[j].cw = c /\ faults[j].type \in StuckType \cup {"RETENTION"}}})
    \cup (UNION {faults[i].victim_mask : i \in {j \in DOMAIN faults :
                    faults[j].type = "COUPLING_INV" /\ faults[j].victim_cw = c}})
    \cup SymDiff(load_codeword(c), Decoded(c).data)

OneWeakCell(c, more) == \E b \in DataBit : WeakCells(c) \cup more \subseteq {b}

\* A transition fault, or coupling inside a codeword, spoils the copy that
\* parity is computed from, so ODECC cannot cover it.
Covered(f) ==
    \/ f.type \in StuckType \cup {"RETENTION"} /\ OneWeakCell(f.cw, f.mask)
    \/ /\ f.type = "COUPLING_INV" /\ f.victim_cw # f.cw
       /\ OneWeakCell(f.victim_cw, f.victim_mask)

ProtectedInit == Init /\ call = <<"power">>

PowerCall == (dram_init \/ dram_free) /\ call' = <<"power">>

WriteCall(c, w, value) ==
    dram_write32(c, w, value) /\ call' = <<"write", c, w, value>>

ReadCall(c, w) ==
    dram_read32(c) /\ call' = <<"read", c, w, dram_read32_value(c, w)>>

ProtectedFlip ==
    \E c \in Codeword, mask \in FlipMasks :
        OneWeakCell(c, mask) /\ dram_inject_bit_flip(c, mask)

ProtectedAddFault ==
    \E f \in FaultMenu :
        /\ Covered(f)
        /\ \/ dram_add_stuck_fault(f)
           \/ dram_add_coupling_fault(f)
           \/ dram_add_retention_fault(f)

\* What goes on between the program's accesses.
Background ==
    /\ \/ Scrub
       \/ ProtectedFlip \/ ProtectedAddFault \/ dram_clear_faults
       \/ Heat \/ Age \/ dram_refresh
       \/ dram_set_odecc_enabled(TRUE) \/ dram_reset_ecc_stats
    /\ UNCHANGED call

ProtectedNext ==
    \/ PowerCall
    \/ \E c \in Codeword, w \in Word :
          \/ ReadCall(c, w)
          \/ \E value \in SUBSET Bits(w) : WriteCall(c, w, value)
    \/ Background

ProtectedSpec == ProtectedInit /\ [][ProtectedNext]_<<vars, call>>

-----------------------------------------------------------------------------
(***************************************************************************)
(* The refinement: with ODECC on and single weak cells, every access       *)
(* behaves as on an ideal memory holding the decoded codewords; "call" is  *)
(* the interface both share.                                               *)
(***************************************************************************)
Ideal == INSTANCE IdealMemory WITH
    mem <- [c \in Codeword |-> View(c)], Cell <- Bits

RefinesIdealMemory == Ideal!Spec

(***************************************************************************)
(* In the regime no access ever meets an uncorrectable codeword, whatever  *)
(* order faults, writes, discharges and scrubs come in.                    *)
(***************************************************************************)
NeverUncorrectable == ecc_uncorr_count = 0

==============================================================================
