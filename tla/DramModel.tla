------------------------------ MODULE DramModel ------------------------------
(***************************************************************************)
(* core/dram_model.c: raw cells with parity, the fault table and the       *)
(* on-die ECC on the way in and out.                                       *)
(*                                                                         *)
(* An address is a codeword and a word of it; a word's value, a bit mask   *)
(* and a codeword are the sets of their bits that are 1, as in Odecc.      *)
(* "data" is what the cells hold; what an access sees is the cells after   *)
(* the stuck-at faults (load_codeword) and what it returns is that after   *)
(* the decoder.  A call the code rejects changes nothing, so rejections    *)
(* are the stuttering steps.                                               *)
(***************************************************************************)
EXTENDS Odecc, Integers, Sequences

CONSTANTS
    Codewords,    \* number of codewords of the memory (size_bytes / 16)
    Word,         \* the 32-bit words of a codeword
    WordOf,       \* WordOf[b]: the word data bit b belongs to
    FaultMenu,    \* the faults that may be registered
    FlipMasks,    \* the masks dram_inject_bit_flip may be given
    Temperatures, \* the temperatures dram_set_temperature may be given
    Holds,        \* the times dram_advance_time may let pass
    DRAM_MAX_FAULTS,
    MaxAge,       \* bound on ns_since_refresh
    MaxCount      \* bound on the ECC counters

DRAM_REFRESH_HIGH_TEMP_C == 85

Codeword == 0 .. Codewords - 1
Bits(w) == {b \in DataBit : WordOf[b] = w}
Mask == {m \in SUBSET DataBit : m # {} /\ \E w \in Word : m \subseteq Bits(w)}

StuckType == {"STUCK_AT_0", "STUCK_AT_1"}
FaultType == StuckType \cup
    {"TRANSITION_UP", "TRANSITION_DOWN", "COUPLING_INV", "RETENTION"}

\* An entry of the fault table; the victim is COUPLING_INV's, the time RETENTION's.
Fault ==
    [type : FaultType, cw : Codeword, mask : Mask,
     victim_cw : Codeword, victim_mask : Mask \cup {{}}, retention_ns : Nat]

ASSUME DramAssumption ==
    /\ Codewords \in Nat \ {0}
    /\ WordOf \in [DataBit -> Word]
    /\ FaultMenu \subseteq Fault
    /\ FlipMasks \subseteq Mask
    /\ Temperatures \subseteq Int
    /\ Holds \subseteq Nat
    /\ DRAM_MAX_FAULTS \in Nat /\ MaxAge \in Nat /\ MaxCount \in Nat

VARIABLES
    up,                 \* dram_is_initialized
    data,               \* the cells of each codeword
    parity,             \* its parity cells
    faults,             \* the fault table, oldest entry first
    odecc_enabled,
    ecc_corr_count, ecc_uncorr_count, ecc_last_corr_addr,
    temperature_c, ns_since_refresh

cells == <<data, parity>>
ecc_stats == <<ecc_corr_count, ecc_uncorr_count, ecc_last_corr_addr>>
environment == <<temperature_c, ns_since_refresh>>
vars == <<up, cells, faults, odecc_enabled, ecc_stats, environment>>

TypeOK ==
    /\ up \in BOOLEAN
    /\ data \in [Codeword -> Data]
    /\ parity \in [Codeword -> Parity]
    /\ faults \in Seq(FaultMenu) /\ Len(faults) <= DRAM_MAX_FAULTS
    /\ odecc_enabled \in BOOLEAN
    /\ ecc_corr_count \in Nat /\ ecc_uncorr_count \in Nat
    /\ ecc_last_corr_addr \in Codeword
    /\ temperature_c \in Int
    /\ ns_since_refresh \in Nat

-----------------------------------------------------------------------------
(* What an access sees and returns.                                         *)

StuckFaults(c) == {i \in DOMAIN faults : faults[i].type \in StuckType /\ faults[i].cw = c}
StuckBits(c) == UNION {faults[i].mask : i \in StuckFaults(c)}

\* The entry that decides a stuck bit is the last one to cover it.
ForcedTo1(c) ==
    {b \in DataBit :
        \E i \in StuckFaults(c) :
            /\ b \in faults[i].mask
            /\ faults[i].type = "STUCK_AT_1"
            /\ \A j \in StuckFaults(c) : j > i => b \notin faults[j].mask}

apply_stuck_faults_codeword(c, raw) == (raw \ StuckBits(c)) \cup ForcedTo1(c)

load_codeword(c) == apply_stuck_faults_codeword(c, data[c])

Decoded(c) == odecc_decode(load_codeword(c), parity[c])

\* The codeword an access works on: decoded when ODECC is on.
View(c) == IF odecc_enabled THEN Decoded(c).data ELSE load_codeword(c)

-----------------------------------------------------------------------------
(* The faults that fire when a codeword is written.  "copy" is the codeword *)
(* about to be stored, "raw" the cells of the whole memory.                 *)

WriteFault(f, c, old_raw, s) ==
    CASE f.cw = c /\ f.type = "TRANSITION_UP" ->
            [s EXCEPT !.copy = @ \ ((@ \ old_raw) \cap f.mask)]
      [] f.cw = c /\ f.type = "TRANSITION_DOWN" ->
            [s EXCEPT !.copy = @ \cup ((old_raw \ @) \cap f.mask)]
      [] /\ f.cw = c /\ f.type = "COUPLING_INV"
         /\ SymDiff(old_raw, s.copy) \cap f.mask # {} ->
            IF f.victim_cw = c
            THEN [s EXCEPT !.copy = SymDiff(@, f.victim_mask)]
            ELSE [s EXCEPT !.raw[f.victim_cw] = SymDiff(@, f.victim_mask)]
      [] OTHER -> s

apply_write_faults_codeword(c, old_raw, new_data) ==
    LET s[i \in 0 .. Len(faults)] ==
            IF i = 0 THEN [copy |-> new_data, raw |-> data]
                     ELSE WriteFault(faults[i], c, old_raw, s[i - 1])
    IN  s[Len(faults)]

-----------------------------------------------------------------------------
(* Lifecycle.  The struct starts zeroed; dram_init may fail in either       *)
(* allocation, having cleared the struct.                                   *)

Zeroed == [c \in Codeword |-> {}]

Init ==
    /\ up = FALSE
    /\ data = Zeroed /\ parity = Zeroed
    /\ faults = <<>>
    /\ odecc_enabled = FALSE
    /\ ecc_corr_count = 0 /\ ecc_uncorr_count = 0 /\ ecc_last_corr_addr = 0
    /\ temperature_c = 0 /\ ns_since_refresh = 0

ClearTables ==
    /\ faults' = <<>>
    /\ ecc_corr_count' = 0 /\ ecc_uncorr_count' = 0 /\ ecc_last_corr_addr' = 0

dram_init ==
    /\ ~up
    /\ data' = Zeroed /\ parity' = Zeroed
    /\ ClearTables
    /\ ns_since_refresh' = 0
    /\ \/ up' = TRUE /\ odecc_enabled' = TRUE /\ temperature_c' = 25
       \/ up' = FALSE /\ odecc_enabled' = FALSE /\ temperature_c' = 0

dram_free ==
    /\ up
    /\ up' = FALSE
    /\ data' = Zeroed /\ parity' = Zeroed
    /\ ClearTables
    /\ UNCHANGED <<odecc_enabled, environment>>

-----------------------------------------------------------------------------
(* Accesses.                                                                *)

\* Mutants: the old codeword is merged without decoding it; the parity is not
\* computed anew.
WriteUndecoded(c, w, value) ==
    LET merged == (load_codeword(c) \ Bits(w)) \cup value
        done == apply_write_faults_codeword(c, data[c], merged)
    IN  /\ up
        /\ data' = [done.raw EXCEPT ![c] = done.copy]
        /\ parity' = [parity EXCEPT ![c] = calc_parity(done.copy)]
        /\ UNCHANGED <<up, faults, odecc_enabled, ecc_stats, environment>>
WriteStaleParity(c, w, value) ==
    LET merged == (View(c) \ Bits(w)) \cup value
        done == apply_write_faults_codeword(c, data[c], merged)
    IN  /\ up
        /\ data' = [done.raw EXCEPT ![c] = done.copy]
        /\ UNCHANGED <<up, parity, faults, odecc_enabled, ecc_stats, environment>>

dram_write32(c, w, value) ==
    LET merged == (View(c) \ Bits(w)) \cup value
        done == apply_write_faults_codeword(c, data[c], merged)
    IN  /\ up
        /\ data' = [done.raw EXCEPT ![c] = done.copy]
        /\ parity' = [parity EXCEPT ![c] = calc_parity(done.copy)]
        /\ UNCHANGED <<up, faults, odecc_enabled, ecc_stats, environment>>

\* Mutant: a read returns the cells as loaded.
ReadUndecoded(c, w) == load_codeword(c) \cap Bits(w)

\* The word a read of it returns.
dram_read32_value(c, w) == View(c) \cap Bits(w)

CountEcc(corrected, uncorrectable, last) ==
    /\ ecc_corr_count' = ecc_corr_count + Cardinality(corrected)
    /\ ecc_uncorr_count' = ecc_uncorr_count + Cardinality(uncorrectable)
    /\ ecc_corr_count' <= MaxCount /\ ecc_uncorr_count' <= MaxCount
    /\ ecc_last_corr_addr' = last

Found(range, rc) == {c \in range : odecc_enabled /\ Decoded(c).rc = rc}

LastOf(corrected) ==
    IF corrected = {} THEN ecc_last_corr_addr
                      ELSE CHOOSE c \in corrected : \A d \in corrected : d <= c

\* Mutant: a read leaves corrections out of the counter.
ReadUncounted(c) ==
    /\ up
    /\ CountEcc({}, Found({c}, "UNCORRECTABLE"), ecc_last_corr_addr)
    /\ UNCHANGED <<up, cells, faults, odecc_enabled, environment>>

dram_read32(c) ==
    /\ up
    /\ CountEcc(Found({c}, "CORRECTED"), Found({c}, "UNCORRECTABLE"),
                LastOf(Found({c}, "CORRECTED")))
    /\ UNCHANGED <<up, cells, faults, odecc_enabled, environment>>

dram_inject_bit_flip(c, mask) ==
    /\ up
    /\ data' = [data EXCEPT ![c] = SymDiff(@, mask)]
    /\ UNCHANGED <<up, parity, faults, odecc_enabled, ecc_stats, environment>>

\* Mutants of the scrub: it repairs nothing; it stores the codeword as loaded; it
\* stores whatever the decoder did not find clean.
Scrubbed(first, last, fixed, stored) ==
    /\ up /\ odecc_enabled
    /\ data' = [c \in Codeword |-> IF c \in fixed THEN stored[c] ELSE data[c]]
    /\ parity' = [c \in Codeword |-> IF c \in fixed THEN calc_parity(stored[c]) ELSE parity[c]]
    /\ CountEcc(Found(first .. last, "CORRECTED"), Found(first .. last, "UNCORRECTABLE"),
                LastOf(Found(first .. last, "CORRECTED")))
    /\ UNCHANGED <<up, faults, odecc_enabled, environment>>
ScrubRepairsNothing(first, last) == Scrubbed(first, last, {}, data)
ScrubStoresLoaded(first, last) ==
    Scrubbed(first, last, Found(first .. last, "CORRECTED"),
             [c \in Codeword |-> load_codeword(c)])
ScrubStoresAll(first, last) ==
    Scrubbed(first, last,
             Found(first .. last, "CORRECTED") \cup Found(first .. last, "UNCORRECTABLE"),
             [c \in Codeword |-> Decoded(c).data])

\* A pass over the codewords of the range; what it corrects it also repairs.
dram_scrub_range(first, last) ==
    LET fixed == Found(first .. last, "CORRECTED")
    IN  /\ up /\ odecc_enabled
        /\ data' = [c \in Codeword |-> IF c \in fixed THEN Decoded(c).data ELSE data[c]]
        /\ parity' = [c \in Codeword |->
              IF c \in fixed THEN calc_parity(Decoded(c).data) ELSE parity[c]]
        /\ CountEcc(fixed, Found(first .. last, "UNCORRECTABLE"), LastOf(fixed))
        /\ UNCHANGED <<up, faults, odecc_enabled, environment>>

-----------------------------------------------------------------------------
(* The fault table.                                                         *)

\* Mutant: one entry too many fits.
AddFaultOffByOne(f) ==
    /\ up
    /\ Len(faults) <= DRAM_MAX_FAULTS
    /\ faults' = Append(faults, f)
    /\ UNCHANGED <<up, cells, odecc_enabled, ecc_stats, environment>>

AddFault(f) ==
    /\ up
    /\ Len(faults) < DRAM_MAX_FAULTS
    /\ faults' = Append(faults, f)
    /\ UNCHANGED <<up, cells, odecc_enabled, ecc_stats, environment>>

dram_add_stuck_fault(f) == f.type \in StuckType /\ AddFault(f)

dram_add_transition_fault(f) ==
    f.type \in {"TRANSITION_UP", "TRANSITION_DOWN"} /\ AddFault(f)

dram_add_coupling_fault(f) ==
    f.type = "COUPLING_INV" /\ f.victim_mask # {} /\ AddFault(f)

dram_add_retention_fault(f) ==
    f.type = "RETENTION" /\ f.retention_ns # 0 /\ AddFault(f)

dram_clear_faults ==
    /\ faults' = <<>>
    /\ UNCHANGED <<up, cells, odecc_enabled, ecc_stats, environment>>

-----------------------------------------------------------------------------
(* Temperature, time and refresh; the ECC switch and its counters.          *)

dram_set_temperature(celsius) ==
    /\ temperature_c' = celsius
    /\ UNCHANGED <<up, cells, faults, odecc_enabled, ecc_stats, ns_since_refresh>>

\* Above the limit a weak cell holds its charge half as long.
Limit(f) ==
    IF temperature_c > DRAM_REFRESH_HIGH_TEMP_C THEN f.retention_ns \div 2
                                                ELSE f.retention_ns

Discharged(c, age) ==
    UNION {faults[i].mask : i \in {j \in DOMAIN faults :
              /\ faults[j].type = "RETENTION" /\ faults[j].cw = c
              /\ age >= Limit(faults[j])}}

dram_advance_time(elapsed_ns) ==
    /\ up
    /\ ns_since_refresh + elapsed_ns <= MaxAge
    /\ ns_since_refresh' = ns_since_refresh + elapsed_ns
    /\ data' = [c \in Codeword |-> data[c] \ Discharged(c, ns_since_refresh')]
    /\ UNCHANGED <<up, parity, faults, odecc_enabled, ecc_stats, temperature_c>>

dram_refresh ==
    /\ ns_since_refresh' = 0
    /\ UNCHANGED <<up, cells, faults, odecc_enabled, ecc_stats, temperature_c>>

dram_set_odecc_enabled(enabled) ==
    /\ odecc_enabled' = enabled
    /\ UNCHANGED <<up, cells, faults, ecc_stats, environment>>

dram_reset_ecc_stats ==
    /\ ecc_corr_count' = 0 /\ ecc_uncorr_count' = 0 /\ ecc_last_corr_addr' = 0
    /\ UNCHANGED <<up, cells, faults, odecc_enabled, environment>>

-----------------------------------------------------------------------------
Write == \E c \in Codeword, w \in Word : \E value \in SUBSET Bits(w) : dram_write32(c, w, value)
Read == \E c \in Codeword : dram_read32(c)
Flip == \E c \in Codeword, mask \in FlipMasks : dram_inject_bit_flip(c, mask)
Scrub == \E first, last \in Codeword : first <= last /\ dram_scrub_range(first, last)
AddAnyFault ==
    \E f \in FaultMenu :
        \/ dram_add_stuck_fault(f)
        \/ dram_add_transition_fault(f)
        \/ dram_add_coupling_fault(f)
        \/ dram_add_retention_fault(f)
Age == \E elapsed_ns \in Holds : dram_advance_time(elapsed_ns)
Heat == \E celsius \in Temperatures : dram_set_temperature(celsius)
SwitchEcc == \E enabled \in BOOLEAN : dram_set_odecc_enabled(enabled)

Next ==
    \/ dram_init \/ dram_free
    \/ Write \/ Read \/ Flip \/ Scrub
    \/ AddAnyFault \/ dram_clear_faults
    \/ Heat \/ Age \/ dram_refresh
    \/ SwitchEcc \/ dram_reset_ecc_stats

Spec == Init /\ [][Next]_vars
-----------------------------------------------------------------------------
(* Properties.                                                              *)

(***************************************************************************)
(* Scrubbing is invisible to the program: whatever faults are present and  *)
(* whatever state the cells are in, no read returns anything else after    *)
(* dram_scrub_range than it would have before, miscorrections included.    *)
(***************************************************************************)
ScrubTransparent ==
    [][Scrub => \A c \in Codeword : View(c)' = View(c)]_vars

(***************************************************************************)
(* The screen of tc7 (host/main.c): a codeword that needs a correction     *)
(* again right after a scrub has the corrected bit under a stuck-at fault; *)
(* a soft error is never found twice by correction.                        *)
(***************************************************************************)
SecondCorrectionIsHard ==
    [][\A first, last \in Codeword :
          dram_scrub_range(first, last) =>
              \A c \in first .. last :
                  Decoded(c).rc' = "CORRECTED" => Decoded(c).hit' \subseteq StuckBits(c)]_vars

(***************************************************************************)
(* A detected double error is not lost to maintenance: neither scrubbing   *)
(* nor reading turns an uncorrectable codeword into one that decodes.      *)
(***************************************************************************)
UncorrectableSurvivesScrub ==
    [][Scrub \/ Read =>
          \A c \in Codeword :
              Decoded(c).rc = "UNCORRECTABLE" => Decoded(c).rc' = "UNCORRECTABLE"]_vars

\* No fault of c distorts a write to c, and the decoder covers its stuck cells.
WritesAreFaithful(c) ==
    /\ \A i \in DOMAIN faults :
          faults[i].cw = c /\ faults[i].type \notin StuckType \cup {"RETENTION"} =>
              faults[i].type = "COUPLING_INV" /\ faults[i].victim_cw # c
    /\ \/ StuckBits(c) = {}
       \/ odecc_enabled /\ \E b \in DataBit : StuckBits(c) = {b}

(***************************************************************************)
(* The read-modify-write of dram_write32 replaces exactly its word, as     *)
(* reads see it: whatever errors the codeword held before, and with one    *)
(* stuck cell while ODECC is on, reading the written word gives the value  *)
(* back and the other words of the codeword read as before.                *)
(***************************************************************************)
WriteReadsBack ==
    [][\A c \in Codeword, w \in Word : \A value \in SUBSET Bits(w) :
          dram_write32(c, w, value) /\ WritesAreFaithful(c) =>
              View(c)' = (View(c) \ Bits(w)) \cup value]_vars

(***************************************************************************)
(* What dram_advance_time says of its raw store (dram_model.c:661-662):    *)
(* the parity is left alone so that ODECC cannot correct the loss.  So a   *)
(* discharge of a sound codeword would show in what reads return.          *)
(***************************************************************************)
DischargeDefeatsEcc ==
    [][\A elapsed_ns \in Holds :
          dram_advance_time(elapsed_ns) /\ odecc_enabled =>
              \A c \in Codeword :
                  Decoded(c).rc = "OK" /\ data'[c] # data[c] => View(c)' # View(c)]_vars

==============================================================================
