-------------------------------- MODULE Odecc --------------------------------
(***************************************************************************)
(* On-die ECC of core/odecc.c: a Hamming single-error-correcting code of   *)
(* 128 data bits and 8 parity bits.                                        *)
(*                                                                         *)
(* A data word or a parity byte is the set of its bits that are 1, so the  *)
(* XOR of the code is the symmetric difference of sets.  Label[b] is the   *)
(* 8-bit code g_pos_to_syndrome[b] of data bit b, as the set of the parity *)
(* bits that cover it.  The module is generic in the code; the table the   *)
(* program builds is in OdeccTable.                                        *)
(***************************************************************************)
EXTENDS Naturals, FiniteSets, FiniteSetsExt

CONSTANTS
    DataBit,    \* positions of the data bits of a codeword (0..127)
    ParityBit,  \* positions of the parity bits (128..135)
    Label       \* Label[b]: the parity bits that cover data bit b

(***************************************************************************)
(* What init_tables guarantees of the table: each position has a code of   *)
(* its own, and the parity bits have the powers of two to themselves.      *)
(***************************************************************************)
ASSUME OdeccAssumption ==
    /\ IsFiniteSet(DataBit)
    /\ IsFiniteSet(ParityBit)
    /\ DataBit \cap ParityBit = {}
    /\ Label \in [DataBit -> SUBSET ParityBit]
    /\ \A b \in DataBit : Label[b] # {} /\ \A p \in ParityBit : Label[b] # {p}
    /\ \A b, c \in DataBit : Label[b] = Label[c] => b = c

Data == SUBSET DataBit
Parity == SUBSET ParityBit

\* calc_parity and odecc_encode: the XOR of the codes of the bits that are 1.
calc_parity(data) ==
    {p \in ParityBit : Cardinality({b \in data : p \in Label[b]}) % 2 = 1}

Syndrome(data, parity) == SymDiff(calc_parity(data), parity)

\* Mutant: the table leaves the parity positions out.
TableWithoutParity == [s \in Parity |-> {b \in DataBit : Label[b] = s}]

\* The position a syndrome is assigned to, if there is one.
g_syndrome_to_pos ==
    [s \in Parity |-> {b \in DataBit : Label[b] = s} \cup {p \in ParityBit : {p} = s}]

\* Mutants of the decoder: it takes every position for a data bit; it takes an
\* unassigned syndrome for a clean word; it leaves a wrong parity bit alone.
DecodeUnranged(data, parity) ==
    LET hit == g_syndrome_to_pos[Syndrome(data, parity)]
    IN  [rc |-> IF hit = {} THEN "UNCORRECTABLE" ELSE "CORRECTED",
         data |-> SymDiff(data, hit), parity |-> parity, hit |-> hit]
DecodeTrusting(data, parity) ==
    LET hit == g_syndrome_to_pos[Syndrome(data, parity)]
    IN  [rc |-> IF hit = {} THEN "OK" ELSE "CORRECTED",
         data |-> SymDiff(data, hit \cap DataBit),
         parity |-> SymDiff(parity, hit \cap ParityBit), hit |-> hit]
DecodeDataOnly(data, parity) ==
    LET hit == g_syndrome_to_pos[Syndrome(data, parity)]
    IN  [rc |-> IF Syndrome(data, parity) = {} THEN "OK"
                ELSE IF hit = {} THEN "UNCORRECTABLE" ELSE "CORRECTED",
         data |-> SymDiff(data, hit \cap DataBit), parity |-> parity, hit |-> hit]

(***************************************************************************)
(* odecc_decode on a codeword: the return code, the codeword it leaves in  *)
(* place and, in "hit", the position it corrected (bit_index).             *)
(***************************************************************************)
odecc_decode(data, parity) ==
    LET syndrome == Syndrome(data, parity)
        hit == g_syndrome_to_pos[syndrome]
    IN  [rc     |-> IF syndrome = {} THEN "OK"
                    ELSE IF hit = {} THEN "UNCORRECTABLE" ELSE "CORRECTED",
         data   |-> SymDiff(data, hit \cap DataBit),
         parity |-> SymDiff(parity, hit \cap ParityBit),
         hit    |-> hit]

==============================================================================
