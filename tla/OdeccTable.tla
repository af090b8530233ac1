------------------------------ MODULE OdeccTable ------------------------------
(***************************************************************************)
(* The table init_tables (core/odecc.c) builds: parity bit 128 + k has the *)
(* code 2^k, and the data bits take, in order, the values from 1 that are  *)
(* not powers of two.                                                      *)
(***************************************************************************)
EXTENDS Naturals, FiniteSets, FiniteSetsExt

ODECC_DATA_BITS == 128
TableParityBit == ODECC_DATA_BITS .. ODECC_DATA_BITS + 7

\* A code as the set of parity bits whose power of two it contains.
CodeBits(value) ==
    {p \in TableParityBit : (value \div 2^(p - ODECC_DATA_BITS)) % 2 = 1}

PowersOfTwo == {2^k : k \in 0 .. 7}

\* The codes the loop of init_tables gives out before it reaches "value".
GivenBefore(value) == (value - 1) - Cardinality({p \in PowersOfTwo : p < value})

DataCode ==
    [b \in 0 .. ODECC_DATA_BITS - 1 |->
        CHOOSE v \in (1 .. 255) \ PowersOfTwo : GivenBefore(v) = b]

TableLabel == [b \in 0 .. ODECC_DATA_BITS - 1 |-> CodeBits(DataCode[b])]

==============================================================================
