------------------------------ MODULE BitFields ------------------------------
(***************************************************************************)
(* Bit fields of an address.  An address or a field is the set of the      *)
(* positions of its bits that are 1: shifting moves positions and XOR is   *)
(* symmetric difference.                                                   *)
(***************************************************************************)
EXTENDS Integers

\* (bits >> shift) & mask of "width" ones
Field(bits, shift, width) == {i \in 0 .. width - 1 : i + shift \in bits}

\* field << shift
Place(field, shift) == {i + shift : i \in field}

\* A value below 2^width.
Fits(field, width) == field \subseteq 0 .. width - 1

==============================================================================
