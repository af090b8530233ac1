----------------------------- MODULE MCProtected -----------------------------
(***************************************************************************)
(* ProtectedDram on data bits 0 and 127 of the program's code table (words *)
(* 0 and 3), a slice closed under its decoder.                             *)
(***************************************************************************)
EXTENDS ProtectedDram, OdeccTable

MCDataBit == {0, 127}
MCLabel == [b \in MCDataBit |-> TableLabel[b]]
MCParityBit == UNION {TableLabel[b] : b \in MCDataBit}
MCWord == {0, 3}
MCWordOf == [b \in MCDataBit |-> b \div 32]

OneCell(type, c, mask) ==
    [type |-> type, cw |-> c, mask |-> mask,
     victim_cw |-> 0, victim_mask |-> {}, retention_ns |-> 0]

\* Faults of every kind single-bit correction covers.
CoveredMenu ==
    {OneCell("STUCK_AT_1", 0, {0}), OneCell("STUCK_AT_0", 0, {0}),
     [OneCell("COUPLING_INV", 0, {0}) EXCEPT !.victim_cw = 1, !.victim_mask = {127}],
     [OneCell("RETENTION", 1, {127}) EXCEPT !.retention_ns = 1]}

MCFlips == {{0}, {127}}

\* "call" only records; states that differ in nothing else are explored once.
MCView == vars
==============================================================================
