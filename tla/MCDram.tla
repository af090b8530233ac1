-------------------------------- MODULE MCDram --------------------------------
(***************************************************************************)
(* DramModel on slices of the program's own code table that are closed     *)
(* under its decoder: the cells left out are 0 and are never hit.          *)
(***************************************************************************)
EXTENDS DramModel, OdeccTable

MCWord == {0, 3}

\* Data bits 0 and 127, in words 0 and 3: two errors are uncorrectable.
PairBit == {0, 127}
\* Bits 0, 1, 2 of word 0 (codes 3, 5, 6 = 3 XOR 5) and bit 127 of word 3:
\* two errors in word 0 miscorrect the third bit, others are uncorrectable.
QuadBit == {0, 1, 2, 127}

PairLabel == [b \in PairBit |-> TableLabel[b]]
QuadLabel == [b \in QuadBit |-> TableLabel[b]]
PairParityBit == UNION {TableLabel[b] : b \in PairBit}
QuadParityBit == UNION {TableLabel[b] : b \in QuadBit}
PairWordOf == [b \in PairBit |-> b \div 32]
QuadWordOf == [b \in QuadBit |-> b \div 32]

OneCell(type, c, mask) ==
    [type |-> type, cw |-> c, mask |-> mask,
     victim_cw |-> 0, victim_mask |-> {}, retention_ns |-> 0]
Coupling(c, mask, v, victim_mask) ==
    [OneCell("COUPLING_INV", c, mask) EXCEPT !.victim_cw = v, !.victim_mask = victim_mask]
Retention(c, mask, ns) ==
    [OneCell("RETENTION", c, mask) EXCEPT !.retention_ns = ns]

PairMenu ==
    {OneCell("STUCK_AT_1", 0, {0}), OneCell("TRANSITION_DOWN", 1, {0}),
     Coupling(0, {0}, 1, {127}), Coupling(1, {0}, 1, {127})}
QuadMenu ==
    {OneCell("STUCK_AT_1", 0, {0}), OneCell("STUCK_AT_0", 0, {0, 1}),
     OneCell("TRANSITION_UP", 0, {1}), Retention(0, {127}, 2)}

RetentionMenu == {Retention(0, {0}, 2)}

PairFlips == {{0}, {127}}
QuadFlips == {{0}, {1}, {127}}
==============================================================================
