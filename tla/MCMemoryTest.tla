----------------------------- MODULE MCMemoryTest -----------------------------
(* MemoryTest on two whole 128 + 8 bit codewords of the program's code.     *)
EXTENDS MemoryTest, OdeccTable

MCDataBit == 0 .. ODECC_DATA_BITS - 1
MCWord == 0 .. 3
MCWordOf == [b \in MCDataBit |-> b \div 32]

OneCell(type, c, mask) ==
    [type |-> type, cw |-> c, mask |-> mask,
     victim_cw |-> 0, victim_mask |-> {}, retention_ns |-> 0]
Coupling(c, mask, v, victim_mask) ==
    [OneCell("COUPLING_INV", c, mask) EXCEPT !.victim_cw = v, !.victim_mask = victim_mask]

\* Every write fault: single cells and pairs; victims above and below, in the
\* aggressor's word, in its codeword and in the other codeword.
MCMenu ==
    {OneCell("STUCK_AT_0", 0, {40}), OneCell("STUCK_AT_1", 1, {64, 65}),
     OneCell("TRANSITION_UP", 0, {33}), OneCell("TRANSITION_DOWN", 1, {70}),
     Coupling(0, {33}, 0, {34}), Coupling(0, {33}, 0, {64}),
     Coupling(0, {65}, 1, {32}), Coupling(1, {33, 34}, 0, {64})}

MCFlips == {{32}}
\* Six words across the border of the codewords.
MCRanges == {[start |-> 1, count |-> 6]}
MCPatterns == {{b \in MCDataBit : b % 4 = 1}}
\* BG 0 to 3 by BA 0 and 1, in the order of the loops.
MCTags ==
    LET bg(k) == {b \in {0, 1} : ((k - 1) \div 2^(b + 1)) % 2 = 1}
        bank(k) == {b \in {0} : (k - 1) % 2 = 1}
        tag(k) == {28 + b : b \in bg(k)} \cup {24 + b : b \in bank(k)}
    IN  [k \in 1 .. 8 |-> {b \in MCDataBit : b % 32 \in tag(k)}]
\* A word for each location; an address line lost, so that two share one.
MCLayouts == {<<0, 4, 1, 5, 2, 6, 3, 7>>, <<0, 4, 1, 5, 2, 6, 3, 3>>}
==============================================================================
