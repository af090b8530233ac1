------------------------------ MODULE MCAddrMap ------------------------------
(* The program's own field widths, on addresses that use a bit of each kind *)
(* of field: column, BA, BG, a row bit for each use, CID, CS, beyond.       *)
EXTENDS AddrMap

MCPacked == SUBSET {9, 10, 14, 15, 17, 18, 30, 31, 32, 33}
==============================================================================
