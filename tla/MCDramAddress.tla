---------------------------- MODULE MCDramAddress ----------------------------
(* Fields of one bit and up to two row bits; sizes on both sides of every    *)
(* power of two from less than a row to more than the largest geometry.      *)
EXTENDS DramAddress

\* One bit beyond the largest modelled memory.
MCAddresses == SUBSET (0 .. 5)
\* Each field may also be one bit too wide.
MCLocations ==
    [bg : {{}, {0}, {1}}, bank : {{}, {0}, {1}},
     row : {{}, {0}, {1}, {0, 1}, {2}}, column : {{}, {0}, {1}}]
MCSizes == {7, 8, 15, 16, 24, 31, 32, 40, 64, 100}
==============================================================================
