------------------------------- MODULE MCOdecc -------------------------------
(* The real 128 + 8 table of the program; two data words. *)
EXTENDS OdeccChannel, OdeccTable

MCDataBit == 0 .. ODECC_DATA_BITS - 1
MCSamples == {{}, {0, 1, 63, 127}}

==============================================================================
