----------------------------- MODULE OdeccChannel -----------------------------
(***************************************************************************)
(* One stored codeword between odecc_encode and odecc_decode: written      *)
(* once, then up to MaxFlips of its data or parity cells invert, in any    *)
(* order, before it is decoded.                                            *)
(***************************************************************************)
EXTENDS Odecc

CONSTANTS
    Samples,   \* the data words that are written
    MaxFlips   \* bound: cells inverted before the codeword is decoded

ASSUME SamplesAssumption == Samples \subseteq Data

VARIABLES
    written,   \* the data given to odecc_encode
    data,      \* the data cells
    parity,    \* the parity cells
    flipped    \* the cells that differ from what was written

vars == <<written, data, parity, flipped>>

Init ==
    /\ written \in Samples
    /\ data = written
    /\ parity = calc_parity(written)
    /\ flipped = {}

FlipData(b) ==
    /\ data' = SymDiff(data, {b})
    /\ UNCHANGED parity

FlipParity(b) ==
    /\ parity' = SymDiff(parity, {b})
    /\ UNCHANGED data

Flip(b) ==
    /\ Cardinality(flipped) < MaxFlips
    /\ b \notin flipped
    /\ flipped' = flipped \cup {b}
    /\ UNCHANGED written
    /\ \/ b \in DataBit /\ FlipData(b)
       \/ b \in ParityBit /\ FlipParity(b)

\* odecc_decode works in place on the codeword it is handed.
Decode ==
    LET result == odecc_decode(data, parity)
    IN  /\ data' = result.data
        /\ parity' = result.parity
        /\ flipped' = SymDiff(flipped, result.hit)
        /\ UNCHANGED written

Next == (\E b \in DataBit \cup ParityBit : Flip(b)) \/ Decode

Spec == Init /\ [][Next]_vars

-----------------------------------------------------------------------------
TypeOK ==
    /\ written \in Data
    /\ data \in Data
    /\ parity \in Parity
    /\ flipped \subseteq DataBit \cup ParityBit

Decoded == odecc_decode(data, parity)

(***************************************************************************)
(* One inverted cell, data or parity, is located exactly: the decoder      *)
(* reports that position and returns the data that was written             *)
(* (odecc.h:11).                                                           *)
(***************************************************************************)
SingleErrorCorrected ==
    Cardinality(flipped) = 1 =>
        /\ Decoded.rc = "CORRECTED"
        /\ Decoded.data = written
        /\ Decoded.hit = flipped

(***************************************************************************)
(* Two inverted cells never pass as a clean word: the decoder either       *)
(* reports them, touching nothing, or miscorrects a third position        *)
(* (odecc.h:11).                                                           *)
(***************************************************************************)
DoubleErrorNeverClean ==
    Cardinality(flipped) = 2 =>
        \/ /\ Decoded.rc = "UNCORRECTABLE"
           /\ Decoded.data = data /\ Decoded.parity = parity
        \/ /\ Decoded.rc = "CORRECTED"
           /\ Decoded.hit \cap flipped = {}

(***************************************************************************)
(* What the decoder corrected is a codeword, so decoding it again reports  *)
(* nothing: a miscorrection leaves no trace behind.                        *)
(***************************************************************************)
CorrectionLeavesCodeword ==
    Decoded.rc = "CORRECTED" => Syndrome(Decoded.data, Decoded.parity) = {}

==============================================================================
