-------------------------- MODULE OdeccChannelProofs --------------------------
(***************************************************************************)
(* Theorems about a codeword on the OdeccChannel: what one and what two    *)
(* inverted cells do to it.                                                *)
(***************************************************************************)
EXTENDS OdeccChannel, OdeccProofs

-----------------------------------------------------------------------------
(* The channel.                                                             *)

\* The cells are what was written with exactly the flipped cells inverted.
Ledger ==
    /\ data = SymDiff(written, flipped \cap DataBit)
    /\ parity = SymDiff(calc_parity(written), flipped \cap ParityBit)

IInv == TypeOK /\ Ledger

\* The cells of the channel always are what the ledger of writes and flips says.
THEOREM ChannelInductive == Spec => []IInv
<1>1. Init => IInv
  BY SamplesAssumption, ParityType DEF Init, IInv, TypeOK, Ledger, SymDiff
<1>2. IInv /\ [Next]_vars => IInv'
  <2> SUFFICES ASSUME IInv, [Next]_vars PROVE IInv'
    OBVIOUS
  <2> USE DEF IInv
  <2>1. ASSUME NEW b \in DataBit \cup ParityBit, Flip(b) PROVE IInv'
    <3>1. CASE b \in DataBit /\ FlipData(b)
      <4>1. TypeOK'
        BY <2>1, <3>1 DEF Flip, FlipData, TypeOK, SymDiff, Data
      <4>2. flipped' \cap DataBit = (flipped \cap DataBit) \cup {b} /\ b \notin flipped
        BY <2>1, <3>1 DEF Flip
      <4>3. flipped' \cap ParityBit = flipped \cap ParityBit
        BY <2>1, <3>1, OdeccAssumption DEF Flip
      <4>4. data' = SymDiff(written', flipped' \cap DataBit)
        BY <2>1, <3>1, <4>2 DEF Flip, FlipData, Ledger, SymDiff
      <4> QED BY <2>1, <3>1, <4>1, <4>3, <4>4 DEF Flip, FlipData, Ledger
    <3>2. CASE b \in ParityBit /\ FlipParity(b)
      <4>1. TypeOK'
        BY <2>1, <3>2 DEF Flip, FlipParity, TypeOK, SymDiff, Parity
      <4>2. flipped' \cap ParityBit = (flipped \cap ParityBit) \cup {b} /\ b \notin flipped
        BY <2>1, <3>2 DEF Flip
      <4>3. flipped' \cap DataBit = flipped \cap DataBit
        BY <2>1, <3>2, OdeccAssumption DEF Flip
      <4>4. parity' = SymDiff(calc_parity(written'), flipped' \cap ParityBit)
        BY <2>1, <3>2, <4>2 DEF Flip, FlipParity, Ledger, SymDiff
      <4> QED BY <2>1, <3>2, <4>1, <4>3, <4>4 DEF Flip, FlipParity, Ledger
    <3> QED BY <2>1, <3>1, <3>2 DEF Flip
  <2>2. ASSUME Decode PROVE IInv'
    <3> DEFINE r == odecc_decode(data, parity)
    <3>1. /\ data' = r.data /\ parity' = r.parity
          /\ flipped' = SymDiff(flipped, r.hit) /\ written' = written
      BY <2>2 DEF Decode
    <3>2. /\ r.data \in Data /\ r.parity \in Parity
          /\ r.hit = g_syndrome_to_pos[Syndrome(data, parity)]
          /\ r.data = SymDiff(data, r.hit \cap DataBit)
          /\ r.parity = SymDiff(parity, r.hit \cap ParityBit)
      BY DecodeCases DEF TypeOK, odecc_decode
    <3>3. r.hit \subseteq DataBit \cup ParityBit
      BY <3>2, SyndromeType, PositionUnique DEF TypeOK
    <3> HIDE DEF r
    <3>4. TypeOK'
      BY <3>1, <3>2, <3>3 DEF TypeOK, SymDiff
    <3>5. Ledger'
      BY <3>1, <3>2 DEF Ledger, SymDiff
    <3> QED BY <3>4, <3>5
  <2>3. CASE UNCHANGED vars
    BY <2>3 DEF vars, TypeOK, Ledger
  <2> QED BY <2>1, <2>2, <2>3 DEF Next
<1> QED BY <1>1, <1>2, PTL DEF Spec

\* A set of one element, without counting.
LEMMA OneCell ==
  ASSUME TypeOK, Cardinality(flipped) = 1 PROVE \E x : flipped = {x}
<1>1. IsFiniteSet(DataBit \cup ParityBit)
  BY OdeccAssumption, FS_Union
<1>2. IsFiniteSet(flipped)
  BY <1>1, FS_Subset DEF TypeOK
<1> QED BY <1>2, FS_Singleton

(***************************************************************************)
(* On every channel a codeword with one inverted cell decodes to what was  *)
(* written, and the decoder names the cell.                                *)
(***************************************************************************)
THEOREM ChannelCorrects == Spec => []SingleErrorCorrected
<1>1. IInv => SingleErrorCorrected
  <2> SUFFICES ASSUME IInv, Cardinality(flipped) = 1
               PROVE  /\ Decoded.rc = "CORRECTED"
                      /\ Decoded.data = written /\ Decoded.hit = flipped
    BY DEF SingleErrorCorrected
  <2>1. PICK x : flipped = {x}
    BY OneCell DEF IInv
  <2>2. written \in Data /\ x \in DataBit \cup ParityBit
    BY <2>1 DEF IInv, TypeOK
  <2>3. CASE x \in DataBit
    <3>1. data = SymDiff(written, {x})
      BY <2>1, <2>3 DEF IInv, Ledger, SymDiff
    <3>2. parity = calc_parity(written)
      BY <2>1, <2>3, OdeccAssumption DEF IInv, Ledger, SymDiff
    <3> QED BY <3>1, <3>2, <2>1, <2>2, <2>3, SingleDataError DEF Decoded
  <2>4. CASE x \in ParityBit
    <3>1. parity = SymDiff(calc_parity(written), {x})
      BY <2>1, <2>4 DEF IInv, Ledger, SymDiff
    <3>2. data = written
      BY <2>1, <2>4, OdeccAssumption DEF IInv, Ledger, SymDiff
    <3> QED BY <3>1, <3>2, <2>1, <2>2, <2>4, SingleParityError DEF Decoded
  <2> QED BY <2>2, <2>3, <2>4
<1> QED BY <1>1, ChannelInductive, PTL

(***************************************************************************)
(* In every state of the channel what the decoder corrects is a codeword.  *)
(***************************************************************************)
THEOREM ChannelLeavesCodeword == Spec => []CorrectionLeavesCodeword
<1>1. IInv => CorrectionLeavesCodeword
  BY CorrectedIsCodeword DEF IInv, TypeOK, CorrectionLeavesCodeword, Decoded
<1> QED BY <1>1, ChannelInductive, PTL

-----------------------------------------------------------------------------
\* With two cells inverted the syndrome is the XOR of their codes.
LEMMA DoubleSyndrome ==
  ASSUME IInv, NEW x, NEW y, x # y, flipped = {x, y}
  PROVE  Syndrome(data, parity) = SymDiff(Code(x), Code(y))
<1>1. /\ written \in Data /\ x \in DataBit \cup ParityBit /\ y \in DataBit \cup ParityBit
      /\ data = SymDiff(written, {x, y} \cap DataBit)
      /\ parity = SymDiff(calc_parity(written), {x, y} \cap ParityBit)
  BY DEF IInv, TypeOK, Ledger
<1>2. ASSUME NEW b \in DataBit, NEW c, c # b, NEW e \in Data
      PROVE  SymDiff(e, {b}) \in Data
  BY <1>2 DEF SymDiff, Data
<1>3. CASE x \in DataBit /\ y \in DataBit
  <2>1. data = SymDiff(SymDiff(written, {x}), {y}) /\ parity = calc_parity(written)
    BY <1>1, <1>3, OdeccAssumption DEF SymDiff
  <2>2. calc_parity(data) = SymDiff(SymDiff(calc_parity(written), Label[x]), Label[y])
    BY <2>1, <1>1, <1>2, <1>3, ParityFlip
  <2> QED BY <2>1, <2>2, <1>3 DEF Code, Syndrome, SymDiff
<1>4. CASE x \in DataBit /\ y \in ParityBit
  <2>1. data = SymDiff(written, {x}) /\ parity = SymDiff(calc_parity(written), {y})
    BY <1>1, <1>4, OdeccAssumption DEF SymDiff
  <2>2. calc_parity(data) = SymDiff(calc_parity(written), Label[x])
    BY <2>1, <1>1, <1>4, ParityFlip
  <2> QED BY <2>1, <2>2, <1>4, OdeccAssumption DEF Code, Syndrome, SymDiff
<1>5. CASE x \in ParityBit /\ y \in DataBit
  <2>1. data = SymDiff(written, {y}) /\ parity = SymDiff(calc_parity(written), {x})
    BY <1>1, <1>5, OdeccAssumption DEF SymDiff
  <2>2. calc_parity(data) = SymDiff(calc_parity(written), Label[y])
    BY <2>1, <1>1, <1>5, ParityFlip
  <2> QED BY <2>1, <2>2, <1>5, OdeccAssumption DEF Code, Syndrome, SymDiff
<1>6. CASE x \in ParityBit /\ y \in ParityBit
  <2>1. data = written /\ parity = SymDiff(calc_parity(written), {x, y})
    BY <1>1, <1>6, OdeccAssumption DEF SymDiff
  <2> QED BY <2>1, <1>6, OdeccAssumption DEF Code, Syndrome, SymDiff
<1> QED BY <1>1, <1>3, <1>4, <1>5, <1>6

(***************************************************************************)
(* Two inverted cells are always noticed; when the decoder corrects        *)
(* anyway, it inverts a third cell and neither of the two.                 *)
(***************************************************************************)
THEOREM ChannelNoticesDoubles == Spec => []DoubleErrorNeverClean
<1>1. IInv => DoubleErrorNeverClean
  <2> SUFFICES ASSUME IInv, Cardinality(flipped) = 2 PROVE DoubleErrorNeverClean
    BY DEF DoubleErrorNeverClean
  <2>1. PICK x, y : x # y /\ flipped = {x, y}
    <3>1. IsFiniteSet(flipped)
      <4>1. IsFiniteSet(DataBit \cup ParityBit)
        BY OdeccAssumption, FS_Union
      <4> QED BY <4>1, FS_Subset DEF IInv, TypeOK
    <3>2. PICK u : u \in flipped
      BY <3>1, FS_EmptySet
    <3>3. IsFiniteSet(flipped \ {u}) /\ Cardinality(flipped \ {u}) = 1
      BY <3>1, <3>2, FS_RemoveElement
    <3>4. PICK v : flipped \ {u} = {v}
      BY <3>3, FS_Singleton
    <3>5. u # v /\ flipped = {u, v}
      BY <3>2, <3>4
    <3> QED BY <3>5
  <2>2. x \in DataBit \cup ParityBit /\ y \in DataBit \cup ParityBit
    BY <2>1 DEF IInv, TypeOK
  <2>3. data \in Data /\ parity \in Parity
    BY DEF IInv, TypeOK
  <2>4. Syndrome(data, parity) = SymDiff(Code(x), Code(y))
    BY <2>1, DoubleSyndrome
  <2>5. /\ Code(x) # {} /\ Code(y) # {} /\ Code(x) # Code(y)
    BY <2>1, <2>2, CodesDiffer
  <2>6. Syndrome(data, parity) # {}
    BY <2>4, <2>5 DEF SymDiff
  <2>7. Syndrome(data, parity) # Code(x) /\ Syndrome(data, parity) # Code(y)
    BY <2>4, <2>5 DEF SymDiff
  <2>8. Decoded.hit \cap flipped = {}
    BY <2>1, <2>3, <2>7, HitHasCode DEF Decoded
  <2>9. Decoded.rc \in {"CORRECTED", "UNCORRECTABLE"}
    BY <2>3, <2>6, DecodeCases DEF Decoded
  <2>10. Decoded.rc = "UNCORRECTABLE" => Decoded.data = data /\ Decoded.parity = parity
    BY <2>3, DecodeCases DEF Decoded
  <2> QED BY <2>8, <2>9, <2>10 DEF DoubleErrorNeverClean
<1> QED BY <1>1, ChannelInductive, PTL

(***************************************************************************)
(* Decoding in place and inverting cells keep the codeword a codeword of   *)
(* its widths, whatever positions a syndrome names.                        *)
(***************************************************************************)
THEOREM ChannelTypeCorrect == Spec => []TypeOK
<1>1. IInv => TypeOK
  BY DEF IInv
<1> QED BY <1>1, ChannelInductive, PTL

==============================================================================
