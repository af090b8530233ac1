----------------------------- MODULE OdeccProofs -----------------------------
(***************************************************************************)
(* Theorems about the code of Odecc, for every table that satisfies        *)
(* OdeccAssumption.                                                        *)
(***************************************************************************)
EXTENDS Odecc, FiniteSetTheorems, TLAPS

\* calc_parity yields a parity byte.
LEMMA ParityType ==
  ASSUME NEW d PROVE calc_parity(d) \in Parity
BY DEF calc_parity, Parity

\* A syndrome is a set of parity bits.
LEMMA SyndromeType ==
  ASSUME NEW d, NEW q \in Parity PROVE Syndrome(d, q) \in Parity
BY ParityType DEF Syndrome, SymDiff, Parity

\* Inverting one data bit inverts exactly the parity bits of its code.
LEMMA ParityFlip ==
  ASSUME NEW d \in Data, NEW b \in DataBit
  PROVE  calc_parity(SymDiff(d, {b})) = SymDiff(calc_parity(d), Label[b])
<1> DEFINE Covered(e, p) == {x \in e : p \in Label[x]}
<1> DEFINE Odd(e, p) == Cardinality(Covered(e, p)) % 2 = 1
<1>1. ASSUME NEW p \in ParityBit, p \notin Label[b]
      PROVE  Odd(SymDiff(d, {b}), p) <=> Odd(d, p)
  <2>1. Covered(SymDiff(d, {b}), p) = Covered(d, p)
    BY <1>1 DEF SymDiff
  <2> QED BY <2>1
<1>2. ASSUME NEW p \in ParityBit, p \in Label[b]
      PROVE  Odd(SymDiff(d, {b}), p) <=> ~Odd(d, p)
  <2>1. IsFiniteSet(Covered(d, p))
    <3>1. Covered(d, p) \in SUBSET DataBit
      BY DEF Data
    <3> QED BY <3>1, OdeccAssumption, FS_Subset
  <2>2. Cardinality(Covered(d, p)) \in Nat
    BY <2>1, FS_CardinalityType
  <2>3. CASE b \in d
    <3>1. Covered(SymDiff(d, {b}), p) = Covered(d, p) \ {b} /\ b \in Covered(d, p)
      BY <1>2, <2>3 DEF SymDiff
    <3>2. Cardinality(Covered(SymDiff(d, {b}), p)) = Cardinality(Covered(d, p)) - 1
      BY <3>1, <2>1, FS_RemoveElement
    <3>3. Cardinality(Covered(d, p)) # 0
      BY <3>1, <2>1, FS_EmptySet
    <3> HIDE DEF Covered
    <3> QED BY <3>2, <3>3, <2>2
  <2>4. CASE b \notin d
    <3>1. Covered(SymDiff(d, {b}), p) = Covered(d, p) \cup {b} /\ b \notin Covered(d, p)
      BY <1>2, <2>4 DEF SymDiff
    <3>2. Cardinality(Covered(SymDiff(d, {b}), p)) = Cardinality(Covered(d, p)) + 1
      BY <3>1, <2>1, FS_AddElement
    <3> HIDE DEF Covered
    <3> QED BY <3>2, <2>2
  <2> QED BY <2>3, <2>4
<1>3. calc_parity(SymDiff(d, {b})) = {p \in ParityBit : Odd(SymDiff(d, {b}), p)}
  BY DEF calc_parity
<1>4. calc_parity(d) = {p \in ParityBit : Odd(d, p)}
  BY DEF calc_parity
<1>5. Label[b] \subseteq ParityBit
  BY OdeccAssumption
<1> HIDE DEF Odd
<1> QED BY <1>1, <1>2, <1>3, <1>4, <1>5 DEF SymDiff

\* The code of a position is assigned to that position alone.
LEMMA PositionOfCode ==
  /\ \A b \in DataBit : g_syndrome_to_pos[Label[b]] = {b}
  /\ \A p \in ParityBit : g_syndrome_to_pos[{p}] = {p}
<1>1. ASSUME NEW b \in DataBit PROVE g_syndrome_to_pos[Label[b]] = {b}
  <2>1. Label[b] \in Parity
    BY OdeccAssumption DEF Parity
  <2> QED BY <2>1, OdeccAssumption DEF g_syndrome_to_pos
<1>2. ASSUME NEW p \in ParityBit PROVE g_syndrome_to_pos[{p}] = {p}
  <2>1. {p} \in Parity
    BY DEF Parity
  <2> QED BY <2>1, OdeccAssumption DEF g_syndrome_to_pos
<1> QED BY <1>1, <1>2

\* A position a syndrome is assigned to has that syndrome for its code.
LEMMA PositionUnique ==
  ASSUME NEW s \in Parity
  PROVE  /\ g_syndrome_to_pos[s] \subseteq DataBit \cup ParityBit
         /\ \A b \in g_syndrome_to_pos[s] \cap DataBit : s = Label[b]
         /\ \A p \in g_syndrome_to_pos[s] \cap ParityBit : s = {p}
BY OdeccAssumption DEF g_syndrome_to_pos

\* The decoder's three outcomes, and what it leaves in each.
LEMMA DecodeCases ==
  ASSUME NEW d \in Data, NEW q \in Parity
  PROVE  /\ odecc_decode(d, q).data \in Data
         /\ odecc_decode(d, q).parity \in Parity
         /\ odecc_decode(d, q).rc \in {"OK", "CORRECTED", "UNCORRECTABLE"}
         /\ odecc_decode(d, q).rc = "OK" <=> Syndrome(d, q) = {}
         /\ odecc_decode(d, q).rc # "CORRECTED" =>
              /\ odecc_decode(d, q).data = d
              /\ odecc_decode(d, q).parity = q
              /\ odecc_decode(d, q).hit = {}
         /\ odecc_decode(d, q).rc = "CORRECTED" =>
              \/ \E b \in DataBit :
                    /\ odecc_decode(d, q).hit = {b} /\ Syndrome(d, q) = Label[b]
                    /\ odecc_decode(d, q).data = SymDiff(d, {b})
                    /\ odecc_decode(d, q).parity = q
              \/ \E p \in ParityBit :
                    /\ odecc_decode(d, q).hit = {p} /\ Syndrome(d, q) = {p}
                    /\ odecc_decode(d, q).data = d
                    /\ odecc_decode(d, q).parity = SymDiff(q, {p})
<1> DEFINE r == odecc_decode(d, q)
<1> DEFINE s == Syndrome(d, q)
<1>1. /\ r.data = SymDiff(d, r.hit \cap DataBit)
      /\ r.parity = SymDiff(q, r.hit \cap ParityBit)
      /\ r.hit = g_syndrome_to_pos[s]
      /\ r.rc = IF s = {} THEN "OK"
                ELSE IF g_syndrome_to_pos[s] = {} THEN "UNCORRECTABLE" ELSE "CORRECTED"
  BY DEF odecc_decode
<1>2. g_syndrome_to_pos[{}] = {}
  BY OdeccAssumption DEF g_syndrome_to_pos, Parity
<1>8. s \in Parity
  BY SyndromeType
<1> HIDE DEF r, s
<1>3. r.rc = "OK" <=> s = {}
  BY <1>1
<1>4. r.data \in Data /\ r.parity \in Parity
  BY <1>1, <1>8, PositionUnique, PositionOfCode DEF Data, Parity, SymDiff
<1>5. r.rc # "CORRECTED" => r.data = d /\ r.parity = q /\ r.hit = {}
  <2>1. r.rc # "CORRECTED" => r.hit = {}
    BY <1>1, <1>2
  <2> QED BY <2>1, <1>1 DEF SymDiff
<1>6. ASSUME r.rc = "CORRECTED"
      PROVE  \/ \E b \in DataBit : /\ r.hit = {b} /\ s = Label[b]
                                   /\ r.data = SymDiff(d, {b}) /\ r.parity = q
             \/ \E p \in ParityBit : /\ r.hit = {p} /\ s = {p}
                                     /\ r.data = d /\ r.parity = SymDiff(q, {p})
  <2>1. PICK x \in g_syndrome_to_pos[s] : TRUE
    BY <1>1, <1>6
  <2>2. CASE x \in DataBit
    <3>1. s = Label[x] /\ r.hit = {x}
      BY <1>1, <2>1, <2>2, <1>8, PositionUnique, PositionOfCode
    <3>2. r.hit \cap DataBit = {x} /\ r.hit \cap ParityBit = {}
      BY <3>1, <2>2, OdeccAssumption
    <3>3. r.data = SymDiff(d, {x}) /\ r.parity = q
      BY <1>1, <3>2 DEF SymDiff
    <3> QED BY <2>2, <3>1, <3>3
  <2>3. CASE x \in ParityBit
    <3>1. s = {x} /\ r.hit = {x}
      BY <1>1, <2>1, <2>3, <1>8, PositionUnique, PositionOfCode
    <3>2. r.hit \cap DataBit = {} /\ r.hit \cap ParityBit = {x}
      BY <3>1, <2>3, OdeccAssumption
    <3>3. r.data = d /\ r.parity = SymDiff(q, {x})
      BY <1>1, <3>2 DEF SymDiff
    <3> QED BY <2>3, <3>1, <3>3
  <2> QED BY <2>1, <2>2, <2>3, <1>8, PositionUnique, PositionOfCode
<1>7. r.rc \in {"OK", "CORRECTED", "UNCORRECTABLE"}
  BY <1>1
<1> QED BY <1>3, <1>4, <1>5, <1>6, <1>7 DEF r, s

-----------------------------------------------------------------------------
\* What odecc_encode stores decodes as it is.
LEMMA CleanDecode ==
  ASSUME NEW d \in Data
  PROVE  LET r == odecc_decode(d, calc_parity(d))
         IN  r.rc = "OK" /\ r.data = d
<1>1. Syndrome(d, calc_parity(d)) = {}
  BY DEF Syndrome, SymDiff
<1> QED BY <1>1, ParityType, DecodeCases

(***************************************************************************)
(* Single-error correction (odecc.c, odecc_decode): one inverted data cell *)
(* is located and the word that was encoded comes back, for every table    *)
(* with the properties of OdeccAssumption.                                 *)
(***************************************************************************)
THEOREM SingleDataError ==
  ASSUME NEW d \in Data, NEW b \in DataBit
  PROVE  LET r == odecc_decode(SymDiff(d, {b}), calc_parity(d))
         IN  r.rc = "CORRECTED" /\ r.data = d /\ r.parity = calc_parity(d) /\ r.hit = {b}
<1> DEFINE e == SymDiff(d, {b})
<1>1. e \in Data
  BY DEF Data, SymDiff
<1>2. Syndrome(e, calc_parity(d)) = Label[b]
  BY ParityFlip DEF Syndrome, SymDiff
<1>3. g_syndrome_to_pos[Label[b]] = {b} /\ Label[b] # {}
  BY PositionOfCode, OdeccAssumption
<1>4. b \in DataBit /\ {b} \cap DataBit = {b} /\ {b} \cap ParityBit = {}
  BY OdeccAssumption
<1>5. SymDiff(e, {b}) = d
  BY DEF SymDiff, Data
<1>6. SymDiff(calc_parity(d), {}) = calc_parity(d)
  BY DEF SymDiff
<1>7. LET r == odecc_decode(e, calc_parity(d))
      IN  r.rc = "CORRECTED" /\ r.data = d /\ r.parity = calc_parity(d) /\ r.hit = {b}
  <2> HIDE DEF e
  <2> QED BY <1>1, <1>2, <1>3, <1>4, <1>5, <1>6 DEF odecc_decode
<1> QED BY <1>7

\* One inverted parity cell is located too, and the data is left alone.
THEOREM SingleParityError ==
  ASSUME NEW d \in Data, NEW p \in ParityBit
  PROVE  LET r == odecc_decode(d, SymDiff(calc_parity(d), {p}))
         IN  r.rc = "CORRECTED" /\ r.data = d /\ r.parity = calc_parity(d) /\ r.hit = {p}
<1> DEFINE q == SymDiff(calc_parity(d), {p})
<1>1. q \in Parity
  BY DEF calc_parity, Parity, SymDiff
<1>2. Syndrome(d, q) = {p}
  BY ParityType DEF Syndrome, SymDiff, Parity
<1>3. g_syndrome_to_pos[{p}] = {p}
  BY PositionOfCode
<1>4. {p} \cap ParityBit = {p} /\ {p} \cap DataBit = {}
  BY OdeccAssumption
<1>5. SymDiff(q, {p}) = calc_parity(d) /\ SymDiff(d, {}) = d
  BY DEF SymDiff
<1>6. LET r == odecc_decode(d, q)
      IN  r.rc = "CORRECTED" /\ r.data = d /\ r.parity = calc_parity(d) /\ r.hit = {p}
  <2> HIDE DEF q
  <2> QED BY <1>1, <1>2, <1>3, <1>4, <1>5 DEF odecc_decode
<1> QED BY <1>6

(***************************************************************************)
(* Whatever odecc_decode corrects it turns into a codeword, a miscorrected *)
(* one included: the next decode finds nothing.                            *)
(***************************************************************************)
THEOREM CorrectedIsCodeword ==
  ASSUME NEW d \in Data, NEW q \in Parity, odecc_decode(d, q).rc = "CORRECTED"
  PROVE  Syndrome(odecc_decode(d, q).data, odecc_decode(d, q).parity) = {}
<1> DEFINE r == odecc_decode(d, q)
<1> DEFINE s == Syndrome(d, q)
<1>1. \/ \E b \in DataBit : /\ r.hit = {b} /\ s = Label[b]
                            /\ r.data = SymDiff(d, {b}) /\ r.parity = q
      \/ \E p \in ParityBit : /\ r.hit = {p} /\ s = {p}
                              /\ r.data = d /\ r.parity = SymDiff(q, {p})
  BY DecodeCases
<1> HIDE DEF r
<1>2. ASSUME NEW b \in DataBit, s = Label[b], r.data = SymDiff(d, {b}), r.parity = q
      PROVE  Syndrome(r.data, r.parity) = {}
  <2>1. calc_parity(r.data) = SymDiff(calc_parity(d), Label[b])
    BY <1>2, ParityFlip
  <2>2. Label[b] = SymDiff(calc_parity(d), q)
    BY <1>2 DEF Syndrome
  <2> QED BY <2>1, <2>2, <1>2 DEF Syndrome, SymDiff
<1>3. ASSUME NEW p \in ParityBit, s = {p}, r.data = d, r.parity = SymDiff(q, {p})
      PROVE  Syndrome(r.data, r.parity) = {}
  <2>1. SymDiff(calc_parity(d), q) = {p}
    BY <1>3 DEF Syndrome
  <2> QED BY <2>1, <1>3 DEF Syndrome, SymDiff
<1> QED BY <1>1, <1>2, <1>3 DEF r

-----------------------------------------------------------------------------
\* The code of a position: a data bit's label, a parity bit's power of two.
Code(x) == IF x \in DataBit THEN Label[x] ELSE {x}

\* No two cells have the same code, and none has the code of a clean word.
LEMMA CodesDiffer ==
  ASSUME NEW x \in DataBit \cup ParityBit, NEW y \in DataBit \cup ParityBit
  PROVE  Code(x) # {} /\ (Code(x) = Code(y) => x = y)
BY OdeccAssumption DEF Code

\* The cell the decoder inverts is the one whose code is the syndrome.
LEMMA HitHasCode ==
  ASSUME NEW d \in Data, NEW q \in Parity, NEW x \in odecc_decode(d, q).hit
  PROVE  x \in DataBit \cup ParityBit /\ Syndrome(d, q) = Code(x)
<1>1. odecc_decode(d, q).hit = g_syndrome_to_pos[Syndrome(d, q)]
  BY DEF odecc_decode
<1>2. x \in g_syndrome_to_pos[Syndrome(d, q)]
  BY <1>1
<1> QED BY <1>2, SyndromeType, PositionUnique, OdeccAssumption DEF Code

==============================================================================
