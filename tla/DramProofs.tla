------------------------------ MODULE DramProofs ------------------------------
(***************************************************************************)
(* Theorems about DramModel, and about it in the regime of ProtectedDram,  *)
(* for every size of memory, every table of codes that satisfies           *)
(* OdeccAssumption, every menu of faults and all bounds.                   *)
(***************************************************************************)
EXTENDS ProtectedDram, OdeccProofs, WellFoundedInduction

-----------------------------------------------------------------------------
(* Induction over the naturals, and functions defined by recursion over an  *)
(* initial segment of them, stated with sets so that they can be cited      *)
(* without an operator argument.                                            *)

\* A set that holds 0 and the successor of each of its naturals holds them all.
LEMMA SetInduction ==
  ASSUME NEW T, 0 \in T, \A n \in Nat : n \in T => n + 1 \in T
  PROVE  Nat \subseteq T
<1> DEFINE R == OpToRel(<, Nat)
<1> SUFFICES ASSUME Nat \ T # {} PROVE FALSE
  OBVIOUS
<1>1. IsWellFoundedOn(R, Nat)
  BY NatLessThanWellFounded
<1>2. PICK x \in Nat \ T : \A y \in Nat \ T : <<y, x>> \notin R
  <2> HIDE DEF R
  <2>1. Nat \ T \subseteq Nat
    OBVIOUS
  <2> QED BY <1>1, <2>1, WFMin
<1> HIDE DEF R
<1>3. x \in Nat /\ x \notin T
  BY <1>2
<1>4. x # 0 /\ x - 1 \in Nat /\ (x - 1) + 1 = x
  BY <1>3
<1>5. <<x - 1, x>> \in R
  BY <1>3, <1>4 DEF OpToRel, R
<1>6. x - 1 \in T
  BY <1>2, <1>4, <1>5
<1> QED BY <1>3, <1>4, <1>6

\* A bounded set of naturals that is not empty has a largest element.
LEMMA BoundedMaximum ==
  ASSUME NEW n \in Nat, NEW S, S \subseteq 0 .. n, S # {}
  PROVE  \E m \in S : \A k \in S : k <= m
<1> DEFINE T == {j \in Nat : \A k \in S : k <= n - j}
<1> SUFFICES ASSUME \A m \in S : \E k \in S : ~(k <= m) PROVE FALSE
  OBVIOUS
<1>1. 0 \in T
  OBVIOUS
<1>2. ASSUME NEW j \in Nat, j \in T PROVE j + 1 \in T
  <2>1. n - j \notin S
    <3> SUFFICES ASSUME n - j \in S PROVE FALSE
      OBVIOUS
    <3> QED BY <1>2
  <2>2. ASSUME NEW k \in S PROVE k <= n - (j + 1)
    BY <1>2, <2>1
  <2> QED BY <2>2
<1>3. n + 1 \in T
  <2> HIDE DEF T
  <2>1. Nat \subseteq T
    BY <1>1, <1>2, SetInduction
  <2> QED BY <2>1
<1>4. \A k \in S : k <= n - (n + 1)
  BY <1>3
<1>5. PICK k \in S : k \in 0 .. n
  OBVIOUS
<1> QED BY <1>4, <1>5

\* What holds of a and passes from each number to the next holds from a to n.
LEMMA Climb ==
  ASSUME NEW a \in Nat, NEW n \in Nat, NEW T, a \in T,
         \A i \in a .. n - 1 : i \in T => i + 1 \in T
  PROVE  a .. n \subseteq T
<1> DEFINE U == {k \in Nat : a + k <= n => a + k \in T}
<1>1. 0 \in U
  OBVIOUS
<1>2. ASSUME NEW k \in Nat, k \in U PROVE k + 1 \in U
  <2> SUFFICES ASSUME a + (k + 1) <= n PROVE a + (k + 1) \in T
    OBVIOUS
  <2>1. a + k \in a .. n - 1 /\ a + k \in T /\ (a + k) + 1 = a + (k + 1)
    BY <1>2
  <2> QED BY <2>1
<1>3. Nat \subseteq U
  <2> HIDE DEF U
  <2> QED BY <1>1, <1>2, SetInduction
<1>4. ASSUME NEW i \in a .. n PROVE i \in T
  <2>1. i - a \in U /\ a + (i - a) = i
    BY <1>3
  <2> QED BY <2>1
<1> QED BY <1>4

\* Recursion over 0 .. n inside a set S has a solution with values in S.
Recurs(g, n, b, F) == g[0] = b /\ \A i \in 1 .. n : g[i] = F[i][g[i - 1]]

LEMMA RecursionExists ==
  ASSUME NEW n \in Nat, NEW S, NEW b \in S, NEW F \in [1 .. n -> [S -> S]]
  PROVE  \E g \in [0 .. n -> S] : Recurs(g, n, b, F)
<1> DEFINE Solves(g, k) == g[0] = b /\ \A i \in 1 .. k : g[i] = F[i][g[i - 1]]
<1> DEFINE T == {k \in Nat : \E g \in [0 .. k -> S] : Solves(g, k)}
<1>1. 0 \in T
  <2>1. [i \in 0 .. 0 |-> b] \in [0 .. 0 -> S] /\ Solves([i \in 0 .. 0 |-> b], 0)
    OBVIOUS
  <2> QED BY <2>1
<1>2. ASSUME NEW k \in 0 .. n - 1, k \in T PROVE k + 1 \in T
  <2>1. PICK g \in [0 .. k -> S] : Solves(g, k)
    BY <1>2
  <2> DEFINE h == [i \in 0 .. k + 1 |-> IF i <= k THEN g[i] ELSE F[k + 1][g[k]]]
  <2>2. g[k] \in S /\ k + 1 \in 1 .. n
    BY <2>1
  <2>3. h \in [0 .. k + 1 -> S] /\ h[0] = b
    BY <2>1, <2>2
  <2>4. ASSUME NEW i \in 1 .. k + 1 PROVE h[i] = F[i][h[i - 1]]
    <3>1. CASE i <= k
      <4>1. h[i] = g[i] /\ h[i - 1] = g[i - 1]
        BY <3>1
      <4> QED BY <4>1, <3>1, <2>1
    <3>2. CASE i = k + 1
      <4>1. h[i] = F[k + 1][g[k]] /\ h[i - 1] = g[k]
        BY <3>2
      <4> QED BY <4>1, <3>2
    <3> QED BY <3>1, <3>2
  <2>5. Solves(h, k + 1)
    BY <2>3, <2>4
  <2> HIDE DEF h, Solves
  <2> QED BY <2>3, <2>5
<1> HIDE DEF T
<1>3. n \in T
  <2>1. 0 .. n \subseteq T
    BY <1>1, <1>2, Climb
  <2> QED BY <2>1
<1> QED BY <1>3 DEF T, Recurs

-----------------------------------------------------------------------------
(* Flattening a sequence of texts.                                          *)

-----------------------------------------------------------------------------
(* Types of what an access works on.                                        *)

\* The stuck cells of a codeword are among its data bits.
LEMMA StuckTypes ==
  ASSUME TypeOK, NEW c
  PROVE  /\ StuckBits(c) \subseteq DataBit
         /\ ForcedTo1(c) \subseteq StuckBits(c)
<1>1. \A i \in DOMAIN faults : faults[i] \in Fault
  BY DramAssumption DEF TypeOK
<1>2. \A i \in DOMAIN faults : faults[i].mask \subseteq DataBit
  BY <1>1 DEF Fault, Mask
<1> QED BY <1>2 DEF StuckBits, ForcedTo1, StuckFaults

\* What an access loads, decodes and returns is the data of a codeword.
LEMMA AccessTypes ==
  ASSUME TypeOK, NEW c \in Codeword
  PROVE  /\ load_codeword(c) \in Data
         /\ Decoded(c).data \in Data
         /\ View(c) \in Data
<1>1. load_codeword(c) \in Data
  BY StuckTypes DEF load_codeword, apply_stuck_faults_codeword, TypeOK, Data
<1>2. Decoded(c).data \in Data
  BY <1>1, DecodeCases DEF Decoded, TypeOK
<1> QED BY <1>1, <1>2 DEF View

\* The cells a write works on: the copy to be stored and the whole memory.
Work == [copy : Data, raw : [Codeword -> Data]]

\* One fault of the write path turns a codeword copy and cells into such again.
LEMMA WriteFaultType ==
  ASSUME NEW f \in Fault, NEW c \in Codeword, NEW old \in Data, NEW s \in Work
  PROVE  WriteFault(f, c, old, s) \in Work
<1> USE DEF Work
<1>1. /\ s.copy \in Data /\ s.raw \in [Codeword -> Data]
      /\ f.mask \subseteq DataBit /\ f.victim_mask \subseteq DataBit /\ f.victim_cw \in Codeword
  BY DEF Fault, Mask
<1>2. /\ s.copy \ ((s.copy \ old) \cap f.mask) \in Data
      /\ s.copy \cup ((old \ s.copy) \cap f.mask) \in Data
      /\ SymDiff(s.copy, f.victim_mask) \in Data
  BY <1>1 DEF Data, SymDiff
<1>3. SymDiff(s.raw[f.victim_cw], f.victim_mask) \in Data
  BY <1>1 DEF Data, SymDiff
<1>4. /\ \A v \in Data : [s EXCEPT !.copy = v] \in Work
      /\ \A v \in Data : [s EXCEPT !.raw[f.victim_cw] = v] \in Work
  BY <1>1
<1> QED BY <1>2, <1>3, <1>4 DEF WriteFault

\* A write applies the entries of the fault table one after the other.
LEMMA WriteFaultsUnfold ==
  ASSUME TypeOK, NEW c \in Codeword, NEW old \in Data, NEW new \in Data
  PROVE  \E s \in [0 .. Len(faults) -> Work] :
            /\ s[0] = [copy |-> new, raw |-> data]
            /\ \A i \in 1 .. Len(faults) : s[i] = WriteFault(faults[i], c, old, s[i - 1])
            /\ apply_write_faults_codeword(c, old, new) = s[Len(faults)]
<1> DEFINE n == Len(faults)
<1> DEFINE base == [copy |-> new, raw |-> data]
<1> DEFINE step == [i \in 1 .. n |-> [s \in Work |-> WriteFault(faults[i], c, old, s)]]
<1> DEFINE Eqn(s) == s = [i \in 0 .. n |->
                            IF i = 0 THEN base ELSE WriteFault(faults[i], c, old, s[i - 1])]
<1>1. n \in Nat /\ \A i \in 1 .. n : faults[i] \in Fault
  BY DramAssumption DEF TypeOK
<1>2. base \in Work
  BY DEF Work, TypeOK
<1>3. \A i \in 1 .. n : \A s \in Work : WriteFault(faults[i], c, old, s) \in Work
  BY <1>1, WriteFaultType
<1>4. step \in [1 .. n -> [Work -> Work]]
  BY <1>3
<1> HIDE DEF n, base
<1>5. PICK g \in [0 .. n -> Work] :
          g[0] = base /\ \A i \in 1 .. n : g[i] = step[i][g[i - 1]]
  <2> HIDE DEF step
  <2>1. n \in Nat
    BY <1>1
  <2>2. \E g \in [0 .. n -> Work] : Recurs(g, n, base, step)
    BY <2>1, <1>2, <1>4, RecursionExists
  <2> QED BY <2>2 DEF Recurs
<1>6. Eqn(g)
  <2>1. \A i \in 1 .. n : g[i - 1] \in Work
    BY <1>1, <1>5
  <2>2. \A i \in 1 .. n : g[i] = WriteFault(faults[i], c, old, g[i - 1])
    BY <1>5, <2>1
  <2>3. \A i \in 0 .. n :
           g[i] = IF i = 0 THEN base ELSE WriteFault(faults[i], c, old, g[i - 1])
    BY <1>1, <1>5, <2>2
  <2> QED BY <1>5, <2>3
<1> DEFINE s == CHOOSE s : Eqn(s)
<1>7. Eqn(s)
  BY <1>6
<1>8. apply_write_faults_codeword(c, old, new) = s[n]
  BY DEF apply_write_faults_codeword, n, base
<1> HIDE DEF s
<1>9. /\ s[0] = base
      /\ \A i \in 1 .. n : s[i] = WriteFault(faults[i], c, old, s[i - 1])
  BY <1>1, <1>7
<1> DEFINE T == {k \in Nat : k <= n => s[k] \in Work}
<1>10. Nat \subseteq T
  <2>1. 0 \in T
    BY <1>2, <1>9
  <2>2. ASSUME NEW k \in Nat, k \in T PROVE k + 1 \in T
    <3>1. CASE k + 1 <= n
      <4>1. k + 1 \in 1 .. n /\ (k + 1) - 1 = k /\ s[k] \in Work
        BY <1>1, <2>2, <3>1
      <4> QED BY <4>1, <1>3, <1>9
    <3> QED BY <3>1
  <2> HIDE DEF T
  <2> QED BY <2>1, <2>2, SetInduction
<1>11. s \in [0 .. n -> Work]
  <2>1. \A i \in 0 .. n : s[i] \in Work
    BY <1>1, <1>10
  <2> QED BY <1>7, <2>1
<1> QED BY <1>8, <1>9, <1>11 DEF n, base

\* So do all faults of the table, one after the other.
LEMMA WriteFaultsType ==
  ASSUME TypeOK, NEW c \in Codeword, NEW old \in Data, NEW new \in Data
  PROVE  apply_write_faults_codeword(c, old, new) \in Work
<1>1. Len(faults) \in 0 .. Len(faults)
  BY DEF TypeOK
<1>2. PICK s \in [0 .. Len(faults) -> Work] :
          apply_write_faults_codeword(c, old, new) = s[Len(faults)]
  BY WriteFaultsUnfold
<1> QED BY <1>1, <1>2

\* The cells of c that coupling faults invert when their aggressor is written.
VictimBits(c) ==
    UNION {faults[i].victim_mask : i \in {j \in DOMAIN faults :
              faults[j].type = "COUPLING_INV" /\ faults[j].victim_cw = c}}

\* A fault that leaves the codeword being written to c as it is.
Spares(f, c) ==
    f.cw = c /\ f.type \notin StuckType \cup {"RETENTION"} =>
        f.type = "COUPLING_INV" /\ f.victim_cw # c

\* A fault that spares the codeword's cells may invert a victim elsewhere, no more.
LEMMA SparingFault ==
  ASSUME NEW f \in Fault, NEW c \in Codeword, NEW old \in Data, NEW s \in Work, Spares(f, c)
  PROVE  /\ WriteFault(f, c, old, s).copy = s.copy
         /\ \A d \in Codeword :
              \/ WriteFault(f, c, old, s).raw[d] = s.raw[d]
              \/ /\ f.type = "COUPLING_INV" /\ f.victim_cw = d
                 /\ WriteFault(f, c, old, s).raw[d] = SymDiff(s.raw[d], f.victim_mask)
<1>1. f.type \in FaultType /\ f.victim_cw \in Codeword
  BY DEF Fault
<1>2. s.raw \in [Codeword -> Data]
  BY DEF Work
<1>3. CASE f.cw = c /\ f.type = "COUPLING_INV" /\ SymDiff(old, s.copy) \cap f.mask # {}
  <2>1. f.victim_cw # c
    BY <1>3 DEF Spares, StuckType
  <2>2. WriteFault(f, c, old, s)
            = [s EXCEPT !.raw[f.victim_cw] = SymDiff(@, f.victim_mask)]
    BY <1>3, <2>1 DEF WriteFault
  <2>3. /\ WriteFault(f, c, old, s).copy = s.copy
        /\ WriteFault(f, c, old, s).raw
              = [s.raw EXCEPT ![f.victim_cw] = SymDiff(@, f.victim_mask)]
    BY <2>2 DEF Work
  <2> QED BY <1>1, <1>2, <1>3, <2>3
<1>4. CASE ~(f.cw = c /\ f.type = "COUPLING_INV" /\ SymDiff(old, s.copy) \cap f.mask # {})
  <2>1. WriteFault(f, c, old, s) = s
    BY <1>1, <1>4 DEF WriteFault, Spares, FaultType, StuckType
  <2> QED BY <2>1
<1> QED BY <1>3, <1>4

\* Through the whole table: the copy stays, and elsewhere only victims change.
LEMMA SparingFaults ==
  ASSUME TypeOK, NEW c \in Codeword, NEW old \in Data, NEW new \in Data,
         \A i \in DOMAIN faults : Spares(faults[i], c)
  PROVE  /\ apply_write_faults_codeword(c, old, new).copy = new
         /\ \A d \in Codeword :
              SymDiff(apply_write_faults_codeword(c, old, new).raw[d], data[d])
                  \subseteq VictimBits(d)
<1> DEFINE n == Len(faults)
<1>1. n \in Nat /\ \A i \in 1 .. n : i \in DOMAIN faults /\ faults[i] \in Fault
  BY DramAssumption DEF TypeOK
<1>2. PICK s \in [0 .. n -> Work] :
          /\ s[0] = [copy |-> new, raw |-> data]
          /\ \A i \in 1 .. n : s[i] = WriteFault(faults[i], c, old, s[i - 1])
          /\ apply_write_faults_codeword(c, old, new) = s[n]
  BY WriteFaultsUnfold
<1> HIDE DEF n
<1> DEFINE Kept(t) == t.copy = new /\ \A d \in Codeword :
                                        SymDiff(t.raw[d], data[d]) \subseteq VictimBits(d)
<1> DEFINE T == {k \in Nat : k <= n => Kept(s[k])}
<1>3. 0 \in T
  BY <1>2 DEF SymDiff
<1>4. ASSUME NEW k \in Nat, k \in T PROVE k + 1 \in T
  <2> SUFFICES ASSUME k + 1 <= n PROVE Kept(s[k + 1])
    OBVIOUS
  <2> DEFINE i == k + 1
  <2>1. i \in 1 .. n /\ i - 1 = k /\ k \in 0 .. n /\ Kept(s[k])
    BY <1>1, <1>4
  <2>2. faults[i] \in Fault /\ i \in DOMAIN faults /\ s[k] \in Work
    BY <1>1, <1>2, <2>1
  <2>3. s[i] = WriteFault(faults[i], c, old, s[k])
    BY <1>2, <2>1
  <2> HIDE DEF i
  <2>4. s[i].copy = s[k].copy
    BY <2>2, <2>3, SparingFault
  <2>5. ASSUME NEW d \in Codeword PROVE SymDiff(s[i].raw[d], data[d]) \subseteq VictimBits(d)
    <3>1. SymDiff(s[k].raw[d], data[d]) \subseteq VictimBits(d)
      BY <2>1
    <3>2. CASE s[i].raw[d] = s[k].raw[d]
      BY <3>1, <3>2
    <3>3. CASE /\ faults[i].type = "COUPLING_INV" /\ faults[i].victim_cw = d
               /\ s[i].raw[d] = SymDiff(s[k].raw[d], faults[i].victim_mask)
      <4>1. faults[i].victim_mask \subseteq VictimBits(d)
        BY <2>2, <3>3 DEF VictimBits
      <4> QED BY <3>1, <3>3, <4>1 DEF SymDiff
    <3> QED BY <2>2, <2>3, <3>2, <3>3, SparingFault
  <2> QED BY <2>1, <2>4, <2>5 DEF i
<1>5. n \in T
  <2> HIDE DEF T
  <2> QED BY <1>1, <1>3, <1>4, SetInduction
<1> QED BY <1>1, <1>2, <1>5

-----------------------------------------------------------------------------
(* Type correctness.                                                        *)

\* The ECC counters stay numbers and the last corrected address a codeword.
LEMMA CountTypes ==
  ASSUME TypeOK, NEW corrected \in SUBSET Codeword, NEW uncorrectable \in SUBSET Codeword,
         CountEcc(corrected, uncorrectable, LastOf(corrected))
  PROVE  ecc_corr_count' \in Nat /\ ecc_uncorr_count' \in Nat /\ ecc_last_corr_addr' \in Codeword
<1>1. Codewords \in Nat \ {0} /\ Codewords - 1 \in Nat /\ Codeword = 0 .. Codewords - 1
  BY DramAssumption DEF Codeword
<1>2. IsFiniteSet(Codeword)
  BY <1>1, FS_Interval
<1>3. Cardinality(corrected) \in Nat /\ Cardinality(uncorrectable) \in Nat
  <2>1. IsFiniteSet(corrected) /\ IsFiniteSet(uncorrectable)
    BY <1>2, FS_Subset
  <2> QED BY <2>1, FS_CardinalityType
<1>4. LastOf(corrected) \in Codeword
  <2>1. CASE corrected = {}
    BY <2>1 DEF LastOf, TypeOK
  <2>2. CASE corrected # {}
    <3>1. \E c \in corrected : \A d \in corrected : d <= c
      BY <1>1, <2>2, BoundedMaximum
    <3> QED BY <3>1, <2>2 DEF LastOf
  <2> QED BY <2>1, <2>2
<1> QED BY <1>3, <1>4 DEF CountEcc, TypeOK

\* What an access finds in a range is part of the range.
LEMMA FoundType ==
  ASSUME NEW range, NEW rc, range \subseteq Codeword
  PROVE  Found(range, rc) \in SUBSET Codeword
BY DEF Found

\* Every function of dram_model.c keeps the types of its state.
LEMMA TypeStep ==
  ASSUME TypeOK, [Next]_vars PROVE TypeOK'
<1> USE DEF environment, cells, ecc_stats
<1>0. /\ 0 \in Codeword /\ Zeroed \in [Codeword -> Data] /\ Zeroed \in [Codeword -> Parity]
      /\ <<>> \in Seq(FaultMenu) /\ Len(<<>>) = 0 /\ 0 <= DRAM_MAX_FAULTS
  BY DramAssumption DEF Codeword, Zeroed, Data, Parity
<1>1. ASSUME dram_init PROVE TypeOK'
  BY <1>0, <1>1 DEF dram_init, ClearTables, TypeOK
<1>2. ASSUME dram_free PROVE TypeOK'
  BY <1>0, <1>2 DEF dram_free, ClearTables, TypeOK
<1>3. ASSUME NEW c \in Codeword, NEW w \in Word, NEW value \in SUBSET Bits(w),
             dram_write32(c, w, value)
      PROVE  TypeOK'
  <2> DEFINE merged == (View(c) \ Bits(w)) \cup value
  <2> DEFINE done == apply_write_faults_codeword(c, data[c], merged)
  <2>1. merged \in Data /\ data[c] \in Data
    BY AccessTypes DEF TypeOK, Bits, Data
  <2>2. done \in Work
    BY <2>1, WriteFaultsType
  <2>3. done.copy \in Data /\ done.raw \in [Codeword -> Data] /\ calc_parity(done.copy) \in Parity
    BY <2>2, ParityType DEF Work
  <2>4. /\ data' = [done.raw EXCEPT ![c] = done.copy]
        /\ parity' = [parity EXCEPT ![c] = calc_parity(done.copy)]
        /\ UNCHANGED <<up, faults, odecc_enabled, ecc_stats, environment>>
    BY <1>3 DEF dram_write32
  <2> HIDE DEF done
  <2> QED BY <2>3, <2>4 DEF TypeOK
<1>4. ASSUME NEW c \in Codeword, dram_read32(c) PROVE TypeOK'
  <2>1. /\ Found({c}, "CORRECTED") \in SUBSET Codeword
        /\ Found({c}, "UNCORRECTABLE") \in SUBSET Codeword
    BY FoundType
  <2>2. ecc_corr_count' \in Nat /\ ecc_uncorr_count' \in Nat /\ ecc_last_corr_addr' \in Codeword
    BY <1>4, <2>1, CountTypes DEF dram_read32
  <2> QED BY <1>4, <2>2 DEF dram_read32, TypeOK
<1>5. ASSUME NEW c \in Codeword, NEW mask \in FlipMasks, dram_inject_bit_flip(c, mask)
      PROVE  TypeOK'
  <2>1. SymDiff(data[c], mask) \in Data
    BY DramAssumption DEF TypeOK, Mask, Data, SymDiff
  <2> QED BY <1>5, <2>1 DEF dram_inject_bit_flip, TypeOK
<1>6. ASSUME NEW first \in Codeword, NEW last \in Codeword, dram_scrub_range(first, last)
      PROVE  TypeOK'
  <2>1. first .. last \subseteq Codeword
    BY DramAssumption DEF Codeword
  <2>2. /\ Found(first .. last, "CORRECTED") \in SUBSET Codeword
        /\ Found(first .. last, "UNCORRECTABLE") \in SUBSET Codeword
    BY <2>1, FoundType
  <2>3. ecc_corr_count' \in Nat /\ ecc_uncorr_count' \in Nat /\ ecc_last_corr_addr' \in Codeword
    BY <1>6, <2>2, CountTypes DEF dram_scrub_range
  <2>4. \A c \in Codeword : /\ Decoded(c).data \in Data
                            /\ calc_parity(Decoded(c).data) \in Parity
    BY AccessTypes, ParityType
  <2>5. data' \in [Codeword -> Data] /\ parity' \in [Codeword -> Parity]
    BY <1>6, <2>4 DEF dram_scrub_range, TypeOK
  <2> QED BY <1>6, <2>3, <2>5 DEF dram_scrub_range, TypeOK
<1>7. ASSUME NEW f \in FaultMenu, AddFault(f) PROVE TypeOK'
  BY <1>7, DramAssumption DEF AddFault, TypeOK
<1>8. ASSUME dram_clear_faults PROVE TypeOK'
  BY <1>0, <1>8 DEF dram_clear_faults, TypeOK
<1>9. ASSUME NEW celsius \in Temperatures, dram_set_temperature(celsius) PROVE TypeOK'
  BY <1>9, DramAssumption DEF dram_set_temperature, TypeOK
<1>10. ASSUME NEW elapsed_ns \in Holds, dram_advance_time(elapsed_ns) PROVE TypeOK'
  <2>1. elapsed_ns \in Nat
    BY DramAssumption
  <2>2. \A c \in Codeword : data[c] \ Discharged(c, ns_since_refresh') \in Data
    BY DEF TypeOK, Data
  <2> QED BY <1>10, <2>1, <2>2 DEF dram_advance_time, TypeOK
<1>11. ASSUME dram_refresh PROVE TypeOK'
  BY <1>11 DEF dram_refresh, TypeOK
<1>12. ASSUME NEW enabled \in BOOLEAN, dram_set_odecc_enabled(enabled) PROVE TypeOK'
  BY <1>12 DEF dram_set_odecc_enabled, TypeOK
<1>13. ASSUME dram_reset_ecc_stats PROVE TypeOK'
  BY <1>0, <1>13 DEF dram_reset_ecc_stats, TypeOK
<1>14. CASE UNCHANGED vars
  BY <1>14 DEF vars, TypeOK
<1> QED
  BY <1>1, <1>2, <1>3, <1>4, <1>5, <1>6, <1>7, <1>8, <1>9, <1>10, <1>11, <1>12,
     <1>13, <1>14
     DEF Next, Write, Read, Flip, Scrub, AddAnyFault, Age, Heat, SwitchEcc,
         dram_add_stuck_fault, dram_add_transition_fault, dram_add_coupling_fault,
         dram_add_retention_fault

\* So does the power-up state.
LEMMA InitType == Init => TypeOK
<1> SUFFICES ASSUME Init PROVE TypeOK
  OBVIOUS
<1>1. 0 \in Codeword /\ Zeroed \in [Codeword -> Data] /\ Zeroed \in [Codeword -> Parity]
  BY DramAssumption DEF Codeword, Zeroed, Data, Parity
<1>2. <<>> \in Seq(FaultMenu) /\ Len(<<>>) = 0
  OBVIOUS
<1> QED BY <1>1, <1>2, DramAssumption DEF Init, TypeOK

\* Every reachable state of dram_model.c's state has the types the code declares.
THEOREM TypeCorrect == Spec => []TypeOK
BY InitType, TypeStep, PTL DEF Spec

-----------------------------------------------------------------------------
(* One codeword: S are its stuck cells, F those of them that are stuck at   *)
(* 1, and L what an access loads.  After the decoder's correction D is      *)
(* stored with fresh parity, the cells load as (D \ S) \cup F.              *)

\* What the scrub wrote back decodes to D again, or corrects a stuck cell of it.
LEMMA ReloadDecodes ==
  ASSUME NEW L \in Data, NEW S \in SUBSET DataBit, NEW F \in SUBSET S,
         (L \ S) \cup F = L, NEW q \in Parity,
         odecc_decode(L, q).rc = "CORRECTED"
  PROVE  LET D == odecc_decode(L, q).data
             r == odecc_decode((D \ S) \cup F, calc_parity(D))
         IN  /\ r.data = D
             /\ r.rc # "UNCORRECTABLE"
             /\ r.rc = "CORRECTED" => r.hit \subseteq S
<1> DEFINE D == odecc_decode(L, q).data
<1> DEFINE r == odecc_decode((D \ S) \cup F, calc_parity(D))
<1>1. D \in Data
  BY DecodeCases
<1>2. ASSUME NEW b \in S, (D \ S) \cup F = SymDiff(D, {b})
      PROVE  r.rc = "CORRECTED" /\ r.data = D /\ r.hit = {b}
  <2>1. b \in DataBit
    OBVIOUS
  <2> QED BY <1>1, <1>2, <2>1, SingleDataError
<1>3. \/ (D \ S) \cup F = D
      \/ \E b \in S : (D \ S) \cup F = SymDiff(D, {b})
  <2> DEFINE e == odecc_decode(L, q)
  <2>1. \/ \E b \in DataBit :
              /\ e.hit = {b} /\ Syndrome(L, q) = Label[b]
              /\ e.data = SymDiff(L, {b})
              /\ e.parity = q
        \/ \E p \in ParityBit :
              /\ e.hit = {p} /\ Syndrome(L, q) = {p}
              /\ e.data = L
              /\ e.parity = SymDiff(q, {p})
    BY DecodeCases
  <2>2. (L \ S) \cup F = L
    OBVIOUS
  <2> HIDE DEF e
  <2>3. CASE e.data = L
    BY <2>2, <2>3 DEF e
  <2>4. ASSUME NEW b \in DataBit, D = SymDiff(L, {b}), b \in S
        PROVE  (D \ S) \cup F = SymDiff(D, {b})
    <3>1. (D \ S) \cup F = L
      BY <2>2, <2>4 DEF SymDiff
    <3>2. SymDiff(D, {b}) = L
      BY <2>4 DEF SymDiff
    <3> QED BY <3>1, <3>2
  <2>5. ASSUME NEW b \in DataBit, D = SymDiff(L, {b}), b \notin S
        PROVE  (D \ S) \cup F = D
    BY <2>2, <2>5 DEF SymDiff
  <2>6. D = e.data
    BY DEF e
  <2> HIDE DEF D
  <2> QED BY <2>1, <2>3, <2>4, <2>5, <2>6
<1>4. /\ r.data = D
      /\ r.rc # "UNCORRECTABLE"
      /\ r.rc = "CORRECTED" => r.hit \subseteq S
  <2>1. CASE (D \ S) \cup F = D
    <3>1. r.rc = "OK" /\ r.data = D
      BY <1>1, <2>1, CleanDecode
    <3> QED BY <3>1
  <2>2. CASE \E b \in S : (D \ S) \cup F = SymDiff(D, {b})
    <3>1. PICK b \in S : (D \ S) \cup F = SymDiff(D, {b})
      BY <2>2
    <3>2. r.rc = "CORRECTED" /\ r.data = D /\ r.hit = {b}
      BY <1>2, <3>1
    <3> QED BY <3>2
  <2> QED BY <1>3, <2>1, <2>2
<1> QED BY <1>4

-----------------------------------------------------------------------------
(* The whole memory.                                                        *)

\* Loading applies the stuck-at faults once and for all.
LEMMA LoadIdempotent ==
  ASSUME TypeOK, NEW c \in Codeword
  PROVE  /\ StuckBits(c) \in SUBSET DataBit
         /\ ForcedTo1(c) \in SUBSET StuckBits(c)
         /\ load_codeword(c) \in Data
         /\ (load_codeword(c) \ StuckBits(c)) \cup ForcedTo1(c) = load_codeword(c)
BY StuckTypes, AccessTypes DEF load_codeword, apply_stuck_faults_codeword

\* A step that leaves the fault table alone leaves the stuck cells alone.
LEMMA StuckUnchanged ==
  ASSUME faults' = faults, NEW c
  PROVE  StuckBits(c)' = StuckBits(c) /\ ForcedTo1(c)' = ForcedTo1(c)
<1>1. StuckFaults(c)' = StuckFaults(c)
  BY DEF StuckFaults
<1> QED BY <1>1 DEF StuckBits, ForcedTo1

\* The codewords a scrub repairs.
LEMMA ScrubRepairs ==
  ASSUME TypeOK, NEW first \in Codeword, NEW last \in Codeword,
         dram_scrub_range(first, last),
         NEW c \in Codeword, c \in first .. last, Decoded(c).rc = "CORRECTED"
  PROVE  /\ Decoded(c).data' = Decoded(c).data
         /\ Decoded(c).rc' # "UNCORRECTABLE"
         /\ Decoded(c).rc' = "CORRECTED" => Decoded(c).hit' \subseteq StuckBits(c)
<1> DEFINE L == load_codeword(c)
<1> DEFINE S == StuckBits(c)
<1> DEFINE F == ForcedTo1(c)
<1> DEFINE q == parity[c]
<1> DEFINE D == odecc_decode(L, q).data
<1> DEFINE M == (D \ S) \cup F
<1>1. /\ L \in Data /\ S \in SUBSET DataBit /\ F \in SUBSET S /\ (L \ S) \cup F = L
      /\ q \in Parity
  BY LoadIdempotent DEF TypeOK
<1>2. D = Decoded(c).data /\ odecc_decode(L, q).rc = "CORRECTED"
  BY DEF Decoded
<1>3. c \in Found(first .. last, "CORRECTED")
  BY DEF Found, dram_scrub_range
<1>4. data'[c] = D /\ parity'[c] = calc_parity(D)
  BY <1>2, <1>3 DEF dram_scrub_range
<1>5. load_codeword(c)' = M
  <2>1. S' = S /\ F' = F
    BY StuckUnchanged DEF dram_scrub_range
  <2> QED BY <1>4, <2>1 DEF load_codeword, apply_stuck_faults_codeword
<1>6. Decoded(c)' = odecc_decode(M, calc_parity(D))
  BY <1>4, <1>5 DEF Decoded
<1>7. LET E == odecc_decode(L, q).data
          r == odecc_decode((E \ S) \cup F, calc_parity(E))
      IN  /\ r.data = E
          /\ r.rc # "UNCORRECTABLE"
          /\ r.rc = "CORRECTED" => r.hit \subseteq S
  <2> HIDE DEF L, S, F, q
  <2> QED BY <1>1, <1>2, ReloadDecodes
<1> QED BY <1>2, <1>6, <1>7

\* The codewords it leaves alone.
LEMMA ScrubSkips ==
  ASSUME TypeOK, NEW first \in Codeword, NEW last \in Codeword,
         dram_scrub_range(first, last),
         NEW c \in Codeword, ~(c \in first .. last /\ Decoded(c).rc = "CORRECTED")
  PROVE  load_codeword(c)' = load_codeword(c) /\ Decoded(c)' = Decoded(c)
<1>1. c \notin Found(first .. last, "CORRECTED")
  BY DEF Found
<1>2. data'[c] = data[c] /\ parity'[c] = parity[c]
  BY <1>1 DEF dram_scrub_range
<1>3. load_codeword(c)' = load_codeword(c)
  <2>1. StuckBits(c)' = StuckBits(c) /\ ForcedTo1(c)' = ForcedTo1(c)
    BY StuckUnchanged DEF dram_scrub_range
  <2> QED BY <1>2, <2>1 DEF load_codeword, apply_stuck_faults_codeword
<1> QED BY <1>2, <1>3 DEF Decoded

(***************************************************************************)
(* No read of dram_read32 returns anything else after a scrub than before  *)
(* it, whatever faults the memory has and whatever its cells hold.         *)
(***************************************************************************)
THEOREM ScrubIsTransparent == Spec => ScrubTransparent
<1>1. ASSUME TypeOK, Scrub, NEW c \in Codeword PROVE View(c)' = View(c)
  <2>1. PICK first \in Codeword, last \in Codeword : dram_scrub_range(first, last)
    BY <1>1 DEF Scrub
  <2>2. odecc_enabled /\ odecc_enabled'
    BY <2>1 DEF dram_scrub_range
  <2>3. CASE c \in first .. last /\ Decoded(c).rc = "CORRECTED"
    <3>1. Decoded(c).data' = Decoded(c).data
      BY <1>1, <2>1, <2>3, ScrubRepairs
    <3> QED BY <2>2, <3>1 DEF View
  <2>4. CASE ~(c \in first .. last /\ Decoded(c).rc = "CORRECTED")
    <3>1. Decoded(c)' = Decoded(c)
      BY <1>1, <2>1, <2>4, ScrubSkips
    <3> QED BY <2>2, <3>1 DEF View
  <2> QED BY <2>3, <2>4
<1>2. TypeOK /\ [Next]_vars => [Scrub => \A c \in Codeword : View(c)' = View(c)]_vars
  BY <1>1
<1> QED BY <1>2, TypeCorrect, PTL DEF Spec, ScrubTransparent

(***************************************************************************)
(* A codeword that the pass after a scrub corrects again has the corrected *)
(* bit under a stuck-at fault: what tc7 reports as a hard fault is one.    *)
(***************************************************************************)
THEOREM SecondCorrectionHard == Spec => SecondCorrectionIsHard
<1>1. ASSUME TypeOK, NEW first \in Codeword, NEW last \in Codeword,
             dram_scrub_range(first, last), NEW c \in first .. last,
             Decoded(c).rc' = "CORRECTED"
      PROVE  Decoded(c).hit' \subseteq StuckBits(c)
  <2>1. c \in Codeword
    BY DramAssumption DEF Codeword
  <2>2. CASE Decoded(c).rc = "CORRECTED"
    BY <1>1, <2>1, <2>2, ScrubRepairs
  <2>3. CASE Decoded(c).rc # "CORRECTED"
    <3>1. Decoded(c)' = Decoded(c)
      BY <1>1, <2>1, <2>3, ScrubSkips
    <3> QED BY <1>1, <2>3, <3>1
  <2> QED BY <2>2, <2>3
<1>2. TypeOK /\ [Next]_vars =>
        [\A first, last \in Codeword :
           dram_scrub_range(first, last) =>
             \A c \in first .. last :
               Decoded(c).rc' = "CORRECTED" => Decoded(c).hit' \subseteq StuckBits(c)]_vars
  BY <1>1
<1> QED BY <1>2, TypeCorrect, PTL DEF Spec, SecondCorrectionIsHard

(***************************************************************************)
(* Neither a scrub nor a read turns an uncorrectable codeword into one     *)
(* that decodes: maintenance does not hide a detected double error.        *)
(***************************************************************************)
THEOREM UncorrectableStays == Spec => UncorrectableSurvivesScrub
<1>1. ASSUME TypeOK, Scrub, NEW c \in Codeword, Decoded(c).rc = "UNCORRECTABLE"
      PROVE  Decoded(c).rc' = "UNCORRECTABLE"
  <2>1. PICK first \in Codeword, last \in Codeword : dram_scrub_range(first, last)
    BY <1>1 DEF Scrub
  <2>2. Decoded(c).rc # "CORRECTED"
    BY <1>1
  <2>3. Decoded(c)' = Decoded(c)
    BY <1>1, <2>1, <2>2, ScrubSkips
  <2> QED BY <1>1, <2>3
<1>2. ASSUME Read, NEW c \in Codeword PROVE Decoded(c)' = Decoded(c)
  <2>1. data' = data /\ parity' = parity /\ faults' = faults
    BY <1>2 DEF Read, dram_read32, cells
  <2>2. StuckBits(c)' = StuckBits(c) /\ ForcedTo1(c)' = ForcedTo1(c)
    BY <2>1, StuckUnchanged
  <2> QED BY <2>1, <2>2 DEF Decoded, load_codeword, apply_stuck_faults_codeword
<1>3. TypeOK /\ [Next]_vars =>
        [Scrub \/ Read =>
           \A c \in Codeword :
             Decoded(c).rc = "UNCORRECTABLE" => Decoded(c).rc' = "UNCORRECTABLE"]_vars
  BY <1>1, <1>2
<1> QED BY <1>3, TypeCorrect, PTL DEF Spec, UncorrectableSurvivesScrub

-----------------------------------------------------------------------------
(* Writes.                                                                  *)

\* A codeword whose stuck and wrong cells are at most one cell still decodes.
\* d are its cells, S the stuck ones, F those stuck at 1, D what was stored.
LEMMA OneCellDecodes ==
  ASSUME NEW D \in Data, NEW d \in Data, NEW S \in SUBSET DataBit, NEW F \in SUBSET S,
         NEW b, S \subseteq {b}, SymDiff(d, D) \subseteq {b}
  PROVE  LET r == odecc_decode((d \ S) \cup F, calc_parity(D))
         IN  r.data = D /\ r.rc # "UNCORRECTABLE"
<1> DEFINE L == (d \ S) \cup F
<1>1. L \in Data /\ SymDiff(L, D) \subseteq {b}
  BY DEF Data, SymDiff
<1> HIDE DEF L
<1>2. CASE L = D
  BY <1>2, CleanDecode DEF L
<1>3. CASE L # D
  <2>1. SymDiff(L, D) # {} /\ SymDiff(L, D) \subseteq DataBit
    BY <1>1, <1>3 DEF SymDiff, Data
  <2>2. SymDiff(L, D) = {b} /\ b \in DataBit
    BY <1>1, <2>1
  <2>3. L = SymDiff(D, {b})
    BY <2>2 DEF SymDiff
  <2> QED BY <2>2, <2>3, SingleDataError DEF L
<1> QED BY <1>2, <1>3

\* What dram_write32 leaves of the memory when no fault distorts the write.
LEMMA FaithfulWrite ==
  ASSUME TypeOK, NEW c \in Codeword, NEW w \in Word, NEW value \in SUBSET Bits(w),
         dram_write32(c, w, value), \A i \in DOMAIN faults : Spares(faults[i], c)
  PROVE  /\ (View(c) \ Bits(w)) \cup value \in Data
         /\ data'[c] = (View(c) \ Bits(w)) \cup value
         /\ parity'[c] = calc_parity((View(c) \ Bits(w)) \cup value)
         /\ \A d \in Codeword \ {c} :
              /\ parity'[d] = parity[d]
              /\ SymDiff(data'[d], data[d]) \subseteq VictimBits(d)
<1> DEFINE merged == (View(c) \ Bits(w)) \cup value
<1> DEFINE done == apply_write_faults_codeword(c, data[c], merged)
<1>1. merged \in Data /\ data[c] \in Data
  BY AccessTypes DEF TypeOK, Bits, Data
<1>2. done \in Work
  BY <1>1, WriteFaultsType
<1>3. /\ done.copy = merged
      /\ \A d \in Codeword : SymDiff(done.raw[d], data[d]) \subseteq VictimBits(d)
  BY <1>1, SparingFaults
<1>4. /\ data' = [done.raw EXCEPT ![c] = done.copy]
      /\ parity' = [parity EXCEPT ![c] = calc_parity(done.copy)]
  BY DEF dram_write32
<1>5. done.raw \in [Codeword -> Data] /\ parity \in [Codeword -> Parity]
  BY <1>2 DEF Work, TypeOK
<1> HIDE DEF done
<1>6. /\ data'[c] = merged /\ parity'[c] = calc_parity(merged)
      /\ \A d \in Codeword \ {c} : data'[d] = done.raw[d] /\ parity'[d] = parity[d]
  BY <1>3, <1>4, <1>5
<1> QED BY <1>1, <1>3, <1>6

\* A faithful write, as a read sees it afterwards.
LEMMA WriteReads ==
  ASSUME TypeOK, NEW c \in Codeword, NEW w \in Word, NEW value \in SUBSET Bits(w),
         dram_write32(c, w, value), WritesAreFaithful(c)
  PROVE  View(c)' = (View(c) \ Bits(w)) \cup value
<1> DEFINE D == (View(c) \ Bits(w)) \cup value
<1> DEFINE d == data'[c]
<1> DEFINE S == StuckBits(c)
<1> DEFINE F == ForcedTo1(c)
<1>1. \A i \in DOMAIN faults : Spares(faults[i], c)
  BY DEF WritesAreFaithful, Spares
<1>2. D \in Data /\ d = D /\ parity'[c] = calc_parity(D)
  BY <1>1, FaithfulWrite
<1>3. d \in Data /\ S \in SUBSET DataBit /\ F \in SUBSET S
  BY <1>2, StuckTypes
<1>4. S' = S /\ F' = F /\ odecc_enabled' = odecc_enabled
  BY StuckUnchanged DEF dram_write32
<1> HIDE DEF D, S, F
<1>5. load_codeword(c)' = (d \ S) \cup F
  BY <1>2, <1>4 DEF load_codeword, apply_stuck_faults_codeword, S, F
<1>6. Decoded(c)' = odecc_decode((d \ S) \cup F, calc_parity(D))
  BY <1>2, <1>5 DEF Decoded
<1>7. PICK b : S \subseteq {b} /\ SymDiff(d, D) \subseteq {b}
  BY <1>2 DEF WritesAreFaithful, SymDiff, S
<1>8. Decoded(c).data' = D
  <2> HIDE DEF d
  <2>1. LET r == odecc_decode((d \ S) \cup F, calc_parity(D))
        IN  r.data = D /\ r.rc # "UNCORRECTABLE"
    BY <1>2, <1>3, <1>7, OneCellDecodes
  <2> QED BY <1>6, <2>1
<1>9. ~odecc_enabled => load_codeword(c)' = D
  BY <1>2, <1>3, <1>5 DEF WritesAreFaithful, S
<1> QED BY <1>4, <1>8, <1>9 DEF View, D

(***************************************************************************)
(* The read-modify-write of dram_write32 replaces its word and nothing     *)
(* else of the codeword, as reads see it, unless a fault distorts writes   *)
(* to it or the decoder does not cover its stuck cells.                    *)
(***************************************************************************)
THEOREM WritesReadBack == Spec => WriteReadsBack
<1>1. TypeOK /\ [Next]_vars =>
        [\A c \in Codeword, w \in Word : \A value \in SUBSET Bits(w) :
           dram_write32(c, w, value) /\ WritesAreFaithful(c) =>
             View(c)' = (View(c) \ Bits(w)) \cup value]_vars
  BY WriteReads
<1> QED BY <1>1, TypeCorrect, PTL DEF Spec, WriteReadsBack

-----------------------------------------------------------------------------
(***************************************************************************)
(* The protected memory (ProtectedDram): with ODECC on and single weak     *)
(* cells it is an ideal memory.                                            *)
(***************************************************************************)

(* The invariant.                                                           *)

\* The cells of c some fault in the table can make wrong.
Marked(c) ==
    (UNION {faults[i].mask : i \in {j \in DOMAIN faults :
               faults[j].cw = c /\ faults[j].type \in StuckType \cup {"RETENTION"}}})
    \cup VictimBits(c)

\* c holds what was encoded from D, but for at most one cell: the one that is
\* wrong is the one that the faults of c can make wrong.
StoresCode(c, D) ==
    /\ parity[c] = calc_parity(D)
    /\ \A x, y \in Marked(c) \cup SymDiff(data[c], D) : x = y

\* A fault that distorts no write to its own codeword.
SparesItself(f) ==
    \/ f.type \in StuckType \cup {"RETENTION"}
    \/ f.type = "COUPLING_INV" /\ f.victim_cw # f.cw

ProtectedInv ==
    /\ TypeOK
    /\ up => odecc_enabled
    /\ ~up => data = Zeroed /\ parity = Zeroed /\ faults = <<>>
    /\ \A i \in DOMAIN faults : SparesItself(faults[i])
    /\ \A c \in Codeword : StoresCode(c, View(c))
    /\ ecc_uncorr_count = 0

(* What the invariant says of an access.                                    *)

AccessHolds ==
    \A c \in Codeword : \A D \in Data :
        StoresCode(c, D) =>
            /\ Decoded(c).data = D /\ Decoded(c).rc # "UNCORRECTABLE"
            /\ SymDiff(data[c], D) \subseteq Marked(c) \cup SymDiff(load_codeword(c), D)

\* A codeword that stores D, one weak cell at most, is decoded to D.
LEMMA StoresDecodes == TypeOK => AccessHolds
<1> SUFFICES ASSUME TypeOK, NEW c \in Codeword, NEW D \in Data, StoresCode(c, D)
             PROVE  /\ Decoded(c).data = D /\ Decoded(c).rc # "UNCORRECTABLE"
                    /\ SymDiff(data[c], D) \subseteq Marked(c) \cup SymDiff(load_codeword(c), D)
  BY DEF AccessHolds
<1> DEFINE S == StuckBits(c)
<1> DEFINE F == ForcedTo1(c)
<1> DEFINE d == data[c]
<1>1. S \in SUBSET DataBit /\ F \in SUBSET S /\ d \in Data
  BY StuckTypes DEF TypeOK
<1>2. S \subseteq Marked(c)
  BY DEF StuckBits, StuckFaults, Marked
<1>3. load_codeword(c) = (d \ S) \cup F
  BY DEF load_codeword, apply_stuck_faults_codeword
<1>4. parity[c] = calc_parity(D)
  BY DEF StoresCode
<1>5. PICK b : S \subseteq {b} /\ SymDiff(d, D) \subseteq {b}
  BY <1>2 DEF StoresCode
<1>6. Decoded(c) = odecc_decode((d \ S) \cup F, calc_parity(D))
  BY <1>3, <1>4 DEF Decoded
<1>7. SymDiff(d, D) \subseteq Marked(c) \cup SymDiff(load_codeword(c), D)
  BY <1>1, <1>2, <1>3 DEF SymDiff
<1> HIDE DEF S, F, d
<1>8. LET r == odecc_decode((d \ S) \cup F, calc_parity(D))
      IN  r.data = D /\ r.rc # "UNCORRECTABLE"
  BY <1>1, <1>5, OneCellDecodes
<1> QED BY <1>6, <1>7, <1>8 DEF d

\* The same of the state after a step.
LEMMA StoresDecodesNext == TypeOK' => AccessHolds'
<1>1. (TypeOK => AccessHolds)'
  BY StoresDecodes, PTL
<1> QED BY <1>1

\* A memory that is powered down, or was just powered up, holds zeros.
Blank == data = Zeroed /\ parity = Zeroed /\ faults = <<>>

BlankMemory == \A c \in Codeword : View(c) = {} /\ StoresCode(c, {})

\* A blank memory stores zeros.
LEMMA BlankStores == Blank => BlankMemory
<1> SUFFICES ASSUME Blank, NEW c \in Codeword PROVE View(c) = {} /\ StoresCode(c, {})
  BY DEF BlankMemory
<1>1. StuckBits(c) = {} /\ ForcedTo1(c) = {} /\ Marked(c) = {}
  BY DEF Blank, StuckBits, ForcedTo1, StuckFaults, Marked, VictimBits
<1>2. data[c] = {} /\ parity[c] = {} /\ load_codeword(c) = {}
  BY <1>1 DEF Blank, Zeroed, load_codeword, apply_stuck_faults_codeword
<1>3. calc_parity({}) = {}
  BY FS_EmptySet DEF calc_parity
<1>4. {} \in Data
  BY DEF Data
<1>5. Decoded(c).data = {}
  BY <1>2, <1>3, <1>4, CleanDecode DEF Decoded
<1> QED BY <1>1, <1>2, <1>3, <1>5 DEF View, StoresCode, SymDiff

\* The same of the next state.
LEMMA BlankStoresNext == Blank' => BlankMemory'
<1>1. (Blank => BlankMemory)'
  BY BlankStores, PTL
<1> QED BY <1>1

-----------------------------------------------------------------------------
(* One codeword through a step.                                             *)

\* After a step that left D in c but for one cell, reads return D.
LEMMA NextView ==
  ASSUME TypeOK', odecc_enabled', NEW c \in Codeword, NEW D \in Data,
         parity'[c] = calc_parity(D),
         NEW b, Marked(c)' \subseteq {b}, SymDiff(data'[c], D) \subseteq {b}
  PROVE  View(c)' = D /\ StoresCode(c, View(c))'
<1>1. StoresCode(c, D)'
  BY DEF StoresCode
<1>2. Decoded(c).data' = D
  BY <1>1, StoresDecodesNext DEF AccessHolds
<1>3. View(c)' = D
  BY <1>2 DEF View
<1> QED BY <1>1, <1>3 DEF StoresCode

\* The cells of the faults change with the fault table alone.
LEMMA MarkedUnchanged ==
  ASSUME faults' = faults, NEW c PROVE Marked(c)' = Marked(c)
BY DEF Marked, VictimBits

\* What a step starts from: D is what reads of c return, b its weak cell.
LEMMA Weak ==
  ASSUME ProtectedInv, NEW c \in Codeword
  PROVE  /\ View(c) \in Data /\ parity[c] = calc_parity(View(c))
         /\ Decoded(c).data = View(c) /\ Decoded(c).rc # "UNCORRECTABLE"
         /\ SymDiff(data[c], View(c)) \subseteq
               Marked(c) \cup SymDiff(load_codeword(c), Decoded(c).data)
         /\ \E b : Marked(c) \subseteq {b} /\ SymDiff(data[c], View(c)) \subseteq {b}
<1>1. TypeOK /\ StoresCode(c, View(c))
  BY DEF ProtectedInv
<1>2. View(c) \in Data
  BY <1>1, AccessTypes
<1>3. AccessHolds
  BY <1>1, StoresDecodes
<1> QED BY <1>1, <1>2, <1>3 DEF StoresCode, AccessHolds

\* The weak cells are those of the faults and those that load wrong.
LEMMA WeakCellsContain ==
  ASSUME NEW c
  PROVE  Marked(c) \cup SymDiff(load_codeword(c), Decoded(c).data) = WeakCells(c)
BY Zenon DEF WeakCells, Marked, VictimBits

-----------------------------------------------------------------------------
(* What goes on between the accesses leaves every codeword as reads see it. *)

\* A scrub repairs or skips each codeword, and both show what was shown.
LEMMA ScrubView ==
  ASSUME ProtectedInv, TypeOK', Scrub, NEW c \in Codeword, NEW D, D = View(c)
  PROVE  View(c)' = D /\ StoresCode(c, View(c))'
<1>1. PICK first \in Codeword, last \in Codeword : dram_scrub_range(first, last)
  BY DEF Scrub
<1>2. odecc_enabled' /\ Marked(c)' = Marked(c)
  BY <1>1, MarkedUnchanged DEF dram_scrub_range
<1>3. PICK b : Marked(c) \subseteq {b} /\ SymDiff(data[c], D) \subseteq {b}
  BY Weak
<1>4. D \in Data /\ parity[c] = calc_parity(D) /\ Decoded(c).data = D
  BY Weak
<1>5. parity'[c] = calc_parity(D) /\ (data'[c] = D \/ data'[c] = data[c])
  BY <1>1, <1>4 DEF dram_scrub_range
<1>6. SymDiff(data'[c], D) \subseteq {b}
  BY <1>3, <1>5 DEF SymDiff
<1> QED BY <1>2, <1>3, <1>4, <1>5, <1>6, NextView

\* A flip hits a codeword's only weak cell, and the decoder corrects it.
LEMMA FlipView ==
  ASSUME ProtectedInv, TypeOK', ProtectedFlip, NEW c \in Codeword, NEW D, D = View(c)
  PROVE  View(c)' = D /\ StoresCode(c, View(c))'
<1>1. PICK e \in Codeword, mask \in FlipMasks :
          OneWeakCell(e, mask) /\ dram_inject_bit_flip(e, mask)
  BY DEF ProtectedFlip
<1>2. odecc_enabled' /\ Marked(c)' = Marked(c)
  BY <1>1, MarkedUnchanged DEF dram_inject_bit_flip, ProtectedInv
<1>3. D \in Data /\ parity'[c] = calc_parity(D)
  BY <1>1, Weak DEF dram_inject_bit_flip
<1>4. CASE e # c
  <2>1. data'[c] = data[c]
    BY <1>1, <1>4 DEF dram_inject_bit_flip, ProtectedInv, TypeOK
  <2> QED BY <1>2, <1>3, <2>1, Weak, NextView
<1>5. CASE e = c
  <2>1. data'[c] = SymDiff(data[c], mask)
    BY <1>1, <1>5 DEF dram_inject_bit_flip, ProtectedInv, TypeOK
  <2>2. PICK b : WeakCells(c) \cup mask \subseteq {b}
    BY <1>1, <1>5 DEF OneWeakCell
  <2>3. Marked(c) \subseteq {b} /\ SymDiff(data[c], D) \subseteq {b} /\ mask \subseteq {b}
    BY <2>2, Weak, WeakCellsContain
  <2>4. SymDiff(data'[c], D) \subseteq {b}
    BY <2>1, <2>3 DEF SymDiff
  <2> QED BY <1>2, <1>3, <2>3, <2>4, NextView
<1> QED BY <1>4, <1>5

\* The cells a new fault can make wrong.
LEMMA MarkedGrows ==
  ASSUME TypeOK, NEW f, AddFault(f), NEW c
  PROVE  \A x \in Marked(c)' :
            \/ x \in Marked(c)
            \/ x \in f.mask /\ f.cw = c /\ f.type \in StuckType \cup {"RETENTION"}
            \/ x \in f.victim_mask /\ f.victim_cw = c /\ f.type = "COUPLING_INV"
<1>1. faults' = Append(faults, f) /\ faults \in Seq(FaultMenu)
  BY DEF AddFault, TypeOK
<1>2. \A i \in DOMAIN faults' : faults'[i] = f \/ (i \in DOMAIN faults /\ faults'[i] = faults[i])
  BY <1>1
<1>3. ASSUME NEW x \in Marked(c)'
      PROVE  \/ x \in Marked(c)
             \/ x \in f.mask /\ f.cw = c /\ f.type \in StuckType \cup {"RETENTION"}
             \/ x \in f.victim_mask /\ f.victim_cw = c /\ f.type = "COUPLING_INV"
  <2>1. CASE \E i \in DOMAIN faults' :
                /\ faults'[i].cw = c /\ faults'[i].type \in StuckType \cup {"RETENTION"}
                /\ x \in faults'[i].mask
    BY <1>2, <2>1 DEF Marked
  <2>2. CASE \E i \in DOMAIN faults' :
                /\ faults'[i].type = "COUPLING_INV" /\ faults'[i].victim_cw = c
                /\ x \in faults'[i].victim_mask
    BY <1>2, <2>2 DEF Marked, VictimBits
  <2> QED BY <1>3, <2>1, <2>2 DEF Marked, VictimBits
<1> QED BY <1>3

\* A new fault weakens one cell of its codeword, and the decoder hides what it forces.
LEMMA AddFaultView ==
  ASSUME ProtectedInv, TypeOK', ProtectedAddFault, NEW c \in Codeword, NEW D, D = View(c)
  PROVE  View(c)' = D /\ StoresCode(c, View(c))'
<1>1. PICK f \in FaultMenu : Covered(f) /\ AddFault(f)
  BY DEF ProtectedAddFault, dram_add_stuck_fault, dram_add_coupling_fault,
         dram_add_retention_fault
<1>2. odecc_enabled' /\ data'[c] = data[c] /\ parity'[c] = parity[c]
  BY <1>1 DEF AddFault, ProtectedInv, cells
<1>3. D \in Data /\ parity'[c] = calc_parity(D)
  BY <1>2, Weak
<1>4. \E b : Marked(c)' \subseteq {b} /\ SymDiff(data'[c], D) \subseteq {b}
  <2> DEFINE more == IF f.type = "COUPLING_INV" THEN f.victim_mask ELSE f.mask
  <2> DEFINE hit == IF f.type = "COUPLING_INV" THEN f.victim_cw ELSE f.cw
  <2>1. \A x \in Marked(c)' : x \in Marked(c) \/ (x \in more /\ hit = c)
    BY <1>1, MarkedGrows DEF ProtectedInv, StuckType
  <2>2. OneWeakCell(hit, more)
    BY <1>1 DEF Covered, StuckType
  <2> HIDE DEF more, hit
  <2>3. CASE hit = c
    <3>1. PICK b : WeakCells(c) \cup more \subseteq {b}
      BY <2>2, <2>3 DEF OneWeakCell
    <3>2. Marked(c) \subseteq {b} /\ SymDiff(data[c], D) \subseteq {b} /\ more \subseteq {b}
      BY <3>1, Weak, WeakCellsContain
    <3> QED BY <1>2, <2>1, <3>2
  <2>4. CASE hit # c
    <3>1. PICK b : Marked(c) \subseteq {b} /\ SymDiff(data[c], D) \subseteq {b}
      BY Weak
    <3> QED BY <1>2, <2>1, <2>4, <3>1
  <2> QED BY <2>3, <2>4
<1> QED BY <1>2, <1>3, <1>4, NextView

\* Time flips only cells of retention faults, which are weak already.
LEMMA AgeView ==
  ASSUME ProtectedInv, TypeOK', Age, NEW c \in Codeword, NEW D, D = View(c)
  PROVE  View(c)' = D /\ StoresCode(c, View(c))'
<1>1. PICK elapsed_ns \in Holds : dram_advance_time(elapsed_ns)
  BY DEF Age
<1>2. /\ odecc_enabled' /\ Marked(c)' = Marked(c) /\ parity'[c] = parity[c]
      /\ data'[c] = data[c] \ Discharged(c, ns_since_refresh')
  BY <1>1, MarkedUnchanged DEF dram_advance_time, ProtectedInv
<1>3. Discharged(c, ns_since_refresh') \subseteq Marked(c)
  BY DEF Discharged, Marked
<1>4. PICK b : Marked(c) \subseteq {b} /\ SymDiff(data[c], D) \subseteq {b}
  BY Weak
<1>5. D \in Data /\ parity'[c] = calc_parity(D)
  BY <1>2, Weak
<1>6. SymDiff(data'[c], D) \subseteq {b}
  <2> DEFINE lost == Discharged(c, ns_since_refresh')
  <2>1. data'[c] = data[c] \ lost /\ lost \subseteq {b}
    BY <1>2, <1>3, <1>4
  <2> HIDE DEF lost
  <2> QED BY <1>4, <2>1 DEF SymDiff
<1> QED BY <1>2, <1>4, <1>5, <1>6, NextView

\* Calls that touch neither cells nor faults, or only clear the faults.
LEMMA QuietView ==
  ASSUME ProtectedInv, TypeOK', odecc_enabled' = odecc_enabled \/ odecc_enabled',
         up' = up, data' = data, parity' = parity, faults' = faults \/ faults' = <<>>,
         NEW c \in Codeword, NEW D, D = View(c)
  PROVE  View(c)' = D /\ StoresCode(c, View(c))'
<1>1. CASE up
  <2>1. odecc_enabled' /\ D \in Data /\ parity'[c] = calc_parity(D)
    BY <1>1, Weak DEF ProtectedInv
  <2>2. PICK b : Marked(c) \subseteq {b} /\ SymDiff(data[c], D) \subseteq {b}
    BY Weak
  <2>3. Marked(c)' \subseteq Marked(c)
    <3>1. CASE faults' = faults
      BY <3>1, MarkedUnchanged
    <3>2. CASE faults' = <<>>
      BY <3>2 DEF Marked, VictimBits
    <3> QED BY <3>1, <3>2
  <2> QED BY <2>1, <2>2, <2>3, NextView
<1>2. CASE ~up
  <2>1. Blank /\ Blank'
    BY <1>2 DEF ProtectedInv, Blank
  <2>2. View(c) = {} /\ View(c)' = {} /\ StoresCode(c, {})'
    BY <2>1, BlankStores, BlankStoresNext DEF BlankMemory
  <2> QED BY <2>2 DEF StoresCode
<1> QED BY <1>1, <1>2

\* So nothing that goes on between the accesses shows.
LEMMA BackgroundView ==
  ASSUME ProtectedInv, TypeOK', Background, NEW c \in Codeword, NEW D, D = View(c)
  PROVE  View(c)' = D /\ StoresCode(c, View(c))'
<1>1. CASE Scrub
  BY <1>1, ScrubView
<1>2. CASE ProtectedFlip
  BY <1>2, FlipView
<1>3. CASE ProtectedAddFault
  BY <1>3, AddFaultView
<1>4. CASE Age
  BY <1>4, AgeView
<1>5. CASE dram_clear_faults
  BY <1>5, QuietView DEF dram_clear_faults, cells
<1>6. CASE Heat
  BY <1>6, QuietView DEF Heat, dram_set_temperature, cells
<1>7. CASE dram_refresh
  BY <1>7, QuietView DEF dram_refresh, cells
<1>8. CASE dram_set_odecc_enabled(TRUE)
  BY <1>8, QuietView DEF dram_set_odecc_enabled, cells
<1>9. CASE dram_reset_ecc_stats
  BY <1>9, QuietView DEF dram_reset_ecc_stats, cells
<1> QED BY <1>1, <1>2, <1>3, <1>4, <1>5, <1>6, <1>7, <1>8, <1>9 DEF Background

-----------------------------------------------------------------------------
(* The program's own calls.                                                 *)

\* A write shows in its word and nowhere else, whatever fault it triggers.
LEMMA WriteView ==
  ASSUME ProtectedInv, TypeOK', NEW c \in Codeword, NEW w \in Word, NEW value \in SUBSET Bits(w),
         dram_write32(c, w, value), NEW d \in Codeword, NEW D,
         D = IF d = c THEN (View(c) \ Bits(w)) \cup value ELSE View(d)
  PROVE  View(d)' = D /\ StoresCode(d, View(d))'
<1>1. odecc_enabled' /\ Marked(d)' = Marked(d)
  BY MarkedUnchanged DEF dram_write32, ProtectedInv
<1>2. \A i \in DOMAIN faults : Spares(faults[i], c)
  BY DEF ProtectedInv, SparesItself, Spares
<1>3. /\ (View(c) \ Bits(w)) \cup value \in Data
      /\ data'[c] = (View(c) \ Bits(w)) \cup value
      /\ parity'[c] = calc_parity((View(c) \ Bits(w)) \cup value)
      /\ \A e \in Codeword \ {c} :
           parity'[e] = parity[e] /\ SymDiff(data'[e], data[e]) \subseteq VictimBits(e)
  BY <1>2, FaithfulWrite DEF ProtectedInv
<1>4. PICK b : Marked(d) \subseteq {b} /\ SymDiff(data[d], View(d)) \subseteq {b}
  BY Weak
<1>5. CASE d = c
  <2>1. D \in Data /\ data'[d] = D /\ parity'[d] = calc_parity(D)
    BY <1>3, <1>5
  <2>2. SymDiff(data'[d], D) \subseteq {b}
    BY <2>1 DEF SymDiff
  <2> QED BY <1>1, <1>4, <2>1, <2>2, NextView
<1>6. CASE d # c
  <2>1. D = View(d) /\ D \in Data /\ parity'[d] = calc_parity(D)
    BY <1>3, <1>6, Weak
  <2>2. SymDiff(data'[d], data[d]) \subseteq {b}
    BY <1>3, <1>4, <1>6 DEF Marked
  <2>3. SymDiff(data'[d], D) \subseteq {b}
    BY <1>4, <2>1, <2>2 DEF SymDiff
  <2> QED BY <1>1, <1>4, <2>1, <2>3, NextView
<1> QED BY <1>5, <1>6

\* Power up and power down leave a blank memory.
LEMMA PowerBlank ==
  ASSUME PowerCall
  PROVE  /\ Blank' /\ (up' => odecc_enabled') /\ ecc_uncorr_count' = 0
         /\ \A c \in Codeword : View(c)' = {} /\ StoresCode(c, View(c))'
<1>1. Blank' /\ (up' => odecc_enabled') /\ ecc_uncorr_count' = 0
  BY DEF PowerCall, dram_init, dram_free, ClearTables, Blank
<1>2. \A c \in Codeword : View(c)' = {} /\ StoresCode(c, {})'
  BY <1>1, BlankStoresNext DEF BlankMemory
<1> QED BY <1>1, <1>2 DEF StoresCode

\* Every step of the regime is a step of the memory.
LEMMA RegimeStep ==
  ASSUME [ProtectedNext]_<<vars, call>> PROVE [Next]_vars
<1>1. PowerCall => Next
  BY DEF PowerCall, Next
<1>2. ASSUME NEW c \in Codeword, NEW w \in Word, ReadCall(c, w) PROVE Next
  BY <1>2 DEF ReadCall, Next, Read
<1>3. ASSUME NEW c \in Codeword, NEW w \in Word, NEW value \in SUBSET Bits(w),
             WriteCall(c, w, value)
      PROVE  Next
  BY <1>3 DEF WriteCall, Next, Write
<1>4. Background => Next
  BY DEF Background, ProtectedFlip, ProtectedAddFault, Next, Flip, AddAnyFault, SwitchEcc
<1> QED BY <1>1, <1>2, <1>3, <1>4 DEF ProtectedNext

-----------------------------------------------------------------------------
(* The invariant is inductive.                                              *)

\* Nothing uncorrectable is there to be counted.
LEMMA NoneUncorrectable ==
  ASSUME ProtectedInv, NEW range, range \subseteq Codeword
  PROVE  Cardinality(Found(range, "UNCORRECTABLE")) = 0
<1>1. Found(range, "UNCORRECTABLE") = {}
  BY Weak DEF Found
<1> QED BY <1>1, FS_EmptySet

\* Every step of the protected memory keeps the invariant.
LEMMA ProtectedInvStep ==
  ASSUME ProtectedInv, [ProtectedNext]_<<vars, call>> PROVE ProtectedInv'
<1>1. TypeOK'
  BY RegimeStep, TypeStep DEF ProtectedInv
<1>2. CASE PowerCall
  <2>1. \A i \in DOMAIN faults' : SparesItself(faults'[i])
    BY <1>2, PowerBlank DEF Blank
  <2> QED BY <1>1, <1>2, <2>1, PowerBlank DEF ProtectedInv, Blank
<1>3. ASSUME NEW c \in Codeword, NEW w \in Word, NEW value \in SUBSET Bits(w),
             WriteCall(c, w, value)
      PROVE  ProtectedInv'
  <2>1. dram_write32(c, w, value)
    BY <1>3 DEF WriteCall
  <2>2. \A d \in Codeword : StoresCode(d, View(d))'
    <3> TAKE d \in Codeword
    <3>1. PICK D : D = IF d = c THEN (View(c) \ Bits(w)) \cup value ELSE View(d)
      OBVIOUS
    <3> QED BY <1>1, <2>1, <3>1, WriteView
  <2>3. up /\ UNCHANGED <<up, faults, odecc_enabled, ecc_uncorr_count>>
    BY <2>1 DEF dram_write32, ecc_stats
  <2> QED BY <1>1, <2>2, <2>3 DEF ProtectedInv
<1>4. ASSUME NEW c \in Codeword, NEW w \in Word, ReadCall(c, w) PROVE ProtectedInv'
  <2>1. /\ up /\ UNCHANGED <<up, data, parity, faults, odecc_enabled>>
        /\ ecc_uncorr_count' = ecc_uncorr_count + Cardinality(Found({c}, "UNCORRECTABLE"))
    BY <1>4 DEF ReadCall, dram_read32, CountEcc, cells
  <2>2. ecc_uncorr_count' = 0
    BY <2>1, NoneUncorrectable DEF ProtectedInv
  <2>3. \A d \in Codeword : StoresCode(d, View(d))'
    <3> TAKE d \in Codeword
    <3>1. PICK D : D = View(d)
      OBVIOUS
    <3> QED BY <1>1, <2>1, <3>1, QuietView
  <2> QED BY <1>1, <2>1, <2>2, <2>3 DEF ProtectedInv
<1>5. CASE Background
  <2>1. \A d \in Codeword : StoresCode(d, View(d))'
    <3> TAKE d \in Codeword
    <3>1. PICK D : D = View(d)
      OBVIOUS
    <3> QED BY <1>1, <1>5, <3>1, BackgroundView
  <2>2. up' = up /\ (odecc_enabled' = odecc_enabled \/ odecc_enabled')
    BY <1>5 DEF Background, Scrub, dram_scrub_range, ProtectedFlip, dram_inject_bit_flip,
       ProtectedAddFault, dram_add_stuck_fault, dram_add_coupling_fault,
       dram_add_retention_fault, AddFault, dram_clear_faults, Heat, dram_set_temperature,
       Age, dram_advance_time, dram_refresh, dram_set_odecc_enabled, dram_reset_ecc_stats
  <2>3. ~up => data' = data /\ parity' = parity /\ (faults' = faults \/ faults' = <<>>)
    BY <1>5 DEF Background, Scrub, dram_scrub_range, ProtectedFlip, dram_inject_bit_flip,
       ProtectedAddFault, dram_add_stuck_fault, dram_add_coupling_fault,
       dram_add_retention_fault, AddFault, dram_clear_faults, Heat, dram_set_temperature,
       Age, dram_advance_time, dram_refresh, dram_set_odecc_enabled, dram_reset_ecc_stats,
       cells
  <2>4. \A i \in DOMAIN faults' : SparesItself(faults'[i])
    <3>1. CASE ProtectedAddFault
      <4>1. PICK f \in FaultMenu : Covered(f) /\ AddFault(f)
        BY <3>1 DEF ProtectedAddFault, dram_add_stuck_fault, dram_add_coupling_fault,
               dram_add_retention_fault
      <4>2. SparesItself(f)
        BY <4>1 DEF Covered, SparesItself
      <4>3. \A i \in DOMAIN faults' :
              faults'[i] = f \/ (i \in DOMAIN faults /\ faults'[i] = faults[i])
        BY <4>1 DEF AddFault, ProtectedInv, TypeOK
      <4> QED BY <4>2, <4>3 DEF ProtectedInv
    <3>2. CASE ~ProtectedAddFault
      <4>1. faults' = faults \/ faults' = <<>>
        BY <1>5, <3>2 DEF Background, Scrub, dram_scrub_range, ProtectedFlip,
           dram_inject_bit_flip, dram_clear_faults, Heat, dram_set_temperature,
           Age, dram_advance_time, dram_refresh, dram_set_odecc_enabled,
           dram_reset_ecc_stats
      <4> QED BY <4>1 DEF ProtectedInv
    <3> QED BY <3>1, <3>2
  <2>5. ecc_uncorr_count' = 0
    <3>1. CASE Scrub
      <4>1. PICK first \in Codeword, last \in Codeword : dram_scrub_range(first, last)
        BY <3>1 DEF Scrub
      <4>2. first .. last \subseteq Codeword
        BY DramAssumption DEF Codeword
      <4>3. ecc_uncorr_count' =
               ecc_uncorr_count + Cardinality(Found(first .. last, "UNCORRECTABLE"))
        BY <4>1 DEF dram_scrub_range, CountEcc
      <4>4. Cardinality(Found(first .. last, "UNCORRECTABLE")) = 0
        BY <4>2, NoneUncorrectable
      <4> QED BY <4>3, <4>4 DEF ProtectedInv
    <3>2. CASE ~Scrub
      BY <1>5, <3>2 DEF ProtectedInv, Background, ProtectedFlip, dram_inject_bit_flip,
         ProtectedAddFault, dram_add_stuck_fault, dram_add_coupling_fault,
         dram_add_retention_fault, AddFault, dram_clear_faults, Heat, dram_set_temperature,
         Age, dram_advance_time, dram_refresh, dram_set_odecc_enabled,
         dram_reset_ecc_stats, ecc_stats
    <3> QED BY <3>1, <3>2
  <2> QED BY <1>1, <2>1, <2>2, <2>3, <2>4, <2>5 DEF ProtectedInv
<1>6. CASE UNCHANGED <<vars, call>>
  <2>1. UNCHANGED <<up, data, parity, faults, odecc_enabled, ecc_uncorr_count>>
    BY <1>6 DEF vars, cells, ecc_stats
  <2>2. \A d \in Codeword : StoresCode(d, View(d))'
    <3> TAKE d \in Codeword
    <3>1. PICK D : D = View(d)
      OBVIOUS
    <3> QED BY <1>1, <2>1, <3>1, QuietView
  <2> QED BY <1>1, <2>1, <2>2 DEF ProtectedInv
<1> QED BY <1>2, <1>3, <1>4, <1>5, <1>6 DEF ProtectedNext

\* The memory before it is powered up satisfies the invariant.
LEMMA ProtectedInvInit == ProtectedInit => ProtectedInv
<1> SUFFICES ASSUME ProtectedInit PROVE ProtectedInv
  OBVIOUS
<1>1. TypeOK
  BY InitType DEF ProtectedInit
<1>2. Blank /\ ~up /\ ecc_uncorr_count = 0
  BY DEF ProtectedInit, Init, Blank
<1>3. \A c \in Codeword : StoresCode(c, View(c))
  BY <1>2, BlankStores DEF BlankMemory
<1> QED BY <1>1, <1>2, <1>3 DEF ProtectedInv, Blank

(***************************************************************************)
(* While single weak cells are all that strikes, no access and no scrub    *)
(* ever meets an uncorrectable codeword (ecc_uncorr_count stays 0).        *)
(***************************************************************************)
THEOREM ProtectedNeverUncorrectable == ProtectedSpec => []NeverUncorrectable
<1>1. ProtectedInv => NeverUncorrectable
  BY DEF ProtectedInv, NeverUncorrectable
<1> QED BY <1>1, ProtectedInvInit, ProtectedInvStep, PTL DEF ProtectedSpec

-----------------------------------------------------------------------------
(* The refinement.                                                          *)

\* It is an initial state of the ideal memory.
LEMMA RefinementInit == ProtectedInit => Ideal!Init
<1> SUFFICES ASSUME ProtectedInit PROVE Ideal!Init
  OBVIOUS
<1>1. Blank /\ call = <<"power">>
  BY DEF ProtectedInit, Init, Blank
<1>2. \A c \in Codeword : View(c) = {}
  BY <1>1, BlankStores DEF BlankMemory
<1> QED BY <1>1, <1>2 DEF Ideal!Init, Ideal!Empty

\* Every step of the protected memory is one of the ideal memory or shows nothing.
LEMMA RefinementStep ==
  ASSUME ProtectedInv, [ProtectedNext]_<<vars, call>>
  PROVE  [Ideal!Next]_<<[c \in Codeword |-> View(c)], call>>
<1> DEFINE mem == [c \in Codeword |-> View(c)]
<1>0. TypeOK'
  BY RegimeStep, TypeStep DEF ProtectedInv
<1>1. CASE PowerCall
  <2>1. mem' = [c \in Codeword |-> {}] /\ call' = <<"power">>
    BY <1>1, PowerBlank DEF PowerCall
  <2>2. Ideal!Power
    BY <2>1 DEF Ideal!Power, Ideal!Empty
  <2> QED BY <2>2 DEF Ideal!Next
<1>2. ASSUME NEW c \in Codeword, NEW w \in Word, NEW value \in SUBSET Bits(w),
             WriteCall(c, w, value)
      PROVE  Ideal!Write(c, w, value)
  <2>1. dram_write32(c, w, value) /\ call' = <<"write", c, w, value>>
    BY <1>2 DEF WriteCall
  <2>2. \A d \in Codeword :
           View(d)' = IF d = c THEN (View(c) \ Bits(w)) \cup value ELSE View(d)
    <3> TAKE d \in Codeword
    <3>1. PICK D : D = IF d = c THEN (View(c) \ Bits(w)) \cup value ELSE View(d)
      OBVIOUS
    <3> QED BY <1>0, <2>1, <3>1, WriteView
  <2>3. mem' = [mem EXCEPT ![c] = (@ \ Bits(w)) \cup value]
    BY <2>2
  <2> QED BY <2>1, <2>3 DEF Ideal!Write
<1>3. ASSUME NEW c \in Codeword, NEW w \in Word, ReadCall(c, w)
      PROVE  Ideal!Read(c, w)
  <2>1. /\ UNCHANGED <<up, data, parity, faults, odecc_enabled>>
        /\ call' = <<"read", c, w, View(c) \cap Bits(w)>>
    BY <1>3 DEF ReadCall, dram_read32, dram_read32_value, cells
  <2>2. \A d \in Codeword : View(d)' = View(d)
    <3> TAKE d \in Codeword
    <3>1. PICK D : D = View(d)
      OBVIOUS
    <3> QED BY <1>0, <2>1, <3>1, QuietView
  <2>3. mem' = mem
    BY <2>2
  <2> QED BY <2>1, <2>3 DEF Ideal!Read
<1>4. CASE Background
  <2>1. \A d \in Codeword : View(d)' = View(d)
    <3> TAKE d \in Codeword
    <3>1. PICK D : D = View(d)
      OBVIOUS
    <3> QED BY <1>0, <1>4, <3>1, BackgroundView
  <2> QED BY <1>4, <2>1 DEF Background
<1>5. CASE UNCHANGED <<vars, call>>
  <2>1. UNCHANGED <<up, data, parity, faults, odecc_enabled>>
    BY <1>5 DEF vars, cells
  <2>2. \A d \in Codeword : View(d)' = View(d)
    <3> TAKE d \in Codeword
    <3>1. PICK D : D = View(d)
      OBVIOUS
    <3> QED BY <1>0, <2>1, <3>1, QuietView
  <2> QED BY <1>5, <2>2
<1> QED BY <1>1, <1>2, <1>3, <1>4, <1>5 DEF ProtectedNext, Ideal!Next

(***************************************************************************)
(* The protected memory implements the ideal one: every write replaces     *)
(* exactly its word, every read returns what was last written, and no      *)
(* flip, fault, discharge or scrub in between is ever seen.                *)
(***************************************************************************)
THEOREM ProtectedIsIdeal == ProtectedSpec => RefinesIdealMemory
<1>1. ProtectedSpec => []ProtectedInv
  BY ProtectedInvInit, ProtectedInvStep, PTL DEF ProtectedSpec
<1> QED BY <1>1, RefinementInit, RefinementStep, PTL
        DEF ProtectedSpec, RefinesIdealMemory, Ideal!Spec
==============================================================================
