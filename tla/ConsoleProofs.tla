----------------------------- MODULE ConsoleProofs -----------------------------
(***************************************************************************)
(* Theorems about Console for every format, all sizes of the buffers and   *)
(* both builds.                                                            *)
(***************************************************************************)
EXTENDS Console, FiniteSetTheorems, SequenceTheorems, WellFoundedInduction, TLAPS

-----------------------------------------------------------------------------
(* Induction over the naturals, and recursion over an initial segment of    *)
(* them, stated with sets so that they can be cited without an operator     *)
(* argument.                                                                *)

\* A set that holds 0 and the successor of each of its naturals holds them all.
LEMMA SetInduction ==
  ASSUME NEW T, 0 \in T, \A n \in Nat : n \in T => n + 1 \in T
  PROVE  Nat \subseteq T
<1> DEFINE R == OpToRel(<, Nat)
<1> SUFFICES ASSUME Nat \ T # {} PROVE FALSE
  OBVIOUS
<1>1. PICK x \in Nat \ T : \A y \in Nat \ T : <<y, x>> \notin R
  <2>1. IsWellFoundedOn(R, Nat)
    BY NatLessThanWellFounded
  <2> HIDE DEF R
  <2>2. Nat \ T \subseteq Nat
    OBVIOUS
  <2> QED BY <2>1, <2>2, WFMin
<1> HIDE DEF R
<1>2. x \in Nat /\ x \notin T /\ x # 0 /\ x - 1 \in Nat /\ (x - 1) + 1 = x
  BY <1>1
<1>3. <<x - 1, x>> \in R
  BY <1>2 DEF OpToRel, R
<1> QED BY <1>1, <1>2, <1>3

\* What holds of a and passes from each number to the next holds from a to n.
LEMMA Climb ==
  ASSUME NEW a \in Nat, NEW n \in Nat, NEW T, a \in T,
         \A i \in a .. n - 1 : i \in T => i + 1 \in T
  PROVE  a .. n \subseteq T
<1> DEFINE U == {k \in Nat : a + k <= n => a + k \in T}
<1>1. 0 \in U
  OBVIOUS
<1>2. ASSUME NEW k \in Nat, k \in U PROVE k + 1 \in U
  <2> SUFFICES ASSUME a + (k + 1) <= n PROVE a + (k + 1) \in T
    OBVIOUS
  <2>1. a + k \in a .. n - 1 /\ a + k \in T /\ (a + k) + 1 = a + (k + 1)
    BY <1>2
  <2> QED BY <2>1
<1>3. Nat \subseteq U
  <2> HIDE DEF U
  <2> QED BY <1>1, <1>2, SetInduction
<1>4. ASSUME NEW i \in a .. n PROVE i \in T
  <2>1. i - a \in U /\ a + (i - a) = i
    BY <1>3
  <2> QED BY <2>1
<1> QED BY <1>4

\* Recursion over 0 .. n inside a set S has a solution with values in S.
Recurs(g, n, b, F) == g[0] = b /\ \A i \in 1 .. n : g[i] = F[i][g[i - 1]]

LEMMA RecursionExists ==
  ASSUME NEW n \in Nat, NEW S, NEW b \in S, NEW F \in [1 .. n -> [S -> S]]
  PROVE  \E g \in [0 .. n -> S] : Recurs(g, n, b, F)
<1> DEFINE Solves(g, k) == g[0] = b /\ \A i \in 1 .. k : g[i] = F[i][g[i - 1]]
<1> DEFINE T == {k \in Nat : \E g \in [0 .. k -> S] : Solves(g, k)}
<1>1. 0 \in T
  <2>1. [i \in 0 .. 0 |-> b] \in [0 .. 0 -> S] /\ Solves([i \in 0 .. 0 |-> b], 0)
    OBVIOUS
  <2> QED BY <2>1
<1>2. ASSUME NEW k \in 0 .. n - 1, k \in T PROVE k + 1 \in T
  <2>1. PICK g \in [0 .. k -> S] : Solves(g, k)
    BY <1>2
  <2> DEFINE h == [i \in 0 .. k + 1 |-> IF i <= k THEN g[i] ELSE F[k + 1][g[k]]]
  <2>2. g[k] \in S /\ k + 1 \in 1 .. n
    BY <2>1
  <2>3. h \in [0 .. k + 1 -> S] /\ h[0] = b
    BY <2>1, <2>2
  <2>4. ASSUME NEW i \in 1 .. k + 1 PROVE h[i] = F[i][h[i - 1]]
    <3>1. CASE i <= k
      <4>1. h[i] = g[i] /\ h[i - 1] = g[i - 1]
        BY <3>1
      <4> QED BY <4>1, <3>1, <2>1
    <3>2. CASE i = k + 1
      <4>1. h[i] = F[k + 1][g[k]] /\ h[i - 1] = g[k]
        BY <3>2
      <4> QED BY <4>1, <3>2
    <3> QED BY <3>1, <3>2
  <2>5. Solves(h, k + 1)
    BY <2>3, <2>4
  <2> HIDE DEF h, Solves
  <2> QED BY <2>3, <2>5
<1> HIDE DEF T
<1>3. n \in T
  <2>1. 0 .. n \subseteq T
    BY <1>1, <1>2, Climb
  <2> QED BY <2>1
<1> QED BY <1>3 DEF T, Recurs

-----------------------------------------------------------------------------
(* Flattening a sequence of texts.                                          *)

\* The first m of the texts flatten to what the first m - 1 flatten to and one more.
LEMMA FlattenUnfolds ==
  ASSUME NEW S, NEW ss \in Seq(Seq(S))
  PROVE  \E g \in [0 .. Len(ss) -> Seq(S)] :
            /\ g[0] = <<>>
            /\ \A i \in 1 .. Len(ss) : g[i] = g[i - 1] \o ss[i]
            /\ \A m \in 0 .. Len(ss) : FlattenSeq(SubSeq(ss, 1, m)) = g[m]
<1> DEFINE n == Len(ss)
<1> DEFINE Texts == Seq(S)
<1> DEFINE F == [i \in 1 .. n |-> [t \in Texts |-> t \o ss[i]]]
<1>1. n \in Nat /\ <<>> \in Texts /\ \A i \in 1 .. n : ss[i] \in Texts
  OBVIOUS
<1>2. F \in [1 .. n -> [Texts -> Texts]]
  BY <1>1
<1> HIDE DEF n
<1>3. PICK g \in [0 .. n -> Texts] : Recurs(g, n, <<>>, F)
  <2> HIDE DEF F, Texts
  <2>1. n \in Nat /\ <<>> \in Texts
    BY <1>1
  <2> QED BY <2>1, <1>2, RecursionExists
<1>4. ASSUME NEW i \in 1 .. n PROVE g[i] = g[i - 1] \o ss[i]
  <2>1. g[i - 1] \in Seq(S)
    BY <1>1, <1>3
  <2> QED BY <2>1, <1>3 DEF Recurs
<1>0. g[0] = <<>>
  BY <1>3 DEF Recurs
<1> HIDE DEF F
<1>5. ASSUME NEW m \in 0 .. n PROVE FlattenSeq(SubSeq(ss, 1, m)) = g[m]
  <2> DEFINE pre == SubSeq(ss, 1, m)
  <2>1. Len(pre) = m /\ \A i \in 1 .. m : pre[i] = ss[i]
    BY <1>1, <1>5 DEF n
  <2>2. CASE m = 0
    <3>1. pre = <<>>
      BY <1>1, <2>2
    <3>2. FlattenSeq(<<>>) = <<>>
      BY DEF FlattenSeq
    <3> QED BY <3>1, <3>2, <1>0, <2>2
  <2>3. CASE m # 0
    <3> HIDE DEF pre
    <3> DEFINE Eqn(f) == f = [i \in 1 .. Len(pre) |-> IF i = 1 THEN pre[i] ELSE f[i - 1] \o pre[i]]
    <3> DEFINE h == [i \in 1 .. m |-> g[i]]
    <3>1. Eqn(h)
      <4>1. ASSUME NEW i \in 1 .. m
            PROVE  h[i] = IF i = 1 THEN pre[i] ELSE h[i - 1] \o pre[i]
        <5>1. i \in 1 .. n /\ ss[i] \in Seq(S)
          BY <1>1, <1>5
        <5>2. h[i] = g[i] /\ g[i] = g[i - 1] \o ss[i] /\ pre[i] = ss[i]
          BY <5>1, <1>4, <2>1
        <5>3. CASE i = 1
          <6>1. <<>> \o ss[i] = ss[i]
            BY <5>1
          <6>2. g[i - 1] = <<>>
            BY <5>3, <1>0
          <6> HIDE DEF h
          <6> QED BY <5>2, <5>3, <6>1, <6>2
        <5>4. CASE i # 1
          <6>1. h[i - 1] = g[i - 1]
            BY <1>1, <1>5, <5>4
          <6> HIDE DEF h
          <6> QED BY <5>2, <5>4, <6>1
        <5> HIDE DEF h
        <5> QED BY <5>3, <5>4
      <4> QED BY <4>1, <2>1
    <3> DEFINE f == CHOOSE f : Eqn(f)
    <3>2. Eqn(f)
      BY <3>1
    <3>3. FlattenSeq(pre) = f[Len(pre)]
      BY <2>1, <2>3 DEF FlattenSeq
    <3> HIDE DEF f
    <3>4. \A i \in 1 .. m : f[i] = IF i = 1 THEN pre[i] ELSE f[i - 1] \o pre[i]
      BY <3>2, <2>1
    <3>5. \A i \in 1 .. m : h[i] = IF i = 1 THEN pre[i] ELSE h[i - 1] \o pre[i]
      BY <3>1, <2>1
    <3> HIDE DEF h
    <3> DEFINE T == {i \in Nat : f[i] = h[i]}
    <3>6. 1 \in T
      BY <3>4, <3>5, <2>3, <1>1, <1>5
    <3>7. ASSUME NEW i \in 1 .. m - 1, i \in T PROVE i + 1 \in T
      <4>1. i + 1 \in 1 .. m /\ i + 1 # 1 /\ (i + 1) - 1 = i
        BY <1>1, <1>5
      <4> QED BY <4>1, <3>4, <3>5, <3>7
    <3> HIDE DEF T
    <3>8. m \in T
      <4>1. m \in Nat /\ 1 \in Nat /\ m \in 1 .. m
        BY <1>1, <1>5, <2>3
      <4> QED BY <4>1, <3>6, <3>7, Climb
    <3>9. f[m] = g[m]
      BY <3>8, <2>3, <1>1, <1>5 DEF T, h
    <3> QED BY <3>3, <3>9, <2>1 DEF pre
  <2> QED BY <2>2, <2>3
<1> QED BY <1>0, <1>3, <1>4, <1>5 DEF n

\* The same of two neighbours, and of the whole.
LEMMA FlattenLaws ==
  ASSUME NEW S, NEW ss \in Seq(Seq(S))
  PROVE  /\ FlattenSeq(SubSeq(ss, 1, 0)) = <<>>
         /\ \A m \in 0 .. Len(ss) : FlattenSeq(SubSeq(ss, 1, m)) \in Seq(S)
         /\ \A m \in 1 .. Len(ss) :
               FlattenSeq(SubSeq(ss, 1, m)) = FlattenSeq(SubSeq(ss, 1, m - 1)) \o ss[m]
         /\ FlattenSeq(SubSeq(ss, 1, Len(ss))) = FlattenSeq(ss)
<1>1. PICK g \in [0 .. Len(ss) -> Seq(S)] :
            /\ g[0] = <<>>
            /\ \A i \in 1 .. Len(ss) : g[i] = g[i - 1] \o ss[i]
            /\ \A m \in 0 .. Len(ss) : FlattenSeq(SubSeq(ss, 1, m)) = g[m]
  BY FlattenUnfolds
<1>2. \A m \in 1 .. Len(ss) : m \in 0 .. Len(ss) /\ m - 1 \in 0 .. Len(ss)
  OBVIOUS
<1>3. SubSeq(ss, 1, Len(ss)) = ss /\ 0 \in 0 .. Len(ss)
  OBVIOUS
<1> QED BY <1>1, <1>2, <1>3

-----------------------------------------------------------------------------
(* Numerals.                                                                *)

Bases == {10, 16}

\* Characters (the provers do not know that a literal is a STRING).
DigitChars == {"0", "1", "2", "3", "4", "5", "6", "7", "8", "9", "A", "B", "C", "D", "E", "F"}
Char == STRING \cup DigitChars \cup {"-", " ", "\r", "\n"}

\* Powers of the base grow by a factor of the base.
LEMMA PowerLaws ==
  ASSUME NEW b \in Bases
  PROVE  /\ Power(b, 0) = 1
         /\ \A k \in 0 .. TMP_MAX : Power(b, k) \in Nat /\ Power(b, k) > 0
         /\ \A k \in 0 .. TMP_MAX - 1 : Power(b, k + 1) = b * Power(b, k)
<1> DEFINE n == TMP_MAX
<1> DEFINE F == [i \in 1 .. n |-> [p \in Nat |-> b * p]]
<1> DEFINE Eqn(p) == p = [i \in 0 .. n |-> IF i = 0 THEN 1 ELSE b * p[i - 1]]
<1>1. n \in Nat /\ b \in Nat /\ b > 0 /\ F \in [1 .. n -> [Nat -> Nat]] /\ 1 \in Nat
  BY ConsoleAssumption DEF Bases
<1> HIDE DEF n
<1>2. PICK g \in [0 .. n -> Nat] : Recurs(g, n, 1, F)
  <2> HIDE DEF F
  <2> QED BY <1>1, RecursionExists
<1>3. g[0] = 1 /\ \A i \in 1 .. n : g[i] = b * g[i - 1]
  <2>1. \A i \in 1 .. n : g[i - 1] \in Nat
    BY <1>1, <1>2
  <2> QED BY <2>1, <1>2 DEF Recurs
<1>4. Eqn(g)
  BY <1>1, <1>2, <1>3
<1> DEFINE p == CHOOSE p : Eqn(p)
<1>5. Eqn(p)
  BY <1>4
<1>6. \A k : Power(b, k) = p[k]
  BY DEF Power, n
<1> HIDE DEF p
<1>7. p[0] = 1 /\ \A k \in 0 .. n - 1 : p[k + 1] = b * p[k]
  <2>1. \A k \in 0 .. n - 1 : k + 1 \in 0 .. n /\ k + 1 # 0 /\ (k + 1) - 1 = k
    BY <1>1
  <2> QED BY <1>1, <1>5, <2>1
<1> DEFINE T == {k \in Nat : p[k] \in Nat /\ p[k] > 0}
<1>8. 0 .. n \subseteq T
  <2>1. 0 \in T
    BY <1>7
  <2>2. ASSUME NEW k \in 0 .. n - 1, k \in T PROVE k + 1 \in T
    <3>1. p[k + 1] = b * p[k] /\ p[k] \in Nat /\ p[k] > 0 /\ k + 1 \in Nat
      BY <1>7, <2>2
    <3>2. b * p[k] \in Nat /\ b * p[k] > 0
      BY <3>1 DEF Bases
    <3> QED BY <3>1, <3>2
  <2> HIDE DEF T
  <2> QED BY <1>1, <2>1, <2>2, Climb
<1>9. \A k \in 0 .. n : p[k] \in Nat /\ p[k] > 0
  BY <1>8
<1> QED BY <1>6, <1>7, <1>9 DEF n

\* So they grow.
LEMMA PowersGrow ==
  ASSUME NEW b \in Bases, NEW i \in 0 .. TMP_MAX, NEW j \in i .. TMP_MAX
  PROVE  Power(b, i) <= Power(b, j)
<1> DEFINE T == {k \in Nat : k <= j => Power(b, i) <= Power(b, k)}
<1>1. i \in Nat /\ j \in Nat /\ j <= TMP_MAX /\ TMP_MAX \in Nat /\ i <= j
  BY ConsoleAssumption
<1>2. i \in T
  BY <1>1, PowerLaws
<1>3. ASSUME NEW k \in i .. j - 1, k \in T PROVE k + 1 \in T
  <2>1. k \in 0 .. TMP_MAX - 1 /\ k \in 0 .. TMP_MAX /\ k <= j /\ k + 1 \in Nat
    BY <1>1
  <2>2. Power(b, k + 1) = b * Power(b, k) /\ Power(b, k) \in Nat
    BY <2>1, PowerLaws
  <2>3. Power(b, i) <= Power(b, k) /\ Power(b, i) \in Nat
    BY <1>1, <1>3, <2>1, PowerLaws
  <2>4. Power(b, k) <= b * Power(b, k)
    BY <2>2 DEF Bases
  <2>5. b * Power(b, k) \in Nat
    BY <2>2 DEF Bases
  <2> QED BY <2>1, <2>2, <2>3, <2>4, <2>5
<1> HIDE DEF T
<1>4. j \in T
  <2>1. i .. j \subseteq T
    BY <1>1, <1>2, <1>3, Climb
  <2> QED BY <1>1, <2>1
<1> QED BY <1>1, <1>4 DEF T

\* Dividing by p and then by b divides by the product.
LEMMA DivideTwice ==
  ASSUME NEW v \in Nat, NEW p \in Nat, p > 0, NEW b \in Bases
  PROVE  (v \div p) \div b = v \div (b * p)
<1> DEFINE q == v \div p
<1> DEFINE r == v % p
<1>1. q \in Nat /\ r \in 0 .. p - 1 /\ v = p * q + r
  OBVIOUS
<1> DEFINE t == q \div b
<1> DEFINE u == q % b
<1>2. b \in Nat /\ b > 0
  BY DEF Bases
<1> HIDE DEF q, r
<1>3. t \in Nat /\ u \in 0 .. b - 1 /\ q = b * t + u
  BY <1>1, <1>2
<1> HIDE DEF t, u
<1> DEFINE d == b * p
<1> DEFINE rest == p * u + r
<1>4. d \in Nat /\ d > 0
  BY <1>2 DEF Bases
<1>5. p * u \in Nat /\ p * u <= p * (b - 1)
  BY <1>2, <1>3 DEF Bases
<1>6. p * (b - 1) = d - p
  BY <1>2 DEF Bases
<1>7. rest \in Nat /\ rest < d
  BY <1>1, <1>4, <1>5, <1>6
<1>8. p * q = d * t + p * u
  <2>1. p * q = p * (b * t) + p * u
    BY <1>2, <1>3
  <2>2. p * (b * t) = (b * p) * t
    BY <1>2, <1>3 DEF Bases
  <2> QED BY <2>1, <2>2
<1>9. v = d * t + rest
  BY <1>1, <1>3, <1>4, <1>5, <1>8
<1> HIDE DEF d, rest
<1>10. v \div d = t
  BY <1>3, <1>4, <1>7, <1>9
<1> QED BY <1>10 DEF d, t, q

\* The digits left over after i divisions.
LEMMA DivisionsLeave ==
  ASSUME NEW b \in Bases, NEW v \in Nat,
         NEW left, left = CHOOSE f : f = [i \in 0 .. TMP_MAX |-> IF i = 0 THEN v ELSE f[i - 1] \div b]
  PROVE  \A i \in 0 .. TMP_MAX : left[i] = v \div Power(b, i)
<1> DEFINE n == TMP_MAX
<1> DEFINE Eqn(f) == f = [i \in 0 .. n |-> IF i = 0 THEN v ELSE f[i - 1] \div b]
<1> DEFINE g == [i \in 0 .. n |-> v \div Power(b, i)]
<1>1. n \in Nat
  BY ConsoleAssumption
<1>2. v \div Power(b, 0) = v
  BY PowerLaws
<1>3. \A k \in 0 .. n - 1 : v \div Power(b, k + 1) = (v \div Power(b, k)) \div b
  <2> TAKE k \in 0 .. n - 1
  <2>1. Power(b, k + 1) = b * Power(b, k) /\ Power(b, k) \in Nat /\ Power(b, k) > 0
    BY <1>1, PowerLaws
  <2> QED BY <2>1, DivideTwice
<1>4. Eqn(g)
  <2>1. ASSUME NEW i \in 0 .. n PROVE g[i] = IF i = 0 THEN v ELSE g[i - 1] \div b
    <3>1. CASE i = 0
      BY <3>1, <1>2
    <3>2. CASE i # 0
      <4>1. i - 1 \in 0 .. n - 1 /\ i - 1 \in 0 .. n /\ (i - 1) + 1 = i
        BY <1>1, <3>2
      <4>2. v \div Power(b, (i - 1) + 1) = (v \div Power(b, i - 1)) \div b
        BY <1>3, <4>1
      <4> QED BY <4>1, <4>2, <3>2
    <3> QED BY <3>1, <3>2
  <2> QED BY <2>1
<1>5. Eqn(left)
  BY <1>4
<1> DEFINE T == {k \in Nat : left[k] = g[k]}
<1>6. 0 .. n \subseteq T
  <2>1. 0 \in T
    <3>1. 0 \in 0 .. n
      BY <1>1
    <3>2. left[0] = v
      BY <3>1, <1>5
    <3>3. g[0] = v
      BY <3>1, <1>2
    <3> QED BY <3>2, <3>3
  <2>2. ASSUME NEW k \in 0 .. n - 1, k \in T PROVE k + 1 \in T
    <3>1. k + 1 \in 0 .. n /\ k \in 0 .. n /\ k + 1 # 0 /\ (k + 1) - 1 = k /\ k + 1 \in Nat
      BY <1>1
    <3>2. left[k + 1] = left[k] \div b
      BY <3>1, <1>5
    <3>3. left[k] = v \div Power(b, k)
      BY <2>2, <3>1
    <3>4. g[k + 1] = left[k] \div b
      BY <3>1, <3>3, <1>3
    <3> QED BY <3>1, <3>2, <3>4
  <2> HIDE DEF T
  <2> QED BY <1>1, <2>1, <2>2, Climb
<1> QED BY <1>6 DEF n

\* The number of digits: the first power of the base above the value.
LEMMA SizeLaws ==
  ASSUME NEW b \in Bases, NEW v \in Nat, v < Power(b, TMP_MAX)
  PROVE  /\ Size(v, b) \in 1 .. TMP_MAX
         /\ {i \in 1 .. TMP_MAX : v >= Power(b, i - 1) \/ i = 1} = 1 .. Size(v, b)
<1> DEFINE n == TMP_MAX
<1> DEFINE IsSize(m) == v < Power(b, m) /\ (m = 1 \/ v >= Power(b, m - 1))
<1>1. n \in Nat /\ n > 0
  BY ConsoleAssumption
<1>2. \A i \in 1 .. n : Power(b, i) \in Nat /\ Power(b, i - 1) \in Nat
  BY <1>1, PowerLaws
<1>3. \E m \in 1 .. n : IsSize(m)
  <2> SUFFICES ASSUME \A m \in 1 .. n : ~IsSize(m) PROVE FALSE
    OBVIOUS
  <2> DEFINE T == {k \in Nat : v >= Power(b, k) /\ Power(b, k) \in Nat}
  <2>1. 1 \in T
    BY <1>1, <1>2
  <2>2. ASSUME NEW k \in 1 .. n - 1, k \in T PROVE k + 1 \in T
    <3>1. k + 1 \in 1 .. n /\ k + 1 # 1 /\ (k + 1) - 1 = k /\ k + 1 \in Nat
      BY <1>1
    <3>2. ~(v < Power(b, k + 1))
      BY <2>2, <3>1
    <3> QED BY <3>1, <3>2, <1>2
  <2> HIDE DEF T
  <2>3. n \in T
    <3>1. 1 .. n \subseteq T
      <4>1. 1 \in Nat
        OBVIOUS
      <4> QED BY <1>1, <4>1, <2>1, <2>2, Climb
    <3> QED BY <1>1, <3>1
  <2> QED BY <2>3 DEF T
<1>4. Size(v, b) = CHOOSE m \in 1 .. n : IsSize(m)
  BY DEF Size
<1> DEFINE z == Size(v, b)
<1>5. z \in 1 .. n /\ IsSize(z)
  BY <1>3, <1>4
<1> HIDE DEF z
<1>6. ASSUME NEW i \in 1 .. n
      PROVE  (v >= Power(b, i - 1) \/ i = 1) <=> i <= z
  <2>1. CASE i <= z
    <3>1. i - 1 \in 0 .. n /\ z - 1 \in i - 1 .. n /\ z - 1 \in 0 .. n
      BY <1>1, <1>5, <2>1
    <3>2. Power(b, i - 1) <= Power(b, z - 1)
      BY <3>1, PowersGrow
    <3>3. Power(b, z - 1) \in Nat
      BY <1>2, <1>5
    <3>4. i = 1 \/ z # 1
      BY <1>5, <2>1
    <3> QED BY <3>2, <3>3, <3>4, <1>2, <1>5, <2>1
  <2>2. CASE ~(i <= z)
    <3>1. z \in 0 .. n /\ i - 1 \in z .. n /\ i # 1
      BY <1>1, <1>5, <2>2
    <3>2. Power(b, z) <= Power(b, i - 1)
      BY <3>1, PowersGrow
    <3>3. Power(b, z) \in Nat
      BY <1>2, <1>5
    <3> QED BY <3>1, <3>2, <3>3, <1>2, <1>5, <2>2
  <2> QED BY <2>1, <2>2
<1>7. {i \in 1 .. n : v >= Power(b, i - 1) \/ i = 1} = 1 .. z
  BY <1>1, <1>5, <1>6
<1> QED BY <1>5, <1>7 DEF n, z

(***************************************************************************)
(* format_unsigned prints the numeral of its value: repeated division      *)
(* finds each digit, lowest first, the padding fills the width, and the    *)
(* copy in reverse puts the highest digit first.                           *)
(***************************************************************************)
THEOREM DigitsAreRight ==
  ASSUME NEW b \in Bases, NEW v \in Nat, v < Power(b, TMP_MAX),
         NEW width \in Nat, NEW zero_pad \in BOOLEAN
  PROVE  /\ format_unsigned(v, b, width, zero_pad) = Numeral(v, b, width, zero_pad)
         /\ Numeral(v, b, width, zero_pad) \in Seq(Char)
<1> DEFINE left == CHOOSE f : f = [i \in 0 .. TMP_MAX |-> IF i = 0 THEN v ELSE f[i - 1] \div b]
<1> DEFINE count == Cardinality({i \in 1 .. TMP_MAX : left[i - 1] > 0 \/ i = 1})
<1> DEFINE length == Larger(count, Smaller(width, TMP_MAX))
<1> DEFINE tmp == [i \in 1 .. length |->
                     IF i <= count THEN Digit(left[i - 1] % b) ELSE IF zero_pad THEN "0" ELSE " "]
<1> DEFINE z == Size(v, b)
<1>1. TMP_MAX \in Nat /\ z \in 1 .. TMP_MAX
  BY ConsoleAssumption, SizeLaws
<1>2. format_unsigned(v, b, width, zero_pad) = Reverse(tmp)
  BY DEF format_unsigned
<1>3. \A i \in 0 .. TMP_MAX : left[i] = v \div Power(b, i)
  <2>1. left = CHOOSE f : f = [i \in 0 .. TMP_MAX |-> IF i = 0 THEN v ELSE f[i - 1] \div b]
    OBVIOUS
  <2> HIDE DEF left
  <2> QED BY <2>1, DivisionsLeave
<1> HIDE DEF left
<1>4. count = z
  <2>1. ASSUME NEW i \in 1 .. TMP_MAX PROVE left[i - 1] > 0 <=> v >= Power(b, i - 1)
    <3>1. i - 1 \in 0 .. TMP_MAX
      BY <1>1
    <3>2. left[i - 1] = v \div Power(b, i - 1) /\ Power(b, i - 1) \in Nat /\ Power(b, i - 1) > 0
      BY <3>1, <1>3, PowerLaws
    <3>3. \A p \in Nat : p > 0 => (v \div p > 0 <=> v >= p)
      OBVIOUS
    <3> QED BY <3>2, <3>3
  <2>2. {i \in 1 .. TMP_MAX : left[i - 1] > 0 \/ i = 1} = 1 .. z
    BY <2>1, SizeLaws
  <2>3. Cardinality(1 .. z) = z
    BY <1>1, FS_Interval
  <2> QED BY <2>2, <2>3
<1> DEFINE L == Larger(z, Smaller(width, TMP_MAX))
<1> HIDE DEF count, z
<1>5. L \in Nat /\ z <= L /\ length = L
  BY <1>1, <1>4 DEF Larger, Smaller
<1> HIDE DEF length
<1>6. Numeral(v, b, width, zero_pad)
         = [k \in 1 .. L |->
              IF k > L - z THEN Digit((v \div Power(b, L - k)) % b)
              ELSE IF zero_pad THEN "0" ELSE " "]
  BY DEF Numeral, z
<1> HIDE DEF L
<1>7. Len(tmp) = L
  BY <1>5
<1>8. ASSUME NEW k \in 1 .. L
      PROVE  tmp[(L - k) + 1] = IF k > L - z THEN Digit((v \div Power(b, L - k)) % b)
                                ELSE IF zero_pad THEN "0" ELSE " "
  <2>1. (L - k) + 1 \in 1 .. length /\ ((L - k) + 1) - 1 = L - k
    BY <1>5
  <2>2. (L - k) + 1 <= count <=> k > L - z
    BY <1>1, <1>4, <1>5
  <2>3. k > L - z => L - k \in 0 .. TMP_MAX
    BY <1>1, <1>5
  <2>4. k > L - z => left[L - k] = v \div Power(b, L - k)
    BY <2>3, <1>3
  <2> QED BY <2>1, <2>2, <2>4
<1>9. Reverse(tmp) = [k \in 1 .. L |-> tmp[(L - k) + 1]]
  <2> HIDE DEF tmp
  <2> QED BY <1>7 DEF Reverse
<1> HIDE DEF tmp
<1>10. format_unsigned(v, b, width, zero_pad) = Numeral(v, b, width, zero_pad)
  BY <1>2, <1>6, <1>8, <1>9
<1>11. ASSUME NEW k \in 1 .. L
       PROVE  (IF k > L - z THEN Digit((v \div Power(b, L - k)) % b)
               ELSE IF zero_pad THEN "0" ELSE " ") \in Char
  <2>1. CASE k > L - z
    <3>1. L - k \in 0 .. TMP_MAX
      BY <1>1, <1>5, <2>1
    <3>2. v \div Power(b, L - k) \in Nat
      <4>1. Power(b, L - k) \in Nat /\ Power(b, L - k) > 0
        BY <3>1, PowerLaws
      <4> QED BY <4>1
    <3>3. (v \div Power(b, L - k)) % b \in 0 .. 15
      BY <3>2 DEF Bases
    <3>4. \A d \in 0 .. 15 : Digit(d) \in DigitChars
      BY DEF Digit, DigitChar, DigitChars
    <3> QED BY <2>1, <3>3, <3>4 DEF Char
  <2>2. CASE ~(k > L - z)
    BY <2>2 DEF Char, DigitChars
  <2> QED BY <2>1, <2>2
<1>12. Numeral(v, b, width, zero_pad) \in Seq(Char)
  <2>1. Numeral(v, b, width, zero_pad) \in [1 .. L -> Char]
    BY <1>6, <1>11
  <2>2. \A f \in [1 .. L -> Char] : f \in Seq(Char)
    BY <1>5
  <2> QED BY <2>1, <2>2
<1> QED BY <1>10, <1>12

-----------------------------------------------------------------------------
(* The line a format renders to.                                            *)

Texts(fmt) == [k \in DOMAIN fmt |-> Conversion(fmt[k])]

\* The formats of calls, and none before the first.
Format == Formats \cup {<<>>}

\* A conversion prints what it means.
LEMMA ConversionIsMeant ==
  ASSUME NEW fmt \in Format, NEW k \in DOMAIN fmt
  PROVE  Conversion(fmt[k]) = Meant(fmt[k]) /\ Conversion(fmt[k]) \in Seq(Char)
<1> DEFINE i == fmt[k]
<1>1. i \in Item /\ fmt \in Formats
  BY ConsoleAssumption DEF Format
<1>2. CASE i.kind \in {"d", "u", "x"}
  <2>1. i.value \in Int /\ i.width \in Nat /\ i.zero_pad \in BOOLEAN
    BY <1>1, <1>2 DEF Item
  <2>2. Base(i) \in Bases
    BY DEF Base, Bases
  <2>3. -Power(Base(i), TMP_MAX) < i.value /\ i.value < Power(Base(i), TMP_MAX)
    BY <1>1, <1>2, ConsoleAssumption
  <2>4. Power(Base(i), TMP_MAX) \in Nat
    BY <2>2, PowerLaws, ConsoleAssumption
  <2> HIDE DEF i
  <2>5. Magnitude(i.value) \in Nat /\ Magnitude(i.value) < Power(Base(i), TMP_MAX)
    BY <2>1, <2>3, <2>4 DEF Magnitude
  <2>6. /\ format_unsigned(Magnitude(i.value), Base(i), i.width, i.zero_pad)
             = Numeral(Magnitude(i.value), Base(i), i.width, i.zero_pad)
        /\ Numeral(Magnitude(i.value), Base(i), i.width, i.zero_pad) \in Seq(Char)
    BY <2>1, <2>2, <2>5, DigitsAreRight
  <2>7. (IF i.value < 0 THEN <<"-">> ELSE <<>>) \in Seq(Char)
    <3>1. "-" \in Char
      BY DEF Char
    <3> QED BY <3>1
  <2>8. Conversion(i) = Meant(i)
    BY <1>2, <2>6 DEF Conversion, Meant
  <2>9. Meant(i) \in Seq(Char)
    BY <1>2, <2>6, <2>7 DEF Meant
  <2> QED BY <2>8, <2>9 DEF i
<1>3. CASE i.kind \notin {"d", "u", "x"}
  <2>1. i.chars \in Seq(STRING)
    BY <1>1, <1>3 DEF Item
  <2>2. STRING \subseteq Char
    BY DEF Char
  <2>3. \A S, T : S \subseteq T => Seq(S) \subseteq Seq(T)
    OBVIOUS
  <2>4. i.chars \in Seq(Char)
    BY <2>1, <2>2, <2>3
  <2> QED BY <1>3, <2>4 DEF Conversion, Meant
<1> QED BY <1>2, <1>3

\* The texts of a format are sequences of characters.
LEMMA TextsAreText ==
  ASSUME NEW fmt \in Format
  PROVE  /\ Texts(fmt) \in Seq(Seq(Char)) /\ Len(Texts(fmt)) = Len(fmt)
         /\ Len(fmt) \in Nat /\ DOMAIN fmt = 1 .. Len(fmt)
         /\ \A k \in 1 .. Len(fmt) : Texts(fmt)[k] = Conversion(fmt[k])
<1>1. Len(fmt) \in Nat /\ DOMAIN fmt = 1 .. Len(fmt)
  BY ConsoleAssumption DEF Format
<1>2. \A k \in DOMAIN fmt : Conversion(fmt[k]) \in Seq(Char)
  BY ConversionIsMeant
<1> QED BY <1>1, <1>2 DEF Texts

\* What a buffer of n characters keeps of a text.
LEMMA PrefixType ==
  ASSUME NEW S, NEW a \in Seq(S), NEW n \in Nat
  PROVE  Prefix(a, n) \in Seq(S) /\ Len(Prefix(a, n)) = Smaller(n, Len(a))
BY DEF Prefix, Smaller

\* What it keeps of a text that grows.
LEMMA PrefixLaws ==
  ASSUME NEW S, NEW a \in Seq(S), NEW b \in Seq(S), NEW n \in Nat
  PROVE  /\ Len(a) <= n => Prefix(a, n) = a /\ a \o Prefix(b, n - Len(a)) = Prefix(a \o b, n)
         /\ Len(a) >= n => Prefix(a \o b, n) = Prefix(a, n) /\ Len(a \o b) >= n
<1>2. ASSUME Len(a) <= n
      PROVE  Prefix(a, n) = a /\ a \o Prefix(b, n - Len(a)) = Prefix(a \o b, n)
  <2>1. Prefix(a, n) = a
    BY <1>2 DEF Prefix, Smaller
  <2> DEFINE m == n - Len(a)
  <2>2. m \in Nat
    BY <1>2
  <2>3. Prefix(b, m) \in Seq(S) /\ Len(Prefix(b, m)) = Smaller(m, Len(b))
        /\ \A k \in 1 .. Smaller(m, Len(b)) : Prefix(b, m)[k] = b[k]
    BY <2>2 DEF Prefix, Smaller
  <2>4. a \o b \in Seq(S) /\ Len(a \o b) = Len(a) + Len(b)
    OBVIOUS
  <2>5. Prefix(a \o b, n) \in Seq(S) /\ Len(Prefix(a \o b, n)) = Smaller(n, Len(a) + Len(b))
        /\ \A k \in 1 .. Smaller(n, Len(a) + Len(b)) : Prefix(a \o b, n)[k] = (a \o b)[k]
    BY <2>4 DEF Prefix, Smaller
  <2>6. Smaller(n, Len(a) + Len(b)) = Len(a) + Smaller(m, Len(b))
    BY <1>2 DEF Smaller
  <2> DEFINE r == a \o Prefix(b, m)
  <2>7. r \in Seq(S) /\ Len(r) = Len(a) + Smaller(m, Len(b))
    BY <2>3
  <2>8. ASSUME NEW k \in 1 .. Len(r) PROVE r[k] = Prefix(a \o b, n)[k]
    <3>1. CASE k <= Len(a)
      BY <3>1, <2>3, <2>5, <2>6, <2>7
    <3>2. CASE k > Len(a)
      <4>1. k - Len(a) \in 1 .. Smaller(m, Len(b)) /\ k - Len(a) \in 1 .. Len(b)
        BY <3>2, <2>2, <2>7 DEF Smaller
      <4>2. r[k] = Prefix(b, m)[k - Len(a)] /\ (a \o b)[k] = b[k - Len(a)]
        BY <3>2, <4>1, <2>3, <2>7
      <4> QED BY <4>1, <4>2, <2>3, <2>5, <2>6, <2>7
    <3> QED BY <3>1, <3>2, <2>7
  <2> HIDE DEF r
  <2>9. r = Prefix(a \o b, n)
    BY <2>5, <2>6, <2>7, <2>8
  <2> QED BY <2>1, <2>9 DEF r, m
<1>3. ASSUME Len(a) >= n
      PROVE  Prefix(a \o b, n) = Prefix(a, n) /\ Len(a \o b) >= n
  BY <1>3 DEF Prefix, Smaller
<1> QED BY <1>2, <1>3

\* The first k items of a format, and what the buffer keeps of them.
Rendered(fmt, k) == FlattenSeq(SubSeq(Texts(fmt), 1, k))
Line(fmt, k) == Prefix(Rendered(fmt, k), DLOG_LINE_MAX - 1)

\* Items are copied while there is room, and what has filled the buffer stays.
LEMMA LineLaws ==
  ASSUME NEW fmt \in Format
  PROVE  /\ Line(fmt, 0) = <<>>
         /\ \A k \in 0 .. Len(fmt) : Line(fmt, k) \in Seq(Char) /\ Len(Line(fmt, k)) < DLOG_LINE_MAX
         /\ \A k \in 1 .. Len(fmt) :
               Len(Line(fmt, k - 1)) < DLOG_LINE_MAX - 1 =>
                 Line(fmt, k) = Line(fmt, k - 1)
                                \o Prefix(Conversion(fmt[k]), DLOG_LINE_MAX - 1 - Len(Line(fmt, k - 1)))
         /\ \A k \in 0 .. Len(fmt) :
               Len(Line(fmt, k)) >= DLOG_LINE_MAX - 1 => Line(fmt, Len(fmt)) = Line(fmt, k)
<1> DEFINE m == Len(fmt)
<1> DEFINE n == DLOG_LINE_MAX - 1
<1> DEFINE G(k) == Rendered(fmt, k)
<1>1. n \in Nat /\ n < DLOG_LINE_MAX /\ m \in Nat
  BY ConsoleAssumption, TextsAreText
<1>2. /\ G(0) = <<>> /\ \A k \in 0 .. m : G(k) \in Seq(Char)
      /\ \A k \in 1 .. m : G(k) = G(k - 1) \o Conversion(fmt[k]) /\ Conversion(fmt[k]) \in Seq(Char)
  <2>1. /\ G(0) = <<>> /\ \A k \in 0 .. m : G(k) \in Seq(Char)
        /\ \A k \in 1 .. m : G(k) = G(k - 1) \o Texts(fmt)[k]
    BY TextsAreText, FlattenLaws DEF Rendered
  <2>2. \A k \in 1 .. m : Texts(fmt)[k] = Conversion(fmt[k]) /\ Conversion(fmt[k]) \in Seq(Char)
    BY TextsAreText, ConversionIsMeant
  <2> QED BY <2>1, <2>2
<1> HIDE DEF G, n, m
<1>3. \A k : Line(fmt, k) = Prefix(G(k), n)
  BY DEF Line, G, n
<1>4. \A k \in 0 .. m : Prefix(G(k), n) \in Seq(Char) /\ Len(Prefix(G(k), n)) = Smaller(n, Len(G(k)))
  BY <1>1, <1>2, PrefixType
<1>5. Prefix(<<>>, n) = <<>>
  BY <1>1 DEF Prefix, Smaller
<1>6. ASSUME NEW k \in 1 .. m, Len(Prefix(G(k - 1), n)) < n
      PROVE  Prefix(G(k), n) = Prefix(G(k - 1), n)
                               \o Prefix(Conversion(fmt[k]), n - Len(Prefix(G(k - 1), n)))
  <2> DEFINE a == G(k - 1)
  <2> DEFINE b == Conversion(fmt[k])
  <2>1. k - 1 \in 0 .. m /\ a \in Seq(Char) /\ b \in Seq(Char) /\ G(k) = a \o b
    BY <1>1, <1>2
  <2>2. Len(a) <= n
    BY <1>1, <1>4, <1>6, <2>1 DEF Smaller
  <2> HIDE DEF a, b
  <2>3. Prefix(a, n) = a /\ a \o Prefix(b, n - Len(a)) = Prefix(a \o b, n)
    BY <1>1, <2>1, <2>2, PrefixLaws
  <2> QED BY <2>1, <2>3 DEF a, b
<1>7. ASSUME NEW k \in 0 .. m, Len(Prefix(G(k), n)) >= n
      PROVE  Prefix(G(m), n) = Prefix(G(k), n)
  <2> DEFINE T == {j \in Nat : Len(G(j)) >= n /\ Prefix(G(j), n) = Prefix(G(k), n)}
  <2>1. k \in T
    BY <1>1, <1>2, <1>4, <1>7 DEF Smaller
  <2>2. ASSUME NEW j \in k .. m - 1, j \in T PROVE j + 1 \in T
    <3>1. j \in 0 .. m /\ j + 1 \in 1 .. m /\ (j + 1) - 1 = j /\ j + 1 \in Nat
      BY <1>1
    <3>2. G(j + 1) = G(j) \o Conversion(fmt[j + 1]) /\ G(j) \in Seq(Char)
          /\ Conversion(fmt[j + 1]) \in Seq(Char)
      BY <1>2, <3>1
    <3>3. Len(G(j)) >= n /\ Prefix(G(j), n) = Prefix(G(k), n)
      BY <2>2
    <3>4. /\ Prefix(G(j) \o Conversion(fmt[j + 1]), n) = Prefix(G(j), n)
          /\ Len(G(j) \o Conversion(fmt[j + 1])) >= n
      BY <1>1, <3>2, <3>3, PrefixLaws
    <3> QED BY <3>1, <3>2, <3>3, <3>4
  <2> HIDE DEF T
  <2>3. m \in T
    <3>1. k .. m \subseteq T
      BY <1>1, <2>1, <2>2, Climb
    <3> QED BY <1>1, <3>1
  <2> QED BY <2>3 DEF T
<1>8. ASSUME NEW k \in 0 .. m
      PROVE  Line(fmt, k) \in Seq(Char) /\ Len(Line(fmt, k)) < DLOG_LINE_MAX
  <2>1. Line(fmt, k) \in Seq(Char) /\ Len(Line(fmt, k)) = Smaller(n, Len(G(k)))
    BY <1>3, <1>4
  <2>2. Len(G(k)) \in Nat
    BY <1>2
  <2> QED BY <1>1, <2>1, <2>2, ConsoleAssumption DEF Smaller
<1> QED BY <1>1, <1>2, <1>3, <1>5, <1>6, <1>7, <1>8 DEF n, m

\* What plat_puts prints at boot time for a character, and for a line.
Printed(c) == IF c = "\n" THEN <<"\r", "\n">> ELSE <<c>>
PrintedChars(text) == [k \in DOMAIN text |-> Printed(text[k])]
PrintedUpTo(text, k) == FlattenSeq(SubSeq(PrintedChars(text), 1, k))

\* Each character adds what it prints.
LEMMA PrintedLaws ==
  ASSUME NEW text \in Seq(Char)
  PROVE  /\ PrintedUpTo(text, 0) = <<>>
         /\ \A k \in 1 .. Len(text) :
               /\ PrintedUpTo(text, k) = PrintedUpTo(text, k - 1) \o Printed(text[k])
               /\ Printed(text[k]) \in Seq(Char) /\ Len(Printed(text[k])) <= 2
         /\ PrintedUpTo(text, Len(text)) = FlattenSeq(PrintedChars(text))
<1>1. ASSUME NEW k \in 1 .. Len(text)
      PROVE  Printed(text[k]) \in Seq(Char) /\ Len(Printed(text[k])) <= 2
  <2>1. text[k] \in Char
    OBVIOUS
  <2>2. "\r" \in Char /\ "\n" \in Char
    BY DEF Char
  <2>3. CASE text[k] = "\n"
    BY <2>2, <2>3 DEF Printed
  <2>4. CASE ~(text[k] = "\n")
    BY <2>1, <2>4 DEF Printed
  <2> QED BY <2>3, <2>4
<1> DEFINE ss == PrintedChars(text)
<1>2. ss \in Seq(Seq(Char)) /\ Len(ss) = Len(text)
  <2>1. DOMAIN text = 1 .. Len(text) /\ Len(text) \in Nat
    OBVIOUS
  <2>2. ss \in [1 .. Len(text) -> Seq(Char)]
    BY <1>1, <2>1 DEF PrintedChars
  <2> QED BY <2>1, <2>2
<1>3. \A k \in 1 .. Len(text) : ss[k] = Printed(text[k])
  BY DEF PrintedChars
<1> HIDE DEF ss
<1>4. /\ FlattenSeq(SubSeq(ss, 1, 0)) = <<>>
      /\ \A k \in 1 .. Len(ss) :
            FlattenSeq(SubSeq(ss, 1, k)) = FlattenSeq(SubSeq(ss, 1, k - 1)) \o ss[k]
      /\ FlattenSeq(SubSeq(ss, 1, Len(ss))) = FlattenSeq(ss)
  BY <1>2, FlattenLaws
<1>5. \A k : PrintedUpTo(text, k) = FlattenSeq(SubSeq(ss, 1, k))
  BY DEF PrintedUpTo, ss
<1>6. FlattenSeq(PrintedChars(text)) = FlattenSeq(ss)
  BY DEF ss
<1> QED BY <1>1, <1>2, <1>3, <1>4, <1>5, <1>6

-----------------------------------------------------------------------------
(* The invariant.                                                           *)

\* What the buffers and the screen hold in each phase of a call.
LineInv ==
    /\ phase \in {"idle", "format", "puts"} /\ platform \in {"host", "uefi"}
    /\ format \in Format
    /\ phase = "format" =>
          /\ item \in 1 .. Len(format) + 1 /\ out = Line(format, item - 1)
          /\ screen = <<>> /\ chunk = <<>>
    /\ phase # "format" => out = Line(format, Len(format))
    /\ phase = "puts" /\ platform = "host" => screen = <<>> /\ chunk = <<>>
    /\ phase = "puts" /\ platform = "uefi" =>
          /\ s \in 1 .. Len(out) + 1
          /\ screen \in Seq(Char) /\ chunk \in Seq(Char) /\ Len(chunk) < CHUNK_MAX
          /\ screen \o chunk = PrintedUpTo(out, s - 1)
    /\ phase = "idle" =>
          /\ chunk = <<>>
          /\ screen = IF platform = "host" THEN out ELSE FlattenSeq(PrintedChars(out))

\* It holds before the first call.
LEMMA LineInit == Init => LineInv
<1> SUFFICES ASSUME Init PROVE LineInv
  OBVIOUS
<1>1. /\ phase = "idle" /\ platform \in {"host", "uefi"} /\ format = <<>>
      /\ out = <<>> /\ chunk = <<>> /\ screen = <<>>
  BY ConsoleAssumption DEF Init
<1>2. <<>> \in Format /\ Len(<<>>) = 0
  BY DEF Format
<1>3. out = Line(format, Len(format))
  BY <1>1, <1>2, LineLaws
<1>4. FlattenSeq(PrintedChars(<<>>)) = <<>>
  <2>1. <<>> \in Seq(Char)
    OBVIOUS
  <2> QED BY <1>2, <2>1, PrintedLaws
<1> QED BY <1>1, <1>2, <1>3, <1>4 DEF LineInv

\* Every step keeps it.
LEMMA LineStep == LineInv /\ [Next]_vars => LineInv'
<1> SUFFICES ASSUME LineInv, [Next]_vars PROVE LineInv'
  OBVIOUS
<1>1. /\ phase \in {"idle", "format", "puts"} /\ platform \in {"host", "uefi"} /\ format \in Format
  BY DEF LineInv
<1>2. Len(format) \in Nat
  BY <1>1, TextsAreText
<1>3. CASE dlog_printf
  <2>1. /\ phase' = "format" /\ platform' = platform /\ format' \in Format
        /\ item' = 1 /\ out' = <<>> /\ screen' = <<>> /\ chunk' = <<>>
    BY <1>3 DEF dlog_printf, LineInv, Format
  <2>2. Len(format') \in Nat
    BY <2>1, TextsAreText
  <2>3. Line(format', 0) = <<>>
    BY <2>1, LineLaws
  <2>4. item' \in 1 .. Len(format') + 1 /\ item' - 1 = 0
    BY <2>1, <2>2
  <2> QED BY <1>1, <2>1, <2>3, <2>4 DEF LineInv
<1>4. CASE format_item
  <2>1. /\ phase = "format" /\ item <= Len(format) /\ Room > 0
        /\ out' = out \o Prefix(Conversion(format[item]), Room) /\ item' = item + 1
        /\ UNCHANGED <<phase, platform, format, s, chunk, screen>>
    BY <1>4 DEF format_item, Copied
  <2>2. item \in 1 .. Len(format) + 1 /\ out = Line(format, item - 1) /\ screen = <<>> /\ chunk = <<>>
    BY <2>1 DEF LineInv
  <2>3. item \in 1 .. Len(format) /\ item - 1 \in 0 .. Len(format)
    BY <1>2, <2>1, <2>2
  <2>4. Room = DLOG_LINE_MAX - 1 - Len(Line(format, item - 1)) /\ Len(Line(format, item - 1)) \in Nat
    BY <1>1, <2>2, <2>3, LineLaws DEF Room
  <2>5. Len(Line(format, item - 1)) < DLOG_LINE_MAX - 1
    BY <2>1, <2>4, ConsoleAssumption
  <2>6. Line(format, item) = out \o Prefix(Conversion(format[item]), Room)
    BY <1>1, <2>2, <2>3, <2>4, <2>5, LineLaws
  <2>7. item' \in 1 .. Len(format') + 1 /\ item' - 1 = item
    BY <1>2, <2>1, <2>3
  <2>8. out' = Line(format', item' - 1)
    BY <2>1, <2>6, <2>7
  <2> QED BY <1>1, <2>1, <2>2, <2>7, <2>8 DEF LineInv
<1>5. CASE format_end
  <2>1. /\ phase = "format" /\ (item > Len(format) \/ Room = 0)
        /\ phase' = "puts" /\ s' = 1 /\ chunk' = <<>>
        /\ UNCHANGED <<platform, format, item, out, screen>>
    BY <1>5 DEF format_end
  <2>2. item \in 1 .. Len(format) + 1 /\ out = Line(format, item - 1) /\ screen = <<>>
    BY <2>1 DEF LineInv
  <2>3. item - 1 \in 0 .. Len(format)
    BY <1>2, <2>2
  <2>4. out \in Seq(Char)
    BY <1>1, <2>2, <2>3, LineLaws
  <2>5. out = Line(format, Len(format))
    <3>1. CASE item > Len(format)
      <4>1. item - 1 = Len(format)
        BY <1>2, <2>2, <3>1
      <4> QED BY <2>2, <4>1
    <3>2. CASE Room = 0
      <4>1. Len(out) \in Nat /\ DLOG_LINE_MAX - 1 - Len(out) = 0
        BY <2>4, <3>2 DEF Room
      <4>2. Len(Line(format, item - 1)) >= DLOG_LINE_MAX - 1
        BY <2>2, <4>1, ConsoleAssumption
      <4> QED BY <1>1, <2>2, <2>3, <4>2, LineLaws
    <3> QED BY <2>1, <3>1, <3>2
  <2>6. <<>> = PrintedUpTo(out, 0)
    BY <2>4, PrintedLaws
  <2>7. /\ 1 \in 1 .. Len(out) + 1 /\ <<>> \in Seq(Char) /\ Len(<<>>) < CHUNK_MAX
        /\ <<>> \o <<>> = <<>> /\ 1 - 1 = 0
    BY <2>4, ConsoleAssumption
  <2> QED BY <1>1, <2>1, <2>2, <2>5, <2>6, <2>7 DEF LineInv
<1>6. CASE host_puts
  <2>1. /\ phase = "puts" /\ platform = "host" /\ screen' = screen \o out /\ phase' = "idle"
        /\ UNCHANGED <<platform, format, item, out, s, chunk>>
    BY <1>6 DEF host_puts
  <2>2. screen = <<>> /\ chunk = <<>> /\ out = Line(format, Len(format))
    BY <2>1 DEF LineInv
  <2>3. out \in Seq(Char)
    BY <1>1, <1>2, <2>2, LineLaws
  <2>4. screen' = out
    BY <2>1, <2>2, <2>3
  <2> QED BY <1>1, <2>1, <2>2, <2>4 DEF LineInv
<1>7. CASE uefi_put_char
  <2> DEFINE flush == Len(chunk) >= CHUNK_MAX - 3
  <2> DEFINE new == Printed(out[s])
  <2>1. /\ phase = "puts" /\ platform = "uefi" /\ s <= Len(out)
        /\ screen' = (IF flush THEN screen \o chunk ELSE screen)
        /\ chunk' = (IF flush THEN <<>> ELSE chunk) \o new
        /\ s' = s + 1
        /\ UNCHANGED <<phase, platform, format, item, out>>
    BY <1>7 DEF uefi_put_char, Printed
  <2>2. /\ s \in 1 .. Len(out) + 1
        /\ screen \in Seq(Char) /\ chunk \in Seq(Char) /\ Len(chunk) < CHUNK_MAX
        /\ screen \o chunk = PrintedUpTo(out, s - 1)
        /\ out = Line(format, Len(format))
    BY <2>1 DEF LineInv
  <2>3. out \in Seq(Char)
    BY <1>1, <1>2, <2>2, LineLaws
  <2>4. s \in 1 .. Len(out) /\ s' \in 1 .. Len(out') + 1 /\ s' - 1 = s
    BY <2>1, <2>2, <2>3
  <2>5. /\ PrintedUpTo(out, s) = PrintedUpTo(out, s - 1) \o new
        /\ new \in Seq(Char) /\ Len(new) <= 2
    BY <2>3, <2>4, PrintedLaws
  <2> HIDE DEF new
  <2>6. /\ screen' \in Seq(Char) /\ chunk' \in Seq(Char)
        /\ screen' \o chunk' = (screen \o chunk) \o new
    <3>1. CASE flush
      <4>1. screen' = screen \o chunk /\ chunk' = <<>> \o new
        BY <2>1, <3>1
      <4>2. screen \o chunk \in Seq(Char) /\ <<>> \o new = new
        BY <2>2, <2>5, ConcatProperties, ConcatEmptySeq
      <4> QED BY <2>5, <4>1, <4>2
    <3>2. CASE ~flush
      <4>1. screen' = screen /\ chunk' = chunk \o new
        BY <2>1, <3>2
      <4>2. screen \o (chunk \o new) = (screen \o chunk) \o new
        <5>1. \A t, u, v \in Seq(Char) : (t \o u) \o v = t \o (u \o v)
          BY ConcatAssociative
        <5>2. screen \in Seq(Char) /\ chunk \in Seq(Char) /\ new \in Seq(Char)
          BY <2>2, <2>5
        <5> QED BY <5>1, <5>2
      <4>3. chunk \o new \in Seq(Char)
        BY <2>2, <2>5
      <4> QED BY <2>2, <4>1, <4>2, <4>3
    <3> QED BY <3>1, <3>2
  <2>7. Len(chunk') < CHUNK_MAX
    BY <2>1, <2>2, <2>5, ConsoleAssumption
  <2>8. screen' \o chunk' = PrintedUpTo(out', s' - 1)
    BY <2>1, <2>2, <2>4, <2>5, <2>6
  <2> QED BY <1>1, <2>1, <2>2, <2>4, <2>6, <2>7, <2>8 DEF LineInv
<1>8. CASE uefi_put_end
  <2>1. /\ phase = "puts" /\ platform = "uefi" /\ s > Len(out)
        /\ screen' = screen \o chunk /\ phase' = "idle" /\ chunk' = <<>>
        /\ UNCHANGED <<platform, format, item, out, s>>
    BY <1>8 DEF uefi_put_end
  <2>2. /\ s \in 1 .. Len(out) + 1 /\ screen \o chunk = PrintedUpTo(out, s - 1)
        /\ out = Line(format, Len(format))
    BY <2>1 DEF LineInv
  <2>3. out \in Seq(Char)
    BY <1>1, <1>2, <2>2, LineLaws
  <2>4. s - 1 = Len(out)
    BY <2>1, <2>2, <2>3
  <2>5. screen' = FlattenSeq(PrintedChars(out'))
    BY <2>1, <2>2, <2>3, <2>4, PrintedLaws
  <2> QED BY <1>1, <2>1, <2>2, <2>5 DEF LineInv
<1>9. CASE UNCHANGED vars
  BY <1>9 DEF vars, LineInv
<1> QED BY <1>3, <1>4, <1>5, <1>6, <1>7, <1>8, <1>9 DEF Next, Proceeds

LEMMA LineInvariant == Spec => []LineInv
BY LineInit, LineStep, PTL DEF Spec

(***************************************************************************)
(* No format overflows the line buffer and no placing of newlines the      *)
(* chunk buffer, whatever their sizes (dlog.c, plat_uefi.c).               *)
(***************************************************************************)
THEOREM NoOverflow == Spec => []BuffersHold
<1>1. LineInv => BuffersHold
  <2> SUFFICES ASSUME LineInv PROVE BuffersHold
    OBVIOUS
  <2>1. format \in Format /\ Len(format) \in Nat
    BY TextsAreText DEF LineInv
  <2>2. Len(out) < DLOG_LINE_MAX
    <3>1. \E k \in 0 .. Len(format) : out = Line(format, k)
      BY <2>1 DEF LineInv
    <3> QED BY <2>1, <3>1, LineLaws
  <2>3. Len(chunk) < CHUNK_MAX
    <3>1. Len(<<>>) < CHUNK_MAX
      BY ConsoleAssumption
    <3> QED BY <3>1 DEF LineInv
  <2> QED BY <2>2, <2>3 DEF BuffersHold
<1> QED BY <1>1, LineInvariant, PTL

(***************************************************************************)
(* The console shows the line the format means, cut at the size of the     *)
(* line buffer: conversion, copying, chunks and carriage returns lose,     *)
(* double and reorder nothing, for every format and all buffer sizes.      *)
(***************************************************************************)
THEOREM ConsoleShowsTheLine == Spec => []PrintsTheLine
<1>1. LineInv => PrintsTheLine
  <2> SUFFICES ASSUME LineInv, phase = "idle"
               PROVE  screen = IF platform = "host" THEN MeantLine
                               ELSE FlattenSeq([k \in DOMAIN MeantLine |->
                                       IF MeantLine[k] = "\n" THEN <<"\r", "\n">> ELSE <<MeantLine[k]>>])
    BY DEF PrintsTheLine
  <2>1. format \in Format /\ out = Line(format, Len(format))
    BY DEF LineInv
  <2>2. Texts(format) = [k \in DOMAIN format |-> Meant(format[k])]
    BY <2>1, ConversionIsMeant DEF Texts
  <2>3. Rendered(format, Len(format)) = FlattenSeq(Texts(format))
    BY <2>1, TextsAreText, FlattenLaws DEF Rendered
  <2>4. MeantLine = out
    BY <2>1, <2>2, <2>3 DEF MeantLine, Line
  <2>5. screen = IF platform = "host" THEN out ELSE FlattenSeq(PrintedChars(out))
    BY DEF LineInv
  <2> QED BY <2>4, <2>5 DEF PrintedChars, Printed
<1> QED BY <1>1, LineInvariant, PTL

================================================================================
