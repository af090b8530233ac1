--------------------------- MODULE MemoryTestProofs ---------------------------
(***************************************************************************)
(* Theorems about MemoryTest for every size of memory, every range, layout *)
(* and pattern the tests accept, every menu of faults and all bounds.      *)
(***************************************************************************)
EXTENDS MemoryTest, DramProofs

-----------------------------------------------------------------------------
(* Words of the memory.                                                     *)

Location == 0 .. MemoryWords - 1

\* A word index names a codeword of the memory and a word of it.
LEMMA LocationSplits ==
  ASSUME NEW i \in Location
  PROVE  CodewordOf(i) \in Codeword /\ WordAt(i) \in Word
<1> DEFINE n == WordsPerCodeword
<1>1. n \in Nat \ {0} /\ Codewords \in Nat \ {0} /\ i \in Nat /\ i < Codewords * n
  BY MemoryTestAssumption, DramAssumption DEF Location, MemoryWords
<1>2. Word = 0 .. n - 1 /\ Codeword = 0 .. Codewords - 1
  BY MemoryTestAssumption DEF Codeword
<1> HIDE DEF n
<1>3. i % n \in 0 .. n - 1 /\ i \div n \in Nat /\ i = n * (i \div n) + (i % n)
  BY <1>1
<1>4. i \div n < Codewords
  <2> SUFFICES ASSUME Codewords <= i \div n PROVE FALSE
    BY <1>1, <1>3
  <2>1. n * Codewords <= n * (i \div n)
    BY <1>1, <1>3
  <2> QED BY <1>1, <1>3, <2>1
<1> QED BY <1>1, <1>2, <1>3, <1>4 DEF CodewordOf, WordAt, n

\* Two word indices that name the same codeword and word are one.
LEMMA LocationJoins ==
  ASSUME NEW i \in Location, NEW j \in Location,
         CodewordOf(i) = CodewordOf(j), WordAt(i) = WordAt(j)
  PROVE  i = j
<1> DEFINE n == WordsPerCodeword
<1>1. n \in Nat \ {0} /\ i \in Nat /\ j \in Nat
  BY MemoryTestAssumption, DramAssumption DEF Location, MemoryWords
<1>2. i \div n = j \div n /\ i % n = j % n
  BY DEF CodewordOf, WordAt, n
<1> HIDE DEF n
<1>3. i = n * (i \div n) + (i % n) /\ j = n * (j \div n) + (j % n)
  BY <1>1
<1> QED BY <1>2, <1>3

-----------------------------------------------------------------------------
(* March elements.                                                          *)

TestName == {"constant", "verify", "topology", "march"}

ElementType ==
    [descending : BOOLEAN, check_read : BOOLEAN, expected : Data,
     do_write : BOOLEAN, write_value : Data]

\* What the words read as once the element has done them.
After(e) == IF e.do_write THEN e.write_value ELSE e.expected

\* The elements of every test fit together: each one expects what the one before
\* it leaves, only a verify starts by reading, and the last one reads the pattern.
LEMMA ElementsFit ==
  ASSUME NEW name \in TestName, NEW pattern \in Data, name = "march" => pattern = Zeros
  PROVE  LET E == Elements(name, pattern)
         IN  /\ E \in Seq(ElementType) /\ Len(E) \in 1 .. 6
             /\ \A i \in 1 .. Len(E) : E[i].check_read \/ E[i].do_write
             /\ \A i \in 1 .. Len(E) - 1 :
                   E[i + 1].check_read /\ E[i + 1].expected = After(E[i])
             /\ E[Len(E)] = Check(pattern)
             /\ name # "verify" => ~E[1].check_read
<1>0. Zeros \in Data /\ Ones \in Data
  BY DEF Zeros, Ones, Data
<1>1. \A v \in Data : Fill(v) \in ElementType /\ Check(v) \in ElementType
  BY <1>0 DEF Fill, Check, ElementType, Up, Zeros
<1>2. \A d \in BOOLEAN, u, v \in Data : CheckThenWrite(d, u, v) \in ElementType
  BY DEF CheckThenWrite, ElementType
<1>3. CASE name = "constant" \/ name = "topology"
  <2>1. Elements(name, pattern) = <<Fill(pattern), Check(pattern)>>
    BY <1>3 DEF Elements
  <2> QED BY <1>1, <1>3, <2>1 DEF After, Fill, Check
<1>4. CASE name = "verify"
  <2> DEFINE E == Elements(name, pattern)
  <2>1. E = <<Check(pattern)>>
    BY <1>4 DEF Elements
  <2>2. Check(pattern) \in ElementType /\ Check(pattern).check_read
    BY <1>1 DEF Check
  <2>3. E \in Seq(ElementType) /\ Len(E) = 1 /\ E[1] = Check(pattern)
    BY <2>1, <2>2
  <2> HIDE DEF E
  <2> QED BY <1>4, <2>2, <2>3 DEF E
<1>5. CASE name = "march"
  <2> DEFINE E == <<Fill(Zeros),
              CheckThenWrite(Up, Zeros, Ones), CheckThenWrite(Up, Ones, Zeros),
              CheckThenWrite(Down, Zeros, Ones), CheckThenWrite(Down, Ones, Zeros),
              Check(Zeros)>>
  <2>1. Elements(name, pattern) = E
    BY <1>5 DEF Elements
  <2>2. E \in Seq(ElementType) /\ Len(E) = 6
    <3>1. /\ Fill(Zeros) \in ElementType /\ Check(Zeros) \in ElementType
          /\ CheckThenWrite(Up, Zeros, Ones) \in ElementType
          /\ CheckThenWrite(Up, Ones, Zeros) \in ElementType
          /\ CheckThenWrite(Down, Zeros, Ones) \in ElementType
          /\ CheckThenWrite(Down, Ones, Zeros) \in ElementType
      BY <1>0, <1>1, <1>2 DEF Up, Down
    <3> QED BY <3>1
  <2>3. /\ E[1] = Fill(Zeros) /\ E[2] = CheckThenWrite(Up, Zeros, Ones)
        /\ E[3] = CheckThenWrite(Up, Ones, Zeros) /\ E[4] = CheckThenWrite(Down, Zeros, Ones)
        /\ E[5] = CheckThenWrite(Down, Ones, Zeros) /\ E[6] = Check(Zeros)
    OBVIOUS
  <2> HIDE DEF E
  <2>4. \A i \in 1 .. 6 : E[i].check_read \/ E[i].do_write
    <3>1. \A i \in 1 .. 6 : i = 1 \/ i = 2 \/ i = 3 \/ i = 4 \/ i = 5 \/ i = 6
      OBVIOUS
    <3> QED BY <2>3, <3>1 DEF Fill, Check, CheckThenWrite
  <2>5. \A i \in 1 .. 5 : E[i + 1].check_read /\ E[i + 1].expected = After(E[i])
    <3>1. \A i \in 1 .. 5 : i = 1 \/ i = 2 \/ i = 3 \/ i = 4 \/ i = 5
      OBVIOUS
    <3> QED BY <2>3, <3>1 DEF Fill, Check, CheckThenWrite, After
  <2>6. ~E[1].check_read
    BY <2>3 DEF Fill
  <2> QED BY <1>5, <2>1, <2>2, <2>3, <2>4, <2>5, <2>6
<1> QED BY <1>3, <1>4, <1>5 DEF TestName

\* Dropping the first element of the rest of a sequence.
LEMMA RestOfSequence ==
  ASSUME NEW S, NEW s \in Seq(S), NEW i \in 1 .. Len(s)
  PROVE  LET rest == SubSeq(s, i, Len(s))
         IN  /\ rest \in Seq(S) /\ rest # <<>> /\ Len(rest) = Len(s) + 1 - i
             /\ Head(rest) = s[i]
             /\ Tail(rest) = SubSeq(s, i + 1, Len(s))
             /\ Len(Tail(rest)) = Len(s) - i
<1> DEFINE rest == SubSeq(s, i, Len(s))
<1>1. /\ rest \in Seq(S) /\ Len(rest) = Len(s) + 1 - i
      /\ \A k \in 1 .. Len(rest) : rest[k] = s[k + i - 1]
  OBVIOUS
<1>2. rest # <<>> /\ Head(rest) = s[i]
  <2> HIDE DEF rest
  <2>1. Len(rest) \in Nat /\ Len(rest) >= 1 /\ Len(<<>>) = 0
    BY <1>1
  <2>2. rest # <<>>
    BY <2>1
  <2> QED BY <1>1, <2>1, <2>2
<1>3. Tail(rest) = SubSeq(s, i + 1, Len(s)) /\ Len(Tail(rest)) = Len(s) - i
  OBVIOUS
<1> QED BY <1>1, <1>2, <1>3

-----------------------------------------------------------------------------
(* The loop.                                                                *)

Result ==
    [words_tested : Nat, error_count : Nat,
     first_fail_address : Location, first_expected : Data, first_actual : Data]

\* The elements of the test and the number of the current one.
AllElements == Elements(test.name, test.pattern)
Stage == Len(AllElements) + 1 - Len(todo)

\* While a test runs, "todo" is the rest of its elements and "at" is inside its walk.
Running ==
    /\ test.name \in TestName
    /\ test.name = "march" => test.pattern = Zeros
    /\ test.name # "topology" => ~Aliased
    /\ test.name = "topology" => DOMAIN test.walk = DOMAIN Tags
    /\ Stage \in 1 .. Len(AllElements)
    /\ todo = SubSeq(AllElements, Stage, Len(AllElements))
    /\ at \in 0 .. Len(test.walk) - 1
    /\ has_read => Element.check_read /\ Element.do_write

LoopInv ==
    /\ TypeOK
    /\ test \in [name : TestName \cup {"none"}, walk : Seq(Location), pattern : Data]
    /\ has_read \in BOOLEAN
    /\ result \in Result /\ result.error_count <= result.words_tested
    /\ todo = <<>> \/ Running

\* What the loop works on.
LEMMA LoopFacts ==
  ASSUME LoopInv, todo # <<>>
  PROVE  /\ AllElements \in Seq(ElementType) /\ Len(AllElements) \in 1 .. 6
         /\ Element = AllElements[Stage] /\ Element \in ElementType
         /\ Tail(todo) = SubSeq(AllElements, Stage + 1, Len(AllElements))
         /\ Len(todo) = Len(AllElements) + 1 - Stage
         /\ Len(Tail(todo)) = Len(AllElements) - Stage
         /\ Turn \in DOMAIN test.walk
         /\ Turn = IF Element.descending THEN Len(test.walk) - at ELSE at + 1
         /\ Current \in Location
         /\ CodewordOf(Current) \in Codeword /\ WordAt(Current) \in Word
<1>1. /\ Running /\ test.name \in TestName /\ test.pattern \in Data
      /\ test.walk \in Seq(Location)
  BY DEF LoopInv, Running
<1>2. AllElements \in Seq(ElementType) /\ Len(AllElements) \in 1 .. 6
  BY <1>1, ElementsFit DEF Running, AllElements
<1>3. /\ Head(todo) = AllElements[Stage]
      /\ Tail(todo) = SubSeq(AllElements, Stage + 1, Len(AllElements))
      /\ Len(todo) = Len(AllElements) + 1 - Stage
      /\ Len(Tail(todo)) = Len(AllElements) - Stage
  <2>1. todo = SubSeq(AllElements, Stage, Len(AllElements)) /\ Stage \in 1 .. Len(AllElements)
    BY <1>1 DEF Running
  <2> QED BY <1>2, <2>1, RestOfSequence
<1>4. Element = AllElements[Stage] /\ Element \in ElementType
  BY <1>1, <1>2, <1>3 DEF Element, Running
<1>5. Element.descending \in BOOLEAN
  BY <1>4 DEF ElementType
<1>6. Turn \in 1 .. Len(test.walk)
  BY <1>1, <1>5 DEF Turn, Running
<1>7. Current \in Location
  BY <1>1, <1>6 DEF Current
<1>8. Turn = IF Element.descending THEN Len(test.walk) - at ELSE at + 1
  BY DEF Turn
<1>9. CodewordOf(Current) \in Codeword /\ WordAt(Current) \in Word
  BY <1>7, LocationSplits
<1>10. Turn \in DOMAIN test.walk
  BY <1>1, <1>6
<1> QED BY <1>2, <1>3, <1>4, <1>7, <1>8, <1>9, <1>10

\* A value of a test fits its word.
LEMMA ValueFits ==
  ASSUME NEW k, NEW pattern \in Data
  PROVE  ValueAt(k, pattern) \in SUBSET Bits(WordAt(test.walk[k])) /\ ValueAt(k, pattern) \in Data
BY DEF ValueAt, Bits, Data

\* The end of a turn: the next word, the next element or the end of the test.
LEMMA NextWordCases ==
  ASSUME LoopInv, todo # <<>>, NextWord, test' = test
  PROVE  /\ ~has_read'
         /\ \/ /\ at + 1 < Len(test.walk) /\ at' = at + 1
               /\ todo' = todo /\ Stage' = Stage /\ Element' = Element
            \/ /\ at + 1 = Len(test.walk) /\ at' = 0
               /\ Stage < Len(AllElements) /\ Stage' = Stage + 1
               /\ todo' # <<>> /\ todo' = SubSeq(AllElements, Stage', Len(AllElements))
               /\ Element' = AllElements[Stage']
            \/ /\ at + 1 = Len(test.walk) /\ at' = 0
               /\ Stage = Len(AllElements) /\ todo' = <<>>
<1>1. /\ at \in 0 .. Len(test.walk) - 1 /\ Stage \in 1 .. Len(AllElements)
      /\ Len(test.walk) \in Nat
  BY DEF LoopInv, Running
<1>2. AllElements' = AllElements
  BY DEF AllElements
<1>3. ~has_read'
  BY DEF NextWord
<1>4. CASE at + 1 < Len(test.walk)
  BY <1>1, <1>2, <1>3, <1>4 DEF NextWord, Stage, Element
<1>5. CASE ~(at + 1 < Len(test.walk))
  <2>1. at + 1 = Len(test.walk) /\ at' = 0 /\ todo' = Tail(todo)
    BY <1>1, <1>5 DEF NextWord
  <2>2. /\ AllElements \in Seq(ElementType)
        /\ Tail(todo) = SubSeq(AllElements, Stage + 1, Len(AllElements))
        /\ Len(Tail(todo)) = Len(AllElements) - Stage
    BY LoopFacts
  <2>3. Stage' = Stage + 1
    BY <1>1, <1>2, <2>1, <2>2 DEF Stage
  <2>4. CASE Stage = Len(AllElements)
    <3>1. Len(todo') = 0 /\ todo' = SubSeq(AllElements, Stage + 1, Len(AllElements))
      BY <2>1, <2>2, <2>4
    <3>2. todo' = <<>>
      BY <1>1, <2>2, <2>4, <3>1
    <3> QED BY <1>3, <2>1, <2>4, <3>2
  <2>5. CASE Stage < Len(AllElements)
    <3>1. Stage + 1 \in 1 .. Len(AllElements) /\ todo' = SubSeq(AllElements, Stage + 1, Len(AllElements))
      BY <1>1, <2>1, <2>2, <2>5
    <3>2. todo' # <<>> /\ Head(todo') = AllElements[Stage + 1]
      BY <2>2, <3>1, RestOfSequence
    <3> QED BY <1>3, <2>1, <2>3, <2>5, <3>1, <3>2 DEF Element
  <2> QED BY <1>1, <2>4, <2>5
<1> QED BY <1>4, <1>5

\* Every step of the tests is a step of the memory or leaves it alone.
LEMMA TestStepsAreMemorySteps ==
  ASSUME LoopInv, [TestNext]_<<vars, tvars>>
  PROVE  [Next]_vars
<1>1. CASE Prepare
  BY <1>1 DEF Prepare, Next
<1>2. CASE Begin
  BY <1>2 DEF Begin, Start, Loop
<1>3. CASE ReadStep
  <2>1. CodewordOf(Current) \in Codeword /\ dram_read32(CodewordOf(Current))
    BY <1>3, LoopFacts DEF ReadStep
  <2> QED BY <2>1 DEF Next, Read
<1>4. CASE WriteStep
  <2> DEFINE value == ValueAt(Turn, Element.write_value)
  <2>1. /\ CodewordOf(Current) \in Codeword /\ WordAt(Current) \in Word
        /\ Element.write_value \in Data
    BY <1>4, LoopFacts DEF WriteStep, ElementType
  <2>2. value \in SUBSET Bits(WordAt(Current))
    BY <2>1, ValueFits DEF Current
  <2>3. dram_write32(CodewordOf(Current), WordAt(Current), value)
    BY <1>4 DEF WriteStep
  <2> HIDE DEF value
  <2> QED BY <2>1, <2>2, <2>3 DEF Next, Write
<1> QED BY <1>1, <1>2, <1>3, <1>4 DEF TestNext

\* The words of a range are locations and differ from each other.
LEMMA RangeWords ==
  ASSUME NEW range \in Ranges
  PROVE  /\ WordsOf(range) \in Seq(Location) /\ Len(WordsOf(range)) > 0
         /\ \A j, k \in DOMAIN WordsOf(range) : WordsOf(range)[j] = WordsOf(range)[k] => j = k
<1>1. /\ range.start \in Nat /\ range.count \in Nat \ {0}
      /\ range.start + range.count <= MemoryWords /\ MemoryWords \in Nat
  BY MemoryTestAssumption, DramAssumption DEF MemoryWords
<1>2. \A k \in 1 .. range.count : range.start + k - 1 \in Location
  BY <1>1 DEF Location
<1> DEFINE walk == WordsOf(range)
<1>3. /\ walk = [k \in 1 .. range.count |-> range.start + k - 1]
      /\ DOMAIN walk = 1 .. range.count
  BY DEF WordsOf
<1>4. walk \in Seq(Location) /\ Len(walk) = range.count
  BY <1>1, <1>2, <1>3
<1> HIDE DEF walk
<1>5. \A j, k \in DOMAIN walk : walk[j] = walk[k] => j = k
  BY <1>1, <1>3
<1> QED BY <1>1, <1>4, <1>5 DEF walk

\* A loop starts at the first word of its first element.
LEMMA LoopStarts ==
  ASSUME LoopInv, NEW name \in TestName, NEW walk \in Seq(Location), NEW pattern \in Data,
         Len(walk) > 0, name = "march" => pattern = Zeros,
         name # "topology" => \A j, k \in DOMAIN walk : walk[j] = walk[k] => j = k,
         name = "topology" => DOMAIN walk = DOMAIN Tags,
         Start(name, walk, pattern)
  PROVE  LoopInv' /\ Running' /\ Stage' = 1 /\ at' = 0 /\ ~has_read' /\ result' = ZeroResult
<1> DEFINE E == Elements(name, pattern)
<1>1. /\ test' = [name |-> name, walk |-> walk, pattern |-> pattern]
      /\ todo' = E /\ at' = 0 /\ has_read' = FALSE /\ result' = ZeroResult /\ UNCHANGED vars
  BY DEF Start, Loop
<1>2. AllElements' = E
  BY <1>1 DEF AllElements
<1>3. E \in Seq(ElementType) /\ Len(E) \in 1 .. 6
  BY ElementsFit
<1> HIDE DEF E
<1>4. Stage' = 1 /\ E = SubSeq(E, 1, Len(E))
  BY <1>1, <1>2, <1>3 DEF Stage
<1>5. Aliased' = \E j, k \in DOMAIN walk : j # k /\ walk[j] = walk[k]
  BY <1>1 DEF Aliased
<1>6. Running'
  BY <1>1, <1>2, <1>3, <1>4, <1>5 DEF Running
<1>7. TypeOK'
  <2>1. [Next]_vars
    BY <1>1
  <2> QED BY <2>1, TypeStep DEF LoopInv
<1>8. ZeroResult \in Result /\ ZeroResult.error_count <= ZeroResult.words_tested
  <2>1. 0 \in Location
    <3>1. \E k \in DOMAIN walk : walk[k] \in Location
      <4>1. 1 \in DOMAIN walk
        OBVIOUS
      <4> QED BY <4>1
    <3> QED BY <3>1, MemoryTestAssumption, DramAssumption DEF Location, MemoryWords
  <2> QED BY <2>1 DEF ZeroResult, Result, Data
<1> QED BY <1>1, <1>4, <1>6, <1>7, <1>8 DEF LoopInv

\* A test that starts is at the first word of its first element, with a zeroed result.
LEMMA BeginStarts ==
  ASSUME LoopInv, Begin
  PROVE  LoopInv' /\ Running' /\ Stage' = 1 /\ at' = 0 /\ ~has_read' /\ result' = ZeroResult
<1>1. ASSUME NEW range \in Ranges, NEW pattern \in Data, NEW name \in {"constant", "verify", "march"},
             name = "march" => pattern = Zeros, Start(name, WordsOf(range), pattern)
      PROVE  LoopInv' /\ Running' /\ Stage' = 1 /\ at' = 0 /\ ~has_read' /\ result' = ZeroResult
  <2> DEFINE walk == WordsOf(range)
  <2>1. /\ walk \in Seq(Location) /\ Len(walk) > 0
        /\ \A j, k \in DOMAIN walk : walk[j] = walk[k] => j = k
    BY RangeWords
  <2>2. name \in TestName /\ name # "topology" /\ Start(name, walk, pattern)
    BY <1>1 DEF TestName
  <2> HIDE DEF walk
  <2> QED BY <1>1, <2>1, <2>2, LoopStarts
<1>2. ASSUME NEW layout \in Layouts, NEW pattern \in Data, Start("topology", layout, pattern)
      PROVE  LoopInv' /\ Running' /\ Stage' = 1 /\ at' = 0 /\ ~has_read' /\ result' = ZeroResult
  <2>1. /\ layout \in Seq(Location) /\ layout # <<>> /\ DOMAIN layout = DOMAIN Tags
    BY MemoryTestAssumption DEF Location
  <2>2. Len(layout) > 0
    BY <2>1
  <2>3. "topology" \in TestName
    BY DEF TestName
  <2> QED BY <1>2, <2>1, <2>2, <2>3, LoopStarts
<1>3. Patterns \subseteq Data /\ Zeros \in Data
  BY MemoryTestAssumption DEF Zeros, Data
<1>4. \/ \E range \in Ranges, pattern \in Data, name \in {"constant", "verify", "march"} :
            (name = "march" => pattern = Zeros) /\ Start(name, WordsOf(range), pattern)
      \/ \E layout \in Layouts, pattern \in Data : Start("topology", layout, pattern)
  BY <1>3 DEF Begin, Zeros
<1> QED BY <1>1, <1>2, <1>4

\* The next word is in the walk, or the next element starts over.
LEMMA TurnEnds ==
  ASSUME LoopInv, todo # <<>>, NextWord, test' = test
  PROVE  todo' = <<>> \/ Running'
<1>1. Running /\ AllElements' = AllElements /\ Len(test.walk) \in Nat /\ ~has_read'
  BY NextWordCases DEF LoopInv, AllElements
<1>2. Aliased' = Aliased
  BY DEF Aliased
<1>3. ASSUME at + 1 < Len(test.walk), at' = at + 1, todo' = todo, Stage' = Stage
      PROVE  Running'
  BY <1>1, <1>2, <1>3 DEF Running
<1>4. ASSUME at + 1 = Len(test.walk), at' = 0, Stage < Len(AllElements), Stage' = Stage + 1,
             todo' = SubSeq(AllElements, Stage', Len(AllElements))
      PROVE  Running'
  <2>1. Len(AllElements) \in Nat
    BY LoopFacts
  <2> QED BY <1>1, <1>2, <1>4, <2>1 DEF Running
<1> QED BY <1>3, <1>4, NextWordCases

\* A read counts the word it compared and keeps the first one that was wrong.
LEMMA ReadResult ==
  ASSUME LoopInv, ReadStep
  PROVE  LET c == CodewordOf(Current)
             w == WordAt(Current)
             expected == ValueAt(Turn, Element.expected)
         IN  /\ todo # <<>> /\ Element.check_read /\ ~has_read
             /\ UNCHANGED <<up, data, parity, faults, odecc_enabled, test>>
             /\ result' \in Result /\ result'.error_count <= result'.words_tested
             /\ result'.error_count = result.error_count
                   + (IF dram_read32_value(c, w) = expected THEN 0 ELSE 1)
<1> DEFINE actual == dram_read32_value(CodewordOf(Current), WordAt(Current))
<1> DEFINE expected == ValueAt(Turn, Element.expected)
<1>1. /\ todo # <<>> /\ Element.check_read /\ ~has_read
      /\ UNCHANGED <<up, data, parity, faults, odecc_enabled, test>>
      /\ Compare(actual, expected)
  BY DEF ReadStep, dram_read32, cells
<1>2. /\ CodewordOf(Current) \in Codeword /\ Current \in Location
      /\ Element.expected \in Data
  BY <1>1, LoopFacts DEF ElementType
<1>3. actual \in Data /\ expected \in Data
  BY <1>2, AccessTypes, ValueFits DEF LoopInv, dram_read32_value, Bits, Data
<1>4. result \in Result /\ result.error_count <= result.words_tested
  BY DEF LoopInv
<1> HIDE DEF actual, expected
<1>5. /\ result' \in Result /\ result'.error_count <= result'.words_tested
      /\ result'.error_count = result.error_count + (IF actual = expected THEN 0 ELSE 1)
  BY <1>1, <1>2, <1>3, <1>4 DEF Compare, Result
<1> QED BY <1>1, <1>5 DEF actual, expected

\* No step leaves the walk or the elements of the test.
LEMMA LoopInvStep == LoopInv /\ [TestNext]_<<vars, tvars>> => LoopInv'
<1> SUFFICES ASSUME LoopInv, [TestNext]_<<vars, tvars>> PROVE LoopInv'
  OBVIOUS
<1>1. TypeOK'
  <2>1. [Next]_vars
    BY TestStepsAreMemorySteps
  <2> QED BY <2>1, TypeStep DEF LoopInv
<1>2. CASE UNCHANGED tvars
  <2>1. todo' = todo /\ test' = test /\ at' = at /\ has_read' = has_read /\ result' = result
    BY <1>2 DEF tvars
  <2>2. Running' = Running
    BY <2>1 DEF Running, Stage, AllElements, Aliased, Element
  <2> QED BY <1>1, <2>1, <2>2 DEF LoopInv
<1>3. CASE Begin
  BY <1>3, BeginStarts
<1>4. CASE ReadStep
  <2>1. /\ todo # <<>> /\ Element.check_read /\ ~has_read /\ test' = test
        /\ result' \in Result /\ result'.error_count <= result'.words_tested
    BY <1>4, ReadResult
  <2>2. todo' = <<>> \/ Running'
    <3>1. CASE Element.do_write
      <4>1. has_read' = TRUE /\ at' = at /\ todo' = todo
        BY <1>4, <3>1 DEF ReadStep
      <4>2. /\ Element' = Element /\ Stage' = Stage /\ AllElements' = AllElements
            /\ Aliased' = Aliased
        BY <2>1, <4>1 DEF Element, Stage, AllElements, Aliased
      <4>3. Running
        BY <2>1 DEF LoopInv
      <4> QED BY <2>1, <3>1, <4>1, <4>2, <4>3 DEF Running
    <3>2. CASE ~Element.do_write
      BY <1>4, <2>1, <3>2, TurnEnds DEF ReadStep
    <3> QED BY <3>1, <3>2
  <2>3. has_read' \in BOOLEAN
    BY <1>4 DEF ReadStep, NextWord
  <2> QED BY <1>1, <2>1, <2>2, <2>3 DEF LoopInv
<1>5. CASE WriteStep
  <2>1. todo # <<>> /\ NextWord /\ test' = test /\ result' = result
    BY <1>5 DEF WriteStep
  <2>2. (todo' = <<>> \/ Running') /\ ~has_read'
    BY <2>1, TurnEnds, NextWordCases
  <2>3. has_read' \in BOOLEAN
    BY <2>1 DEF NextWord
  <2> QED BY <1>1, <2>1, <2>2, <2>3 DEF LoopInv
<1> QED BY <1>2, <1>3, <1>4, <1>5 DEF TestNext, Prepare

\* Before the first test no loop runs.
LEMMA LoopInvInit == TestInit => LoopInv
<1> SUFFICES ASSUME TestInit PROVE LoopInv
  OBVIOUS
<1>1. TypeOK
  BY InitType DEF TestInit
<1>2. 0 \in Location
  BY MemoryTestAssumption, DramAssumption DEF Location, MemoryWords
<1>3. ZeroResult \in Result /\ ZeroResult.error_count <= ZeroResult.words_tested
  BY <1>2 DEF ZeroResult, Result, Data
<1>4. NoTest \in [name : TestName \cup {"none"}, walk : Seq(Location), pattern : Data]
  <2>1. <<>> \in Seq(Location) /\ {} \in Data
    BY DEF Data
  <2> QED BY <2>1 DEF NoTest
<1> QED BY <1>1, <1>3, <1>4 DEF TestInit, LoopInv

\* The loop of march_element is always where its counters may be.
LEMMA LoopInvariant == TestSpec => []LoopInv
<1>1. TestSpec => TestInit /\ [][TestNext]_<<vars, tvars>>
  BY PTL DEF TestSpec
<1> QED BY <1>1, LoopInvInit, LoopInvStep, PTL

(***************************************************************************)
(* The loops of core/memory_test.c stay within their walk, through the     *)
(* last word of the last element and both directions, whatever the cells   *)
(* hold, and never count more errors than words.                           *)
(***************************************************************************)
THEOREM TestTypeCorrect == TestSpec => []TestTypeOK
<1>1. LoopInv => TestTypeOK
  <2> SUFFICES ASSUME LoopInv PROVE TestTypeOK
    OBVIOUS
  <2>1. Len(todo) <= 6 /\ (todo # <<>> => Turn \in DOMAIN test.walk)
    <3>1. CASE todo = <<>>
      BY <3>1
    <3>2. CASE todo # <<>>
      <4>1. Stage \in 1 .. Len(AllElements)
        BY <3>2 DEF LoopInv, Running
      <4>2. /\ Len(todo) = Len(AllElements) + 1 - Stage /\ Len(AllElements) \in 1 .. 6
            /\ Turn \in DOMAIN test.walk
        BY <3>2, LoopFacts
      <4>3. \A n \in 1 .. 6 : \A s \in 1 .. n : n + 1 - s <= 6
        OBVIOUS
      <4>4. Len(todo) <= 6
        BY <4>1, <4>2, <4>3
      <4> QED BY <4>2, <4>4
    <3> QED BY <3>1, <3>2
  <2> QED BY <2>1 DEF LoopInv, TestTypeOK, TestName, Location
<1> QED BY <1>1, LoopInvariant, PTL

-----------------------------------------------------------------------------
(* What a passed test says of its words.                                    *)

\* The k-th word of the walk reads as "pattern" there.
Shows(k, pattern) ==
    dram_read32_value(CodewordOf(test.walk[k]), WordAt(test.walk[k])) = ValueAt(k, pattern)

\* What reads return depends on the cells, the fault table and the switch alone.
LEMMA ViewUnchanged ==
  ASSUME UNCHANGED <<data, parity, faults, odecc_enabled>>, NEW c
  PROVE  View(c)' = View(c)
<1>1. StuckBits(c)' = StuckBits(c) /\ ForcedTo1(c)' = ForcedTo1(c)
  BY StuckUnchanged
<1>2. load_codeword(c)' = load_codeword(c)
  BY <1>1 DEF load_codeword, apply_stuck_faults_codeword
<1> QED BY <1>2 DEF View, Decoded

\* What a word shows depends on the cells and on the test only.
LEMMA ShowsUnchanged ==
  ASSUME UNCHANGED <<data, parity, faults, odecc_enabled, test>>, NEW k, NEW pattern
  PROVE  Shows(k, pattern)' = Shows(k, pattern)
<1>1. \A c : View(c)' = View(c)
  BY ViewUnchanged
<1>2. ValueAt(k, pattern)' = ValueAt(k, pattern)
  BY DEF ValueAt
<1> QED BY <1>1, <1>2 DEF Shows, dram_read32_value

\* In its last element a test compares every word with its pattern, in ascending order.
LEMMA LastElement ==
  ASSUME LoopInv, todo # <<>>, Stage = Len(AllElements)
  PROVE  Element = Check(test.pattern) /\ ~Element.do_write /\ Turn = at + 1
<1>1. /\ test.name \in TestName /\ test.pattern \in Data
      /\ test.name = "march" => test.pattern = Zeros
  BY DEF LoopInv, Running
<1>2. AllElements[Len(AllElements)] = Check(test.pattern)
  BY <1>1, ElementsFit DEF AllElements
<1>3. Element = Check(test.pattern)
  BY <1>2, LoopFacts
<1>4. ~Element.do_write /\ ~Element.descending
  BY <1>3 DEF Check, Up
<1> QED BY <1>3, <1>4 DEF Turn

\* A test ends on a read of its last word.
LEMMA LastStep ==
  ASSUME LoopInv, TestNext, Finishes
  PROVE  /\ ReadStep /\ todo # <<>> /\ Stage = Len(AllElements)
         /\ at + 1 = Len(test.walk) /\ test' = test
<1>1. todo # <<>> /\ todo' = <<>>
  BY DEF Finishes
<1>2. \/ ReadStep \/ WriteStep
  BY <1>1 DEF TestNext, Prepare, Begin, Start, Loop
<1>3. NextWord /\ test' = test
  BY <1>1, <1>2 DEF ReadStep, WriteStep
<1>4. Stage = Len(AllElements) /\ at + 1 = Len(test.walk)
  BY <1>1, <1>3, NextWordCases
<1>5. ~Element.do_write
  BY <1>1, <1>4, LastElement
<1> QED BY <1>1, <1>2, <1>3, <1>4, <1>5 DEF WriteStep

\* While the last element has found nothing, the words it has done show the pattern.
PassInv ==
    todo # <<>> /\ Stage = Len(AllElements) /\ result.error_count = 0
        => \A k \in 1 .. at : Shows(k, test.pattern)

\* A read that finds nothing saw its word show what was expected.
LEMMA CleanRead ==
  ASSUME LoopInv, ReadStep, result'.error_count = 0
  PROVE  result.error_count = 0 /\ Shows(Turn, Element.expected)
<1>1. result.error_count \in Nat
  BY DEF LoopInv, Result
<1>2. LET c == CodewordOf(Current)
          w == WordAt(Current)
          expected == ValueAt(Turn, Element.expected)
      IN  result'.error_count = result.error_count
                   + (IF dram_read32_value(c, w) = expected THEN 0 ELSE 1)
  BY ReadResult
<1> QED BY <1>1, <1>2 DEF Shows, Current

\* Nothing a checking element does changes what it has checked.
LEMMA PassInvStep == LoopInv /\ PassInv /\ [TestNext]_<<vars, tvars>> => PassInv'
<1> SUFFICES ASSUME LoopInv, PassInv, [TestNext]_<<vars, tvars>>,
                    (todo # <<>> /\ Stage = Len(AllElements) /\ result.error_count = 0)'
             PROVE  (\A k \in 1 .. at : Shows(k, test.pattern))'
  BY DEF PassInv
<1>1. CASE UNCHANGED <<vars, tvars>>
  <2>1. /\ UNCHANGED <<data, parity, faults, odecc_enabled, test>> /\ at' = at
        /\ todo' = todo /\ result' = result /\ Stage' = Stage /\ AllElements' = AllElements
    BY <1>1 DEF vars, tvars, cells, Stage, AllElements
  <2>2. \A k \in 1 .. at : Shows(k, test.pattern)
    BY <2>1 DEF PassInv
  <2> QED BY <2>1, <2>2, ShowsUnchanged
<1>2. CASE Prepare
  BY <1>2 DEF Prepare, tvars
<1>3. CASE Begin
  <2>1. at' = 0
    BY <1>3, BeginStarts
  <2> QED BY <2>1
<1>4. ASSUME todo # <<>>, NextWord, test' = test, at' # 0
      PROVE  at' = at + 1 /\ Stage = Len(AllElements) /\ AllElements' = AllElements
  <2>1. at' = at + 1 /\ Stage' = Stage
    BY <1>4, NextWordCases
  <2>2. AllElements' = AllElements
    BY <1>4 DEF AllElements
  <2> QED BY <2>1, <2>2
<1>5. CASE ReadStep
  <2>1. todo # <<>> /\ UNCHANGED <<data, parity, faults, odecc_enabled, test>>
    BY <1>5, ReadResult
  <2>2. result.error_count = 0 /\ Shows(Turn, Element.expected)
    BY <1>5, CleanRead
  <2>3. CASE at' = 0
    BY <2>3
  <2>4. CASE at' # 0 /\ ~Element.do_write
    <3>1. at' = at + 1 /\ Stage = Len(AllElements)
      BY <1>4, <1>5, <2>1, <2>4 DEF ReadStep
    <3>2. Shows(at + 1, test.pattern)
      <4>1. Element = Check(test.pattern) /\ Turn = at + 1
        BY <2>1, <3>1, LastElement
      <4> QED BY <2>2, <4>1 DEF Check
    <3>3. \A k \in 1 .. at : Shows(k, test.pattern)
      BY <2>1, <2>2, <3>1 DEF PassInv
    <3>4. at \in Nat
      BY <2>1 DEF LoopInv, Running
    <3>5. \A k \in 1 .. at + 1 : Shows(k, test.pattern)
      BY <3>2, <3>3, <3>4
    <3> QED BY <2>1, <3>1, <3>5, ShowsUnchanged
  <2>5. CASE Element.do_write
    <3>1. at' = at /\ todo' = todo
      BY <1>5, <2>5 DEF ReadStep
    <3>2. Stage = Len(AllElements)
      BY <2>1, <3>1 DEF Stage, AllElements
    <3> QED BY <2>1, <2>5, <3>2, LastElement
  <2> QED BY <2>3, <2>4, <2>5
<1>6. CASE WriteStep
  <2>1. todo # <<>> /\ NextWord /\ test' = test /\ Element.do_write
    BY <1>6 DEF WriteStep
  <2>2. CASE at' = 0
    BY <2>2
  <2>3. CASE at' # 0
    BY <1>4, <2>1, <2>3, LastElement
  <2> QED BY <2>2, <2>3
<1> QED BY <1>1, <1>2, <1>3, <1>5, <1>6 DEF TestNext

\* The checked words of the last element always show the pattern.
LEMMA PassInvariant == TestSpec => []PassInv
<1>1. TestSpec => TestInit /\ [][TestNext]_<<vars, tvars>>
  BY PTL DEF TestSpec
<1>2. TestInit => PassInv
  BY DEF TestInit, PassInv
<1> QED BY <1>1, <1>2, LoopInvariant, PassInvStep, PTL

\* At the end of a test that found nothing every word shows the pattern.
LEMMA PassedShows ==
  ASSUME LoopInv, PassInv, TestNext, Finishes, result'.error_count = 0
  PROVE  \A k \in DOMAIN test.walk : Shows(k, test.pattern)
<1>1. /\ ReadStep /\ todo # <<>> /\ Stage = Len(AllElements)
      /\ at + 1 = Len(test.walk)
  BY LastStep
<1>2. result.error_count = 0 /\ Shows(Turn, Element.expected)
  BY <1>1, CleanRead
<1>3. Element = Check(test.pattern) /\ Turn = at + 1
  BY <1>1, LastElement
<1>4. Shows(at + 1, test.pattern)
  BY <1>2, <1>3 DEF Check
<1>5. \A k \in 1 .. at : Shows(k, test.pattern)
  BY <1>1, <1>2 DEF PassInv
<1>6. at \in Nat /\ DOMAIN test.walk = 1 .. at + 1
  BY <1>1 DEF LoopInv, Running
<1> QED BY <1>4, <1>5, <1>6

(***************************************************************************)
(* PASS in the result log is true of the whole range at the end of the     *)
(* test, although its words were compared at different times: whatever     *)
(* faults the memory has, and with the decoder on or off.                  *)
(***************************************************************************)
THEOREM PassIsTrue == TestSpec => PassMeansPatternHolds
<1>1. TestSpec => [][TestNext]_<<vars, tvars>>
  BY PTL DEF TestSpec
<1>2. LoopInv /\ PassInv /\ [TestNext]_<<vars, tvars>> =>
        [Finishes /\ result'.error_count = 0
           => \A k \in DOMAIN test.walk :
                 dram_read32_value(CodewordOf(test.walk[k]), WordAt(test.walk[k]))
                     = ValueAt(k, test.pattern)]_<<vars, tvars>>
  BY PassedShows DEF Shows
<1> QED BY <1>1, <1>2, LoopInvariant, PassInvariant, PTL DEF PassMeansPatternHolds

(***************************************************************************)
(* The topology test of memory_test.c fails whenever two of its locations  *)
(* share a word: no word can show two tags at once, so no fault and no     *)
(* miscorrection hides the alias.                                          *)
(***************************************************************************)
THEOREM AliasesAreFound == TestSpec => TopologyFindsAliases
<1>1. ASSUME LoopInv, PassInv, TestNext, Finishes, test.name = "topology", Aliased
      PROVE  result'.error_count > 0
  <2> SUFFICES ASSUME result'.error_count = 0 PROVE FALSE
    <3>1. ReadStep
      BY <1>1, LastStep
    <3>2. result'.error_count \in Nat
      BY <1>1, <3>1, ReadResult DEF Result
    <3> QED BY <3>2
  <2>1. PICK j, k \in DOMAIN test.walk : j # k /\ test.walk[j] = test.walk[k]
    BY <1>1 DEF Aliased
  <2> DEFINE w == WordAt(test.walk[j])
  <2>2. w \in Word /\ j \in DOMAIN Tags /\ k \in DOMAIN Tags
    <3>1. test.walk[j] \in Location /\ DOMAIN test.walk = DOMAIN Tags
      BY <1>1 DEF LoopInv, Running, Finishes
    <3> QED BY <2>1, <3>1, LocationSplits
  <2>3. ValueAt(j, test.pattern) = ValueAt(k, test.pattern)
    BY <1>1, <2>1, PassedShows DEF Shows
  <2>4. Bits(w) \cap SymDiff(test.pattern, Tags[j]) = Bits(w) \cap SymDiff(test.pattern, Tags[k])
    BY <1>1, <2>1, <2>3 DEF ValueAt, topology_pattern_for_location
  <2> HIDE DEF w
  <2>5. Tags[j] \cap Bits(w) = Tags[k] \cap Bits(w)
    BY <2>4 DEF SymDiff
  <2> QED BY <2>1, <2>2, <2>5, MemoryTestAssumption
<1>2. TestSpec => [][TestNext]_<<vars, tvars>>
  BY PTL DEF TestSpec
<1>3. LoopInv /\ PassInv /\ [TestNext]_<<vars, tvars>> =>
        [Finishes /\ test.name = "topology" /\ Aliased
           => result'.error_count > 0]_<<vars, tvars>>
  BY <1>1
<1> QED BY <1>2, <1>3, LoopInvariant, PassInvariant, PTL DEF TopologyFindsAliases

-----------------------------------------------------------------------------
(* A memory without faults, or with faults the decoder hides from a test.   *)

\* No fault shows: none distorts a write or has a victim, and each codeword has
\* at most one stuck cell, which the decoder covers.
Harmless == \A c \in Codeword : WritesAreFaithful(c) /\ VictimBits(c) = {}

\* A memory without faults has none that shows.
LEMMA CleanIsHarmless ==
  ASSUME faults = <<>>
  PROVE  Harmless
BY DEF Harmless, WritesAreFaithful, VictimBits, StuckBits, StuckFaults

\* Whether faults show depends on the fault table and the switch alone.
LEMMA HarmlessUnchanged ==
  ASSUME faults' = faults, odecc_enabled' = odecc_enabled
  PROVE  Harmless' = Harmless
<1>1. \A c : StuckBits(c)' = StuckBits(c)
  BY StuckUnchanged
<1>2. \A c : VictimBits(c)' = VictimBits(c)
  BY DEF VictimBits
<1>3. \A c : WritesAreFaithful(c)' = WritesAreFaithful(c)
  BY <1>1 DEF WritesAreFaithful
<1> QED BY <1>2, <1>3 DEF Harmless

\* The words the current element has done.
Done(k) == IF Element.descending THEN k > Len(test.walk) - at ELSE k <= at

\* The word of this turn is not done yet; when it is, the loop is where NextWord says.
LEMMA DoneAdvances ==
  ASSUME LoopInv, todo # <<>>, NextWord, test' = test, NEW k \in DOMAIN test.walk
  PROVE  /\ ~Done(Turn)
         /\ at' # 0 => (Done(k)' <=> Done(k) \/ k = Turn)
         /\ at' = 0 => (Done(k) \/ k = Turn) /\ (todo' # <<>> => ~Done(k)')
<1>1. Turn = IF Element.descending THEN Len(test.walk) - at ELSE at + 1
  BY LoopFacts
<1>2. at \in 0 .. Len(test.walk) - 1 /\ k \in 1 .. Len(test.walk) /\ Len(test.walk) \in Nat
  BY DEF LoopInv, Running
<1>3. \/ at + 1 < Len(test.walk) /\ at' = at + 1 /\ Element' = Element
      \/ at + 1 = Len(test.walk) /\ at' = 0
  BY NextWordCases
<1> QED BY <1>1, <1>2, <1>3 DEF Done

\* Two codewords with the same cells, parity and faults read the same.
LEMMA CodewordUnchanged ==
  ASSUME NEW c, data'[c] = data[c], parity'[c] = parity[c],
         faults' = faults, odecc_enabled' = odecc_enabled
  PROVE  View(c)' = View(c)
<1>1. StuckBits(c)' = StuckBits(c) /\ ForcedTo1(c)' = ForcedTo1(c)
  BY StuckUnchanged
<1> QED BY <1>1 DEF View, Decoded, load_codeword, apply_stuck_faults_codeword

\* Merging a word into a codeword replaces that word only.
LEMMA MergedWord ==
  ASSUME NEW view, NEW bits, NEW value \in SUBSET bits
  PROVE  /\ ((view \ bits) \cup value) \cap bits = value
         /\ \A other : other \cap bits = {} =>
                ((view \ bits) \cup value) \cap other = view \cap other
OBVIOUS

\* What a write step writes, and where.
LEMMA WriteFacts ==
  ASSUME LoopInv, WriteStep
  PROVE  \E c \in Codeword, w \in Word, value \in SUBSET DataBit :
            /\ c = CodewordOf(Current) /\ w = WordAt(Current) /\ value \in SUBSET Bits(w)
            /\ value = ValueAt(Turn, Element.write_value)
            /\ dram_write32(c, w, value)
            /\ UNCHANGED <<test, faults, odecc_enabled, result>>
            /\ todo # <<>> /\ NextWord
<1>1. /\ todo # <<>> /\ NextWord /\ UNCHANGED <<test, faults, odecc_enabled, result>>
      /\ dram_write32(CodewordOf(Current), WordAt(Current), ValueAt(Turn, Element.write_value))
  BY DEF WriteStep, dram_write32
<1>2. CodewordOf(Current) \in Codeword /\ WordAt(Current) \in Word
  BY <1>1, LoopFacts
<1>3. Element.write_value \in Data
  BY <1>1, LoopFacts DEF ElementType
<1>4. ValueAt(Turn, Element.write_value) \in SUBSET Bits(WordAt(Current))
  BY <1>3, ValueFits DEF Current
<1>5. Bits(WordAt(Current)) \subseteq DataBit
  BY DEF Bits
<1> QED BY <1>1, <1>2, <1>4, <1>5

\* Writing one word of a walk leaves what the others show as it is.
LEMMA WriteShows ==
  ASSUME LoopInv, WriteStep, Harmless, ~Aliased,
         NEW t, t = Turn, NEW v, v = Element.write_value
  PROVE  /\ Shows(t, v)'
         /\ \A k \in DOMAIN test.walk : \A u : k # t /\ Shows(k, u) => Shows(k, u)'
<1>1. PICK c \in Codeword, w \in Word, value \in SUBSET DataBit :
          /\ c = CodewordOf(Current) /\ w = WordAt(Current) /\ value \in SUBSET Bits(w)
          /\ value = ValueAt(Turn, Element.write_value)
          /\ dram_write32(c, w, value)
          /\ UNCHANGED <<test, faults, odecc_enabled, result>>
          /\ todo # <<>>
  BY WriteFacts
<1>2. t \in DOMAIN test.walk /\ Current = test.walk[t] /\ Current \in Location
  BY <1>1, LoopFacts DEF Current
<1>3. TypeOK /\ test.walk \in Seq(Location)
  BY DEF LoopInv
<1>4. View(c)' = (View(c) \ Bits(w)) \cup value
  <2>1. WritesAreFaithful(c)
    BY DEF Harmless
  <2> QED BY <1>1, <1>3, <2>1, WriteReads
<1>5. ASSUME NEW d \in Codeword \ {c} PROVE View(d)' = View(d)
  <2>1. \A i \in DOMAIN faults : Spares(faults[i], c)
    BY DEF Harmless, WritesAreFaithful, Spares
  <2>2. parity'[d] = parity[d] /\ SymDiff(data'[d], data[d]) \subseteq VictimBits(d)
    BY <1>1, <1>3, <2>1, FaithfulWrite
  <2>3. VictimBits(d) = {}
    BY DEF Harmless
  <2>4. data'[d] = data[d]
    <3>1. data[d] \in Data /\ data'[d] \ data[d] = {} /\ data[d] \ data'[d] = {}
      BY <1>3, <2>2, <2>3 DEF SymDiff, TypeOK
    <3> QED BY <3>1
  <2> QED BY <1>1, <2>2, <2>4, CodewordUnchanged
<1>6. \A k, u : ValueAt(k, u)' = ValueAt(k, u)
  BY <1>1 DEF ValueAt
<1>7. Shows(t, v)'
  <2>1. c = CodewordOf(test.walk[t]) /\ w = WordAt(test.walk[t]) /\ value = ValueAt(t, v)
    BY <1>1, <1>2
  <2>2. View(c)' \cap Bits(w) = value
    <3>1. value \in SUBSET Bits(w)
      BY <1>1
    <3> QED BY <1>4, <3>1, MergedWord
  <2> QED BY <1>1, <1>6, <2>1, <2>2 DEF Shows, dram_read32_value
<1>8. ASSUME NEW k \in DOMAIN test.walk, NEW u, k # t, Shows(k, u) PROVE Shows(k, u)'
  <2>1. PICK d, x : d = CodewordOf(test.walk[k]) /\ x = WordAt(test.walk[k])
    OBVIOUS
  <2>2. test.walk[k] \in Location /\ test.walk[k] # Current
    BY <1>2, <1>3, <1>8 DEF Aliased
  <2>3. d \in Codeword /\ x \in Word /\ (d # c \/ x # w)
    BY <1>1, <1>2, <2>1, <2>2, LocationSplits, LocationJoins
  <2>4. View(d) \cap Bits(x) = ValueAt(k, u)
    BY <1>8, <2>1 DEF Shows, dram_read32_value
  <2>5. View(d)' \cap Bits(x) = View(d) \cap Bits(x)
    <3>1. CASE d # c
      BY <1>5, <2>3, <3>1
    <3>2. CASE d = c /\ x # w
      <4>1. Bits(x) \cap Bits(w) = {} /\ value \in SUBSET Bits(w)
        BY <1>1, <3>2 DEF Bits
      <4>2. ((View(c) \ Bits(w)) \cup value) \cap Bits(x) = View(c) \cap Bits(x)
        BY <4>1, MergedWord
      <4> QED BY <1>4, <3>2, <4>2
    <3> QED BY <2>3, <3>1, <3>2
  <2> QED BY <1>1, <1>6, <2>1, <2>4, <2>5 DEF Shows, dram_read32_value
<1> QED BY <1>7, <1>8

\* The words done show what the element leaves, the others what it expects.
Tidy ==
    \A k \in DOMAIN test.walk : \A v :
        \/ Done(k) /\ v = After(Element)
        \/ ~Done(k) /\ Element.check_read /\ v = Element.expected
        => Shows(k, v)

QuietInv ==
    todo # <<>> /\ Harmless /\ test.name # "verify" /\ ~Aliased
        => result.error_count = 0 /\ Tidy

\* One turn that leaves its own word as the element means to, and the others alone.
LEMMA TidyTurn ==
  ASSUME LoopInv, Tidy, todo # <<>>, NextWord, test' = test, todo' # <<>>,
         NEW t, t = Turn, NEW e, e = Element, Shows(t, After(e))',
         \A k \in DOMAIN test.walk : \A u : k # t /\ Shows(k, u) => Shows(k, u)'
  PROVE  Tidy'
<1> SUFFICES ASSUME NEW k \in DOMAIN test.walk, NEW v,
                    \/ Done(k)' /\ v = After(Element')
                    \/ ~Done(k)' /\ Element'.check_read /\ v = Element'.expected
             PROVE  Shows(k, v)'
  BY DEF Tidy
<1>1. CASE at' # 0
  <2>1. Element' = e
    BY <1>1, NextWordCases
  <2>2. ~Done(t) /\ (Done(k)' <=> Done(k) \/ k = t)
    BY <1>1, DoneAdvances
  <2>3. CASE k = t
    BY <2>1, <2>2, <2>3
  <2>4. CASE k # t
    <3>1. Shows(k, v)
      BY <2>1, <2>2, <2>4 DEF Tidy
    <3> QED BY <2>4, <3>1
  <2> QED BY <2>3, <2>4
<1>2. CASE at' = 0
  <2>1. (Done(k) \/ k = t) /\ ~Done(t) /\ ~Done(k)'
    BY <1>2, DoneAdvances
  <2>2. v = After(e)
    <3>1. /\ Stage < Len(AllElements) /\ Stage \in 1 .. Len(AllElements)
          /\ Element' = AllElements[Stage + 1]
      <4>1. at \in 0 .. Len(test.walk) - 1
        BY DEF LoopInv, Running
      <4> QED BY <1>2, <4>1, NextWordCases DEF LoopInv, Running
    <3>2. e = AllElements[Stage] /\ Len(AllElements) \in 1 .. 6
      BY LoopFacts
    <3>3. \A i \in 1 .. Len(AllElements) - 1 :
             AllElements[i + 1].check_read /\ AllElements[i + 1].expected = After(AllElements[i])
      <4>1. /\ test.name \in TestName /\ test.pattern \in Data
            /\ test.name = "march" => test.pattern = Zeros
        BY DEF LoopInv, Running
      <4> QED BY <4>1, ElementsFit DEF AllElements
    <3>4. Stage \in 1 .. Len(AllElements) - 1
      BY <3>1, <3>2
    <3> QED BY <2>1, <3>1, <3>2, <3>3, <3>4
  <2>3. CASE k = t
    BY <2>2, <2>3
  <2>4. CASE k # t
    <3>1. Shows(k, v)
      BY <2>1, <2>2, <2>4 DEF Tidy
    <3> QED BY <2>4, <3>1
  <2> QED BY <2>3, <2>4
<1> QED BY <1>1, <1>2

\* A test that writes first is tidy when it starts: it has done and expects nothing.
LEMMA FreshLoopIsTidy ==
  ASSUME LoopInv', Running', Stage' = 1, at' = 0, result' = ZeroResult, test'.name # "verify"
  PROVE  result'.error_count = 0 /\ Tidy'
<1>1. ~Element'.check_read
  <2>1. /\ test'.name \in TestName /\ test'.pattern \in Data
        /\ test'.name = "march" => test'.pattern = Zeros
    BY DEF LoopInv, Running
  <2> DEFINE E == Elements(test'.name, test'.pattern)
  <2>2. E \in Seq(ElementType) /\ Len(E) \in 1 .. 6 /\ ~E[1].check_read
    BY <2>1, ElementsFit
  <2>3. todo' = SubSeq(E, 1, Len(E))
    BY DEF Running, AllElements
  <2> HIDE DEF E
  <2>4. Head(todo') = E[1]
    BY <2>2, <2>3, RestOfSequence
  <2> QED BY <2>2, <2>4 DEF Element
<1>2. \A k \in DOMAIN test'.walk : ~Done(k)'
  <2>1. test'.walk \in Seq(Location)
    BY DEF LoopInv
  <2>2. \A k \in DOMAIN test'.walk : k \in 1 .. Len(test'.walk) /\ Len(test'.walk) \in Nat
    BY <2>1
  <2> QED BY <2>2 DEF Done
<1> QED BY <1>1, <1>2 DEF Tidy, ZeroResult

\* While no fault shows a test keeps finding nothing.
LEMMA QuietInvStep == LoopInv /\ QuietInv /\ [TestNext]_<<vars, tvars>> => QuietInv'
<1> SUFFICES ASSUME LoopInv, QuietInv, [TestNext]_<<vars, tvars>>,
                    (todo # <<>> /\ Harmless /\ test.name # "verify" /\ ~Aliased)'
             PROVE  (result.error_count = 0)' /\ Tidy'
  BY DEF QuietInv
<1>0. ASSUME UNCHANGED <<data, parity, faults, odecc_enabled, test, at, todo>>
      PROVE  Tidy' = Tidy /\ Aliased' = Aliased
  <2>1. Element' = Element /\ Aliased' = Aliased
    BY <1>0 DEF Element, Aliased
  <2>2. \A k : Done(k)' = Done(k)
    BY <1>0, <2>1 DEF Done
  <2>3. \A k, v : Shows(k, v)' = Shows(k, v)
    BY <1>0, ShowsUnchanged
  <2> QED BY <1>0, <2>1, <2>2, <2>3 DEF Tidy
<1>1. CASE UNCHANGED <<vars, tvars>>
  <2>1. UNCHANGED <<data, parity, faults, odecc_enabled, test, at, todo, result>>
    BY <1>1 DEF vars, tvars, cells
  <2> QED BY <1>0, <2>1, HarmlessUnchanged DEF QuietInv
<1>2. CASE Prepare
  BY <1>2 DEF Prepare, tvars
<1>3. CASE Begin
  <2>1. LoopInv' /\ Running' /\ Stage' = 1 /\ at' = 0 /\ result' = ZeroResult
    BY <1>3, BeginStarts
  <2> QED BY <1>3, <2>1, FreshLoopIsTidy
<1>4. CASE ReadStep
  <2>1. /\ todo # <<>> /\ Element.check_read /\ ~has_read
        /\ UNCHANGED <<data, parity, faults, odecc_enabled, test>>
    BY <1>4, ReadResult
  <2>2. result.error_count = 0 /\ Tidy
    BY <2>1, HarmlessUnchanged DEF QuietInv, Aliased
  <2>3. PICK t, e : t = Turn /\ e = Element
    OBVIOUS
  <2>4. Shows(t, e.expected)
    <3>1. t \in DOMAIN test.walk /\ ~Done(t)
      <4>1. at \in 0 .. Len(test.walk) - 1 /\ Len(test.walk) \in Nat
        BY <2>1 DEF LoopInv, Running
      <4> QED BY <2>1, <2>3, <4>1, LoopFacts DEF Done
    <3> QED BY <2>1, <2>2, <2>3, <3>1 DEF Tidy
  <2>5. result'.error_count = 0
    <3>1. dram_read32_value(CodewordOf(Current), WordAt(Current)) = ValueAt(Turn, Element.expected)
      BY <2>3, <2>4 DEF Shows, Current
    <3> QED BY <1>4, <2>2, <3>1, ReadResult
  <2>6. CASE e.do_write
    <3>1. at' = at /\ todo' = todo
      BY <1>4, <2>3, <2>6 DEF ReadStep
    <3> QED BY <1>0, <2>1, <2>2, <2>5, <3>1
  <2>7. CASE ~e.do_write
    <3>1. NextWord
      BY <1>4, <2>3, <2>7 DEF ReadStep
    <3>2. \A k, v : Shows(k, v)' = Shows(k, v)
      BY <2>1, ShowsUnchanged
    <3>3. Shows(t, After(e))'
      BY <2>4, <2>7, <3>2 DEF After
    <3>4. Tidy'
      BY <2>1, <2>2, <2>3, <3>1, <3>2, <3>3, TidyTurn
    <3> QED BY <2>5, <3>4
  <2> QED BY <2>6, <2>7
<1>5. CASE WriteStep
  <2>1. todo # <<>> /\ NextWord /\ UNCHANGED <<test, faults, odecc_enabled, result>> /\ Element.do_write
    BY <1>5, WriteFacts DEF WriteStep
  <2>2. result.error_count = 0 /\ Tidy /\ Harmless /\ ~Aliased
    BY <2>1, HarmlessUnchanged DEF QuietInv, Aliased
  <2>3. PICK t, e, v : t = Turn /\ e = Element /\ v = e.write_value
    OBVIOUS
  <2>4. /\ Shows(t, v)'
        /\ \A k \in DOMAIN test.walk : \A u : k # t /\ Shows(k, u) => Shows(k, u)'
    BY <1>5, <2>2, <2>3, WriteShows
  <2>5. After(e) = v
    BY <2>1, <2>3 DEF After
  <2>6. Tidy'
    BY <2>1, <2>2, <2>3, <2>4, <2>5, TidyTurn
  <2> QED BY <2>1, <2>2, <2>6
<1> QED BY <1>1, <1>2, <1>3, <1>4, <1>5 DEF TestNext

\* A test that wrote first has found nothing while no fault shows.
LEMMA QuietInvariant == TestSpec => []QuietInv
<1>1. TestSpec => TestInit /\ [][TestNext]_<<vars, tvars>>
  BY PTL DEF TestSpec
<1>2. TestInit => QuietInv
  BY DEF TestInit, QuietInv
<1> QED BY <1>1, <1>2, LoopInvariant, QuietInvStep, PTL

\* Neither does its last read find anything.
LEMMA QuietEnd ==
  ASSUME LoopInv, QuietInv, TestNext, Finishes, test.name # "verify", Harmless, ~Aliased
  PROVE  result'.error_count = 0
<1>1. ReadStep /\ todo # <<>> /\ Stage = Len(AllElements) /\ at + 1 = Len(test.walk)
  BY LastStep
<1>2. result.error_count = 0 /\ Tidy
  BY <1>1 DEF QuietInv
<1>3. Element.check_read
  BY <1>1, ReadResult
<1>4. Turn \in DOMAIN test.walk /\ ~Done(Turn)
  <2>1. at \in 0 .. Len(test.walk) - 1 /\ Len(test.walk) \in Nat
    BY <1>1 DEF LoopInv, Running
  <2> QED BY <1>1, <2>1, LoopFacts DEF Done
<1>5. Shows(Turn, Element.expected)
  BY <1>2, <1>3, <1>4 DEF Tidy
<1>6. dram_read32_value(CodewordOf(Current), WordAt(Current)) = ValueAt(Turn, Element.expected)
  BY <1>5 DEF Shows, Current
<1> QED BY <1>1, <1>2, <1>6, ReadResult

(***************************************************************************)
(* The tests of memory_test.c that write before they read pass on a memory *)
(* without faults, from whatever earlier tests, flips and clears of the    *)
(* fault table left in its cells and its parity, for every range, pattern  *)
(* and layout of distinct words.                                           *)
(***************************************************************************)
THEOREM CleanMemoryPasses == TestSpec => NoFalseAlarm
<1>1. LoopInv /\ QuietInv /\ [TestNext]_<<vars, tvars>> =>
        [Finishes /\ test.name # "verify" /\ faults = <<>> /\ ~Aliased
           => result'.error_count = 0]_<<vars, tvars>>
  BY QuietEnd, CleanIsHarmless
<1>2. TestSpec => [][TestNext]_<<vars, tvars>>
  BY PTL DEF TestSpec
<1> QED BY <1>1, <1>2, LoopInvariant, QuietInvariant, PTL DEF NoFalseAlarm

-----------------------------------------------------------------------------
(* March C- and a memory with one fault.  With ODECC on the test may also   *)
(* end with corrections in the counter; as long as there are none, reads    *)
(* show the cells as they are loaded, and the argument is that of ODECC off. *)

\* The elements of March C- by their numbers.
LEMMA MarchElements ==
  ASSUME LoopInv, todo # <<>>, test.name = "march"
  PROVE  /\ Len(AllElements) = 6 /\ Stage \in 1 .. 6
         /\ Element.check_read <=> Stage # 1
         /\ Element.do_write <=> Stage # 6
         /\ Stage \in {1, 2, 3} => ~Element.descending
         /\ Stage \in {2, 4, 6} => Element.expected = Zeros
         /\ Stage \in {3, 5} => Element.expected = Ones
         /\ Stage \in {1, 3, 5} => Element.write_value = Zeros
         /\ Stage \in {2, 4} => Element.write_value = Ones
<1> DEFINE E == <<Fill(Zeros),
            CheckThenWrite(Up, Zeros, Ones), CheckThenWrite(Up, Ones, Zeros),
            CheckThenWrite(Down, Zeros, Ones), CheckThenWrite(Down, Ones, Zeros),
            Check(Zeros)>>
<1>1. AllElements = E
  BY DEF AllElements, Elements
<1>2. /\ Len(E) = 6
      /\ E[1] = Fill(Zeros) /\ E[2] = CheckThenWrite(Up, Zeros, Ones)
      /\ E[3] = CheckThenWrite(Up, Ones, Zeros) /\ E[4] = CheckThenWrite(Down, Zeros, Ones)
      /\ E[5] = CheckThenWrite(Down, Ones, Zeros) /\ E[6] = Check(Zeros)
  OBVIOUS
<1> HIDE DEF E
<1>3. Stage \in 1 .. 6
  BY <1>1, <1>2 DEF LoopInv, Running
<1>4. Element = E[Stage]
  BY <1>1, LoopFacts
<1>5. PICK s \in 1 .. 6 : s = Stage
  BY <1>3
<1>6. s = 1 \/ s = 2 \/ s = 3 \/ s = 4 \/ s = 5 \/ s = 6
  OBVIOUS
<1> QED BY <1>1, <1>2, <1>4, <1>5, <1>6 DEF Fill, Check, CheckThenWrite, Up, Down

\* Word k has not been compared in element s yet.
Due(s, k) ==
    \/ Stage < s
    \/ Stage = s /\ ~Done(k) /\ ~(has_read /\ Turn = k)

\* Only a read of the word in that element changes this.
LEMMA DueStep ==
  ASSUME LoopInv, todo # <<>>, todo' # <<>>, test.name = "march", test' = test,
         ReadStep \/ WriteStep,
         NEW s \in 2 .. 6, NEW k \in DOMAIN test.walk, Due(s, k)
  PROVE  Due(s, k)' \/ (ReadStep /\ Stage = s /\ Turn = k)
<1> SUFFICES ASSUME ~(ReadStep /\ Stage = s /\ Turn = k) PROVE Due(s, k)'
  OBVIOUS
<1>1. Stage \in 1 .. 6 /\ (Element.check_read <=> Stage # 1)
  BY MarchElements
<1>2. CASE ReadStep /\ Element.do_write
  <2>1. at' = at /\ todo' = todo
    BY <1>2 DEF ReadStep
  <2>2. Stage' = Stage /\ Element' = Element
    BY <2>1 DEF Stage, Element, AllElements
  <2>3. Turn' = Turn /\ Done(k)' = Done(k)
    BY <2>1, <2>2 DEF Turn, Done
  <2> QED BY <1>2, <2>2, <2>3 DEF Due
<1>3. CASE NextWord
  <2>1. ~has_read'
    BY <1>3, NextWordCases
  <2>2. WriteStep /\ Stage = s => Turn # k
    <3>1. WriteStep /\ Stage = s => has_read
      BY <1>1 DEF WriteStep
    <3> QED BY <1>1, <3>1 DEF Due
  <2>3. Stage = s => Turn # k
    BY <1>1, <2>2
  <2>4. CASE at' # 0
    <3>1. Stage' = Stage
      BY <1>3, <2>4, NextWordCases
    <3>2. Done(k)' <=> Done(k) \/ k = Turn
      BY <1>3, <2>4, DoneAdvances
    <3> QED BY <2>1, <2>3, <3>1, <3>2 DEF Due
  <2>5. CASE at' = 0
    <3>1. Stage' = Stage \/ Stage' = Stage + 1
      BY <1>3, NextWordCases
    <3>2. (Done(k) \/ k = Turn) /\ ~Done(k)'
      BY <1>3, <2>5, DoneAdvances
    <3>3. Stage < s
      BY <2>3, <3>2 DEF Due
    <3>4. Stage' < s \/ Stage' = s
      BY <1>1, <3>1, <3>3
    <3> QED BY <2>1, <3>2, <3>4 DEF Due
  <2> QED BY <2>4, <2>5
<1> QED BY <1>2, <1>3 DEF ReadStep, WriteStep

\* No read of the test was corrected.
Silent == odecc_enabled => ecc_corr_count = 0

\* What is read of codeword c is what is loaded of it.
Plain(c) == View(c) = load_codeword(c)

\* What is loaded and read of a codeword depends on its cells, the table and the switch.
LEMMA PlainUnchanged ==
  ASSUME NEW c, data'[c] = data[c], parity'[c] = parity[c],
         faults' = faults, odecc_enabled' = odecc_enabled
  PROVE  Plain(c)' = Plain(c)
<1>1. StuckBits(c)' = StuckBits(c) /\ ForcedTo1(c)' = ForcedTo1(c)
  BY StuckUnchanged
<1>2. load_codeword(c)' = load_codeword(c)
  BY <1>1 DEF load_codeword, apply_stuck_faults_codeword
<1>3. View(c)' = View(c)
  BY CodewordUnchanged
<1> QED BY <1>2, <1>3 DEF Plain

\* A read that was not corrected returned what it loaded.
LEMMA SilentRead ==
  ASSUME LoopInv, ReadStep, Silent', NEW c, c = CodewordOf(Current)
  PROVE  Silent /\ Plain(c)
<1>1. /\ c \in Codeword /\ TypeOK /\ odecc_enabled' = odecc_enabled
      /\ ecc_corr_count' = ecc_corr_count + Cardinality(Found({c}, "CORRECTED"))
  BY LoopFacts DEF ReadStep, dram_read32, CountEcc, LoopInv
<1>2. CASE ~odecc_enabled
  BY <1>2 DEF Silent, Plain, View
<1>3. CASE odecc_enabled
  <2>1. Found({c}, "CORRECTED") = IF Decoded(c).rc = "CORRECTED" THEN {c} ELSE {}
    BY <1>3 DEF Found
  <2>2. Cardinality({c}) = 1 /\ Cardinality({}) = 0
    BY FS_Singleton, FS_EmptySet
  <2>3. ecc_corr_count \in Nat /\ ecc_corr_count' = 0
    BY <1>1, <1>3 DEF TypeOK, Silent
  <2>4. ecc_corr_count = 0 /\ Decoded(c).rc # "CORRECTED"
    BY <1>1, <2>1, <2>2, <2>3
  <2>5. load_codeword(c) \in Data /\ parity[c] \in Parity
    BY <1>1, AccessTypes DEF TypeOK
  <2>6. Decoded(c).data = load_codeword(c)
    BY <2>4, <2>5, DecodeCases DEF Decoded
  <2> QED BY <2>4, <2>6 DEF Silent, Plain, View
<1> QED BY <1>2, <1>3

\* Between its read and its write, a word of a clean test shows what was expected.
SawInv ==
    todo # <<>> /\ has_read /\ result.error_count = 0 /\ Silent
        => \A k, v, c : k = Turn /\ v = Element.expected /\ c = CodewordOf(test.walk[k])
               => Shows(k, v) /\ Plain(c)

\* Between the read and the write of a turn its word does not change.
LEMMA SawInvStep == LoopInv /\ SawInv /\ [TestNext]_<<vars, tvars>> => SawInv'
<1> SUFFICES ASSUME LoopInv, SawInv, [TestNext]_<<vars, tvars>>,
                    (todo # <<>> /\ has_read /\ result.error_count = 0 /\ Silent)',
                    NEW k, NEW v, NEW c, k = Turn', v = Element'.expected,
                    c = CodewordOf(test'.walk[k])
             PROVE  Shows(k, v)' /\ Plain(c)'
  BY DEF SawInv
<1>1. CASE UNCHANGED <<vars, tvars>>
  <2>1. /\ UNCHANGED <<data, parity, faults, odecc_enabled, test>> /\ at' = at
        /\ todo' = todo /\ has_read' = has_read /\ result' = result
        /\ ecc_corr_count' = ecc_corr_count
    BY <1>1 DEF vars, tvars, cells, ecc_stats
  <2>2. Turn' = Turn /\ Element' = Element
    BY <2>1 DEF Turn, Element
  <2>3. Shows(k, v) /\ Plain(c)
    BY <2>1, <2>2 DEF SawInv, Silent
  <2> QED BY <2>1, <2>3, ShowsUnchanged, PlainUnchanged
<1>2. CASE Prepare
  BY <1>2 DEF Prepare, tvars
<1>3. CASE Begin
  BY <1>3, BeginStarts
<1>4. CASE ReadStep
  <2>1. todo # <<>> /\ UNCHANGED <<data, parity, faults, odecc_enabled, test>>
    BY <1>4, ReadResult
  <2>2. Element.do_write
    <3> SUFFICES ASSUME ~Element.do_write PROVE FALSE
      OBVIOUS
    <3>1. NextWord
      BY <1>4 DEF ReadStep
    <3> QED BY <2>1, <3>1, NextWordCases
  <2>3. at' = at /\ todo' = todo
    BY <1>4, <2>2 DEF ReadStep
  <2>4. Turn' = Turn /\ Element' = Element
    BY <2>1, <2>3 DEF Turn, Element
  <2>5. Shows(k, v)
    BY <1>4, <2>4, CleanRead
  <2>6. Plain(c)
    BY <1>4, <2>1, <2>4, SilentRead DEF Current
  <2> QED BY <2>1, <2>5, <2>6, ShowsUnchanged, PlainUnchanged
<1>5. CASE WriteStep
  BY <1>5, NextWordCases DEF WriteStep
<1> QED BY <1>1, <1>2, <1>3, <1>4, <1>5 DEF TestNext

-----------------------------------------------------------------------------
(* What the decoder hides of the words of a test.                           *)

\* In its last element, a test with no correction so far loaded what it read of
\* every word it has done.
PlainInv ==
    todo # <<>> /\ Stage = Len(AllElements) /\ Silent
        => \A k \in 1 .. at : \A c : c = CodewordOf(test.walk[k]) => Plain(c)

\* Nothing a checking element does makes the decoder correct what it has read.
LEMMA PlainInvStep == LoopInv /\ PlainInv /\ [TestNext]_<<vars, tvars>> => PlainInv'
<1> SUFFICES ASSUME LoopInv, PlainInv, [TestNext]_<<vars, tvars>>,
                    (todo # <<>> /\ Stage = Len(AllElements) /\ Silent)',
                    NEW k \in 1 .. at', NEW c, c = CodewordOf(test'.walk[k])
             PROVE  Plain(c)'
  BY DEF PlainInv
<1>1. CASE UNCHANGED <<vars, tvars>>
  <2>1. /\ UNCHANGED <<data, parity, faults, odecc_enabled, test>> /\ at' = at
        /\ todo' = todo /\ ecc_corr_count' = ecc_corr_count
        /\ Stage' = Stage /\ AllElements' = AllElements
    BY <1>1 DEF vars, tvars, cells, ecc_stats, Stage, AllElements
  <2>2. Plain(c)
    BY <2>1 DEF PlainInv, Silent
  <2> QED BY <2>1, <2>2, PlainUnchanged
<1>2. CASE Prepare
  BY <1>2 DEF Prepare, tvars
<1>3. CASE Begin
  <2>1. at' = 0
    BY <1>3, BeginStarts
  <2> QED BY <2>1
<1>4. at' # 0
  OBVIOUS
<1>5. ASSUME todo # <<>>, NextWord, test' = test
      PROVE  at' = at + 1 /\ Stage = Len(AllElements)
  <2>1. at' = at + 1 /\ Stage' = Stage
    BY <1>4, <1>5, NextWordCases
  <2>2. AllElements' = AllElements
    BY <1>5 DEF AllElements
  <2> QED BY <2>1, <2>2
<1>6. CASE ReadStep
  <2>1. todo # <<>> /\ UNCHANGED <<data, parity, faults, odecc_enabled, test>>
    BY <1>6, ReadResult
  <2>2. CASE ~Element.do_write
    <3>1. at' = at + 1 /\ Stage = Len(AllElements)
      BY <1>5, <1>6, <2>1, <2>2 DEF ReadStep
    <3>2. Turn = at + 1 /\ at \in Nat
      BY <2>1, <3>1, LastElement DEF LoopInv, Running
    <3>3. CASE k = at + 1
      BY <1>6, <2>1, <3>2, <3>3, SilentRead, PlainUnchanged DEF Current
    <3>4. CASE k # at + 1
      <4>1. k \in 1 .. at /\ Silent
        <5>1. k \in 1 .. at
          BY <3>1, <3>2, <3>4
        <5>2. Silent
          BY <1>6, SilentRead
        <5> QED BY <5>1, <5>2
      <4>2. Plain(c)
        BY <2>1, <3>1, <4>1 DEF PlainInv
      <4> QED BY <2>1, <4>2, PlainUnchanged
    <3> QED BY <3>3, <3>4
  <2>3. CASE Element.do_write
    <3>1. at' = at /\ todo' = todo
      BY <1>6, <2>3 DEF ReadStep
    <3>2. Stage = Len(AllElements)
      BY <2>1, <3>1 DEF Stage, AllElements
    <3> QED BY <2>1, <2>3, <3>2, LastElement
  <2> QED BY <2>2, <2>3
<1>7. CASE WriteStep
  <2>1. todo # <<>> /\ NextWord /\ test' = test /\ Element.do_write
    BY <1>7 DEF WriteStep
  <2> QED BY <1>5, <2>1, LastElement
<1> QED BY <1>1, <1>2, <1>3, <1>6, <1>7 DEF TestNext

\* The decoder hides an error of the words of the test (Hiding of Scenarios).
HidesError ==
    /\ odecc_enabled
    /\ \E k \in DOMAIN test.walk : ~Plain(CodewordOf(test.walk[k]))

\* A test that ends over a hidden error, passed or failed, has counted a correction.
HiddenErrorsAreCounted ==
    [][Finishes /\ HidesError => ecc_corr_count' > 0]_<<vars, tvars>>

(***************************************************************************)
(* What the rows of the result log owe the viewer (docs/test_plan.md: PASS *)
(* with corrections is an escape): when a test ends and the decoder hides  *)
(* an error of any word it walked, the counter that goes into its row is   *)
(* above zero, whatever the test, the faults and the code.                 *)
(***************************************************************************)
THEOREM HiddenIsCounted == TestSpec => HiddenErrorsAreCounted
<1>1. TestSpec => TestInit /\ [][TestNext]_<<vars, tvars>>
  BY PTL DEF TestSpec
<1>2. TestInit => PlainInv
  BY DEF TestInit, PlainInv
<1>3. ASSUME LoopInv, PlainInv, TestNext, Finishes, HidesError
      PROVE  ecc_corr_count' > 0
  <2>1. /\ ReadStep /\ todo # <<>> /\ Stage = Len(AllElements)
        /\ at + 1 = Len(test.walk)
    BY <1>3, LastStep
  <2>2. ecc_corr_count' \in Nat /\ odecc_enabled' = odecc_enabled
    <3>1. TypeOK'
      BY <1>3, LoopInvStep DEF LoopInv
    <3> QED BY <1>3, <2>1, <3>1, ReadResult DEF TypeOK
  <2>3. SUFFICES ASSUME Silent' PROVE FALSE
    BY <1>3, <2>2 DEF Silent, HidesError
  <2>4. PICK k \in DOMAIN test.walk : ~Plain(CodewordOf(test.walk[k]))
    BY <1>3 DEF HidesError
  <2>5. Turn = at + 1 /\ at \in Nat /\ DOMAIN test.walk = 1 .. at + 1
    BY <1>3, <2>1, LastElement DEF LoopInv, Running
  <2>6. Silent /\ Plain(CodewordOf(test.walk[at + 1]))
    BY <1>3, <2>1, <2>3, <2>5, SilentRead DEF Current
  <2>7. \A j \in 1 .. at : Plain(CodewordOf(test.walk[j]))
    BY <1>3, <2>1, <2>6 DEF PlainInv
  <2> QED BY <2>4, <2>5, <2>6, <2>7
<1>4. LoopInv /\ PlainInv /\ [TestNext]_<<vars, tvars>> =>
        [Finishes /\ HidesError => ecc_corr_count' > 0]_<<vars, tvars>>
  BY <1>3
<1> QED BY <1>1, <1>2, <1>4, LoopInvariant, PlainInvStep, PTL DEF HiddenErrorsAreCounted

\* dram_add_coupling_fault takes no fault without a victim.
VictimsNamed ==
    \A i \in DOMAIN faults : faults[i].type = "COUPLING_INV" => faults[i].victim_mask # {}

\* dram_add_coupling_fault rejects a fault without a victim.
LEMMA VictimsNamedStep == TypeOK /\ VictimsNamed /\ [Next]_vars => VictimsNamed'
<1> SUFFICES ASSUME TypeOK, VictimsNamed, [Next]_vars PROVE VictimsNamed'
  OBVIOUS
<1>1. CASE faults' = faults \/ faults' = <<>>
  BY <1>1 DEF VictimsNamed
<1>2. CASE AddAnyFault
  <2>1. PICK f \in FaultMenu : faults' = Append(faults, f)
                             /\ (f.type = "COUPLING_INV" => f.victim_mask # {})
    BY <1>2 DEF AddAnyFault, AddFault, dram_add_stuck_fault, dram_add_transition_fault,
                dram_add_coupling_fault, dram_add_retention_fault, StuckType
  <2>2. faults \in Seq(FaultMenu)
    BY DEF TypeOK
  <2> QED BY <2>1, <2>2 DEF VictimsNamed
<1>3. Next /\ ~AddAnyFault => faults' = faults \/ faults' = <<>>
  BY DEF Next, dram_init, dram_free, ClearTables, Write, dram_write32, Read, dram_read32,
         Flip, dram_inject_bit_flip, Scrub, dram_scrub_range, dram_clear_faults, Heat,
         dram_set_temperature, Age, dram_advance_time, dram_refresh, SwitchEcc,
         dram_set_odecc_enabled, dram_reset_ecc_stats
<1> QED BY <1>1, <1>2, <1>3 DEF vars

-----------------------------------------------------------------------------
(* One access with one fault in the table.                                  *)

\* Bit b of codeword c is in word k of the walk.
Spot(k, c, b) ==
    /\ k \in DOMAIN test.walk /\ c = CodewordOf(test.walk[k])
    /\ b \in Bits(WordAt(test.walk[k]))

\* March C- runs on a memory whose fault is f, and has left no trace of it yet.
Marching(f) ==
    /\ todo # <<>> /\ test.name = "march" /\ result.error_count = 0
    /\ Silent /\ faults = <<f>>

\* A clean read saw each bit of its word as expected.
LEMMA CleanMarchRead ==
  ASSUME LoopInv, NEW f, Marching(f), NEW k, NEW v, Shows(k, v), NEW c, Plain(c),
         NEW b, Spot(k, c, b)
  PROVE  b \in load_codeword(c) <=> b \in v
<1>1. View(c) = load_codeword(c)
  BY DEF Plain
<1>2. View(c) \cap Bits(WordAt(test.walk[k])) = Bits(WordAt(test.walk[k])) \cap v
  BY DEF Shows, dram_read32_value, ValueAt, Spot, Marching
<1> QED BY <1>1, <1>2 DEF Spot

\* What a stuck-at fault does to the bits it covers, and the other faults leave alone.
LEMMA OneFaultLoad ==
  ASSUME LoopInv, NEW f, faults = <<f>>
  PROVE  /\ f \in Fault /\ f.mask \subseteq DataBit
         /\ f.type = "STUCK_AT_0" => \A b \in f.mask : b \notin load_codeword(f.cw)
         /\ f.type = "STUCK_AT_1" => \A b \in f.mask : b \in load_codeword(f.cw)
         /\ f.type \notin StuckType => \A c : load_codeword(c) = data[c]
<1>1. DOMAIN faults = {1} /\ faults[1] = f
  OBVIOUS
<1>2. f \in Fault
  BY <1>1, DramAssumption DEF LoopInv, TypeOK
<1>3. f.mask \subseteq DataBit
  BY <1>2 DEF Fault, Mask
<1>4. \A c : /\ f.type \in StuckType /\ f.cw = c => StuckFaults(c) = {1}
             /\ f.type \notin StuckType => StuckFaults(c) = {}
  BY <1>1 DEF StuckFaults
<1>5. ASSUME f.type \in StuckType
      PROVE  /\ StuckBits(f.cw) = f.mask
             /\ ForcedTo1(f.cw) = IF f.type = "STUCK_AT_1" THEN f.mask ELSE {}
  <2>1. StuckFaults(f.cw) = {1}
    BY <1>4, <1>5
  <2> QED BY <1>1, <1>3, <2>1 DEF StuckBits, ForcedTo1
<1>6. ASSUME f.type \notin StuckType, NEW c PROVE load_codeword(c) = data[c]
  <2>1. StuckFaults(c) = {}
    BY <1>4, <1>6
  <2> QED BY <2>1 DEF StuckBits, ForcedTo1, load_codeword, apply_stuck_faults_codeword
<1> QED BY <1>2, <1>3, <1>5, <1>6 DEF load_codeword, apply_stuck_faults_codeword, StuckType

\* The write of one word with fault f: the merged copy, the fault, the store.
Stores(f, c, w, value) ==
    \E merged \in Data, done \in Work :
        /\ merged = (View(c) \ Bits(w)) \cup value
        /\ done = WriteFault(f, c, data[c], [copy |-> merged, raw |-> data])
        /\ data' = [done.raw EXCEPT ![c] = done.copy]

\* What dram_write32 stores when the table holds one fault.
LEMMA OneFaultWrite ==
  ASSUME LoopInv, NEW f, faults = <<f>>,
         NEW c \in Codeword, NEW w \in Word, NEW value \in SUBSET Bits(w),
         dram_write32(c, w, value)
  PROVE  Stores(f, c, w, value)
<1>1. TypeOK /\ faults[1] = f /\ Len(faults) = 1
  BY DEF LoopInv
<1>2. PICK merged : merged = (View(c) \ Bits(w)) \cup value
  OBVIOUS
<1>3. merged \in Data /\ data[c] \in Data
  BY <1>1, <1>2, AccessTypes DEF TypeOK, Bits, Data
<1>4. PICK s \in [0 .. 1 -> Work] :
         /\ s[0] = [copy |-> merged, raw |-> data]
         /\ \A i \in 1 .. 1 : s[i] = WriteFault(faults[i], c, data[c], s[i - 1])
         /\ apply_write_faults_codeword(c, data[c], merged) = s[1]
  BY <1>1, <1>3, WriteFaultsUnfold
<1>5. s[1] \in Work /\ s[1] = WriteFault(f, c, data[c], [copy |-> merged, raw |-> data])
  <2>1. 1 \in 1 .. 1 /\ 1 - 1 = 0
    OBVIOUS
  <2> QED BY <1>1, <1>4, <2>1
<1>6. data' = [s[1].raw EXCEPT ![c] = s[1].copy]
  BY <1>2, <1>4 DEF dram_write32
<1> QED BY <1>2, <1>3, <1>5, <1>6 DEF Stores

\* A bit that does not rise stays 0 once it is 0, and one that does not fall stays 1.
LEMMA TransitionWrite ==
  ASSUME LoopInv, NEW f, faults = <<f>>, f.type \in {"TRANSITION_UP", "TRANSITION_DOWN"},
         NEW c \in Codeword, NEW w \in Word, NEW value \in SUBSET Bits(w),
         dram_write32(c, w, value), NEW b \in f.mask
  PROVE  LET written == c = f.cw /\ b \in Bits(w)
         IN  /\ f.type = "TRANSITION_UP" /\ (b \notin data[f.cw] \/ (written /\ b \notin value))
                   => b \notin data'[f.cw]
             /\ f.type = "TRANSITION_DOWN" /\ (b \in data[f.cw] \/ (written /\ b \in value))
                   => b \in data'[f.cw]
<1>1. PICK merged \in Data, done \in Work :
         /\ merged = (View(c) \ Bits(w)) \cup value
         /\ done = WriteFault(f, c, data[c], [copy |-> merged, raw |-> data])
         /\ data' = [done.raw EXCEPT ![c] = done.copy]
  BY OneFaultWrite DEF Stores
<1>2. f \in Fault /\ f.cw \in Codeword
  BY OneFaultLoad DEF Fault
<1>3. data \in [Codeword -> Data]
  BY DEF LoopInv, TypeOK
<1>4. CASE c # f.cw
  <2>1. done = [copy |-> merged, raw |-> data]
    BY <1>1, <1>4 DEF WriteFault
  <2> QED BY <1>1, <1>2, <1>3, <1>4, <2>1
<1>5. CASE c = f.cw /\ f.type = "TRANSITION_UP"
  <2>1. done = [[copy |-> merged, raw |-> data] EXCEPT
                   !.copy = merged \ ((merged \ data[c]) \cap f.mask)]
    BY <1>1, <1>5 DEF WriteFault
  <2>2. data'[c] = merged \ ((merged \ data[c]) \cap f.mask)
    BY <1>1, <1>3, <2>1
  <2>3. b \in Bits(w) /\ b \notin value => b \notin merged
    BY <1>1
  <2> QED BY <1>5, <2>2, <2>3
<1>6. CASE c = f.cw /\ f.type = "TRANSITION_DOWN"
  <2>1. done = [[copy |-> merged, raw |-> data] EXCEPT
                   !.copy = merged \cup ((data[c] \ merged) \cap f.mask)]
    BY <1>1, <1>6 DEF WriteFault
  <2>2. data'[c] = merged \cup ((data[c] \ merged) \cap f.mask)
    BY <1>1, <1>3, <2>1
  <2>3. b \in value => b \in merged
    BY <1>1
  <2> QED BY <1>6, <2>2, <2>3
<1> QED BY <1>4, <1>5, <1>6

\* The write changes a bit of the mask of coupling fault f.
Fires(f, c, w, value) ==
    c = f.cw /\ SymDiff(data[c], (View(c) \ Bits(w)) \cup value) \cap f.mask # {}

\* Bit b of the victim's codeword is inverted by a write that fires coupling fault f.
Coupled(f, c, w, value, b) ==
    LET before == b \in (IF c = f.victim_cw THEN (View(c) \ Bits(w)) \cup value
                                            ELSE data[f.victim_cw])
    IN  b \in data'[f.victim_cw] <=> (IF Fires(f, c, w, value) THEN ~before ELSE before)

\* A coupling fault fires when a bit of its mask changes, and then inverts its victims.
LEMMA CouplingWrite ==
  ASSUME LoopInv, NEW f, faults = <<f>>, f.type = "COUPLING_INV",
         NEW c \in Codeword, NEW w \in Word, NEW value \in SUBSET Bits(w),
         dram_write32(c, w, value)
  PROVE  /\ \A b \in f.victim_mask : Coupled(f, c, w, value, b)
         /\ \A d \in Codeword \ {c} :
               ~(Fires(f, c, w, value) /\ d = f.victim_cw) => data'[d] = data[d]
<1>1. PICK merged \in Data, done \in Work :
         /\ merged = (View(c) \ Bits(w)) \cup value
         /\ done = WriteFault(f, c, data[c], [copy |-> merged, raw |-> data])
         /\ data' = [done.raw EXCEPT ![c] = done.copy]
  <2>1. Stores(f, c, w, value)
    BY OneFaultWrite
  <2> QED BY <2>1 DEF Stores
<1>2. f \in Fault /\ f.cw \in Codeword /\ f.victim_cw \in Codeword
  BY OneFaultLoad DEF Fault
<1>3. data \in [Codeword -> Data]
  BY DEF LoopInv, TypeOK
<1>4. Fires(f, c, w, value) <=> c = f.cw /\ SymDiff(data[c], merged) \cap f.mask # {}
  BY <1>1 DEF Fires
<1>5. CASE ~Fires(f, c, w, value)
  <2>1. done = [copy |-> merged, raw |-> data]
    BY <1>1, <1>4, <1>5 DEF WriteFault
  <2>2. \A d \in Codeword : data'[d] = IF d = c THEN merged ELSE data[d]
    BY <1>1, <1>3, <2>1
  <2> QED BY <1>1, <1>2, <1>5, <2>2 DEF Coupled
<1>6. CASE Fires(f, c, w, value) /\ c = f.victim_cw
  <2>1. done = [[copy |-> merged, raw |-> data] EXCEPT !.copy = SymDiff(merged, f.victim_mask)]
    BY <1>1, <1>4, <1>6 DEF WriteFault
  <2>2. \A d \in Codeword : data'[d] = IF d = c THEN SymDiff(merged, f.victim_mask) ELSE data[d]
    BY <1>1, <1>3, <2>1
  <2>3. \A b \in f.victim_mask : b \in SymDiff(merged, f.victim_mask) <=> b \notin merged
    BY DEF SymDiff
  <2> QED BY <1>1, <1>6, <2>2, <2>3 DEF Coupled
<1>7. CASE Fires(f, c, w, value) /\ c # f.victim_cw
  <2> DEFINE v == f.victim_cw
  <2>1. done = [[copy |-> merged, raw |-> data] EXCEPT
                   !.raw[v] = SymDiff(data[v], f.victim_mask)]
    BY <1>1, <1>4, <1>7 DEF WriteFault
  <2>2. \A d \in Codeword \ {c} :
           data'[d] = IF d = v THEN SymDiff(data[v], f.victim_mask) ELSE data[d]
    BY <1>1, <1>2, <1>3, <1>7, <2>1
  <2>3. \A b \in f.victim_mask : b \in SymDiff(data[v], f.victim_mask) <=> b \notin data[v]
    BY DEF SymDiff
  <2> QED BY <1>2, <1>7, <2>2, <2>3 DEF Coupled
<1> QED BY <1>5, <1>6, <1>7

\* Codeword c has the parity of its cells, and none of them is stuck.
Sound(f, c) ==
    /\ LoopInv /\ faults = <<f>> /\ f.type \notin StuckType /\ c \in Codeword
    /\ parity[c] = calc_parity(data[c])

SoundArePlain == \A f, c : Sound(f, c) => Plain(c)

\* Such a codeword reads as it is stored.
LEMMA SoundIsPlain == SoundArePlain
<1> SUFFICES ASSUME NEW f, NEW c, Sound(f, c) PROVE Plain(c)
  BY DEF SoundArePlain
<1>1. load_codeword(c) = data[c] /\ data[c] \in Data
  BY OneFaultLoad DEF Sound, LoopInv, TypeOK
<1>2. odecc_decode(data[c], parity[c]).data = data[c]
  BY <1>1, CleanDecode DEF Sound
<1> QED BY <1>1, <1>2 DEF Plain, View, Decoded

\* A write makes its codeword plain, and leaves the others as plain as they were,
\* but for the victim's when it fires the fault.
LEMMA WritePlain ==
  ASSUME LoopInv, LoopInv', NEW f, faults = <<f>>, faults' = faults, f.type = "COUPLING_INV",
         NEW c \in Codeword, NEW w \in Word, NEW value \in SUBSET Bits(w),
         dram_write32(c, w, value)
  PROVE  /\ Plain(c)'
         /\ \A d \in Codeword \ {c} :
               Plain(d) /\ ~(Fires(f, c, w, value) /\ d = f.victim_cw) => Plain(d)'
<1>1. odecc_enabled' = odecc_enabled /\ \A d \in Codeword \ {c} : parity'[d] = parity[d]
  BY DEF dram_write32, LoopInv, TypeOK
<1>2. Plain(c)'
  <2>1. parity'[c] = calc_parity(data'[c])
    <3> DEFINE done == apply_write_faults_codeword(c, data[c], (View(c) \ Bits(w)) \cup value)
    <3>1. /\ data' = [done.raw EXCEPT ![c] = done.copy]
          /\ parity' = [parity EXCEPT ![c] = calc_parity(done.copy)]
      BY DEF dram_write32
    <3>2. done.raw \in [Codeword -> Data]
      <4>1. (View(c) \ Bits(w)) \cup value \in Data
        BY AccessTypes DEF LoopInv, Bits, Data
      <4> QED BY <4>1, WriteFaultsType DEF LoopInv, TypeOK, Work
    <3> HIDE DEF done
    <3> QED BY <3>1, <3>2 DEF LoopInv, TypeOK
  <2>2. Sound(f, c)'
    BY <2>1 DEF Sound, StuckType
  <2>3. SoundArePlain'
    BY SoundIsPlain, PTL
  <2> QED BY <2>2, <2>3 DEF SoundArePlain
<1>3. ASSUME NEW d \in Codeword \ {c}, Plain(d), ~(Fires(f, c, w, value) /\ d = f.victim_cw)
      PROVE  Plain(d)'
  <2>1. data'[d] = data[d]
    BY <1>3, CouplingWrite
  <2> QED BY <1>1, <1>3, <2>1, PlainUnchanged
<1> QED BY <1>2, <1>3

-----------------------------------------------------------------------------
(* What March C- still has to do while it has found nothing.                *)

\* A march step comes after its start or after a march step that found nothing.
LEMMA MarchCases ==
  ASSUME LoopInv, NEW f, [TestNext]_<<vars, tvars>>, Marching(f)'
  PROVE  \/ Stage' = 1 /\ at' = 0 /\ ~has_read'
         \/ Marching(f) /\ UNCHANGED <<vars, tvars>>
         \/ Marching(f) /\ test' = test /\ (ReadStep \/ WriteStep)
<1>1. CASE UNCHANGED <<vars, tvars>>
  BY <1>1 DEF Marching, Silent, vars, tvars, ecc_stats
<1>2. CASE Prepare
  BY <1>2 DEF Prepare, tvars, Marching
<1>3. CASE Begin
  BY <1>3, BeginStarts
<1>4. CASE ReadStep
  <2>1. todo # <<>> /\ UNCHANGED <<faults, odecc_enabled, test>>
    BY <1>4, ReadResult
  <2>2. result.error_count = 0 /\ Silent
    BY <1>4, CleanRead, SilentRead DEF Marching
  <2> QED BY <1>4, <2>1, <2>2 DEF Marching
<1>5. CASE WriteStep
  <2>1. /\ UNCHANGED <<faults, odecc_enabled, ecc_corr_count, test, result>>
        /\ todo # <<>>
    BY <1>5 DEF WriteStep, dram_write32, ecc_stats
  <2> QED BY <1>5, <2>1 DEF Marching, Silent
<1> QED BY <1>1, <1>2, <1>3, <1>4, <1>5 DEF TestNext

\* Nothing of the march changes in a stuttering step.
LEMMA MarchStutter ==
  ASSUME UNCHANGED <<vars, tvars>>
  PROVE  /\ data' = data /\ at' = at /\ Stage' = Stage
         /\ \A s, k : Due(s, k)' = Due(s, k)
         /\ \A k : Done(k)' = Done(k)
<1>1. /\ data' = data /\ at' = at /\ todo' = todo /\ test' = test /\ has_read' = has_read
  BY DEF vars, tvars, cells
<1>2. Stage' = Stage /\ Element' = Element /\ Turn' = Turn
  BY <1>1 DEF Stage, AllElements, Element, Turn
<1>3. \A k : Done(k)' = Done(k)
  BY <1>1, <1>2 DEF Done
<1> QED BY <1>1, <1>2, <1>3 DEF Due

\* A word that element s would find wrong is due as long as nothing is found.
LEMMA StaysDue ==
  ASSUME LoopInv, NEW f, Marching(f), Marching(f)', test' = test, ReadStep \/ WriteStep,
         NEW s \in 2 .. 4, NEW k, NEW c, NEW b, Spot(k, c, b), Due(s, k),
         Stage = s /\ Turn = k => (b \in load_codeword(c) <=> s # 3)
  PROVE  Due(s, k)'
<1>1. /\ todo # <<>> /\ todo' # <<>> /\ test.name = "march" /\ k \in DOMAIN test.walk
  BY DEF Marching, Spot
<1> SUFFICES ASSUME ReadStep, Stage = s, Turn = k PROVE FALSE
  BY <1>1, DueStep
<1>2. Shows(k, Element.expected) /\ Plain(c)
  BY CleanRead, SilentRead DEF Marching, Spot, Current
<1>3. b \in load_codeword(c) <=> b \in Element.expected
  BY <1>2, CleanMarchRead
<1>4. b \in Element.expected <=> s = 3
  <2>1. b \in DataBit
    BY DEF Spot, Bits
  <2> QED BY <1>1, <2>1, MarchElements DEF Zeros, Ones
<1> QED BY <1>3, <1>4

\* Element s has not done word k yet.
Ahead(s, k) == Stage < s \/ (Stage = s /\ ~Done(k))

\* Only the turn of a word in an element takes the word from what is ahead.
LEMMA AheadStep ==
  ASSUME LoopInv, NEW f, Marching(f), Marching(f)', test' = test, ReadStep \/ WriteStep,
         NEW s \in 1 .. 2, NEW k \in DOMAIN test.walk, Ahead(s, k)
  PROVE  Ahead(s, k)' \/ (WriteStep /\ Stage = s /\ Turn = k)
<1>1. /\ todo # <<>> /\ todo' # <<>> /\ Stage \in 1 .. 6
      /\ Element.do_write <=> Stage # 6
  BY MarchElements DEF Marching
<1>2. Stage \in 1 .. 2
  BY <1>1 DEF Ahead
<1>3. CASE ReadStep
  <2>1. at' = at /\ todo' = todo
    BY <1>1, <1>2, <1>3 DEF ReadStep
  <2>2. Stage' = Stage /\ Element' = Element
    BY <2>1 DEF Stage, Element, AllElements
  <2> QED BY <2>1, <2>2 DEF Ahead, Done
<1>4. CASE WriteStep
  <2>1. NextWord
    BY <1>4 DEF WriteStep
  <2>2. CASE at' # 0
    <3>1. Stage' = Stage
      BY <1>1, <2>1, <2>2, NextWordCases
    <3>2. Done(k)' <=> Done(k) \/ k = Turn
      BY <1>1, <2>1, <2>2, DoneAdvances
    <3> QED BY <1>4, <3>1, <3>2 DEF Ahead
  <2>3. CASE at' = 0
    <3>1. Stage' = Stage \/ Stage' = Stage + 1
      BY <1>1, <2>1, NextWordCases
    <3>2. (Done(k) \/ k = Turn) /\ ~Done(k)'
      BY <1>1, <2>1, <2>3, DoneAdvances
    <3> QED BY <1>2, <1>4, <3>1, <3>2 DEF Ahead
  <2> QED BY <2>2, <2>3
<1> QED BY <1>3, <1>4

\* Where a bit is read and written depends on the test alone.
LEMMA SpotUnchanged ==
  ASSUME test' = test, NEW k, NEW c, NEW b
  PROVE  Spot(k, c, b)' = Spot(k, c, b)
BY DEF Spot

-----------------------------------------------------------------------------
(* Stuck-at faults: the second element finds a 1, the third one a 0.        *)

StuckInv ==
    \A f, k, b : Marching(f) /\ f.type \in StuckType /\ b \in f.mask /\ Spot(k, f.cw, b)
        => Due(IF f.type = "STUCK_AT_0" THEN 3 ELSE 2, k)

\* The read that was due finds the stuck bit, and no other step takes it away.
LEMMA StuckInvStep == LoopInv /\ StuckInv /\ [TestNext]_<<vars, tvars>> => StuckInv'
<1> SUFFICES ASSUME LoopInv, StuckInv, [TestNext]_<<vars, tvars>>, NEW f, NEW k, NEW b,
                    Marching(f)', f.type \in StuckType, b \in f.mask, Spot(k, f.cw, b)',
                    NEW s \in 2 .. 4, s = IF f.type = "STUCK_AT_0" THEN 3 ELSE 2
             PROVE  Due(s, k)'
  BY DEF StuckInv
<1>1. CASE Stage' = 1
  BY <1>1 DEF Due
<1>2. CASE Marching(f) /\ UNCHANGED <<vars, tvars>>
  <2>1. Spot(k, f.cw, b)
    BY <1>2, SpotUnchanged DEF tvars
  <2> QED BY <1>2, <2>1, MarchStutter DEF StuckInv
<1>3. CASE Marching(f) /\ test' = test /\ (ReadStep \/ WriteStep)
  <2>1. Spot(k, f.cw, b)
    BY <1>3, SpotUnchanged
  <2>2. Due(s, k)
    BY <1>3, <2>1 DEF StuckInv
  <2>3. b \in load_codeword(f.cw) <=> s # 3
    BY <1>3, OneFaultLoad DEF Marching, StuckType
  <2> QED BY <1>3, <2>1, <2>2, <2>3, StaysDue
<1> QED BY <1>1, <1>2, <1>3, MarchCases

-----------------------------------------------------------------------------
(* Transition faults: the fill leaves a bit that does not rise at 0, the    *)
(* second element one that does not fall at 1, and both stay there.         *)

TransitionInv ==
    \A f, k, b : Marching(f) /\ b \in f.mask /\ Spot(k, f.cw, b) =>
        /\ f.type = "TRANSITION_UP" => Due(3, k) /\ (Ahead(1, k) \/ b \notin data[f.cw])
        /\ f.type = "TRANSITION_DOWN" => Due(4, k) /\ (Ahead(2, k) \/ b \in data[f.cw])

\* What the write of a turn does to a bit of a transition fault.
LEMMA TransitionTurn ==
  ASSUME LoopInv, NEW f, Marching(f), WriteStep, NEW k, NEW b \in f.mask, Spot(k, f.cw, b),
         f.type \in {"TRANSITION_UP", "TRANSITION_DOWN"}
  PROVE  /\ f.type = "TRANSITION_UP" /\ (b \notin data[f.cw] \/ (Turn = k /\ Stage = 1))
               => b \notin data'[f.cw]
         /\ f.type = "TRANSITION_DOWN" /\ (b \in data[f.cw] \/ (Turn = k /\ Stage = 2))
               => b \in data'[f.cw]
<1>1. PICK c \in Codeword, w \in Word, value \in SUBSET DataBit :
          /\ c = CodewordOf(Current) /\ w = WordAt(Current) /\ value \in SUBSET Bits(w)
          /\ value = ValueAt(Turn, Element.write_value)
          /\ dram_write32(c, w, value)
  BY WriteFacts
<1>2. LET written == c = f.cw /\ b \in Bits(w)
      IN  /\ f.type = "TRANSITION_UP" /\ (b \notin data[f.cw] \/ (written /\ b \notin value))
                => b \notin data'[f.cw]
          /\ f.type = "TRANSITION_DOWN" /\ (b \in data[f.cw] \/ (written /\ b \in value))
                => b \in data'[f.cw]
  <2>1. faults = <<f>>
    BY DEF Marching
  <2> QED BY <1>1, <2>1, TransitionWrite
<1>3. ASSUME Turn = k PROVE c = f.cw /\ b \in Bits(w)
  BY <1>1, <1>3 DEF Spot, Current
<1>4. ASSUME Turn = k, Stage \in 1 .. 2 PROVE b \in value <=> Stage = 2
  <2>1. b \in DataBit /\ b \in Bits(WordAt(test.walk[k]))
    BY DEF Spot, Bits
  <2>2. Element.write_value = IF Stage = 2 THEN Ones ELSE Zeros
    BY <1>4, MarchElements DEF Marching
  <2> QED BY <1>1, <1>4, <2>1, <2>2 DEF ValueAt, Marching, Zeros, Ones
<1> QED BY <1>2, <1>3, <1>4

\* A step keeps what is due for a transition fault, and its bit where it stays.
LEMMA TransitionInvStep == LoopInv /\ TransitionInv /\ [TestNext]_<<vars, tvars>> => TransitionInv'
<1> SUFFICES ASSUME LoopInv, TransitionInv, [TestNext]_<<vars, tvars>>, NEW f, NEW k, NEW b,
                    Marching(f)', b \in f.mask, Spot(k, f.cw, b)',
                    f.type \in {"TRANSITION_UP", "TRANSITION_DOWN"},
                    NEW s \in 2 .. 4, s = IF f.type = "TRANSITION_UP" THEN 3 ELSE 4
             PROVE  /\ Due(s, k)'
                    /\ f.type = "TRANSITION_UP" => Ahead(1, k)' \/ b \notin data'[f.cw]
                    /\ f.type = "TRANSITION_DOWN" => Ahead(2, k)' \/ b \in data'[f.cw]
  BY DEF TransitionInv
<1>1. CASE Stage' = 1 /\ at' = 0
  <2>1. ~Done(k)'
    <3>1. (LoopInv /\ todo # <<>>)'
      <4>1. LoopInv'
        BY LoopInvStep
      <4> QED BY <4>1 DEF Marching
    <3>2. test'.walk \in Seq(Location) /\ k \in DOMAIN test'.walk
      BY <3>1 DEF LoopInv, Spot
    <3>3. k \in 1 .. Len(test'.walk) /\ Len(test'.walk) \in Nat
      BY <3>2
    <3> QED BY <1>1, <3>3 DEF Done
  <2> QED BY <1>1, <2>1 DEF Due, Ahead
<1>2. CASE Marching(f) /\ UNCHANGED <<vars, tvars>>
  <2>1. Spot(k, f.cw, b)
    BY <1>2, SpotUnchanged DEF tvars
  <2>2. \A r : Ahead(r, k)' = Ahead(r, k)
    BY <1>2, MarchStutter DEF Ahead
  <2> QED BY <1>2, <2>1, <2>2, MarchStutter DEF TransitionInv
<1>3. CASE Marching(f) /\ test' = test /\ (ReadStep \/ WriteStep)
  <2>1. Spot(k, f.cw, b) /\ k \in DOMAIN test.walk
    BY <1>3, SpotUnchanged DEF Spot
  <2>2. /\ Due(s, k)
        /\ f.type = "TRANSITION_UP" => Ahead(1, k) \/ b \notin data[f.cw]
        /\ f.type = "TRANSITION_DOWN" => Ahead(2, k) \/ b \in data[f.cw]
    BY <1>3, <2>1 DEF TransitionInv
  <2>3. Due(s, k)'
    <3>1. load_codeword(f.cw) = data[f.cw]
      BY <1>3, OneFaultLoad DEF Marching, StuckType
    <3>2. Stage = s => ~Ahead(1, k) /\ ~Ahead(2, k)
      BY DEF Ahead
    <3> QED BY <1>3, <2>1, <2>2, <3>1, <3>2, StaysDue
  <2>4. ASSUME NEW r \in 1 .. 2, Ahead(r, k)
        PROVE  Ahead(r, k)' \/ (WriteStep /\ Stage = r /\ Turn = k)
    BY <1>3, <2>1, <2>4, AheadStep
  <2>5. CASE ReadStep
    <3>1. data' = data
      BY <2>5, ReadResult
    <3>2. ~WriteStep
      BY <2>5 DEF ReadStep, WriteStep
    <3> QED BY <2>2, <2>3, <2>4, <3>1, <3>2
  <2>6. CASE WriteStep
    BY <1>3, <2>1, <2>2, <2>3, <2>4, <2>6, TransitionTurn
  <2> QED BY <1>3, <2>5, <2>6
<1> QED BY <1>1, <1>2, <1>3, MarchCases

-----------------------------------------------------------------------------
(* Coupling faults: the second element changes every bit of the aggressor.  *)
(* A victim after it is read in the same element, still to be 0; one before *)
(* it, or the aggressor itself, in the third element, which expects a 1.    *)

\* Bit b of word v is a victim of f, and x of word a one of its aggressors.
Pair(f, a, x, v, b) ==
    /\ f.type = "COUPLING_INV" /\ x \in f.mask /\ b \in f.victim_mask
    /\ Spot(a, f.cw, x) /\ Spot(v, f.victim_cw, b)

\* What is due for the pair, and the victim's bit as far as the pair tells it.
\* The fill makes the codewords plain as it passes them; later the reads see to it.
PairInv(f, a, v, b) ==
    /\ a < v => /\ Due(2, v)
                /\ Stage = 1 /\ a <= at => Plain(f.cw)
                /\ Stage = 1 /\ v <= at => Plain(f.victim_cw) /\ b \notin data[f.victim_cw]
                /\ Stage = 2 => (b \in data[f.victim_cw] <=> a <= at)
    /\ v <= a => /\ Due(3, v)
                 /\ Stage = 2 /\ v <= at => (b \in data[f.victim_cw] <=> at < a)
                 /\ Stage = 3 => b \notin data[f.victim_cw]

CouplingInv ==
    \A f, a, x, v, b : Marching(f) /\ Pair(f, a, x, v, b) => PairInv(f, a, v, b)

\* What a turn's write needs to know of its codeword c.
PlainTurn(f, c, t, v) == c = f.cw \/ (c = f.victim_cw /\ t # v) => Plain(c)

\* What the write of a turn does to a victim: no other word than the aggressor's
\* fires the fault, and in the second element the aggressor's does.
LEMMA CouplingTurn ==
  ASSUME LoopInv, SawInv, NEW f, Marching(f), WriteStep,
         NEW a, NEW x, NEW v, NEW b, Pair(f, a, x, v, b), NEW t, t = Turn,
         NEW c \in Codeword, c = CodewordOf(Current), NEW w \in Word, w = WordAt(Current),
         NEW value \in SUBSET Bits(w), value = ValueAt(Turn, Element.write_value),
         dram_write32(c, w, value), PlainTurn(f, c, t, v)
  PROVE  LET before == IF t = v THEN Stage \in {2, 4} ELSE b \in data[f.victim_cw]
         IN  /\ t # a => (b \in data'[f.victim_cw] <=> before) /\ ~Fires(f, c, w, value)
             /\ t = a /\ Stage = 2 => (b \in data'[f.victim_cw] <=> ~before)
<1> DEFINE merged == (View(c) \ Bits(w)) \cup value
<1> DEFINE fires == Fires(f, c, w, value)
<1> DEFINE before == b \in (IF c = f.victim_cw THEN merged ELSE data[f.victim_cw])
<1>1. todo # <<>>
  BY DEF WriteStep
<1>2. b \in data'[f.victim_cw] <=> (IF fires THEN ~before ELSE before)
  <2>1. faults = <<f>> /\ f.type = "COUPLING_INV" /\ b \in f.victim_mask
    BY DEF Marching, Pair
  <2>2. Coupled(f, c, w, value, b)
    BY <2>1, CouplingWrite
  <2> QED BY <2>2 DEF Coupled
<1>3. f \in Fault /\ (c = f.cw \/ (c = f.victim_cw /\ t # v) => View(c) = data[c])
  <2>1. load_codeword(c) = data[c] /\ f \in Fault
    BY OneFaultLoad DEF Marching, Pair, StuckType
  <2> QED BY <2>1 DEF Plain, PlainTurn
<1>4. fires <=> c = f.cw /\ SymDiff(data[c], merged) \cap f.mask # {}
  BY DEF Fires
<1>5. \A y \in Bits(w) : y \in merged <=> y \in value
  OBVIOUS
<1>6. /\ a \in DOMAIN test.walk /\ v \in DOMAIN test.walk /\ t \in DOMAIN test.walk
      /\ Current = test.walk[t] /\ test.walk \in Seq(Location) /\ ~Aliased
      /\ test.name = "march"
  BY <1>1, LoopFacts DEF Pair, Spot, Marching, LoopInv, Running, Current
<1>7. ASSUME NEW k \in DOMAIN test.walk, k # t, CodewordOf(test.walk[k]) = c
      PROVE  WordAt(test.walk[k]) # w
  <2>1. test.walk[k] \in Location /\ test.walk[t] \in Location /\ test.walk[k] # test.walk[t]
    BY <1>6, <1>7 DEF Aliased
  <2> QED BY <1>6, <1>7, <2>1, LocationJoins
<1>8. t = v => c = f.victim_cw /\ b \in Bits(w)
  BY <1>6 DEF Pair, Spot
<1>9. t # v /\ c = f.victim_cw => b \notin Bits(w)
  BY <1>6, <1>7 DEF Pair, Spot, Bits
<1>10. \A y \in Bits(w) : y \in value <=> Stage \in {2, 4}
  <2>1. Element.write_value = IF Stage \in {2, 4} THEN Ones ELSE Zeros
    <3>1. Stage \in 1 .. 6 /\ (Element.do_write <=> Stage # 6)
      BY <1>1, <1>6, MarchElements
    <3>2. Element.do_write
      BY DEF WriteStep
    <3>3. Stage \in {1, 3, 5} \/ Stage \in {2, 4}
      BY <3>1, <3>2
    <3> QED BY <1>1, <1>6, <3>3, MarchElements
  <2> QED BY <1>6, <2>1 DEF ValueAt, Zeros, Ones, Bits
<1>11. before <=> (IF t = v THEN Stage \in {2, 4} ELSE b \in data[f.victim_cw])
  <2>1. b \in value => b \in Bits(w)
    OBVIOUS
  <2>2. CASE t = v
    BY <1>8, <1>10, <2>2
  <2>3. CASE t # v /\ c = f.victim_cw
    BY <1>3, <1>9, <2>1, <2>3
  <2>4. CASE t # v /\ c # f.victim_cw
    BY <2>4
  <2> QED BY <2>2, <2>3, <2>4
<1>12. t # a => ~fires
  <2> SUFFICES ASSUME t # a, c = f.cw PROVE SymDiff(data[c], merged) \cap f.mask = {}
    BY <1>4
  <2>1. PICK u \in Word : f.mask \subseteq Bits(u)
    BY <1>3 DEF Fault, Mask
  <2>2. u # w
    BY <1>6, <1>7, <2>1 DEF Pair, Spot, Bits
  <2>3. \A y \in f.mask : y \notin Bits(w)
    BY <2>1, <2>2 DEF Bits
  <2>4. value \subseteq Bits(w)
    OBVIOUS
  <2> QED BY <1>3, <2>3, <2>4 DEF SymDiff
<1>13. t = a /\ Stage = 2 => fires
  <2> SUFFICES ASSUME t = a, Stage = 2 PROVE fires
    OBVIOUS
  <2>1. c = f.cw /\ x \in Bits(w) /\ x \in f.mask
    BY <1>6 DEF Pair, Spot
  <2>2. Element.check_read /\ has_read /\ Element.expected = Zeros
    BY <1>1, <1>6, MarchElements DEF WriteStep
  <2>3. Shows(t, Zeros)
    BY <1>1, <2>2 DEF SawInv, Marching
  <2>4. x \notin data[c]
    <3>1. x \in load_codeword(c) <=> x \in Zeros
      BY <2>1, <2>3, CleanMarchRead DEF Pair, PlainTurn
    <3> QED BY <3>1, OneFaultLoad DEF Zeros, Marching, Pair, StuckType
  <2>5. x \in merged
    BY <1>10, <2>1
  <2> QED BY <1>4, <2>1, <2>4, <2>5 DEF SymDiff
<1> HIDE DEF before
<1> QED BY <1>2, <1>11, <1>12, <1>13

\* The read that was due finds the inverted victim, and a write keeps the pair.
LEMMA CouplingInvStep ==
  LoopInv /\ SawInv /\ CouplingInv /\ [TestNext]_<<vars, tvars>> => CouplingInv'
<1> SUFFICES ASSUME LoopInv, SawInv, CouplingInv, [TestNext]_<<vars, tvars>>,
                    NEW f, NEW a, NEW x, NEW v, NEW b,
                    Marching(f)', Pair(f, a, x, v, b)'
             PROVE  PairInv(f, a, v, b)'
  BY DEF CouplingInv
<1>1. CASE Stage' = 1 /\ at' = 0 /\ ~has_read'
  <2>1. LoopInv'
    BY LoopInvStep
  <2>2. test'.walk \in Seq(Location) /\ a \in DOMAIN test'.walk /\ v \in DOMAIN test'.walk
    BY <2>1 DEF LoopInv, Pair, Spot
  <2>3. a \in Nat \ {0} /\ v \in Nat \ {0}
    BY <2>2
  <2> QED BY <1>1, <2>3 DEF PairInv, Due
<1>2. CASE Marching(f) /\ UNCHANGED <<vars, tvars>>
  <2>1. Pair(f, a, x, v, b)
    BY <1>2, SpotUnchanged DEF tvars, Pair
  <2>2. \A c : Plain(c)' = Plain(c)
    BY <1>2, PlainUnchanged DEF vars, cells
  <2> QED BY <1>2, <2>1, <2>2, MarchStutter DEF CouplingInv, PairInv
<1>3. CASE Marching(f) /\ test' = test /\ (ReadStep \/ WriteStep)
  <2>1. Pair(f, a, x, v, b)
    BY <1>3, SpotUnchanged DEF Pair
  <2>2. PairInv(f, a, v, b)
    BY <1>3, <2>1 DEF CouplingInv
  <2>3. PICK n \in Nat, t \in Nat :
           /\ n = Len(test.walk) /\ t = Turn /\ a \in 1 .. n /\ v \in 1 .. n
           /\ at \in 0 .. n - 1 /\ Stage \in 1 .. 6
           /\ Element.do_write <=> Stage # 6
           /\ Element.check_read <=> Stage # 1
           /\ Stage \in 1 .. 3 => t = at + 1 /\ \A k : Done(k) <=> k <= at
    <3>1. todo # <<>> /\ test.name = "march" /\ test.walk \in Seq(Location) /\ Running
      BY <1>3 DEF Marching, LoopInv
    <3>2. /\ Stage \in 1 .. 6 /\ (Element.do_write <=> Stage # 6)
          /\ Element.check_read <=> Stage # 1
          /\ Stage \in {1, 2, 3} => ~Element.descending
      BY <3>1, MarchElements
    <3>3. Turn \in DOMAIN test.walk /\ a \in DOMAIN test.walk /\ v \in DOMAIN test.walk
      BY <2>1, <3>1, LoopFacts DEF Pair, Spot
    <3>4. Stage \in 1 .. 3 => Turn = at + 1 /\ \A k : Done(k) <=> k <= at
      BY <3>2 DEF Turn, Done
    <3>5. Len(test.walk) \in Nat /\ DOMAIN test.walk = 1 .. Len(test.walk)
      BY <3>1
    <3>6. Turn \in Nat
      BY <3>3, <3>5
    <3> QED BY <3>1, <3>2, <3>3, <3>4, <3>5, <3>6 DEF Running
  <2>4. \A s \in 2 .. 3 : Due(s, v) => Stage < s \/ (Stage = s /\ at < v /\ (has_read => t # v))
    BY <2>3 DEF Due
  <2>5. ASSUME NEW s \in 2 .. 3, s = IF a < v THEN 2 ELSE 3 PROVE Due(s, v)'
    <3>1. load_codeword(f.victim_cw) = data[f.victim_cw]
      BY <1>3, <2>1, OneFaultLoad DEF Marching, Pair, StuckType
    <3>2. Due(s, v) /\ Spot(v, f.victim_cw, b)
      BY <2>1, <2>2, <2>3, <2>5 DEF PairInv, Pair
    <3>3. Stage = s /\ Turn = v => (b \in data[f.victim_cw] <=> s # 3)
      BY <2>2, <2>3, <2>5 DEF PairInv
    <3> QED BY <1>3, <3>1, <3>2, <3>3, StaysDue
  <2>6. CASE ReadStep
    <3>1. data' = data /\ Stage \in 1 .. 3
      BY <2>2, <2>3, <2>4, <2>6, ReadResult DEF PairInv
    <3>2. at' = at /\ todo' = todo
      BY <2>3, <2>6, <3>1 DEF ReadStep
    <3>3. Stage' = Stage /\ Stage # 1
      BY <1>3, <2>3, <2>6, <3>2 DEF Stage, AllElements, ReadStep
    <3> QED BY <2>2, <2>3, <2>5, <3>1, <3>2, <3>3 DEF PairInv
  <2>7. CASE WriteStep
    <3>1. \/ at + 1 < n /\ at' = at + 1 /\ Stage' = Stage
          \/ at + 1 = n /\ at' = 0 /\ Stage' = Stage + 1
      <4>1. NextWord /\ todo # <<>> /\ todo' # <<>>
        BY <1>3, <2>7 DEF WriteStep, Marching
      <4> QED BY <1>3, <2>3, <4>1, NextWordCases
    <3>2. has_read \/ Stage = 1
      BY <2>3, <2>7 DEF WriteStep
    <3>3. PICK c \in Codeword, w \in Word, value \in SUBSET DataBit :
             /\ c = CodewordOf(Current) /\ w = WordAt(Current) /\ value \in SUBSET Bits(w)
             /\ value = ValueAt(Turn, Element.write_value)
             /\ dram_write32(c, w, value)
      BY <2>7, WriteFacts
    <3>4. Stage # 1 => Plain(c)
      <4>1. Current = test.walk[Turn]
        BY DEF Current
      <4> QED BY <1>3, <3>2, <3>3, <4>1 DEF SawInv, Marching
    <3>5. a < v /\ Stage = 1 =>
             /\ a <= at => Plain(f.cw)
             /\ v <= at => Plain(f.victim_cw)
      BY <2>2 DEF PairInv
    <3>6. ASSUME Stage # 1 \/ (a < v /\ v <= t)
          PROVE  LET before == IF t = v THEN Stage \in {2, 4} ELSE b \in data[f.victim_cw]
                 IN  /\ t # a => (b \in data'[f.victim_cw] <=> before) /\ ~Fires(f, c, w, value)
                     /\ t = a /\ Stage = 2 => (b \in data'[f.victim_cw] <=> ~before)
      <4>1. PlainTurn(f, c, t, v)
        <5>1. CASE Stage # 1
          BY <3>4, <5>1 DEF PlainTurn
        <5>2. CASE Stage = 1 /\ a < v /\ v <= t
          <6>1. t = at + 1 /\ a <= at /\ (t # v => v <= at)
            BY <2>3, <5>2
          <6> QED BY <3>5, <5>2, <6>1 DEF PlainTurn
        <5> QED BY <2>3, <3>6, <5>1, <5>2
      <4> QED BY <1>3, <2>1, <2>3, <2>7, <3>3, <4>1, CouplingTurn
    <3>7. CASE a < v
      <4>1. Due(2, v)'
        BY <2>3, <2>5, <3>7
      <4>2. Stage < 2 \/ (Stage = 2 /\ at < v /\ t # v)
        BY <2>2, <2>3, <2>4, <3>2, <3>7 DEF PairInv
      <4>3. Stage' = 1 /\ v <= at' => b \notin data'[f.victim_cw]
        BY <2>2, <2>3, <3>1, <3>6, <3>7 DEF PairInv
      <4>4. Stage' = 2 => (b \in data'[f.victim_cw] <=> a <= at')
        BY <2>2, <2>3, <3>1, <3>6, <3>7, <4>2 DEF PairInv
      <4>5. /\ Plain(c)'
            /\ \A d \in Codeword \ {c} :
                  Plain(d) /\ ~(Fires(f, c, w, value) /\ d = f.victim_cw) => Plain(d)'
        <5>1. LoopInv' /\ faults = <<f>> /\ faults' = faults /\ f.type = "COUPLING_INV"
          BY <1>3, <2>1, LoopInvStep DEF Marching, Pair
        <5> QED BY <3>3, <5>1, WritePlain
      <4>6. /\ c = CodewordOf(test.walk[t]) /\ f.cw \in Codeword /\ f.victim_cw \in Codeword
            /\ f.cw = CodewordOf(test.walk[a]) /\ f.victim_cw = CodewordOf(test.walk[v])
        <5>1. f \in Fault
          BY <1>3, OneFaultLoad DEF Marching
        <5> QED BY <2>1, <2>3, <3>3, <5>1 DEF Current, Pair, Spot, Fault
      <4>7. Stage' = 1 => Stage = 1 /\ t = at + 1 /\ at' = t
        BY <2>3, <3>1
      <4>8. Stage' = 1 /\ a <= at' => Plain(f.cw)'
        <5> SUFFICES ASSUME Stage' = 1, a <= at' PROVE Plain(f.cw)'
          OBVIOUS
        <5>1. CASE c = f.cw
          BY <4>5, <5>1
        <5>2. CASE c # f.cw
          <6>1. a <= at /\ ~Fires(f, c, w, value)
            BY <2>3, <4>6, <4>7, <5>2 DEF Fires
          <6> QED BY <3>5, <3>7, <4>5, <4>6, <4>7, <5>2, <6>1
        <5> QED BY <5>1, <5>2
      <4>9. Stage' = 1 /\ v <= at' => Plain(f.victim_cw)'
        <5> SUFFICES ASSUME Stage' = 1, v <= at' PROVE Plain(f.victim_cw)'
          OBVIOUS
        <5>1. CASE c = f.victim_cw
          BY <4>5, <5>1
        <5>2. CASE c # f.victim_cw
          <6>1. v <= at /\ t # a
            BY <2>3, <3>7, <4>6, <4>7, <5>2
          <6>2. ~Fires(f, c, w, value)
            BY <2>3, <3>6, <3>7, <4>7, <6>1
          <6> QED BY <3>5, <3>7, <4>5, <4>6, <4>7, <5>2, <6>1, <6>2
        <5> QED BY <5>1, <5>2
      <4> QED BY <2>3, <3>7, <4>1, <4>3, <4>4, <4>8, <4>9 DEF PairInv
    <3>8. CASE v <= a
      <4>1. Due(3, v)'
        BY <2>3, <2>5, <3>8
      <4>2. Stage < 3 \/ (Stage = 3 /\ at < v /\ t # v)
        BY <2>2, <2>3, <2>4, <3>2, <3>8 DEF PairInv
      <4>3. Stage' = 2 /\ v <= at' => (b \in data'[f.victim_cw] <=> at' < a)
        BY <2>2, <2>3, <3>1, <3>6, <3>8 DEF PairInv
      <4>4. Stage' = 3 => b \notin data'[f.victim_cw]
        BY <2>2, <2>3, <3>1, <3>6, <3>8, <4>2 DEF PairInv
      <4> QED BY <2>3, <3>8, <4>1, <4>3, <4>4 DEF PairInv
    <3> QED BY <2>3, <3>7, <3>8
  <2> QED BY <1>3, <2>6, <2>7
<1> QED BY <1>1, <1>2, <1>3, MarchCases

-----------------------------------------------------------------------------
(* At its end March C- has nothing left to do.                              *)

\* Everything the last step needs to know about the march so far.
MarchInv == SawInv /\ VictimsNamed /\ StuckInv /\ TransitionInv /\ CouplingInv

\* All of this holds in every state of every test.
LEMMA MarchInvariant == TestSpec => [](LoopInv /\ MarchInv)
<1>1. TestInit => MarchInv
  <2> SUFFICES ASSUME TestInit PROVE MarchInv
    OBVIOUS
  <2>1. todo = <<>> /\ faults = <<>>
    BY DEF TestInit, Init
  <2> QED BY <2>1 DEF MarchInv, SawInv, VictimsNamed, StuckInv, TransitionInv, CouplingInv,
                      Marching
<1>2. LoopInv /\ MarchInv /\ [TestNext]_<<vars, tvars>> => MarchInv'
  <2> SUFFICES ASSUME LoopInv, MarchInv, [TestNext]_<<vars, tvars>> PROVE MarchInv'
    OBVIOUS
  <2>1. SawInv' /\ StuckInv' /\ TransitionInv' /\ CouplingInv'
    BY SawInvStep, StuckInvStep, TransitionInvStep, CouplingInvStep DEF MarchInv
  <2>2. VictimsNamed'
    <3>1. TypeOK /\ [Next]_vars
      BY TestStepsAreMemorySteps DEF LoopInv
    <3> QED BY <3>1, VictimsNamedStep DEF MarchInv
  <2> QED BY <2>1, <2>2 DEF MarchInv
<1>3. TestSpec => TestInit /\ [][TestNext]_<<vars, tvars>>
  BY PTL DEF TestSpec
<1> QED BY <1>1, <1>2, <1>3, LoopInvariant, PTL

\* Every bit of a mask the test covers has a turn that reads and writes it.
LEMMA CoveredSpot ==
  ASSUME LoopInv, NEW c \in Codeword, NEW mask \in SUBSET DataBit, CoversMask(c, mask),
         NEW b \in mask
  PROVE  \E k : Spot(k, c, b)
<1> DEFINE n == WordsPerCodeword
<1> DEFINE w == WordOf[b]
<1>1. PICK k \in DOMAIN test.walk : test.walk[k] = c * n + w
  BY DEF CoversMask, Covers
<1>2. n \in Nat \ {0} /\ c \in Nat /\ w \in 0 .. n - 1
  BY MemoryTestAssumption, DramAssumption DEF Codeword
<1>3. (c * n + w) \div n = c /\ (c * n + w) % n = w
  <2> HIDE DEF n, w
  <2> QED BY <1>2
<1>4. c = CodewordOf(test.walk[k]) /\ w = WordAt(test.walk[k])
  BY <1>1, <1>3 DEF CodewordOf, WordAt
<1> QED BY <1>4 DEF Spot, Bits

\* It ends with an error or a correction when a write fault is in its range: in each
\* of the three kinds there is a read that must find it, still due while nothing is found.
LEMMA MarchLeavesTrace ==
  ASSUME LoopInv, MarchInv, TestNext, Finishes, test.name = "march",
         Len(faults) = 1, faults[1].type # "RETENTION", CoversFault(faults[1])
  PROVE  result'.error_count > 0 \/ ~Silent'
<1>1. PICK f : f = faults[1]
  OBVIOUS
<1>2. faults = <<f>> /\ f \in Fault /\ f.mask \subseteq DataBit
  <2>1. faults = <<f>>
    BY <1>1 DEF LoopInv, TypeOK
  <2> QED BY <2>1, OneFaultLoad
<1>3. ReadStep /\ todo # <<>> /\ Stage = 6
  BY LastStep, MarchElements
<1>4. result'.error_count \in Nat
  BY <1>3, ReadResult DEF Result
<1> SUFFICES ASSUME result'.error_count = 0, Silent' PROVE FALSE
  BY <1>4
<1>5. Marching(f)
  BY <1>2, <1>3, CleanRead, SilentRead DEF Marching
<1>6. \A s \in 2 .. 4 : \A k : ~Due(s, k)
  BY <1>3 DEF Due
<1>7. f.cw \in Codeword /\ f.victim_cw \in Codeword /\ f.victim_mask \subseteq DataBit
  BY <1>2 DEF Fault, Mask
<1>8. CoversMask(f.cw, f.mask) /\ CoversMask(f.victim_cw, f.victim_mask)
  BY <1>1 DEF CoversFault
<1>9. PICK x \in f.mask : TRUE
  BY <1>2 DEF Fault, Mask
<1>10. PICK a : Spot(a, f.cw, x)
  BY <1>2, <1>7, <1>8, CoveredSpot
<1>11. CASE f.type \in StuckType
  BY <1>5, <1>6, <1>10, <1>11 DEF MarchInv, StuckInv
<1>12. CASE f.type \in {"TRANSITION_UP", "TRANSITION_DOWN"}
  BY <1>5, <1>6, <1>10, <1>12 DEF MarchInv, TransitionInv
<1>13. CASE f.type = "COUPLING_INV"
  <2>1. f.victim_mask # {}
    BY <1>2, <1>13 DEF MarchInv, VictimsNamed
  <2>2. PICK b \in f.victim_mask : TRUE
    BY <2>1
  <2>3. PICK v : Spot(v, f.victim_cw, b)
    BY <1>7, <1>8, CoveredSpot
  <2>4. PairInv(f, a, v, b)
    BY <1>5, <1>10, <1>13, <2>3 DEF MarchInv, CouplingInv, Pair
  <2>5. a \in Nat /\ v \in Nat
    <3>1. test.walk \in Seq(Location) /\ a \in DOMAIN test.walk /\ v \in DOMAIN test.walk
      BY <1>10, <2>3 DEF LoopInv, Spot
    <3> QED BY <3>1
  <2> QED BY <1>6, <2>4, <2>5 DEF PairInv
<1> QED BY <1>1, <1>2, <1>11, <1>12, <1>13 DEF Fault, FaultType

\* The last read of a test changes neither the switch nor the types of the counters.
LEMMA LastCounts ==
  ASSUME LoopInv, TestNext, Finishes
  PROVE  odecc_enabled' = odecc_enabled /\ ecc_corr_count' \in Nat
<1>1. odecc_enabled' = odecc_enabled
  BY LastStep, ReadResult
<1>2. LoopInv'
  BY LoopInvStep
<1> QED BY <1>1, <1>2 DEF LoopInv, TypeOK

(***************************************************************************)
(* March C- fails for every single write fault inside its range while      *)
(* ODECC is off, at any size of memory, mask and place of the victim, and  *)
(* whatever the cells held before.                                         *)
(***************************************************************************)
THEOREM MarchFindsEveryFault == TestSpec => MarchDetectsEveryFault
<1>1. ASSUME LoopInv, MarchInv, TestNext, Finishes, test.name = "march", ~odecc_enabled,
             Len(faults) = 1, faults[1].type # "RETENTION", CoversFault(faults[1])
      PROVE  result'.error_count > 0
  BY <1>1, MarchLeavesTrace, LastCounts DEF Silent
<1>2. LoopInv /\ MarchInv /\ [TestNext]_<<vars, tvars>> =>
        [Finishes /\ test.name = "march" /\ ~odecc_enabled /\ Len(faults) = 1
           /\ faults[1].type # "RETENTION" /\ CoversFault(faults[1])
         => result'.error_count > 0]_<<vars, tvars>>
  BY <1>1
<1>3. TestSpec => [][TestNext]_<<vars, tvars>>
  BY PTL DEF TestSpec
<1> QED BY <1>2, <1>3, MarchInvariant, PTL DEF MarchDetectsEveryFault

(***************************************************************************)
(* With ODECC on, March C- over a range with a write fault fails or leaves *)
(* a correction in the counter of its row: the decoder may hide the fault  *)
(* from the test, by repairing it or by changing another bit, but not      *)
(* without counting, and the fill leaves no stale parity behind.           *)
(***************************************************************************)
THEOREM EscapesAreCounted == TestSpec => NoSilentEscape
<1>1. ASSUME LoopInv, MarchInv, TestNext, Finishes, test.name = "march", odecc_enabled,
             Len(faults) = 1, faults[1].type # "RETENTION", CoversFault(faults[1])
      PROVE  result'.error_count > 0 \/ ecc_corr_count' > 0
  BY <1>1, MarchLeavesTrace, LastCounts DEF Silent
<1>2. LoopInv /\ MarchInv /\ [TestNext]_<<vars, tvars>> =>
        [Finishes /\ test.name = "march" /\ odecc_enabled /\ Len(faults) = 1
           /\ faults[1].type # "RETENTION" /\ CoversFault(faults[1])
         => result'.error_count > 0 \/ ecc_corr_count' > 0]_<<vars, tvars>>
  BY <1>1
<1>3. TestSpec => [][TestNext]_<<vars, tvars>>
  BY PTL DEF TestSpec
<1> QED BY <1>2, <1>3, MarchInvariant, PTL DEF NoSilentEscape

==============================================================================
