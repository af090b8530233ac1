------------------------------ MODULE MemoryTest ------------------------------
(***************************************************************************)
(* core/memory_test.c on top of DramModel: the constant-pattern test, the  *)
(* constant-pattern verify, the topology test and March C-, one memory     *)
(* access per step.                                                        *)
(*                                                                         *)
(* All four walk a sequence of words with the loop of march_element: a     *)
(* range of the memory, or one word per bank for the topology test.  The   *)
(* constant and the topology test are a write pass and a verify pass.      *)
(* Between tests the caller prepares the memory: power, faults, ODECC, its *)
(* counters.                                                               *)
(***************************************************************************)
EXTENDS DramModel

CONSTANTS
    Ranges,     \* the ranges tested: first word and number of words
    Patterns,   \* the patterns of the tests, as codewords
    Layouts,    \* the words dram_encode_address may give the topology test
    Tags        \* bg << 28 ^ bank << 24 of its locations, in each word

WordsPerCodeword == Cardinality(Word)
MemoryWords == Codewords * WordsPerCodeword

ASSUME MemoryTestAssumption ==
    /\ WordsPerCodeword \in Nat \ {0} /\ Word = 0 .. WordsPerCodeword - 1
    /\ Patterns \subseteq Data
    \* Aligned, not empty and inside the memory: the tests reject the rest.
    /\ Ranges \subseteq [start : Nat, count : Nat \ {0}]
    /\ \A r \in Ranges : r.start + r.count <= MemoryWords
    /\ Layouts \subseteq Seq(0 .. MemoryWords - 1) \ {<<>>}
    /\ \A layout \in Layouts : DOMAIN layout = DOMAIN Tags
    \* No two locations have the same tag, whichever word shows it.
    /\ \A j, k \in DOMAIN Tags, w \in Word :
          j # k => Tags[j] \cap Bits(w) # Tags[k] \cap Bits(w)

VARIABLES
    test,       \* the test that runs or ran last, with its words and pattern
    todo,       \* the march elements it still has to do, the current one first
    at,         \* words of the current element already done
    has_read,   \* the current word is read and not yet written
    result      \* the MemoryTestResult

tvars == <<test, todo, at, has_read, result>>

NoTest == [name |-> "none", walk |-> <<>>, pattern |-> {}]
ZeroResult ==
    [words_tested |-> 0, error_count |-> 0,
     first_fail_address |-> 0, first_expected |-> {}, first_actual |-> {}]

TestInit ==
    /\ Init
    /\ test = NoTest /\ todo = <<>> /\ at = 0 /\ has_read = FALSE
    /\ result = ZeroResult

-----------------------------------------------------------------------------
(* March elements.                                                          *)

Up == FALSE
Down == TRUE
Fill(value) ==
    [descending |-> Up, check_read |-> FALSE, expected |-> {},
     do_write |-> TRUE, write_value |-> value]
Check(value) ==
    [descending |-> Up, check_read |-> TRUE, expected |-> value,
     do_write |-> FALSE, write_value |-> {}]
CheckThenWrite(descending, expected, value) ==
    [descending |-> descending, check_read |-> TRUE, expected |-> expected,
     do_write |-> TRUE, write_value |-> value]

Zeros == {}
Ones == DataBit

\* Mutant: March without its descending half and last check.
ElementsUpOnly(name, pattern) ==
    CASE name = "constant" -> <<Fill(pattern), Check(pattern)>>
      [] name = "verify" -> <<Check(pattern)>>
      [] name = "topology" -> <<Fill(pattern), Check(pattern)>>
      [] name = "march" ->
            <<Fill(Zeros), CheckThenWrite(Up, Zeros, Ones), CheckThenWrite(Up, Ones, Zeros)>>

\* Mutant: the constant test does not read back what it wrote.
ElementsWriteOnly(name, pattern) ==
    CASE name = "constant" -> <<Fill(pattern)>>
      [] name = "verify" -> <<Check(pattern)>>
      [] name = "topology" -> <<Fill(pattern), Check(pattern)>>
      [] name = "march" ->
            <<Fill(Zeros),
              CheckThenWrite(Up, Zeros, Ones), CheckThenWrite(Up, Ones, Zeros),
              CheckThenWrite(Down, Zeros, Ones), CheckThenWrite(Down, Ones, Zeros),
              Check(Zeros)>>

Elements(name, pattern) ==
    CASE name = "constant" -> <<Fill(pattern), Check(pattern)>>
      [] name = "verify" -> <<Check(pattern)>>
      [] name = "topology" -> <<Fill(pattern), Check(pattern)>>
      [] name = "march" ->
            <<Fill(Zeros),
              CheckThenWrite(Up, Zeros, Ones), CheckThenWrite(Up, Ones, Zeros),
              CheckThenWrite(Down, Zeros, Ones), CheckThenWrite(Down, Ones, Zeros),
              Check(Zeros)>>

WordsOf(range) == [k \in 1 .. range.count |-> range.start + k - 1]

\* A loop over the words of "walk" that does "elements" one after the other.
Loop(name, walk, pattern, elements) ==
    /\ todo = <<>>
    /\ up
    /\ test' = [name |-> name, walk |-> walk, pattern |-> pattern]
    /\ todo' = elements
    /\ at' = 0 /\ has_read' = FALSE
    /\ result' = ZeroResult
    /\ UNCHANGED vars

Start(name, walk, pattern) == Loop(name, walk, pattern, Elements(name, pattern))

-----------------------------------------------------------------------------
(* One access of march_element.                                             *)

Element == Head(todo)

\* The word the loop is at, counted from the start of the memory.
Turn == IF Element.descending THEN Len(test.walk) - at ELSE at + 1
Current == test.walk[Turn]
CodewordOf(i) == i \div WordsPerCodeword
WordAt(i) == i % WordsPerCodeword

\* Mutant: every location gets the base pattern.
UntaggedPattern(base_pattern, k) == base_pattern

topology_pattern_for_location(base_pattern, k) == SymDiff(base_pattern, Tags[k])

\* What the test means by "pattern" at the k-th word it walks.
ValueAt(k, pattern) ==
    Bits(WordAt(test.walk[k])) \cap
        (IF test.name = "topology" THEN topology_pattern_for_location(pattern, k)
                                   ELSE pattern)

\* Mutant: the loop leaves the last word out.
NextButLast ==
    /\ has_read' = FALSE
    /\ IF at + 2 < Len(test.walk)
       THEN at' = at + 1 /\ UNCHANGED todo
       ELSE at' = 0 /\ todo' = Tail(todo)

NextWord ==
    /\ has_read' = FALSE
    /\ IF at + 1 < Len(test.walk)
       THEN at' = at + 1 /\ UNCHANGED todo
       ELSE at' = 0 /\ todo' = Tail(todo)

\* Mutant: a word that fails is not counted as tested.
CompareUncounted(actual, expected) ==
    result' =
        [result EXCEPT
            !.words_tested = @ + (IF actual = expected THEN 1 ELSE 0),
            !.error_count = @ + (IF actual = expected THEN 0 ELSE 1)]

Compare(actual, expected) ==
    result' =
        [words_tested |-> result.words_tested + 1,
         error_count |-> result.error_count + (IF actual = expected THEN 0 ELSE 1),
         first_fail_address |-> IF actual # expected /\ result.error_count = 0
                                THEN Current ELSE result.first_fail_address,
         first_expected |-> IF actual # expected /\ result.error_count = 0
                            THEN expected ELSE result.first_expected,
         first_actual |-> IF actual # expected /\ result.error_count = 0
                          THEN actual ELSE result.first_actual]

ReadStep ==
    /\ todo # <<>>
    /\ Element.check_read /\ ~has_read
    /\ dram_read32(CodewordOf(Current))
    /\ Compare(dram_read32_value(CodewordOf(Current), WordAt(Current)),
               ValueAt(Turn, Element.expected))
    /\ IF Element.do_write THEN has_read' = TRUE /\ UNCHANGED <<at, todo>> ELSE NextWord
    /\ UNCHANGED test

WriteStep ==
    /\ todo # <<>>
    /\ Element.do_write /\ (Element.check_read => has_read)
    /\ dram_write32(CodewordOf(Current), WordAt(Current),
                    ValueAt(Turn, Element.write_value))
    /\ NextWord
    /\ UNCHANGED <<test, result>>

-----------------------------------------------------------------------------
\* What the callers do to the memory between two tests.
Prepare ==
    /\ todo = <<>>
    /\ dram_init \/ AddAnyFault \/ dram_clear_faults \/ Flip
       \/ SwitchEcc \/ dram_reset_ecc_stats
    /\ UNCHANGED tvars

\* A test starts on reset counters, as the rows of the result log expect.
Begin ==
    /\ ecc_corr_count = 0 /\ ecc_uncorr_count = 0
    /\ \/ \E range \in Ranges :
             \/ Start("march", WordsOf(range), {})
             \/ \E pattern \in Patterns :
                   \/ Start("constant", WordsOf(range), pattern)
                   \/ Start("verify", WordsOf(range), pattern)
       \/ \E layout \in Layouts, pattern \in Patterns : Start("topology", layout, pattern)

TestNext == Prepare \/ Begin \/ ReadStep \/ WriteStep

TestSpec == TestInit /\ [][TestNext]_<<vars, tvars>>

-----------------------------------------------------------------------------
(* Properties.                                                              *)

TestTypeOK ==
    /\ TypeOK
    /\ test.name \in {"none", "constant", "verify", "topology", "march"}
    /\ test.walk \in Seq(0 .. MemoryWords - 1)
    /\ test.pattern \in Data
    /\ Len(todo) <= 6
    /\ todo # <<>> => Turn \in DOMAIN test.walk
    /\ has_read \in BOOLEAN
    /\ result.error_count <= result.words_tested

Finishes == todo # <<>> /\ todo' = <<>>

\* The words the test covers, and the words a fault of the table touches.
Covers(c, w) == \E k \in DOMAIN test.walk : test.walk[k] = c * WordsPerCodeword + w
CoversMask(c, mask) == \A b \in mask : Covers(c, WordOf[b])
CoversFault(f) == CoversMask(f.cw, f.mask) /\ CoversMask(f.victim_cw, f.victim_mask)

\* Two turns of the loop reach the same word: a broken address mapping.
Aliased == \E j, k \in DOMAIN test.walk : j # k /\ test.walk[j] = test.walk[k]

(***************************************************************************)
(* The claim of tc10's matrix (host/main.c:762): with ODECC off, March C-  *)
(* over a range fails for every single fault in it, whatever its kind, its *)
(* mask, where the victim lies and what the cells held before.             *)
(***************************************************************************)
MarchDetectsEveryFault ==
    [][Finishes /\ test.name = "march" /\ ~odecc_enabled /\ Len(faults) = 1
          /\ faults[1].type # "RETENTION" /\ CoversFault(faults[1])
       => result'.error_count > 0]_<<vars, tvars>>

(***************************************************************************)
(* A test that writes before it reads never blames a memory without        *)
(* faults: leftovers of earlier faults and tests, stale parity included,   *)
(* are gone by the time they are read.  The topology test needs an address *)
(* of its own for every location.                                          *)
(***************************************************************************)
NoFalseAlarm ==
    [][Finishes /\ test.name # "verify" /\ faults = <<>> /\ ~Aliased
       => result'.error_count = 0]_<<vars, tvars>>

(***************************************************************************)
(* What the topology test is for (memory_test.c:218-219): when two         *)
(* locations share their cells it fails, whatever faults the memory has    *)
(* and however the decoder treats them.                                    *)
(***************************************************************************)
TopologyFindsAliases ==
    [][Finishes /\ test.name = "topology" /\ Aliased
       => result'.error_count > 0]_<<vars, tvars>>

(***************************************************************************)
(* An escape leaves a trace (docs/test_plan.md: PASS with corrections is   *)
(* an escape): with ODECC on, March C- over a faulty range either fails or *)
(* leaves corrections in the counter of the result row.                    *)
(***************************************************************************)
NoSilentEscape ==
    [][Finishes /\ test.name = "march" /\ odecc_enabled /\ Len(faults) = 1
          /\ faults[1].type # "RETENTION" /\ CoversFault(faults[1])
       => result'.error_count > 0 \/ ecc_corr_count' > 0]_<<vars, tvars>>

(***************************************************************************)
(* A passed test is true of all its words at its end: every one reads as   *)
(* its own pattern, although they were written and compared one after the  *)
(* other.  (The last access is a read and changes no cell.)                *)
(***************************************************************************)
PassMeansPatternHolds ==
    [][Finishes /\ result'.error_count = 0
       => \A k \in DOMAIN test.walk :
             dram_read32_value(CodewordOf(test.walk[k]), WordAt(test.walk[k]))
                 = ValueAt(k, test.pattern)]_<<vars, tvars>>

==============================================================================
