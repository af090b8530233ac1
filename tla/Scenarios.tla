------------------------------ MODULE Scenarios ------------------------------
(***************************************************************************)
(* The host program, host/main.c with core/error_injection.c and           *)
(* host/logger.c: main, run_selected and the scenarios tc1 to tc11, the    *)
(* constant, march and shmoo modes, on MemoryTest and DramModel.           *)
(*                                                                         *)
(* A scenario is a script: the calls it makes, in order, one per step; a   *)
(* memory test runs access by access between two lines of the script.      *)
(* Addresses are word numbers of a smaller memory with the same layout:    *)
(* the same words share a codeword, the region and the order of the        *)
(* addresses are those of the program.  Times are in milliseconds.         *)
(***************************************************************************)
EXTENDS MemoryTest, SequencesExt

CONSTANTS
    SMOKE_ADDR, BITFLIP_ADDR, STUCK_ADDR, SOFT_ADDR, MISCORRECT_ADDR,
    UNCORR_ADDR, MATRIX_ADDR, MATRIX_VICTIM,
    REGION,         \* the words from REGION_START on, REGION_LEN bytes
    RETENTION,      \* the words from RETENTION_ADDR on, RETENTION_LEN bytes
    TOPOLOGY,       \* the words of the topology test
    ShmooTemps, ShmooPeriods,   \* the axes of the sweep
    Options         \* the command lines: a test name and an injection

WORD_BITS == 32

NoInjection == [type |-> "none"]
BadSpec == [type |-> "bad"]

ASSUME ScenariosAssumption ==
    /\ DataBit = 0 .. WordsPerCodeword * WORD_BITS - 1
    /\ \A b \in DataBit : WordOf[b] = b \div WORD_BITS
    /\ {SMOKE_ADDR, BITFLIP_ADDR, STUCK_ADDR, SOFT_ADDR, MISCORRECT_ADDR, UNCORR_ADDR,
        MATRIX_ADDR, MATRIX_VICTIM} \subseteq 0 .. MemoryWords - 1
    /\ {REGION, RETENTION, TOPOLOGY} \subseteq Seq(0 .. MemoryWords - 1) \ {<<>>}
    /\ DOMAIN TOPOLOGY = DOMAIN Tags
    /\ ShmooTemps \in Seq(Int) /\ ShmooPeriods \in Seq(Nat)
    /\ \A opt \in Options :
          \/ opt.inject \in {NoInjection, BadSpec}
          \/ /\ opt.inject.type \in {"bitflip"} \cup StuckType
             /\ opt.inject.at \in 0 .. MemoryWords - 1

VARIABLES
    stage,      \* where main is
    opt,        \* the CliOptions: test_name and inject_spec
    status,     \* what main returns
    stream,     \* the log file is open
    log,        \* the lines of the log file, the header first
    left,       \* the scenarios run_selected has still to call, this one first
    script,     \* the script that runs
    line,       \* its next line
    found,      \* per scrub pass, the codewords scrub_report was called for
    match,      \* the matrix and the sweep agree with theory so far
    corr_before \* (for the properties) the corrections when the last test began

hvars == <<stage, opt, status, stream, log, left, script, line, found, match, corr_before>>

-----------------------------------------------------------------------------
(* Patterns and masks.                                                      *)

Repeated(positions) == {b \in DataBit : b % WORD_BITS \in positions}
CellMask(at_word, positions) == {WORD_BITS * WordAt(at_word) + p : p \in positions}

SMOKE_PATTERN == {b \in DataBit : b % 8 \in {0, 2, 5, 7}}
TOPO_PATTERN == {b \in DataBit : b % 8 \in {0, 1, 6, 7}}
REGION_PATTERN == {b \in DataBit : b % 2 = 1}
RETENTION_PATTERN == DataBit
RETENTION_HOLD_MS == 40

-----------------------------------------------------------------------------
(* The lines of a script.                                                   *)

Test(name, walk, pattern) ==
    [op |-> "test", name |-> name, walk |-> walk, pattern |-> pattern]
FillLoop(walk, pattern) == [op |-> "fill", walk |-> walk, pattern |-> pattern]
WriteWord(at_word, pattern) == [op |-> "write", at |-> at_word, pattern |-> pattern]
ReadWord(at_word) == [op |-> "read", at |-> at_word]
FlipBits(at_word, positions) ==
    [op |-> "flip", at |-> at_word, mask |-> CellMask(at_word, positions)]
AddTo(fault, bail) == [op |-> "fault", fault |-> fault, bail |-> bail]
ClearFaults == [op |-> "clear"]
ResetStats == [op |-> "reset"]
Odecc(on) == [op |-> "odecc", on |-> on]
Temperature(celsius) == [op |-> "temperature", celsius |-> celsius]
Refresh == [op |-> "refresh"]
Advance(ms) == [op |-> "advance", ms |-> ms]
ScrubRegion == [op |-> "scrub"]
Row(of) == [op |-> "row", of |-> of]
Agree(detects) == [op |-> "agree", detects |-> detects]
Require(that) == [op |-> "require", that |-> that]

OneFault(type, at_word, positions) ==
    [type |-> type, cw |-> CodewordOf(at_word), mask |-> CellMask(at_word, positions),
     victim_cw |-> 0, victim_mask |-> {}, retention_ns |-> 0]

inject_bit_flip32(at_word, positions) ==
    <<ReadWord(at_word), FlipBits(at_word, positions), ReadWord(at_word)>>
inject_stuck_at32(type, at_word, positions) ==
    <<ReadWord(at_word), AddTo(OneFault(type, at_word, positions), "fail"),
      ReadWord(at_word)>>

-----------------------------------------------------------------------------
(* The scenarios.                                                           *)

tc2_topology_pattern ==
    <<Test("topology", TOPOLOGY, TOPO_PATTERN), Row("test"), Require("passed")>>

tc3_basic_rw ==
    <<WriteWord(SMOKE_ADDR, SMOKE_PATTERN), ReadWord(SMOKE_ADDR), Row("smoke"),
      Require("smoke")>>

tc4_constant_pattern ==
    <<Test("constant", REGION, REGION_PATTERN), Row("test"), Require("passed")>>

tc5_odecc_escape ==
    <<ResetStats>> \o inject_bit_flip32(BITFLIP_ADDR, {0})
    \o <<Test("verify", REGION, REGION_PATTERN), Row("test"), Require("escaped")>>

\* Mutant: the cell is stuck at the value the pattern has there.
StuckUnseen ==
    <<ResetStats>> \o inject_stuck_at32("STUCK_AT_1", STUCK_ADDR, {1})
    \o <<Test("constant", REGION, REGION_PATTERN), Row("test"), Require("escaped")>>

tc6_stuck_escape ==
    <<ResetStats>> \o inject_stuck_at32("STUCK_AT_0", STUCK_ADDR, {1})
    \o <<Test("constant", REGION, REGION_PATTERN), Row("test"), Require("escaped")>>


tc7_scrub_screen ==
    inject_bit_flip32(SOFT_ADDR, {4})
    \o <<ScrubRegion, Row("scrub"), ScrubRegion, Row("scrub"), Require("screened")>>

CodewordWords(at_word) == [k \in 1 .. WordsPerCodeword |-> at_word + k - 1]

tc8_double_bit ==
    <<ClearFaults, Test("constant", REGION, REGION_PATTERN), Require("passed")>>
    \o inject_bit_flip32(MISCORRECT_ADDR, {0})
    \o inject_bit_flip32(MISCORRECT_ADDR, {1})
    \o <<ResetStats, Test("verify", CodewordWords(MISCORRECT_ADDR), REGION_PATTERN),
         Row("test"), Require("miscorrected")>>
    \o inject_bit_flip32(UNCORR_ADDR, {0})
    \o inject_bit_flip32(UNCORR_ADDR + WordsPerCodeword - 1, {WORD_BITS - 1})
    \o <<ResetStats, Test("verify", CodewordWords(UNCORR_ADDR), REGION_PATTERN),
         Row("test"), Require("uncorrectable")>>

tc9_march_c_minus == <<ResetStats, Test("march", REGION, {}), Row("test"), Require("passed")>>

\* The faults of the matrix, and which of the two tests detects them.
MatrixFaults ==
    <<[fault |-> OneFault("STUCK_AT_0", MATRIX_ADDR, {0}), constant |-> FALSE],
      [fault |-> OneFault("STUCK_AT_1", MATRIX_ADDR, {0}), constant |-> TRUE],
      [fault |-> OneFault("TRANSITION_UP", MATRIX_ADDR, {1}), constant |-> TRUE],
      [fault |-> OneFault("TRANSITION_DOWN", MATRIX_ADDR, {1}), constant |-> FALSE],
      [fault |-> [OneFault("COUPLING_INV", MATRIX_ADDR, {1}) EXCEPT
                     !.victim_cw = CodewordOf(MATRIX_VICTIM),
                     !.victim_mask = CellMask(MATRIX_VICTIM, {0})],
       constant |-> FALSE]>>

MatrixCell(fault, run, detects) ==
    <<ClearFaults, FillLoop(REGION, {}), AddTo(fault, "odecc_back"), run, Row("matrix"),
      Agree(detects)>>

tc10_coverage_matrix ==
    <<Odecc(FALSE)>>
    \o FlattenSeq([i \in DOMAIN MatrixFaults |->
          MatrixCell(MatrixFaults[i].fault, Test("constant", REGION, REGION_PATTERN),
                     MatrixFaults[i].constant)
          \o MatrixCell(MatrixFaults[i].fault, Test("march", REGION, {}), TRUE)])
    \o <<ClearFaults, Odecc(TRUE), Require("match")>>

WeakCell == [OneFault("RETENTION", RETENTION[1], {0}) EXCEPT !.retention_ns = RETENTION_HOLD_MS]

\* retention_case, and shmoo_point with its own read loop.
RetentionCase(celsius, ms, steps, refreshes, loses) ==
    <<Temperature(celsius), Refresh, FillLoop(RETENTION, RETENTION_PATTERN)>>
    \o FlattenSeq([s \in 1 .. steps |->
          IF refreshes THEN <<Advance(ms), Refresh>> ELSE <<Advance(ms)>>])
    \o <<Test("verify", RETENTION, RETENTION_PATTERN), Row("test"), Agree(loses)>>

\* Mutant: the memory is left as the last case had it.
RetentionNotRestored(cases) ==
    <<Odecc(FALSE), ClearFaults, AddTo(WeakCell, "odecc_back")>>
    \o FlattenSeq(cases)
    \o <<ClearFaults, Refresh, Odecc(TRUE), Require("match")>>

RetentionScript(cases) ==
    <<Odecc(FALSE), ClearFaults, AddTo(WeakCell, "odecc_back")>>
    \o FlattenSeq(cases)
    \o <<ClearFaults, Temperature(25), Refresh, Odecc(TRUE), Require("match")>>

tc11_retention_refresh ==
    RetentionScript(<<RetentionCase(25, 50, 1, FALSE, TRUE),
                      RetentionCase(25, 32, 3, TRUE, FALSE),
                      RetentionCase(95, 32, 1, TRUE, TRUE),
                      RetentionCase(95, 16, 4, TRUE, FALSE)>>)

shmoo_point(celsius, ms) ==
    RetentionCase(celsius, ms, 3, TRUE,
                  ms >= IF celsius > DRAM_REFRESH_HIGH_TEMP_C
                        THEN RETENTION_HOLD_MS \div 2 ELSE RETENTION_HOLD_MS)

run_cli_shmoo ==
    RetentionScript(FlattenSeq(
        [t \in DOMAIN ShmooTemps |->
            [p \in DOMAIN ShmooPeriods |-> shmoo_point(ShmooTemps[t], ShmooPeriods[p])]]))

run_cli_constant == <<ResetStats, Test("constant", REGION, REGION_PATTERN), Row("test")>>
run_cli_march == <<ResetStats, Test("march", REGION, {}), Row("test")>>

\* tc1 and addrmap only translate addresses; they touch nothing of the memory.
Scripts ==
    [tc1 |-> <<>>, tc2 |-> tc2_topology_pattern, tc3 |-> tc3_basic_rw,
     tc4 |-> tc4_constant_pattern, tc5 |-> tc5_odecc_escape, tc6 |-> tc6_stuck_escape,
     tc7 |-> tc7_scrub_screen, tc8 |-> tc8_double_bit, tc9 |-> tc9_march_c_minus,
     tc10 |-> tc10_coverage_matrix, tc11 |-> tc11_retention_refresh,
     constant |-> run_cli_constant, march |-> run_cli_march, shmoo |-> run_cli_shmoo,
     addrmap |-> <<>>,
     fail |-> <<Require("never")>>,
     odecc_back |-> <<Odecc(TRUE), Require("never")>>]

kTests == <<"tc1", "tc2", "tc3", "tc4", "tc5", "tc6", "tc7", "tc8", "tc9", "tc10", "tc11">>

\* What run_selected calls for a test name.
Selected(test_name) ==
    CASE test_name = "all" -> kTests
      [] test_name # "all" /\ test_name \in DOMAIN Scripts -> <<test_name>>
      [] OTHER -> <<"fail">>

-----------------------------------------------------------------------------
(* One line of the running script.                                          *)

program == <<stage, opt, status, stream, left>>

Lines == Scripts[script]
Here == Lines[line]
Do(op) == stage = "run" /\ todo = <<>> /\ line <= Len(Lines) /\ Here.op = op
NextLine == line' = line + 1 /\ UNCHANGED <<program, script>>

CallMemory ==
    /\ stage = "run" /\ todo = <<>> /\ line <= Len(Lines)
    /\ \/ Do("write") /\ dram_write32(CodewordOf(Here.at), WordAt(Here.at),
                                      Here.pattern \cap Bits(WordAt(Here.at)))
       \/ Do("read") /\ dram_read32(CodewordOf(Here.at))
       \/ Do("flip") /\ dram_inject_bit_flip(CodewordOf(Here.at), Here.mask)
       \/ Do("clear") /\ dram_clear_faults
       \/ Do("reset") /\ dram_reset_ecc_stats
       \/ Do("odecc") /\ dram_set_odecc_enabled(Here.on)
       \/ Do("temperature") /\ dram_set_temperature(Here.celsius)
       \/ Do("refresh") /\ dram_refresh
       \/ Do("advance") /\ dram_advance_time(Here.ms)
    /\ NextLine
    /\ UNCHANGED <<tvars, log, found, match, corr_before>>

AddFaultCall(f) ==
    \/ dram_add_stuck_fault(f)
    \/ dram_add_transition_fault(f)
    \/ dram_add_coupling_fault(f)
    \/ dram_add_retention_fault(f)

\* A full table sends the scenario to its failure path.
AddFaultLine ==
    /\ Do("fault")
    /\ IF Len(faults) < DRAM_MAX_FAULTS
       THEN AddFaultCall(Here.fault) /\ NextLine
       ELSE script' = Here.bail /\ line' = 1 /\ UNCHANGED <<vars, program>>
    /\ UNCHANGED <<tvars, log, found, match, corr_before>>

TestLine ==
    /\ \/ Do("test") /\ Start(Here.name, Here.walk, Here.pattern)
       \/ Do("fill") /\ Loop("fill", Here.walk, Here.pattern, <<Fill(Here.pattern)>>)
    /\ corr_before' = ecc_corr_count
    /\ NextLine
    /\ UNCHANGED <<log, found, match>>

TestAccess == stage = "run" /\ (ReadStep \/ WriteStep) /\ UNCHANGED hvars

RegionCodewords == CodewordOf(Head(REGION)) .. CodewordOf(Last(REGION))

\* scrub_report is called once for every codeword with an error.
ScrubLine ==
    /\ Do("scrub")
    /\ dram_scrub_range(CodewordOf(Head(REGION)), CodewordOf(Last(REGION)))
    /\ found' = Append(found, Found(RegionCodewords, "CORRECTED")
                              \cup Found(RegionCodewords, "UNCORRECTABLE"))
    /\ NextLine
    /\ UNCHANGED <<tvars, log, match, corr_before>>

SmokePassed ==
    dram_read32_value(CodewordOf(SMOKE_ADDR), WordAt(SMOKE_ADDR))
        = SMOKE_PATTERN \cap Bits(WordAt(SMOKE_ADDR))

Verdict(of) ==
    CASE of = "test" -> IF result.error_count = 0 THEN "PASS" ELSE "FAIL"
      [] of = "matrix" -> IF result.error_count > 0 THEN "DETECT" ELSE "MISS"
      [] of = "smoke" -> IF SmokePassed THEN "PASS" ELSE "FAIL"
      [] of = "scrub" -> "PASS"
Errors(of) ==
    CASE of = "smoke" -> 0
      [] of = "scrub" -> Cardinality(Last(found))
      [] OTHER -> result.error_count

\* (For the properties) the decoder hides an error of the words just tested.
Hiding(of) ==
    of = "test" /\ odecc_enabled
    /\ \E k \in DOMAIN test.walk :
          LET c == CodewordOf(test.walk[k]) IN Decoded(c).data # load_codeword(c)

\* Mutant: the row is written with the counters already cleared.
RowWithoutCounters ==
    /\ Do("row")
    /\ log' = Append(log, [fields |-> 13, result |-> Verdict(Here.of),
                           error_count |-> Errors(Here.of), ecc_corr |-> 0,
                           ecc_uncorr |-> 0, hiding |-> Hiding(Here.of)])
    /\ NextLine
    /\ UNCHANGED <<vars, tvars, found, match, corr_before>>

logger_row ==
    /\ Do("row")
    /\ log' = Append(log, [fields |-> 13, result |-> Verdict(Here.of),
                           error_count |-> Errors(Here.of), ecc_corr |-> ecc_corr_count,
                           ecc_uncorr |-> ecc_uncorr_count, hiding |-> Hiding(Here.of)])
    /\ NextLine
    /\ UNCHANGED <<vars, tvars, found, match, corr_before>>

AgreeLine ==
    /\ Do("agree")
    /\ match' = (match /\ (result.error_count > 0) = Here.detects)
    /\ NextLine
    /\ UNCHANGED <<vars, tvars, log, found, corr_before>>

Passed == result.error_count = 0
ConditionHolds(that) ==
    CASE that = "passed" -> Passed
      [] that = "smoke" -> SmokePassed
      [] that = "escaped" -> Passed /\ ecc_corr_count > 0
      [] that = "found_two" -> Cardinality(found[1]) = 2
      [] that = "screened" ->
            Cardinality(found[1]) = 2 /\ found[2] = {CodewordOf(STUCK_ADDR)}
      [] that = "miscorrected" ->
            /\ result.error_count = 1
            /\ result.first_actual =
                  SymDiff(REGION_PATTERN, Repeated({0, 1, 2})) \cap Bits(WordAt(MISCORRECT_ADDR))
            /\ ecc_corr_count > 0
      [] that = "uncorrectable" ->
            result.error_count = 2 /\ ecc_uncorr_count > 0 /\ ecc_corr_count = 0
      [] that = "match" -> match
      [] that = "never" -> FALSE

-----------------------------------------------------------------------------
(* The scenarios in turn, and main around them.                             *)

Call(scenarios) ==
    /\ left' = scenarios
    /\ script' = Head(scenarios) /\ line' = 1
    /\ found' = <<>> /\ match' = TRUE

\* A scenario returns; "all" stops at the first that fails.
Return(rc) ==
    /\ IF rc = 0 /\ Tail(left) # <<>>
       THEN Call(Tail(left)) /\ UNCHANGED <<stage, status>>
       ELSE /\ stage' = "free" /\ status' = IF rc = 0 THEN 0 ELSE 1
            /\ UNCHANGED <<left, script, line, found, match>>
    /\ UNCHANGED <<vars, tvars, opt, stream, log, corr_before>>

RequireLine ==
    /\ Do("require")
    /\ IF ConditionHolds(Here.that)
       THEN NextLine /\ UNCHANGED <<vars, tvars, log, found, match, corr_before>>
       ELSE Return(-1)

ScenarioReturns ==
    /\ stage = "run" /\ todo = <<>> /\ line > Len(Lines)
    /\ Return(0)

HostInit ==
    /\ stage = "log" /\ opt \in Options /\ status = 0
    /\ stream = FALSE /\ log = <<>>
    /\ left = <<>> /\ script = "fail" /\ line = 1
    /\ found = <<>> /\ match = TRUE /\ corr_before = 0

main_logger_open ==
    /\ stage = "log"
    /\ \/ /\ stage' = "init" /\ stream' = TRUE /\ log' = <<[fields |-> 13, result |-> "result"]>>
          /\ UNCHANGED status
       \/ stage' = "exited" /\ status' = 1 /\ UNCHANGED <<stream, log>>
    /\ UNCHANGED <<vars, tvars, opt, left, script, line, found, match, corr_before>>

main_dram_init ==
    /\ stage = "init"
    /\ dram_init
    /\ IF up' THEN stage' = "inject" /\ UNCHANGED status
              ELSE stage' = "close" /\ status' = 1
    /\ UNCHANGED <<tvars, opt, stream, log, left, script, line, found, match, corr_before>>

\* Mutant: a rejected injection leaves without dram_free.
InjectAborts ==
    /\ stage = "inject"
    /\ IF opt.inject = BadSpec
       THEN stage' = "close" /\ status' = 1 /\ UNCHANGED <<vars, left, script, line, found, match>>
       ELSE /\ stage' = "run" /\ UNCHANGED <<status, vars>>
            /\ Call(Selected(opt.test_name))
    /\ UNCHANGED <<tvars, opt, stream, log, corr_before>>

main_apply_inject ==
    /\ stage = "inject"
    /\ IF opt.inject = BadSpec
       THEN stage' = "free" /\ status' = 1 /\ UNCHANGED <<vars, left, script, line, found, match>>
       ELSE /\ stage' = "run" /\ UNCHANGED status
            /\ CASE opt.inject = NoInjection -> UNCHANGED vars
                 [] opt.inject.type = "bitflip" ->
                       dram_inject_bit_flip(CodewordOf(opt.inject.at),
                                            CellMask(opt.inject.at, opt.inject.positions))
                 [] opt.inject.type \in StuckType ->
                       dram_add_stuck_fault(OneFault(opt.inject.type, opt.inject.at,
                                                     opt.inject.positions))
            /\ Call(Selected(opt.test_name))
    /\ UNCHANGED <<tvars, opt, stream, log, corr_before>>

main_dram_free ==
    /\ stage = "free" /\ stage' = "close"
    /\ dram_free
    /\ UNCHANGED <<tvars, opt, status, stream, log, left, script, line, found, match, corr_before>>

main_logger_close ==
    /\ stage = "close" /\ stage' = "exited" /\ stream' = FALSE
    /\ UNCHANGED <<vars, tvars, opt, status, log, left, script, line, found, match, corr_before>>

HostNext ==
    \/ main_logger_open \/ main_dram_init \/ main_apply_inject
    \/ CallMemory \/ AddFaultLine \/ TestLine \/ TestAccess \/ ScrubLine
    \/ logger_row \/ AgreeLine \/ RequireLine \/ ScenarioReturns
    \/ main_dram_free \/ main_logger_close

-----------------------------------------------------------------------------
(* Properties.                                                              *)

Decides == stage = "run" /\ stage' = "free"
Clean == opt.inject = NoInjection

(***************************************************************************)
(* The scenarios agree with their own theory (kExpected, the 40 ms and     *)
(* 20 ms limits, the syndromes of tc8): without an injected fault "all",   *)
(* the sweep and the single modes exit with 0, and so does every scenario  *)
(* on a memory nobody used before, but for the two of EachRunsAlone.       *)
(***************************************************************************)
SuitePasses ==
    [][Decides /\ Clean
          /\ opt.test_name \in (ToSet(kTests) \ {"tc5", "tc7"})
                                \cup {"all", "shmoo", "constant", "march", "addrmap"}
       => status' = 0]_<<vars, tvars, hvars>>

(***************************************************************************)
(* What host/main.c says of its scenarios: each arranges, acts and asserts *)
(* within itself (lines 1 to 3), and any of them can be picked and run     *)
(* alone (line 1199, "--test tc7").  So one run alone, without an injected *)
(* fault, passes.                                                          *)
(***************************************************************************)
EachRunsAlone ==
    [][Decides /\ Clean /\ opt.test_name \in ToSet(kTests)
       => status' = 0]_<<vars, tvars, hvars>>

(***************************************************************************)
(* A scenario gives the memory back at its reference condition, whatever   *)
(* was injected and whether it passed or failed: ODECC on, 25 degrees,     *)
(* just refreshed, and no fault but the injected one and the one tc6       *)
(* leaves for tc7.                                                         *)
(***************************************************************************)
LeavesReference ==
    [][(left' # left /\ stage = "run") \/ Decides =>
          /\ odecc_enabled /\ temperature_c = 25 /\ ns_since_refresh = 0
          /\ \A i \in DOMAIN faults :
                faults[i].type \in StuckType /\ faults[i].retention_ns = 0
          /\ Len(faults) <= 2]_<<vars, tvars, hvars>>


(***************************************************************************)
(* The escape tc5 and tc6 report is one of the test: the read-back of the  *)
(* injection counts a correction as well, but a report is never based on   *)
(* that alone.                                                             *)
(***************************************************************************)
EscapeSeenByTest ==
    [][Do("require") /\ Here.that = "escaped" /\ line' = line + 1 =>
          ecc_corr_count > corr_before]_<<vars, tvars, hvars>>

(***************************************************************************)
(* Every way out of main, refused options and failed allocations included, *)
(* has released the memory and closed the log.                             *)
(***************************************************************************)
CleanExit == stage = "exited" => ~up /\ ~stream

==============================================================================
