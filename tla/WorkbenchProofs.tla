---------------------------- MODULE WorkbenchProofs ----------------------------
(***************************************************************************)
(* What the two programs promise about their way out, the memory they      *)
(* leave and the file they write, as far as the table of the viewer that   *)
(* reads it, proved for every memory, code, size of the real pages and     *)
(* behaviour of the firmware.                                              *)
(***************************************************************************)
EXTENDS Workbench, MemoryTestProofs, SequenceTheorems

IsSequence(s) == \E S : s \in Seq(S)

\* A run belongs to one program; the other stays where it started.
OneProgram ==
    /\ launched \in {"host", "boot"}
    /\ launched = "host" => boot = "dram_init" /\ ~saved
    /\ launched = "boot" => stage = "log"

-----------------------------------------------------------------------------
(* The host program.                                                        *)

\* The memory is up between main_dram_init and main_dram_free, the log open
\* between main_logger_open and main_logger_close.
HostInv ==
    launched = "host" =>
        /\ stage \in {"log", "init", "close", "exited"} => ~up
        /\ stage \in {"log", "exited"} => ~stream

\* Each stage of main has its step; only the scenarios run in "run".
LEMMA StageSteps ==
  ASSUME HostNext
  PROVE  /\ stage = "log" => main_logger_open
         /\ stage = "init" => main_dram_init
         /\ stage = "inject" => main_apply_inject
         /\ stage = "free" => main_dram_free
         /\ stage = "close" => main_logger_close
         /\ stage \notin {"log", "init", "inject", "free", "close"} => stage = "run"
BY DEF HostNext, main_logger_open, main_dram_init, main_apply_inject, main_dram_free,
       main_logger_close, CallMemory, AddFaultLine, TestLine, TestAccess, ScrubLine,
       logger_row, AgreeLine, RequireLine, ScenarioReturns, Do

\* Steps of the scenarios leave main where it is or send it to dram_free.
LEMMA ScenarioStages ==
  ASSUME HostNext, stage \notin {"log", "init", "inject", "free", "close"}
  PROVE  stage = "run" /\ stage' \in {"run", "free"}
<1>1. ~(main_logger_open \/ main_dram_init \/ main_apply_inject \/ main_dram_free
        \/ main_logger_close)
  BY DEF main_logger_open, main_dram_init, main_apply_inject, main_dram_free, main_logger_close
<1>2. CASE CallMemory \/ AddFaultLine \/ TestLine \/ ScrubLine \/ logger_row \/ AgreeLine
  BY <1>2 DEF CallMemory, AddFaultLine, TestLine, ScrubLine, logger_row, AgreeLine, Do,
              NextLine, program
<1>3. CASE TestAccess
  BY <1>3 DEF TestAccess, hvars
<1>4. ASSUME NEW rc, Return(rc), stage = "run" PROVE stage' \in {"run", "free"}
  BY <1>4 DEF Return
<1>5. CASE RequireLine
  BY <1>4, <1>5 DEF RequireLine, Do, NextLine, program
<1>6. CASE ScenarioReturns
  BY <1>4, <1>6 DEF ScenarioReturns
<1> QED BY <1>1, <1>2, <1>3, <1>5, <1>6 DEF HostNext

\* Every step of the host program keeps its invariant.
LEMMA HostInvStep ==
  ASSUME HostInv, launched = "host", launched' = launched, HostNext
  PROVE  HostInv'
<1>1. CASE stage = "log"
  <2>1. main_logger_open
    BY <1>1, StageSteps
  <2> QED BY <1>1, <2>1 DEF main_logger_open, HostInv, vars, cells
<1>2. CASE stage = "init"
  <2>1. main_dram_init
    BY <1>2, StageSteps
  <2>2. up' \in BOOLEAN
    BY <2>1 DEF main_dram_init, dram_init
  <2> QED BY <1>2, <2>1, <2>2 DEF main_dram_init, HostInv
<1>3. CASE stage = "inject"
  <2>1. main_apply_inject
    BY <1>3, StageSteps
  <2>2. stage' \in {"free", "run"}
    BY <2>1 DEF main_apply_inject
  <2> QED BY <2>2 DEF HostInv
<1>4. CASE stage = "free"
  <2>1. main_dram_free
    BY <1>4, StageSteps
  <2> QED BY <2>1 DEF main_dram_free, dram_free, HostInv
<1>5. CASE stage = "close"
  <2>1. main_logger_close
    BY <1>5, StageSteps
  <2> QED BY <1>5, <2>1 DEF main_logger_close, HostInv, vars, cells
<1>6. CASE stage \notin {"log", "init", "inject", "free", "close"}
  BY <1>6, ScenarioStages DEF HostInv
<1> QED BY <1>1, <1>2, <1>3, <1>4, <1>5, <1>6

(***************************************************************************)
(* main releases the memory and closes the log on every way out: after a   *)
(* log that does not open, an allocation that fails, an option that is     *)
(* refused, a scenario that fails at any of its lines and after success.   *)
(***************************************************************************)
THEOREM MainExitsClean == WorkbenchSpec => []CleanExit
<1>1. WorkbenchInit => OneProgram /\ HostInv
  BY DEF WorkbenchInit, TestInit, Init, HostInit, BootInit, OneProgram, HostInv
<1>2. OneProgram /\ HostInv /\ [WorkbenchNext]_all_vars => OneProgram' /\ HostInv'
  <2> SUFFICES ASSUME OneProgram, HostInv, [WorkbenchNext]_all_vars
               PROVE  OneProgram' /\ HostInv'
    OBVIOUS
  <2>1. CASE HostRuns
    BY <2>1, HostInvStep DEF HostRuns, OneProgram, bvars, HostInv
  <2>2. CASE BootRuns
    BY <2>2 DEF BootRuns, OneProgram, hvars, HostInv
  <2>3. CASE UNCHANGED <<vars, tvars, hvars, bvars, launched>>
    BY <2>3 DEF OneProgram, HostInv, vars, hvars, bvars
  <2> QED BY <2>1, <2>2, <2>3 DEF WorkbenchNext, ViewerLoads, ViewerFilters, Stays, all_vars
<1>3. OneProgram /\ HostInv => CleanExit
  BY DEF OneProgram, HostInv, CleanExit
<1> QED BY <1>1, <1>2, <1>3, PTL DEF WorkbenchSpec

-----------------------------------------------------------------------------
(* The boot-time program.                                                   *)

Demo == {"dram_init", "reset", "stuck", "test", "testing"}
MapCalls == {"map_size", "pool", "map", "free_map", "pages"}
PageLoops == {"write", "read", "free_pages"}
FileCalls == {"csv", "volume", "open", "write_file", "close_file", "close_root", "say"}
LastCalls == {"free", "key", "exited"}

\* What the program holds of the firmware's, by its next call.
HeldAt(place) ==
    CASE place \in {"map", "free_map"} -> {"pool"}
      [] place \in PageLoops -> {"pages"}
      [] place \in {"open", "close_root"} -> {"root"}
      [] place \in {"write_file", "close_file"} -> {"root", "file"}
      [] OTHER -> {}

\* The verdict on the real memory, by the loops over its words that are done.
PagesInv ==
    /\ boot \in Demo \cup MapCalls =>
          cells_set = 0 /\ checked = 0 /\ bad = 0 /\ defective = {}
    /\ boot = "write" =>
          /\ cells_set \in 0 .. RealWords - 1 /\ checked = 0 /\ bad = 0
          /\ defective \subseteq 1 .. cells_set
    /\ boot \in {"read", "free_pages"} =>
          /\ cells_set = RealWords /\ checked \in 0 .. RealWords
          /\ boot = "free_pages" => checked = RealWords
          /\ defective \subseteq 1 .. RealWords
          /\ bad \in Nat /\ (bad = 0 => defective \cap 1 .. checked = {})
    /\ boot \in Demo \cup MapCalls \cup PageLoops => ~mem_pass /\ ~saved
    /\ mem_pass => cells_set = RealWords /\ checked = RealWords /\ defective = {}
    /\ VerdictIsEarned

\* The file has no more lines than a run writes, an earlier run's included.
FileInv == IsSequence(boot_csv) /\ Len(boot_csv) \in 0 .. 3

BootInv ==
    launched = "boot" =>
        /\ boot \in Demo \cup MapCalls \cup PageLoops \cup FileCalls \cup LastCalls
        /\ boot \in {"dram_init", "key", "exited"} => ~up
        /\ held = HeldAt(boot)
        /\ PagesInv /\ FileInv

\* The steps on the virtual DRAM leave the firmware's things and the file alone.
LEMMA DemoStep ==
  ASSUME BootInv, launched = "boot", launched' = "boot",
         BootDramInit \/ sim_escape_demo \/ Finish
  PROVE  BootInv'
<1>1. UNCHANGED <<held, pages_vars, mem_pass, boot_csv, saved>>
  BY DEF BootDramInit, sim_escape_demo, Finish
<1>2. UNCHANGED <<held, cells_set, defective, checked, bad, mem_pass, boot_csv, saved>>
  BY <1>1 DEF pages_vars
<1>3. \/ boot = "dram_init" /\ (boot' = IF up' THEN "reset" ELSE "exited") /\ up' \in BOOLEAN
      \/ boot \in Demo /\ boot' \in (Demo \cup {"map_size"}) \ {"dram_init"}
      \/ boot = "say" /\ boot' = "free"
      \/ boot = "free" /\ boot' = "key" /\ ~up'
      \/ boot = "key" /\ boot' = "exited" /\ up' = up
  <2>1. CASE BootDramInit
    BY <2>1 DEF BootDramInit, dram_init
  <2>2. CASE sim_escape_demo
    BY <2>2 DEF sim_escape_demo, Goto, Demo
  <2>3. CASE Finish
    BY <2>3 DEF Finish, Goto, dram_free, vars
  <2> QED BY <2>1, <2>2, <2>3
<1>4. HeldAt(boot') = HeldAt(boot)
  BY <1>3 DEF HeldAt, Demo, PageLoops
<1>5. (FileInv /\ VerdictIsEarned)'
  BY <1>2, <1>3 DEF BootInv, FileInv, PagesInv, VerdictIsEarned
<1>6. PagesInv'
  BY <1>2, <1>3, <1>5 DEF BootInv, PagesInv, Demo, MapCalls, PageLoops
<1> QED BY <1>2, <1>3, <1>4, <1>5, <1>6
        DEF BootInv, Demo, MapCalls, FileCalls, LastCalls

\* Asking for the memory map holds its buffer until it is freed, on both ways.
LEMMA MapStep ==
  ASSUME BootInv, launched = "boot", launched' = "boot", MemoryMapCalls
  PROVE  BootInv'
<1>1. UNCHANGED <<up, cells_set, defective, checked, bad, mem_pass, boot_csv, saved>>
  BY DEF MemoryMapCalls, vars, pages_vars
<1>2. held = HeldAt(boot) /\ FileInv /\ PagesInv
  BY DEF BootInv
<1>3. \/ boot = "map_size" /\ boot' = "pool" /\ held' = held
      \/ boot = "pool" /\ boot' = "map" /\ held' = held \cup {"pool"}
      \/ boot \in {"pool", "pages"} /\ boot' = "csv" /\ held' = held
      \/ boot = "map" /\ boot' = "free_map" /\ held' = held
      \/ boot = "map" /\ boot' = "csv" /\ held' = held \ {"pool"}
      \/ boot = "free_map" /\ boot' = "pages" /\ held' = held \ {"pool"}
      \/ boot = "pages" /\ boot' = "write" /\ held' = held \cup {"pages"}
  BY DEF MemoryMapCalls, GetMapSize, AllocateMap, GetMap, FreeMap, AllocatePages, Goto
<1>4. held' = HeldAt(boot')
  BY <1>2, <1>3 DEF HeldAt, PageLoops
<1>5. FileInv'
  BY <1>1, <1>2 DEF FileInv
<1>6. PagesInv'
  <2>1. VerdictIsEarned'
    BY <1>1, <1>2 DEF PagesInv, VerdictIsEarned
  <2>2. RealWords - 1 \in Nat
    BY BootAssumption
  <2> QED BY <1>1, <1>2, <1>3, <2>1, <2>2 DEF PagesInv, Demo, MapCalls, PageLoops
<1> QED BY <1>3, <1>4, <1>5, <1>6 DEF BootInv, MapCalls, PageLoops, FileCalls

\* The loops over the real words: a defective word they have read counts.
LEMMA PagesStep ==
  ASSUME BootInv, launched = "boot", launched' = "boot", TestPages
  PROVE  BootInv'
<1>1. UNCHANGED <<up, boot_csv, saved>>
  BY DEF TestPages, vars
<1>2. held = HeldAt(boot) /\ FileInv /\ PagesInv /\ RealWords \in Nat \ {0}
  BY BootAssumption DEF BootInv
<1>3. \/ boot \in {"write", "read"} /\ boot' \in PageLoops /\ held' = held
      \/ boot = "free_pages" /\ boot' = "csv" /\ held' = held \ {"pages"}
  BY DEF TestPages, WriteCell, ReadCell, Goto, PageLoops
<1>4. held' = HeldAt(boot')
  BY <1>2, <1>3 DEF HeldAt, PageLoops
<1>5. FileInv'
  BY <1>1, <1>2 DEF FileInv
<1>6. VerdictIsEarned'
  <2>1. ~saved'
    BY <1>1, <1>2, <1>3 DEF PagesInv, PageLoops
  <2> QED BY <2>1 DEF VerdictIsEarned
<1>7. PagesInv'
  <2>1. boot \in PageLoops /\ ~mem_pass /\ ~saved
    BY <1>2, <1>3 DEF PagesInv, PageLoops
  <2>2. CASE WriteCell
    <3>1. /\ boot = "write" /\ cells_set' = cells_set + 1 /\ checked' = checked /\ bad' = bad
          /\ boot' = IF cells_set' = RealWords THEN "read" ELSE "write"
          /\ defective' \in {defective, defective \cup {cells_set'}}
          /\ mem_pass' = mem_pass
      BY <2>2 DEF WriteCell, TestPages, Goto
    <3>2. /\ cells_set \in 0 .. RealWords - 1 /\ checked = 0 /\ bad = 0
          /\ defective \subseteq 1 .. cells_set
      BY <1>2, <3>1 DEF PagesInv
    <3>3. defective' \subseteq 1 .. cells_set' /\ cells_set' \in 1 .. RealWords
      BY <1>2, <3>1, <3>2
    <3>4. cells_set' = RealWords \/ cells_set' \in 0 .. RealWords - 1
      BY <1>2, <3>3
    <3>5. defective' \cap 1 .. checked' = {}
      BY <3>1, <3>2
    <3> QED BY <1>1, <1>2, <1>6, <2>1, <3>1, <3>2, <3>3, <3>4, <3>5
            DEF PagesInv, Demo, MapCalls, PageLoops
  <2>3. CASE ReadCell
    <3>1. /\ boot = "read" /\ checked < RealWords /\ checked' = checked + 1
          /\ bad' = bad + (IF checked' \in defective THEN 1 ELSE 0)
          /\ boot' = IF checked' = RealWords THEN "free_pages" ELSE "read"
          /\ cells_set' = cells_set /\ defective' = defective /\ mem_pass' = mem_pass
      BY <2>3 DEF ReadCell, TestPages, Goto
    <3>2. /\ cells_set = RealWords /\ checked \in 0 .. RealWords
          /\ defective \subseteq 1 .. RealWords
          /\ bad \in Nat /\ (bad = 0 => defective \cap 1 .. checked = {})
      BY <1>2, <3>1 DEF PagesInv
    <3>3. bad' \in Nat /\ checked' \in 0 .. RealWords
      BY <1>2, <3>1, <3>2
    <3>4. ASSUME bad' = 0 PROVE defective \cap 1 .. checked' = {}
      <4>1. bad = 0 /\ checked' \notin defective
        BY <3>1, <3>2, <3>4
      <4>2. 1 .. checked' = 1 .. checked \cup {checked'}
        BY <3>1, <3>2
      <4> QED BY <3>2, <4>1, <4>2
    <3> QED BY <1>1, <1>6, <2>1, <3>1, <3>2, <3>3, <3>4 DEF PagesInv, Demo, MapCalls, PageLoops
  <2>4. CASE Goto("free_pages", "csv") /\ mem_pass' = (bad = 0) /\ UNCHANGED pages_vars
    <3>1. /\ cells_set = RealWords /\ checked = RealWords
          /\ defective \subseteq 1 .. RealWords
          /\ bad = 0 => defective \cap 1 .. checked = {}
      BY <1>2, <2>4 DEF PagesInv, Goto
    <3>2. bad = 0 => defective = {}
      BY <3>1
    <3> QED BY <1>1, <1>6, <2>1, <2>4, <3>1, <3>2
            DEF PagesInv, Goto, pages_vars, Demo, MapCalls, PageLoops
  <2> QED BY <2>2, <2>3, <2>4 DEF TestPages
<1> QED BY <1>3, <1>4, <1>5, <1>7 DEF BootInv, PageLoops, FileCalls

\* The first lines of a three-line text are written over the start of a file of
\* at most three lines, and what comes of it.
WritesOver(text, new, old, lines) ==
  /\ IsSequence(new) /\ Len(new) = 3 /\ IsSequence(old) /\ Len(old) \in 0 .. 3
  /\ lines \in 0 .. 3
  /\ text = SubSeq(new, 1, lines) \o SubSeq(old, lines + 1, Len(old))

IsWritten(text, new, lines) ==
  /\ IsSequence(text) /\ Len(text) \in 0 .. 3
  /\ lines = 3 => Len(text) = 3 /\ text[3] = new[3]

\* The file stays short, and a text written to its end brings its last line.
LEMMA WrittenOver ==
  ASSUME NEW text, NEW new, NEW old, NEW lines, WritesOver(text, new, old, lines)
  PROVE  IsWritten(text, new, lines)
<1>0. /\ IsSequence(new) /\ Len(new) = 3 /\ IsSequence(old) /\ Len(old) \in 0 .. 3
      /\ lines \in 0 .. 3
      /\ text = SubSeq(new, 1, lines) \o SubSeq(old, lines + 1, Len(old))
  BY DEF WritesOver
<1>1. PICK S : new \in Seq(S)
  BY <1>0 DEF IsSequence
<1>2. PICK T : old \in Seq(T)
  BY <1>0 DEF IsSequence
<1> DEFINE all == S \cup T
           first == SubSeq(new, 1, lines)
           rest == SubSeq(old, lines + 1, Len(old))
<1>3. (\A k \in 1 .. lines : new[k] \in all) /\ (\A k \in lines + 1 .. Len(old) : old[k] \in all)
  <2>1. \A k \in 1 .. lines : k \in 1 .. Len(new)
    BY <1>0
  <2>2. \A k \in lines + 1 .. Len(old) : k \in 1 .. Len(old)
    BY <1>0
  <2> QED BY <1>1, <1>2, <2>1, <2>2, ElementOfSeq
<1>4. lines \in Int /\ lines + 1 \in Int /\ Len(old) \in Int
  BY <1>0
<1> HIDE DEF all
<1>5. /\ first \in Seq(all) /\ Len(first) = lines
      /\ \A k \in 1 .. lines : first[k] = new[k]
  BY <1>0, <1>3, <1>4, SubSeqProperties
<1>6. rest \in Seq(all) /\ Len(rest) = IF lines + 1 <= Len(old) THEN Len(old) - lines ELSE 0
  BY <1>0, <1>3, <1>4, SubSeqProperties
<1>7. text = first \o rest
  BY <1>0
<1> HIDE DEF first, rest
<1>8. /\ text \in Seq(all) /\ Len(text) = Len(first) + Len(rest)
      /\ \A k \in 1 .. Len(first) : text[k] = first[k]
  <2>1. Len(first) \in Nat /\ Len(rest) \in Nat
    BY <1>5, <1>6
  <2>2. \A k \in 1 .. Len(first) : k \in 1 .. Len(first) + Len(rest) /\ k <= Len(first)
    BY <2>1
  <2>3. /\ first \o rest \in Seq(all) /\ Len(first \o rest) = Len(first) + Len(rest)
        /\ \A k \in 1 .. Len(first) + Len(rest) :
              (first \o rest)[k] = IF k <= Len(first) THEN first[k] ELSE rest[k - Len(first)]
    BY <1>5, <1>6, ConcatProperties
  <2> QED BY <1>7, <2>2, <2>3
<1>9. Len(text) \in 0 .. 3 /\ (lines = 3 => Len(text) = 3)
  <2>1. \A n, m \in 0 .. 3 : LET rest_of == IF m + 1 <= n THEN n - m ELSE 0
                             IN  m + rest_of \in 0 .. 3 /\ (m = 3 => m + rest_of = 3)
    OBVIOUS
  <2>2. PICK n \in 0 .. 3 : n = Len(old)
    BY <1>0
  <2>3. Len(text) = lines + (IF lines + 1 <= n THEN n - lines ELSE 0)
    BY <1>5, <1>6, <1>8, <2>2
  <2> QED BY <1>0, <2>1, <2>3
<1>10. lines = 3 => text[3] = new[3]
  BY <1>5, <1>8
<1> QED BY <1>8, <1>9, <1>10 DEF IsSequence, IsWritten

\* What an earlier boot left is a part of a run's three lines.
LEMMA OlderFilesAreShort ==
  ASSUME NEW file \in OlderFiles
  PROVE  IsSequence(file) /\ Len(file) \in 0 .. 3
<1> DEFINE full(verdict) ==
      <<HeaderLine, CsvLine("PASS", WordsPerCodeword), CsvLine(verdict, 0)>>
<1>1. PICK verdict \in {"PASS", "FAIL"}, lines \in 0 .. 3 :
         file = SubSeq(full(verdict), 1, lines)
  BY DEF OlderFiles
<1> DEFINE all == {full(verdict)[1], full(verdict)[2], full(verdict)[3]}
<1>2. \A k \in 1 .. lines : full(verdict)[k] \in all
  OBVIOUS
<1>3. 1 \in Int /\ lines \in Int
  OBVIOUS
<1> HIDE DEF all, full
<1>4. file \in Seq(all) /\ Len(file) = IF 1 <= lines THEN lines - 1 + 1 ELSE 0
  BY <1>1, <1>2, <1>3, SubSeqProperties
<1> QED BY <1>4 DEF IsSequence

\* save_csv closes what it opened, and writes the verdict as it is.
LEMMA FileStep ==
  ASSUME BootInv, launched = "boot", launched' = "boot", save_csv
  PROVE  BootInv'
<1>1. UNCHANGED <<up, cells_set, defective, checked, bad, mem_pass>>
  BY DEF save_csv, vars, pages_vars
<1>2. held = HeldAt(boot) /\ FileInv /\ PagesInv
  BY DEF BootInv
<1>3. \/ boot = "csv" /\ boot' \in {"volume", "say"} /\ held' = held
      \/ boot = "volume" /\ boot' = "open" /\ held' = held \cup {"root"}
      \/ boot = "volume" /\ boot' = "say" /\ held' = held
      \/ boot = "open" /\ boot' = "write_file" /\ held' = held \cup {"file"}
      \/ boot = "open" /\ boot' = "say" /\ held' = held \ {"root"}
      \/ boot = "write_file" /\ boot' = "close_file" /\ held' = held
      \/ boot = "close_file" /\ boot' = "close_root" /\ held' = held \ {"file"}
      \/ boot = "close_root" /\ boot' = "say" /\ held' = held \ {"root"}
  BY DEF save_csv, LookUp, OpenFile, WriteFile, CloseFiles, Goto
<1>4. held' = HeldAt(boot')
  BY <1>2, <1>3 DEF HeldAt, PageLoops
<1>5. FileInv' /\ VerdictIsEarned'
  <2>1. CASE boot_csv' = boot_csv /\ saved' = saved
    BY <1>1, <1>2, <2>1 DEF PagesInv, FileInv, VerdictIsEarned
  <2>2. CASE WriteFile
    <3>1. PICK lines \in 0 .. Len(Results) :
             /\ boot_csv' = SubSeq(Results, 1, lines)
                            \o SubSeq(boot_csv, lines + 1, Len(boot_csv))
             /\ saved' = (lines = Len(Results))
      BY <2>2 DEF WriteFile
    <3>2. Len(Results) = 3 /\ Results[3] = CsvLine(IF mem_pass THEN "PASS" ELSE "FAIL", 0)
      BY DEF Results
    <3>3. IsSequence(Results)
      <4>1. Results \in Seq({Results[1], Results[2], Results[3]})
        BY DEF Results
      <4> QED BY <4>1 DEF IsSequence
    <3>4. /\ IsSequence(boot_csv') /\ Len(boot_csv') \in 0 .. 3
          /\ lines = 3 => Len(boot_csv') = 3 /\ boot_csv'[3] = Results[3]
      <4>1. lines \in 0 .. 3 /\ IsSequence(boot_csv) /\ Len(boot_csv) \in 0 .. 3
        BY <1>2, <3>2 DEF FileInv
      <4>2. PICK new, old, text : new = Results /\ old = boot_csv /\ text = boot_csv'
        OBVIOUS
      <4>3. WritesOver(text, new, old, lines)
        BY <3>1, <3>2, <3>3, <4>1, <4>2 DEF WritesOver
      <4>4. IsWritten(text, new, lines)
        BY <4>3, WrittenOver
      <4> QED BY <4>2, <4>4 DEF IsWritten
    <3>5. FileInv'
      BY <3>4 DEF FileInv, IsSequence
    <3>6. VerdictIsEarned'
      <4>1. saved' => lines = 3
        BY <3>1, <3>2
      <4>2. Results[3].result = IF mem_pass THEN "PASS" ELSE "FAIL"
        BY <3>2 DEF CsvLine
      <4> QED BY <1>1, <1>2, <3>4, <4>1, <4>2 DEF PagesInv, VerdictIsEarned
    <3> QED BY <3>5, <3>6
  <2> QED BY <2>1, <2>2 DEF save_csv, LookUp, OpenFile, CloseFiles
<1>7. PagesInv'
  BY <1>1, <1>2, <1>3, <1>5 DEF PagesInv, Demo, MapCalls, PageLoops
<1> QED BY <1>3, <1>4, <1>5, <1>7 DEF BootInv, FileCalls

\* Both programs keep what is known of the boot-time one.
LEMMA BootInvariant == WorkbenchSpec => [](OneProgram /\ BootInv)
<1>1. WorkbenchInit => OneProgram /\ BootInv
  <2> SUFFICES ASSUME WorkbenchInit PROVE OneProgram /\ BootInv
    OBVIOUS
  <2>1. /\ boot = "dram_init" /\ held = {}
        /\ cells_set = 0 /\ defective = {} /\ checked = 0 /\ bad = 0
        /\ mem_pass = FALSE /\ boot_csv \in OlderFiles /\ saved = FALSE /\ ~up /\ stage = "log"
        /\ launched \in {"host", "boot"}
    BY DEF WorkbenchInit, BootInit, HostInit, TestInit, Init
  <2>2. FileInv
    BY <2>1, OlderFilesAreShort DEF FileInv
  <2>3. PagesInv
    BY <2>1 DEF PagesInv, VerdictIsEarned, Demo
  <2>4. held = HeldAt(boot)
    BY <2>1 DEF HeldAt, PageLoops
  <2> QED BY <2>1, <2>2, <2>3, <2>4 DEF OneProgram, BootInv, Demo
<1>2. OneProgram /\ BootInv /\ [WorkbenchNext]_all_vars => OneProgram' /\ BootInv'
  <2> SUFFICES ASSUME OneProgram, BootInv, [WorkbenchNext]_all_vars
               PROVE  OneProgram' /\ BootInv'
    OBVIOUS
  <2>1. CASE HostRuns
    BY <2>1 DEF HostRuns, OneProgram, BootInv, bvars
  <2>2. CASE BootRuns
    <3>1. launched = "boot" /\ launched' = "boot" /\ BootNext /\ OneProgram'
      BY <2>2 DEF BootRuns, OneProgram, hvars
    <3> QED BY <3>1, DemoStep, MapStep, PagesStep, FileStep DEF BootNext
  <2>3. CASE UNCHANGED <<vars, tvars, hvars, bvars, launched>>
    <3>1. /\ UNCHANGED <<launched, boot, stage, up, held>>
          /\ UNCHANGED <<cells_set, defective, checked, bad, mem_pass, boot_csv, saved>>
      BY <2>3 DEF vars, hvars, bvars, pages_vars
    <3>2. OneProgram' /\ FileInv' = FileInv /\ HeldAt(boot') = HeldAt(boot)
      BY <3>1 DEF OneProgram, FileInv
    <3>3. PagesInv' = PagesInv
      BY <3>1 DEF PagesInv, VerdictIsEarned
    <3> QED BY <3>1, <3>2, <3>3 DEF BootInv
  <2> QED BY <2>1, <2>2, <2>3 DEF WorkbenchNext, ViewerLoads, ViewerFilters, Stays, all_vars
<1> QED BY <1>1, <1>2, PTL DEF WorkbenchSpec

(***************************************************************************)
(* UefiMain returns its pool, its pages, its open files and the virtual    *)
(* DRAM, whichever of the firmware's calls fails.                          *)
(***************************************************************************)
THEOREM BootReturnsAll == WorkbenchSpec => []NothingLeftHeld
<1>1. OneProgram /\ BootInv => NothingLeftHeld
  BY DEF OneProgram, BootInv, NothingLeftHeld, HeldAt, PageLoops
<1> QED BY <1>1, BootInvariant, PTL

(***************************************************************************)
(* The PASS in a completely written dram_boot_results.csv was earned by a  *)
(* write and a read of every real word, for every number of words, every   *)
(* set of defects and whatever an earlier boot left of the file.           *)
(***************************************************************************)
THEOREM PassIsEarned == WorkbenchSpec => []VerdictIsEarned
<1>1. OneProgram /\ BootInv => VerdictIsEarned
  BY DEF OneProgram, BootInv, PagesInv, VerdictIsEarned
<1> QED BY <1>1, BootInvariant, PTL

-----------------------------------------------------------------------------
(* The escape of the boot-time program.                                     *)

STUCK == DEMO_STUCK_FAULT.cw

\* The parity of every codeword is that of its cells; one cell may be stuck.
Sealed == \A c \in Codeword : parity[c] = calc_parity(data[c])
OneStuck == odecc_enabled /\ faults = <<DEMO_STUCK_FAULT>> /\ Sealed

\* The stuck cell is one data cell, and the pattern sets it.
LEMMA StuckCell ==
  /\ STUCK \in Codeword /\ STUCK = CodewordOf(DEMO_STUCK_ADDR)
  /\ WordAt(DEMO_STUCK_ADDR) \in Word
  /\ \E b \in DEMO_PATTERN : b \in Bits(WordAt(DEMO_STUCK_ADDR)) /\ DEMO_STUCK_FAULT.mask = {b}
<1> DEFINE m == Min(Bits(WordAt(DEMO_STUCK_ADDR)))
<1>1. DEMO_STUCK_FAULT.mask = {m + 1} /\ STUCK = CodewordOf(DEMO_STUCK_ADDR)
  BY DEF DEMO_STUCK_FAULT, STUCK
<1>2. m \in Nat /\ m % 2 = 0 /\ {m + 1} \subseteq Bits(WordAt(DEMO_STUCK_ADDR))
  BY <1>1, BootAssumption
<1> HIDE DEF m
<1>3. (m + 1) % 2 = 1
  BY <1>2
<1>4. m + 1 \in DEMO_PATTERN
  BY <1>2, <1>3 DEF DEMO_PATTERN, Bits
<1>5. CodewordOf(DEMO_STUCK_ADDR) \in Codeword /\ WordAt(DEMO_STUCK_ADDR) \in Word
  BY BootAssumption, LocationSplits DEF Location
<1> QED BY <1>1, <1>2, <1>4, <1>5

\* Loading finds the one stuck cell at 0.
LEMMA OneStuckLoads ==
  ASSUME OneStuck, NEW c
  PROVE  /\ StuckBits(c) = IF c = STUCK THEN DEMO_STUCK_FAULT.mask ELSE {}
         /\ ForcedTo1(c) = {}
<1>1. /\ DOMAIN faults = {1} /\ faults[1] = DEMO_STUCK_FAULT
      /\ DEMO_STUCK_FAULT.type = "STUCK_AT_0"
  BY DEF OneStuck, DEMO_STUCK_FAULT
<1>2. StuckFaults(c) = IF c = STUCK THEN {1} ELSE {}
  BY <1>1 DEF StuckFaults, StuckType, STUCK
<1> QED BY <1>1, <1>2 DEF StuckBits, ForcedTo1

\* The decoder gives back what was stored; it corrects the stuck cell when that
\* should be 1 and has nothing to do otherwise.
LEMMA OneStuckDecodes ==
  ASSUME TypeOK, OneStuck, NEW c \in Codeword
  PROVE  /\ View(c) = data[c]
         /\ Decoded(c).rc = IF c = STUCK /\ DEMO_STUCK_FAULT.mask \subseteq data[c]
                            THEN "CORRECTED" ELSE "OK"
<1> DEFINE D == data[c]
<1>1. PICK b \in DEMO_PATTERN : DEMO_STUCK_FAULT.mask = {b}
  BY StuckCell
<1>2. b \in DataBit /\ D \in Data
  BY <1>1 DEF DEMO_PATTERN, TypeOK
<1>3. Decoded(c) = odecc_decode(load_codeword(c), calc_parity(D))
  BY DEF Decoded, OneStuck, Sealed
<1>4. load_codeword(c) = IF c = STUCK THEN D \ {b} ELSE D
  BY <1>1, <1>2, OneStuckLoads DEF load_codeword, apply_stuck_faults_codeword
<1>5. View(c) = Decoded(c).data
  BY DEF View, OneStuck
<1> HIDE DEF D
<1>6. CASE c = STUCK /\ b \in D
  <2>1. load_codeword(c) = SymDiff(D, {b})
    BY <1>4, <1>6 DEF SymDiff
  <2>2. Decoded(c).rc = "CORRECTED" /\ Decoded(c).data = D
    BY <1>2, <1>3, <2>1, SingleDataError
  <2> QED BY <1>1, <1>5, <1>6, <2>2 DEF D
<1>7. CASE ~(c = STUCK /\ b \in D)
  <2>1. load_codeword(c) = D
    BY <1>4, <1>7
  <2>2. Decoded(c).rc = "OK" /\ Decoded(c).data = D
    BY <1>2, <1>3, <2>1, CleanDecode
  <2> QED BY <1>1, <1>5, <1>7, <2>2 DEF D
<1> QED BY <1>6, <1>7

\* So the fault never shows.
LEMMA OneStuckIsHarmless ==
  ASSUME OneStuck
  PROVE  Harmless
<1>1. /\ DOMAIN faults = {1} /\ faults[1] = DEMO_STUCK_FAULT
      /\ DEMO_STUCK_FAULT.type = "STUCK_AT_0"
  BY DEF OneStuck, DEMO_STUCK_FAULT
<1>2. PICK b \in DataBit : DEMO_STUCK_FAULT.mask = {b}
  BY StuckCell DEF DEMO_PATTERN
<1>3. \A c : StuckBits(c) = {} \/ StuckBits(c) = {b}
  BY <1>2, OneStuckLoads
<1>4. \A c : VictimBits(c) = {}
  BY <1>1 DEF VictimBits
<1>5. \A c : WritesAreFaithful(c)
  BY <1>1, <1>2, <1>3 DEF WritesAreFaithful, StuckType, OneStuck
<1> QED BY <1>4, <1>5 DEF Harmless

\* The turns of the test, up to the n-th, at the words of the stuck codeword.
StuckTurns(n) == {k \in 1 .. n : CodewordOf(DEMO_REGION[k]) = STUCK}

\* One more turn, one more word when it is of that codeword.
LEMMA StuckTurnsGrow ==
  ASSUME NEW n \in Nat
  PROVE  /\ Cardinality(StuckTurns(n)) \in Nat
         /\ Cardinality(StuckTurns(n + 1)) = Cardinality(StuckTurns(n))
                + (IF CodewordOf(DEMO_REGION[n + 1]) = STUCK THEN 1 ELSE 0)
<1>1. IsFiniteSet(StuckTurns(n)) /\ Cardinality(StuckTurns(n)) \in Nat
  <2>1. IsFiniteSet(1 .. n) /\ StuckTurns(n) \in SUBSET (1 .. n)
    BY FS_Interval DEF StuckTurns
  <2> QED BY <2>1, FS_Subset, FS_CardinalityType
<1>2. n + 1 \notin StuckTurns(n)
  BY DEF StuckTurns
<1>3. CASE CodewordOf(DEMO_REGION[n + 1]) = STUCK
  <2>1. StuckTurns(n + 1) = StuckTurns(n) \cup {n + 1}
    BY <1>3 DEF StuckTurns
  <2> QED BY <1>1, <1>2, <1>3, <2>1, FS_AddElement
<1>4. CASE CodewordOf(DEMO_REGION[n + 1]) # STUCK
  <2>1. StuckTurns(n + 1) = StuckTurns(n)
    BY <1>4 DEF StuckTurns
  <2> QED BY <1>1, <1>4, <2>1
<1> QED BY <1>3, <1>4

\* In all there are as many as a codeword has words.
LEMMA AllStuckTurns == Cardinality(StuckTurns(Len(DEMO_REGION))) = WordsPerCodeword
<1> DEFINE T == StuckTurns(Len(DEMO_REGION))
<1> DEFINE f == [k \in T |-> WordAt(DEMO_REGION[k])]
<1>1. DEMO_REGION \in Seq(Location) /\ DOMAIN DEMO_REGION = 1 .. Len(DEMO_REGION)
  BY BootAssumption DEF Location
<1>2. \A k \in T : /\ k \in DOMAIN DEMO_REGION /\ DEMO_REGION[k] \in Location
                   /\ CodewordOf(DEMO_REGION[k]) = STUCK
  BY <1>1 DEF StuckTurns
<1>3. \A w \in Word : \E k \in T : WordAt(DEMO_REGION[k]) = w
  BY <1>1, BootAssumption, StuckCell DEF StuckTurns
<1> HIDE DEF T
<1>4. f \in [T -> Word]
  BY <1>2, LocationSplits
<1>5. \A j, k \in T : f[j] = f[k] => j = k
  <2> SUFFICES ASSUME NEW j \in T, NEW k \in T, f[j] = f[k] PROVE j = k
    OBVIOUS
  <2>1. DEMO_REGION[j] = DEMO_REGION[k]
    BY <1>2, LocationJoins
  <2> QED BY <1>2, <2>1, BootAssumption
<1>6. ExistsBijection(T, Word)
  <2>1. \A w \in Word : \E k \in T : f[k] = w
    BY <1>3
  <2> HIDE DEF f
  <2>2. f \in Bijection(T, Word)
    BY <1>4, <1>5, <2>1 DEF Bijection, Injection, Surjection, IsInjective
  <2> QED BY <2>2 DEF ExistsBijection
<1>7. IsFiniteSet(T)
  <2>1. IsFiniteSet(1 .. Len(DEMO_REGION)) /\ T \in SUBSET (1 .. Len(DEMO_REGION))
    BY <1>1, FS_Interval DEF T, StuckTurns
  <2> QED BY <2>1, FS_Subset
<1>8. Cardinality(T) = Cardinality(Word)
  BY <1>6, <1>7, FS_Bijection
<1> QED BY <1>8 DEF T, WordsPerCodeword

\* The test of the demonstration, the words it has read back, and what is known
\* of it after each access.
DemoTest == [name |-> "constant", walk |-> DEMO_REGION, pattern |-> DEMO_PATTERN]
WordsRead == IF todo = <<>> THEN Len(DEMO_REGION) ELSE IF Element.check_read THEN at ELSE 0

Testing ==
    /\ OneStuck /\ test = DemoTest /\ QuietInv
    /\ ecc_corr_count = Cardinality(StuckTurns(WordsRead)) /\ ecc_uncorr_count = 0
    /\ todo = <<>> => result.error_count = 0

\* The constant test has two elements, both ascending.
LEMMA ConstantElements ==
  ASSUME LoopInv, todo # <<>>, test.name = "constant"
  PROVE  /\ Len(AllElements) = 2 /\ Turn = at + 1 /\ at \in Nat
         /\ \/ Stage = 1 /\ Element = Fill(test.pattern)
            \/ Stage = 2 /\ Element = Check(test.pattern)
<1>1. AllElements = <<Fill(test.pattern), Check(test.pattern)>>
  BY DEF AllElements, Elements
<1>2. /\ Stage \in 1 .. Len(AllElements) /\ at \in Nat /\ Element = AllElements[Stage]
      /\ Turn = IF Element.descending THEN Len(test.walk) - at ELSE at + 1
  BY LoopFacts DEF LoopInv, Running
<1>3. /\ Len(AllElements) = 2 /\ (Stage = 1 \/ Stage = 2)
      /\ AllElements[1] = Fill(test.pattern) /\ AllElements[2] = Check(test.pattern)
  BY <1>1, <1>2
<1>4. ~Element.descending
  BY <1>2, <1>3 DEF Fill, Check, Up
<1> QED BY <1>2, <1>3, <1>4

\* Filling the region leaves every codeword with the parity of its cells.
LEMMA DemoWrite ==
  ASSUME LoopInv, Testing, WriteStep
  PROVE  Testing'
<1>1. PICK c \in Codeword, w \in Word, value \in SUBSET DataBit :
          /\ value \in SUBSET Bits(w) /\ dram_write32(c, w, value)
          /\ UNCHANGED <<test, faults, odecc_enabled, result>> /\ todo # <<>> /\ NextWord
  BY WriteFacts
<1>2. UNCHANGED <<ecc_corr_count, ecc_uncorr_count>>
  BY <1>1 DEF dram_write32, ecc_stats
<1>3. Harmless /\ TypeOK
  BY OneStuckIsHarmless DEF Testing, LoopInv
<1>4. OneStuck'
  <2>1. /\ data'[c] = (View(c) \ Bits(w)) \cup value
        /\ parity'[c] = calc_parity((View(c) \ Bits(w)) \cup value)
        /\ \A d \in Codeword \ {c} : /\ parity'[d] = parity[d]
                                     /\ SymDiff(data'[d], data[d]) \subseteq VictimBits(d)
    <3>1. \A i \in DOMAIN faults : Spares(faults[i], c)
      BY <1>3 DEF Harmless, WritesAreFaithful, Spares
    <3> QED BY <1>1, <1>3, <3>1, FaithfulWrite
  <2>2. ASSUME NEW d \in Codeword \ {c} PROVE data'[d] = data[d]
    <3>1. SymDiff(data'[d], data[d]) = {}
      BY <1>3, <2>1 DEF Harmless
    <3> QED BY <3>1 DEF SymDiff
  <2>3. Sealed'
    BY <2>1, <2>2 DEF Testing, OneStuck, Sealed
  <2> QED BY <1>1, <2>3 DEF Testing, OneStuck
<1>5. Element.do_write /\ test.name = "constant"
  BY DEF WriteStep, Testing, DemoTest
<1>6. Stage = 1 /\ Len(AllElements) = 2 /\ ~Element.check_read /\ at \in Nat
  BY <1>1, <1>5, ConstantElements DEF Fill, Check
<1>7. todo' # <<>> /\ WordsRead' = 0 /\ WordsRead = 0
  <2>1. \/ todo' = todo /\ Element' = Element
        \/ todo' # <<>> /\ at' = 0
    BY <1>1, <1>6, NextWordCases
  <2> QED BY <1>1, <1>6, <2>1 DEF WordsRead
<1>8. QuietInv'
  BY QuietInvStep DEF Testing, TestNext
<1> QED BY <1>1, <1>2, <1>4, <1>7, <1>8 DEF Testing

\* A read of the region counts a correction when it is of the stuck codeword.
LEMMA DemoRead ==
  ASSUME LoopInv, Testing, ReadStep
  PROVE  Testing'
<1>1. /\ todo # <<>> /\ Element.check_read /\ test' = test
      /\ UNCHANGED <<data, parity, faults, odecc_enabled>>
  BY ReadResult
<1>2. TypeOK /\ OneStuck /\ Harmless /\ QuietInv /\ test = DemoTest
  BY OneStuckIsHarmless DEF Testing, LoopInv
<1>3. /\ Stage = 2 /\ Len(AllElements) = 2 /\ Turn = at + 1 /\ at \in Nat
      /\ Element = Check(DEMO_PATTERN)
  BY <1>1, <1>2, ConstantElements DEF DemoTest, Fill, Check
<1>4. at \in 0 .. Len(DEMO_REGION) - 1 /\ ~Aliased /\ DEMO_REGION \in Seq(Location)
  BY <1>1, <1>2 DEF LoopInv, Running, DemoTest
<1>5. DEMO_STUCK_FAULT.mask \subseteq data[STUCK]
  <2>1. PICK b \in DEMO_PATTERN : b \in Bits(WordAt(DEMO_STUCK_ADDR)) /\ DEMO_STUCK_FAULT.mask = {b}
    BY StuckCell
  <2>2. PICK k \in DOMAIN DEMO_REGION : /\ CodewordOf(DEMO_REGION[k]) = STUCK
                                        /\ WordAt(DEMO_REGION[k]) = WordAt(DEMO_STUCK_ADDR)
    BY StuckCell, BootAssumption
  <2>3. Shows(k, DEMO_PATTERN)
    <3>1. Tidy /\ k \in DOMAIN test.walk
      BY <1>1, <1>2, <1>4, <2>2 DEF QuietInv, DemoTest
    <3>2. After(Element) = DEMO_PATTERN /\ Element.expected = DEMO_PATTERN
      BY <1>3 DEF After, Check
    <3> QED BY <1>1, <3>1, <3>2 DEF Tidy
  <2>4. b \in View(STUCK)
    BY <1>2, <2>1, <2>2, <2>3 DEF Shows, ValueAt, DemoTest, dram_read32_value
  <2>5. View(STUCK) = data[STUCK]
    BY <1>2, StuckCell, OneStuckDecodes
  <2> QED BY <2>1, <2>4, <2>5
<1>6. PICK c \in Codeword : c = CodewordOf(DEMO_REGION[at + 1]) /\ dram_read32(c)
  <2>1. CodewordOf(Current) \in Codeword /\ dram_read32(CodewordOf(Current))
    BY <1>1, LoopFacts DEF ReadStep
  <2>2. Current = DEMO_REGION[at + 1]
    BY <1>2, <1>3 DEF Current, DemoTest
  <2> QED BY <2>1, <2>2
<1>7. /\ Found({c}, "CORRECTED") = IF c = STUCK THEN {c} ELSE {}
      /\ Found({c}, "UNCORRECTABLE") = {}
  <2>1. Decoded(c).rc = IF c = STUCK THEN "CORRECTED" ELSE "OK"
    BY <1>2, <1>5, OneStuckDecodes
  <2> QED BY <1>2, <2>1 DEF Found, OneStuck
<1>8. /\ ecc_corr_count' = ecc_corr_count + (IF c = STUCK THEN 1 ELSE 0)
      /\ ecc_uncorr_count' = 0
  <2>1. Cardinality({}) = 0 /\ Cardinality({c}) = 1
    BY FS_EmptySet, FS_Singleton
  <2>2. ecc_corr_count \in Nat /\ ecc_uncorr_count = 0
    BY <1>2 DEF Testing, TypeOK
  <2>3. /\ ecc_corr_count' = ecc_corr_count + Cardinality(Found({c}, "CORRECTED"))
        /\ ecc_uncorr_count' = ecc_uncorr_count + Cardinality(Found({c}, "UNCORRECTABLE"))
    BY <1>6 DEF dram_read32, CountEcc
  <2>4. Cardinality(Found({c}, "CORRECTED")) = IF c = STUCK THEN 1 ELSE 0
    BY <1>7, <2>1
  <2> QED BY <1>7, <2>1, <2>2, <2>3, <2>4
<1>9. NextWord
  BY <1>3 DEF ReadStep, Check
<1>10. WordsRead = at /\ WordsRead' = at + 1
  <2>1. \/ todo' = todo /\ Element' = Element /\ at' = at + 1
        \/ todo' = <<>> /\ at + 1 = Len(test.walk)
    BY <1>1, <1>3, <1>9, NextWordCases
  <2> QED BY <1>1, <1>2, <2>1 DEF WordsRead, DemoTest
<1>11. ecc_corr_count' = Cardinality(StuckTurns(WordsRead'))
  BY <1>3, <1>6, <1>8, <1>10, StuckTurnsGrow DEF Testing
<1>12. TestNext /\ QuietInv'
  BY <1>2, QuietInvStep DEF TestNext
<1>13. todo' = <<>> => result'.error_count = 0
  BY <1>1, <1>2, <1>4, <1>12, QuietEnd DEF Finishes, DemoTest
<1>14. OneStuck'
  BY <1>1, <1>2 DEF OneStuck, Sealed
<1> QED BY <1>1, <1>2, <1>8, <1>11, <1>12, <1>13, <1>14 DEF Testing

\* The demonstration from dram_init to its verdict, and the verdict from then on.
DemoInv ==
    launched = "boot" =>
        /\ boot \in Demo => LoopInv /\ (boot # "testing" => todo = <<>>)
        /\ boot \in {"reset", "stuck"} => odecc_enabled /\ Sealed /\ faults = <<>>
        /\ boot \in {"reset", "stuck", "test"} => ecc_corr_count = 0 /\ ecc_uncorr_count = 0
        /\ boot = "test" => OneStuck
        /\ boot = "testing" => Testing
        /\ BootShowsEscape

\* A zeroed memory has the parity of its cells.
LEMMA ZeroedIsSealed ==
  ASSUME data' = Zeroed, parity' = Zeroed
  PROVE  Sealed'
<1>1. calc_parity({}) = {}
  <2>1. \A p : Cardinality({b \in {} : p \in Label[b]}) = 0
    <3>1. \A p : {b \in {} : p \in Label[b]} = {}
      OBVIOUS
    <3> QED BY <3>1, FS_EmptySet
  <2>2. 0 % 2 # 1
    OBVIOUS
  <2> QED BY <2>1, <2>2 DEF calc_parity
<1> QED BY <1>1 DEF Sealed, Zeroed

\* The calls of sim_escape_demo before its test.
LEMMA DemoPrepares ==
  ASSUME LoopInv, todo = <<>>, Prepare
  PROVE  LoopInv' /\ todo' = <<>>
BY LoopInvStep DEF TestNext, Prepare, tvars

\* The test starts on counters at 0 and on the region.
LEMMA DemoStarts ==
  ASSUME LoopInv, todo = <<>>, OneStuck, ecc_corr_count = 0, ecc_uncorr_count = 0,
         Start("constant", DEMO_REGION, DEMO_PATTERN)
  PROVE  LoopInv' /\ Testing'
<1>1. /\ test' = DemoTest /\ UNCHANGED vars
      /\ todo' = <<Fill(DEMO_PATTERN), Check(DEMO_PATTERN)>>
  BY DEF Start, Loop, DemoTest, Elements
<1>2. DEMO_PATTERN \in Data /\ DEMO_REGION \in Seq(Location) /\ Len(DEMO_REGION) > 0
  <2>1. DEMO_REGION \in Seq(Location) /\ DEMO_REGION # <<>>
    BY BootAssumption DEF Location
  <2> QED BY <2>1 DEF DEMO_PATTERN, Data
<1>3. LoopInv' /\ Running' /\ Stage' = 1 /\ at' = 0 /\ result' = ZeroResult
  <2>1. \A j, k \in DOMAIN DEMO_REGION : DEMO_REGION[j] = DEMO_REGION[k] => j = k
    BY BootAssumption
  <2> QED BY <1>2, <2>1, LoopStarts DEF TestName
<1>4. QuietInv'
  BY <1>1, <1>3, FreshLoopIsTidy DEF QuietInv, DemoTest
<1>5. OneStuck' /\ ecc_corr_count' = 0 /\ ecc_uncorr_count' = 0
  BY <1>1 DEF OneStuck, Sealed, vars, cells, ecc_stats
<1>6. WordsRead' = 0
  <2>1. Head(todo') = Fill(DEMO_PATTERN) /\ todo' # <<>>
    BY <1>1
  <2> QED BY <2>1 DEF WordsRead, Element, Fill
<1>7. Cardinality(StuckTurns(0)) = 0
  <2>1. StuckTurns(0) = {}
    BY DEF StuckTurns
  <2> QED BY <2>1, FS_EmptySet
<1> QED BY <1>1, <1>3, <1>4, <1>5, <1>6, <1>7 DEF Testing, ZeroResult

\* The test ends without an error and with one correction for each stuck word.
LEMMA DemoEnds ==
  ASSUME Testing, todo = <<>>
  PROVE  result.error_count = 0 /\ ecc_corr_count = WordsPerCodeword /\ ecc_uncorr_count = 0
BY AllStuckTurns DEF Testing, WordsRead

\* A step that changes nothing of the program and the memory.
LEMMA DemoStutters ==
  ASSUME DemoInv, UNCHANGED <<vars, tvars, bvars, launched>>
  PROVE  DemoInv'
<1>1. /\ UNCHANGED <<boot, escaped, up, data, parity, faults, odecc_enabled>>
      /\ UNCHANGED <<ecc_corr_count, ecc_uncorr_count, test, todo, at, result, launched>>
  BY DEF vars, tvars, bvars, cells, ecc_stats
<1>2. LoopInv => LoopInv'
  BY LoopInvStep
<1>3. LoopInv /\ QuietInv => QuietInv'
  BY QuietInvStep
<1>4. Sealed' = Sealed /\ OneStuck' = OneStuck /\ WordsRead' = WordsRead
  BY <1>1 DEF Sealed, OneStuck, WordsRead, Element
<1>5. LoopInv /\ Testing => Testing'
  BY <1>1, <1>3, <1>4 DEF Testing
<1>6. BootShowsEscape' = BootShowsEscape
  BY <1>1 DEF BootShowsEscape
<1> QED BY <1>1, <1>2, <1>4, <1>5, <1>6 DEF DemoInv, Demo

\* The calls of the demonstration lead to its verdict.
LEMMA DemoInvStep ==
  ASSUME DemoInv, launched = "boot", launched' = "boot", BootNext
  PROVE  DemoInv'
<1>1. CASE BootDramInit
  <2>1. /\ boot = "dram_init" /\ boot' = (IF up' THEN "reset" ELSE "exited")
        /\ dram_init /\ UNCHANGED tvars
    BY <1>1 DEF BootDramInit
  <2>2. LoopInv' /\ todo' = <<>>
    BY <2>1, DemoPrepares DEF DemoInv, Demo, Prepare
  <2>3. /\ Sealed' /\ faults' = <<>> /\ ecc_corr_count' = 0 /\ ecc_uncorr_count' = 0
        /\ up' => odecc_enabled'
    BY <2>1, ZeroedIsSealed DEF dram_init, ClearTables
  <2>4. BootShowsEscape'
    BY <2>1 DEF BootShowsEscape
  <2> QED BY <2>1, <2>2, <2>3, <2>4 DEF DemoInv, Demo
<1>2. CASE Goto("reset", "stuck") /\ dram_reset_ecc_stats /\ UNCHANGED tvars
  <2>1. LoopInv' /\ todo' = <<>>
    BY <1>2, DemoPrepares DEF DemoInv, Demo, Prepare, Goto
  <2>2. /\ UNCHANGED <<odecc_enabled, faults, data, parity>>
        /\ ecc_corr_count' = 0 /\ ecc_uncorr_count' = 0
    BY <1>2 DEF dram_reset_ecc_stats, cells
  <2>3. Sealed' = Sealed
    BY <2>2 DEF Sealed
  <2> QED BY <1>2, <2>1, <2>2, <2>3 DEF DemoInv, Demo, Goto, BootShowsEscape
<1>3. CASE Goto("stuck", "test") /\ dram_add_stuck_fault(DEMO_STUCK_FAULT) /\ UNCHANGED tvars
  <2>1. Prepare
    BY <1>3, BootAssumption DEF Prepare, AddAnyFault, DemoInv, Demo, Goto
  <2>2. LoopInv' /\ todo' = <<>>
    BY <1>3, <2>1, DemoPrepares DEF DemoInv, Demo, Goto
  <2>3. /\ UNCHANGED <<odecc_enabled, data, parity, ecc_corr_count, ecc_uncorr_count>>
        /\ faults' = Append(faults, DEMO_STUCK_FAULT)
    BY <1>3 DEF dram_add_stuck_fault, AddFault, cells, ecc_stats
  <2>4. OneStuck' /\ ecc_corr_count' = 0 /\ ecc_uncorr_count' = 0
    BY <1>3, <2>3 DEF DemoInv, Goto, OneStuck, Sealed
  <2> QED BY <1>3, <2>2, <2>4 DEF DemoInv, Demo, Goto, BootShowsEscape
<1>4. CASE Goto("test", "testing") /\ Start("constant", DEMO_REGION, DEMO_PATTERN)
  <2>1. LoopInv' /\ Testing'
    BY <1>4, DemoStarts DEF DemoInv, Demo, Goto
  <2> QED BY <1>4, <2>1 DEF DemoInv, Demo, Goto, BootShowsEscape
<1>5. CASE boot = "testing" /\ (ReadStep \/ WriteStep) /\ boot' = boot
  <2>1. LoopInv /\ Testing
    BY <1>5 DEF DemoInv, Demo
  <2>2. LoopInv'
    BY <1>5, <2>1, LoopInvStep DEF TestNext
  <2>3. Testing'
    BY <1>5, <2>1, DemoRead, DemoWrite
  <2> QED BY <1>5, <2>2, <2>3 DEF DemoInv, Demo, BootShowsEscape
<1>6. CASE /\ Goto("testing", "map_size") /\ todo = <<>>
           /\ escaped' = (result.error_count = 0 /\ ecc_corr_count > 0)
           /\ UNCHANGED <<vars, tvars>>
  <2>1. /\ result.error_count = 0 /\ ecc_corr_count = WordsPerCodeword
        /\ ecc_uncorr_count = 0
    BY <1>6, DemoEnds DEF DemoInv, Goto
  <2>2. ecc_corr_count' = ecc_corr_count /\ ecc_uncorr_count' = ecc_uncorr_count
    BY <1>6 DEF vars, ecc_stats
  <2>3. ecc_corr_count > 0
    BY <2>1, MemoryTestAssumption
  <2>4. escaped' /\ ecc_corr_count' = WordsPerCodeword /\ ecc_uncorr_count' = 0
    BY <1>6, <2>1, <2>2, <2>3
  <2> QED BY <1>6, <2>4 DEF DemoInv, Demo, Goto, BootShowsEscape
<1>7. CASE MemoryMapCalls \/ TestPages \/ save_csv \/ Finish
  <2>1. boot \notin Demo /\ boot' \notin Demo /\ escaped' = escaped
    BY <1>7 DEF MemoryMapCalls, GetMapSize, AllocateMap, GetMap, FreeMap, AllocatePages,
                TestPages, WriteCell, ReadCell, save_csv, LookUp, OpenFile, WriteFile,
                CloseFiles, Finish, Goto, Demo
  <2>2. ~up' \/ UNCHANGED vars
    BY <1>7 DEF MemoryMapCalls, TestPages, save_csv, Finish, dram_free
  <2>3. ~up' \/ UNCHANGED <<up, ecc_corr_count, ecc_uncorr_count>>
    BY <2>2 DEF vars, ecc_stats
  <2> QED BY <2>1, <2>3 DEF DemoInv, Demo, BootShowsEscape
<1> QED BY <1>1, <1>2, <1>3, <1>4, <1>5, <1>6, <1>7 DEF BootNext, sim_escape_demo

(***************************************************************************)
(* The boot run shows the escape of uefi/README.md for every size of       *)
(* memory and codeword, whatever the code and wherever the region lies:    *)
(* the test passes over the stuck cell, and the decoder has corrected it   *)
(* once for each word of its codeword, no more.                            *)
(***************************************************************************)
THEOREM EscapeIsShown == WorkbenchSpec => []BootShowsEscape
<1>1. WorkbenchInit => DemoInv
  <2> SUFFICES ASSUME WorkbenchInit PROVE DemoInv
    OBVIOUS
  <2>1. boot = "dram_init" /\ TestInit /\ todo = <<>>
    BY DEF WorkbenchInit, BootInit, TestInit
  <2>2. LoopInv
    BY <2>1, LoopInvInit
  <2> QED BY <2>1, <2>2 DEF DemoInv, Demo, BootShowsEscape
<1>2. DemoInv /\ [WorkbenchNext]_all_vars => DemoInv'
  <2> SUFFICES ASSUME DemoInv, [WorkbenchNext]_all_vars PROVE DemoInv'
    OBVIOUS
  <2>1. CASE HostRuns
    BY <2>1 DEF HostRuns, DemoInv
  <2>2. CASE BootRuns
    BY <2>2, DemoInvStep DEF BootRuns, DemoInv
  <2>3. CASE UNCHANGED <<vars, tvars, hvars, bvars, launched>>
    BY <2>3, DemoStutters
  <2> QED BY <2>1, <2>2, <2>3 DEF WorkbenchNext, ViewerLoads, ViewerFilters, Stays, all_vars
<1>3. OneProgram /\ DemoInv => BootShowsEscape
  BY DEF OneProgram, DemoInv, BootShowsEscape
<1> QED BY <1>1, <1>2, <1>3, BootInvariant, PTL DEF WorkbenchSpec

-----------------------------------------------------------------------------
(* Flattened sequences: what the table and the scripts are made of.         *)

\* The first m of the sequences flatten to what the first m - 1 flatten to and one more.
LEMMA FlattenUnfolds ==
  ASSUME NEW S, NEW ss \in Seq(Seq(S))
  PROVE  \E g \in [0 .. Len(ss) -> Seq(S)] :
            /\ g[0] = <<>>
            /\ \A i \in 1 .. Len(ss) : g[i] = g[i - 1] \o ss[i]
            /\ \A m \in 0 .. Len(ss) : FlattenSeq(SubSeq(ss, 1, m)) = g[m]
<1> DEFINE n == Len(ss)
<1> DEFINE Parts == Seq(S)
<1> DEFINE F == [i \in 1 .. n |-> [t \in Parts |-> t \o ss[i]]]
<1>1. n \in Nat /\ <<>> \in Parts /\ \A i \in 1 .. n : ss[i] \in Parts
  OBVIOUS
<1>2. F \in [1 .. n -> [Parts -> Parts]]
  BY <1>1
<1> HIDE DEF n
<1>3. PICK g \in [0 .. n -> Parts] : Recurs(g, n, <<>>, F)
  <2> HIDE DEF F, Parts
  <2>1. n \in Nat /\ <<>> \in Parts
    BY <1>1
  <2> QED BY <2>1, <1>2, RecursionExists
<1>4. ASSUME NEW i \in 1 .. n PROVE g[i] = g[i - 1] \o ss[i]
  <2>1. g[i - 1] \in Seq(S)
    BY <1>1, <1>3
  <2> QED BY <2>1, <1>3 DEF Recurs
<1>0. g[0] = <<>>
  BY <1>3 DEF Recurs
<1> HIDE DEF F
<1>5. ASSUME NEW m \in 0 .. n PROVE FlattenSeq(SubSeq(ss, 1, m)) = g[m]
  <2> DEFINE pre == SubSeq(ss, 1, m)
  <2>1. Len(pre) = m /\ \A i \in 1 .. m : pre[i] = ss[i]
    BY <1>1, <1>5 DEF n
  <2>2. CASE m = 0
    <3>1. pre = <<>>
      BY <1>1, <2>2
    <3>2. FlattenSeq(<<>>) = <<>>
      BY DEF FlattenSeq
    <3> QED BY <3>1, <3>2, <1>0, <2>2
  <2>3. CASE m # 0
    <3> HIDE DEF pre
    <3> DEFINE Eqn(f) == f = [i \in 1 .. Len(pre) |-> IF i = 1 THEN pre[i] ELSE f[i - 1] \o pre[i]]
    <3> DEFINE h == [i \in 1 .. m |-> g[i]]
    <3>1. Eqn(h)
      <4>1. ASSUME NEW i \in 1 .. m
            PROVE  h[i] = IF i = 1 THEN pre[i] ELSE h[i - 1] \o pre[i]
        <5>1. i \in 1 .. n /\ ss[i] \in Seq(S)
          BY <1>1, <1>5
        <5>2. h[i] = g[i] /\ g[i] = g[i - 1] \o ss[i] /\ pre[i] = ss[i]
          BY <5>1, <1>4, <2>1
        <5>3. CASE i = 1
          <6>1. <<>> \o ss[i] = ss[i]
            BY <5>1
          <6>2. g[i - 1] = <<>>
            BY <5>3, <1>0
          <6> HIDE DEF h
          <6> QED BY <5>2, <5>3, <6>1, <6>2
        <5>4. CASE i # 1
          <6>1. h[i - 1] = g[i - 1]
            BY <1>1, <1>5, <5>4
          <6> HIDE DEF h
          <6> QED BY <5>2, <5>4, <6>1
        <5> HIDE DEF h
        <5> QED BY <5>3, <5>4
      <4> QED BY <4>1, <2>1
    <3> DEFINE f == CHOOSE f : Eqn(f)
    <3>2. Eqn(f)
      BY <3>1
    <3>3. FlattenSeq(pre) = f[Len(pre)]
      BY <2>1, <2>3 DEF FlattenSeq
    <3> HIDE DEF f
    <3>4. \A i \in 1 .. m : f[i] = IF i = 1 THEN pre[i] ELSE f[i - 1] \o pre[i]
      BY <3>2, <2>1
    <3>5. \A i \in 1 .. m : h[i] = IF i = 1 THEN pre[i] ELSE h[i - 1] \o pre[i]
      BY <3>1, <2>1
    <3> HIDE DEF h
    <3> DEFINE T == {i \in Nat : f[i] = h[i]}
    <3>6. 1 \in T
      BY <3>4, <3>5, <2>3, <1>1, <1>5
    <3>7. ASSUME NEW i \in 1 .. m - 1, i \in T PROVE i + 1 \in T
      <4>1. i + 1 \in 1 .. m /\ i + 1 # 1 /\ (i + 1) - 1 = i
        BY <1>1, <1>5
      <4> QED BY <4>1, <3>4, <3>5, <3>7
    <3> HIDE DEF T
    <3>8. m \in T
      <4>1. m \in Nat /\ 1 \in Nat /\ m \in 1 .. m
        BY <1>1, <1>5, <2>3
      <4> QED BY <4>1, <3>6, <3>7, Climb
    <3>9. f[m] = g[m]
      BY <3>8, <2>3, <1>1, <1>5 DEF T, h
    <3> QED BY <3>3, <3>9, <2>1 DEF pre
  <2> QED BY <2>2, <2>3
<1> QED BY <1>0, <1>3, <1>4, <1>5 DEF n

\* The same of two neighbours, and of the whole.
LEMMA FlattenLaws ==
  ASSUME NEW S, NEW ss \in Seq(Seq(S))
  PROVE  /\ FlattenSeq(SubSeq(ss, 1, 0)) = <<>>
         /\ \A m \in 0 .. Len(ss) : FlattenSeq(SubSeq(ss, 1, m)) \in Seq(S)
         /\ \A m \in 1 .. Len(ss) :
               FlattenSeq(SubSeq(ss, 1, m)) = FlattenSeq(SubSeq(ss, 1, m - 1)) \o ss[m]
         /\ FlattenSeq(SubSeq(ss, 1, Len(ss))) = FlattenSeq(ss)
<1>1. PICK g \in [0 .. Len(ss) -> Seq(S)] :
            /\ g[0] = <<>>
            /\ \A i \in 1 .. Len(ss) : g[i] = g[i - 1] \o ss[i]
            /\ \A m \in 0 .. Len(ss) : FlattenSeq(SubSeq(ss, 1, m)) = g[m]
  BY FlattenUnfolds
<1>2. \A m \in 1 .. Len(ss) : m \in 0 .. Len(ss) /\ m - 1 \in 0 .. Len(ss)
  OBVIOUS
<1>3. SubSeq(ss, 1, Len(ss)) = ss /\ 0 \in 0 .. Len(ss)
  OBVIOUS
<1> QED BY <1>1, <1>2, <1>3

\* A set of sequences closed under concatenation has what they flatten to.
LEMMA FlattenCloses ==
  ASSUME NEW S, NEW G \in SUBSET Seq(S), <<>> \in G, \A s, t \in G : s \o t \in G,
         NEW ss \in Seq(G)
  PROVE  FlattenSeq(ss) \in G
<1>1. ss \in Seq(Seq(S)) /\ Len(ss) \in Nat /\ \A m \in 1 .. Len(ss) : ss[m] \in G
  OBVIOUS
<1> DEFINE Upto(m) == FlattenSeq(SubSeq(ss, 1, m))
<1> DEFINE T == {m \in Nat : Upto(m) \in G}
<1>2. /\ Upto(0) = <<>> /\ Upto(Len(ss)) = FlattenSeq(ss)
      /\ \A m \in 1 .. Len(ss) : Upto(m) = Upto(m - 1) \o ss[m]
  BY <1>1, FlattenLaws
<1> HIDE DEF Upto
<1>3. 0 \in T
  BY <1>2
<1>4. ASSUME NEW m \in 0 .. Len(ss) - 1, m \in T PROVE m + 1 \in T
  <2>1. m + 1 \in 1 .. Len(ss) /\ (m + 1) - 1 = m /\ m + 1 \in Nat
    BY <1>1
  <2>2. Upto(m + 1) = Upto(m) \o ss[m + 1]
    BY <2>1, <1>2
  <2> QED BY <1>1, <1>4, <2>1, <2>2
<1>5. Len(ss) \in 0 .. Len(ss) /\ 0 \in Nat
  BY <1>1
<1> HIDE DEF T
<1>6. Len(ss) \in T
  BY <1>1, <1>3, <1>4, <1>5, Climb
<1> QED BY <1>2, <1>6 DEF T

\* Rows that come one from each line are listed as they are.
LEMMA FlattenSingles ==
  ASSUME NEW S, NEW s \in Seq(S)
  PROVE  FlattenSeq([k \in DOMAIN s |-> <<s[k]>>]) = s
<1> DEFINE ss == [k \in DOMAIN s |-> <<s[k]>>]
<1> DEFINE n == Len(s)
<1>1. ss \in Seq(Seq(S)) /\ Len(ss) = n /\ n \in Nat /\ \A m \in 1 .. n : ss[m] = <<s[m]>>
  <2>1. n \in Nat /\ DOMAIN s = 1 .. n /\ \A m \in 1 .. n : <<s[m]>> \in Seq(S)
    OBVIOUS
  <2> DEFINE Parts == Seq(S)
  <2> HIDE DEF Parts, n
  <2>2. ss \in [1 .. n -> Parts]
    BY <2>1 DEF Parts
  <2>3. ss \in Seq(Parts) /\ Len(ss) = n
    <3> HIDE DEF ss
    <3> QED BY <2>1, <2>2
  <2> QED BY <2>1, <2>3 DEF Parts
<1> DEFINE Upto(m) == FlattenSeq(SubSeq(ss, 1, m))
<1> DEFINE T == {m \in Nat : Upto(m) = SubSeq(s, 1, m)}
<1> HIDE DEF ss
<1>2. /\ Upto(0) = <<>> /\ Upto(n) = FlattenSeq(ss)
      /\ \A m \in 1 .. n : Upto(m) = Upto(m - 1) \o ss[m]
  BY <1>1, FlattenLaws
<1> HIDE DEF Upto
<1>3. 0 \in T
  <2>1. SubSeq(s, 1, 0) = <<>>
    OBVIOUS
  <2> QED BY <1>2, <2>1
<1>4. ASSUME NEW m \in 0 .. n - 1, m \in T PROVE m + 1 \in T
  <2>1. m + 1 \in 1 .. n /\ (m + 1) - 1 = m /\ m + 1 \in Nat
    OBVIOUS
  <2>2. Upto(m + 1) = SubSeq(s, 1, m) \o <<s[m + 1]>>
    BY <2>1, <1>1, <1>2, <1>4
  <2>3. SubSeq(s, 1, m) \o <<s[m + 1]>> = SubSeq(s, 1, m + 1)
    BY <2>1
  <2> QED BY <2>1, <2>2, <2>3
<1>5. n \in 0 .. n /\ 0 \in Nat
  BY <1>1
<1>6. n \in T
  <2> HIDE DEF T
  <2> QED BY <1>1, <1>3, <1>4, <1>5, Climb
<1>7. FlattenSeq(ss) = SubSeq(s, 1, n)
  BY <1>2, <1>6
<1>8. SubSeq(s, 1, n) = s
  OBVIOUS
<1> QED BY <1>7, <1>8 DEF ss

-----------------------------------------------------------------------------
(* The table of the viewer.                                                 *)

\* What the filter makes of one row.
Chosen(row, index) == IF Kept(row, index) THEN <<row>> ELSE <<>>

\* The filter goes through the table row by row.
LEMMA ListedLaws ==
  ASSUME NEW S, NEW table \in Seq(S), NEW index
  PROVE  /\ Listed(table, index) \in Seq(S)
         /\ Listed(SubSeq(table, 1, 0), index) = <<>>
         /\ \A m \in 1 .. Len(table) :
               Listed(SubSeq(table, 1, m), index)
                  = Listed(SubSeq(table, 1, m - 1), index) \o Chosen(table[m], index)
         /\ \A m \in 0 .. Len(table) : Listed(SubSeq(table, 1, m), index) \in Seq(S)
<1> DEFINE ss == [k \in DOMAIN table |-> Chosen(table[k], index)]
<1> DEFINE Parts == Seq(S)
<1>1. /\ ss \in Seq(Parts) /\ Len(ss) = Len(table) /\ Len(table) \in Nat
      /\ \A m \in 1 .. Len(table) : ss[m] = Chosen(table[m], index)
  <2>1. \A k \in DOMAIN table : Chosen(table[k], index) \in Parts
    BY DEF Chosen
  <2> HIDE DEF Parts
  <2> QED BY <2>1
<1>2. ASSUME NEW m \in 0 .. Len(table)
      PROVE  Listed(SubSeq(table, 1, m), index) = FlattenSeq(SubSeq(ss, 1, m))
  <2> DEFINE pre == SubSeq(table, 1, m)
  <2>1. /\ pre = [k \in 1 .. m |-> table[k]] /\ DOMAIN pre = 1 .. m
        /\ SubSeq(ss, 1, m) = [k \in 1 .. m |-> ss[k]]
    <3> HIDE DEF ss, Parts
    <3> QED BY <1>1
  <2> HIDE DEF pre
  <2>2. [k \in DOMAIN pre |-> IF Kept(pre[k], index) THEN <<pre[k]>> ELSE <<>>]
           = SubSeq(ss, 1, m)
    BY <2>1, <1>1 DEF Chosen
  <2> QED BY <2>2 DEF Listed, pre
<1> HIDE DEF ss
<1>3. /\ FlattenSeq(SubSeq(ss, 1, 0)) = <<>>
      /\ \A m \in 0 .. Len(ss) : FlattenSeq(SubSeq(ss, 1, m)) \in Seq(S)
      /\ \A m \in 1 .. Len(ss) :
            FlattenSeq(SubSeq(ss, 1, m)) = FlattenSeq(SubSeq(ss, 1, m - 1)) \o ss[m]
  BY <1>1, FlattenLaws
<1>4. \A m \in 1 .. Len(table) : m \in 0 .. Len(table) /\ m - 1 \in 0 .. Len(table)
  BY <1>1
<1>5. SubSeq(table, 1, Len(table)) = table /\ 0 \in 0 .. Len(table) /\ Len(table) \in 0 .. Len(table)
  BY <1>1
<1> QED BY <1>1, <1>2, <1>3, <1>4, <1>5

\* One more row.
LEMMA ListedAppend ==
  ASSUME NEW S, NEW table \in Seq(S), NEW row \in S, NEW index
  PROVE  Listed(table \o <<row>>, index) = Listed(table, index) \o Chosen(row, index)
<1> DEFINE longer == table \o <<row>>
<1>1. /\ longer \in Seq(S) /\ Len(longer) = Len(table) + 1 /\ Len(table) \in Nat
      /\ longer[Len(longer)] = row
      /\ SubSeq(longer, 1, Len(longer)) = longer /\ SubSeq(longer, 1, Len(longer) - 1) = table
  OBVIOUS
<1> HIDE DEF longer
<1>2. Len(longer) \in 1 .. Len(longer)
  BY <1>1
<1>3. Listed(SubSeq(longer, 1, Len(longer)), index)
         = Listed(SubSeq(longer, 1, Len(longer) - 1), index) \o Chosen(longer[Len(longer)], index)
  BY <1>1, <1>2, ListedLaws
<1> QED BY <1>1, <1>3 DEF longer

\* Every filter that keeps passed rows lists all escapes, in their order.
LEMMA EscapesAreListed ==
  ASSUME NEW S, NEW table \in Seq(S), NEW index \in 0 .. 2,
         \A row \in S : row.is_escape => row.result = "PASS"
  PROVE  Escapes(Listed(table, index)) = Escapes(table)
<1> DEFINE pre(m) == SubSeq(table, 1, m)
<1> DEFINE T == {m \in Nat : Listed(Listed(pre(m), index), 1) = Listed(pre(m), 1)}
<1>1. Len(table) \in Nat /\ \A m \in 1 .. Len(table) : table[m] \in S
  OBVIOUS
<1>2. ASSUME NEW i
      PROVE  /\ Listed(pre(0), i) = <<>>
             /\ \A m \in 1 .. Len(table) :
                   Listed(pre(m), i) = Listed(pre(m - 1), i) \o Chosen(table[m], i)
             /\ \A m \in 0 .. Len(table) : Listed(pre(m), i) \in Seq(S)
  BY ListedLaws
<1>3. pre(Len(table)) = table /\ pre(0) = <<>>
  OBVIOUS
<1> HIDE DEF pre
<1>4. 0 \in T
  BY <1>2, <1>3
<1>5. ASSUME NEW m \in 0 .. Len(table) - 1, m \in T PROVE m + 1 \in T
  <2> DEFINE row == table[m + 1]
  <2> DEFINE shown == Listed(pre(m), index)
  <2>1. m + 1 \in 1 .. Len(table) /\ (m + 1) - 1 = m /\ m + 1 \in Nat /\ m \in 0 .. Len(table)
    BY <1>1
  <2>2. row \in S /\ shown \in Seq(S) /\ Listed(shown, 1) = Listed(pre(m), 1)
    BY <1>1, <1>2, <1>5, <2>1
  <2>3. /\ Listed(pre(m + 1), index) = shown \o Chosen(row, index)
        /\ Listed(pre(m + 1), 1) = Listed(pre(m), 1) \o Chosen(row, 1)
    BY <1>2, <2>1
  <2> HIDE DEF row, shown
  <2>4. CASE Kept(row, index)
    <3>1. Listed(shown \o <<row>>, 1) = Listed(shown, 1) \o Chosen(row, 1)
      BY <2>2, ListedAppend
    <3>2. Chosen(row, index) = <<row>>
      BY <2>4 DEF Chosen
    <3> QED BY <2>1, <2>2, <2>3, <3>1, <3>2
  <2>5. CASE ~Kept(row, index)
    <3>1. ~Kept(row, 1)
      BY <2>2, <2>5 DEF Kept
    <3>2. Chosen(row, index) = <<>> /\ Chosen(row, 1) = <<>>
      BY <2>5, <3>1 DEF Chosen
    <3>3. Listed(pre(m), 1) \in Seq(S)
      BY <1>2, <2>1
    <3>4. shown \o <<>> = shown /\ Listed(pre(m), 1) \o <<>> = Listed(pre(m), 1)
      BY <2>2, <3>3
    <3> QED BY <2>1, <2>2, <2>3, <3>2, <3>4
  <2> QED BY <2>4, <2>5
<1>6. Len(table) \in T
  <2>1. Len(table) \in 0 .. Len(table) /\ 0 \in Nat
    BY <1>1
  <2> HIDE DEF T
  <2> QED BY <1>1, <1>4, <1>5, <2>1, Climb
<1> QED BY <1>3, <1>6 DEF Escapes

\* The row of a full line.
RowOf(f) == [result |-> f.result, is_escape |-> f.result = "PASS" /\ f.ecc_corr > 0]

\* A log of full lines has a row for each line but the first.
LEMMA ParsedRows ==
  ASSUME NEW S, NEW lines \in Seq(S), Len(lines) > 0,
         \A j \in 2 .. Len(lines) : lines[j].fields = 13
  PROVE  Parsed(lines) = [k \in 1 .. Len(lines) - 1 |-> RowOf(lines[k + 1])]
<1> DEFINE table == [k \in 1 .. Len(lines) - 1 |-> RowOf(lines[k + 1])]
<1> DEFINE n == Len(lines) - 1
<1>1. n \in Nat
  OBVIOUS
<1>2. ASSUME NEW k \in 1 .. n PROVE ParseLine(lines[k + 1]) = <<table[k]>>
  <2>1. k + 1 \in 2 .. Len(lines)
    OBVIOUS
  <2>2. table[k] = RowOf(lines[k + 1])
    OBVIOUS
  <2> QED BY <2>1, <2>2 DEF ParseLine, RowOf
<1> DEFINE Rows == {RowOf(lines[k + 1]) : k \in 1 .. n}
<1>3. table \in Seq(Rows) /\ DOMAIN table = 1 .. n
  <2>1. table \in [1 .. n -> Rows]
    OBVIOUS
  <2> HIDE DEF table, Rows, n
  <2> QED BY <1>1, <2>1
<1> HIDE DEF table
<1>4. [k \in DOMAIN table |-> <<table[k]>>] = [k \in 1 .. n |-> ParseLine(lines[k + 1])]
  BY <1>2, <1>3
<1>5. FlattenSeq([k \in DOMAIN table |-> <<table[k]>>]) = table
  BY <1>3, FlattenSingles
<1> QED BY <1>4, <1>5 DEF Parsed, table

-----------------------------------------------------------------------------
(* The scripts of the host program.                                         *)

Fault6 == OneFault("STUCK_AT_0", STUCK_ADDR, {1})
WeakFaults == {MatrixFaults[i].fault : i \in 1 .. 5} \cup {WeakCell}

TestLines ==
    {Test(name, walk, pattern) :
         name \in {"constant", "verify", "topology"}, walk \in Seq(Nat), pattern \in Data}
    \cup {Test("march", walk, Zeros) : walk \in Seq(Nat)}
FaultLines == {AddTo(Fault6, "fail")} \cup {AddTo(f, "odecc_back") : f \in WeakFaults}
Verdicts == {"passed", "smoke", "escaped", "screened", "miscorrected", "uncorrectable",
             "match", "never"}

\* What a line of a script is.
Line ==
    TestLines \cup FaultLines
    \cup {FillLoop(walk, pattern) : walk \in Seq(Nat), pattern \in Data}
    \cup {WriteWord(SMOKE_ADDR, SMOKE_PATTERN)}
    \cup {ReadWord(word) : word \in Nat}
    \cup {FlipBits(word, positions) : word \in Nat, positions \in SUBSET Nat}
    \cup {ClearFaults, ResetStats, Refresh, ScrubRegion}
    \cup {Odecc(on) : on \in BOOLEAN}
    \cup {Temperature(celsius) : celsius \in Int}
    \cup {Advance(ms) : ms \in Nat}
    \cup {Row(of) : of \in {"test", "matrix", "smoke", "scrub"}}
    \cup {Agree(detects) : detects \in BOOLEAN}
    \cup {Require(that) : that \in Verdicts}

\* The lines that make or use a fault, a word or a walk, and the others.
LEMMA LineForms ==
  /\ \A name \in {"constant", "verify", "topology"}, walk \in Seq(Nat), pattern \in Data :
        Test(name, walk, pattern) \in Line
  /\ \A walk \in Seq(Nat) : Test("march", walk, Zeros) \in Line
  /\ \A walk \in Seq(Nat), pattern \in Data : FillLoop(walk, pattern) \in Line
  /\ AddTo(Fault6, "fail") \in Line /\ \A f \in WeakFaults : AddTo(f, "odecc_back") \in Line
  /\ WriteWord(SMOKE_ADDR, SMOKE_PATTERN) \in Line
  /\ \A word \in Nat : ReadWord(word) \in Line
  /\ \A word \in Nat, positions \in SUBSET Nat : FlipBits(word, positions) \in Line
  /\ {ClearFaults, ResetStats, Refresh, ScrubRegion} \subseteq Line
  /\ \A on \in BOOLEAN : Odecc(on) \in Line /\ Agree(on) \in Line
  /\ \A celsius \in Int : Temperature(celsius) \in Line
  /\ \A ms \in Nat : Advance(ms) \in Line
  /\ \A of \in {"test", "matrix", "smoke", "scrub"} : Row(of) \in Line
  /\ \A that \in Verdicts : Require(that) \in Line
BY DEF Line, TestLines, FaultLines

\* What each of them calls.
LEMMA LineOps ==
  /\ \A name, walk, pattern : Test(name, walk, pattern).op = "test"
  /\ \A walk, pattern : FillLoop(walk, pattern).op = "fill"
  /\ \A f, bail : AddTo(f, bail).op = "fault"
  /\ \A word, pattern : WriteWord(word, pattern).op = "write"
  /\ \A word : ReadWord(word).op = "read"
  /\ \A word, positions : FlipBits(word, positions).op = "flip"
  /\ ClearFaults.op = "clear" /\ ResetStats.op = "reset" /\ Refresh.op = "refresh"
  /\ ScrubRegion.op = "scrub"
  /\ \A on : Odecc(on).op = "odecc" /\ Agree(on).op = "agree"
  /\ \A celsius : Temperature(celsius).op = "temperature"
  /\ \A ms : Advance(ms).op = "advance"
  /\ \A of : Row(of).op = "row" /\ Row(of).of = of
  /\ \A that : Require(that).op = "require" /\ Require(that).that = that
BY DEF Test, FillLoop, AddTo, WriteWord, ReadWord, FlipBits, ClearFaults, ResetStats, Refresh,
       ScrubRegion, Odecc, Agree, Temperature, Advance, Row, Require

\* What a test and a fault are called with.
LEMMA LineFields ==
  ASSUME NEW l \in Line
  PROVE  /\ l.op = "test" => /\ l.name \in TestName /\ l.walk \in Seq(Nat) /\ l.pattern \in Data
                             /\ l.name = "march" => l.pattern = Zeros
         /\ l.op = "fault" => l \in FaultLines /\ l.bail \in {"fail", "odecc_back"}
<1>1. CASE l \in TestLines
  <2>1. Zeros \in Data
    BY DEF Zeros, Data
  <2> QED BY <1>1, <2>1 DEF TestLines, Test, TestName
<1>2. CASE l \in FaultLines
  BY <1>2 DEF FaultLines, AddTo
<1>3. CASE l \notin TestLines \cup FaultLines
  BY <1>3, LineOps DEF Line
<1> QED BY <1>1, <1>2, <1>3

\* The row of a test stands right behind it.
RowsFollowTests(s) ==
    \A j \in 1 .. Len(s) : s[j].op = "row" /\ s[j].of = "test" => j > 1 /\ s[j - 1].op = "test"

Good == {s \in Seq(Line) : RowsFollowTests(s)}

\* Scripts are put together from such parts.
LEMMA GoodJoins ==
  ASSUME NEW s \in Good, NEW t \in Good
  PROVE  s \o t \in Good
<1>1. s \in Seq(Line) /\ t \in Seq(Line) /\ RowsFollowTests(s) /\ RowsFollowTests(t)
  BY DEF Good
<1>2. /\ s \o t \in Seq(Line) /\ Len(s \o t) = Len(s) + Len(t)
      /\ Len(s) \in Nat /\ Len(t) \in Nat
      /\ \A j \in 1 .. Len(s) : (s \o t)[j] = s[j]
      /\ \A j \in 1 .. Len(t) : (s \o t)[Len(s) + j] = t[j]
  <2> HIDE DEF Line
  <2> QED BY <1>1
<1>3. ASSUME NEW j \in 1 .. Len(s \o t), (s \o t)[j].op = "row", (s \o t)[j].of = "test"
      PROVE  j > 1 /\ (s \o t)[j - 1].op = "test"
  <2>1. CASE j <= Len(s)
    <3>1. j \in 1 .. Len(s) /\ s[j].op = "row" /\ s[j].of = "test"
      BY <1>2, <1>3, <2>1
    <3>2. j > 1 /\ s[j - 1].op = "test"
      BY <1>1, <3>1 DEF RowsFollowTests
    <3> QED BY <1>2, <3>1, <3>2
  <2>2. CASE j > Len(s)
    <3> DEFINE k == j - Len(s)
    <3>1. k \in 1 .. Len(t) /\ j = Len(s) + k
      BY <1>2, <2>2
    <3>2. t[k].op = "row" /\ t[k].of = "test"
      BY <1>2, <1>3, <3>1
    <3>3. k > 1 /\ t[k - 1].op = "test"
      BY <1>1, <3>1, <3>2 DEF RowsFollowTests
    <3>4. k - 1 \in 1 .. Len(t) /\ j - 1 = Len(s) + (k - 1) /\ j > 1
      BY <1>2, <3>1, <3>3
    <3> HIDE DEF k
    <3> QED BY <1>2, <3>3, <3>4
  <2> QED BY <1>2, <2>1, <2>2
<1> QED BY <1>2, <1>3 DEF Good, RowsFollowTests

\* The row of a test, and what may stand before a line.
Quiet(l) == l.op = "row" => l.of # "test"
Follows(before, l) == Quiet(l) \/ before.op = "test"

\* A few lines in a row, each of which may follow the one before it.
LEMMA GoodTuples ==
  /\ <<>> \in Good
  /\ \A a \in Line : Quiet(a) => <<a>> \in Good
  /\ \A a, b \in Line :
        Quiet(a) /\ Follows(a, b) => <<a, b>> \in Good
  /\ \A a, b, c \in Line :
        Quiet(a) /\ Follows(a, b) /\ Follows(b, c) => <<a, b, c>> \in Good
  /\ \A a, b, c, d \in Line :
        Quiet(a) /\ Follows(a, b) /\ Follows(b, c) /\ Follows(c, d) => <<a, b, c, d>> \in Good
  /\ \A a, b, c, d, e \in Line :
        Quiet(a) /\ Follows(a, b) /\ Follows(b, c) /\ Follows(c, d) /\ Follows(d, e) => <<a, b, c, d, e>> \in Good
  /\ \A a, b, c, d, e, f \in Line :
        Quiet(a) /\ Follows(a, b) /\ Follows(b, c) /\ Follows(c, d) /\ Follows(d, e) /\ Follows(e, f) => <<a, b, c, d, e, f>> \in Good
<1> HIDE DEF Line
<1>1. ASSUME NEW s \in Seq(Line),
             \A j \in 1 .. Len(s) : IF j = 1 THEN Quiet(s[j]) ELSE Follows(s[j - 1], s[j])
      PROVE  s \in Good
  BY <1>1 DEF Good, RowsFollowTests, Quiet, Follows
<1>2. <<>> \in Good /\ \A a \in Line : Quiet(a) => <<a>> \in Good
  BY DEF Good, RowsFollowTests, Quiet
<1>3. ASSUME NEW a \in Line, NEW b \in Line,
             Quiet(a), Follows(a, b)
      PROVE  <<a, b>> \in Good
  <2> DEFINE s == <<a, b>>
  <2>1. s \in Seq(Line) /\ Len(s) = 2 /\ s[1] = a /\ s[2] = b
    OBVIOUS
  <2>2. \A j \in 1 .. 2 : j = 1 \/ j = 2
    OBVIOUS
  <2> HIDE DEF s
  <2>3. \A j \in 1 .. Len(s) : IF j = 1 THEN Quiet(s[j]) ELSE Follows(s[j - 1], s[j])
    BY <1>3, <2>1, <2>2
  <2>4. s \in Good
    BY <1>1, <2>1, <2>3
  <2> QED BY <2>4 DEF s
<1>4. ASSUME NEW a \in Line, NEW b \in Line, NEW c \in Line,
             Quiet(a), Follows(a, b), Follows(b, c)
      PROVE  <<a, b, c>> \in Good
  <2> DEFINE s == <<a, b, c>>
  <2>1. s \in Seq(Line) /\ Len(s) = 3 /\ s[1] = a /\ s[2] = b /\ s[3] = c
    OBVIOUS
  <2>2. \A j \in 1 .. 3 : j = 1 \/ j = 2 \/ j = 3
    OBVIOUS
  <2> HIDE DEF s
  <2>3. \A j \in 1 .. Len(s) : IF j = 1 THEN Quiet(s[j]) ELSE Follows(s[j - 1], s[j])
    BY <1>4, <2>1, <2>2
  <2>4. s \in Good
    BY <1>1, <2>1, <2>3
  <2> QED BY <2>4 DEF s
<1>5. ASSUME NEW a \in Line, NEW b \in Line, NEW c \in Line, NEW d \in Line,
             Quiet(a), Follows(a, b), Follows(b, c), Follows(c, d)
      PROVE  <<a, b, c, d>> \in Good
  <2> DEFINE s == <<a, b, c, d>>
  <2>1. s \in Seq(Line) /\ Len(s) = 4 /\ s[1] = a /\ s[2] = b /\ s[3] = c /\ s[4] = d
    OBVIOUS
  <2>2. \A j \in 1 .. 4 : j = 1 \/ j = 2 \/ j = 3 \/ j = 4
    OBVIOUS
  <2> HIDE DEF s
  <2>3. \A j \in 1 .. Len(s) : IF j = 1 THEN Quiet(s[j]) ELSE Follows(s[j - 1], s[j])
    BY <1>5, <2>1, <2>2
  <2>4. s \in Good
    BY <1>1, <2>1, <2>3
  <2> QED BY <2>4 DEF s
<1>6. ASSUME NEW a \in Line, NEW b \in Line, NEW c \in Line, NEW d \in Line, NEW e \in Line,
             Quiet(a), Follows(a, b), Follows(b, c), Follows(c, d), Follows(d, e)
      PROVE  <<a, b, c, d, e>> \in Good
  <2> DEFINE s == <<a, b, c, d, e>>
  <2>1. s \in Seq(Line) /\ Len(s) = 5 /\ s[1] = a /\ s[2] = b /\ s[3] = c /\ s[4] = d /\ s[5] = e
    OBVIOUS
  <2>2. \A j \in 1 .. 5 : j = 1 \/ j = 2 \/ j = 3 \/ j = 4 \/ j = 5
    OBVIOUS
  <2> HIDE DEF s
  <2>3. \A j \in 1 .. Len(s) : IF j = 1 THEN Quiet(s[j]) ELSE Follows(s[j - 1], s[j])
    BY <1>6, <2>1, <2>2
  <2>4. s \in Good
    BY <1>1, <2>1, <2>3
  <2> QED BY <2>4 DEF s
<1>7. ASSUME NEW a \in Line, NEW b \in Line, NEW c \in Line, NEW d \in Line, NEW e \in Line, NEW f \in Line,
             Quiet(a), Follows(a, b), Follows(b, c), Follows(c, d), Follows(d, e), Follows(e, f)
      PROVE  <<a, b, c, d, e, f>> \in Good
  <2> DEFINE s == <<a, b, c, d, e, f>>
  <2>1. s \in Seq(Line) /\ Len(s) = 6 /\ s[1] = a /\ s[2] = b /\ s[3] = c /\ s[4] = d /\ s[5] = e /\ s[6] = f
    OBVIOUS
  <2>2. \A j \in 1 .. 6 : j = 1 \/ j = 2 \/ j = 3 \/ j = 4 \/ j = 5 \/ j = 6
    OBVIOUS
  <2> HIDE DEF s
  <2>3. \A j \in 1 .. Len(s) : IF j = 1 THEN Quiet(s[j]) ELSE Follows(s[j - 1], s[j])
    BY <1>7, <2>1, <2>2
  <2>4. s \in Good
    BY <1>1, <2>1, <2>3
  <2> QED BY <2>4 DEF s
<1> QED BY <1>2, <1>3, <1>4, <1>5, <1>6, <1>7

\* The words and patterns of the scripts.
LEMMA ScriptData ==
  /\ {REGION, RETENTION, TOPOLOGY} \subseteq Seq(Nat)
  /\ {CodewordWords(MISCORRECT_ADDR), CodewordWords(UNCORR_ADDR)} \subseteq Seq(Nat)
  /\ REGION # <<>>
  /\ {TOPO_PATTERN, REGION_PATTERN, RETENTION_PATTERN, Zeros} \subseteq Data
  /\ {SMOKE_ADDR, BITFLIP_ADDR, STUCK_ADDR, SOFT_ADDR, MISCORRECT_ADDR, UNCORR_ADDR,
      UNCORR_ADDR + WordsPerCodeword - 1, WORD_BITS - 1} \subseteq Nat
<1>1. WordsPerCodeword \in Nat \ {0}
  BY MemoryTestAssumption
<1>2. MemoryWords \in Nat
  BY <1>1, DramAssumption DEF MemoryWords
<1>3. /\ {SMOKE_ADDR, BITFLIP_ADDR, STUCK_ADDR, SOFT_ADDR, MISCORRECT_ADDR, UNCORR_ADDR}
            \subseteq 0 .. MemoryWords - 1
      /\ {REGION, RETENTION, TOPOLOGY} \subseteq Seq(0 .. MemoryWords - 1) \ {<<>>}
  BY ScenariosAssumption
<1>4. Seq(0 .. MemoryWords - 1) \subseteq Seq(Nat)
  BY <1>2
<1>5. {REGION, RETENTION, TOPOLOGY} \subseteq Seq(Nat) /\ REGION # <<>>
  <2> DEFINE Words == Seq(0 .. MemoryWords - 1)
  <2> DEFINE Numbers == Seq(Nat)
  <2> HIDE DEF Words, Numbers
  <2>1. {REGION, RETENTION, TOPOLOGY} \subseteq Words \ {<<>>} /\ Words \subseteq Numbers
    BY <1>3, <1>4 DEF Words, Numbers
  <2> QED BY <2>1 DEF Numbers
<1>6. /\ {SMOKE_ADDR, BITFLIP_ADDR, STUCK_ADDR, SOFT_ADDR, MISCORRECT_ADDR, UNCORR_ADDR}
            \subseteq Nat
      /\ UNCORR_ADDR + WordsPerCodeword - 1 \in Nat
  BY <1>1, <1>2, <1>3
<1>7. {CodewordWords(MISCORRECT_ADDR), CodewordWords(UNCORR_ADDR)} \subseteq Seq(Nat)
  BY <1>1, <1>6 DEF CodewordWords
<1>8. {TOPO_PATTERN, REGION_PATTERN, RETENTION_PATTERN, Zeros} \subseteq Data
  BY DEF TOPO_PATTERN, REGION_PATTERN, RETENTION_PATTERN, Zeros, Data
<1> QED BY <1>5, <1>6, <1>7, <1>8 DEF WORD_BITS

\* Only the row of a test cares about the line before it.
LEMMA QuietLines ==
  /\ \A name, walk, pattern : Quiet(Test(name, walk, pattern))
  /\ \A walk, pattern : Quiet(FillLoop(walk, pattern))
  /\ \A f, bail : Quiet(AddTo(f, bail))
  /\ \A word, pattern : Quiet(WriteWord(word, pattern))
  /\ \A word : Quiet(ReadWord(word))
  /\ \A word, positions : Quiet(FlipBits(word, positions))
  /\ Quiet(ClearFaults) /\ Quiet(ResetStats) /\ Quiet(Refresh) /\ Quiet(ScrubRegion)
  /\ \A on : Quiet(Odecc(on)) /\ Quiet(Agree(on))
  /\ \A celsius : Quiet(Temperature(celsius))
  /\ \A ms : Quiet(Advance(ms))
  /\ Quiet(Row("matrix")) /\ Quiet(Row("smoke")) /\ Quiet(Row("scrub"))
  /\ \A that : Quiet(Require(that))
  /\ \A before, l : Quiet(l) => Follows(before, l)
  /\ \A name, walk, pattern, l : Follows(Test(name, walk, pattern), l)
BY LineOps DEF Quiet, Follows

\* The calls of error_injection.c.
LEMMA InjectionsAreGood ==
  /\ \A word \in Nat, positions \in SUBSET Nat : inject_bit_flip32(word, positions) \in Good
  /\ inject_stuck_at32("STUCK_AT_0", STUCK_ADDR, {1}) \in Good
<1> USE LineForms, QuietLines, GoodTuples
<1> HIDE DEF Line, Good, Quiet, Follows
<1>1. ASSUME NEW word \in Nat, NEW positions \in SUBSET Nat
      PROVE  inject_bit_flip32(word, positions) \in Good
  <2>1. ReadWord(word) \in Line /\ FlipBits(word, positions) \in Line
    OBVIOUS
  <2>2. Quiet(ReadWord(word)) /\ Quiet(FlipBits(word, positions))
    OBVIOUS
  <2> QED BY <2>1, <2>2 DEF inject_bit_flip32
<1>2. inject_stuck_at32("STUCK_AT_0", STUCK_ADDR, {1}) \in Good
  <2>1. ReadWord(STUCK_ADDR) \in Line /\ AddTo(Fault6, "fail") \in Line
    BY ScriptData
  <2>2. Quiet(ReadWord(STUCK_ADDR)) /\ Quiet(AddTo(Fault6, "fail"))
    OBVIOUS
  <2> QED BY <2>1, <2>2 DEF inject_stuck_at32, Fault6
<1> QED BY <1>1, <1>2

\* A test with its row and its condition.
LEMMA TestsAreGood ==
  ASSUME NEW t \in Line, t.op = "test"
  PROVE  /\ <<t, Row("test")>> \in Good /\ <<ResetStats, t, Row("test")>> \in Good
         /\ \A that \in Verdicts :
               /\ <<t, Row("test"), Require(that)>> \in Good
               /\ <<ResetStats, t, Row("test"), Require(that)>> \in Good
               /\ <<ClearFaults, t, Require(that)>> \in Good
         /\ \A detects \in BOOLEAN : <<t, Row("test"), Agree(detects)>> \in Good
<1>1. Quiet(t) /\ \A l : Follows(t, l)
  BY DEF Quiet, Follows
<1>2. Row("test") \in Line /\ ResetStats \in Line /\ ClearFaults \in Line
  BY LineForms
<1>3. /\ \A that \in Verdicts : Require(that) \in Line
      /\ \A detects \in BOOLEAN : Agree(detects) \in Line
  BY LineForms
<1>4. /\ Quiet(ResetStats) /\ Quiet(ClearFaults) /\ \A before : Follows(before, t)
      /\ \A before, that : Follows(before, Require(that)) /\ Follows(before, Agree(that))
  BY <1>1, QuietLines
<1> HIDE DEF Line, Good, Quiet, Follows
<1> DEFINE row == Row("test")
<1> HIDE DEF row
<1>5. row \in Line
  BY <1>2 DEF row
<1>6. <<t, row>> \in Good /\ <<ResetStats, t, row>> \in Good
  BY <1>1, <1>2, <1>4, <1>5, GoodTuples
<1>7. ASSUME NEW that \in Verdicts
      PROVE  /\ <<t, row, Require(that)>> \in Good
             /\ <<ResetStats, t, row, Require(that)>> \in Good
             /\ <<ClearFaults, t, Require(that)>> \in Good
  BY <1>1, <1>2, <1>3, <1>4, <1>5, GoodTuples
<1>8. ASSUME NEW detects \in BOOLEAN PROVE <<t, row, Agree(detects)>> \in Good
  BY <1>1, <1>2, <1>3, <1>4, <1>5, GoodTuples
<1> QED BY <1>6, <1>7, <1>8 DEF row

\* tc2 to tc9 and the two single modes.
LEMMA PlainScriptsAreGood ==
  /\ tc2_topology_pattern \in Good /\ tc3_basic_rw \in Good /\ tc4_constant_pattern \in Good
  /\ tc5_odecc_escape \in Good /\ tc6_stuck_escape \in Good /\ tc7_scrub_screen \in Good
  /\ tc8_double_bit \in Good /\ tc9_march_c_minus \in Good
  /\ run_cli_constant \in Good /\ run_cli_march \in Good
<1>1. /\ {Test("topology", TOPOLOGY, TOPO_PATTERN), Test("constant", REGION, REGION_PATTERN),
          Test("verify", REGION, REGION_PATTERN), Test("march", REGION, {}),
          Test("verify", CodewordWords(MISCORRECT_ADDR), REGION_PATTERN),
          Test("verify", CodewordWords(UNCORR_ADDR), REGION_PATTERN)} \subseteq Line
  BY LineForms, ScriptData DEF Zeros
<1>2. \A name, walk, pattern : Test(name, walk, pattern).op = "test"
  BY LineOps
<1>3. /\ \A word \in Nat, positions \in SUBSET Nat : inject_bit_flip32(word, positions) \in Good
      /\ inject_stuck_at32("STUCK_AT_0", STUCK_ADDR, {1}) \in Good
  BY InjectionsAreGood
<1>4. \A that \in {"passed", "smoke", "escaped", "screened", "miscorrected", "uncorrectable"} :
         that \in Verdicts
  BY DEF Verdicts
<1>5. <<ResetStats>> \in Good /\ \A s, t \in Good : s \o t \in Good
  BY GoodTuples, GoodJoins, LineForms, QuietLines
<1>6. /\ inject_bit_flip32(BITFLIP_ADDR, {0}) \in Good /\ inject_bit_flip32(SOFT_ADDR, {4}) \in Good
      /\ inject_bit_flip32(MISCORRECT_ADDR, {0}) \in Good
      /\ inject_bit_flip32(MISCORRECT_ADDR, {1}) \in Good
      /\ inject_bit_flip32(UNCORR_ADDR, {0}) \in Good
      /\ inject_bit_flip32(UNCORR_ADDR + WordsPerCodeword - 1, {WORD_BITS - 1}) \in Good
  BY <1>3, ScriptData
<1> HIDE DEF Line, Good
<1>7. tc2_topology_pattern \in Good /\ tc4_constant_pattern \in Good /\ tc9_march_c_minus \in Good
  BY <1>1, <1>2, <1>4, TestsAreGood DEF tc2_topology_pattern, tc4_constant_pattern,
     tc9_march_c_minus
<1>8. run_cli_constant \in Good /\ run_cli_march \in Good
  BY <1>1, <1>2, TestsAreGood DEF run_cli_constant, run_cli_march
<1>9. tc3_basic_rw \in Good
  <2> DEFINE a == WriteWord(SMOKE_ADDR, SMOKE_PATTERN)
  <2> DEFINE b == ReadWord(SMOKE_ADDR)
  <2> DEFINE c == Row("smoke")
  <2> DEFINE d == Require("smoke")
  <2>1. a \in Line /\ b \in Line /\ c \in Line /\ d \in Line
    BY <1>4, LineForms, ScriptData
  <2>2. Quiet(a) /\ Quiet(b) /\ Quiet(c) /\ Quiet(d)
    BY QuietLines
  <2> HIDE DEF a, b, c, d
  <2>3. <<a, b, c, d>> \in Good
    BY <2>1, <2>2, GoodTuples, QuietLines
  <2> QED BY <2>3 DEF tc3_basic_rw, a, b, c, d
<1>10. tc5_odecc_escape \in Good /\ tc6_stuck_escape \in Good
  <2>1. /\ <<Test("verify", REGION, REGION_PATTERN), Row("test"), Require("escaped")>> \in Good
        /\ <<Test("constant", REGION, REGION_PATTERN), Row("test"), Require("escaped")>> \in Good
    BY <1>1, <1>2, <1>4, TestsAreGood
  <2> QED BY <1>3, <1>5, <1>6, <2>1 DEF tc5_odecc_escape, tc6_stuck_escape
<1>11. tc7_scrub_screen \in Good
  <2> DEFINE a == Row("scrub")
  <2> DEFINE b == Require("screened")
  <2>1. a \in Line /\ b \in Line /\ ScrubRegion \in Line
    BY <1>4, LineForms
  <2>2. Quiet(a) /\ Quiet(b) /\ Quiet(ScrubRegion)
    BY QuietLines
  <2> HIDE DEF a, b
  <2>3. <<ScrubRegion, a, ScrubRegion, a, b>> \in Good
    BY <2>1, <2>2, GoodTuples, QuietLines
  <2>4. inject_bit_flip32(SOFT_ADDR, {4}) \o <<ScrubRegion, a, ScrubRegion, a, b>> \in Good
    BY <1>5, <1>6, <2>3
  <2> QED BY <2>4 DEF tc7_scrub_screen, a, b
<1>12. tc8_double_bit \in Good
  <2> DEFINE s1 == <<ClearFaults, Test("constant", REGION, REGION_PATTERN), Require("passed")>>
  <2> DEFINE s2 == inject_bit_flip32(MISCORRECT_ADDR, {0})
  <2> DEFINE s3 == inject_bit_flip32(MISCORRECT_ADDR, {1})
  <2> DEFINE s4 == <<ResetStats, Test("verify", CodewordWords(MISCORRECT_ADDR), REGION_PATTERN),
                     Row("test"), Require("miscorrected")>>
  <2> DEFINE s5 == inject_bit_flip32(UNCORR_ADDR, {0})
  <2> DEFINE s6 == inject_bit_flip32(UNCORR_ADDR + WordsPerCodeword - 1, {WORD_BITS - 1})
  <2> DEFINE s7 == <<ResetStats, Test("verify", CodewordWords(UNCORR_ADDR), REGION_PATTERN),
                     Row("test"), Require("uncorrectable")>>
  <2>1. s1 \in Good /\ s4 \in Good /\ s7 \in Good
    BY <1>1, <1>2, <1>4, TestsAreGood
  <2>2. s2 \in Good /\ s3 \in Good /\ s5 \in Good /\ s6 \in Good
    BY <1>6
  <2>3. tc8_double_bit = s1 \o s2 \o s3 \o s4 \o s5 \o s6 \o s7
    BY DEF tc8_double_bit
  <2> HIDE DEF s1, s2, s3, s4, s5, s6, s7
  <2> QED BY <1>5, <2>1, <2>2, <2>3
<1> QED BY <1>7, <1>8, <1>9, <1>10, <1>11, <1>12

\* The matrix of tc10.
LEMMA MatrixIsGood ==
  ASSUME NEW f \in WeakFaults, NEW run \in Line, run.op = "test", NEW detects \in BOOLEAN
  PROVE  MatrixCell(f, run, detects) \in Good
<1> DEFINE b == FillLoop(REGION, {})
<1> DEFINE c == AddTo(f, "odecc_back")
<1> DEFINE d == Row("matrix")
<1> DEFINE e == Agree(detects)
<1>1. ClearFaults \in Line /\ b \in Line /\ c \in Line /\ d \in Line /\ e \in Line
  BY LineForms, ScriptData DEF Zeros
<1>2. Quiet(ClearFaults) /\ Quiet(b) /\ Quiet(c) /\ Quiet(d) /\ Quiet(e) /\ Quiet(run)
  BY QuietLines DEF Quiet
<1> HIDE DEF b, c, d, e
<1>3. \A before, l : Quiet(l) => Follows(before, l)
  BY QuietLines
<1>4. <<ClearFaults, b, c, run, d, e>> \in Good
  <2> HIDE DEF Line, Good, Quiet, Follows
  <2> QED BY <1>1, <1>2, <1>3, GoodTuples
<1> QED BY <1>4 DEF MatrixCell, b, c, d, e

\* The matrix has five faults.
LEMMA MatrixFaultsAre ==
  DOMAIN MatrixFaults = 1 .. 5 /\ \A i \in 1 .. 5 : MatrixFaults[i].constant \in BOOLEAN
<1> DEFINE F1 == OneFault("STUCK_AT_0", MATRIX_ADDR, {0})
<1> DEFINE F2 == OneFault("STUCK_AT_1", MATRIX_ADDR, {0})
<1> DEFINE F3 == OneFault("TRANSITION_UP", MATRIX_ADDR, {1})
<1> DEFINE F4 == OneFault("TRANSITION_DOWN", MATRIX_ADDR, {1})
<1> DEFINE F5 == [OneFault("COUPLING_INV", MATRIX_ADDR, {1}) EXCEPT
                       !.victim_cw = CodewordOf(MATRIX_VICTIM),
                       !.victim_mask = CellMask(MATRIX_VICTIM, {0})]
<1>1. MatrixFaults = <<[fault |-> F1, constant |-> FALSE], [fault |-> F2, constant |-> TRUE],
                         [fault |-> F3, constant |-> TRUE], [fault |-> F4, constant |-> FALSE],
                         [fault |-> F5, constant |-> FALSE]>>
  BY DEF MatrixFaults
<1> HIDE DEF F1, F2, F3, F4, F5
<1>2. \A i \in 1 .. 5 : i = 1 \/ i = 2 \/ i = 3 \/ i = 4 \/ i = 5
    OBVIOUS
<1>3. DOMAIN MatrixFaults = 1 .. 5
  BY <1>1
<1>4. /\ MatrixFaults[1].constant = FALSE /\ MatrixFaults[2].constant = TRUE
        /\ MatrixFaults[3].constant = TRUE /\ MatrixFaults[4].constant = FALSE
        /\ MatrixFaults[5].constant = FALSE
  BY <1>1
<1> QED BY <1>2, <1>3, <1>4

LEMMA tc10IsGood == tc10_coverage_matrix \in Good
<1> DEFINE Cells(i) ==
          MatrixCell(MatrixFaults[i].fault, Test("constant", REGION, REGION_PATTERN),
                     MatrixFaults[i].constant)
          \o MatrixCell(MatrixFaults[i].fault, Test("march", REGION, {}), TRUE)
<1> DEFINE ss == [i \in DOMAIN MatrixFaults |-> Cells(i)]
<1>1. DOMAIN MatrixFaults = 1 .. 5 /\ \A i \in 1 .. 5 : MatrixFaults[i].constant \in BOOLEAN
  BY MatrixFaultsAre
<1>2. ASSUME NEW i \in 1 .. 5 PROVE Cells(i) \in Good
  <2> DEFINE c == Test("constant", REGION, REGION_PATTERN)
  <2> DEFINE m == Test("march", REGION, {})
  <2>1. c \in Line /\ m \in Line /\ c.op = "test" /\ m.op = "test"
    BY LineForms, LineOps, ScriptData DEF Zeros
  <2>2. MatrixFaults[i].fault \in WeakFaults
    BY DEF WeakFaults
  <2> HIDE DEF c, m, Line, Good
  <2>3. /\ MatrixCell(MatrixFaults[i].fault, c, MatrixFaults[i].constant) \in Good
        /\ MatrixCell(MatrixFaults[i].fault, m, TRUE) \in Good
    BY <1>1, <2>1, <2>2, MatrixIsGood
  <2> QED BY <2>3, GoodJoins DEF c, m
<1> HIDE DEF Cells
<1>3. ss \in Seq(Good)
  <2>1. ss \in [1 .. 5 -> Good]
    BY <1>1, <1>2
  <2> HIDE DEF ss, Good
  <2>2. \A n \in Nat : [1 .. n -> Good] \subseteq Seq(Good)
    OBVIOUS
  <2>3. 5 \in Nat
    OBVIOUS
  <2> QED BY <2>1, <2>2, <2>3
<1>4. Good \in SUBSET Seq(Line) /\ <<>> \in Good /\ \A s, t \in Good : s \o t \in Good
  BY GoodTuples, GoodJoins DEF Good
<1>5. <<Odecc(FALSE)>> \in Good /\ <<ClearFaults, Odecc(TRUE), Require("match")>> \in Good
  <2> DEFINE a == Odecc(TRUE)
  <2> DEFINE b == Require("match")
  <2>1. Odecc(FALSE) \in Line /\ a \in Line /\ b \in Line /\ ClearFaults \in Line
    BY LineForms DEF Verdicts
  <2>2. Quiet(Odecc(FALSE)) /\ Quiet(a) /\ Quiet(b) /\ Quiet(ClearFaults)
    BY QuietLines
  <2> HIDE DEF a, b, Line, Good, Quiet, Follows
  <2>3. <<ClearFaults, a, b>> \in Good
    BY <2>1, <2>2, GoodTuples, QuietLines
  <2>4. <<Odecc(FALSE)>> \in Good
    BY <2>1, <2>2, GoodTuples
  <2> QED BY <2>3, <2>4 DEF a, b
<1> DEFINE flat == FlattenSeq(ss)
<1>6. flat \in Good
  <2> HIDE DEF Good, ss, Line
  <2> QED BY <1>3, <1>4, FlattenCloses
<1>7. tc10_coverage_matrix
         = <<Odecc(FALSE)>> \o flat \o <<ClearFaults, Odecc(TRUE), Require("match")>>
  BY DEF tc10_coverage_matrix, Cells
<1> HIDE DEF flat, Good
<1> QED BY <1>4, <1>5, <1>6, <1>7

\* The cases of tc11 and the points of the sweep.
LEMMA CasesAreGood ==
  ASSUME NEW celsius \in Int, NEW ms \in Nat, NEW steps \in Nat, NEW refreshes \in BOOLEAN,
         NEW loses \in BOOLEAN
  PROVE  RetentionCase(celsius, ms, steps, refreshes, loses) \in Good
<1> DEFINE t == Test("verify", RETENTION, RETENTION_PATTERN)
<1>1. t \in Line /\ t.op = "test"
  BY LineForms, LineOps, ScriptData
<1>2. <<t, Row("test"), Agree(loses)>> \in Good
  BY <1>1, TestsAreGood
<1> DEFINE a == Temperature(celsius)
<1> DEFINE b == FillLoop(RETENTION, RETENTION_PATTERN)
<1> DEFINE c == Advance(ms)
<1>3. a \in Line /\ b \in Line /\ c \in Line /\ Refresh \in Line
  BY LineForms, ScriptData
<1>4. Quiet(a) /\ Quiet(b) /\ Quiet(c) /\ Quiet(Refresh)
  BY QuietLines
<1>5. <<a, Refresh, b>> \in Good /\ <<c, Refresh>> \in Good /\ <<c>> \in Good
  <2> HIDE DEF a, b, c, Line, Good, Quiet, Follows
  <2> QED BY <1>3, <1>4, GoodTuples, QuietLines
<1> DEFINE ss == [s \in 1 .. steps |-> IF refreshes THEN <<c, Refresh>> ELSE <<c>>]
<1>6. ss \in Seq(Good)
  <2> DEFINE one == <<c>>
  <2> DEFINE both == <<c, Refresh>>
  <2>1. one \in Good /\ both \in Good
    BY <1>5
  <2>2. ss = [s \in 1 .. steps |-> IF refreshes THEN both ELSE one]
    OBVIOUS
  <2> HIDE DEF Good, c, one, both, ss
  <2>3. ss \in [1 .. steps -> Good]
    BY <2>1, <2>2
  <2> QED BY <2>3
<1>7. Good \in SUBSET Seq(Line) /\ <<>> \in Good /\ \A s, u \in Good : s \o u \in Good
  BY GoodTuples, GoodJoins DEF Good
<1> DEFINE flat == FlattenSeq(ss)
<1>8. flat \in Good
  <2> HIDE DEF Good, ss, Line
  <2> QED BY <1>6, <1>7, FlattenCloses
<1>9. RetentionCase(celsius, ms, steps, refreshes, loses)
         = <<a, Refresh, b>> \o flat \o <<t, Row("test"), Agree(loses)>>
  BY DEF RetentionCase
<1> HIDE DEF flat, Good, a, b, t
<1> QED BY <1>2, <1>5, <1>7, <1>8, <1>9

\* What goes before and after the cases.
LEMMA RetentionScriptIsGood ==
  ASSUME NEW cases \in Seq(Good)
  PROVE  RetentionScript(cases) \in Good
<1>1. Good \in SUBSET Seq(Line) /\ <<>> \in Good /\ \A s, t \in Good : s \o t \in Good
  BY GoodTuples, GoodJoins DEF Good
<1> DEFINE flat == FlattenSeq(cases)
<1>2. flat \in Good
  <2> HIDE DEF Good, Line
  <2> QED BY <1>1, FlattenCloses
<1> DEFINE a == Odecc(FALSE)
<1> DEFINE b == AddTo(WeakCell, "odecc_back")
<1> DEFINE c == Temperature(25)
<1> DEFINE d == Odecc(TRUE)
<1> DEFINE e == Require("match")
<1>3. /\ a \in Line /\ b \in Line /\ c \in Line /\ d \in Line /\ e \in Line
      /\ ClearFaults \in Line /\ Refresh \in Line
  <2>1. WeakCell \in WeakFaults /\ "match" \in Verdicts /\ 25 \in Int
    BY DEF WeakFaults, Verdicts
  <2>2. a \in Line /\ d \in Line /\ ClearFaults \in Line /\ Refresh \in Line
    BY LineForms
  <2> HIDE DEF Line, WeakFaults, Verdicts
  <2>3. b \in Line
    BY <2>1, LineForms
  <2>4. c \in Line
    BY <2>1, LineForms
  <2>5. e \in Line
    BY <2>1, LineForms
  <2> QED BY <2>2, <2>3, <2>4, <2>5
<1>4. /\ Quiet(a) /\ Quiet(b) /\ Quiet(c) /\ Quiet(d) /\ Quiet(e)
      /\ Quiet(ClearFaults) /\ Quiet(Refresh)
  BY QuietLines
<1>5. <<a, ClearFaults, b>> \in Good /\ <<ClearFaults, c, Refresh, d, e>> \in Good
  <2> HIDE DEF a, b, c, d, e, Line, Good, Quiet, Follows
  <2> QED BY <1>3, <1>4, GoodTuples, QuietLines
<1>6. RetentionScript(cases)
         = <<a, ClearFaults, b>> \o flat \o <<ClearFaults, c, Refresh, d, e>>
  BY DEF RetentionScript
<1> HIDE DEF flat, Good, a, b, c, d, e
<1> QED BY <1>1, <1>2, <1>5, <1>6

LEMMA tc11IsGood == tc11_retention_refresh \in Good
<1> DEFINE cases == <<RetentionCase(25, 50, 1, FALSE, TRUE), RetentionCase(25, 32, 3, TRUE, FALSE),
                      RetentionCase(95, 32, 1, TRUE, TRUE), RetentionCase(95, 16, 4, TRUE, FALSE)>>
<1>1. /\ RetentionCase(25, 50, 1, FALSE, TRUE) \in Good
      /\ RetentionCase(25, 32, 3, TRUE, FALSE) \in Good
      /\ RetentionCase(95, 32, 1, TRUE, TRUE) \in Good
      /\ RetentionCase(95, 16, 4, TRUE, FALSE) \in Good
  <2> HIDE DEF Good
  <2>1. /\ {25, 95} \subseteq Int /\ {50, 32, 16, 1, 3, 4} \subseteq Nat
        /\ TRUE \in BOOLEAN /\ FALSE \in BOOLEAN
    OBVIOUS
  <2>2. \A celsius \in Int, ms \in Nat, steps \in Nat, refreshes \in BOOLEAN, loses \in BOOLEAN :
           RetentionCase(celsius, ms, steps, refreshes, loses) \in Good
    BY CasesAreGood
  <2>3. RetentionCase(25, 50, 1, FALSE, TRUE) \in Good
    BY <2>1, <2>2
  <2>4. RetentionCase(25, 32, 3, TRUE, FALSE) \in Good
    BY <2>1, <2>2
  <2>5. RetentionCase(95, 32, 1, TRUE, TRUE) \in Good
    BY <2>1, <2>2
  <2>6. RetentionCase(95, 16, 4, TRUE, FALSE) \in Good
    BY <2>1, <2>2
  <2> QED BY <2>3, <2>4, <2>5, <2>6
<1>2. cases \in Seq(Good)
  <2> DEFINE a == RetentionCase(25, 50, 1, FALSE, TRUE)
  <2> DEFINE b == RetentionCase(25, 32, 3, TRUE, FALSE)
  <2> DEFINE c == RetentionCase(95, 32, 1, TRUE, TRUE)
  <2> DEFINE d == RetentionCase(95, 16, 4, TRUE, FALSE)
  <2>1. a \in Good /\ b \in Good /\ c \in Good /\ d \in Good
    BY <1>1
  <2> HIDE DEF Good, a, b, c, d
  <2>2. <<a, b, c, d>> \in Seq(Good)
    BY <2>1
  <2> QED BY <2>2 DEF a, b, c, d
<1> QED BY <1>2, RetentionScriptIsGood DEF tc11_retention_refresh

LEMMA shmooIsGood == run_cli_shmoo \in Good
<1> DEFINE row(t) == [p \in DOMAIN ShmooPeriods |-> shmoo_point(ShmooTemps[t], ShmooPeriods[p])]
<1> DEFINE ss == [t \in DOMAIN ShmooTemps |-> row(t)]
<1> DEFINE Many == Seq(Good)
<1>1. ShmooTemps \in Seq(Int) /\ ShmooPeriods \in Seq(Nat)
  BY ScenariosAssumption
<1>2. ASSUME NEW t \in DOMAIN ShmooTemps, NEW p \in DOMAIN ShmooPeriods
      PROVE  shmoo_point(ShmooTemps[t], ShmooPeriods[p]) \in Good
  <2> DEFINE celsius == ShmooTemps[t]
  <2> DEFINE ms == ShmooPeriods[p]
  <2> DEFINE loses == ms >= IF celsius > DRAM_REFRESH_HIGH_TEMP_C
                              THEN RETENTION_HOLD_MS \div 2 ELSE RETENTION_HOLD_MS
  <2>1. celsius \in Int /\ ms \in Nat /\ loses \in BOOLEAN /\ 3 \in Nat
    BY <1>1
  <2> HIDE DEF celsius, ms, loses, Good
  <2>2. RetentionCase(celsius, ms, 3, TRUE, loses) \in Good
    BY <2>1, CasesAreGood
  <2> QED BY <2>2 DEF shmoo_point, celsius, ms, loses
<1>3. ASSUME NEW t \in DOMAIN ShmooTemps PROVE row(t) \in Many
  <2> HIDE DEF Good
  <2>1. \A p \in DOMAIN ShmooPeriods : shmoo_point(ShmooTemps[t], ShmooPeriods[p]) \in Good
    BY <1>2
  <2>2. DOMAIN ShmooPeriods = 1 .. Len(ShmooPeriods) /\ Len(ShmooPeriods) \in Nat
    BY <1>1
  <2> QED BY <2>1, <2>2
<1>4. ss \in Seq(Many)
  <2> HIDE DEF row, Many
  <2>1. DOMAIN ShmooTemps = 1 .. Len(ShmooTemps) /\ Len(ShmooTemps) \in Nat
    BY <1>1
  <2> QED BY <1>3, <2>1
<1>5. Many \in SUBSET Seq(Good) /\ <<>> \in Many /\ \A s, t \in Many : s \o t \in Many
  <2> HIDE DEF Good
  <2> QED OBVIOUS
<1>6. FlattenSeq(ss) \in Many
  <2> HIDE DEF Good, ss, Many
  <2> QED BY <1>4, <1>5, FlattenCloses
<1>7. RetentionScript(FlattenSeq(ss)) \in Good
  BY <1>6, RetentionScriptIsGood
<1> QED BY <1>7 DEF run_cli_shmoo

\* Every script is made of lines, with the row of each test behind it.
LEMMA ScriptsAreGood == \A name \in DOMAIN Scripts : Scripts[name] \in Good
<1>1. <<Require("never")>> \in Good /\ <<Odecc(TRUE), Require("never")>> \in Good /\ <<>> \in Good
  <2> DEFINE a == Odecc(TRUE)
  <2> DEFINE b == Require("never")
  <2>1. a \in Line /\ b \in Line
    BY LineForms DEF Verdicts
  <2>2. Quiet(a) /\ Quiet(b)
    BY QuietLines
  <2> HIDE DEF a, b, Line, Good, Quiet, Follows
  <2>3. <<a, b>> \in Good /\ <<b>> \in Good /\ <<>> \in Good
    BY <2>1, <2>2, GoodTuples, QuietLines
  <2> QED BY <2>3 DEF a, b
<1> HIDE DEF Good
<1>2. /\ Scripts.tc1 \in Good /\ Scripts.tc2 \in Good /\ Scripts.tc3 \in Good
      /\ Scripts.tc4 \in Good /\ Scripts.tc5 \in Good /\ Scripts.tc6 \in Good
      /\ Scripts.tc7 \in Good /\ Scripts.tc8 \in Good /\ Scripts.tc9 \in Good
      /\ Scripts.constant \in Good /\ Scripts.march \in Good
  BY <1>1, PlainScriptsAreGood DEF Scripts
<1>3. Scripts.tc10 \in Good /\ Scripts.tc11 \in Good /\ Scripts.shmoo \in Good
  BY tc10IsGood, tc11IsGood, shmooIsGood DEF Scripts
<1>4. Scripts.addrmap \in Good /\ Scripts.fail \in Good /\ Scripts.odecc_back \in Good
  BY <1>1 DEF Scripts
<1>5. DOMAIN Scripts = {"tc1", "tc2", "tc3", "tc4", "tc5", "tc6", "tc7", "tc8", "tc9", "tc10",
                        "tc11", "constant", "march", "shmoo", "addrmap", "fail", "odecc_back"}
  BY DEF Scripts
<1> QED BY <1>2, <1>3, <1>4, <1>5

-----------------------------------------------------------------------------
(* What a row of the log owes the viewer.                                   *)

\* A passing or failing test whose words hide an error has counted a correction.
RowIsHonest(row) == row.fields = 13 /\ (row.hiding => row.ecc_corr > 0)
LogInv == IsSequence(log) /\ \A j \in 2 .. Len(log) : RowIsHonest(log[j])

\* Where run_selected and the running scenario are.
ScriptInv ==
    /\ script \in DOMAIN Scripts /\ line \in Nat \ {0}
    /\ left \in Seq(DOMAIN Scripts)
    /\ stage = "run" => left # <<>>

\* A test ends by checking its words in their order.  As long as no read was
\* corrected, each word it has checked reads as it is loaded.
CheckInv ==
    /\ test.walk \in Seq(Nat) /\ at \in Nat
    /\ todo \in Seq(ElementType)
    /\ todo # <<>> => todo[Len(todo)] = Check(test.pattern)
    /\ Silent => \A k \in DOMAIN test.walk : todo = <<>> \/ (Len(todo) = 1 /\ k <= at) =>
                    \A c : c = CodewordOf(test.walk[k]) => Plain(c)

\* The line before this one was a test.
AfterTest == line > 1 /\ line - 1 <= Len(Lines) /\ Lines[line - 1].op = "test"

RowsInv ==
    launched = "host" =>
        /\ ScriptInv /\ ecc_corr_count \in Nat /\ LogInv
        /\ stage = "run" /\ AfterTest => CheckInv

\* A read that was not corrected returned what it loaded, wherever it is.
LEMMA HostRead ==
  ASSUME NEW c, dram_read32(c), ecc_corr_count \in Nat
  PROVE  /\ ecc_corr_count' \in Nat /\ UNCHANGED <<data, parity, faults, odecc_enabled>>
         /\ Silent' => Silent /\ Plain(c)
<1> DEFINE n == Cardinality(Found({c}, "CORRECTED"))
<1>1. /\ UNCHANGED <<data, parity, faults, odecc_enabled>>
      /\ ecc_corr_count' = ecc_corr_count + n
  BY DEF dram_read32, CountEcc, cells
<1>2. Cardinality({c}) = 1 /\ Cardinality({}) = 0
  BY FS_Singleton, FS_EmptySet
<1>3. Found({c}, "CORRECTED") = IF odecc_enabled /\ Decoded(c).rc = "CORRECTED" THEN {c} ELSE {}
  BY DEF Found
<1>4. n \in Nat /\ (odecc_enabled /\ Decoded(c).rc = "CORRECTED" => n = 1)
  BY <1>2, <1>3
<1>5. ecc_corr_count' \in Nat
  BY <1>1, <1>4
<1>6. ASSUME Silent', ~odecc_enabled PROVE Silent /\ Plain(c)
  BY <1>6 DEF Silent, Plain, View
<1>7. ASSUME Silent', odecc_enabled PROVE Silent /\ Plain(c)
  <2>1. ecc_corr_count' = 0
    BY <1>1, <1>7 DEF Silent
  <2>2. ecc_corr_count = 0 /\ Decoded(c).rc # "CORRECTED"
    <3> HIDE DEF n
    <3>1. ecc_corr_count + n = 0
      BY <1>1, <2>1
    <3>2. ecc_corr_count = 0 /\ n = 0
      BY <1>4, <3>1
    <3> QED BY <1>4, <1>7, <3>2
  <2> DEFINE loaded_word == load_codeword(c)
  <2> DEFINE s == Syndrome(loaded_word, parity[c])
  <2> DEFINE hit == g_syndrome_to_pos[s]
  <2>3. s = {} \/ hit = {}
    BY <2>2 DEF Decoded, odecc_decode
  <2>4. g_syndrome_to_pos[{}] = {}
    <3>1. {} \in Parity /\ \A b \in DataBit : Label[b] # {}
      BY OdeccAssumption DEF Parity
    <3> QED BY <3>1 DEF g_syndrome_to_pos
  <2>5. hit = {}
    BY <2>3, <2>4
  <2>6. Decoded(c).data = SymDiff(loaded_word, hit \cap DataBit)
    BY DEF Decoded, odecc_decode
  <2> HIDE DEF hit, s
  <2>7. SymDiff(loaded_word, hit \cap DataBit) = loaded_word
    BY <2>5 DEF SymDiff
  <2> QED BY <1>7, <2>2, <2>6, <2>7 DEF Silent, Plain, View
<1> QED BY <1>1, <1>5, <1>6, <1>7

\* The rest of the elements still ends with the check.
LEMMA RestOfTodo ==
  ASSUME NEW S, NEW s \in Seq(S), s # <<>>
  PROVE  /\ Tail(s) \in Seq(S) /\ Len(Tail(s)) = Len(s) - 1 /\ Head(s) = s[1]
         /\ Len(s) \in Nat \ {0}
         /\ Len(s) = 1 => Tail(s) = <<>>
         /\ Tail(s) # <<>> => Tail(s)[Len(Tail(s))] = s[Len(s)] /\ Len(s) > 1
<1>1. Len(s) \in Nat \ {0} /\ Head(s) = s[1]
  OBVIOUS
<1>2. Tail(s) \in Seq(S) /\ Len(Tail(s)) = Len(s) - 1
  OBVIOUS
<1>3. \A k \in 1 .. Len(s) - 1 : Tail(s)[k] = s[k + 1]
  OBVIOUS
<1>4. \A u \in Seq(S) : u = <<>> <=> Len(u) = 0
  OBVIOUS
<1> QED BY <1>1, <1>2, <1>3, <1>4

\* An access of the loop keeps what the check has seen.
LEMMA AccessKeepsCheck ==
  ASSUME CheckInv, ecc_corr_count \in Nat, ReadStep \/ WriteStep
  PROVE  CheckInv' /\ ecc_corr_count' \in Nat
<1>1. /\ test' = test /\ todo # <<>>
      /\ test.walk \in Seq(Nat) /\ at \in Nat /\ todo \in Seq(ElementType)
      /\ todo[Len(todo)] = Check(test.pattern)
  BY DEF CheckInv, ReadStep, WriteStep
<1>2. /\ Tail(todo) \in Seq(ElementType) /\ Len(Tail(todo)) = Len(todo) - 1
      /\ Element = todo[1] /\ Len(todo) \in Nat \ {0}
      /\ Len(todo) = 1 => Tail(todo) = <<>>
      /\ Tail(todo) # <<>> => Tail(todo)[Len(Tail(todo))] = todo[Len(todo)] /\ Len(todo) > 1
  BY <1>1, RestOfTodo DEF Element
<1>3. Len(todo) = 1 => ~Element.do_write /\ ~Element.descending
  BY <1>1, <1>2 DEF Check, Up
<1>4. /\ at' \in Nat /\ todo' \in Seq(ElementType)
      /\ todo' # <<>> => todo'[Len(todo')] = Check(test.pattern)
  <2>1. \/ UNCHANGED <<at, todo>>
        \/ at' = at + 1 /\ todo' = todo
        \/ at' = 0 /\ todo' = Tail(todo)
    BY DEF ReadStep, WriteStep, NextWord
  <2>2. CASE todo' = todo /\ at' \in {at, at + 1}
    BY <1>1, <2>2
  <2>3. CASE at' = 0 /\ todo' = Tail(todo)
    <3> DEFINE rest == Tail(todo)
    <3>1. rest \in Seq(ElementType) /\ (rest # <<>> => rest[Len(rest)] = todo[Len(todo)])
      BY <1>2
    <3>2. todo' = rest
      BY <2>3
    <3> HIDE DEF rest
    <3> QED BY <1>1, <2>3, <3>1, <3>2
  <2> QED BY <2>1, <2>2, <2>3
<1>5. ecc_corr_count' \in Nat
  <2>1. CASE ReadStep
    BY <2>1, HostRead DEF ReadStep
  <2>2. CASE WriteStep
    BY <2>2 DEF WriteStep, dram_write32, ecc_stats
  <2> QED BY <2>1, <2>2
<1>6. ASSUME Silent', NEW k \in DOMAIN test.walk, todo' = <<>> \/ (Len(todo') = 1 /\ k <= at'),
             NEW c, c = CodewordOf(test.walk[k])
      PROVE  Plain(c)'
  <2>1. DOMAIN test.walk = 1 .. Len(test.walk) /\ Len(test.walk) \in Nat
    BY <1>1
  <2>2. Len(todo) = 1
    <3> SUFFICES ASSUME Len(todo) # 1 PROVE FALSE
      OBVIOUS
    <3>1. todo' = todo \/ (at' = 0 /\ todo' = Tail(todo))
      BY DEF ReadStep, WriteStep, NextWord
    <3>2. Len(todo) > 1 /\ Len(Tail(todo)) # 0 /\ Len(<<>>) = 0
      BY <1>2
    <3>3. todo' # <<>>
      BY <3>1, <3>2, <1>1
    <3>4. at' = 0 /\ k <= at'
      BY <1>6, <3>1, <3>3
    <3> QED BY <2>1, <3>4
  <2>3. ReadStep /\ ~Element.do_write /\ ~Element.descending
    BY <1>3, <2>2 DEF WriteStep
  <2>4. k <= at + 1
    <3>1. NextWord
      BY <2>3 DEF ReadStep
    <3> QED BY <1>1, <1>2, <1>6, <2>1, <2>2, <3>1 DEF NextWord
  <2>5. PICK d : d = CodewordOf(Current)
    OBVIOUS
  <2>6. dram_read32(d) /\ Turn = at + 1
    BY <2>3, <2>5 DEF ReadStep, Turn
  <2>7. Silent /\ Plain(d) /\ UNCHANGED <<data, parity, faults, odecc_enabled>>
    BY <1>6, <2>6, HostRead
  <2>8. Plain(c)
    <3>1. CASE k = at + 1
      BY <1>6, <2>5, <2>6, <2>7, <3>1 DEF Current
    <3>2. CASE k # at + 1
      <4>1. k <= at
        BY <1>1, <2>1, <2>4, <3>2
      <4> QED BY <1>6, <2>2, <2>7, <4>1 DEF CheckInv
    <3> QED BY <3>1, <3>2
  <2> QED BY <2>7, <2>8, PlainUnchanged
<1> QED BY <1>1, <1>4, <1>5, <1>6 DEF CheckInv

\* A test starts with nothing checked.
LEMMA StartChecks ==
  ASSUME NEW name \in TestName, NEW walk \in Seq(Nat), NEW pattern \in Data,
         name = "march" => pattern = Zeros, Start(name, walk, pattern)
  PROVE  CheckInv'
<1> DEFINE E == Elements(name, pattern)
<1>1. E \in Seq(ElementType) /\ Len(E) \in 1 .. 6 /\ E[Len(E)] = Check(pattern)
  BY ElementsFit
<1>2. /\ test'.walk = walk /\ test'.pattern = pattern /\ at' = 0 /\ todo' = E
  BY DEF Start, Loop
<1> HIDE DEF E
<1>3. E # <<>> /\ Len(E) # 0
  <2>1. \A n \in 1 .. 6 : n # 0
    OBVIOUS
  <2>2. Len(E) # 0
    BY <1>1, <2>1
  <2>3. Len(<<>>) = 0
    OBVIOUS
  <2> QED BY <2>2, <2>3
<1>4. DOMAIN walk = 1 .. Len(walk)
  OBVIOUS
<1> QED BY <1>1, <1>2, <1>3, <1>4 DEF CheckInv

-----------------------------------------------------------------------------
\* Where a step of a script leaves it: at its next line, with all else as it was.
LEMMA NextLineFacts ==
  ASSUME ScriptInv, NextLine, line <= Len(Lines)
  PROVE  ScriptInv' /\ stage' = stage /\ (AfterTest' => Here.op = "test")
<1>1. line' = line + 1 /\ script' = script /\ left' = left /\ stage' = stage
  BY DEF NextLine, program
<1>2. Lines' = Lines /\ line' - 1 = line
  BY <1>1 DEF Lines, ScriptInv
<1> QED BY <1>1, <1>2 DEF ScriptInv, AfterTest, Here

\* Starting a scenario.
LEMMA CallFacts ==
  ASSUME NEW scenarios \in Seq(DOMAIN Scripts), scenarios # <<>>, Call(scenarios)
  PROVE  ScriptInv' /\ ~AfterTest'
<1>1. left' = scenarios /\ script' = Head(scenarios) /\ line' = 1
  BY DEF Call
<1>2. Head(scenarios) \in DOMAIN Scripts
  OBVIOUS
<1> QED BY <1>1, <1>2 DEF ScriptInv, AfterTest

\* A scenario returns.
LEMMA ReturnFacts ==
  ASSUME ScriptInv, stage = "run", NEW rc, Return(rc)
  PROVE  ScriptInv' /\ (stage' = "run" => ~AfterTest')
<1>1. left \in Seq(DOMAIN Scripts) /\ left # <<>>
  BY DEF ScriptInv
<1>2. CASE rc = 0 /\ Tail(left) # <<>>
  <2>1. Call(Tail(left))
    BY <1>2 DEF Return
  <2>2. Tail(left) \in Seq(DOMAIN Scripts)
    BY <1>1
  <2> QED BY <1>2, <2>1, <2>2, CallFacts
<1>3. CASE ~(rc = 0 /\ Tail(left) # <<>>)
  BY <1>3 DEF Return, ScriptInv
<1> QED BY <1>2, <1>3

\* What run_selected is given.
LEMMA SelectedScripts ==
  ASSUME NEW test_name
  PROVE  Selected(test_name) \in Seq(DOMAIN Scripts) \ {<<>>}
<1>1. {"tc1", "tc2", "tc3", "tc4", "tc5", "tc6", "tc7", "tc8", "tc9", "tc10", "tc11", "fail"}
        \subseteq DOMAIN Scripts
  BY DEF Scripts
<1>2. kTests \in Seq(DOMAIN Scripts) /\ kTests # <<>>
  BY <1>1 DEF kTests
<1>3. \A name \in DOMAIN Scripts : <<name>> \in Seq(DOMAIN Scripts) /\ <<name>> # <<>>
  OBVIOUS
<1> QED BY <1>1, <1>2, <1>3 DEF Selected
-----------------------------------------------------------------------------
(* Every step of the host program keeps its rows honest.                    *)

\* The line that runs is a line of a script, and a row of a test follows one.
LEMMA HereIsALine ==
  ASSUME ScriptInv, line <= Len(Lines)
  PROVE  /\ Here \in Line
         /\ Here.op = "row" /\ Here.of = "test" => AfterTest
<1>1. Lines \in Good /\ line \in Nat \ {0}
  BY ScriptsAreGood DEF ScriptInv, Lines
<1>2. Lines \in Seq(Line) /\ RowsFollowTests(Lines)
  BY <1>1 DEF Good
<1>3. line \in 1 .. Len(Lines)
  BY <1>1, <1>2
<1>4. Here \in Line
  <2> HIDE DEF Line
  <2> QED BY <1>2, <1>3 DEF Here
<1>5. Here.op = "row" /\ Here.of = "test" => line > 1 /\ Lines[line - 1].op = "test"
  BY <1>2, <1>3 DEF Here, RowsFollowTests
<1>6. line - 1 <= Len(Lines)
  BY <1>1, <1>2, <1>3
<1> QED BY <1>4, <1>5, <1>6 DEF AfterTest

\* The counter of corrections stays a number.
LEMMA MemoryCallCounts ==
  ASSUME CallMemory, ecc_corr_count \in Nat
  PROVE  ecc_corr_count' \in Nat /\ Here.op # "test" /\ Do(Here.op)
<1>1. CASE Do("read") /\ dram_read32(CodewordOf(Here.at))
  BY <1>1, HostRead DEF Do
<1>2. CASE Do("reset") /\ dram_reset_ecc_stats
  BY <1>2 DEF Do, dram_reset_ecc_stats
<1>3. CASE /\ ecc_corr_count' = ecc_corr_count
           /\ \/ Do("write") \/ Do("flip") \/ Do("clear") \/ Do("odecc") \/ Do("temperature")
              \/ Do("refresh") \/ Do("advance")
  BY <1>3 DEF Do
<1> QED BY <1>1, <1>2, <1>3 DEF CallMemory, dram_write32, dram_inject_bit_flip,
        dram_clear_faults, dram_set_odecc_enabled, dram_set_temperature, dram_refresh,
        dram_advance_time, ecc_stats

LEMMA ScrubCounts ==
  ASSUME ScrubLine, ecc_corr_count \in Nat
  PROVE  ecc_corr_count' \in Nat
<1> DEFINE first == CodewordOf(Head(REGION))
<1> DEFINE last == CodewordOf(Last(REGION))
<1> DEFINE fixed == Found(first .. last, "CORRECTED")
<1>1. WordsPerCodeword \in Nat \ {0} /\ REGION \in Seq(Nat) /\ REGION # <<>>
  BY MemoryTestAssumption, ScriptData
<1>2. Head(REGION) \in Nat /\ Last(REGION) \in Nat
  BY <1>1 DEF Last
<1>3. first \in Int /\ last \in Int
  BY <1>1, <1>2 DEF CodewordOf
<1>4. ecc_corr_count' = ecc_corr_count + Cardinality(fixed)
  BY DEF ScrubLine, dram_scrub_range, CountEcc
<1>5. fixed \subseteq first .. last
  BY DEF Found
<1> HIDE DEF first, last, fixed
<1>6. Cardinality(fixed) \in Nat
  <2>1. IsFiniteSet(first .. last)
    BY <1>3, FS_Interval
  <2>2. IsFiniteSet(fixed)
    BY <1>5, <2>1, FS_Subset
  <2> QED BY <2>2, FS_CardinalityType
<1> QED BY <1>4, <1>6

LEMMA AccessCounts ==
  ASSUME ReadStep \/ WriteStep, ecc_corr_count \in Nat
  PROVE  ecc_corr_count' \in Nat
<1>1. CASE ReadStep
  BY <1>1, HostRead DEF ReadStep
<1>2. CASE WriteStep
  BY <1>2 DEF WriteStep, dram_write32, ecc_stats
<1> QED BY <1>1, <1>2

\* A row of the log tells of the error the decoder hides.
LEMMA RowStep ==
  ASSUME ScriptInv, LogInv, ecc_corr_count \in Nat, stage = "run" /\ AfterTest => CheckInv,
         logger_row
  PROVE  LogInv'
<1> DEFINE row == [fields |-> 13, result |-> Verdict(Here.of),
                   error_count |-> Errors(Here.of), ecc_corr |-> ecc_corr_count,
                   ecc_uncorr |-> ecc_uncorr_count, hiding |-> Hiding(Here.of)]
<1>1. log' = Append(log, row) /\ stage = "run" /\ todo = <<>> /\ Here.op = "row"
      /\ line <= Len(Lines)
  BY DEF logger_row, Do
<1>2. row.fields = 13 /\ row.hiding = Hiding(Here.of) /\ row.ecc_corr = ecc_corr_count
  OBVIOUS
<1> HIDE DEF row
<1>3. ASSUME Hiding(Here.of) PROVE ecc_corr_count > 0
  <2>1. Here.of = "test" /\ odecc_enabled
    BY <1>3 DEF Hiding
  <2>2. CheckInv
    BY <1>1, <2>1, HereIsALine
  <2>3. PICK k \in DOMAIN test.walk :
           Decoded(CodewordOf(test.walk[k])).data # load_codeword(CodewordOf(test.walk[k]))
    BY <1>3 DEF Hiding
  <2>4. ~Plain(CodewordOf(test.walk[k]))
    BY <2>1, <2>3 DEF Plain, View
  <2>5. ~Silent
    BY <1>1, <2>2, <2>4 DEF CheckInv
  <2> QED BY <2>5 DEF Silent
<1>4. RowIsHonest(row)
  BY <1>2, <1>3 DEF RowIsHonest
<1>5. PICK S : log \in Seq(S)
  BY DEF LogInv, IsSequence
<1>6. /\ log' \in Seq(S \cup {row}) /\ Len(log') = Len(log) + 1 /\ Len(log) \in Nat
      /\ log'[Len(log) + 1] = row /\ \A j \in 1 .. Len(log) : log'[j] = log[j]
  BY <1>1, <1>5
<1>7. ASSUME NEW j \in 2 .. Len(log') PROVE RowIsHonest(log'[j])
  <2>1. j = Len(log) + 1 \/ j \in 2 .. Len(log)
    BY <1>6
  <2> QED BY <1>4, <1>6, <2>1 DEF LogInv
<1> QED BY <1>6, <1>7 DEF LogInv, IsSequence
\* Around the scenarios, main starts and ends them.
LEMMA MainKeepsRows ==
  ASSUME RowsInv, launched = "host", launched' = launched, opt \in Options,
         \/ main_logger_open \/ main_dram_init \/ main_apply_inject
         \/ main_dram_free \/ main_logger_close
  PROVE  RowsInv'
<1>1. ScriptInv /\ ecc_corr_count \in Nat /\ LogInv
  BY DEF RowsInv
<1>2. CASE main_logger_open
  <2>1. /\ stage' \in {"init", "exited"} /\ ecc_corr_count' = ecc_corr_count
        /\ UNCHANGED <<left, script, line>>
    BY <1>2 DEF main_logger_open, vars, ecc_stats
  <2>2. LogInv'
    <3>1. CASE log' = log
      BY <1>1, <3>1 DEF LogInv
    <3>2. CASE log' # log
      <4> DEFINE header == [fields |-> 13, result |-> "result"]
      <4>1. log' = <<header>>
        BY <1>2, <3>2 DEF main_logger_open
      <4> HIDE DEF header
      <4>2. <<header>> \in Seq({header}) /\ Len(<<header>>) = 1
        OBVIOUS
      <4>3. IsSequence(log')
        BY <4>1, <4>2 DEF IsSequence
      <4>4. \A j \in 2 .. 1 : FALSE
        OBVIOUS
      <4>5. Len(log') = 1
        BY <4>1, <4>2
      <4> QED BY <4>3, <4>4, <4>5 DEF LogInv
    <3> QED BY <3>1, <3>2
  <2> QED BY <1>1, <2>1, <2>2 DEF RowsInv, ScriptInv
<1>3. CASE main_dram_init
  <2>1. /\ stage' \in {"inject", "close"} /\ ecc_corr_count' = 0 /\ log' = log
        /\ UNCHANGED <<left, script, line>>
    BY <1>3 DEF main_dram_init, dram_init, ClearTables
  <2> QED BY <1>1, <2>1 DEF RowsInv, ScriptInv, LogInv
<1>4. CASE main_apply_inject
  <2>1. log' = log
    BY <1>4 DEF main_apply_inject
  <2>2. CASE opt.inject = BadSpec
    <3>1. stage' = "free" /\ ecc_corr_count' = ecc_corr_count /\ UNCHANGED <<left, script, line>>
      BY <1>4, <2>2 DEF main_apply_inject, vars, ecc_stats
    <3> QED BY <1>1, <2>1, <3>1 DEF RowsInv, ScriptInv, LogInv
  <2>3. CASE opt.inject # BadSpec
    <3>1. Call(Selected(opt.test_name))
      BY <1>4, <2>3 DEF main_apply_inject
    <3>2. ScriptInv' /\ ~AfterTest'
      BY <3>1, SelectedScripts, CallFacts
    <3>3. ecc_corr_count' = ecc_corr_count
      <4>1. \/ opt.inject = NoInjection
            \/ opt.inject # NoInjection /\ opt.inject.type \in {"bitflip"} \cup StuckType
        BY <2>3, ScenariosAssumption
      <4>2. CASE opt.inject = NoInjection
        BY <1>4, <2>3, <4>2
           DEF main_apply_inject, vars, ecc_stats, NoInjection, StuckType
      <4>3. CASE opt.inject # NoInjection /\ opt.inject.type = "bitflip"
        BY <1>4, <2>3, <4>3 DEF main_apply_inject, dram_inject_bit_flip, ecc_stats, StuckType
      <4>4. CASE opt.inject # NoInjection /\ opt.inject.type \in StuckType
        BY <1>4, <2>3, <4>4
           DEF main_apply_inject, dram_add_stuck_fault, AddFault, ecc_stats, StuckType
      <4> QED BY <4>1, <4>2, <4>3, <4>4
    <3> QED BY <1>1, <2>1, <3>2, <3>3 DEF RowsInv, LogInv
  <2> QED BY <2>2, <2>3
<1>5. CASE main_dram_free
  <2>1. stage' = "close" /\ ecc_corr_count' = 0 /\ log' = log /\ UNCHANGED <<left, script, line>>
    BY <1>5 DEF main_dram_free, dram_free, ClearTables
  <2> QED BY <1>1, <2>1 DEF RowsInv, ScriptInv, LogInv
<1>6. CASE main_logger_close
  <2>1. /\ stage' = "exited" /\ ecc_corr_count' = ecc_corr_count /\ log' = log
        /\ UNCHANGED <<left, script, line>>
    BY <1>6 DEF main_logger_close, vars, ecc_stats
  <2> QED BY <1>1, <2>1 DEF RowsInv, ScriptInv, LogInv
<1> QED BY <1>2, <1>3, <1>4, <1>5, <1>6

\* Each line of a scenario and each access of a test keeps the rows honest.
LEMMA ScenarioKeepsRows ==
  ASSUME RowsInv, launched = "host", launched' = launched,
         \/ CallMemory \/ AddFaultLine \/ TestLine \/ TestAccess \/ ScrubLine
         \/ logger_row \/ AgreeLine \/ RequireLine \/ ScenarioReturns
  PROVE  RowsInv'
<1>1. ScriptInv /\ ecc_corr_count \in Nat /\ LogInv /\ (stage = "run" /\ AfterTest => CheckInv)
  BY DEF RowsInv
<1>2. log' = log => LogInv'
  BY <1>1 DEF LogInv
\* A line that is no test and goes on to the next one.
<1>3. ASSUME NextLine, line <= Len(Lines), Here.op # "test", ecc_corr_count' \in Nat, LogInv'
      PROVE  RowsInv'
  BY <1>1, <1>3, NextLineFacts DEF RowsInv
<1>4. CASE CallMemory
  <2>1. NextLine /\ line <= Len(Lines) /\ log' = log
    BY <1>4 DEF CallMemory
  <2> QED BY <1>1, <1>2, <1>3, <1>4, <2>1, MemoryCallCounts
<1>5. CASE AddFaultLine
  <2>1. log' = log /\ stage = "run" /\ line <= Len(Lines) /\ Here.op = "fault"
    BY <1>5 DEF AddFaultLine, Do
  <2>2. CASE Len(faults) < DRAM_MAX_FAULTS
    <3>1. AddFaultCall(Here.fault) /\ NextLine
      BY <1>5, <2>2 DEF AddFaultLine
    <3>2. ecc_corr_count' = ecc_corr_count
      BY <3>1 DEF AddFaultCall, dram_add_stuck_fault, dram_add_transition_fault,
         dram_add_coupling_fault, dram_add_retention_fault, AddFault, ecc_stats
    <3> QED BY <1>1, <1>2, <1>3, <2>1, <3>1, <3>2
  <2>3. CASE ~(Len(faults) < DRAM_MAX_FAULTS)
    <3>1. /\ script' = Here.bail /\ line' = 1 /\ stage' = stage /\ left' = left
          /\ ecc_corr_count' = ecc_corr_count
      BY <1>5, <2>3 DEF AddFaultLine, vars, ecc_stats, program
    <3>2. Here.bail \in {"fail", "odecc_back"}
      BY <1>1, <2>1, HereIsALine, LineFields
    <3>3. {"fail", "odecc_back"} \subseteq DOMAIN Scripts
      BY DEF Scripts
    <3> QED BY <1>1, <1>2, <2>1, <3>1, <3>2, <3>3 DEF RowsInv, ScriptInv, AfterTest
  <2> QED BY <2>2, <2>3
<1>6. CASE TestLine
  <2>1. /\ NextLine /\ log' = log /\ line <= Len(Lines) /\ Here.op \in {"test", "fill"}
        /\ ecc_corr_count' = ecc_corr_count
    BY <1>6 DEF TestLine, Do, Start, Loop, vars, ecc_stats
  <2>2. CASE Here.op = "fill"
    BY <1>1, <1>2, <1>3, <2>1, <2>2
  <2>3. CASE Here.op = "test"
    <3>1. Start(Here.name, Here.walk, Here.pattern)
      BY <1>6, <2>3 DEF TestLine, Do
    <3>2. /\ Here.name \in TestName /\ Here.walk \in Seq(Nat) /\ Here.pattern \in Data
          /\ Here.name = "march" => Here.pattern = Zeros
      BY <1>1, <2>1, <2>3, HereIsALine, LineFields
    <3>3. PICK name, walk, pattern :
             name = Here.name /\ walk = Here.walk /\ pattern = Here.pattern
      OBVIOUS
    <3>4. CheckInv'
      BY <3>1, <3>2, <3>3, StartChecks
    <3> QED BY <1>1, <1>2, <2>1, <3>4, NextLineFacts DEF RowsInv
  <2> QED BY <2>1, <2>2, <2>3
<1>7. CASE TestAccess
  <2>1. /\ stage = "run" /\ (ReadStep \/ WriteStep) /\ log' = log
        /\ UNCHANGED <<stage, left, script, line>>
    BY <1>7 DEF TestAccess, hvars
  <2>2. AfterTest' = AfterTest /\ ScriptInv'
    BY <1>1, <2>1 DEF AfterTest, Lines, ScriptInv
  <2>3. ecc_corr_count' \in Nat
    BY <1>1, <2>1, AccessCounts
  <2>4. AfterTest => CheckInv'
    BY <1>1, <2>1, AccessKeepsCheck
  <2> QED BY <1>2, <2>1, <2>2, <2>3, <2>4 DEF RowsInv
<1>8. CASE ScrubLine
  <2>1. NextLine /\ line <= Len(Lines) /\ log' = log /\ Here.op = "scrub"
    BY <1>8 DEF ScrubLine, Do
  <2> QED BY <1>1, <1>2, <1>3, <1>8, <2>1, ScrubCounts
<1>9. CASE logger_row
  <2>1. NextLine /\ line <= Len(Lines) /\ Here.op = "row" /\ ecc_corr_count' = ecc_corr_count
    BY <1>9 DEF logger_row, Do, vars, ecc_stats
  <2> QED BY <1>1, <1>3, <1>9, <2>1, RowStep
<1>10. CASE AgreeLine
  <2>1. /\ NextLine /\ line <= Len(Lines) /\ log' = log /\ Here.op = "agree"
        /\ ecc_corr_count' = ecc_corr_count
    BY <1>10 DEF AgreeLine, Do, vars, ecc_stats
  <2> QED BY <1>1, <1>2, <1>3, <2>1
<1>11. ASSUME NEW rc, Return(rc), stage = "run" PROVE RowsInv'
  <2>1. log' = log /\ ecc_corr_count' = ecc_corr_count
    BY <1>11 DEF Return, vars, ecc_stats
  <2> QED BY <1>1, <1>2, <1>11, <2>1, ReturnFacts DEF RowsInv
<1>12. CASE RequireLine
  <2>1. stage = "run" /\ line <= Len(Lines) /\ Here.op = "require"
    BY <1>12 DEF RequireLine, Do
  <2>2. CASE ConditionHolds(Here.that)
    <3>1. NextLine /\ log' = log /\ ecc_corr_count' = ecc_corr_count
      BY <1>12, <2>2 DEF RequireLine, vars, ecc_stats
    <3> QED BY <1>1, <1>2, <1>3, <2>1, <3>1
  <2>3. CASE ~ConditionHolds(Here.that)
    <3>1. Return(-1)
      BY <1>12, <2>3 DEF RequireLine
    <3> QED BY <1>11, <2>1, <3>1
  <2> QED BY <2>2, <2>3
<1>13. CASE ScenarioReturns
  BY <1>11, <1>13 DEF ScenarioReturns
<1> QED BY <1>4, <1>5, <1>6, <1>7, <1>8, <1>9, <1>10, <1>12, <1>13

-----------------------------------------------------------------------------
(* The table of the viewer.                                                 *)

\* A loaded table is that of the finished log, listed under the chosen filter.
ViewerInv ==
    /\ filter \in 0 .. 3
    /\ launched = "host" /\ loaded =>
          /\ stage = "exited" /\ log # <<>>
          /\ rows = Parsed(log) /\ view = Listed(rows, filter)

\* The host program has ended when the file is loaded, and stays so.
LEMMA ViewerInvStep ==
  ASSUME OneProgram, ViewerInv, WorkbenchNext
  PROVE  ViewerInv'
<1>1. CASE HostRuns
  <2>1. launched = "host" /\ launched' = launched /\ HostNext /\ UNCHANGED viewer_vars
    BY <1>1 DEF HostRuns
  <2>2. ~loaded
    BY <2>1, StageSteps DEF ViewerInv
  <2> QED BY <2>1, <2>2 DEF ViewerInv, viewer_vars
<1>2. CASE BootRuns
  BY <1>2 DEF BootRuns, ViewerInv, viewer_vars
<1>3. CASE ViewerLoads
  <2>1. /\ Ended /\ ResultFile # <<>> /\ rows' = Parsed(ResultFile) /\ filter' = filter
        /\ view' = Listed(rows', filter') /\ launched' = launched
        /\ stage' = stage /\ log' = log
    BY <1>3 DEF ViewerLoads, OnLoadClick, Redraw, hvars
  <2>2. launched = "host" => stage = "exited" /\ ResultFile = log
    BY <2>1 DEF OneProgram, Ended, ResultFile
  <2> QED BY <2>1, <2>2 DEF ViewerInv
<1>4. CASE ViewerFilters
  <2>1. /\ rows' = rows /\ loaded' = loaded /\ filter' \in 0 .. 3
        /\ view' = Listed(rows', filter') /\ launched' = launched
        /\ stage' = stage /\ log' = log
    BY <1>4 DEF ViewerFilters, OnViewChanged, Redraw, hvars
  <2> QED BY <2>1 DEF ViewerInv
<1>5. CASE Stays
  BY <1>5 DEF Stays, all_vars, hvars, viewer_vars, ViewerInv
<1> QED BY <1>1, <1>2, <1>3, <1>4, <1>5 DEF WorkbenchNext

\* What the loaded table then shows.
LEMMA TableShowsLog ==
  ASSUME RowsInv, ViewerInv
  PROVE  HiddenErrorsAreMarked
<1> SUFFICES ASSUME launched = "host", loaded
             PROVE  /\ Len(rows) = Len(log) - 1
                    /\ \A k \in DOMAIN rows :
                          log[k + 1].result = "PASS" /\ log[k + 1].hiding => rows[k].is_escape
                    /\ filter # 3 => Escapes(view) = Escapes(rows)
  BY DEF HiddenErrorsAreMarked
<1>1. /\ LogInv /\ log # <<>> /\ rows = Parsed(log) /\ view = Listed(rows, filter)
      /\ filter \in 0 .. 3
  BY DEF RowsInv, ViewerInv
<1>2. PICK S : log \in Seq(S)
  BY <1>1 DEF LogInv, IsSequence
<1>3. Len(log) \in Nat /\ Len(log) > 0
  BY <1>1, <1>2
<1>4. \A j \in 2 .. Len(log) : RowIsHonest(log[j])
  BY <1>1 DEF LogInv
<1>5. rows = [k \in 1 .. Len(log) - 1 |-> RowOf(log[k + 1])]
  BY <1>1, <1>2, <1>3, <1>4, ParsedRows DEF RowIsHonest
<1> DEFINE Rows == {RowOf(log[j]) : j \in 2 .. Len(log)}
<1>6. rows \in Seq(Rows) /\ Len(rows) = Len(log) - 1 /\ DOMAIN rows = 1 .. Len(log) - 1
  <2>1. \A k \in 1 .. Len(log) - 1 : k + 1 \in 2 .. Len(log)
    BY <1>3
  <2>2. Len(log) - 1 \in Nat
    BY <1>3
  <2>3. rows \in [1 .. Len(log) - 1 -> Rows]
    BY <1>5, <2>1
  <2> HIDE DEF Rows
  <2> QED BY <2>2, <2>3
<1>7. ASSUME NEW k \in DOMAIN rows, log[k + 1].result = "PASS", log[k + 1].hiding
      PROVE  rows[k].is_escape
  <2>1. k + 1 \in 2 .. Len(log) /\ rows[k] = RowOf(log[k + 1])
    BY <1>3, <1>5, <1>6
  <2>2. log[k + 1].ecc_corr > 0
    BY <1>4, <1>7, <2>1 DEF RowIsHonest
  <2>3. RowOf(log[k + 1]).is_escape = (log[k + 1].result = "PASS" /\ log[k + 1].ecc_corr > 0)
    BY DEF RowOf
  <2> QED BY <1>7, <2>1, <2>2, <2>3
<1>8. ASSUME filter # 3 PROVE Escapes(view) = Escapes(rows)
  <2>1. PICK index : index = filter
    OBVIOUS
  <2>2. index \in 0 .. 2
    BY <1>1, <1>8, <2>1
  <2>3. \A row \in Rows : row.is_escape => row.result = "PASS"
    <3>1. ASSUME NEW f PROVE RowOf(f).is_escape => RowOf(f).result = "PASS"
      <4>1. RowOf(f).is_escape = (f.result = "PASS" /\ f.ecc_corr > 0) /\ RowOf(f).result = f.result
        BY DEF RowOf
      <4> QED BY <4>1
    <3> QED BY <3>1
  <2> HIDE DEF Rows
  <2> QED BY <1>1, <1>6, <2>1, <2>2, <2>3, EscapesAreListed
<1> QED BY <1>6, <1>7, <1>8

\* The command line stays what it is.
LEMMA OptionsStay ==
  ASSUME HostNext
  PROVE  opt' = opt
<1>1. NextLine => opt' = opt
  BY DEF NextLine, program
<1>2. \A rc : Return(rc) => opt' = opt
  BY DEF Return
<1>3. CASE CallMemory \/ TestLine \/ ScrubLine \/ logger_row \/ AgreeLine
  BY <1>1, <1>3 DEF CallMemory, TestLine, ScrubLine, logger_row, AgreeLine
<1>4. CASE AddFaultLine
  BY <1>1, <1>4 DEF AddFaultLine, program
<1>5. CASE TestAccess
  BY <1>5 DEF TestAccess, hvars
<1>6. CASE RequireLine \/ ScenarioReturns
  BY <1>1, <1>2, <1>6 DEF RequireLine, ScenarioReturns
<1>7. CASE \/ main_logger_open \/ main_dram_init \/ main_apply_inject
           \/ main_dram_free \/ main_logger_close
  BY <1>7 DEF main_logger_open, main_dram_init, main_apply_inject, main_dram_free,
              main_logger_close
<1> QED BY <1>3, <1>4, <1>5, <1>6, <1>7 DEF HostNext

(***************************************************************************)
(* From the decoder to the table, for every memory, code, injected fault   *)
(* and command line: whatever scenario logged a test as passed while the   *)
(* decoder hid an error of the words it walked, the row of that test is    *)
(* marked as an escape once the file is loaded, and every filter that      *)
(* keeps passed rows lists it.                                             *)
(***************************************************************************)
THEOREM HiddenErrorsShown == WorkbenchSpec => []HiddenErrorsAreMarked
<1> DEFINE ShownInv == OneProgram /\ opt \in Options /\ RowsInv /\ ViewerInv
<1>1. WorkbenchInit => ShownInv
  <2> SUFFICES ASSUME WorkbenchInit PROVE ShownInv
    OBVIOUS
  <2>1. OneProgram /\ opt \in Options
    BY DEF WorkbenchInit, HostInit, BootInit, OneProgram
  <2>2. /\ ecc_corr_count = 0 /\ log = <<>> /\ left = <<>> /\ script = "fail" /\ line = 1
        /\ stage = "log" /\ filter = 0 /\ ~loaded
    BY DEF WorkbenchInit, TestInit, Init, HostInit, ViewerInit
  <2>3. "fail" \in DOMAIN Scripts
    BY DEF Scripts
  <2>4. ScriptInv
    BY <2>2, <2>3 DEF ScriptInv
  <2>5. LogInv
    <3>1. <<>> \in Seq({}) /\ Len(<<>>) = 0 /\ \A j \in 2 .. 0 : FALSE
      OBVIOUS
    <3> QED BY <2>2, <3>1 DEF LogInv, IsSequence
  <2> QED BY <2>1, <2>2, <2>4, <2>5 DEF RowsInv, ViewerInv
<1>2. ASSUME HostNext PROVE opt' = opt
  BY <1>2, OptionsStay
<1>3. ShownInv /\ [WorkbenchNext]_all_vars => ShownInv'
  <2> SUFFICES ASSUME ShownInv, [WorkbenchNext]_all_vars
               PROVE  ShownInv'
    OBVIOUS
  <2>1. CASE HostRuns
    <3>1. launched = "host" /\ launched' = launched /\ HostNext /\ UNCHANGED bvars
      BY <2>1 DEF HostRuns
    <3>2. RowsInv'
      BY <3>1, MainKeepsRows, ScenarioKeepsRows DEF HostNext
    <3>3. ViewerInv'
      BY <2>1, ViewerInvStep DEF WorkbenchNext
    <3>4. opt' = opt
      BY <1>2, <3>1
    <3> QED BY <3>1, <3>2, <3>3, <3>4 DEF OneProgram, bvars
  <2>2. CASE BootRuns
    <3>1. launched = "boot" /\ launched' = launched /\ UNCHANGED hvars
      BY <2>2 DEF BootRuns
    <3>2. ViewerInv'
      BY <2>2, ViewerInvStep DEF WorkbenchNext
    <3> QED BY <3>1, <3>2 DEF OneProgram, RowsInv, hvars
  <2>3. CASE UNCHANGED <<vars, tvars, hvars, bvars, launched>>
    <3>1. ViewerInv'
      <4>1. CASE WorkbenchNext
        BY <4>1, ViewerInvStep
      <4>2. CASE UNCHANGED all_vars
        BY <4>2 DEF all_vars, hvars, viewer_vars, ViewerInv
      <4> QED BY <4>1, <4>2
    <3>2. RowsInv'
      <4>1. /\ launched' = launched /\ ecc_corr_count' = ecc_corr_count
            /\ UNCHANGED <<data, parity, faults, odecc_enabled, test, todo, at>>
            /\ UNCHANGED <<stage, left, script, line, log>>
        BY <2>3 DEF vars, cells, ecc_stats, tvars, hvars
      <4>2. ScriptInv' = ScriptInv /\ LogInv' = LogInv /\ AfterTest' = AfterTest
        BY <4>1 DEF ScriptInv, LogInv, AfterTest, Lines
      <4>3. CheckInv => CheckInv'
        BY <4>1, PlainUnchanged DEF CheckInv, Silent
      <4> QED BY <4>1, <4>2, <4>3 DEF RowsInv
    <3>3. OneProgram' /\ (opt \in Options)'
      BY <2>3 DEF OneProgram, hvars, bvars
    <3> QED BY <3>1, <3>2, <3>3
  <2> QED BY <2>1, <2>2, <2>3 DEF WorkbenchNext, ViewerLoads, ViewerFilters, Stays, all_vars
<1>4. ShownInv => HiddenErrorsAreMarked
  BY TableShowsLog
<1> QED BY <1>1, <1>3, <1>4, PTL DEF WorkbenchSpec

-----------------------------------------------------------------------------
(* What the scripts do to the conditions of the memory.                     *)

\* Lines that leave the switch, the temperature and the age alone and add no fault.
SteadyLine == {l \in Line : l.op \notin {"odecc", "temperature", "advance", "fault"}}
\* The lines between the first and the last three of tc10, and those between the
\* first three and the last five of tc11 and the sweep.
MatrixLine ==
    {l \in Line : /\ l.op \in {"clear", "fill", "fault", "test", "row", "agree"}
                  /\ l.op = "fault" => l.bail = "odecc_back"}
RetentionLine ==
    {l \in Line : l.op \in {"temperature", "refresh", "fill", "advance", "test", "row", "agree"}}

\* A fault of the matrix is added to a table that was just cleared.
FaultsFollowClear(s) ==
    \A j \in 1 .. Len(s) : s[j].op = "fault" =>
        j > 2 /\ s[j - 1].op = "fill" /\ s[j - 2].op = "clear"

\* How tc10 goes.
MatrixShape(s) ==
    /\ s \in Seq(Line) /\ Len(s) > 3
    /\ s[1] = Odecc(FALSE)
    /\ \A j \in 2 .. Len(s) - 3 : s[j] \in MatrixLine
    /\ s[Len(s) - 2] = ClearFaults /\ s[Len(s) - 1] = Odecc(TRUE) /\ s[Len(s)] = Require("match")
    /\ FaultsFollowClear(s)

\* How tc11 and the sweep go.
RetentionShape(s) ==
    /\ s \in Seq(Line) /\ Len(s) > 7
    /\ s[1] = Odecc(FALSE) /\ s[2] = ClearFaults /\ s[3] = AddTo(WeakCell, "odecc_back")
    /\ \A j \in 4 .. Len(s) - 5 : s[j] \in RetentionLine
    /\ s[Len(s) - 4] = ClearFaults /\ s[Len(s) - 3] = Temperature(25)
    /\ s[Len(s) - 2] = Refresh /\ s[Len(s) - 1] = Odecc(TRUE) /\ s[Len(s)] = Require("match")

\* How the others go: tc6 adds its stuck cell, and that is all.
SteadyShape(name, s) ==
    \A j \in 1 .. Len(s) :
        /\ s[j] \in Line /\ s[j].op \notin {"odecc", "temperature", "advance"}
        /\ s[j].op = "fault" => name = "tc6" /\ j = 3 /\ s[j] = AddTo(Fault6, "fail")

\* The parts tc10 is made of.
MatrixPart == {s \in Seq(MatrixLine) : FaultsFollowClear(s)}

LEMMA MatrixPartsJoin ==
  ASSUME NEW s \in MatrixPart, NEW t \in MatrixPart
  PROVE  s \o t \in MatrixPart
<1>1. s \in Seq(MatrixLine) /\ t \in Seq(MatrixLine) /\ FaultsFollowClear(s) /\ FaultsFollowClear(t)
  BY DEF MatrixPart
<1>2. /\ s \o t \in Seq(MatrixLine) /\ Len(s \o t) = Len(s) + Len(t)
      /\ Len(s) \in Nat /\ Len(t) \in Nat
      /\ \A j \in 1 .. Len(s) : (s \o t)[j] = s[j]
      /\ \A j \in 1 .. Len(t) : (s \o t)[Len(s) + j] = t[j]
  <2> HIDE DEF MatrixLine
  <2> QED BY <1>1
<1> DEFINE u == s \o t
<1> HIDE DEF u
<1>3. ASSUME NEW j \in 1 .. Len(u), u[j].op = "fault"
      PROVE  j > 2 /\ u[j - 1].op = "fill" /\ u[j - 2].op = "clear"
  <2>1. CASE j <= Len(s)
    <3>1. j \in 1 .. Len(s) /\ s[j].op = "fault"
      BY <1>2, <1>3, <2>1 DEF u
    <3>2. j > 2 /\ s[j - 1].op = "fill" /\ s[j - 2].op = "clear"
      BY <1>1, <3>1 DEF FaultsFollowClear
    <3>3. j - 1 \in 1 .. Len(s) /\ j - 2 \in 1 .. Len(s)
      BY <1>2, <3>1, <3>2
    <3> QED BY <1>2, <3>2, <3>3 DEF u
  <2>2. CASE j > Len(s)
    <3> DEFINE k == j - Len(s)
    <3>1. k \in 1 .. Len(t) /\ j = Len(s) + k
      BY <1>2, <1>3, <2>2 DEF u
    <3>2. t[k].op = "fault"
      BY <1>2, <1>3, <3>1 DEF u
    <3>3. k > 2 /\ t[k - 1].op = "fill" /\ t[k - 2].op = "clear"
      BY <1>1, <3>1, <3>2 DEF FaultsFollowClear
    <3>4. /\ k - 1 \in 1 .. Len(t) /\ j - 1 = Len(s) + (k - 1)
          /\ k - 2 \in 1 .. Len(t) /\ j - 2 = Len(s) + (k - 2) /\ j > 2
      BY <1>2, <3>1, <3>3
    <3> HIDE DEF k
    <3> QED BY <1>2, <3>3, <3>4 DEF u
  <2> QED BY <1>2, <1>3, <2>1, <2>2
<1>4. s \o t = u
  BY DEF u
<1> QED BY <1>2, <1>3, <1>4 DEF MatrixPart, FaultsFollowClear

\* One half of a cell of the matrix.
LEMMA MatrixCellIsPart ==
  ASSUME NEW f \in WeakFaults, NEW run \in Line, run.op = "test", NEW detects \in BOOLEAN
  PROVE  MatrixCell(f, run, detects) \in MatrixPart
<1> DEFINE b == FillLoop(REGION, {})
<1> DEFINE c == AddTo(f, "odecc_back")
<1> DEFINE d == Row("matrix")
<1> DEFINE e == Agree(detects)
<1> DEFINE s == <<ClearFaults, b, c, run, d, e>>
<1>1. ClearFaults \in Line /\ b \in Line /\ c \in Line /\ d \in Line /\ e \in Line
  BY LineForms, ScriptData DEF Zeros
<1>2. /\ ClearFaults.op = "clear" /\ b.op = "fill" /\ c.op = "fault" /\ d.op = "row"
      /\ e.op = "agree" /\ c.bail = "odecc_back"
  BY LineOps DEF AddTo
<1> HIDE DEF b, c, d, e
<1>3. /\ ClearFaults \in MatrixLine /\ b \in MatrixLine /\ c \in MatrixLine
      /\ run \in MatrixLine /\ d \in MatrixLine /\ e \in MatrixLine
  BY <1>1, <1>2 DEF MatrixLine
<1>4. /\ s \in Seq(MatrixLine) /\ Len(s) = 6 /\ s[1] = ClearFaults /\ s[2] = b /\ s[3] = c
      /\ s[4] = run /\ s[5] = d /\ s[6] = e
  <2> HIDE DEF MatrixLine
  <2> QED BY <1>3
<1> HIDE DEF s
<1>5. \A j \in 1 .. 6 : j = 1 \/ j = 2 \/ j = 3 \/ j = 4 \/ j = 5 \/ j = 6
  OBVIOUS
<1>6. FaultsFollowClear(s)
  BY <1>2, <1>4, <1>5 DEF FaultsFollowClear
<1>7. s \in MatrixPart
  BY <1>4, <1>6 DEF MatrixPart
<1> QED BY <1>7 DEF MatrixCell, s, b, c, d, e

\* A beginning, a body and an end.
LEMMA Framed ==
  ASSUME NEW S, NEW a \in Seq(S), NEW b \in Seq(S), NEW c \in Seq(S)
  PROVE  LET s == a \o b \o c
         IN  /\ s \in Seq(S) /\ Len(s) = Len(a) + Len(b) + Len(c)
             /\ Len(a) \in Nat /\ Len(b) \in Nat /\ Len(c) \in Nat
             /\ \A j \in 1 .. Len(a) : s[j] = a[j]
             /\ \A j \in 1 .. Len(b) : s[Len(a) + j] = b[j]
             /\ \A j \in 1 .. Len(c) : s[Len(a) + Len(b) + j] = c[j]
<1> DEFINE t == a \o b
<1> DEFINE s == t \o c
<1>1. /\ t \in Seq(S) /\ Len(t) = Len(a) + Len(b)
      /\ Len(a) \in Nat /\ Len(b) \in Nat /\ Len(c) \in Nat
      /\ \A j \in 1 .. Len(a) : t[j] = a[j]
      /\ \A j \in 1 .. Len(b) : t[Len(a) + j] = b[j]
  OBVIOUS
<1> HIDE DEF t
<1>2. /\ s \in Seq(S) /\ Len(s) = Len(t) + Len(c)
      /\ \A j \in 1 .. Len(t) : s[j] = t[j]
      /\ \A j \in 1 .. Len(c) : s[Len(t) + j] = c[j]
  <2>1. t \in Seq(S) /\ c \in Seq(S)
    BY <1>1
  <2> QED BY <2>1
<1> HIDE DEF s
<1>3. \A j \in 1 .. Len(a) : j \in 1 .. Len(t)
  BY <1>1
<1>4. \A j \in 1 .. Len(b) : Len(a) + j \in 1 .. Len(t)
  BY <1>1
<1>5. \A j \in 1 .. Len(a) : s[j] = a[j]
  BY <1>1, <1>2, <1>3
<1>6. \A j \in 1 .. Len(b) : s[Len(a) + j] = b[j]
  BY <1>1, <1>2, <1>4
<1>7. Len(s) = Len(a) + Len(b) + Len(c)
  BY <1>1, <1>2
<1>8. \A j \in 1 .. Len(c) : s[Len(a) + Len(b) + j] = c[j]
  BY <1>1, <1>2
<1> QED BY <1>1, <1>2, <1>5, <1>6, <1>7, <1>8 DEF s, t

\* The matrix of tc10.
LEMMA tc10Shape == MatrixShape(tc10_coverage_matrix)
<1> DEFINE Cells(i) ==
          MatrixCell(MatrixFaults[i].fault, Test("constant", REGION, REGION_PATTERN),
                     MatrixFaults[i].constant)
          \o MatrixCell(MatrixFaults[i].fault, Test("march", REGION, {}), TRUE)
<1> DEFINE ss == [i \in DOMAIN MatrixFaults |-> Cells(i)]
<1>1. DOMAIN MatrixFaults = 1 .. 5 /\ \A i \in 1 .. 5 : MatrixFaults[i].constant \in BOOLEAN
  BY MatrixFaultsAre
<1>2. ASSUME NEW i \in 1 .. 5 PROVE Cells(i) \in MatrixPart
  <2> DEFINE c == Test("constant", REGION, REGION_PATTERN)
  <2> DEFINE m == Test("march", REGION, {})
  <2>1. c \in Line /\ m \in Line /\ c.op = "test" /\ m.op = "test"
    BY LineForms, LineOps, ScriptData DEF Zeros
  <2>2. MatrixFaults[i].fault \in WeakFaults
    BY DEF WeakFaults
  <2> HIDE DEF c, m, Line, MatrixPart
  <2>3. /\ MatrixCell(MatrixFaults[i].fault, c, MatrixFaults[i].constant) \in MatrixPart
        /\ MatrixCell(MatrixFaults[i].fault, m, TRUE) \in MatrixPart
    BY <1>1, <2>1, <2>2, MatrixCellIsPart
  <2> QED BY <2>3, MatrixPartsJoin DEF c, m
<1> HIDE DEF Cells
<1>3. ss \in Seq(MatrixPart)
  <2>1. ss \in [1 .. 5 -> MatrixPart]
    BY <1>1, <1>2
  <2> HIDE DEF ss, MatrixPart
  <2>2. \A n \in Nat : [1 .. n -> MatrixPart] \subseteq Seq(MatrixPart)
    OBVIOUS
  <2>3. 5 \in Nat
    OBVIOUS
  <2> QED BY <2>1, <2>2, <2>3
<1>4. /\ MatrixPart \in SUBSET Seq(MatrixLine) /\ <<>> \in MatrixPart
      /\ \A s, t \in MatrixPart : s \o t \in MatrixPart
  <2>1. FaultsFollowClear(<<>>) /\ <<>> \in Seq(MatrixLine)
    <3>1. Len(<<>>) = 0 /\ \A j \in 1 .. 0 : FALSE
      OBVIOUS
    <3> HIDE DEF MatrixLine
    <3> QED BY <3>1 DEF FaultsFollowClear
  <2> QED BY <2>1, MatrixPartsJoin DEF MatrixPart
<1> DEFINE flat == FlattenSeq(ss)
<1>5. flat \in MatrixPart
  <2> HIDE DEF MatrixPart, ss, MatrixLine
  <2> QED BY <1>3, <1>4, FlattenCloses
<1>6. tc10_coverage_matrix
         = <<Odecc(FALSE)>> \o flat \o <<ClearFaults, Odecc(TRUE), Require("match")>>
  BY DEF tc10_coverage_matrix, Cells
<1> HIDE DEF flat
<1> DEFINE off == Odecc(FALSE)
<1> DEFINE on == Odecc(TRUE)
<1> DEFINE verdict == Require("match")
<1> DEFINE first == <<off>>
<1> DEFINE last == <<ClearFaults, on, verdict>>
<1> DEFINE s == first \o flat \o last
<1>7. /\ off \in Line /\ on \in Line /\ verdict \in Line /\ ClearFaults \in Line
      /\ off.op = "odecc" /\ on.op = "odecc" /\ verdict.op = "require" /\ ClearFaults.op = "clear"
  BY LineForms, LineOps DEF Verdicts
<1>8. flat \in Seq(MatrixLine) /\ FaultsFollowClear(flat) /\ flat \in Seq(Line)
  <2>1. MatrixLine \subseteq Line
    BY DEF MatrixLine
  <2>2. flat \in Seq(MatrixLine) /\ FaultsFollowClear(flat)
    BY <1>5 DEF MatrixPart
  <2> HIDE DEF MatrixLine, Line
  <2> QED BY <2>1, <2>2
<1> HIDE DEF off, on, verdict
<1>9. /\ first \in Seq(Line) /\ Len(first) = 1 /\ first[1] = off
      /\ last \in Seq(Line) /\ Len(last) = 3
      /\ last[1] = ClearFaults /\ last[2] = on /\ last[3] = verdict
  <2> HIDE DEF Line
  <2> QED BY <1>7
<1> HIDE DEF first, last, Line
<1>10. /\ s \in Seq(Line) /\ Len(s) = 1 + Len(flat) + 3 /\ Len(flat) \in Nat
       /\ \A j \in 1 .. 1 : s[j] = first[j]
       /\ \A j \in 1 .. Len(flat) : s[1 + j] = flat[j]
       /\ \A j \in 1 .. 3 : s[1 + Len(flat) + j] = last[j]
  <2>1. /\ s \in Seq(Line) /\ Len(s) = Len(first) + Len(flat) + Len(last)
        /\ Len(flat) \in Nat
        /\ \A j \in 1 .. Len(first) : s[j] = first[j]
        /\ \A j \in 1 .. Len(flat) : s[Len(first) + j] = flat[j]
        /\ \A j \in 1 .. Len(last) : s[Len(first) + Len(flat) + j] = last[j]
    <3> DEFINE Whole == Seq(Line)
    <3>1. first \in Whole /\ flat \in Whole /\ last \in Whole
      BY <1>8, <1>9
    <3> QED BY <3>1, Framed
  <2> HIDE DEF s
  <2> QED BY <1>9, <2>1
<1> HIDE DEF s
<1> DEFINE m == Len(flat)
<1>11. /\ m \in Nat /\ Len(s) = m + 4 /\ s[1] = off
       /\ \A j \in 2 .. m + 1 : j - 1 \in 1 .. m /\ s[j] = flat[j - 1]
       /\ s[m + 2] = ClearFaults /\ s[m + 3] = on /\ s[m + 4] = verdict
  <2>1. m \in Nat /\ Len(s) = m + 4 /\ s[1] = off
    BY <1>9, <1>10
  <2>2. s[1 + m + 1] = last[1] /\ s[1 + m + 2] = last[2] /\ s[1 + m + 3] = last[3]
    BY <1>10
  <2>3. 1 + m + 1 = m + 2 /\ 1 + m + 2 = m + 3 /\ 1 + m + 3 = m + 4
    BY <2>1
  <2>4. ASSUME NEW j \in 2 .. m + 1 PROVE j - 1 \in 1 .. m /\ s[j] = flat[j - 1]
    <3>1. j - 1 \in 1 .. m /\ 1 + (j - 1) = j
      BY <2>1
    <3>2. s[1 + (j - 1)] = flat[j - 1]
      BY <1>10, <3>1
    <3> QED BY <3>1, <3>2
  <2> QED BY <1>9, <2>1, <2>2, <2>3, <2>4
<1>12. \A j \in 2 .. m + 1 : s[j] \in MatrixLine
  <2> HIDE DEF MatrixLine
  <2> QED BY <1>8, <1>11
<1>13. ASSUME NEW j \in 1 .. Len(s), s[j].op = "fault"
       PROVE  j > 2 /\ s[j - 1].op = "fill" /\ s[j - 2].op = "clear"
  <2>1. j = 1 \/ j \in 2 .. m + 1 \/ j = m + 2 \/ j = m + 3 \/ j = m + 4
    BY <1>11
  <2>2. j \in 2 .. m + 1
    BY <1>7, <1>11, <1>13, <2>1
  <2>3. flat[j - 1].op = "fault" /\ j - 1 \in 1 .. m
    BY <1>11, <1>13, <2>2
  <2>4. j - 1 > 2 /\ flat[j - 2].op = "fill" /\ flat[j - 3].op = "clear"
    BY <1>8, <1>11, <2>3 DEF FaultsFollowClear
  <2>5. j - 1 \in 2 .. m + 1 /\ j - 2 \in 2 .. m + 1 /\ (j - 1) - 1 = j - 2 /\ (j - 2) - 1 = j - 3
    BY <1>11, <2>3, <2>4
  <2>6. s[j - 1] = flat[j - 2] /\ s[j - 2] = flat[j - 3]
    BY <1>11, <2>5
  <2> QED BY <1>11, <2>3, <2>4, <2>6
<1>14. MatrixShape(s)
  <2>1. Len(s) > 3 /\ Len(s) - 3 = m + 1 /\ Len(s) - 2 = m + 2 /\ Len(s) - 1 = m + 3
    BY <1>11
  <2> HIDE DEF m
  <2> QED BY <1>10, <1>11, <1>12, <1>13, <2>1 DEF MatrixShape, FaultsFollowClear, off, on, verdict
<1> QED BY <1>6, <1>14 DEF s, first, last, off, on, verdict

\* The cases of tc11 and the points of the sweep add no fault and decide nothing.
LEMMA CaseLines ==
  ASSUME NEW celsius \in Int, NEW ms \in Nat, NEW steps \in Nat, NEW refreshes \in BOOLEAN,
         NEW loses \in BOOLEAN
  PROVE  RetentionCase(celsius, ms, steps, refreshes, loses) \in Seq(RetentionLine)
<1> DEFINE a == Temperature(celsius)
<1> DEFINE b == FillLoop(RETENTION, RETENTION_PATTERN)
<1> DEFINE c == Advance(ms)
<1> DEFINE t == Test("verify", RETENTION, RETENTION_PATTERN)
<1> DEFINE d == Row("test")
<1> DEFINE e == Agree(loses)
<1>1. /\ a \in Line /\ b \in Line /\ c \in Line /\ d \in Line /\ e \in Line /\ t \in Line
      /\ Refresh \in Line
  BY LineForms, ScriptData
<1>2. /\ a.op = "temperature" /\ b.op = "fill" /\ c.op = "advance" /\ d.op = "row"
      /\ e.op = "agree" /\ t.op = "test" /\ Refresh.op = "refresh"
  BY LineOps
<1> DEFINE ss == [s \in 1 .. steps |-> IF refreshes THEN <<c, Refresh>> ELSE <<c>>]
<1> DEFINE flat == FlattenSeq(ss)
<1>3. RetentionCase(celsius, ms, steps, refreshes, loses) = <<a, Refresh, b>> \o flat \o <<t, d, e>>
  BY DEF RetentionCase
<1> HIDE DEF a, b, c, d, e, t, flat
<1>4. /\ a \in RetentionLine /\ b \in RetentionLine /\ c \in RetentionLine
      /\ d \in RetentionLine /\ e \in RetentionLine /\ t \in RetentionLine
      /\ Refresh \in RetentionLine
  BY <1>1, <1>2 DEF RetentionLine
<1> DEFINE Part == Seq(RetentionLine)
<1> DEFINE one == <<c>>
<1> DEFINE both == <<c, Refresh>>
<1> DEFINE first == <<a, Refresh, b>>
<1> DEFINE last == <<t, d, e>>
<1>5. one \in Part /\ both \in Part /\ first \in Part /\ last \in Part
  <2> HIDE DEF RetentionLine
  <2> QED BY <1>4
<1>6. ss \in Seq(Part)
  <2>1. ss = [s \in 1 .. steps |-> IF refreshes THEN both ELSE one]
    OBVIOUS
  <2> HIDE DEF Part, one, both, ss
  <2>2. ss \in [1 .. steps -> Part]
    BY <1>5, <2>1
  <2> QED BY <2>2
<1>7. <<>> \in Part /\ (\A s, u \in Part : s \o u \in Part) /\ Part \in SUBSET Seq(RetentionLine)
  <2> HIDE DEF RetentionLine
  <2> QED OBVIOUS
<1>8. flat \in Part
  <2> HIDE DEF Part, ss, RetentionLine
  <2>1. FlattenSeq(ss) \in Part
    BY <1>6, <1>7, FlattenCloses
  <2> QED BY <2>1 DEF flat
<1>9. first \o flat \o last \in Part
  <2> HIDE DEF Part, first, last
  <2> QED BY <1>5, <1>7, <1>8
<1> QED BY <1>3, <1>9

\* What goes before and after them.
LEMMA RetentionScriptShape ==
  ASSUME NEW cases \in Seq(Seq(RetentionLine))
  PROVE  RetentionShape(RetentionScript(cases))
<1> DEFINE flat == FlattenSeq(cases)
<1> DEFINE off == Odecc(FALSE)
<1> DEFINE weak == AddTo(WeakCell, "odecc_back")
<1> DEFINE cool == Temperature(25)
<1> DEFINE on == Odecc(TRUE)
<1> DEFINE verdict == Require("match")
<1> DEFINE first == <<off, ClearFaults, weak>>
<1> DEFINE last == <<ClearFaults, cool, Refresh, on, verdict>>
<1> DEFINE s == first \o flat \o last
<1>1. RetentionScript(cases) = s
  BY DEF RetentionScript
<1>2. /\ off \in Line /\ weak \in Line /\ cool \in Line /\ on \in Line /\ verdict \in Line
      /\ ClearFaults \in Line /\ Refresh \in Line
  <2>1. WeakCell \in WeakFaults /\ "match" \in Verdicts /\ 25 \in Int
    BY DEF WeakFaults, Verdicts
  <2>2. off \in Line /\ on \in Line /\ ClearFaults \in Line /\ Refresh \in Line
    BY LineForms
  <2> HIDE DEF Line, WeakFaults, Verdicts
  <2>3. weak \in Line
    BY <2>1, LineForms
  <2>4. cool \in Line
    BY <2>1, LineForms
  <2>5. verdict \in Line
    BY <2>1, LineForms
  <2> QED BY <2>2, <2>3, <2>4, <2>5
<1>3. flat \in Seq(RetentionLine)
  <2> DEFINE Part == Seq(RetentionLine)
  <2>1. <<>> \in Part /\ (\A u, v \in Part : u \o v \in Part) /\ Part \in SUBSET Seq(RetentionLine)
    <3> HIDE DEF RetentionLine
    <3> QED OBVIOUS
  <2>2. cases \in Seq(Part)
    OBVIOUS
  <2> HIDE DEF Part, RetentionLine
  <2>3. flat \in Part
    BY <2>1, <2>2, FlattenCloses
  <2> QED BY <2>3 DEF Part
<1>4. flat \in Seq(Line)
  <2>1. RetentionLine \subseteq Line
    BY DEF RetentionLine
  <2> HIDE DEF RetentionLine, Line, flat
  <2> QED BY <1>3, <2>1
<1> HIDE DEF flat, off, weak, cool, on, verdict
<1>5. /\ first \in Seq(Line) /\ Len(first) = 3
      /\ first[1] = off /\ first[2] = ClearFaults /\ first[3] = weak
  <2> HIDE DEF Line
  <2> QED BY <1>2
<1>6. /\ last \in Seq(Line) /\ Len(last) = 5
      /\ last[1] = ClearFaults /\ last[2] = cool /\ last[3] = Refresh /\ last[4] = on
      /\ last[5] = verdict
  <2> HIDE DEF Line
  <2> QED BY <1>2
<1> HIDE DEF first, last, Line
<1>7. /\ s \in Seq(Line) /\ Len(s) = Len(first) + Len(flat) + Len(last)
      /\ Len(flat) \in Nat
      /\ \A j \in 1 .. Len(first) : s[j] = first[j]
      /\ \A j \in 1 .. Len(flat) : s[Len(first) + j] = flat[j]
      /\ \A j \in 1 .. Len(last) : s[Len(first) + Len(flat) + j] = last[j]
  <2> DEFINE Whole == Seq(Line)
  <2>1. first \in Whole /\ flat \in Whole /\ last \in Whole
    BY <1>4, <1>5, <1>6
  <2> QED BY <2>1, Framed
<1> HIDE DEF s
<1> DEFINE m == Len(flat)
<1>8. m \in Nat /\ Len(s) = m + 8
  BY <1>5, <1>6, <1>7
<1>9. s[1] = off /\ s[2] = ClearFaults /\ s[3] = weak
  BY <1>5, <1>7
<1>10. /\ s[3 + m + 1] = ClearFaults /\ s[3 + m + 2] = cool /\ s[3 + m + 3] = Refresh
       /\ s[3 + m + 4] = on /\ s[3 + m + 5] = verdict
  BY <1>5, <1>6, <1>7
<1>11. ASSUME NEW j \in 4 .. m + 3 PROVE s[j] \in RetentionLine
  <2>1. j - 3 \in 1 .. m /\ 3 + (j - 3) = j
    BY <1>8
  <2>2. s[3 + (j - 3)] = flat[j - 3]
    BY <1>5, <1>7, <2>1
  <2> HIDE DEF RetentionLine
  <2> QED BY <1>3, <2>1, <2>2
<1>12. /\ Len(s) > 7 /\ Len(s) - 5 = m + 3 /\ Len(s) - 4 = 3 + m + 1 /\ Len(s) - 3 = 3 + m + 2
       /\ Len(s) - 2 = 3 + m + 3 /\ Len(s) - 1 = 3 + m + 4 /\ Len(s) = 3 + m + 5
  BY <1>8
<1>13. RetentionShape(s)
  <2> HIDE DEF m
  <2> QED BY <1>7, <1>9, <1>10, <1>11, <1>12 DEF RetentionShape, off, weak, cool, on, verdict
<1> QED BY <1>1, <1>13

LEMMA tc11Shape == RetentionShape(tc11_retention_refresh)
<1> DEFINE Part == Seq(RetentionLine)
<1>1. \A celsius \in Int, ms \in Nat, steps \in Nat, refreshes \in BOOLEAN, loses \in BOOLEAN :
         RetentionCase(celsius, ms, steps, refreshes, loses) \in Part
  BY CaseLines
<1>2. /\ {25, 95} \subseteq Int /\ {50, 32, 16, 1, 3, 4} \subseteq Nat
      /\ TRUE \in BOOLEAN /\ FALSE \in BOOLEAN
  OBVIOUS
<1> DEFINE a == RetentionCase(25, 50, 1, FALSE, TRUE)
<1> DEFINE b == RetentionCase(25, 32, 3, TRUE, FALSE)
<1> DEFINE c == RetentionCase(95, 32, 1, TRUE, TRUE)
<1> DEFINE d == RetentionCase(95, 16, 4, TRUE, FALSE)
<1>3. tc11_retention_refresh = RetentionScript(<<a, b, c, d>>)
  BY DEF tc11_retention_refresh
<1> HIDE DEF Part
<1>4. a \in Part
  BY <1>1, <1>2
<1>5. b \in Part
  BY <1>1, <1>2
<1>6. c \in Part
  BY <1>1, <1>2
<1>7. d \in Part
  BY <1>1, <1>2
<1> HIDE DEF a, b, c, d
<1>8. <<a, b, c, d>> \in Seq(Part)
  BY <1>4, <1>5, <1>6, <1>7
<1> QED BY <1>3, <1>8, RetentionScriptShape DEF Part

LEMMA shmooShape == RetentionShape(run_cli_shmoo)
<1> DEFINE Part == Seq(RetentionLine)
<1> DEFINE row(t) == [p \in DOMAIN ShmooPeriods |-> shmoo_point(ShmooTemps[t], ShmooPeriods[p])]
<1> DEFINE ss == [t \in DOMAIN ShmooTemps |-> row(t)]
<1> DEFINE Many == Seq(Part)
<1>1. ShmooTemps \in Seq(Int) /\ ShmooPeriods \in Seq(Nat)
  BY ScenariosAssumption
<1>2. ASSUME NEW t \in DOMAIN ShmooTemps, NEW p \in DOMAIN ShmooPeriods
      PROVE  shmoo_point(ShmooTemps[t], ShmooPeriods[p]) \in Part
  <2> DEFINE celsius == ShmooTemps[t]
  <2> DEFINE ms == ShmooPeriods[p]
  <2> DEFINE loses == ms >= IF celsius > DRAM_REFRESH_HIGH_TEMP_C
                              THEN RETENTION_HOLD_MS \div 2 ELSE RETENTION_HOLD_MS
  <2>1. celsius \in Int /\ ms \in Nat /\ loses \in BOOLEAN /\ 3 \in Nat
    BY <1>1
  <2> HIDE DEF celsius, ms, loses
  <2>2. RetentionCase(celsius, ms, 3, TRUE, loses) \in Part
    BY <2>1, CaseLines
  <2> QED BY <2>2 DEF shmoo_point, celsius, ms, loses
<1>3. ASSUME NEW t \in DOMAIN ShmooTemps PROVE row(t) \in Many
  <2> HIDE DEF Part
  <2>1. \A p \in DOMAIN ShmooPeriods : shmoo_point(ShmooTemps[t], ShmooPeriods[p]) \in Part
    BY <1>2
  <2>2. DOMAIN ShmooPeriods = 1 .. Len(ShmooPeriods) /\ Len(ShmooPeriods) \in Nat
    BY <1>1
  <2> QED BY <2>1, <2>2
<1>4. ss \in Seq(Many)
  <2> HIDE DEF row, Many
  <2>1. DOMAIN ShmooTemps = 1 .. Len(ShmooTemps) /\ Len(ShmooTemps) \in Nat
    BY <1>1
  <2> QED BY <1>3, <2>1
<1>5. Many \in SUBSET Seq(Part) /\ <<>> \in Many /\ \A s, t \in Many : s \o t \in Many
  <2> HIDE DEF Part
  <2> QED OBVIOUS
<1>6. FlattenSeq(ss) \in Many
  <2> HIDE DEF Part, ss, Many
  <2> QED BY <1>4, <1>5, FlattenCloses
<1>7. RetentionShape(RetentionScript(FlattenSeq(ss)))
  BY <1>6, RetentionScriptShape
<1> QED BY <1>7 DEF run_cli_shmoo

\* The other lines are steady.
LEMMA SteadyForms ==
  /\ \A name \in {"constant", "verify", "topology"}, walk \in Seq(Nat), pattern \in Data :
        Test(name, walk, pattern) \in SteadyLine
  /\ \A walk \in Seq(Nat) : Test("march", walk, Zeros) \in SteadyLine
  /\ WriteWord(SMOKE_ADDR, SMOKE_PATTERN) \in SteadyLine
  /\ \A word \in Nat : ReadWord(word) \in SteadyLine
  /\ \A word \in Nat, positions \in SUBSET Nat : FlipBits(word, positions) \in SteadyLine
  /\ ClearFaults \in SteadyLine /\ ResetStats \in SteadyLine /\ ScrubRegion \in SteadyLine
  /\ \A of \in {"test", "matrix", "smoke", "scrub"} : Row(of) \in SteadyLine
  /\ \A that \in Verdicts : Require(that) \in SteadyLine
<1>1. \A l \in Line : l.op \notin {"odecc", "temperature", "advance", "fault"} => l \in SteadyLine
  BY DEF SteadyLine
<1> HIDE DEF SteadyLine, Line
<1> QED BY <1>1, LineForms, LineOps

LEMMA FlipIsSteady ==
  ASSUME NEW word \in Nat, NEW positions \in SUBSET Nat
  PROVE  inject_bit_flip32(word, positions) \in Seq(SteadyLine)
<1> DEFINE a == ReadWord(word)
<1> DEFINE b == FlipBits(word, positions)
<1>1. a \in SteadyLine /\ b \in SteadyLine
  BY SteadyForms
<1> HIDE DEF a, b, SteadyLine
<1>2. <<a, b, a>> \in Seq(SteadyLine)
  BY <1>1
<1> QED BY <1>2 DEF inject_bit_flip32, a, b

\* A test with its row and its condition.
LEMMA TestsAreSteady ==
  ASSUME NEW t \in SteadyLine, NEW that \in Verdicts
  PROVE  /\ <<t, Row("test"), Require(that)>> \in Seq(SteadyLine)
         /\ <<ResetStats, t, Row("test")>> \in Seq(SteadyLine)
         /\ <<ResetStats, t, Row("test"), Require(that)>> \in Seq(SteadyLine)
         /\ <<ClearFaults, t, Require(that)>> \in Seq(SteadyLine)
<1> DEFINE r == Row("test")
<1> DEFINE q == Require(that)
<1>1. r \in SteadyLine /\ q \in SteadyLine /\ ResetStats \in SteadyLine /\ ClearFaults \in SteadyLine
  BY SteadyForms
<1> HIDE DEF r, q, SteadyLine
<1>2. /\ <<t, r, q>> \in Seq(SteadyLine) /\ <<ResetStats, t, r>> \in Seq(SteadyLine)
      /\ <<ResetStats, t, r, q>> \in Seq(SteadyLine) /\ <<ClearFaults, t, q>> \in Seq(SteadyLine)
  BY <1>1
<1> QED BY <1>2 DEF r, q

\* The scenarios that only test, read, flip, scrub and clear.
LEMMA PlainScriptsAreSteady ==
  /\ tc2_topology_pattern \in Seq(SteadyLine) /\ tc3_basic_rw \in Seq(SteadyLine)
  /\ tc4_constant_pattern \in Seq(SteadyLine) /\ tc5_odecc_escape \in Seq(SteadyLine)
  /\ tc7_scrub_screen \in Seq(SteadyLine) /\ tc8_double_bit \in Seq(SteadyLine)
  /\ tc9_march_c_minus \in Seq(SteadyLine)
  /\ run_cli_constant \in Seq(SteadyLine) /\ run_cli_march \in Seq(SteadyLine)
<1> DEFINE Part == Seq(SteadyLine)
<1>1. /\ {Test("topology", TOPOLOGY, TOPO_PATTERN), Test("constant", REGION, REGION_PATTERN),
          Test("verify", REGION, REGION_PATTERN), Test("march", REGION, {}),
          Test("verify", CodewordWords(MISCORRECT_ADDR), REGION_PATTERN),
          Test("verify", CodewordWords(UNCORR_ADDR), REGION_PATTERN)} \subseteq SteadyLine
  BY SteadyForms, ScriptData DEF Zeros
<1>2. \A that \in {"passed", "smoke", "escaped", "screened", "miscorrected", "uncorrectable"} :
         that \in Verdicts
  BY DEF Verdicts
<1>3. \A s, t \in Part : s \o t \in Part
  <2> HIDE DEF SteadyLine
  <2> QED OBVIOUS
<1>4. ResetStats \in SteadyLine
  BY SteadyForms
<1>5. <<ResetStats>> \in Part
  <2> HIDE DEF SteadyLine
  <2> QED BY <1>4
<1>6. /\ inject_bit_flip32(BITFLIP_ADDR, {0}) \in Part /\ inject_bit_flip32(SOFT_ADDR, {4}) \in Part
      /\ inject_bit_flip32(MISCORRECT_ADDR, {0}) \in Part
      /\ inject_bit_flip32(MISCORRECT_ADDR, {1}) \in Part
      /\ inject_bit_flip32(UNCORR_ADDR, {0}) \in Part
      /\ inject_bit_flip32(UNCORR_ADDR + WordsPerCodeword - 1, {WORD_BITS - 1}) \in Part
  <2>1. \A word \in Nat, positions \in SUBSET Nat : inject_bit_flip32(word, positions) \in Part
    BY FlipIsSteady
  <2> HIDE DEF Part
  <2> QED BY <2>1, ScriptData
<1>7. \A t \in SteadyLine, that \in Verdicts :
         /\ <<t, Row("test"), Require(that)>> \in Part
         /\ <<ResetStats, t, Row("test")>> \in Part
         /\ <<ResetStats, t, Row("test"), Require(that)>> \in Part
         /\ <<ClearFaults, t, Require(that)>> \in Part
  BY TestsAreSteady
<1>8. tc3_basic_rw \in Part
  <2> DEFINE a == WriteWord(SMOKE_ADDR, SMOKE_PATTERN)
  <2> DEFINE b == ReadWord(SMOKE_ADDR)
  <2> DEFINE c == Row("smoke")
  <2> DEFINE d == Require("smoke")
  <2>1. a \in SteadyLine /\ b \in SteadyLine /\ c \in SteadyLine /\ d \in SteadyLine
    BY <1>2, SteadyForms, ScriptData
  <2> HIDE DEF a, b, c, d, SteadyLine
  <2>2. <<a, b, c, d>> \in Part
    BY <2>1
  <2> QED BY <2>2 DEF tc3_basic_rw, a, b, c, d
<1>9. ASSUME TRUE
      PROVE  inject_bit_flip32(SOFT_ADDR, {4})
                \o <<ScrubRegion, Row("scrub"), ScrubRegion, Row("scrub"), Require("screened")>> \in Part
  <2> DEFINE a == Row("scrub")
  <2> DEFINE b == Require("screened")
  <2>1. a \in SteadyLine /\ b \in SteadyLine /\ ScrubRegion \in SteadyLine
    BY <1>2, SteadyForms
  <2> HIDE DEF a, b, SteadyLine
  <2>2. <<ScrubRegion, a, ScrubRegion, a, b>> \in Part
    BY <2>1
  <2> HIDE DEF Part
  <2>3. inject_bit_flip32(SOFT_ADDR, {4}) \o <<ScrubRegion, a, ScrubRegion, a, b>> \in Part
    BY <1>3, <1>6, <2>2
  <2> QED BY <2>3 DEF a, b
<1> HIDE DEF Part, SteadyLine
<1>10. tc2_topology_pattern \in Part /\ tc4_constant_pattern \in Part /\ tc9_march_c_minus \in Part
  BY <1>1, <1>2, <1>7 DEF tc2_topology_pattern, tc4_constant_pattern, tc9_march_c_minus
<1>11. run_cli_constant \in Part /\ run_cli_march \in Part
  <2>1. \A t \in SteadyLine : <<ResetStats, t, Row("test")>> \in Part
    BY <1>2, <1>7
  <2> QED BY <1>1, <2>1 DEF run_cli_constant, run_cli_march
<1>12. tc5_odecc_escape \in Part
  <2>1. <<Test("verify", REGION, REGION_PATTERN), Row("test"), Require("escaped")>> \in Part
    BY <1>1, <1>2, <1>7
  <2> QED BY <1>3, <1>5, <1>6, <2>1 DEF tc5_odecc_escape
<1>13. tc7_scrub_screen \in Part
  BY <1>9 DEF tc7_scrub_screen
<1>14. tc8_double_bit \in Part
  <2> DEFINE s1 == <<ClearFaults, Test("constant", REGION, REGION_PATTERN), Require("passed")>>
  <2> DEFINE s2 == inject_bit_flip32(MISCORRECT_ADDR, {0})
  <2> DEFINE s3 == inject_bit_flip32(MISCORRECT_ADDR, {1})
  <2> DEFINE s4 == <<ResetStats, Test("verify", CodewordWords(MISCORRECT_ADDR), REGION_PATTERN),
                     Row("test"), Require("miscorrected")>>
  <2> DEFINE s5 == inject_bit_flip32(UNCORR_ADDR, {0})
  <2> DEFINE s6 == inject_bit_flip32(UNCORR_ADDR + WordsPerCodeword - 1, {WORD_BITS - 1})
  <2> DEFINE s7 == <<ResetStats, Test("verify", CodewordWords(UNCORR_ADDR), REGION_PATTERN),
                     Row("test"), Require("uncorrectable")>>
  <2>1. s1 \in Part /\ s4 \in Part /\ s7 \in Part
    BY <1>1, <1>2, <1>7
  <2>2. s2 \in Part /\ s3 \in Part /\ s5 \in Part /\ s6 \in Part
    BY <1>6
  <2>3. tc8_double_bit = s1 \o s2 \o s3 \o s4 \o s5 \o s6 \o s7
    BY DEF tc8_double_bit
  <2> HIDE DEF s1, s2, s3, s4, s5, s6, s7
  <2> QED BY <1>3, <2>1, <2>2, <2>3
<1> QED BY <1>8, <1>10, <1>11, <1>12, <1>13, <1>14 DEF Part

\* tc6 adds its cell with its third line.
LEMMA tc6Shape == SteadyShape("tc6", tc6_stuck_escape)
<1> DEFINE a == <<ResetStats>>
<1> DEFINE word == ReadWord(STUCK_ADDR)
<1> DEFINE stuck == AddTo(Fault6, "fail")
<1> DEFINE b == <<word, stuck, word>>
<1> DEFINE t == Test("constant", REGION, REGION_PATTERN)
<1> DEFINE c == <<t, Row("test"), Require("escaped")>>
<1> DEFINE s == a \o b \o c
<1>1. tc6_stuck_escape = s
  BY DEF tc6_stuck_escape, inject_stuck_at32, Fault6
<1>2. t \in SteadyLine /\ word \in SteadyLine /\ ResetStats \in SteadyLine /\ "escaped" \in Verdicts
  BY SteadyForms, ScriptData DEF Verdicts
<1>3. c \in Seq(SteadyLine)
  BY <1>2, TestsAreSteady
<1>4. stuck \in Line /\ stuck.op = "fault" /\ SteadyLine \subseteq Line
  BY LineForms, LineOps DEF SteadyLine
<1>5. Len(c) = 3
  OBVIOUS
<1> HIDE DEF t, word, stuck, c
<1>6. /\ a \in Seq(Line) /\ b \in Seq(Line) /\ c \in Seq(Line)
      /\ Len(a) = 1 /\ a[1] = ResetStats
      /\ Len(b) = 3 /\ b[1] = word /\ b[2] = stuck /\ b[3] = word
  <2> HIDE DEF Line, SteadyLine
  <2> QED BY <1>2, <1>3, <1>4
<1> HIDE DEF a, b, Line
<1>7. /\ Len(s) = Len(a) + Len(b) + Len(c)
      /\ \A j \in 1 .. Len(a) : s[j] = a[j]
      /\ \A j \in 1 .. Len(b) : s[Len(a) + j] = b[j]
      /\ \A j \in 1 .. Len(c) : s[Len(a) + Len(b) + j] = c[j]
  <2> DEFINE Whole == Seq(Line)
  <2>1. a \in Whole /\ b \in Whole /\ c \in Whole
    BY <1>6
  <2> QED BY <2>1, Framed
<1> HIDE DEF s
<1>8. Len(s) = 7 /\ s[1] = ResetStats /\ s[2] = word /\ s[3] = stuck /\ s[4] = word
  BY <1>5, <1>6, <1>7
<1>9. s[5] = c[1] /\ s[6] = c[2] /\ s[7] = c[3]
  BY <1>5, <1>6, <1>7
<1>10. s[5] \in SteadyLine /\ s[6] \in SteadyLine /\ s[7] \in SteadyLine
  <2>1. \A e \in Seq(SteadyLine) : \A j \in 1 .. Len(e) : e[j] \in SteadyLine
    <3> HIDE DEF SteadyLine
    <3> QED OBVIOUS
  <2>2. \A j \in 1 .. Len(c) : c[j] \in SteadyLine
    BY <1>3, <2>1
  <2>3. 1 \in 1 .. Len(c) /\ 2 \in 1 .. Len(c) /\ 3 \in 1 .. Len(c)
    BY <1>5
  <2> QED BY <1>9, <2>2, <2>3
<1>11. \A j \in 1 .. 7 : j = 1 \/ j = 2 \/ j = 3 \/ j = 4 \/ j = 5 \/ j = 6 \/ j = 7
  OBVIOUS
<1>12. \A l \in SteadyLine :
         l \in Line /\ l.op \notin {"odecc", "temperature", "advance", "fault"}
  BY DEF SteadyLine
<1>13. \A j \in 1 .. 7 : s[j] \in SteadyLine \/ (j = 3 /\ s[j] = stuck)
  <2> HIDE DEF SteadyLine
  <2> QED BY <1>2, <1>8, <1>10, <1>11
<1>14. SteadyShape("tc6", s)
  BY <1>4, <1>8, <1>12, <1>13 DEF SteadyShape, stuck
<1> QED BY <1>1, <1>14

\* How each script goes.
LEMMA ScriptShapes ==
  /\ MatrixShape(Scripts.tc10) /\ RetentionShape(Scripts.tc11) /\ RetentionShape(Scripts.shmoo)
  /\ Scripts.odecc_back = <<Odecc(TRUE), Require("never")>>
  /\ \A name \in DOMAIN Scripts \ {"tc10", "tc11", "shmoo", "odecc_back"} :
        SteadyShape(name, Scripts[name])
<1>1. MatrixShape(Scripts.tc10) /\ RetentionShape(Scripts.tc11) /\ RetentionShape(Scripts.shmoo)
  BY tc10Shape, tc11Shape, shmooShape DEF Scripts
<1>2. Scripts.odecc_back = <<Odecc(TRUE), Require("never")>>
  BY DEF Scripts
<1>3. SteadyShape("tc6", Scripts.tc6)
  BY tc6Shape DEF Scripts
<1>4. ASSUME NEW name, NEW s \in Seq(SteadyLine) PROVE SteadyShape(name, s)
  <2>1. \A j \in 1 .. Len(s) : s[j] \in SteadyLine
    <3> HIDE DEF SteadyLine
    <3> QED OBVIOUS
  <2> QED BY <2>1 DEF SteadyShape, SteadyLine
<1>5. <<>> \in Seq(SteadyLine) /\ <<Require("never")>> \in Seq(SteadyLine)
  <2>1. Require("never") \in SteadyLine
    BY SteadyForms DEF Verdicts
  <2> HIDE DEF SteadyLine
  <2> QED BY <2>1
<1> DEFINE Part == Seq(SteadyLine)
<1>6. /\ Scripts.tc1 \in Part /\ Scripts.tc2 \in Part /\ Scripts.tc3 \in Part
      /\ Scripts.tc4 \in Part /\ Scripts.tc5 \in Part /\ Scripts.tc7 \in Part
      /\ Scripts.tc8 \in Part /\ Scripts.tc9 \in Part /\ Scripts.constant \in Part
      /\ Scripts.march \in Part /\ Scripts.addrmap \in Part /\ Scripts.fail \in Part
  BY <1>5, PlainScriptsAreSteady DEF Scripts
<1>7. \A name \in {"tc1", "tc2", "tc3", "tc4", "tc5", "tc7", "tc8", "tc9", "constant", "march",
                   "addrmap", "fail"} : Scripts[name] \in Part
  BY <1>6
<1>8. DOMAIN Scripts = {"tc1", "tc2", "tc3", "tc4", "tc5", "tc6", "tc7", "tc8", "tc9", "tc10",
                        "tc11", "constant", "march", "shmoo", "addrmap", "fail", "odecc_back"}
  BY DEF Scripts
<1> QED BY <1>1, <1>2, <1>3, <1>4, <1>7, <1>8

-----------------------------------------------------------------------------
(* What the scenarios do to the conditions of the memory, and when.         *)

EnvRef == temperature_c = 25 /\ ns_since_refresh = 0
Lasting(f) == f.type \in StuckType /\ f.retention_ns = 0

\* tc6 has its cell still to add.
Pending == (script = "tc6" /\ line <= 3) \/ \E k \in 2 .. Len(left) : left[k] = "tc6"

\* The table holds the injected fault and the cell of tc6, if they are there already.
FaultsRef ==
    /\ IsSequence(faults) /\ \A i \in DOMAIN faults : Lasting(faults[i])
    /\ Len(faults) <= IF Pending THEN 1 ELSE 2

AtReference == odecc_enabled /\ EnvRef /\ FaultsRef

\* No scenario is called twice, and the one that runs is the first of those left
\* or its way out.
LeftInv ==
    /\ \A j, k \in 1 .. Len(left) : left[j] = left[k] => j = k
    /\ script \in {left[1], "fail", "odecc_back"}

\* Behind clear_faults, and behind the fill that follows one, the table is empty.
ClearedInv ==
    /\ line > 1 /\ line - 1 <= Len(Lines) /\ Lines[line - 1].op = "clear" => faults = <<>>
    /\ line > 2 /\ line - 1 <= Len(Lines) /\ Lines[line - 1].op = "fill"
         /\ Lines[line - 2].op = "clear" => faults = <<>>

\* What a scenario has changed so far and has still to undo.
MatrixMode ==
    /\ EnvRef
    /\ line > Len(Lines) - 2 => faults = <<>>
    /\ line > Len(Lines) - 1 => odecc_enabled
RetentionMode ==
    /\ line <= 3 => EnvRef
    /\ line > Len(Lines) - 4 => faults = <<>>
    /\ line > Len(Lines) - 3 => temperature_c = 25
    /\ line > Len(Lines) - 2 => ns_since_refresh = 0
    /\ line > Len(Lines) - 1 => odecc_enabled
WayOutMode == EnvRef /\ FaultsRef /\ (line > 1 => odecc_enabled)
ModeInv ==
    /\ script = "tc10" => MatrixMode
    /\ script \in {"tc11", "shmoo"} => RetentionMode
    /\ script = "odecc_back" => WayOutMode
    /\ script \notin {"tc10", "tc11", "shmoo", "odecc_back"} => AtReference

RunInv == ScriptInv /\ LeftInv /\ ClearedInv /\ ModeInv

\* How a line of a script goes on to the next one.
Moves ==
    /\ NextLine /\ line <= Len(Lines)
    /\ odecc_enabled' = IF Here.op = "odecc" THEN Here.on ELSE odecc_enabled
    /\ temperature_c' = IF Here.op = "temperature" THEN Here.celsius ELSE temperature_c
    /\ Here.op = "refresh" => ns_since_refresh' = 0
    /\ Here.op \notin {"refresh", "advance"} => UNCHANGED ns_since_refresh
    /\ Here.op = "clear" => faults' = <<>>
    /\ Here.op = "fault" => faults' = Append(faults, Here.fault)
    /\ Here.op \notin {"clear", "fault"} => UNCHANGED faults

\* How a full table sends a scenario to its way out.
BailsOut ==
    /\ line <= Len(Lines) /\ Here.op = "fault" /\ ~(Len(faults) < DRAM_MAX_FAULTS)
    /\ script' = Here.bail /\ line' = 1 /\ UNCHANGED program
    /\ UNCHANGED <<faults, odecc_enabled, environment>>

\* How a scenario returns.
Gives == Here.op = "require" \/ line > Len(Lines)
Returns == Gives /\ UNCHANGED <<faults, odecc_enabled, environment>> /\ \E rc : Return(rc)

\* Every step of a scenario is one of these, or an access that changes none of it.
LEMMA ScenarioSteps ==
  ASSUME stage = "run",
         \/ CallMemory \/ AddFaultLine \/ TestLine \/ TestAccess \/ ScrubLine
         \/ logger_row \/ AgreeLine \/ RequireLine \/ ScenarioReturns
  PROVE  \/ Moves \/ BailsOut \/ Returns
         \/ UNCHANGED <<faults, odecc_enabled, environment, hvars>>
<1>1. ASSUME NextLine, line <= Len(Lines), UNCHANGED <<faults, odecc_enabled, environment>>,
             Here.op \notin {"odecc", "temperature", "refresh", "advance", "clear", "fault"}
      PROVE  Moves
  BY <1>1 DEF Moves, environment
<1>2. CASE CallMemory
  <2>1. NextLine /\ line <= Len(Lines)
    BY <1>2 DEF CallMemory
  <2>2. CASE Do("write") \/ Do("read") \/ Do("flip") \/ Do("reset")
    <3>1. Here.op \in {"write", "read", "flip", "reset"}
      BY <2>2 DEF Do
    <3>2. UNCHANGED <<faults, odecc_enabled, environment>>
      BY <1>2, <3>1 DEF CallMemory, Do, dram_write32, dram_read32, dram_inject_bit_flip,
                        dram_reset_ecc_stats
    <3> QED BY <1>1, <2>1, <3>1, <3>2
  <2>3. CASE Do("clear") /\ dram_clear_faults
    BY <2>1, <2>3 DEF Do, dram_clear_faults, Moves, environment
  <2>4. CASE Do("odecc") /\ dram_set_odecc_enabled(Here.on)
    BY <2>1, <2>4 DEF Do, dram_set_odecc_enabled, Moves, environment
  <2>5. CASE Do("temperature") /\ dram_set_temperature(Here.celsius)
    BY <2>1, <2>5 DEF Do, dram_set_temperature, Moves
  <2>6. CASE Do("refresh") /\ dram_refresh
    BY <2>1, <2>6 DEF Do, dram_refresh, Moves
  <2>7. CASE Do("advance") /\ dram_advance_time(Here.ms)
    BY <2>1, <2>7 DEF Do, dram_advance_time, Moves
  <2> QED BY <1>2, <2>2, <2>3, <2>4, <2>5, <2>6, <2>7 DEF CallMemory
<1>3. CASE AddFaultLine
  <2>1. line <= Len(Lines) /\ Here.op = "fault"
    BY <1>3 DEF AddFaultLine, Do
  <2>2. CASE Len(faults) < DRAM_MAX_FAULTS
    <3>1. AddFaultCall(Here.fault) /\ NextLine
      BY <1>3, <2>2 DEF AddFaultLine
    <3>2. AddFault(Here.fault)
      BY <3>1 DEF AddFaultCall, dram_add_stuck_fault, dram_add_transition_fault,
                  dram_add_coupling_fault, dram_add_retention_fault
    <3> QED BY <2>1, <3>1, <3>2 DEF AddFault, Moves, environment
  <2>3. CASE ~(Len(faults) < DRAM_MAX_FAULTS)
    BY <1>3, <2>1, <2>3 DEF AddFaultLine, BailsOut, vars
  <2> QED BY <2>2, <2>3
<1>4. CASE TestLine
  <2>1. NextLine /\ line <= Len(Lines) /\ Here.op \in {"test", "fill"} /\ UNCHANGED vars
    BY <1>4 DEF TestLine, Do, Start, Loop
  <2> QED BY <1>1, <2>1 DEF vars
<1>5. CASE TestAccess
  BY <1>5 DEF TestAccess, ReadStep, WriteStep, dram_read32, dram_write32
<1>6. CASE ScrubLine
  <2>1. NextLine /\ line <= Len(Lines) /\ Here.op = "scrub"
    BY <1>6 DEF ScrubLine, Do
  <2>2. UNCHANGED <<faults, odecc_enabled, environment>>
    BY <1>6 DEF ScrubLine, dram_scrub_range
  <2> QED BY <1>1, <2>1, <2>2
<1>7. CASE logger_row \/ AgreeLine
  <2>1. NextLine /\ line <= Len(Lines) /\ Here.op \in {"row", "agree"} /\ UNCHANGED vars
    BY <1>7 DEF logger_row, AgreeLine, Do
  <2> QED BY <1>1, <2>1 DEF vars
<1>8. CASE RequireLine
  <2>1. line <= Len(Lines) /\ Here.op = "require"
    BY <1>8 DEF RequireLine, Do
  <2>2. CASE ConditionHolds(Here.that)
    <3>1. NextLine /\ UNCHANGED vars
      BY <1>8, <2>2 DEF RequireLine
    <3> QED BY <1>1, <2>1, <3>1 DEF vars
  <2>3. CASE ~ConditionHolds(Here.that)
    <3>1. Return(-1)
      BY <1>8, <2>3 DEF RequireLine
    <3>2. UNCHANGED <<faults, odecc_enabled, environment>>
      BY <3>1 DEF Return, vars
    <3> QED BY <2>1, <3>1, <3>2 DEF Returns, Gives
  <2> QED BY <2>2, <2>3
<1>9. CASE ScenarioReturns
  <2>1. Return(0) /\ line > Len(Lines)
    BY <1>9 DEF ScenarioReturns
  <2>2. UNCHANGED <<faults, odecc_enabled, environment>>
    BY <2>1 DEF Return, vars
  <2> QED BY <2>1, <2>2 DEF Returns, Gives
<1> QED BY <1>2, <1>3, <1>4, <1>5, <1>6, <1>7, <1>8, <1>9

\* What the first and the last lines of tc10, tc11 and the sweep call.
LEMMA ShapeOps ==
  ASSUME NEW s
  PROVE  /\ MatrixShape(s) =>
              /\ Len(s) > 3 /\ s[1].op = "odecc" /\ s[Len(s) - 2].op = "clear"
              /\ s[Len(s) - 1].op = "odecc" /\ s[Len(s)].op = "require"
         /\ RetentionShape(s) =>
              /\ Len(s) > 7 /\ s[1].op = "odecc" /\ s[2].op = "clear" /\ s[3].op = "fault"
              /\ s[Len(s) - 4].op = "clear" /\ s[Len(s) - 3].op = "temperature"
              /\ s[Len(s) - 2].op = "refresh" /\ s[Len(s) - 1].op = "odecc"
              /\ s[Len(s)].op = "require"
<1>1. /\ Odecc(FALSE).op = "odecc" /\ Odecc(TRUE).op = "odecc" /\ ClearFaults.op = "clear"
      /\ Require("match").op = "require" /\ AddTo(WeakCell, "odecc_back").op = "fault"
      /\ Temperature(25).op = "temperature" /\ Refresh.op = "refresh"
  BY DEF Odecc, ClearFaults, Require, AddTo, Temperature, Refresh
<1>2. ASSUME MatrixShape(s)
      PROVE  /\ Len(s) > 3 /\ s[1] = Odecc(FALSE) /\ s[Len(s) - 2] = ClearFaults
             /\ s[Len(s) - 1] = Odecc(TRUE) /\ s[Len(s)] = Require("match")
  BY <1>2 DEF MatrixShape
<1>3. ASSUME RetentionShape(s)
      PROVE  /\ Len(s) > 7 /\ s[1] = Odecc(FALSE) /\ s[2] = ClearFaults
             /\ s[3] = AddTo(WeakCell, "odecc_back") /\ s[Len(s) - 4] = ClearFaults
             /\ s[Len(s) - 3] = Temperature(25) /\ s[Len(s) - 2] = Refresh
             /\ s[Len(s) - 1] = Odecc(TRUE) /\ s[Len(s)] = Require("match")
  BY <1>3 DEF RetentionShape
<1> QED BY <1>1, <1>2, <1>3

\* A scenario gives the memory back as it should be.
LEMMA GivesReference ==
  ASSUME RunInv, Gives
  PROVE  AtReference
<1>1. script \in DOMAIN Scripts /\ line \in Nat \ {0} /\ Lines = Scripts[script]
  BY DEF RunInv, ScriptInv, Lines
<1>2. Lines \in Seq(Line)
  BY <1>1, ScriptsAreGood DEF Good
<1>3. Len(Lines) \in Nat
  BY <1>2
<1>4. ASSUME faults = <<>> PROVE FaultsRef
  <2>1. <<>> \in Seq({}) /\ Len(<<>>) = 0 /\ DOMAIN <<>> = {}
    OBVIOUS
  <2> QED BY <1>4, <2>1 DEF FaultsRef, IsSequence
<1>5. CASE script = "tc10"
  <2>1. MatrixShape(Lines) /\ MatrixMode
    BY <1>1, <1>5, ScriptShapes DEF RunInv, ModeInv
  <2>2. line > Len(Lines) - 1
    <3>1. CASE line > Len(Lines)
      BY <1>1, <1>3, <3>1
    <3>2. CASE line <= Len(Lines) /\ Lines[line].op = "require"
      <4>1. line # 1 /\ line # Len(Lines) - 2 /\ line # Len(Lines) - 1
        <5>1. /\ Lines[1].op = "odecc" /\ Lines[Len(Lines) - 2].op = "clear"
              /\ Lines[Len(Lines) - 1].op = "odecc"
          BY <2>1, ShapeOps
        <5> QED BY <3>2, <5>1
      <4>2. line \notin 2 .. Len(Lines) - 3
        BY <2>1, <3>2 DEF MatrixShape, MatrixLine
      <4> QED BY <1>1, <1>3, <3>2, <4>1, <4>2
    <3> QED BY <1>1, <1>3, <3>1, <3>2 DEF Gives, Here
  <2>3. faults = <<>> /\ odecc_enabled /\ EnvRef
    BY <1>1, <1>3, <2>1, <2>2 DEF MatrixMode
  <2> QED BY <1>4, <2>3 DEF AtReference
<1>6. CASE script \in {"tc11", "shmoo"}
  <2>1. RetentionShape(Lines) /\ RetentionMode
    BY <1>1, <1>6, ScriptShapes DEF RunInv, ModeInv
  <2>2. line > Len(Lines) - 1
    <3>1. CASE line > Len(Lines)
      BY <1>1, <1>3, <3>1
    <3>2. CASE line <= Len(Lines) /\ Lines[line].op = "require"
      <4>1. /\ line # 1 /\ line # 2 /\ line # 3 /\ line # Len(Lines) - 4
            /\ line # Len(Lines) - 3 /\ line # Len(Lines) - 2 /\ line # Len(Lines) - 1
        <5>1. /\ Lines[1].op = "odecc" /\ Lines[2].op = "clear" /\ Lines[3].op = "fault"
              /\ Lines[Len(Lines) - 4].op = "clear" /\ Lines[Len(Lines) - 3].op = "temperature"
              /\ Lines[Len(Lines) - 2].op = "refresh" /\ Lines[Len(Lines) - 1].op = "odecc"
          BY <2>1, ShapeOps
        <5> QED BY <3>2, <5>1
      <4>2. line \notin 4 .. Len(Lines) - 5
        BY <2>1, <3>2 DEF RetentionShape, RetentionLine
      <4> QED BY <1>1, <1>3, <3>2, <4>1, <4>2
    <3> QED BY <1>1, <1>3, <3>1, <3>2 DEF Gives, Here
  <2>3. faults = <<>> /\ odecc_enabled /\ EnvRef
    BY <1>1, <1>3, <2>1, <2>2 DEF RetentionMode, EnvRef
  <2> QED BY <1>4, <2>3 DEF AtReference
<1>7. CASE script = "odecc_back"
  <2>1. Lines = <<Odecc(TRUE), Require("never")>> /\ WayOutMode
    BY <1>1, <1>7, ScriptShapes DEF RunInv, ModeInv
  <2>2. Len(Lines) = 2 /\ Lines[1].op = "odecc"
    BY <2>1, LineOps
  <2>3. line > 1
    BY <1>1, <2>2 DEF Gives, Here
  <2> QED BY <2>1, <2>3 DEF WayOutMode, AtReference
<1> QED BY <1>5, <1>6, <1>7 DEF RunInv, ModeInv

\* The next line of a script.
LEMMA MovesKeepMode ==
  ASSUME RunInv, left # <<>>, Moves
  PROVE  ClearedInv' /\ ModeInv'
<1>1. /\ script \in DOMAIN Scripts /\ line \in Nat \ {0} /\ Lines = Scripts[script]
      /\ left \in Seq(DOMAIN Scripts)
  BY DEF RunInv, ScriptInv, Lines
<1>2. Lines \in Seq(Line)
  BY <1>1, ScriptsAreGood DEF Good
<1>3. Len(Lines) \in Nat /\ line <= Len(Lines) /\ Len(left) \in Nat \ {0}
  BY <1>1, <1>2 DEF Moves
<1>4. /\ line' = line + 1 /\ script' = script /\ left' = left /\ Lines' = Lines
      /\ Here = Lines[line] /\ line' - 1 = line /\ line' - 2 = line - 1
  BY <1>1 DEF Moves, NextLine, program, Lines, Here
<1>5. ClearedInv'
  <2>1. Here.op = "clear" => faults' = <<>>
    BY DEF Moves
  <2>2. ASSUME line > 1, Here.op = "fill", Lines[line - 1].op = "clear" PROVE faults' = <<>>
    <3>1. faults = <<>>
      BY <1>1, <1>3, <2>2 DEF RunInv, ClearedInv
    <3> QED BY <2>2, <3>1 DEF Moves
  <2>3. line' > 2 => line > 1
    BY <1>1, <1>4
  <2> QED BY <1>4, <2>1, <2>2, <2>3 DEF ClearedInv
<1>6. CASE script = "tc10"
  <2>1. MatrixShape(Lines) /\ MatrixMode
    BY <1>1, <1>6, ScriptShapes DEF RunInv, ModeInv
  <2>2. Len(Lines) > 3
    BY <2>1 DEF MatrixShape
  <2>3. Here.op \notin {"temperature", "refresh", "advance"}
    <3>1. CASE line \in 2 .. Len(Lines) - 3
      BY <1>4, <2>1, <3>1 DEF MatrixShape, MatrixLine
    <3>2. CASE line \notin 2 .. Len(Lines) - 3
      <4>1. \/ line = 1 \/ line = Len(Lines) - 2 \/ line = Len(Lines) - 1 \/ line = Len(Lines)
        BY <1>1, <1>3, <3>2
      <4>2. /\ Lines[1].op = "odecc" /\ Lines[Len(Lines) - 2].op = "clear"
            /\ Lines[Len(Lines) - 1].op = "odecc" /\ Lines[Len(Lines)].op = "require"
        BY <2>1, ShapeOps
      <4> QED BY <1>4, <4>1, <4>2
    <3> QED BY <3>1, <3>2
  <2>4. EnvRef'
    BY <2>1, <2>3 DEF MatrixMode, EnvRef, Moves
  <2>5. line = Len(Lines) - 2 => faults' = <<>>
    <3>1. line = Len(Lines) - 2 => Here.op = "clear"
      BY <1>4, <2>1, LineOps DEF MatrixShape
    <3> QED BY <3>1 DEF Moves
  <2>6. line > Len(Lines) - 2 => faults' = <<>>
    <3>1. ASSUME line > Len(Lines) - 2 PROVE Here.op \notin {"clear", "fault"} /\ faults = <<>>
      <4>1. line = Len(Lines) - 1 \/ line = Len(Lines)
        BY <1>1, <1>3, <3>1
      <4>2. Lines[Len(Lines) - 1].op = "odecc" /\ Lines[Len(Lines)].op = "require"
        BY <2>1, ShapeOps
      <4> QED BY <1>4, <2>1, <3>1, <4>1, <4>2 DEF MatrixMode
    <3> QED BY <3>1 DEF Moves
  <2>7. line = Len(Lines) - 1 => odecc_enabled'
    <3>1. ASSUME line = Len(Lines) - 1 PROVE Here = Odecc(TRUE)
      BY <1>4, <2>1, <3>1 DEF MatrixShape
    <3>2. Odecc(TRUE).op = "odecc" /\ Odecc(TRUE).on = TRUE
      BY DEF Odecc
    <3> QED BY <3>1, <3>2 DEF Moves
  <2>8. line = Len(Lines) => odecc_enabled'
    <3>1. ASSUME line = Len(Lines) PROVE Here.op = "require" /\ odecc_enabled
      <4>1. Lines[Len(Lines)].op = "require" /\ line > Len(Lines) - 1
        BY <1>3, <2>1, <3>1, LineOps DEF MatrixShape
      <4> QED BY <1>4, <2>1, <3>1, <4>1 DEF MatrixMode
    <3> QED BY <3>1 DEF Moves
  <2>9. /\ line' > Len(Lines) - 2 => line = Len(Lines) - 2 \/ line > Len(Lines) - 2
        /\ line' > Len(Lines) - 1 => line = Len(Lines) - 1 \/ line = Len(Lines)
    BY <1>1, <1>3, <1>4
  <2>10. MatrixMode'
    BY <1>4, <2>4, <2>5, <2>6, <2>7, <2>8, <2>9 DEF MatrixMode
  <2> QED BY <1>4, <1>5, <1>6, <2>10 DEF ModeInv
<1>7. CASE script \in {"tc11", "shmoo"}
  <2>1. RetentionShape(Lines) /\ RetentionMode
    BY <1>1, <1>7, ScriptShapes DEF RunInv, ModeInv
  <2> DEFINE n == Len(Lines)
  <2>2. /\ n > 7 /\ Lines[1].op = "odecc" /\ Lines[2].op = "clear"
        /\ Lines[n - 4].op = "clear" /\ Lines[n - 3] = Temperature(25)
        /\ Lines[n - 2].op = "refresh" /\ Lines[n - 1] = Odecc(TRUE) /\ Lines[n].op = "require"
    BY <2>1, ShapeOps DEF RetentionShape
  <2>3. /\ Temperature(25).op = "temperature" /\ Temperature(25).celsius = 25
        /\ Odecc(TRUE).op = "odecc" /\ Odecc(TRUE).on = TRUE
    BY DEF Temperature, Odecc
  <2>4. n \in Nat /\ line <= n
    BY <1>3
  <2> HIDE DEF n
  <2>5. line' <= 3 => EnvRef'
    <3>1. line' <= 3 => line = 1 \/ line = 2
      BY <1>1, <1>4
    <3>2. ASSUME line = 1 \/ line = 2
          PROVE  EnvRef /\ Here.op \notin {"temperature", "refresh", "advance"}
      BY <1>4, <2>1, <2>2, <3>2 DEF RetentionMode
    <3> QED BY <3>1, <3>2 DEF Moves, EnvRef
  <2>6. line' > n - 4 => faults' = <<>>
    <3>1. ASSUME line' > n - 4
          PROVE  line = n - 4 \/ line = n - 3 \/ line = n - 2 \/ line = n - 1 \/ line = n
      BY <1>1, <1>4, <2>4, <3>1
    <3>2. line = n - 4 => faults' = <<>>
      BY <1>4, <2>2 DEF Moves
    <3>3. ASSUME line = n - 3 \/ line = n - 2 \/ line = n - 1 \/ line = n
          PROVE  faults' = <<>>
      <4>1. line > n - 4
        BY <2>4, <3>3
      <4>2. faults = <<>>
        BY <2>1, <4>1 DEF RetentionMode, n
      <4>3. Here.op \notin {"clear", "fault"}
        BY <1>4, <2>2, <2>3, <3>3
      <4> QED BY <4>2, <4>3 DEF Moves
    <3> QED BY <3>1, <3>2, <3>3
  <2>7. line' > n - 3 => temperature_c' = 25
    <3>1. ASSUME line' > n - 3
          PROVE  line = n - 3 \/ line = n - 2 \/ line = n - 1 \/ line = n
      BY <1>1, <1>4, <2>4, <3>1
    <3>2. line = n - 3 => temperature_c' = 25
      BY <1>4, <2>2, <2>3 DEF Moves
    <3>3. ASSUME line = n - 2 \/ line = n - 1 \/ line = n PROVE temperature_c' = 25
      <4>1. line > n - 3
        BY <2>4, <3>3
      <4>2. temperature_c = 25
        BY <2>1, <4>1 DEF RetentionMode, n
      <4>3. Here.op # "temperature"
        BY <1>4, <2>2, <2>3, <3>3
      <4> QED BY <4>2, <4>3 DEF Moves
    <3> QED BY <3>1, <3>2, <3>3
  <2>8. line' > n - 2 => ns_since_refresh' = 0
    <3>1. ASSUME line' > n - 2 PROVE line = n - 2 \/ line = n - 1 \/ line = n
      BY <1>1, <1>4, <2>4, <3>1
    <3>2. line = n - 2 => ns_since_refresh' = 0
      BY <1>4, <2>2 DEF Moves
    <3>3. ASSUME line = n - 1 \/ line = n PROVE ns_since_refresh' = 0
      <4>1. line > n - 2
        BY <2>4, <3>3
      <4>2. ns_since_refresh = 0
        BY <2>1, <4>1 DEF RetentionMode, n
      <4>3. Here.op \notin {"refresh", "advance"}
        BY <1>4, <2>2, <2>3, <3>3
      <4> QED BY <4>2, <4>3 DEF Moves
    <3> QED BY <3>1, <3>2, <3>3
  <2>9. line' > n - 1 => odecc_enabled'
    <3>1. ASSUME line' > n - 1 PROVE line = n - 1 \/ line = n
      BY <1>1, <1>4, <2>4, <3>1
    <3>2. line = n - 1 => odecc_enabled'
      BY <1>4, <2>2, <2>3 DEF Moves
    <3>3. ASSUME line = n PROVE odecc_enabled'
      <4>1. line > n - 1
        BY <2>4, <3>3
      <4>2. odecc_enabled
        BY <2>1, <4>1 DEF RetentionMode, n
      <4> QED BY <1>4, <2>2, <3>3, <4>2 DEF Moves
    <3> QED BY <3>1, <3>2, <3>3
  <2>10. RetentionMode'
    BY <1>4, <2>5, <2>6, <2>7, <2>8, <2>9 DEF RetentionMode, n
  <2> QED BY <1>4, <1>5, <1>7, <2>10 DEF ModeInv
\* tc6's third line is the only one of the other scripts that adds a fault.
<1>8. ASSUME FaultsRef, Here.op = "fault" => script = "tc6" /\ line = 3 /\ Here.fault = Fault6
      PROVE  FaultsRef'
  <2>1. PICK S : faults \in Seq(S)
    BY <1>8 DEF FaultsRef, IsSequence
  <2>2. Pending' => Pending
    <3>1. line' <= 3 => line <= 3
      BY <1>1, <1>4
    <3> QED BY <1>4, <3>1 DEF Pending
  <2>3. CASE Here.op = "clear"
    <3>1. <<>> \in Seq({}) /\ Len(<<>>) = 0 /\ DOMAIN <<>> = {}
      OBVIOUS
    <3>2. faults' = <<>>
      BY <2>3 DEF Moves
    <3>3. IsSequence(<<>>)
      BY <3>1 DEF IsSequence
    <3> QED BY <3>1, <3>2, <3>3 DEF FaultsRef
  <2>4. CASE Here.op \notin {"clear", "fault"}
    <3>1. faults' = faults
      BY <2>4 DEF Moves
    <3>2. Len(faults) \in Nat
      BY <2>1
    <3> QED BY <1>8, <2>2, <3>1, <3>2 DEF FaultsRef
  <2>5. CASE Here.op = "fault"
    <3>1. faults' = Append(faults, Fault6) /\ script = "tc6" /\ line = 3
      BY <1>8, <2>5 DEF Moves
    <3>2. Len(faults) <= 1 /\ Len(faults) \in Nat
      BY <1>8, <2>1, <3>1 DEF FaultsRef, Pending
    <3>3. ~Pending'
      <4>1. left[1] = "tc6"
        BY <3>1 DEF RunInv, LeftInv
      <4>2. \A k \in 2 .. Len(left) : left[k] # "tc6"
        BY <1>3, <4>1 DEF RunInv, LeftInv
      <4>3. ~(line' <= 3)
        BY <1>4, <3>1
      <4> QED BY <1>4, <4>2, <4>3 DEF Pending
    <3>4. Lasting(Fault6)
      BY DEF Lasting, Fault6, OneFault, StuckType
    <3> DEFINE f == Fault6
    <3> HIDE DEF f
    <3>5. /\ Append(faults, f) \in Seq(S \cup {f}) /\ Len(Append(faults, f)) = Len(faults) + 1
          /\ DOMAIN Append(faults, f) = 1 .. Len(faults) + 1 /\ DOMAIN faults = 1 .. Len(faults)
          /\ Append(faults, f)[Len(faults) + 1] = f
          /\ \A j \in 1 .. Len(faults) : Append(faults, f)[j] = faults[j]
      BY <2>1
    <3>6. \A j \in DOMAIN Append(faults, f) : Lasting(Append(faults, f)[j])
      <4>1. \A j \in DOMAIN faults : Lasting(faults[j])
        BY <1>8 DEF FaultsRef
      <4>2. \A j \in 1 .. Len(faults) + 1 : j = Len(faults) + 1 \/ j \in 1 .. Len(faults)
        BY <3>2
      <4> QED BY <3>4, <3>5, <4>1, <4>2 DEF f
    <3>7. IsSequence(Append(faults, f))
      BY <3>5 DEF IsSequence
    <3>8. faults' = Append(faults, f)
      BY <3>1 DEF f
    <3> QED BY <3>2, <3>3, <3>5, <3>6, <3>7, <3>8 DEF FaultsRef
  <2> QED BY <2>3, <2>4, <2>5
<1>9. CASE script = "odecc_back"
  <2>1. Lines = <<Odecc(TRUE), Require("never")>> /\ WayOutMode
    BY <1>1, <1>9, ScriptShapes DEF RunInv, ModeInv
  <2>2. /\ Odecc(TRUE).op = "odecc" /\ Odecc(TRUE).on = TRUE
        /\ Require("never").op = "require"
    BY DEF Odecc, Require
  <2>3. Len(Lines) = 2 /\ Lines[1] = Odecc(TRUE) /\ Lines[2] = Require("never")
    BY <2>1
  <2>4. line = 1 \/ line = 2
    BY <1>1, <1>3, <2>3
  <2>5. odecc_enabled' /\ UNCHANGED <<temperature_c, ns_since_refresh>>
    <3>1. CASE line = 1
      BY <1>4, <2>2, <2>3, <3>1 DEF Moves
    <3>2. CASE line = 2
      BY <1>4, <2>1, <2>2, <2>3, <3>2 DEF Moves, WayOutMode
    <3> QED BY <2>4, <3>1, <3>2
  <2>6. FaultsRef'
    BY <1>4, <1>8, <2>1, <2>2, <2>3, <2>4 DEF WayOutMode
  <2>7. WayOutMode'
    BY <2>1, <2>5, <2>6 DEF WayOutMode, EnvRef
  <2> QED BY <1>4, <1>5, <1>9, <2>7 DEF ModeInv
<1>10. CASE script \notin {"tc10", "tc11", "shmoo", "odecc_back"}
  <2>1. SteadyShape(script, Lines) /\ AtReference
    BY <1>1, <1>10, ScriptShapes DEF RunInv, ModeInv
  <2>2. /\ Here.op \notin {"odecc", "temperature", "advance"}
        /\ Here.op = "fault" => script = "tc6" /\ line = 3 /\ Here = AddTo(Fault6, "fail")
    BY <1>1, <1>3, <1>4, <2>1 DEF SteadyShape
  <2>3. AddTo(Fault6, "fail").fault = Fault6
    BY DEF AddTo
  <2>4. FaultsRef'
    BY <1>8, <2>1, <2>2, <2>3 DEF AtReference
  <2>5. odecc_enabled' /\ EnvRef'
    BY <2>1, <2>2 DEF Moves, AtReference, EnvRef
  <2> QED BY <1>4, <1>5, <1>10, <2>4, <2>5 DEF ModeInv, AtReference
<1> QED BY <1>6, <1>7, <1>9, <1>10

\* The ways out start from a memory that needs no more than ODECC switched on.
LEMMA BailKeepsMode ==
  ASSUME RunInv, BailsOut
  PROVE  LeftInv' /\ ClearedInv' /\ ModeInv'
<1>1. /\ script \in DOMAIN Scripts /\ line \in Nat \ {0} /\ Lines = Scripts[script]
  BY DEF RunInv, ScriptInv, Lines
<1>2. Lines \in Seq(Line)
  BY <1>1, ScriptsAreGood DEF Good
<1>3. Len(Lines) \in Nat /\ line \in 1 .. Len(Lines) /\ Here = Lines[line]
  BY <1>1, <1>2 DEF BailsOut, Here
<1>4. /\ line' = 1 /\ script' = Here.bail /\ left' = left /\ Here.op = "fault"
      /\ faults' = faults /\ odecc_enabled' = odecc_enabled /\ EnvRef' = EnvRef
  BY DEF BailsOut, program, environment, EnvRef
<1>5. ClearedInv'
  BY <1>4 DEF ClearedInv
<1>6. ASSUME Here.bail = "odecc_back", EnvRef, faults = <<>>
      PROVE  LeftInv' /\ ModeInv'
  <2>1. <<>> \in Seq({}) /\ Len(<<>>) = 0 /\ DOMAIN <<>> = {}
    OBVIOUS
  <2>2. IsSequence(<<>>)
    BY <2>1 DEF IsSequence
  <2>3. FaultsRef'
    BY <1>4, <1>6, <2>1, <2>2 DEF FaultsRef
  <2>4. WayOutMode'
    BY <1>4, <1>6, <2>3 DEF WayOutMode
  <2> QED BY <1>4, <1>6, <2>4 DEF ModeInv, LeftInv, RunInv
<1>7. ASSUME Here.bail = "fail", AtReference
      PROVE  LeftInv' /\ ModeInv'
  <2>1. PICK S : faults \in Seq(S)
    BY <1>7 DEF AtReference, FaultsRef, IsSequence
  <2>2. Len(faults) \in Nat
    BY <2>1
  <2>3. Pending' => Pending
    BY <1>4, <1>7 DEF Pending
  <2>4. FaultsRef'
    BY <1>4, <1>7, <2>2, <2>3 DEF FaultsRef, AtReference
  <2> QED BY <1>4, <1>7, <2>4 DEF ModeInv, LeftInv, RunInv, AtReference
<1>8. /\ AddTo(WeakCell, "odecc_back").bail = "odecc_back"
      /\ AddTo(Fault6, "fail").bail = "fail"
  BY DEF AddTo
<1>9. CASE script = "tc10"
  <2>1. MatrixShape(Lines) /\ MatrixMode
    BY <1>1, <1>9, ScriptShapes DEF RunInv, ModeInv
  <2>2. line > 2 /\ Lines[line - 1].op = "fill" /\ Lines[line - 2].op = "clear"
    BY <1>3, <1>4, <2>1 DEF MatrixShape, FaultsFollowClear
  <2>3. faults = <<>>
    BY <1>3, <2>2 DEF RunInv, ClearedInv
  <2>4. Here.bail = "odecc_back"
    <3>1. /\ Len(Lines) > 3 /\ Lines[1].op = "odecc" /\ Lines[Len(Lines) - 2].op = "clear"
          /\ Lines[Len(Lines) - 1].op = "odecc" /\ Lines[Len(Lines)].op = "require"
      BY <2>1, ShapeOps
    <3>2. line \in 2 .. Len(Lines) - 3
      BY <1>3, <1>4, <3>1
    <3> QED BY <1>3, <1>4, <2>1, <3>2 DEF MatrixShape, MatrixLine
  <2> QED BY <1>5, <1>6, <2>1, <2>3, <2>4 DEF MatrixMode
<1>10. CASE script \in {"tc11", "shmoo"}
  <2>1. RetentionShape(Lines) /\ RetentionMode
    BY <1>1, <1>10, ScriptShapes DEF RunInv, ModeInv
  <2>2. line = 3
    <3>1. line \notin 4 .. Len(Lines) - 5
      BY <1>3, <1>4, <2>1 DEF RetentionShape, RetentionLine
    <3> DEFINE n == Len(Lines)
    <3>2. /\ n > 7 /\ Lines[1].op = "odecc" /\ Lines[2].op = "clear"
          /\ Lines[n - 4].op = "clear" /\ Lines[n - 3].op = "temperature"
          /\ Lines[n - 2].op = "refresh" /\ Lines[n - 1].op = "odecc" /\ Lines[n].op = "require"
      BY <2>1, ShapeOps
    <3>3. /\ line # 1 /\ line # 2 /\ line # n - 4 /\ line # n - 3 /\ line # n - 2
          /\ line # n - 1 /\ line # n
      BY <1>3, <1>4, <3>2
    <3>4. n \in Nat /\ line \in 1 .. n /\ line \notin 4 .. n - 5
      BY <1>3, <3>1
    <3> HIDE DEF n
    <3> QED BY <3>2, <3>3, <3>4
  <2>3. Here.bail = "odecc_back" /\ Lines[2].op = "clear"
    <3>1. Here = AddTo(WeakCell, "odecc_back")
      BY <1>3, <2>1, <2>2 DEF RetentionShape
    <3>2. Lines[2].op = "clear"
      BY <2>1, ShapeOps
    <3> QED BY <1>8, <3>1, <3>2
  <2>4. EnvRef /\ faults = <<>>
    BY <1>3, <2>1, <2>2, <2>3 DEF RetentionMode, RunInv, ClearedInv
  <2> QED BY <1>5, <1>6, <2>3, <2>4
<1>11. CASE script = "odecc_back"
  <2>1. Lines = <<Odecc(TRUE), Require("never")>>
    BY <1>1, <1>11, ScriptShapes
  <2>2. Odecc(TRUE).op = "odecc" /\ Require("never").op = "require"
    BY DEF Odecc, Require
  <2>3. Len(Lines) = 2 /\ Lines[1].op = "odecc" /\ Lines[2].op = "require"
    BY <2>1, <2>2
  <2> QED BY <1>3, <1>4, <2>3
<1>12. CASE script \notin {"tc10", "tc11", "shmoo", "odecc_back"}
  <2>1. SteadyShape(script, Lines) /\ AtReference
    BY <1>1, <1>12, ScriptShapes DEF RunInv, ModeInv
  <2>2. Here = AddTo(Fault6, "fail")
    BY <1>3, <1>4, <2>1 DEF SteadyShape
  <2> QED BY <1>5, <1>7, <1>8, <2>1, <2>2
<1> QED BY <1>9, <1>10, <1>11, <1>12

\* A scenario starts on a memory at its reference condition.
LEMMA CallStartsMode ==
  ASSUME line' = 1, odecc_enabled', EnvRef', FaultsRef', script' \in DOMAIN Scripts
  PROVE  ClearedInv' /\ ModeInv'
<1>1. PICK name : name = script' /\ name \in DOMAIN Scripts
  OBVIOUS
<1>2. Lines' = Scripts[name]
  BY <1>1 DEF Lines
<1>3. Scripts[name] \in Seq(Line)
  BY <1>1, ScriptsAreGood DEF Good
<1>4. Len(Scripts[name]) \in Nat
  BY <1>3
<1>5. ASSUME name = "tc10" PROVE MatrixMode'
  <2>1. Len(Scripts[name]) > 3
    BY <1>5, ScriptShapes DEF MatrixShape
  <2>2. ~(1 > Len(Scripts[name]) - 2) /\ ~(1 > Len(Scripts[name]) - 1)
    BY <1>4, <2>1
  <2> QED BY <1>2, <2>2 DEF MatrixMode
<1>6. ASSUME name \in {"tc11", "shmoo"} PROVE RetentionMode'
  <2>1. Len(Scripts[name]) > 7
    BY <1>6, ScriptShapes DEF RetentionShape
  <2>2. /\ ~(1 > Len(Scripts[name]) - 4) /\ ~(1 > Len(Scripts[name]) - 3)
        /\ ~(1 > Len(Scripts[name]) - 2) /\ ~(1 > Len(Scripts[name]) - 1)
    BY <1>4, <2>1
  <2> QED BY <1>2, <2>2 DEF RetentionMode
<1>7. WayOutMode' /\ AtReference'
  BY DEF WayOutMode, AtReference
<1>8. ModeInv'
  BY <1>1, <1>5, <1>6, <1>7 DEF ModeInv
<1> QED BY <1>8 DEF ClearedInv

\* A scenario returns, and the next one starts on what it leaves.
LEMMA ReturnKeepsMode ==
  ASSUME RunInv, stage = "run", Returns
  PROVE  stage' = "run" => RunInv'
<1>1. AtReference
  BY GivesReference DEF Returns
<1>2. PICK rc : Return(rc)
  BY DEF Returns
<1>3. /\ faults' = faults /\ odecc_enabled' = odecc_enabled /\ EnvRef' = EnvRef
  BY DEF Returns, environment, EnvRef
<1>4. ScriptInv'
  BY <1>2, ReturnFacts DEF RunInv
<1>5. ASSUME stage' = "run" PROVE RunInv'
  <2>1. Tail(left) # <<>> /\ Call(Tail(left))
    BY <1>2, <1>5 DEF Return
  <2>2. left \in Seq(DOMAIN Scripts) /\ left # <<>>
    BY DEF RunInv, ScriptInv
  <2>3. /\ left' = Tail(left) /\ script' = Head(Tail(left)) /\ line' = 1
    BY <2>1 DEF Call
  <2>4. /\ Len(Tail(left)) = Len(left) - 1 /\ Len(left) \in Nat \ {0}
        /\ \A k \in 1 .. Len(Tail(left)) : Tail(left)[k] = left[k + 1]
        /\ Head(Tail(left)) = Tail(left)[1]
    <3>1. /\ Len(Tail(left)) = Len(left) - 1
          /\ \A k \in 1 .. Len(Tail(left)) : Tail(left)[k] = left[k + 1]
      BY <2>2, HeadTailProperties
    <3>2. Len(left) \in Nat \ {0}
      BY <2>2
    <3>3. \A s : Head(s) = s[1]
      OBVIOUS
    <3> QED BY <3>1, <3>2, <3>3
  <2>5. 1 \in 1 .. Len(Tail(left))
    <3>1. Tail(left) \in Seq(DOMAIN Scripts)
      BY <2>2
    <3>2. Len(Tail(left)) # 0
      BY <2>1, <3>1, EmptySeq
    <3> QED BY <2>4, <3>2
  <2>6. LeftInv'
    <3>1. \A j, k \in 1 .. Len(Tail(left)) : Tail(left)[j] = Tail(left)[k] => j = k
      <4>1. ASSUME NEW j \in 1 .. Len(Tail(left)), NEW k \in 1 .. Len(Tail(left)),
                   Tail(left)[j] = Tail(left)[k]
            PROVE  j = k
        <5>1. j + 1 \in 1 .. Len(left) /\ k + 1 \in 1 .. Len(left) /\ left[j + 1] = left[k + 1]
          BY <2>4, <4>1
        <5>2. j + 1 = k + 1
          BY <5>1 DEF RunInv, LeftInv
        <5> QED BY <5>2
      <4> QED BY <4>1
    <3> QED BY <2>3, <2>4, <3>1 DEF LeftInv
  <2>7. Pending' => Pending
    <3>1. script' = "tc6" => left[2] = "tc6" /\ 2 \in 2 .. Len(left)
      BY <2>3, <2>4, <2>5
    <3>2. \A k \in 2 .. Len(Tail(left)) :
             k + 1 \in 2 .. Len(left) /\ Tail(left)[k] = left[k + 1]
      BY <2>4
    <3> QED BY <2>3, <3>1, <3>2 DEF Pending
  <2>8. FaultsRef'
    <3>1. PICK S : faults \in Seq(S)
      BY <1>1 DEF AtReference, FaultsRef, IsSequence
    <3>2. Len(faults) \in Nat
      BY <3>1
    <3> QED BY <1>1, <1>3, <2>7, <3>2 DEF FaultsRef, AtReference
  <2>9. ClearedInv' /\ ModeInv'
    BY <1>1, <1>3, <1>4, <2>3, <2>8, CallStartsMode DEF AtReference, ScriptInv
  <2> QED BY <1>4, <2>6, <2>9 DEF RunInv
<1> QED BY <1>5

\* main goes into the scenarios with the memory as dram_init left it and at most
\* the injected fault in it.
LEMMA InjectStartsMode ==
  ASSUME opt \in Options, odecc_enabled, EnvRef, faults = <<>>, main_apply_inject
  PROVE  stage' = "run" => RunInv'
<1> SUFFICES ASSUME stage' = "run" PROVE RunInv'
  OBVIOUS
<1>1. opt.inject # BadSpec /\ Call(Selected(opt.test_name))
  BY DEF main_apply_inject
<1> DEFINE names == Selected(opt.test_name)
<1>2. names \in Seq(DOMAIN Scripts) /\ names # <<>>
  BY SelectedScripts
<1>3. \A j, k \in 1 .. Len(names) : names[j] = names[k] => j = k
  <2>1. \A j, k \in 1 .. 11 : kTests[j] = kTests[k] => j = k
    BY DEF kTests
  <2>2. Len(kTests) = 11
    BY DEF kTests
  <2>3. \A name : \A j, k \in 1 .. Len(<<name>>) : <<name>>[j] = <<name>>[k] => j = k
    OBVIOUS
  <2>4. names = kTests \/ \E name : names = <<name>>
    BY DEF Selected
  <2> HIDE DEF names
  <2> QED BY <2>1, <2>2, <2>3, <2>4
<1>4. ScriptInv'
  BY <1>1, <1>2, CallFacts
<1> HIDE DEF names
<1>5. left' = names /\ script' = Head(names) /\ Head(names) = names[1] /\ line' = 1
  BY <1>1, <1>2 DEF Call, names
<1>6. LeftInv'
  BY <1>3, <1>5 DEF LeftInv
<1>7. /\ odecc_enabled' = odecc_enabled /\ UNCHANGED environment
      /\ \/ faults' = faults
         \/ \E positions :
               /\ faults' = Append(faults, OneFault(opt.inject.type, opt.inject.at, positions))
               /\ opt.inject.type \in StuckType
  <2>1. \/ opt.inject = NoInjection
        \/ opt.inject # NoInjection /\ opt.inject.type \in {"bitflip"} \cup StuckType
    BY <1>1, ScenariosAssumption
  <2>2. CASE opt.inject = NoInjection
    <3>1. UNCHANGED vars
      BY <1>1, <2>2 DEF main_apply_inject, NoInjection, StuckType
    <3> QED BY <3>1 DEF vars
  <2>3. CASE opt.inject # NoInjection /\ opt.inject.type = "bitflip"
    BY <1>1, <2>3 DEF main_apply_inject, dram_inject_bit_flip, StuckType
  <2>4. CASE opt.inject # NoInjection /\ opt.inject.type \in StuckType
    <3>1. AddFault(OneFault(opt.inject.type, opt.inject.at, opt.inject.positions))
      BY <1>1, <2>4 DEF main_apply_inject, dram_add_stuck_fault, StuckType
    <3> QED BY <2>4, <3>1 DEF AddFault
  <2> QED BY <2>1, <2>2, <2>3, <2>4
<1>8. FaultsRef'
  <2>1. CASE faults' = <<>>
    <3>1. <<>> \in Seq({}) /\ Len(<<>>) = 0 /\ DOMAIN <<>> = {}
      OBVIOUS
    <3>2. IsSequence(<<>>)
      BY <3>1 DEF IsSequence
    <3> QED BY <2>1, <3>1, <3>2 DEF FaultsRef
  <2>2. ASSUME NEW f, faults' = Append(<<>>, f), Lasting(f) PROVE FaultsRef'
    <3>1. /\ Append(<<>>, f) = <<f>> /\ <<f>> \in Seq({f}) /\ Len(<<f>>) = 1
          /\ DOMAIN <<f>> = {1} /\ <<f>>[1] = f
      OBVIOUS
    <3>2. IsSequence(<<f>>)
      BY <3>1 DEF IsSequence
    <3> QED BY <2>2, <3>1, <3>2 DEF FaultsRef
  <2>3. \A type \in StuckType : \A word, positions : Lasting(OneFault(type, word, positions))
    BY DEF Lasting, OneFault
  <2> QED BY <1>7, <2>1, <2>2, <2>3
<1>9. odecc_enabled' /\ EnvRef'
  BY <1>7 DEF environment, EnvRef
<1>10. ClearedInv' /\ ModeInv'
  BY <1>4, <1>5, <1>8, <1>9, CallStartsMode DEF ScriptInv
<1> QED BY <1>4, <1>6, <1>10 DEF RunInv

\* From dram_init to the last scenario.
RefInv ==
    launched = "host" =>
        /\ stage = "inject" => odecc_enabled /\ EnvRef /\ faults = <<>>
        /\ stage = "run" => RunInv

\* Every step of the host program keeps it, and a scenario that returns left the
\* memory at its reference condition.
LEMMA RefInvStep ==
  ASSUME RefInv, launched = "host", launched' = launched, opt \in Options, HostNext
  PROVE  /\ RefInv'
         /\ ((left' # left /\ stage = "run") \/ Decides) => AtReference
<1>1. CASE stage = "log" \/ stage = "close"
  <2>1. stage' \notin {"inject", "run"}
    BY <1>1, StageSteps DEF main_logger_open, main_logger_close
  <2> QED BY <1>1, <2>1 DEF RefInv, Decides
<1>2. CASE stage = "init"
  <2>1. main_dram_init
    BY <1>2, StageSteps
  <2>2. stage' \in {"inject", "close"} /\ (stage' = "inject" => up')
    BY <2>1 DEF main_dram_init
  <2>3. up' => odecc_enabled' /\ EnvRef' /\ faults' = <<>>
    BY <2>1 DEF main_dram_init, dram_init, ClearTables, EnvRef
  <2> QED BY <1>2, <2>2, <2>3 DEF RefInv, Decides
<1>3. CASE stage = "inject"
  <2>1. main_apply_inject
    BY <1>3, StageSteps
  <2>2. stage' \in {"free", "run"}
    BY <2>1 DEF main_apply_inject
  <2>3. stage' = "run" => RunInv'
    BY <1>3, <2>1, InjectStartsMode DEF RefInv
  <2> QED BY <1>3, <2>2, <2>3 DEF RefInv, Decides
<1>4. CASE stage = "free"
  <2>1. stage' = "close"
    BY <1>4, StageSteps DEF main_dram_free
  <2> QED BY <1>4, <2>1 DEF RefInv, Decides
<1>5. CASE stage \notin {"log", "init", "inject", "free", "close"}
  <2>1. stage = "run" /\ stage' \in {"run", "free"}
    BY <1>5, ScenarioStages
  <2>2. RunInv /\ left # <<>>
    BY <2>1 DEF RefInv, RunInv, ScriptInv
  <2>3. ~(main_logger_open \/ main_dram_init \/ main_apply_inject \/ main_dram_free
          \/ main_logger_close)
    BY <2>1 DEF main_logger_open, main_dram_init, main_apply_inject, main_dram_free,
                main_logger_close
  <2>4. \/ Moves \/ BailsOut \/ Returns
        \/ UNCHANGED <<faults, odecc_enabled, environment, hvars>>
    BY <2>1, <2>3, ScenarioSteps DEF HostNext
  <2>5. CASE Moves
    <3>1. /\ left' = left /\ stage' = stage /\ script' = script
          /\ NextLine /\ line <= Len(Lines)
      BY <2>5 DEF Moves, NextLine, program
    <3>2. ScriptInv'
      BY <2>2, <3>1, NextLineFacts DEF RunInv
    <3>3. ClearedInv' /\ ModeInv'
      BY <2>2, <2>5, MovesKeepMode
    <3>4. LeftInv'
      BY <2>2, <3>1 DEF RunInv, LeftInv
    <3>5. RunInv'
      BY <3>2, <3>3, <3>4 DEF RunInv
    <3> QED BY <2>1, <3>1, <3>5 DEF RefInv, Decides
  <2>6. CASE BailsOut
    <3>1. left' = left /\ stage' = stage /\ script' = Here.bail /\ line' = 1
      BY <2>6 DEF BailsOut, program
    <3>2. Here.bail \in {"fail", "odecc_back"}
      BY <2>2, <2>6, HereIsALine, LineFields DEF BailsOut, RunInv
    <3>3. {"fail", "odecc_back"} \subseteq DOMAIN Scripts
      BY DEF Scripts
    <3>4. ScriptInv'
      BY <2>2, <3>1, <3>2, <3>3 DEF RunInv, ScriptInv
    <3>5. RunInv'
      BY <2>2, <2>6, <3>4, BailKeepsMode DEF RunInv
    <3> QED BY <2>1, <3>1, <3>5 DEF RefInv, Decides
  <2>7. CASE Returns
    <3>1. AtReference
      BY <2>2, <2>7, GivesReference DEF Returns
    <3>2. stage' = "run" => RunInv'
      BY <2>1, <2>2, <2>7, ReturnKeepsMode
    <3> QED BY <2>1, <3>1, <3>2 DEF RefInv
  <2>8. CASE UNCHANGED <<faults, odecc_enabled, environment, hvars>>
    <3>1. /\ UNCHANGED <<faults, odecc_enabled, temperature_c, ns_since_refresh>>
          /\ UNCHANGED <<stage, left, script, line>>
      BY <2>8 DEF environment, hvars
    <3>2. RefInv' /\ left' = left /\ stage' = stage
      BY <3>1 DEF RefInv, RunInv, ScriptInv, LeftInv, ClearedInv, ModeInv, MatrixMode,
                  RetentionMode, WayOutMode, AtReference, EnvRef, FaultsRef, Pending, Lines
    <3> QED BY <3>2 DEF Decides
  <2> QED BY <2>4, <2>5, <2>6, <2>7, <2>8
<1> QED BY <1>1, <1>2, <1>3, <1>4, <1>5

(***************************************************************************)
(* Whatever was injected, however many faults the table holds, and whether *)
(* a scenario passed, failed or found the table full: it gives the memory  *)
(* back with ODECC on, at 25 degrees, just refreshed, and with no fault    *)
(* but the injected one and the cell tc6 leaves for tc7.                   *)
(***************************************************************************)
THEOREM MemoryGivenBack == WorkbenchSpec => LeavesReference
<1> DEFINE HeldInv == OneProgram /\ opt \in Options /\ RefInv
<1>1. WorkbenchInit => HeldInv
  <2> SUFFICES ASSUME WorkbenchInit PROVE HeldInv
    OBVIOUS
  <2>1. OneProgram /\ opt \in Options
    BY DEF WorkbenchInit, HostInit, BootInit, OneProgram
  <2>2. stage = "log"
    BY DEF WorkbenchInit, HostInit
  <2> QED BY <2>1, <2>2 DEF RefInv
<1>2. HeldInv /\ [WorkbenchNext]_all_vars => HeldInv'
  <2> SUFFICES ASSUME HeldInv, [WorkbenchNext]_all_vars
               PROVE  HeldInv'
    OBVIOUS
  <2>1. CASE HostRuns
    <3>1. launched = "host" /\ launched' = launched /\ HostNext /\ UNCHANGED bvars
      BY <2>1 DEF HostRuns
    <3>2. RefInv'
      BY <3>1, RefInvStep
    <3>3. opt' = opt
      BY <3>1, OptionsStay
    <3> QED BY <3>1, <3>2, <3>3 DEF OneProgram, bvars
  <2>2. CASE BootRuns
    BY <2>2 DEF BootRuns, OneProgram, RefInv, hvars
  <2>3. CASE UNCHANGED <<vars, tvars, hvars, bvars, launched>>
    <3>1. /\ launched' = launched /\ opt' = opt /\ UNCHANGED <<boot, saved>>
          /\ UNCHANGED <<faults, odecc_enabled, temperature_c, ns_since_refresh>>
          /\ UNCHANGED <<stage, left, script, line>>
      BY <2>3 DEF vars, environment, hvars, bvars
    <3>2. RefInv'
      BY <3>1 DEF RefInv, RunInv, ScriptInv, LeftInv, ClearedInv, ModeInv, MatrixMode,
                  RetentionMode, WayOutMode, AtReference, EnvRef, FaultsRef, Pending, Lines
    <3> QED BY <3>1, <3>2 DEF OneProgram
  <2> QED BY <2>1, <2>2, <2>3 DEF WorkbenchNext, ViewerLoads, ViewerFilters, Stays, all_vars
<1>3. HeldInv /\ [WorkbenchNext]_all_vars =>
        [(left' # left /\ stage = "run") \/ Decides =>
            /\ odecc_enabled /\ temperature_c = 25 /\ ns_since_refresh = 0
            /\ \A i \in DOMAIN faults :
                  faults[i].type \in StuckType /\ faults[i].retention_ns = 0
            /\ Len(faults) <= 2]_<<vars, tvars, hvars>>
  <2> SUFFICES ASSUME HeldInv, [WorkbenchNext]_all_vars,
                      (left' # left /\ stage = "run") \/ Decides
               PROVE  /\ odecc_enabled /\ temperature_c = 25 /\ ns_since_refresh = 0
                      /\ \A i \in DOMAIN faults :
                            faults[i].type \in StuckType /\ faults[i].retention_ns = 0
                      /\ Len(faults) <= 2
    OBVIOUS
  <2>1. HostRuns
    BY DEF WorkbenchNext, HostRuns, BootRuns, ViewerLoads, ViewerFilters, Stays, all_vars,
           hvars, OneProgram, Decides
  <2>2. launched = "host" /\ launched' = launched /\ HostNext
    BY <2>1 DEF HostRuns
  <2>3. AtReference
    BY <2>2, RefInvStep
  <2>4. PICK S : faults \in Seq(S)
    BY <2>3 DEF AtReference, FaultsRef, IsSequence
  <2>5. Len(faults) <= 2
    <3>1. Len(faults) \in Nat
      BY <2>4
    <3> QED BY <2>3, <3>1 DEF AtReference, FaultsRef
  <2> QED BY <2>3, <2>5 DEF AtReference, EnvRef, FaultsRef, Lasting
<1> QED BY <1>1, <1>2, <1>3, PTL DEF WorkbenchSpec, LeavesReference

================================================================================
