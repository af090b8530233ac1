------------------------------- MODULE BootApp -------------------------------
(***************************************************************************)
(* The boot-time program, uefi/DramTestPkg/DramTestApp/DramTestApp.c: the  *)
(* escape of tc6 on the virtual DRAM, a test of memory the firmware hands  *)
(* out, and both results in a file on the boot disk.                       *)
(*                                                                         *)
(* Every firmware call is a step, and each whose status the code looks at  *)
(* may fail.  The firmware is external: it fails where it likes, its pages *)
(* may hold defective words, and its disk the results of an earlier boot.  *)
(***************************************************************************)
EXTENDS MemoryTest, FiniteSetsExt

CONSTANTS
    DEMO_REGION,    \* the words of the demonstration's region
    DEMO_STUCK_ADDR,
    RealWords       \* number of words of the pages tested

\* DEMO_PATTERN is the host's region pattern, DEMO_STUCK_MASK its bit 1.
DEMO_PATTERN == {b \in DataBit : b % 2 = 1}
\* Mutant: the cell is stuck at the value the pattern has there.
DEMO_STUCK_UNSEEN ==
    [type |-> "STUCK_AT_0", cw |-> CodewordOf(DEMO_STUCK_ADDR),
     mask |-> {Min(Bits(WordAt(DEMO_STUCK_ADDR)))},
     victim_cw |-> 0, victim_mask |-> {}, retention_ns |-> 0]

DEMO_STUCK_FAULT ==
    [type |-> "STUCK_AT_0", cw |-> CodewordOf(DEMO_STUCK_ADDR),
     mask |-> {Min(Bits(WordAt(DEMO_STUCK_ADDR))) + 1},
     victim_cw |-> 0, victim_mask |-> {}, retention_ns |-> 0]

ASSUME BootAssumption ==
    /\ RealWords \in Nat \ {0}
    /\ DEMO_REGION \in Seq(0 .. MemoryWords - 1) /\ DEMO_REGION # <<>>
    /\ DEMO_STUCK_ADDR \in 0 .. MemoryWords - 1
    \* The region has no word twice and all words of the stuck cell's codeword.
    /\ \A j, k \in DOMAIN DEMO_REGION : DEMO_REGION[j] = DEMO_REGION[k] => j = k
    /\ \A w \in Word : \E k \in DOMAIN DEMO_REGION :
          /\ CodewordOf(DEMO_REGION[k]) = CodewordOf(DEMO_STUCK_ADDR)
          /\ WordAt(DEMO_REGION[k]) = w
    \* Words start at even bits, which the pattern leaves 0, and have a bit 1.
    /\ Min(Bits(WordAt(DEMO_STUCK_ADDR))) \in Nat
    /\ Min(Bits(WordAt(DEMO_STUCK_ADDR))) % 2 = 0
    /\ DEMO_STUCK_FAULT.mask \subseteq Bits(WordAt(DEMO_STUCK_ADDR))
    /\ DEMO_STUCK_FAULT \in FaultMenu /\ DRAM_MAX_FAULTS > 0

VARIABLES
    boot,           \* the next call of UefiMain
    held,           \* what it holds of the firmware's: pool, pages, open files
    cells_set,      \* the words of the pages written so far
    defective,      \* the words that lost what was written to them
    checked,        \* the words read back so far
    bad,            \* how many of them were wrong
    escaped, mem_pass,
    boot_csv,       \* the lines of dram_boot_results.csv on the disk
    saved           \* (for the properties) this run wrote all of its results

pages_vars == <<cells_set, defective, checked, bad>>
bvars == <<boot, held, pages_vars, escaped, mem_pass, boot_csv, saved>>

CsvLine(verdict, corr) == [fields |-> 4, result |-> verdict, ecc_corr |-> corr]
HeaderLine == CsvLine("result", 0)

\* What an earlier boot left of the file: nothing, or a part of its results.
OlderFiles ==
    {SubSeq(<<HeaderLine, CsvLine("PASS", WordsPerCodeword), CsvLine(verdict, 0)>>, 1, lines) :
        verdict \in {"PASS", "FAIL"}, lines \in 0 .. 3}

BootInit ==
    /\ boot = "dram_init"
    /\ held = {}
    /\ cells_set = 0 /\ defective = {} /\ checked = 0 /\ bad = 0
    /\ escaped = FALSE /\ mem_pass = FALSE
    /\ boot_csv \in OlderFiles /\ saved = FALSE

Goto(from, to) == boot = from /\ boot' = to

-----------------------------------------------------------------------------
(* The simulated escape.                                                    *)

BootDramInit ==
    /\ boot = "dram_init"
    /\ dram_init
    /\ boot' = IF up' THEN "reset" ELSE "exited"
    /\ UNCHANGED <<tvars, held, pages_vars, escaped, mem_pass, boot_csv, saved>>

\* The result of dram_add_stuck_fault is not looked at; the table is empty.
sim_escape_demo ==
    /\ \/ Goto("reset", "stuck") /\ dram_reset_ecc_stats /\ UNCHANGED <<tvars, escaped>>
       \/ Goto("stuck", "test") /\ dram_add_stuck_fault(DEMO_STUCK_FAULT)
          /\ UNCHANGED <<tvars, escaped>>
       \/ Goto("test", "testing") /\ Start("constant", DEMO_REGION, DEMO_PATTERN)
          /\ UNCHANGED escaped
       \/ /\ boot = "testing" /\ (ReadStep \/ WriteStep) /\ UNCHANGED <<boot, escaped>>
       \/ /\ Goto("testing", "map_size") /\ todo = <<>>
          /\ escaped' = (result.error_count = 0 /\ ecc_corr_count > 0)
          /\ UNCHANGED <<vars, tvars>>
    /\ UNCHANGED <<held, pages_vars, mem_pass, boot_csv, saved>>

-----------------------------------------------------------------------------
(* The real memory.  A call that fails ends the test with mem_pass 0.       *)

\* The status of the first call, which only asks for the size, is not looked at.
GetMapSize == Goto("map_size", "pool") /\ UNCHANGED held

AllocateMap ==
    \/ Goto("pool", "map") /\ held' = held \cup {"pool"}
    \/ Goto("pool", "csv") /\ UNCHANGED held

\* Mutant: the buffer is not freed when the map is not to be had.
LeakMap ==
    \/ Goto("map", "free_map") /\ UNCHANGED held
    \/ Goto("map", "csv") /\ UNCHANGED held

\* It fails when the map has outgrown the buffer, which its own allocation may
\* cause beyond the two descriptors of slack, or for any reason of the firmware.
GetMap ==
    \/ Goto("map", "free_map") /\ UNCHANGED held
    \/ Goto("map", "csv") /\ held' = held \ {"pool"}

FreeMap == Goto("free_map", "pages") /\ held' = held \ {"pool"}

AllocatePages ==
    \/ Goto("pages", "write") /\ held' = held \cup {"pages"}
    \/ Goto("pages", "csv") /\ UNCHANGED held

MemoryMapCalls ==
    /\ GetMapSize \/ AllocateMap \/ GetMap \/ FreeMap \/ AllocatePages
    /\ UNCHANGED <<vars, tvars, pages_vars, escaped, mem_pass, boot_csv, saved>>

WriteCell ==
    /\ boot = "write" /\ cells_set < RealWords
    /\ cells_set' = cells_set + 1
    /\ defective' \in {defective, defective \cup {cells_set'}}
    /\ boot' = IF cells_set' = RealWords THEN "read" ELSE "write"
    /\ UNCHANGED <<checked, bad>>

\* Mutant: the verdict is on the last word read.
ReadCellKeepsLast ==
    /\ boot = "read" /\ checked < RealWords
    /\ checked' = checked + 1
    /\ bad' = IF checked' \in defective THEN 1 ELSE 0
    /\ boot' = IF checked' = RealWords THEN "free_pages" ELSE "read"
    /\ UNCHANGED <<cells_set, defective>>

ReadCell ==
    /\ boot = "read" /\ checked < RealWords
    /\ checked' = checked + 1
    /\ bad' = bad + IF checked' \in defective THEN 1 ELSE 0
    /\ boot' = IF checked' = RealWords THEN "free_pages" ELSE "read"
    /\ UNCHANGED <<cells_set, defective>>

TestPages ==
    /\ \/ (WriteCell \/ ReadCell) /\ UNCHANGED <<held, mem_pass>>
       \/ /\ Goto("free_pages", "csv")
          /\ held' = held \ {"pages"}
          /\ mem_pass' = (bad = 0)
          /\ UNCHANGED pages_vars
    /\ UNCHANGED <<vars, tvars, escaped, boot_csv, saved>>

-----------------------------------------------------------------------------
(* The file on the boot disk.                                               *)

Results ==
    <<HeaderLine,
      CsvLine(IF escaped THEN "PASS" ELSE "FAIL", ecc_corr_count),
      CsvLine(IF mem_pass THEN "PASS" ELSE "FAIL", 0)>>

\* save_csv gives up at the first call that fails; the boot disk, its file
\* system and the root are looked up first.
LookUp ==
    \/ Goto("csv", "volume") /\ UNCHANGED <<held, boot_csv, saved>>
    \/ Goto("csv", "say") /\ UNCHANGED <<held, boot_csv, saved>>
    \/ Goto("volume", "open") /\ held' = held \cup {"root"} /\ UNCHANGED <<boot_csv, saved>>
    \/ Goto("volume", "say") /\ UNCHANGED <<held, boot_csv, saved>>

\* A new file has no lines yet; an older one is opened as it is, and not cut.
OpenFile ==
    \/ Goto("open", "write_file") /\ held' = held \cup {"file"} /\ UNCHANGED <<boot_csv, saved>>
    \/ Goto("open", "say") /\ held' = held \ {"root"} /\ UNCHANGED <<boot_csv, saved>>

\* The text goes over the start of what the file holds.  The status of Write is
\* not looked at: a full disk keeps a part of the text.
WriteFile ==
    /\ Goto("write_file", "close_file")
    /\ \E lines \in 0 .. Len(Results) :
          /\ boot_csv' = SubSeq(Results, 1, lines)
                         \o SubSeq(boot_csv, lines + 1, Len(boot_csv))
          /\ saved' = (lines = Len(Results))
    /\ UNCHANGED held

CloseFiles ==
    /\ \/ Goto("close_file", "close_root") /\ held' = held \ {"file"}
       \/ Goto("close_root", "say") /\ held' = held \ {"root"}
    /\ UNCHANGED <<boot_csv, saved>>

save_csv ==
    /\ LookUp \/ OpenFile \/ WriteFile \/ CloseFiles
    /\ UNCHANGED <<vars, tvars, pages_vars, escaped, mem_pass>>

\* The line "[CSV ] wrote" is printed whatever save_csv did; then the end.
Finish ==
    /\ \/ Goto("say", "free") /\ UNCHANGED vars
       \/ Goto("free", "key") /\ dram_free
       \/ Goto("key", "exited") /\ UNCHANGED vars
    /\ UNCHANGED <<tvars, held, pages_vars, escaped, mem_pass, boot_csv, saved>>

BootNext ==
    BootDramInit \/ sim_escape_demo \/ MemoryMapCalls \/ TestPages \/ save_csv \/ Finish

-----------------------------------------------------------------------------
(* Properties.                                                              *)

(***************************************************************************)
(* The program gives everything back to the firmware, whichever of its     *)
(* calls failed: buffers, pages, open files and the virtual DRAM.          *)
(***************************************************************************)
NothingLeftHeld == boot = "exited" => held = {} /\ ~up

(***************************************************************************)
(* Once the results are written, the file holds them and nothing of an     *)
(* earlier boot, and a "real_memory,PASS" in it is earned: it is never the *)
(* default of a call that failed before, every word was written and read   *)
(* back, and none was defective.  (Written in part or not at all, the file *)
(* keeps the verdict of the earlier boot.)                                 *)
(***************************************************************************)
VerdictIsEarned ==
    saved =>
        /\ Len(boot_csv) = 3
        /\ boot_csv[3].result = "PASS" =>
              cells_set = RealWords /\ checked = RealWords /\ defective = {}

(***************************************************************************)
(* The boot run shows the escape uefi/README.md prints ("corrected=4",     *)
(* "stuck-at escaped the test"): the test passes over the stuck cell, and  *)
(* each read of a word of its codeword counts one correction, no more.     *)
(***************************************************************************)
BootShowsEscape ==
    boot \notin {"dram_init", "reset", "stuck", "test", "testing"} /\ up =>
        escaped /\ ecc_corr_count = WordsPerCodeword /\ ecc_uncorr_count = 0

==============================================================================
