------------------------------ MODULE Workbench ------------------------------
(***************************************************************************)
(* One run of a program and the viewer on the file it wrote: the host      *)
(* program (Scenarios) with dram_test_results.csv or the boot-time one     *)
(* (BootApp) with dram_boot_results.csv.  The two programs share the core, *)
(* MemoryTest on DramModel; the viewer shares nothing but the file, and is *)
(* asked for it when the program has ended.                                *)
(***************************************************************************)
EXTENDS Scenarios, BootApp, Viewer

VARIABLE launched   \* the program that runs: "host" or "boot"

all_vars == <<vars, tvars, hvars, bvars, viewer_vars, launched>>

WorkbenchInit ==
    /\ TestInit /\ HostInit /\ BootInit /\ ViewerInit
    /\ launched \in {"host", "boot"}
    \* The boot-time program takes no command line, the host no file.
    /\ launched = "boot" => opt = CHOOSE o \in Options : TRUE
    /\ launched = "host" => boot_csv = <<>>

Ended == stage = "exited" \/ boot = "exited"
ResultFile == IF launched = "host" THEN log ELSE boot_csv

HostRuns ==
    launched = "host" /\ HostNext /\ UNCHANGED <<bvars, viewer_vars, launched>>
BootRuns ==
    launched = "boot" /\ BootNext /\ UNCHANGED <<hvars, viewer_vars, launched>>
ViewerLoads ==
    /\ Ended /\ OnLoadClick(ResultFile)
    /\ UNCHANGED <<vars, tvars, hvars, bvars, launched>>
ViewerFilters ==
    /\ Ended /\ OnViewChanged
    /\ UNCHANGED <<vars, tvars, hvars, bvars, launched>>

\* A program that ended stays so.
Stays == Ended /\ UNCHANGED all_vars

WorkbenchNext == HostRuns \/ BootRuns \/ ViewerLoads \/ ViewerFilters \/ Stays

WorkbenchSpec == WorkbenchInit /\ [][WorkbenchNext]_all_vars

-----------------------------------------------------------------------------
(***************************************************************************)
(* The escapes are shown (docs/test_plan.md: a row with result PASS and    *)
(* ecc_corr > 0 is an escape the viewer must highlight).  From the decoder *)
(* to the table: when a test was logged as passed while the decoder hid an *)
(* error of the words it walked, the loaded table marks that row, and      *)
(* every filter that keeps passed rows lists it.                           *)
(***************************************************************************)
Escapes(table) == Listed(table, 1)

HiddenErrorsAreMarked ==
    launched = "host" /\ loaded =>
        /\ Len(rows) = Len(log) - 1
        /\ \A k \in DOMAIN rows :
              log[k + 1].result = "PASS" /\ log[k + 1].hiding => rows[k].is_escape
        /\ filter # 3 => Escapes(view) = Escapes(rows)

(***************************************************************************)
(* What uefi/README.md says of the boot run, that the viewer can read it   *)
(* like any other test log: once a complete file is loaded, every result   *)
(* line of it is a row of the table.                                       *)
(***************************************************************************)
BootRunIsShown ==
    launched = "boot" /\ loaded /\ saved => Len(rows) = Len(boot_csv) - 1

==============================================================================
