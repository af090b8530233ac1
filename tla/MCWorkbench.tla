----------------------------- MODULE MCWorkbench -----------------------------
(* The programs on ten whole codewords of the program's code.               *)
EXTENDS Workbench, OdeccTable

MCDataBit == 0 .. ODECC_DATA_BITS - 1
MCWord == 0 .. 3
MCWordOf == [b \in MCDataBit |-> b \div 32]

\* In the program's order: the smoke word and a topology word before the
\* region, the region with the second topology word, the retention area after.
MCSmoke == 0
MCTopology == <<4, 12>>
MCTags == <<{}, {b \in MCDataBit : b % 32 = 29}>>
MCMatrix == 8
MCBitflip == 16
MCStuck == 20
MCSoft == 24
MCMiscorrect == 28
MCUncorr == 32
MCRegion == [k \in 1 .. 28 |-> 8 + k - 1]
MCRetention == [k \in 1 .. 4 |-> 36 + k - 1]

\* The demonstration's fault; the scenarios name their own in their scripts.
MCFaultMenu == {DEMO_STUCK_FAULT}

\* The whole grid of the program: 25 to 95 degrees, 4 to 44 ms.
MCTemps == [t \in 1 .. 8 |-> 25 + 10 * (t - 1)]
MCPeriods == [p \in 1 .. 11 |-> 4 + 4 * (p - 1)]

Into(type, word, positions) == [type |-> type, at |-> word, positions |-> positions]
TestNames == {"tc1", "tc2", "tc3", "tc4", "tc5", "tc6", "tc7", "tc8", "tc9", "tc10",
              "tc11", "all", "constant", "march", "shmoo", "addrmap", "tc12"}

\* Every name alone; with a fault, the modes --inject is meant for, the screen
\* and the suite: one cell in each word a scenario uses, and a two-cell fault.
MCInjections ==
    {BadSpec, Into("STUCK_AT_1", MCRegion[1] + 2, {4, 6})}
    \cup {Into(type, word, {1}) :
              type \in {"bitflip", "STUCK_AT_0", "STUCK_AT_1"},
              word \in {MCSmoke, MCTopology[1], MCMatrix + 1, MCBitflip, MCStuck, MCSoft,
                        MCMiscorrect}}
MCOptions ==
    {[test_name |-> n, inject |-> NoInjection] : n \in TestNames}
    \cup {[test_name |-> n, inject |-> i] :
              n \in {"constant", "march", "tc7", "all"}, i \in MCInjections}

\* For the run about scenarios picked alone.
AloneOptions == {[test_name |-> n, inject |-> NoInjection] : n \in ToSet(kTests)}

\* For the run about the boot-time program.
BootOptions == {[test_name |-> "tc1", inject |-> NoInjection]}
==============================================================================
