---------------------------- MODULE MCTerminals ----------------------------
(***************************************************************************)
(* The browser's tabs over the server's sessions, and one driver by        *)
(* itself, for TLC: all that the sessions count on in a driver is          *)
(* ExecContract, so the one half stands still while the other runs.        *)
(***************************************************************************)
EXTENDS TerminalTabs, ExecDrivers

VARIABLE part

TerminalsInit ==
    /\ TabsInit /\ DriverInit
    /\ part \in {"tabs", "driver"}
    /\ part = "tabs" => kind = "kube"

TerminalsNext ==
    \/ part = "tabs" /\ TabsNext /\ UNCHANGED <<part, driverVars>>
    \/ part = "driver" /\ DriverNext /\ UNCHANGED <<part, allVars>>

TerminalsSpec ==
    /\ TerminalsInit /\ [][TerminalsNext]_<<part, allVars, driverVars>>
    /\ TabsFairness /\ DriverFairness
=============================================================================
