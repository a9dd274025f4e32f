---------------------------- MODULE ExecContract ----------------------------
(***************************************************************************)
(* What the registry of shells (ExecRegistry) takes a driver for, whatever *)
(* it reaches: its factory resolves or rejects; a driver that is up tells  *)
(* the end of its shell once, or is told to close and then says nothing    *)
(* more; and a close that was asked for returns.                           *)
(*   apps/server/src/api/exec/exec.service.ts (ExecDriver, ExecSink)       *)
(***************************************************************************)
EXTENDS Naturals

VARIABLES
    life,           \* pending, rejected, up, closing, ended
    exits           \* calls of sink.exit

ContractInit == life = "pending" /\ exits = 0

Resolves == life = "pending" /\ life' = "up" /\ UNCHANGED exits
Rejects  == life = "pending" /\ life' = "rejected" /\ UNCHANGED exits
Exits    == life = "up" /\ life' = "ended" /\ exits' = exits + 1
AskClose == life = "up" /\ life' = "closing" /\ UNCHANGED exits
Closed   == life \in {"up", "closing"} /\ life' = "ended" /\ UNCHANGED exits

ContractNext == Resolves \/ Rejects \/ Exits \/ AskClose \/ Closed

Contract ==
    /\ ContractInit /\ [][ContractNext]_<<life, exits>>
    /\ WF_<<life, exits>>(life = "closing" /\ Closed)
=============================================================================
