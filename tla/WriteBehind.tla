---------------------------- MODULE WriteBehind ----------------------------
(***************************************************************************)
(* What the preferences store promises, whatever it does about timers,     *)
(* retries and temp files: a value in memory, changed at will, and a copy  *)
(* of it on disk that only ever moves forward, to a value memory has held, *)
(* and that a power cut sets back no further than what was made durable.   *)
(* Values are named by numbers that grow with every change.                *)
(*   apps/server/src/api/settings/settings.store.ts, header                *)
(***************************************************************************)
EXTENDS Naturals

VARIABLES
    mem,    \* the value in memory; 0 while no process runs
    saved,  \* the copy on disk
    safe    \* the copy a power cut may set it back to

vars == <<mem, saved, safe>>

Init == mem = 0 /\ saved \in Nat /\ safe = saved

\* A process starts from the copy, or from nothing if it cannot be used.
Start == mem = 0 /\ mem' = saved /\ UNCHANGED <<saved, safe>>

Change ==
    /\ mem' \in Nat /\ mem' > mem /\ mem' > saved
    /\ UNCHANGED <<saved, safe>>

Save ==
    /\ saved' \in saved + 1 .. mem
    /\ UNCHANGED <<mem, safe>>

Sync == safe' = saved /\ UNCHANGED <<mem, saved>>

\* The process that holds the value ends, with or without the machine.
Stop == mem' = 0 /\ UNCHANGED <<saved, safe>>
Cut  == mem' = 0 /\ saved' \in {saved, safe} /\ safe' = saved'

Next == Start \/ Change \/ Save \/ Sync \/ Stop \/ Cut

Spec == Init /\ [][Next]_vars
=============================================================================
