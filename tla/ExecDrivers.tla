---------------------------- MODULE ExecDrivers ----------------------------
(***************************************************************************)
(* One shell on its way up and down: the factory that reaches a host over  *)
(* any number of SSH hops, an SSM tunnel or with a key pushed for the      *)
(* occasion, or starts a plugin or a kubectl as a child process, and the   *)
(* driver it resolves with.                                                *)
(*   apps/server/src/api/exec/drivers/{ssh,ssm,ecs,kube}.driver.ts         *)
(*   apps/server/src/api/exec/ssh/{connect,transport,instanceConnect}.ts   *)
(*   apps/server/src/api/exec/ssm/shell.ts, pty.ts (kill)                  *)
(*                                                                         *)
(* An action runs from one await to the next.  Hosts, networks, AWS and    *)
(* child processes may fail, go or keep silent at any moment; what the     *)
(* shell says and what is asked of a person on the way is in ExecRegistry. *)
(***************************************************************************)
EXTENDS Naturals, FiniteSets

CONSTANT MaxJumps   \* bound: jump hosts before the host itself

ASSUME JumpsAssumption == MaxJumps \in Nat

VARIABLES
    kind,           \* what is reached, and how
    jumps,          \* length of the jump chain of an SSH connection
    at,             \* what the factory awaits, or what came of it
    hops,           \* connections pushed so far: the n-th rides on the one before
    live,           \* those of 1..hops that still stand
    link,           \* the SSM session: a tunnel for SSH, or the shell's own
    key,            \* the private key made for Instance Connect
    shell,          \* the SSH channel, or the child process
    closing,        \* the driver's flag
    told,           \* calls of sink.exit
    close           \* driver.close: no, awaited, returned

driverVars == <<kind, jumps, at, hops, live, link, key, shell, closing, told, close>>

Ssh        == {"direct", "tunnel", "connect"}
Plugins    == {"ssm", "ecs", "kube"}
Terminated == {"tunnel", "ssm"}     \* those that call TerminateSession
Started    == {"tunnel", "ssm", "ecs"}  \* those that have a session started first
Pending    == {"dial", "forward", "prepare", "push", "ride", "last", "shell",
               "start", "spawn"}

DriverInit ==
    /\ kind \in Ssh \cup Plugins
    /\ jumps \in 0..MaxJumps /\ (jumps > 0 => kind = "direct")
    /\ at = IF kind \in Plugins THEN "start" ELSE IF jumps > 0 THEN "dial" ELSE "prepare"
    /\ hops = 0 /\ live = {}
    /\ link = "none" /\ key = "none" /\ shell = "none"
    /\ closing = FALSE /\ told = 0 /\ close = "no"

-----------------------------------------------------------------------------
(* Ending things. *)

\* Mutated form: a tunnel whose connections are gone is left alone.
UnwindOfLive ==
    /\ live' = {}
    /\ link' = IF link # "none" /\ live # {} THEN "closing" ELSE link

\* Every hop is ended, the tunnel's child is killed and its session asked to
\* end.  Its callers see to it that it runs once.
Unwind ==
    /\ live' = {}
    /\ link' = IF link # "none" THEN "closing" ELSE link

\* Mutated form: the flag that silences the driver silences this too.
TerminateUnlessClosing == link' = IF kind = "ssm" /\ ~closing THEN "closing" ELSE link

Terminate == link' = IF kind = "ssm" THEN "closing" ELSE link

\* AWS answers TerminateSession, or refuses; either way the wait is over.
TerminateAnswers ==
    /\ link = "closing"
    /\ link' = "closed"
    /\ at' = IF at = "failed" THEN "rejected" ELSE at
    /\ close' = IF close = "awaited" THEN "returned" ELSE close
    /\ UNCHANGED <<kind, jumps, hops, live, key, shell, closing, told>>

-----------------------------------------------------------------------------
(* The SSH factory. *)

\* connectHop and forwardThrough for the jump chain.
Dial ==
    /\ at = "dial" /\ hops \in live \cup {0}
    /\ hops' = hops + 1 /\ live' = live \cup {hops + 1}
    /\ at' = IF hops + 1 < jumps THEN "forward" ELSE "prepare"
    /\ UNCHANGED <<kind, jumps, link, key, shell, closing, told, close>>

Forward ==
    /\ at \in {"forward", "ride"} /\ hops \in live
    /\ at' = IF at = "forward" THEN "dial" ELSE "last"
    /\ UNCHANGED <<kind, jumps, hops, live, link, key, shell, closing, told, close>>

\* finalHopSpec: opens the tunnel, or makes the key and goes on to push it.
Prepare ==
    /\ at = "prepare"
    /\ link' = IF kind = "tunnel" THEN "open" ELSE link
    /\ key' = IF kind = "connect" THEN "held" ELSE key
    /\ at' = IF kind = "connect" THEN "push" ELSE IF hops > 0 THEN "ride" ELSE "last"
    /\ UNCHANGED <<kind, jumps, hops, live, shell, closing, told, close>>

Push ==
    /\ at = "push"
    /\ at' = "last"
    /\ UNCHANGED <<kind, jumps, hops, live, link, key, shell, closing, told, close>>

\* connectHop for the host itself; the key was only needed for its handshake.
LastHop ==
    /\ at = "last" /\ hops \in live \cup {0} /\ (kind = "tunnel" => link = "open")
    /\ hops' = hops + 1 /\ live' = live \cup {hops + 1}
    /\ key' = IF key = "held" THEN "scrubbed" ELSE key
    /\ at' = "shell"
    /\ UNCHANGED <<kind, jumps, link, shell, closing, told, close>>

OpenShell ==
    /\ at = "shell" /\ hops \in live
    /\ shell' = "open" /\ at' = "up"
    /\ UNCHANGED <<kind, jumps, hops, live, link, key, closing, told, close>>

(* The catch block, from wherever the factory was, and finalHopSpec's own  *)
(* when the key could not be pushed.                                       *)
SshFails ==
    /\ kind \in Ssh /\ at \in Pending
    /\ key' = IF key = "held" THEN "scrubbed" ELSE key
    /\ Unwind
    /\ at' = IF link' = "closing" THEN "failed" ELSE "rejected"
    /\ UNCHANGED <<kind, jumps, hops, shell, closing, told, close>>

-----------------------------------------------------------------------------
(* The factories of the plugins and of kubectl. *)

\* StartSession, ExecuteCommand or the checks before a kubectl.
Start ==
    /\ at = "start"
    /\ link' = IF kind = "kube" THEN link ELSE "open"
    /\ at' = "spawn"
    /\ UNCHANGED <<kind, jumps, hops, live, key, shell, closing, told, close>>

Spawn ==
    /\ at = "spawn"
    /\ shell' = "open" /\ at' = "up"
    /\ UNCHANGED <<kind, jumps, hops, live, link, key, closing, told, close>>

\* A refusal, or a child that does not start: the latter ends the session that
\* was started for it.
PluginFails ==
    /\ kind \in Plugins /\ at \in Pending
    /\ IF at = "spawn" THEN Terminate ELSE UNCHANGED link
    /\ at' = IF link' = "closing" THEN "failed" ELSE "rejected"
    /\ UNCHANGED <<kind, jumps, hops, live, key, shell, closing, told, close>>

(* The session was started, and its answer is lost or names no stream to   *)
(* attach to: the factory throws with nothing opened, and nobody ends it.  *)
StartedForNobody ==
    /\ kind \in Started /\ at \in {"start", "prepare"}
    /\ link' = "stranded" /\ at' = "rejected"
    /\ UNCHANGED <<kind, jumps, hops, live, key, shell, closing, told, close>>

-----------------------------------------------------------------------------
(* The driver. *)

\* Mutated form: whoever comes second tells it again.
TellAgain == told' = told + 1 /\ closing' = TRUE

\* sink.exit, by whoever finds the flag down.
Tell ==
    /\ told' = IF closing THEN told ELSE told + 1
    /\ closing' = TRUE

\* The far end's shell ends: its exit status comes before the channel closes.
ShellExits ==
    /\ kind \in Ssh /\ shell = "open"
    /\ shell' = "exited"
    /\ Tell
    /\ UNCHANGED <<kind, jumps, at, hops, live, link, key, close>>

ChannelCloses ==
    /\ kind \in Ssh /\ shell \in {"open", "exited"}
    /\ shell' = IF shell = "open" THEN "lost" ELSE "ended"
    /\ Tell
    /\ IF closing THEN UNCHANGED <<live, link>> ELSE Unwind
    /\ UNCHANGED <<kind, jumps, at, hops, key, close>>

ChildExits ==
    /\ kind \in Plugins /\ shell \in {"open", "killed"}
    /\ shell' = "ended"
    /\ Tell
    /\ IF closing THEN UNCHANGED link ELSE Terminate
    /\ UNCHANGED <<kind, jumps, at, hops, live, key, close>>

\* driver.close, which the registry calls once.
CloseSsh ==
    /\ kind \in Ssh /\ at = "up" /\ close = "no"
    /\ closing' = TRUE
    /\ IF closing THEN UNCHANGED <<live, link>> ELSE Unwind
    /\ close' = IF ~closing /\ link' = "closing" THEN "awaited" ELSE "returned"
    /\ UNCHANGED <<kind, jumps, at, hops, key, shell, told>>

ClosePlugin ==
    /\ kind \in Plugins /\ at = "up" /\ close = "no"
    /\ closing' = TRUE
    /\ IF closing THEN close' = "returned" /\ UNCHANGED shell
                  ELSE close' = "awaited" /\ shell' = "killed"
    /\ UNCHANGED <<kind, jumps, at, hops, live, link, key, told>>

\* kill returns: the child has gone, or its grace is over and SIGKILL is sent.
Killed ==
    /\ kind \in Plugins /\ close = "awaited" /\ link \in {"none", "open"}
    /\ shell' = "ended"
    /\ Terminate
    /\ close' = IF link' = "closing" THEN close ELSE "returned"
    /\ UNCHANGED <<kind, jumps, at, hops, live, key, closing, told>>

-----------------------------------------------------------------------------
(* A connection breaks, and what rides on it with it; or the tunnel does.  *)
HopLost(n) ==
    /\ n \in live
    /\ live' = {m \in live : m < n}
    /\ UNCHANGED <<kind, jumps, at, hops, link, key, shell, closing, told, close>>

TunnelLost ==
    /\ kind = "tunnel" /\ link = "open"
    /\ link' = "lost" /\ live' = {}
    /\ UNCHANGED <<kind, jumps, at, hops, key, shell, closing, told, close>>

DriverNext ==
    \/ TerminateAnswers
    \/ Dial \/ Forward \/ Prepare \/ Push \/ LastHop \/ OpenShell \/ SshFails
    \/ Start \/ Spawn \/ PluginFails \/ StartedForNobody
    \/ ShellExits \/ ChannelCloses \/ ChildExits \/ CloseSsh \/ ClosePlugin \/ Killed
    \/ (\E n \in live : HopLost(n)) \/ TunnelLost

(* AWS answers, and a kill waits no longer than its grace.                 *)
DriverFairness == WF_driverVars(TerminateAnswers) /\ WF_driverVars(Killed)

DriverSpec == DriverInit /\ [][DriverNext]_driverVars /\ DriverFairness

-----------------------------------------------------------------------------
DriverTypeOK ==
    /\ kind \in Ssh \cup Plugins
    /\ jumps \in 0..MaxJumps
    /\ at \in Pending \cup {"failed", "rejected", "up"}
    /\ hops \in 0..(MaxJumps + 1)
    /\ live \subseteq 1..hops
    /\ link \in {"none", "open", "lost", "closing", "closed", "stranded"}
    /\ key \in {"none", "held", "scrubbed"}
    /\ shell \in {"none", "open", "exited", "lost", "killed", "ended"}
    /\ closing \in BOOLEAN
    /\ told \in 0..1
    /\ close \in {"no", "awaited", "returned"}

(* However far a connect came before it failed, its rejection leaves no    *)
(* connection open behind it, no session it has been given, and no key in  *)
(* memory; and so does a close that was not preceded by an exit            *)
(* (ssh.driver.ts:58-69, 160-174; ssm.driver.ts:143-153, 197-204).  What   *)
(* it may leave is a session that was started and that it was given no     *)
(* stream of: that one nobody ends (ssm.driver.ts:128; transport.ts:94).   *)
NothingOpen ==
    live = {} /\ (kind \in Terminated => link \in {"none", "stranded", "closed"})
NothingLeft ==
    /\ at = "rejected" \/ (close = "returned" /\ told = 0) => NothingOpen
    /\ at \in {"rejected", "shell", "up"} => key # "held"

(* A connection that was lost under a shell is cleared up in the end too,  *)
(* with its tunnel, and an SSM session ends with its child                 *)
(* (ssh.driver.ts:141-146; ssm.driver.ts:166-172).                         *)
Over == shell = "lost" \/ (kind \in Plugins /\ shell = "ended") \/ (close # "no" /\ told = 0)
SessionEnds == Over ~> NothingOpen

(* The driver keeps to what the registry takes it for.                     *)
Life ==
    CASE at = "rejected" -> "rejected"
      [] at # "up" -> "pending"
      [] told > 0 \/ close = "returned" -> "ended"
      [] close = "awaited" -> "closing"
      [] OTHER -> "up"
Registry == INSTANCE ExecContract WITH life <- Life, exits <- told
KeepsTheContract == Registry!Contract

(* Disagrees with the code: once close has returned, an SSM session's      *)
(* plugin child has been told to end (session.registry.ts:337).            *)
ClosedMeansClosed == close = "returned" /\ kind \in Terminated => link # "open"
=============================================================================
