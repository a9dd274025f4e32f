-------------------------- MODULE ExecDriversProofs --------------------------
(***************************************************************************)
(* Proofs about ExecDrivers, for jump chains of any length.                *)
(***************************************************************************)
EXTENDS ExecDrivers, TLAPS

USE JumpsAssumption

-----------------------------------------------------------------------------
(* The inductive invariant.  Where the factory is says how many hops it    *)
(* has pushed, what can be open and whether there is a key.                *)

Chain ==
    /\ jumps \in 0..MaxJumps /\ hops \in Nat /\ live \subseteq 1..hops
    /\ jumps > 0 => kind = "direct"
    /\ at \in {"dial", "forward"} => hops < jumps
    /\ at \in {"prepare", "push", "ride", "last"} => hops = jumps
    /\ hops <= jumps + 1
    /\ kind \in Plugins => hops = 0

Links ==
    /\ link \in {"none", "open", "lost", "closing", "closed", "stranded"}
    /\ link = "stranded" => kind \in Started /\ at = "rejected"
    /\ kind \in {"direct", "connect", "kube"} \/ at \in {"dial", "forward", "prepare", "push", "ride", "start"}
         => link = "none"
    /\ at \in Pending => link \in {"none", "open", "lost"}
    /\ kind \in Plugins => link # "lost"

Keys ==
    /\ key \in {"none", "held", "scrubbed"}
    /\ key = "held" => at \in {"push", "last"}

Stages ==
    /\ kind \in Ssh \cup Plugins
    /\ at \in Pending \cup {"failed", "rejected", "up"}
    /\ shell \in {"none", "open", "exited", "lost", "killed", "ended"}
    /\ at \in Pending => (at \in {"start", "spawn"} <=> kind \in Plugins)

(* Who has ended what, and who has said so.                                *)
Endings ==
    /\ told \in 0..1 /\ close \in {"no", "awaited", "returned"}
    /\ closing \in BOOLEAN /\ (closing <=> (told = 1 \/ close # "no"))
    /\ shell \notin {"none"} => at = "up"
    /\ at # "up" => ~closing
    /\ told = 1 => close # "awaited"
    /\ at \in {"failed", "rejected"} => live = {}
    /\ at = "failed" => link = "closing"
    /\ at = "rejected" /\ kind \in Terminated => link \in {"none", "stranded", "closed"}
    /\ kind \in Ssh /\ close # "no" /\ told = 0 => live = {} /\ link \in {"none", "closing", "closed"}
    /\ kind \in Ssh /\ close = "awaited" => link = "closing"
    /\ close = "returned" /\ told = 0 /\ kind \in Terminated => link \in {"none", "closed"}

IInv == Chain /\ Links /\ Keys /\ Stages /\ Endings

-----------------------------------------------------------------------------
LEMMA InitHolds == DriverInit => IInv
<1> SUFFICES ASSUME DriverInit PROVE IInv OBVIOUS
<1> USE DEF DriverInit, Ssh, Plugins, Pending
<1>1. Chain BY DEF Chain
<1>2. Links BY DEF Links
<1>3. Keys BY DEF Keys
<1>4. Stages BY DEF Stages
<1>5. Endings
  <2>1. at \in {"start", "dial", "prepare"} OBVIOUS
  <2>2. closing = FALSE /\ told = 0 /\ close = "no" /\ shell = "none" OBVIOUS
  <2>3. closing \in BOOLEAN /\ ~closing
    BY ONLY <2>2, Zenon
  <2>4. ~(told = 1 \/ close # "no")
    BY ONLY <2>2
  <2> QED BY <2>1, <2>2, <2>3, <2>4 DEF Endings
<1> QED BY <1>1, <1>2, <1>3, <1>4, <1>5 DEF IInv

LEMMA ChainStep == ASSUME IInv, [DriverNext]_driverVars PROVE Chain'
<1> USE DEF IInv, Chain, Stages, Pending, Plugins, Ssh
<1>1. CASE Dial \/ LastHop
  <2>1. hops' = hops + 1 /\ live' = live \cup {hops + 1} /\ hops <= jumps
    BY <1>1 DEF Dial, LastHop
  <2>2. hops' \in Nat /\ live' \subseteq 1..hops' /\ hops' <= jumps + 1
    BY <2>1
  <2>3. CASE Dial BY <2>1, <2>2, <2>3 DEF Dial
  <2>4. CASE LastHop BY <2>1, <2>2, <2>4 DEF LastHop
  <2> QED BY <1>1, <2>3, <2>4
<1>2. CASE Forward \/ Prepare \/ Push \/ OpenShell \/ Start \/ Spawn
  BY <1>2 DEF Forward, Prepare, Push, OpenShell, Start, Spawn
<1>3. CASE SshFails \/ ChannelCloses \/ CloseSsh
  BY <1>3 DEF SshFails, ChannelCloses, CloseSsh, Unwind
<1>4. CASE TerminateAnswers \/ PluginFails \/ ShellExits \/ ChildExits \/ ClosePlugin \/ Killed
  BY <1>4 DEF TerminateAnswers, PluginFails, ShellExits, ChildExits, ClosePlugin, Killed
<1>5. CASE (\E n \in live : HopLost(n)) \/ TunnelLost
  BY <1>5 DEF HopLost, TunnelLost
<1>6. CASE StartedForNobody \/ UNCHANGED driverVars
  BY <1>6 DEF StartedForNobody, driverVars
<1> QED BY <1>1, <1>2, <1>3, <1>4, <1>5, <1>6 DEF DriverNext

LEMMA LinksStep == ASSUME IInv, [DriverNext]_driverVars PROVE Links'
<1> USE DEF IInv, Links, Stages, Pending, Plugins, Ssh, Started
<1>1. CASE Dial \/ Forward \/ Push \/ LastHop \/ OpenShell
  BY <1>1 DEF Dial, Forward, Push, LastHop, OpenShell
<1>8. CASE Prepare
  BY <1>8 DEF Prepare, Chain
<1>2. CASE Start \/ Spawn
  BY <1>2 DEF Start, Spawn
<1>3. CASE SshFails \/ ChannelCloses \/ CloseSsh
  BY <1>3 DEF SshFails, ChannelCloses, CloseSsh, Unwind, Endings
<1>4. CASE TerminateAnswers \/ ShellExits \/ ClosePlugin
  BY <1>4 DEF TerminateAnswers, ShellExits, ClosePlugin
<1>5. CASE PluginFails \/ ChildExits \/ Killed
  BY <1>5 DEF PluginFails, ChildExits, Killed, Terminate, Endings
<1>6. CASE (\E n \in live : HopLost(n)) \/ TunnelLost
  BY <1>6 DEF HopLost, TunnelLost
<1>7. CASE StartedForNobody \/ UNCHANGED driverVars
  BY <1>7 DEF StartedForNobody, driverVars
<1> QED BY <1>1, <1>2, <1>3, <1>4, <1>5, <1>6, <1>7, <1>8 DEF DriverNext

LEMMA KeysStep == ASSUME IInv, [DriverNext]_driverVars PROVE Keys'
<1> USE DEF IInv, Keys, Stages, Pending, Plugins, Ssh
<1>1. CASE Dial \/ Forward \/ Prepare \/ Push \/ LastHop \/ OpenShell \/ SshFails
  BY <1>1 DEF Dial, Forward, Prepare, Push, LastHop, OpenShell, SshFails
<1>2. CASE Start \/ Spawn \/ PluginFails \/ StartedForNobody \/ TerminateAnswers
  BY <1>2 DEF Start, Spawn, PluginFails, StartedForNobody, TerminateAnswers
<1>3. CASE ShellExits \/ ChannelCloses \/ ChildExits \/ CloseSsh \/ ClosePlugin \/ Killed
  BY <1>3 DEF ShellExits, ChannelCloses, ChildExits, CloseSsh, ClosePlugin, Killed
<1>4. CASE (\E n \in live : HopLost(n)) \/ TunnelLost \/ UNCHANGED driverVars
  BY <1>4 DEF HopLost, TunnelLost, driverVars
<1> QED BY <1>1, <1>2, <1>3, <1>4 DEF DriverNext

LEMMA StagesStep == ASSUME IInv, [DriverNext]_driverVars PROVE Stages'
<1> USE DEF IInv, Stages, Pending, Plugins, Ssh
<1>1. CASE Dial \/ Forward \/ Prepare \/ Push \/ LastHop \/ OpenShell \/ SshFails
  BY <1>1 DEF Dial, Forward, Prepare, Push, LastHop, OpenShell, SshFails
<1>2. CASE Start \/ Spawn \/ PluginFails \/ StartedForNobody \/ TerminateAnswers
  BY <1>2 DEF Start, Spawn, PluginFails, StartedForNobody, TerminateAnswers
<1>3. CASE ShellExits \/ ChannelCloses \/ ChildExits \/ CloseSsh \/ ClosePlugin \/ Killed
  BY <1>3 DEF ShellExits, ChannelCloses, ChildExits, CloseSsh, ClosePlugin, Killed
<1>4. CASE (\E n \in live : HopLost(n)) \/ TunnelLost \/ UNCHANGED driverVars
  BY <1>4 DEF HopLost, TunnelLost, driverVars
<1> QED BY <1>1, <1>2, <1>3, <1>4 DEF DriverNext

LEMMA EndingsStep == ASSUME IInv, [DriverNext]_driverVars PROVE Endings'
<1> USE DEF IInv, Endings, Stages, Links, Pending, Plugins, Ssh, Terminated
<1>1. CASE Dial \/ Forward \/ Prepare \/ Push \/ LastHop \/ OpenShell \/ Start \/ Spawn
  BY <1>1 DEF Dial, Forward, Prepare, Push, LastHop, OpenShell, Start, Spawn
<1>2. CASE SshFails \/ PluginFails
  <2>1. ~closing /\ told = 0 /\ close = "no" /\ shell = "none"
    BY <1>2 DEF SshFails, PluginFails
  <2>2. CASE SshFails
    BY <2>1, <2>2 DEF SshFails, Unwind
  <2>3. CASE PluginFails
    <3>1. live = {} BY <2>3 DEF PluginFails, Chain
    <3>2. at \in {"start", "spawn"} BY <2>3 DEF PluginFails
    <3>3. at = "start" => link = "none" OBVIOUS
    <3> QED BY <2>1, <2>3, <3>1, <3>2, <3>3 DEF PluginFails, Terminate
  <2> QED BY <1>2, <2>2, <2>3
<1>3. CASE TerminateAnswers
  BY <1>3, SMTT(60) DEF TerminateAnswers
<1>4. CASE ShellExits \/ ChildExits
  <2>1. at = "up" /\ at' = at BY <1>4 DEF ShellExits, ChildExits
  <2>2. CASE ShellExits BY <2>1, <2>2 DEF ShellExits, Tell
  <2>3. CASE ChildExits BY <2>1, <2>3 DEF ChildExits, Tell, Terminate
  <2> QED BY <1>4, <2>2, <2>3
<1>5. CASE ChannelCloses
  BY <1>5, SMTT(60) DEF ChannelCloses, Tell, Unwind
<1>6. CASE CloseSsh
  BY <1>6, SMTT(60) DEF CloseSsh, Unwind
<1>7. CASE ClosePlugin
  BY <1>7, SMTT(60) DEF ClosePlugin
<1>8. CASE Killed
  BY <1>8, SMTT(60) DEF Killed, Terminate
<1>9. CASE (\E n \in live : HopLost(n)) \/ TunnelLost
  BY <1>9, SMTT(60) DEF HopLost, TunnelLost
<1>10. CASE UNCHANGED driverVars
  BY <1>10 DEF driverVars
<1>11. CASE StartedForNobody
  BY <1>11, SMTT(60) DEF StartedForNobody, Started, Chain
<1> QED BY <1>1, <1>2, <1>3, <1>4, <1>5, <1>6, <1>7, <1>8, <1>9, <1>10, <1>11 DEF DriverNext

(* The inductive invariant holds of every behaviour of the driver.         *)
THEOREM DriverInvariant == DriverSpec => []IInv
<1>1. IInv /\ [DriverNext]_driverVars => IInv'
  BY ChainStep, LinksStep, KeysStep, StagesStep, EndingsStep DEF IInv
<1> QED BY <1>1, InitHolds, PTL DEF DriverSpec

-----------------------------------------------------------------------------
(* Every variable keeps to its type, for any number of jump hosts.         *)
THEOREM DriverTypes == DriverSpec => []DriverTypeOK
<1>1. IInv => DriverTypeOK
  BY DEF IInv, Chain, Links, Keys, Stages, Endings, DriverTypeOK
<1> QED BY <1>1, DriverInvariant, PTL

(* Wherever a connect fails, and whenever a driver is told to close before *)
(* its shell ended by itself, nothing stays open of what it was given: no  *)
(* hop, no tunnel, no session it had a stream of, no key                   *)
(* (ssh.driver.ts:58-69, 170-174; ssm.driver.ts:143-153).                  *)
THEOREM NothingIsLeft == DriverSpec => []NothingLeft
<1>1. IInv => NothingLeft
  <2> SUFFICES ASSUME IInv PROVE NothingLeft OBVIOUS
  <2>1. CASE at = "rejected" BY <2>1 DEF IInv, Endings, Keys, NothingLeft, NothingOpen
  <2>2. ASSUME at # "rejected", close = "returned", told = 0 PROVE NothingOpen
    BY <2>2 DEF IInv, Endings, Chain, Stages, NothingOpen, Pending, Plugins, Ssh
  <2> QED BY <2>1, <2>2 DEF IInv, Keys, NothingLeft
<1> QED BY <1>1, DriverInvariant, PTL

(* The safety half of KeepsTheContract: a driver starts as the registry    *)
(* takes it to, and each of its steps is one of the contract's or leaves   *)
(* what the registry sees alone (exec.service.ts).                         *)
THEOREM StepsOfTheContract ==
    DriverSpec => Registry!ContractInit /\ [][Registry!ContractNext]_<<Life, told>>
<1> USE DEF Life, Registry!ContractNext, Registry!Resolves, Registry!Rejects, Registry!Exits,
            Registry!AskClose, Registry!Closed
<1>1. DriverInit => Registry!ContractInit
  BY DEF DriverInit, Registry!ContractInit, Plugins
<1>2. IInv /\ [DriverNext]_driverVars => [Registry!ContractNext]_<<Life, told>>
  <2> SUFFICES ASSUME IInv, [DriverNext]_driverVars
               PROVE  [Registry!ContractNext]_<<Life, told>> OBVIOUS
  <2> USE DEF IInv, Endings, Stages, Pending
  <2>1. CASE Dial \/ Forward \/ Prepare \/ Push \/ LastHop \/ OpenShell \/ Start \/ Spawn
    BY <2>1 DEF Dial, Forward, Prepare, Push, LastHop, OpenShell, Start, Spawn
  <2>2. CASE SshFails \/ PluginFails \/ StartedForNobody
    BY <2>2 DEF SshFails, PluginFails, StartedForNobody
  <2>3. CASE TerminateAnswers
    BY <2>3 DEF TerminateAnswers
  <2>4. CASE ShellExits \/ ChannelCloses \/ ChildExits
    BY <2>4 DEF ShellExits, ChannelCloses, ChildExits, Tell
  <2>5. CASE CloseSsh \/ ClosePlugin
    BY <2>5 DEF CloseSsh, ClosePlugin
  <2>6. CASE Killed
    BY <2>6 DEF Killed
  <2>7. CASE (\E n \in live : HopLost(n)) \/ TunnelLost \/ UNCHANGED driverVars
    BY <2>7 DEF HopLost, TunnelLost, driverVars
  <2> QED BY <2>1, <2>2, <2>3, <2>4, <2>5, <2>6, <2>7 DEF DriverNext
<1> QED BY <1>1, <1>2, DriverInvariant, PTL DEF DriverSpec
=============================================================================
