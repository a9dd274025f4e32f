---------------------------- MODULE ExecRegistry ----------------------------
(***************************************************************************)
(* The shells the server holds open for terminal tabs.  A socket opens a   *)
(* session or picks one up again; a driver factory connects, which may     *)
(* take long and may have to ask the person at the tab something; the      *)
(* driver's output goes to whoever holds the session and into a replay     *)
(* buffer; a session whose socket went is kept for a grace period.         *)
(*   apps/server/src/api/exec/{session.registry,exec.service}.ts           *)
(*   apps/server/src/api/exec/{session.state,prompts,ringBuffer}.ts        *)
(*   apps/server/src/main.ts (shutdown)                                    *)
(*                                                                         *)
(* JavaScript runs one callback at a time, so an action is one callback    *)
(* with the microtasks it leaves behind; whatever awaits a timer, the      *)
(* network or a child process ends its action there.  Time is not counted: *)
(* an armed timer may fire at any moment.                                  *)
(***************************************************************************)
EXTENDS Naturals, Sequences, FiniteSets, Functions

CONSTANTS
    Sessions,       \* session ids: each is the UUID of one open() in a tab
    Sockets,        \* connections to the /exec namespace
    NoSocket,
    MaxConcurrent,  \* MAX_CONCURRENT
    MaxStarts,      \* MAX_STARTS_PER_MINUTE
    IdleOn,         \* FAWS_EXEC_IDLE_MS is set
    MaxPrompts,     \* bound: questions asked, one for each unknown host key
    MaxOut          \* bound: chunks put out

ASSUME NoSocketAssumption == NoSocket \notin Sockets
ASSUME NamesAssumption == {"new", "gone"} \cap Sessions = {}
ASSUME LimitsAssumption ==
    /\ MaxConcurrent \in Nat \ {0} /\ MaxStarts \in Nat \ {0}
    /\ MaxPrompts \in Nat /\ MaxOut \in Nat /\ IdleOn \in BOOLEAN
    /\ IsFiniteSet(Sessions)

VARIABLES
    phase,          \* of the process: up, stopping (shutdown was called), exited
    awaited,        \* the sessions shutdown waits for
    starts,         \* recentStarts: the starts of the last minute
    registered,     \* the keys of the map `sessions`
    machine,        \* Session.machine
    client,         \* Session.client, by its socket
    factory,        \* the promise of the driver factory
    driver,         \* the process or the connection behind Session.driver
    asked,          \* the prompts asked so far: the last is number asked[s]
    open,           \* the last prompt is in PromptBroker.outstanding
    verdict,        \* what the last ask came to
    out, lost,      \* chunks put out; the first lost[s] are not in the buffer
    sock,           \* "new", the id a connected socket came with, or "gone"
    opener,         \* the socket whose attachSession awaits the factory
    seen,           \* the chunks a connected socket was sent
    shown,          \* the prompts a connected socket was sent, by their numbers
    said,           \* history: <<s, p>> such that somebody answered p with trust
    closes          \* history: calls of driver.close

process  == <<phase, awaited, starts>>
prompts  == <<asked, open, verdict, shown, said>>
output   == <<out, lost, seen>>
vars == <<process, registered, machine, client, factory, driver, prompts, output,
          sock, opener, closes>>

-----------------------------------------------------------------------------
(* The machine of one session (session.state.ts). *)

States == {"starting", "running", "detached", "closing", "closed"}
Timers == {"none", "connect", "idle", "grace"}
Machines == [state : States, timer : Timers, waiting : BOOLEAN]

Allowed == [s \in States |->
    CASE s = "starting" -> {"running", "closing", "closed"}
      [] s = "running"  -> {"detached", "closing", "closed"}
      [] s = "detached" -> {"running", "closing", "closed"}
      [] s = "closing"  -> {"closed"}
      [] s = "closed"   -> {}]

TimerOf(state) ==
    CASE state = "starting" -> "connect"
      [] state = "running" /\ IdleOn -> "idle"
      [] state = "detached" -> "grace"
      [] OTHER -> "none"

Armed(m) == [m EXCEPT !.timer = IF m.waiting THEN "none" ELSE TimerOf(m.state)]

Fresh == Armed([state |-> "starting", timer |-> "none", waiting |-> FALSE])

\* Mutated form: the timer of the state left is not cleared.
TransitionKeepingTimer(m, to) ==
    IF to \in Allowed[m.state] THEN [m EXCEPT !.state = to] ELSE m

Transition(m, to) ==
    IF to \in Allowed[m.state] THEN Armed([m EXCEPT !.state = to]) ELSE m

\* Mutated form: the timer is cleared for the wait and not armed again.
SetWaitingOnly(m, waiting) == [m EXCEPT !.waiting = waiting, !.timer = "none"]

SetWaiting(m, waiting) ==
    IF m.waiting = waiting THEN m ELSE Armed([m EXCEPT !.waiting = waiting])

Dispose(m) == [m EXCEPT !.timer = "none"]

-----------------------------------------------------------------------------
Init ==
    /\ phase = "up" /\ awaited = {} /\ starts = 0
    /\ registered = {}
    /\ machine = [s \in Sessions |-> Dispose(Fresh)]
    /\ client = [s \in Sessions |-> NoSocket]
    /\ factory = [s \in Sessions |-> "none"]
    /\ driver = [s \in Sessions |-> "none"]
    /\ asked = [s \in Sessions |-> 0]
    /\ open = [s \in Sessions |-> FALSE]
    /\ verdict = [s \in Sessions |-> "none"]
    /\ out = [s \in Sessions |-> 0] /\ lost = [s \in Sessions |-> 0]
    /\ sock = [c \in Sockets |-> "new"]
    /\ opener = [s \in Sessions |-> NoSocket]
    /\ seen = [c \in Sockets |-> <<>>]
    /\ shown = [c \in Sockets |-> {}]
    /\ said = {}
    /\ closes = [s \in Sessions |-> 0]

Alive == phase # "exited"

Total(f) == FoldFunction(LAMBDA x, y : x + y, 0, f)

Chunks(i, j) == [n \in 1..(j + 1 - i) |-> i + n - 1]

(* What the driver's awaited ask comes to once the broker settles it: the  *)
(* answer, or a refusal.  The machine stops waiting in either case.        *)
Settled(S, v) ==
    /\ open' = [s \in Sessions |-> open[s] /\ s \notin S]
    /\ verdict' = [s \in Sessions |-> IF s \in S /\ open[s] THEN v ELSE verdict[s]]

(* What closing S does once the entries are gone: the broker refuses what  *)
(* is open, and the rest waits for a driver that is up.  A driver that has *)
(* ended returns from close at once, and a session without one has nothing *)
(* to wait for.  ms and ds are the machines and the drivers by now.        *)
Finish(S, ms, ds) ==
    LET slow == {s \in S : ds[s] = "up"} IN
    /\ Settled(S, "refused")
    /\ driver' = [s \in Sessions |-> IF s \in slow THEN "closing" ELSE ds[s]]
    /\ closes' = [s \in Sessions |->
                    IF s \in S /\ factory[s] = "resolved" THEN closes[s] + 1 ELSE closes[s]]
    /\ machine' = [s \in Sessions |->
                    CASE s \notin S -> ms[s]
                      [] s \in slow -> SetWaiting(ms[s], FALSE)
                      [] OTHER -> Transition(SetWaiting(ms[s], FALSE), "closed")]
    /\ lost' = [s \in Sessions |-> IF s \in S \ slow THEN out[s] ELSE lost[s]]

\* Mutated form: the entry is deleted once the driver has closed.
CloseKeepingEntry(S, ms, ds) ==
    registered' = registered \ {s \in S : ds[s] # "up"} /\ Finish(S, ms, ds)

\* closeSession for each of S.
Close(S, ms, ds) == registered' = registered \ S /\ Finish(S, ms, ds)

-----------------------------------------------------------------------------
(* Connections.  A tab opens a session under a new UUID, and a page that   *)
(* loads picks up (attach) every session its localStorage names.           *)

Full == Cardinality(registered) >= MaxConcurrent \/ starts >= MaxStarts

Open(c, s) ==
    /\ Alive
    /\ sock[c] = "new" /\ factory[s] = "none" /\ ~Full
    /\ starts' = starts + 1
    /\ registered' = registered \cup {s}
    /\ machine' = [machine EXCEPT ![s] = Fresh]
    /\ client' = [client EXCEPT ![s] = c]
    /\ opener' = [opener EXCEPT ![s] = c]
    /\ factory' = [factory EXCEPT ![s] = "pending"]
    /\ sock' = [sock EXCEPT ![c] = s]
    /\ UNCHANGED <<phase, awaited, driver, prompts, output, closes>>

\* An attach to what is not there, or not any more, or an open that
\* admitStart refuses: an error, and the socket is disconnected.
TurnAway(c, s, attach) ==
    /\ Alive
    /\ sock[c] = "new" /\ s \notin registered
    /\ attach \/ (factory[s] = "none" /\ Full)
    /\ sock' = [sock EXCEPT ![c] = "gone"]
    /\ UNCHANGED <<process, registered, machine, client, factory, driver, prompts, output,
                   opener, closes>>

Replay(s) == Chunks(lost[s] + 1, out[s])

Resume(c, s) ==
    /\ Alive
    /\ sock[c] = "new" /\ s \in registered
    /\ client' = [client EXCEPT ![s] = c]
    /\ machine' = [machine EXCEPT ![s] = Transition(@, "running")]
    /\ seen' = [seen EXCEPT ![c] = Replay(s)]
    /\ sock' = [sock EXCEPT ![c] = s]
    /\ UNCHANGED <<process, registered, factory, driver, prompts, out, lost, opener, closes>>

\* A connection ends, and its screen with it.
Gone(c) ==
    /\ sock' = [sock EXCEPT ![c] = "gone"]
    /\ seen' = [seen EXCEPT ![c] = <<>>]
    /\ shown' = [shown EXCEPT ![c] = {}]

\* Mutated form: what is open is left to its own timeout.
DetachQuietly(c) ==
    LET s == sock[c] IN
    IF s \in registered
    THEN /\ client' = [client EXCEPT ![s] = NoSocket]
         /\ machine' = [machine EXCEPT ![s] = Transition(@, "detached")]
         /\ UNCHANGED <<open, verdict>>
    ELSE UNCHANGED <<client, open, verdict, machine>>

(* The socket's disconnect handler: whoever holds the session loses it.    *)
(* What is open is refused first, but the machine stops waiting only after *)
(* the transition, in a microtask.                                         *)
Detach(c) ==
    LET s == sock[c] IN
    IF s \in registered
    THEN /\ client' = [client EXCEPT ![s] = NoSocket]
         /\ Settled({s}, "refused")
         /\ machine' = [machine EXCEPT ![s] = SetWaiting(Transition(@, "detached"), FALSE)]
    ELSE UNCHANGED <<client, open, verdict, machine>>

Disconnect(c) ==
    /\ Alive
    /\ sock[c] \in Sessions
    /\ Gone(c)
    /\ Detach(c)
    /\ UNCHANGED <<process, registered, factory, driver, asked, said, out, lost, opener,
                   closes>>

\* exec:close, from any socket of the session; its disconnect finds nothing.
ExecClose(c) ==
    /\ Alive
    /\ sock[c] \in Sessions
    /\ Gone(c)
    /\ Close({sock[c]} \cap registered, machine, driver)
    /\ UNCHANGED <<process, client, factory, asked, said, out, opener>>

-----------------------------------------------------------------------------
(* The connect: one factory call, which asks one question at a time, gives *)
(* up after a refusal, and otherwise succeeds or fails when it likes.      *)

Ask(s) ==
    /\ Alive
    /\ factory[s] = "pending" /\ ~open[s] /\ verdict[s] # "refused"
    /\ Total(asked) < MaxPrompts
    /\ asked' = [asked EXCEPT ![s] = @ + 1]
    /\ IF s \in registered /\ client[s] # NoSocket
       THEN /\ open' = [open EXCEPT ![s] = TRUE]
            /\ verdict' = [verdict EXCEPT ![s] = "none"]
            /\ shown' = [shown EXCEPT ![client[s]] = @ \cup {asked[s] + 1}]
            /\ machine' = [machine EXCEPT ![s] = SetWaiting(@, TRUE)]
       ELSE /\ verdict' = [verdict EXCEPT ![s] = "refused"]
            /\ machine' = [machine EXCEPT ![s] = Armed(@)]
            /\ UNCHANGED <<open, shown>>
    /\ UNCHANGED <<process, registered, client, factory, driver, said, output, sock, opener,
                   closes>>

\* Mutated form: whatever is open is settled.
AnswersWhatever(s, p) == s \in registered /\ open[s]

AnswersOpen(s, p) == s \in registered /\ open[s] /\ p = asked[s]

(* An answer arrives.  The person gave it to a question they were shown,   *)
(* perhaps twice, perhaps after it was settled.                            *)
Answer(c, s, p, trusts) ==
    /\ Alive
    /\ sock[c] = s /\ p \in shown[c]
    /\ said' = IF trusts THEN said \cup {<<s, p>>} ELSE said
    /\ IF AnswersOpen(s, p)
       THEN /\ Settled({s}, IF trusts THEN "trusted" ELSE "refused")
            /\ machine' = [machine EXCEPT ![s] = SetWaiting(@, FALSE)]
       ELSE UNCHANGED <<open, verdict, machine>>
    /\ UNCHANGED <<process, registered, client, factory, driver, asked, shown, output, sock,
                   opener, closes>>

PromptTimesOut(s) ==
    /\ Alive
    /\ open[s]
    /\ Settled({s}, "refused")
    /\ machine' = [machine EXCEPT ![s] = SetWaiting(@, FALSE)]
    /\ UNCHANGED <<process, registered, client, factory, driver, asked, shown, said, output,
                   sock, opener, closes>>

\* Whether or not the session is still there: nobody aborts a factory.
FactoryResolves(s) ==
    /\ Alive
    /\ factory[s] = "pending" /\ ~open[s] /\ verdict[s] # "refused"
    /\ factory' = [factory EXCEPT ![s] = "resolved"]
    /\ driver' = [driver EXCEPT ![s] = "up"]
    /\ machine' = [machine EXCEPT ![s] = Transition(@, "running")]
    /\ UNCHANGED <<process, registered, client, prompts, output, sock, opener, closes>>

(* The catch block of start and the error handler of its caller.  The      *)
(* machine is disposed of before the broker closes, so that a machine that *)
(* was waiting is armed once more.                                         *)
FactoryFails(s) ==
    LET m == Dispose(machine[s]) IN
    /\ Alive
    /\ factory[s] = "pending"
    /\ factory' = [factory EXCEPT ![s] = "rejected"]
    /\ registered' = registered \ {s}
    /\ Settled({s}, "refused")
    /\ machine' = [machine EXCEPT ![s] = SetWaiting(m, FALSE)]
    /\ Gone(opener[s])
    /\ UNCHANGED <<process, client, driver, asked, said, out, lost, opener, closes>>

-----------------------------------------------------------------------------
(* The driver, the timers and the process. *)

\* Mutated form: the chunk that just came may be dropped with the others.
EvictionsOfAll(s) == lost[s]..(out[s] + 1)

\* What append may leave out of the buffer: the oldest chunks, by their bytes
\* and by where a replay can start, but never the chunk that just came.
Evictions(s) == lost[s]..out[s]

Data(s) ==
    LET c == client[s] IN
    /\ Alive
    /\ factory[s] = "pending" \/ driver[s] \in {"up", "closing"}
    /\ Total(out) < MaxOut
    /\ out' = [out EXCEPT ![s] = @ + 1]
    /\ \E k \in Evictions(s) : lost' = [lost EXCEPT ![s] = k]
    /\ seen' = IF c # NoSocket /\ sock[c] = s
               THEN [seen EXCEPT ![c] = Append(@, out[s] + 1)] ELSE seen
    /\ UNCHANGED <<process, registered, machine, client, factory, driver, prompts, sock,
                   opener, closes>>

\* sink.exit: the machine goes to closing, which closes the session.
DriverExits(s) ==
    /\ Alive
    /\ driver[s] = "up"
    /\ Close({s} \cap registered,
             [machine EXCEPT ![s] = Transition(@, "closing")],
             [driver EXCEPT ![s] = "ended"])
    /\ UNCHANGED <<process, client, factory, asked, shown, said, out, seen, sock, opener>>

\* closeSession after its await.
DriverClosed(s) ==
    /\ Alive
    /\ driver[s] = "closing"
    /\ driver' = [driver EXCEPT ![s] = "ended"]
    /\ machine' = [machine EXCEPT ![s] = Dispose(Transition(@, "closed"))]
    /\ lost' = [lost EXCEPT ![s] = out[s]]
    /\ UNCHANGED <<process, registered, client, factory, prompts, out, seen, sock, opener,
                   closes>>

\* Too long a connect, no input, nobody came back: one and the same end.
TimerFires(s) ==
    /\ Alive
    /\ machine[s].timer # "none"
    /\ Close({s} \cap registered, [machine EXCEPT ![s] = Transition(@, "closing")], driver)
    /\ UNCHANGED <<process, client, factory, asked, shown, said, out, seen, sock, opener>>

\* A minute after a start.
StartForgotten ==
    /\ Alive
    /\ starts > 0
    /\ starts' = starts - 1
    /\ UNCHANGED <<phase, awaited, registered, machine, client, factory, driver, prompts,
                   output, sock, opener, closes>>

\* SIGINT or SIGTERM: closeAllSessions closes the sessions there are by now.
Shutdown ==
    /\ phase = "up"
    /\ phase' = "stopping"
    /\ awaited' = registered
    /\ Close(registered, machine, driver)
    /\ UNCHANGED <<starts, client, factory, asked, shown, said, out, seen, sock, opener>>

Exit ==
    /\ phase = "stopping" /\ \A s \in awaited : driver[s] # "closing"
    /\ phase' = "exited"
    /\ UNCHANGED <<awaited, starts, registered, machine, client, factory, driver, prompts,
                   output, sock, opener, closes>>

-----------------------------------------------------------------------------
SocketStep(c) ==
    \/ \E s \in Sessions : Open(c, s) \/ Resume(c, s)
    \/ \E s \in Sessions, attach \in BOOLEAN : TurnAway(c, s, attach)
    \/ Disconnect(c) \/ ExecClose(c)
    \/ \E s \in Sessions, p \in 1..MaxPrompts, trusts \in BOOLEAN : Answer(c, s, p, trusts)

SessionStep(s) ==
    \/ Ask(s) \/ PromptTimesOut(s) \/ FactoryResolves(s) \/ FactoryFails(s)
    \/ Data(s) \/ DriverExits(s) \/ DriverClosed(s) \/ TimerFires(s)

Next ==
    \/ \E c \in Sockets : SocketStep(c)
    \/ \E s \in Sessions : SessionStep(s)
    \/ StartForgotten \/ Shutdown \/ Exit

Spec == Init /\ [][Next]_vars

(* Timers fire.  Nothing is assumed of people, hosts, networks and drivers *)
(* and nothing of the factory, which may hang.                             *)
FairSpec ==
    Spec /\ \A s \in Sessions : WF_vars(TimerFires(s)) /\ WF_vars(PromptTimesOut(s))

-----------------------------------------------------------------------------
TypeOK ==
    /\ phase \in {"up", "stopping", "exited"}
    /\ awaited \subseteq Sessions
    /\ starts \in 0..MaxStarts
    /\ registered \subseteq Sessions
    /\ machine \in [Sessions -> Machines]
    /\ client \in [Sessions -> Sockets \cup {NoSocket}]
    /\ factory \in [Sessions -> {"none", "pending", "resolved", "rejected"}]
    /\ driver \in [Sessions -> {"none", "up", "closing", "ended"}]
    /\ asked \in [Sessions -> Nat]
    /\ open \in [Sessions -> BOOLEAN]
    /\ verdict \in [Sessions -> {"none", "trusted", "refused"}]
    /\ out \in [Sessions -> Nat] /\ lost \in [Sessions -> Nat]
    /\ sock \in [Sockets -> Sessions \cup {"new", "gone"}]
    /\ opener \in [Sessions -> Sockets \cup {NoSocket}]
    /\ seen \in [Sockets -> Seq(Nat)]
    /\ shown \in [Sockets -> SUBSET Nat]
    /\ said \subseteq Sessions \X Nat
    /\ closes \in [Sessions -> Nat]

(* A session in the map has the timer its state asks for: the connect      *)
(* timer while it connects, the grace timer while it is detached and the   *)
(* idle timer, if that is on, while it runs; but none while a question is  *)
(* open, which has a timer of its own.  No machine, in the map or not,     *)
(* ever has the timer of another state (session.state.ts:11-14, 112-120).  *)
TimersFit ==
    /\ \A s \in Sessions : machine[s].timer \in {"none", TimerOf(machine[s].state)}
    /\ \A s \in registered :
        /\ machine[s].state \in {"starting", "running", "detached"}
        /\ machine[s].waiting = open[s]
        /\ machine[s].timer = IF open[s] THEN "none" ELSE TimerOf(machine[s].state)

(* A driver never waits on a question nobody can see: while one is open    *)
(* its session is in the map and the socket it was shown on is connected   *)
(* (prompts.ts:105-109).                                                   *)
QuestionIsVisible ==
    \A s \in Sessions : open[s] =>
        s \in registered /\ factory[s] = "pending" /\ \E c \in Sockets : sock[c] = s /\ asked[s] \in shown[c]

(* Silence is never consent: a connect that asked goes on only if somebody *)
(* who was shown that very question answered it with trust, whatever was   *)
(* said to an earlier one, timed out or was abandoned (prompts.ts:4-9).    *)
TrustIsExplicit ==
    \A s \in Sessions :
        /\ verdict[s] = "trusted" => <<s, asked[s]>> \in said
        /\ driver[s] # "none" => \A p \in 1..asked[s] : <<s, p>> \in said

(* Whoever holds a session has on screen all of its output since some      *)
(* point, up to now, in order and once, its last chunk at least, and lacks *)
(* at most what the buffer had dropped (session.registry.ts:181-186,       *)
(* 244-249; ringBuffer.ts:103-104).                                        *)
ScreenIsOutput ==
    \A s \in Sessions :
        LET c == client[s] IN
        c # NoSocket /\ sock[c] = s =>
            \E k \in 0..out[s] :
                /\ seen[c] = Chunks(k + 1, out[s])
                /\ s \in registered => k <= lost[s] /\ (k < out[s] \/ out[s] = 0)

(* However many timers, exits, closes and shutdowns race, a driver is told *)
(* to close at most once (exec.service.ts:34).                             *)
ClosedOnce == \A s \in Sessions : closes[s] <= 1

Connecting(s) == s \in registered /\ factory[s] = "pending"

(* What a connect can come to for ever: its session was picked up while    *)
(* it was still connecting, so that its machine left "starting" for        *)
(* "running", which has no timer while the idle timer is off.              *)
Untimed(s) == machine[s].state = "running" /\ machine[s].timer = "none" /\ ~open[s]

(* However often its timer stood still for a question, a connect keeps its *)
(* place for ever in that one case only: else it comes to an end, or its   *)
(* timer ends it (session.state.ts:112-126; session.registry.ts:177).      *)
ConnectEnds == \A s \in Sessions : <>[](Connecting(s) /\ Alive) => []<>Untimed(s)

(* Disagrees with the code: a connect that does not come to an end by      *)
(* itself is abandoned after a while (session.state.ts:40).                *)
ConnectTimesOut ==
    \A s \in Sessions : (Connecting(s) /\ phase = "up") ~> (phase # "up" \/ ~Connecting(s))

(* Disagrees with the code: a connect whose session has ended is called    *)
(* off, and brings no driver up for nobody (exec.service.ts:55-57).        *)
NobodysDriver == \A s \in Sessions : driver[s] = "up" => s \in registered

(* Disagrees with the code: when the server exits, every driver it brought *)
(* up has ended (main.ts:166-167).                                         *)
NothingOutlives == phase = "exited" => \A s \in Sessions : driver[s] \in {"none", "ended"}
=============================================================================
