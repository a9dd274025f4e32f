-------------------------- MODULE ExecRegistryProofs --------------------------
(***************************************************************************)
(* Proofs about ExecRegistry, for any number of sessions, sockets, prompts *)
(* and chunks, and with the idle timer on or off.                          *)
(***************************************************************************)
EXTENDS ExecRegistry, TLAPS

(* A session goes through its life in one order: opened once, in the map   *)
(* only until it is closed or fails, and with a driver exactly if its      *)
(* factory has resolved.                                                   *)
Stages ==
    \A s \in Sessions :
        /\ factory[s] # "none" => opener[s] \in Sockets /\ sock[opener[s]] \in {s, "gone"}
        /\ driver[s] = "none" <=> factory[s] # "resolved"
        /\ closes[s] <= 1
        /\ s \in registered =>
            /\ factory[s] \in {"pending", "resolved"}
            /\ driver[s] \in {"none", "up"}
            /\ closes[s] = 0
            /\ client[s] # NoSocket => sock[client[s]] = s
        /\ factory[s] = "none" => asked[s] = 0 /\ client[s] = NoSocket /\ closes[s] = 0

(* The questions of a connect: every one but the last was answered with    *)
(* trust, and the last is open, was answered, or is the refusal that ends  *)
(* the connect.                                                            *)
Questions ==
    \A s \in Sessions :
        /\ \A p \in 1..(asked[s] - 1) : <<s, p>> \in said
        /\ open[s] => verdict[s] = "none" /\ asked[s] > 0
        /\ asked[s] > 0 /\ ~open[s] => verdict[s] # "none"
        /\ verdict[s] = "trusted" => <<s, asked[s]>> \in said
        /\ verdict[s] # "none" => asked[s] > 0
        /\ driver[s] # "none" => \A p \in 1..asked[s] : <<s, p>> \in said
        /\ machine[s].waiting = open[s]

IInv == TypeOK /\ TimersFit /\ QuestionIsVisible /\ Stages /\ Questions

-----------------------------------------------------------------------------
(* The machine of one session. *)

Fit(m) == m.timer \in {"none", TimerOf(m.state)}
Exact(m) == m.timer = IF m.waiting THEN "none" ELSE TimerOf(m.state)

\* A machine that is armed has exactly the timer of its state, or none while it
\* waits (session.state.ts armFor).
LEMMA ArmedFacts ==
  ASSUME NEW m \in Machines
  PROVE  /\ Armed(m) \in Machines /\ Exact(Armed(m)) /\ Fit(Armed(m))
         /\ Armed(m).state = m.state /\ Armed(m).waiting = m.waiting
  BY DEF Armed, Machines, Timers, States, Exact, Fit, TimerOf

\* A new machine is connecting and has the connect timer (session.state.ts
\* constructor).
LEMMA FreshFacts ==
  /\ Fresh \in Machines /\ Exact(Fresh) /\ Fit(Fresh)
  /\ Fresh.state = "starting" /\ ~Fresh.waiting
<1> DEFINE m == [state |-> "starting", timer |-> "none", waiting |-> FALSE]
<1>1. m \in Machines
  BY DEF Machines, Timers, States
<1> QED
  BY <1>1, ArmedFacts DEF Fresh

\* A transition never leaves a timer of another state behind, and keeps one
\* that was as it should be.
LEMMA TransitionFacts ==
  ASSUME NEW m \in Machines, NEW to \in States, Fit(m)
  PROVE  LET n == Transition(m, to) IN
         /\ n \in Machines /\ Fit(n) /\ n.waiting = m.waiting
         /\ Exact(m) => Exact(n)
         /\ n.state \in {to, m.state}
<1> DEFINE k == [m EXCEPT !.state = to]
<1>1. k \in Machines /\ k.state = to /\ k.waiting = m.waiting
  BY DEF Machines
<1>2. CASE to \in Allowed[m.state]
  BY <1>1, <1>2, ArmedFacts DEF Transition
<1>3. CASE to \notin Allowed[m.state]
  BY <1>3 DEF Transition
<1> QED
  BY <1>2, <1>3

\* Waiting changes the timer and never the state; where it changes nothing the
\* machine stays as it is (session.state.ts setWaitingForUser).
LEMMA SetWaitingFacts ==
  ASSUME NEW m \in Machines, NEW w \in BOOLEAN, Fit(m)
  PROVE  LET n == SetWaiting(m, w) IN
         /\ n \in Machines /\ Fit(n) /\ n.waiting = w
         /\ Exact(m) => Exact(n)
         /\ n.state = m.state
<1> DEFINE k == [m EXCEPT !.waiting = w]
<1>1. k \in Machines /\ k.state = m.state /\ k.waiting = w
  BY DEF Machines
<1>2. CASE m.waiting = w
  BY <1>2 DEF SetWaiting
<1>3. CASE m.waiting # w
  BY <1>1, <1>3, ArmedFacts DEF SetWaiting
<1> QED
  BY <1>2, <1>3

\* A machine that is disposed of has no timer (session.state.ts dispose).
LEMMA DisposeFacts ==
  ASSUME NEW m \in Machines
  PROVE  /\ Dispose(m) \in Machines /\ Fit(Dispose(m))
         /\ Dispose(m).state = m.state /\ Dispose(m).waiting = m.waiting
  BY DEF Dispose, Machines, Timers, Fit

-----------------------------------------------------------------------------
(* Closing sessions of the map. *)

\* Settling closes what is open in S and gives those questions their verdict
\* (prompts.ts settle).
LEMMA SettledFacts ==
  ASSUME TypeOK, NEW S, NEW v \in {"trusted", "refused"}, Settled(S, v)
  PROVE  /\ open' \in [Sessions -> BOOLEAN]
         /\ verdict' \in [Sessions -> {"none", "trusted", "refused"}]
         /\ \A s \in Sessions : open'[s] <=> open[s] /\ s \notin S
         /\ \A s \in Sessions : s \in S /\ open[s] => verdict'[s] = v
         /\ \A s \in Sessions : ~(s \in S /\ open[s]) => verdict'[s] = verdict[s]
  BY Zenon DEF Settled, TypeOK

\* What the callers of Close hand over: machines whose timers fit, and
\* drivers of which some have ended.
MachinesByNow(S, ms) ==
    /\ ms \in [Sessions -> Machines]
    /\ \A s \in Sessions : Fit(ms[s]) /\ ms[s].waiting = machine[s].waiting
    /\ \A s \in Sessions \ S : s \in registered => ms[s] = machine[s]

DriversByNow(S, ds) ==
    /\ ds \in [Sessions -> {"none", "up", "closing", "ended"}]
    /\ \A s \in Sessions : ds[s] = driver[s] \/ (driver[s] = "up" /\ ds[s] = "ended")
    /\ \A s \in Sessions \ S : s \in registered => ds[s] = driver[s]

\* closeSession leaves every machine well-formed and not waiting, and those of
\* the sessions that stay in the map as they were.
LEMMA CloseMachines ==
  ASSUME IInv, NEW S \in SUBSET registered, NEW ms, NEW ds,
         MachinesByNow(S, ms), Close(S, ms, ds)
  PROVE  /\ machine' \in [Sessions -> Machines]
         /\ \A s \in Sessions : Fit(machine'[s]) /\ machine'[s].waiting = open'[s]
         /\ \A s \in registered' : machine'[s] = machine[s] /\ (open'[s] <=> open[s])
<1> DEFINE slow == {s \in S : ds[s] = "up"}
           new(s) == CASE s \notin S -> ms[s]
                       [] s \in slow -> SetWaiting(ms[s], FALSE)
                       [] OTHER -> Transition(SetWaiting(ms[s], FALSE), "closed")
<1>1. machine' = [s \in Sessions |-> new(s)]
  BY Zenon DEF Close, Finish
<1>0. TypeOK /\ Settled(S, "refused")
  BY Zenon DEF Close, Finish, IInv
<1>2. /\ open' \in [Sessions -> BOOLEAN] /\ open \in [Sessions -> BOOLEAN]
      /\ \A s \in Sessions : open'[s] <=> open[s] /\ s \notin S
  BY <1>0, SettledFacts DEF TypeOK
<1>3. ASSUME NEW s \in Sessions
      PROVE  /\ new(s) \in Machines /\ Fit(new(s))
             /\ s \in S => ~new(s).waiting
             /\ s \notin S => new(s) = ms[s]
  <2>1. ms[s] \in Machines /\ Fit(ms[s])
    BY DEF MachinesByNow
  <2>2. CASE s \notin S
    BY <2>1, <2>2
  <2>3. LET n == SetWaiting(ms[s], FALSE) IN n \in Machines /\ Fit(n) /\ n.waiting = FALSE
    BY <2>1, SetWaitingFacts
  <2>4. LET n == Transition(SetWaiting(ms[s], FALSE), "closed") IN
        n \in Machines /\ Fit(n) /\ n.waiting = FALSE
    BY <2>3, TransitionFacts DEF States
  <2> HIDE DEF slow
  <2>5. CASE s \in S /\ s \in slow
    BY <2>3, <2>5
  <2>6. CASE s \in S /\ s \notin slow
    BY <2>4, <2>6
  <2> QED
    BY <2>2, <2>5, <2>6
<1> HIDE DEF new
<1>4. \A s \in Sessions : machine'[s] = new(s)
  BY <1>1
<1>5. machine' \in [Sessions -> Machines]
  BY <1>1, <1>3
<1>6. ASSUME NEW s \in Sessions
      PROVE  Fit(machine'[s]) /\ machine'[s].waiting = open'[s]
  <2>1. machine[s].waiting = open[s] /\ open[s] \in BOOLEAN /\ open'[s] \in BOOLEAN
    BY <1>2, Zenon DEF IInv, Questions
  <2>2. CASE s \in S
    BY <1>2, <1>3, <1>4, <1>5, <2>1, <2>2 DEF Machines
  <2>3. CASE s \notin S
    BY <1>2, <1>3, <1>4, <2>1, <2>3 DEF MachinesByNow
  <2> QED
    BY <2>2, <2>3
<1>7. ASSUME NEW s \in registered'
      PROVE  machine'[s] = machine[s] /\ (open'[s] <=> open[s])
  <2>1. s \in Sessions /\ s \in registered /\ s \notin S
    BY DEF Close, IInv, TypeOK
  <2>2. open[s] \in BOOLEAN /\ open'[s] \in BOOLEAN
    BY <1>2, <2>1, Zenon
  <2>3. open'[s] <=> open[s]
    BY <1>2, <2>1, <2>2, Zenon
  <2> QED
    BY <1>3, <1>4, <2>1, <2>3 DEF MachinesByNow
<1> QED
  BY <1>5, <1>6, <1>7

\* closeSession takes S from the map, gives no session a driver or takes it
\* away, and calls close at most once for each.
LEMMA CloseSessions ==
  ASSUME IInv, NEW S \in SUBSET registered, NEW ms, NEW ds,
         DriversByNow(S, ds), Close(S, ms, ds)
  PROVE  /\ registered' = registered \ S
         /\ driver' \in [Sessions -> {"none", "up", "closing", "ended"}]
         /\ \A s \in Sessions : driver'[s] = "none" <=> driver[s] = "none"
         /\ \A s \in registered' : driver'[s] = driver[s]
         /\ \A s \in Sessions \ S : closes'[s] = closes[s]
         /\ closes' \in [Sessions -> Nat] /\ \A s \in Sessions : closes'[s] <= 1
         /\ lost' \in [Sessions -> Nat]
<1> DEFINE slow == {s \in S : ds[s] = "up"}
<1>1. /\ registered' = registered \ S /\ registered \subseteq Sessions
      /\ driver' = [s \in Sessions |-> IF s \in slow THEN "closing" ELSE ds[s]]
      /\ closes' = [s \in Sessions |->
                      IF s \in S /\ factory[s] = "resolved" THEN closes[s] + 1 ELSE closes[s]]
      /\ lost' = [s \in Sessions |-> IF s \in S \ slow THEN out[s] ELSE lost[s]]
  BY Zenon DEF Close, Finish, IInv, TypeOK
<1>2. \A s \in Sessions : closes[s] \in Nat /\ closes[s] <= 1 /\ (s \in S => closes[s] = 0)
  BY DEF IInv, TypeOK, Stages
<1>3. /\ driver' \in [Sessions -> {"none", "up", "closing", "ended"}]
      /\ \A s \in Sessions : driver'[s] = "none" <=> driver[s] = "none"
  BY <1>1 DEF DriversByNow
<1>4. closes' \in [Sessions -> Nat] /\ \A s \in Sessions : closes'[s] <= 1
  BY <1>1, <1>2
<1>5. lost' \in [Sessions -> Nat]
  BY <1>1 DEF IInv, TypeOK
<1>6. /\ \A s \in registered' : driver'[s] = driver[s]
      /\ \A s \in Sessions \ S : closes'[s] = closes[s]
  BY <1>1 DEF DriversByNow
<1> QED
  BY <1>1, <1>3, <1>4, <1>5, <1>6

\* What the end of some connections leaves alone: the screens of the sessions R.
ScreensKept(R) ==
    /\ sock' \in [Sockets -> Sessions \cup {"new", "gone"}]
    /\ seen' \in [Sockets -> Seq(Nat)]
    /\ shown' \in [Sockets -> SUBSET Nat]
    /\ \A c \in Sockets : sock'[c] \in {sock[c], "gone"}
    /\ \A c \in Sockets : sock[c] \in R => sock'[c] = sock[c] /\ shown'[c] = shown[c]

\* The end of a connection leaves the screens of all other sessions alone.
LEMMA GoneKeeps ==
  ASSUME TypeOK, NEW c \in Sockets, Gone(c), NEW R, sock[c] \notin R
  PROVE  ScreensKept(R)
  BY DEF TypeOK, Gone, ScreensKept

\* closeSession keeps the invariant, whatever brought it about.
LEMMA CloseInv ==
  ASSUME IInv, NEW S \in SUBSET registered, NEW ms, NEW ds,
         MachinesByNow(S, ms), DriversByNow(S, ds), Close(S, ms, ds),
         ScreensKept(registered'),
         UNCHANGED <<starts, client, factory, asked, said, out, opener>>,
         phase' \in {"up", "stopping", "exited"}, awaited' \subseteq Sessions
  PROVE  IInv'
<1>1. /\ TypeOK /\ TimersFit /\ QuestionIsVisible /\ Stages /\ Questions
      /\ registered \subseteq Sessions /\ registered' = registered \ S
  BY CloseSessions DEF IInv, TypeOK
<1>2. Settled(S, "refused")
  BY Zenon DEF Close, Finish
<1>3. /\ open' \in [Sessions -> BOOLEAN]
      /\ verdict' \in [Sessions -> {"none", "trusted", "refused"}]
      /\ \A s \in Sessions : open'[s] <=> open[s] /\ s \notin S
      /\ \A s \in Sessions : s \in S /\ open[s] => verdict'[s] = "refused"
      /\ \A s \in Sessions : ~(s \in S /\ open[s]) => verdict'[s] = verdict[s]
  BY <1>1, <1>2, SettledFacts
<1>4. TypeOK'
  BY <1>1, <1>3, CloseMachines, CloseSessions DEF TypeOK, ScreensKept
<1>5. TimersFit'
  <2>1. \A s \in Sessions : Fit(machine'[s])
    BY CloseMachines
  <2>2. \A s \in registered' : s \in registered /\ machine'[s] = machine[s] /\ (open'[s] <=> open[s])
    BY <1>1, CloseMachines
  <2>3. ASSUME NEW s \in registered'
        PROVE  /\ machine'[s].state \in {"starting", "running", "detached"}
               /\ machine'[s].waiting = open'[s]
               /\ machine'[s].timer = IF open'[s] THEN "none" ELSE TimerOf(machine'[s].state)
    BY <1>1, <2>2, CloseMachines DEF TimersFit
  <2> QED
    BY <2>1, <2>3 DEF TimersFit, Fit
<1>6. QuestionIsVisible'
  <2> SUFFICES ASSUME NEW s \in Sessions, open'[s]
               PROVE  /\ s \in registered' /\ factory[s] = "pending"
                      /\ \E c \in Sockets : sock'[c] = s /\ asked[s] \in shown'[c]
    BY DEF QuestionIsVisible
  <2>1. open[s] /\ s \notin S
    BY <1>3
  <2>2. /\ s \in registered /\ factory[s] = "pending"
        /\ \E c \in Sockets : sock[c] = s /\ asked[s] \in shown[c]
    BY <1>1, <2>1 DEF QuestionIsVisible
  <2> QED
    BY <1>1, <2>1, <2>2 DEF ScreensKept
<1>7. Stages'
  <2>1. \A s \in Sessions :
          factory[s] # "none" => opener[s] \in Sockets /\ sock'[opener[s]] \in {s, "gone"}
    BY <1>1 DEF Stages, ScreensKept
  <2>2. \A s \in registered' : client[s] # NoSocket => sock'[client[s]] = s
    BY <1>1 DEF Stages, ScreensKept, TypeOK
  <2>3. /\ \A s \in Sessions : driver'[s] = "none" <=> driver[s] = "none"
        /\ \A s \in registered' : driver'[s] = driver[s] /\ closes'[s] = closes[s]
        /\ \A s \in Sessions : closes'[s] <= 1
    BY <1>1, CloseSessions
  <2>4. \A s \in Sessions : factory[s] = "none" => closes'[s] = 0
    BY <1>1, CloseSessions DEF Stages
  <2> QED
    BY <1>1, <2>1, <2>2, <2>3, <2>4 DEF Stages
<1>8. Questions'
  <2>1. \A s \in Sessions : machine'[s].waiting = open'[s]
    BY CloseMachines
  <2>2. \A s \in Sessions : driver'[s] = "none" <=> driver[s] = "none"
    BY CloseSessions
  <2> QED
    BY <1>1, <1>3, <2>1, <2>2 DEF Questions
<1> QED
  BY <1>4, <1>5, <1>6, <1>7, <1>8 DEF IInv

-----------------------------------------------------------------------------
(* What is open in a session is settled, and its machine is n by now. *)

\* A settled question keeps the invariant, whatever settled it: an answer, a
\* timeout, a disconnect or a failed start.
LEMMA SettleInv ==
  ASSUME IInv, NEW s \in Sessions, NEW v \in {"trusted", "refused"}, NEW n \in Machines,
         Settled({s}, v), machine' = [machine EXCEPT ![s] = n],
         Fit(n), ~n.waiting,
         registered' = registered \/ registered' = registered \ {s},
         s \in registered' => Exact(n) /\ n.state \in {"starting", "running", "detached"},
         ScreensKept(registered' \ {s}),
         client' \in [Sessions -> Sockets \cup {NoSocket}],
         \A r \in Sessions \ {s} : client'[r] = client[r],
         factory[s] = "none" => client'[s] = NoSocket,
         s \in registered' /\ client'[s] # NoSocket => sock'[client'[s]] = s,
         said \subseteq said', said' \subseteq Sessions \X Nat,
         v = "trusted" => <<s, asked[s]>> \in said',
         factory' = factory \/ (/\ factory' = [factory EXCEPT ![s] = "rejected"]
                                /\ factory[s] = "pending" /\ s \notin registered'),
         UNCHANGED <<process, driver, asked, out, lost, opener, closes>>
  PROVE  IInv'
<1>1. /\ TypeOK /\ TimersFit /\ QuestionIsVisible /\ Stages /\ Questions
      /\ registered \subseteq Sessions
      /\ registered' \subseteq registered /\ \A r \in registered \ {s} : r \in registered'
  BY DEF IInv, TypeOK
<1>2. /\ open' \in [Sessions -> BOOLEAN]
      /\ verdict' \in [Sessions -> {"none", "trusted", "refused"}]
      /\ \A r \in Sessions : open'[r] <=> open[r] /\ r # s
      /\ open[s] => verdict'[s] = v
      /\ ~open[s] => verdict'[s] = verdict[s]
      /\ \A r \in Sessions \ {s} : verdict'[r] = verdict[r]
  BY <1>1, SettledFacts
<1>3. /\ machine' \in [Sessions -> Machines]
      /\ machine'[s] = n /\ \A r \in Sessions \ {s} : machine'[r] = machine[r]
  BY <1>1 DEF TypeOK
<1>4. n.waiting = FALSE /\ n.waiting \in BOOLEAN
  BY DEF Machines
<1>5. TypeOK'
  <2>1. factory' \in [Sessions -> {"none", "pending", "resolved", "rejected"}]
    <3>1. factory \in [Sessions -> {"none", "pending", "resolved", "rejected"}]
      BY <1>1 DEF TypeOK
    <3>2. CASE factory' = factory
      BY <3>1, <3>2
    <3>3. CASE factory' = [factory EXCEPT ![s] = "rejected"]
      BY <3>1, <3>3
    <3> QED
      BY <3>2, <3>3
  <2>2. registered' \subseteq Sessions
    BY <1>1
  <2>3. /\ sock' \in [Sockets -> Sessions \cup {"new", "gone"}]
        /\ seen' \in [Sockets -> Seq(Nat)] /\ shown' \in [Sockets -> SUBSET Nat]
    BY DEF ScreensKept
  <2> QED
    BY <1>1, <1>2, <1>3, <2>1, <2>2, <2>3 DEF TypeOK, process
<1>6. \A r \in Sessions : machine'[r].waiting = open'[r]
  <2>1. \A r \in Sessions \ {s} : machine[r].waiting = open[r] /\ open[r] \in BOOLEAN
    BY <1>1 DEF Questions, TypeOK
  <2> QED
    BY <1>2, <1>3, <1>4, <2>1
<1>7. TimersFit'
  <2>1. \A r \in Sessions : Fit(machine'[r])
    BY <1>1, <1>3 DEF TimersFit, Fit
  <2>2. ASSUME NEW r \in registered'
        PROVE  /\ machine'[r].state \in {"starting", "running", "detached"}
               /\ machine'[r].timer = IF open'[r] THEN "none" ELSE TimerOf(machine'[r].state)
    <3>1. CASE r = s
      BY <1>2, <1>3, <1>4, <3>1 DEF Exact
    <3>2. CASE r # s
      BY <1>1, <1>2, <1>3, <3>2 DEF TimersFit
    <3> QED
      BY <3>1, <3>2
  <2> QED
    BY <1>1, <1>6, <2>1, <2>2 DEF TimersFit, Fit
<1>8. QuestionIsVisible'
  <2> SUFFICES ASSUME NEW r \in Sessions, open'[r]
               PROVE  /\ r \in registered' /\ factory'[r] = "pending"
                      /\ \E c \in Sockets : sock'[c] = r /\ asked[r] \in shown'[c]
    BY DEF QuestionIsVisible
  <2>1. open[r] /\ r # s
    BY <1>2
  <2>2. /\ r \in registered /\ factory[r] = "pending"
        /\ \E c \in Sockets : sock[c] = r /\ asked[r] \in shown[c]
    BY <1>1, <2>1 DEF QuestionIsVisible
  <2>3. factory'[r] = factory[r]
    BY <1>1, <2>1 DEF TypeOK
  <2> QED
    BY <1>1, <2>1, <2>2, <2>3 DEF ScreensKept
<1>9. Stages'
  <2>1. \A r \in Sessions : /\ factory'[r] = "none" <=> factory[r] = "none"
                            /\ factory'[r] = "resolved" <=> factory[r] = "resolved"
                            /\ r \in registered' => factory'[r] = factory[r]
    BY <1>1 DEF TypeOK
  <2>2. \A r \in Sessions :
          factory[r] # "none" => opener[r] \in Sockets /\ sock'[opener[r]] \in {r, "gone"}
    BY <1>1 DEF Stages, ScreensKept
  <2>3. \A r \in registered' : client'[r] # NoSocket => sock'[client'[r]] = r
    <3> SUFFICES ASSUME NEW r \in registered', r # s, client'[r] # NoSocket
                 PROVE  sock'[client'[r]] = r
      OBVIOUS
    <3>1. r \in registered /\ r \in Sessions /\ client'[r] = client[r]
      BY <1>1
    <3>2. client[r] \in Sockets /\ sock[client[r]] = r
      BY <1>1, <3>1 DEF Stages, TypeOK
    <3> QED
      BY <3>1, <3>2 DEF ScreensKept
  <2>4. \A r \in Sessions : factory[r] = "none" =>
          asked[r] = 0 /\ client'[r] = NoSocket /\ closes[r] = 0
    BY <1>1 DEF Stages
  <2> QED
    BY <1>1, <2>1, <2>2, <2>3, <2>4 DEF Stages
<1>10. Questions'
  <2>1. \A r \in Sessions : asked[r] \in Nat
    BY <1>1 DEF TypeOK
  <2>2. open[s] => asked[s] > 0
    BY <1>1 DEF Questions
  <2>3. ASSUME NEW r \in Sessions
        PROVE  /\ \A p \in 1..(asked[r] - 1) : <<r, p>> \in said'
               /\ open'[r] => verdict'[r] = "none" /\ asked[r] > 0
               /\ asked[r] > 0 /\ ~open'[r] => verdict'[r] # "none"
               /\ verdict'[r] = "trusted" => <<r, asked[r]>> \in said'
               /\ verdict'[r] # "none" => asked[r] > 0
               /\ driver[r] # "none" => \A p \in 1..asked[r] : <<r, p>> \in said'
    <3>1. CASE r = s
      BY <1>1, <1>2, <2>1, <2>2, <3>1 DEF Questions
    <3>2. CASE r # s
      BY <1>1, <1>2, <2>1, <3>2 DEF Questions
    <3> QED
      BY <3>1, <3>2
  <2> QED
    BY <1>6, <2>3 DEF Questions
<1> QED
  BY <1>5, <1>7, <1>8, <1>9, <1>10 DEF IInv

-----------------------------------------------------------------------------
(* Every action keeps the invariant. *)

\* attachSession of a new id keeps the invariant (session.registry.ts start).
LEMMA OpenInv ==
  ASSUME IInv, NEW c \in Sockets, NEW s \in Sessions, Open(c, s)
  PROVE  IInv'
<1>1. /\ TypeOK /\ TimersFit /\ QuestionIsVisible /\ Stages /\ Questions
  BY DEF IInv
<1>2. /\ sock[c] = "new" /\ factory[s] = "none" /\ ~Full
      /\ starts' = starts + 1 /\ registered' = registered \cup {s}
      /\ machine' = [machine EXCEPT ![s] = Fresh]
      /\ client' = [client EXCEPT ![s] = c]
      /\ opener' = [opener EXCEPT ![s] = c]
      /\ factory' = [factory EXCEPT ![s] = "pending"]
      /\ sock' = [sock EXCEPT ![c] = s]
      /\ UNCHANGED <<phase, awaited, driver, asked, open, verdict, shown, said, out, lost, seen,
                     closes>>
  BY DEF Open, prompts, output
<1>3. s \notin registered /\ ~open[s] /\ asked[s] = 0 /\ driver[s] = "none"
  BY <1>1, <1>2 DEF Stages, QuestionIsVisible
<1>4. /\ machine' \in [Sessions -> Machines] /\ machine'[s] = Fresh
      /\ \A r \in Sessions \ {s} : machine'[r] = machine[r]
  BY <1>1, <1>2, FreshFacts DEF TypeOK
<1>5. starts' \in 0..MaxStarts
  BY <1>1, <1>2, LimitsAssumption DEF TypeOK, Full
<1>6. TypeOK'
  BY <1>1, <1>2, <1>4, <1>5 DEF TypeOK
<1>7. Fresh.waiting = open[s] /\ \A r \in Sessions : machine'[r].waiting = open'[r]
  <2>1. Fresh.waiting \in BOOLEAN /\ open[s] \in BOOLEAN
    BY <1>1, FreshFacts DEF TypeOK, Machines
  <2>2. Fresh.waiting = open[s]
    BY <1>3, <2>1, FreshFacts
  <2> QED
    BY <1>1, <1>2, <1>4, <2>2 DEF Questions
<1>8. TimersFit'
  <2>1. \A r \in Sessions : Fit(machine'[r])
    BY <1>1, <1>4, FreshFacts DEF TimersFit, Fit
  <2>2. ASSUME NEW r \in registered'
        PROVE  /\ machine'[r].state \in {"starting", "running", "detached"}
               /\ machine'[r].timer = IF open'[r] THEN "none" ELSE TimerOf(machine'[r].state)
    <3>1. CASE r = s
      BY <1>2, <1>3, <1>4, <3>1, FreshFacts DEF Exact
    <3>2. CASE r # s
      BY <1>1, <1>2, <1>4, <3>2 DEF TimersFit, TypeOK
    <3> QED
      BY <3>1, <3>2
  <2> QED
    BY <1>6, <1>7, <2>1, <2>2 DEF TimersFit, Fit, TypeOK
<1>9. QuestionIsVisible'
  BY <1>1, <1>2, <1>3, NamesAssumption DEF QuestionIsVisible, TypeOK
<1>10. Stages'
  <2>1. c # NoSocket /\ "new" \notin Sessions
    BY NamesAssumption, NoSocketAssumption
  <2>2. ASSUME NEW r \in Sessions
        PROVE  /\ factory'[r] # "none"
                    => opener'[r] \in Sockets /\ sock'[opener'[r]] \in {r, "gone"}
               /\ r \in registered' /\ client'[r] # NoSocket => sock'[client'[r]] = r
    <3>1. CASE r = s
      BY <1>1, <1>2, <3>1 DEF TypeOK
    <3>2. CASE r # s
      BY <1>1, <1>2, <2>1, <3>2 DEF Stages, TypeOK
    <3> QED
      BY <3>1, <3>2
  <2>3. ASSUME NEW r \in Sessions
        PROVE  /\ driver'[r] = "none" <=> factory'[r] # "resolved"
               /\ closes'[r] <= 1
               /\ r \in registered' => /\ factory'[r] \in {"pending", "resolved"}
                                       /\ driver'[r] \in {"none", "up"} /\ closes'[r] = 0
               /\ factory'[r] = "none"
                    => asked'[r] = 0 /\ client'[r] = NoSocket /\ closes'[r] = 0
    <3>1. CASE r = s
      BY <1>1, <1>2, <1>3, <3>1 DEF Stages, TypeOK
    <3>2. CASE r # s
      BY <1>1, <1>2, <3>2 DEF Stages, TypeOK
    <3> QED
      BY <3>1, <3>2
  <2> QED
    BY <2>2, <2>3 DEF Stages
<1>11. Questions'
  BY <1>1, <1>2, <1>3, <1>7 DEF Questions, TypeOK
<1> QED
  BY <1>6, <1>8, <1>9, <1>10, <1>11 DEF IInv

\* A socket that is turned away keeps the invariant (exec.service.ts).
LEMMA TurnAwayInv ==
  ASSUME IInv, NEW c \in Sockets, NEW s \in Sessions, NEW attach \in BOOLEAN,
         TurnAway(c, s, attach)
  PROVE  IInv'
<1>1. /\ sock[c] = "new" /\ sock' = [sock EXCEPT ![c] = "gone"]
      /\ UNCHANGED <<phase, awaited, starts, registered, machine, client, factory, driver, asked,
                     open, verdict, shown, said, out, lost, seen, opener, closes>>
  BY DEF TurnAway, process, prompts, output
<1>2. TypeOK' /\ TimersFit'
  BY <1>1 DEF IInv, TypeOK, TimersFit
<1>3. QuestionIsVisible'
  BY <1>1, NamesAssumption DEF IInv, QuestionIsVisible, TypeOK
<1>4. Stages'
  BY <1>1, NamesAssumption DEF IInv, Stages, TypeOK
<1>5. Questions'
  BY <1>1 DEF IInv, Questions
<1> QED
  BY <1>2, <1>3, <1>4, <1>5 DEF IInv

\* Consecutive numbers are a sequence of them.
LEMMA ChunksType ==
  ASSUME NEW i \in Nat \ {0}, NEW j \in Nat
  PROVE  Chunks(i, j) \in Seq(Nat)
<1> DEFINE n == IF j + 1 - i < 0 THEN 0 ELSE j + 1 - i
<1>1. n \in Nat /\ 1..(j + 1 - i) = 1..n
  OBVIOUS
<1>2. \A k \in 1..n : i + k - 1 \in Nat
  OBVIOUS
<1> HIDE DEF n
<1>3. Chunks(i, j) = [k \in 1..n |-> i + k - 1]
  BY <1>1 DEF Chunks
<1> QED
  BY <1>1, <1>2, <1>3 DEF Seq

\* A registered session's machine after a transition the registry asks for.
LEMMA RegisteredMachine ==
  ASSUME IInv, NEW s \in registered
  PROVE  /\ machine[s] \in Machines /\ Fit(machine[s]) /\ Exact(machine[s])
         /\ machine[s].state \in {"starting", "running", "detached"}
         /\ machine[s].waiting = open[s]
  BY DEF IInv, TypeOK, TimersFit, Fit, Exact

\* Only screens of sessions that are not in the map go.
LEMMA ScreensOnly ==
  ASSUME IInv, ScreensKept(registered),
         UNCHANGED <<process, registered, machine, client, factory, driver, asked, open, verdict,
                     said, out, lost, opener, closes>>
  PROVE  IInv'
<1>1. TypeOK'
  BY DEF IInv, TypeOK, ScreensKept, process
<1>2. TimersFit' /\ Questions'
  BY DEF IInv, TimersFit, Questions
<1>3. QuestionIsVisible'
  BY DEF IInv, QuestionIsVisible, ScreensKept
<1>4. Stages'
  BY DEF IInv, TypeOK, Stages, ScreensKept
<1> QED
  BY <1>1, <1>2, <1>3, <1>4 DEF IInv

\* resume keeps the invariant (session.registry.ts).
LEMMA ResumeInv ==
  ASSUME IInv, NEW c \in Sockets, NEW s \in Sessions, Resume(c, s)
  PROVE  IInv'
<1> DEFINE n == Transition(machine[s], "running")
<1>1. TypeOK /\ TimersFit /\ QuestionIsVisible /\ Stages /\ Questions
  BY DEF IInv
<1>2. /\ sock[c] = "new" /\ s \in registered
      /\ client' = [client EXCEPT ![s] = c]
      /\ machine' = [machine EXCEPT ![s] = n]
      /\ seen' = [seen EXCEPT ![c] = Replay(s)]
      /\ sock' = [sock EXCEPT ![c] = s]
      /\ UNCHANGED <<phase, awaited, starts, registered, factory, driver, asked, open, verdict,
                     shown, said, out, lost, opener, closes>>
  BY DEF Resume, process, prompts
<1>3. /\ n \in Machines /\ Exact(n) /\ Fit(n) /\ n.waiting = open[s]
      /\ n.state \in {"starting", "running", "detached"}
  BY <1>2, RegisteredMachine, TransitionFacts DEF States
<1> HIDE DEF n
<1>4. machine' \in [Sessions -> Machines] /\ machine'[s] = n
      /\ \A r \in Sessions \ {s} : machine'[r] = machine[r]
  BY <1>1, <1>2, <1>3 DEF TypeOK
<1>5. TypeOK'
  <2>1. lost[s] + 1 \in Nat \ {0} /\ out[s] \in Nat
    BY <1>1, <1>2 DEF TypeOK
  <2>2. Replay(s) \in Seq(Nat)
    BY <2>1, ChunksType DEF Replay
  <2> QED
    BY <1>1, <1>2, <1>4, <2>2 DEF TypeOK
<1>6. \A r \in Sessions : machine'[r].waiting = open[r]
  BY <1>1, <1>3, <1>4 DEF Questions
<1>7. TimersFit'
  BY <1>1, <1>2, <1>3, <1>4, <1>6 DEF TimersFit, Fit, Exact, TypeOK
<1>8. QuestionIsVisible'
  BY <1>1, <1>2, NamesAssumption DEF QuestionIsVisible, TypeOK
<1>9. Stages'
  <2>1. c # NoSocket /\ "new" \notin Sessions
    BY NamesAssumption, NoSocketAssumption
  <2>2. \A r \in Sessions : factory[r] # "none" =>
          opener[r] \in Sockets /\ sock'[opener[r]] \in {r, "gone"}
    BY <1>1, <1>2, <2>1 DEF Stages, TypeOK
  <2>3. \A r \in registered : client'[r] # NoSocket => sock'[client'[r]] = r
    BY <1>1, <1>2, <2>1 DEF Stages, TypeOK
  <2>4. factory[s] # "none"
    BY <1>1, <1>2 DEF Stages
  <2> QED
    BY <1>1, <1>2, <2>2, <2>3, <2>4 DEF Stages, TypeOK
<1>10. Questions'
  BY <1>1, <1>2, <1>6 DEF Questions
<1> QED
  BY <1>5, <1>7, <1>8, <1>9, <1>10 DEF IInv

\* detachSession keeps the invariant (session.registry.ts).
LEMMA DisconnectInv ==
  ASSUME IInv, NEW c \in Sockets, Disconnect(c)
  PROVE  IInv'
<1> DEFINE s == sock[c]
           n == SetWaiting(Transition(machine[s], "detached"), FALSE)
<1>1. /\ s \in Sessions /\ Gone(c) /\ Detach(c) /\ TypeOK
      /\ UNCHANGED <<process, registered, factory, driver, asked, said, out, lost, opener, closes>>
  BY DEF Disconnect, IInv
<1>2. CASE s \in registered
  <2>1. /\ client' = [client EXCEPT ![s] = NoSocket]
        /\ Settled({s}, "refused")
        /\ machine' = [machine EXCEPT ![s] = n]
    BY <1>1, <1>2 DEF Detach
  <2>2. LET m == Transition(machine[s], "detached") IN
        /\ m \in Machines /\ Exact(m) /\ Fit(m)
        /\ m.state \in {"starting", "running", "detached"}
    BY <1>2, RegisteredMachine, TransitionFacts DEF States
  <2>3. /\ n \in Machines /\ Exact(n) /\ Fit(n) /\ n.waiting = FALSE
        /\ n.state \in {"starting", "running", "detached"}
    BY <2>2, SetWaitingFacts
  <2>4. ScreensKept(registered' \ {s})
    BY <1>1, GoneKeeps
  <2>5. /\ client' \in [Sessions -> Sockets \cup {NoSocket}] /\ client'[s] = NoSocket
        /\ \A r \in Sessions \ {s} : client'[r] = client[r]
    BY <1>1, <2>1 DEF TypeOK
  <2>6. said' \subseteq Sessions \X Nat
    BY <1>1 DEF TypeOK
  <2> HIDE DEF n, s
  <2> QED
    BY <1>1, <1>2, <2>1, <2>3, <2>4, <2>5, <2>6, SettleInv
<1>3. CASE s \notin registered
  <2>1. UNCHANGED <<client, open, verdict, machine>>
    BY <1>1, <1>3 DEF Detach
  <2>2. ScreensKept(registered)
    BY <1>1, <1>3, GoneKeeps
  <2> QED
    BY <1>1, <2>1, <2>2, ScreensOnly
<1> QED
  BY <1>2, <1>3

\* PromptBroker.ask keeps the invariant, with and without somebody to ask.
LEMMA AskInv ==
  ASSUME IInv, NEW s \in Sessions, Ask(s)
  PROVE  IInv'
<1>1. TypeOK /\ TimersFit /\ QuestionIsVisible /\ Stages /\ Questions
  BY DEF IInv
<1>2. /\ factory[s] = "pending" /\ ~open[s] /\ verdict[s] # "refused"
      /\ asked' = [asked EXCEPT ![s] = @ + 1]
      /\ UNCHANGED <<phase, awaited, starts, registered, client, factory, driver, said, out, lost,
                     seen, sock, opener, closes>>
  BY DEF Ask, process, output
<1>3. /\ asked[s] \in Nat /\ asked' \in [Sessions -> Nat] /\ asked'[s] = asked[s] + 1
      /\ \A r \in Sessions \ {s} : asked'[r] = asked[r]
  BY <1>1, <1>2 DEF TypeOK
<1>4. /\ machine[s] \in Machines /\ Fit(machine[s])
      /\ open[s] \in BOOLEAN /\ machine[s].waiting = open[s]
  BY <1>1 DEF TypeOK, TimersFit, Questions, Fit
<1>5. driver[s] = "none" /\ \A p \in 1..asked[s] : <<s, p>> \in said
  <2>1. driver[s] = "none"
    BY <1>1, <1>2 DEF Stages
  <2>2. asked[s] > 0 => verdict[s] = "trusted" /\ <<s, asked[s]>> \in said
    BY <1>1, <1>2 DEF Questions, TypeOK
  <2>3. \A p \in 1..(asked[s] - 1) : <<s, p>> \in said
    BY <1>1 DEF Questions
  <2>4. ASSUME NEW p \in 1..asked[s] PROVE <<s, p>> \in said
    <3>1. CASE p = asked[s]
      BY <1>3, <2>2, <3>1
    <3>2. CASE p # asked[s]
      BY <1>3, <2>3, <3>2
    <3> QED
      BY <3>1, <3>2
  <2> QED
    BY <2>1, <2>4
<1>6. Stages'
  BY <1>1, <1>2, <1>3 DEF Stages
<1>7. CASE s \in registered /\ client[s] # NoSocket
  <2> DEFINE n == SetWaiting(machine[s], TRUE)
  <2>1. /\ open' = [open EXCEPT ![s] = TRUE]
        /\ verdict' = [verdict EXCEPT ![s] = "none"]
        /\ shown' = [shown EXCEPT ![client[s]] = @ \cup {asked[s] + 1}]
        /\ machine' = [machine EXCEPT ![s] = n]
    BY <1>7 DEF Ask
  <2>2. /\ n \in Machines /\ Fit(n) /\ n.waiting = TRUE /\ n.state = machine[s].state
        /\ Exact(n)
    BY <1>4, <1>7, RegisteredMachine, SetWaitingFacts
  <2> HIDE DEF n
  <2>3. client[s] \in Sockets /\ sock[client[s]] = s
    BY <1>1, <1>7 DEF Stages, TypeOK
  <2>4. TypeOK'
    <3>1. shown' \in [Sockets -> SUBSET Nat] /\ shown'[client[s]] = shown[client[s]] \cup {asked[s] + 1}
      BY <1>1, <1>3, <2>1, <2>3 DEF TypeOK
    <3>2. machine' \in [Sessions -> Machines] /\ open' \in [Sessions -> BOOLEAN]
      BY <1>1, <2>1, <2>2 DEF TypeOK
    <3> QED
      BY <1>1, <1>2, <1>3, <2>1, <3>1, <3>2 DEF TypeOK
  <2>5. TimersFit'
    BY <1>1, <1>2, <1>7, <2>1, <2>2 DEF TimersFit, Fit, Exact, TypeOK
  <2>6. QuestionIsVisible'
    <3> SUFFICES ASSUME NEW r \in Sessions, open'[r]
                 PROVE  /\ r \in registered /\ factory[r] = "pending"
                        /\ \E c \in Sockets : sock[c] = r /\ asked'[r] \in shown'[c]
      BY <1>2 DEF QuestionIsVisible
    <3>1. shown \in [Sockets -> SUBSET Nat]
      BY <1>1 DEF TypeOK
    <3>2. CASE r = s
      <4>1. asked'[s] \in shown'[client[s]]
        BY <1>3, <2>1, <2>3, <3>1
      <4> QED
        BY <1>2, <1>7, <2>3, <3>2, <4>1
    <3>3. CASE r # s
      <4>1. open[r]
        BY <1>1, <2>1, <3>3 DEF TypeOK
      <4>2. \A c \in Sockets : shown[c] \subseteq shown'[c]
        BY <2>1, <3>1
      <4> QED
        BY <1>1, <1>3, <3>3, <4>1, <4>2 DEF QuestionIsVisible
    <3> QED
      BY <3>2, <3>3
  <2>7. Questions'
    <3>1. ASSUME NEW r \in Sessions \ {s}
          PROVE  /\ asked'[r] = asked[r] /\ open'[r] = open[r] /\ verdict'[r] = verdict[r]
                 /\ machine'[r] = machine[r]
      BY <1>1, <1>3, <2>1 DEF TypeOK
    <3>2. /\ open'[s] = TRUE /\ verdict'[s] = "none" /\ machine'[s].waiting = TRUE
      BY <1>1, <2>1, <2>2 DEF TypeOK
    <3>3. asked'[s] - 1 = asked[s] /\ asked'[s] > 0
      BY <1>3
    <3>4. ASSUME NEW r \in Sessions
          PROVE  /\ \A p \in 1..(asked'[r] - 1) : <<r, p>> \in said
                 /\ open'[r] => verdict'[r] = "none" /\ asked'[r] > 0
                 /\ asked'[r] > 0 /\ ~open'[r] => verdict'[r] # "none"
                 /\ verdict'[r] = "trusted" => <<r, asked'[r]>> \in said
                 /\ verdict'[r] # "none" => asked'[r] > 0
                 /\ driver[r] # "none" => \A p \in 1..asked'[r] : <<r, p>> \in said
                 /\ machine'[r].waiting = open'[r]
      <4>1. CASE r = s
        BY <1>5, <3>2, <3>3, <4>1
      <4>2. CASE r # s
        BY <1>1, <3>1, <4>2 DEF Questions
      <4> QED
        BY <4>1, <4>2
    <3> QED
      BY <1>2, <3>4 DEF Questions
  <2> QED
    BY <1>6, <2>4, <2>5, <2>6, <2>7 DEF IInv
<1>8. CASE ~(s \in registered /\ client[s] # NoSocket)
  <2> DEFINE n == Armed(machine[s])
  <2>1. /\ verdict' = [verdict EXCEPT ![s] = "refused"]
        /\ machine' = [machine EXCEPT ![s] = n]
        /\ UNCHANGED <<open, shown>>
    BY <1>8 DEF Ask
  <2>2. /\ n \in Machines /\ Fit(n) /\ n.waiting = open[s] /\ n.state = machine[s].state
        /\ Exact(n)
    BY <1>4, ArmedFacts
  <2> HIDE DEF n
  <2>3. TypeOK'
    BY <1>1, <1>2, <1>3, <2>1, <2>2 DEF TypeOK
  <2>4. TimersFit'
    BY <1>1, <1>2, <2>1, <2>2 DEF TimersFit, Fit, Exact, TypeOK
  <2>5. QuestionIsVisible'
    BY <1>1, <1>2, <1>3, <2>1 DEF QuestionIsVisible
  <2>6. Questions'
    BY <1>1, <1>2, <1>3, <1>5, <2>1, <2>2 DEF Questions, TypeOK
  <2> QED
    BY <1>6, <2>3, <2>4, <2>5, <2>6 DEF IInv
<1> QED
  BY <1>7, <1>8

\* Answers and timeouts settle what is open and nothing else.
LEMMA SettledInPlace ==
  ASSUME IInv, NEW s \in registered, NEW v \in {"trusted", "refused"}, Settled({s}, v),
         machine' = [machine EXCEPT ![s] = SetWaiting(@, FALSE)],
         said \subseteq said', said' \subseteq Sessions \X Nat,
         v = "trusted" => <<s, asked[s]>> \in said',
         UNCHANGED <<process, registered, client, factory, driver, asked, shown, output, sock,
                     opener, closes>>
  PROVE  IInv'
<1> DEFINE n == SetWaiting(machine[s], FALSE)
<1>1. TypeOK /\ Stages /\ s \in Sessions
  BY DEF IInv, TypeOK
<1>2. /\ n \in Machines /\ Fit(n) /\ Exact(n) /\ n.waiting = FALSE
      /\ n.state \in {"starting", "running", "detached"}
  BY RegisteredMachine, SetWaitingFacts
<1>3. machine' = [machine EXCEPT ![s] = n]
  OBVIOUS
<1> HIDE DEF n
<1>4. ScreensKept(registered' \ {s})
  BY <1>1 DEF ScreensKept, TypeOK, output
<1>5. /\ client' \in [Sessions -> Sockets \cup {NoSocket}]
      /\ \A r \in Sessions \ {s} : client'[r] = client[r]
      /\ factory[s] = "none" => client'[s] = NoSocket
      /\ client'[s] # NoSocket => sock'[client'[s]] = s
  BY <1>1 DEF TypeOK, Stages
<1> QED
  BY <1>1, <1>2, <1>3, <1>4, <1>5, SettleInv DEF output

\* The timeout of a question keeps the invariant (prompts.ts ask).
LEMMA PromptTimesOutInv ==
  ASSUME IInv, NEW s \in Sessions, PromptTimesOut(s)
  PROVE  IInv'
<1>1. s \in registered /\ said \subseteq Sessions \X Nat
  BY DEF PromptTimesOut, IInv, QuestionIsVisible, TypeOK
<1> QED
  BY <1>1, SettledInPlace DEF PromptTimesOut

\* PromptBroker.answer keeps the invariant, be it the open question's or late.
LEMMA AnswerInv ==
  ASSUME IInv, NEW c \in Sockets, NEW s \in Sessions, NEW p \in 1..MaxPrompts,
         NEW trusts \in BOOLEAN, Answer(c, s, p, trusts)
  PROVE  IInv'
<1>1. /\ said \subseteq Sessions \X Nat /\ p \in Nat
      /\ said' = IF trusts THEN said \cup {<<s, p>>} ELSE said
      /\ UNCHANGED <<process, registered, client, factory, driver, asked, shown, output, sock,
                     opener, closes>>
  BY LimitsAssumption DEF Answer, IInv, TypeOK
<1>2. said \subseteq said' /\ said' \subseteq Sessions \X Nat
  BY <1>1
<1>3. CASE AnswersOpen(s, p)
  <2> DEFINE v == IF trusts THEN "trusted" ELSE "refused"
  <2>1. /\ s \in registered /\ p = asked[s]
        /\ Settled({s}, v)
        /\ machine' = [machine EXCEPT ![s] = SetWaiting(@, FALSE)]
    BY <1>3 DEF Answer, AnswersOpen
  <2>2. v \in {"trusted", "refused"} /\ (v = "trusted" => <<s, asked[s]>> \in said')
    BY <1>1, <2>1
  <2> HIDE DEF v
  <2> QED
    BY <1>1, <1>2, <2>1, <2>2, SettledInPlace
<1>4. CASE ~AnswersOpen(s, p)
  <2>1. UNCHANGED <<open, verdict, machine>>
    BY <1>4 DEF Answer
  <2>2. TypeOK' /\ TimersFit' /\ QuestionIsVisible' /\ Stages'
    BY <1>1, <1>2, <2>1
       DEF IInv, TypeOK, TimersFit, QuestionIsVisible, Stages, process, output
  <2>3. Questions'
    BY <1>1, <1>2, <2>1 DEF IInv, Questions
  <2> QED
    BY <2>2, <2>3 DEF IInv
<1> QED
  BY <1>3, <1>4

\* A connect that succeeds keeps the invariant (session.registry.ts start).
LEMMA FactoryResolvesInv ==
  ASSUME IInv, NEW s \in Sessions, FactoryResolves(s)
  PROVE  IInv'
<1> DEFINE n == Transition(machine[s], "running")
<1>1. TypeOK /\ TimersFit /\ QuestionIsVisible /\ Stages /\ Questions
  BY DEF IInv
<1>2. /\ factory[s] = "pending" /\ ~open[s] /\ verdict[s] # "refused"
      /\ factory' = [factory EXCEPT ![s] = "resolved"]
      /\ driver' = [driver EXCEPT ![s] = "up"]
      /\ machine' = [machine EXCEPT ![s] = n]
      /\ UNCHANGED <<phase, awaited, starts, registered, client, asked, open, verdict, shown, said,
                     out, lost, seen, sock, opener, closes>>
  BY DEF FactoryResolves, process, prompts, output
<1>3. /\ machine[s] \in Machines /\ Fit(machine[s]) /\ machine[s].waiting = open[s]
  BY <1>1 DEF TypeOK, TimersFit, Questions, Fit
<1>4. /\ n \in Machines /\ Fit(n) /\ n.waiting = open[s]
      /\ n.state \in {"running", machine[s].state}
      /\ s \in registered => Exact(n)
  BY <1>3, TransitionFacts, RegisteredMachine DEF States
<1> HIDE DEF n
<1>5. TypeOK'
  BY <1>1, <1>2, <1>4 DEF TypeOK
<1>6. TimersFit'
  BY <1>1, <1>2, <1>4 DEF TimersFit, Fit, Exact, TypeOK
<1>7. QuestionIsVisible'
  BY <1>1, <1>2 DEF QuestionIsVisible, TypeOK
<1>8. Stages'
  BY <1>1, <1>2 DEF Stages, TypeOK
<1>9. Questions'
  <2>1. \A p \in 1..asked[s] : <<s, p>> \in said
    <3>1. asked[s] \in Nat
      BY <1>1 DEF TypeOK
    <3>2. asked[s] > 0 => <<s, asked[s]>> \in said
      BY <1>1, <1>2 DEF Questions, TypeOK
    <3>3. \A p \in 1..(asked[s] - 1) : <<s, p>> \in said
      BY <1>1 DEF Questions
    <3>4. ASSUME NEW p \in 1..asked[s] PROVE <<s, p>> \in said
      <4>1. CASE p = asked[s]
        BY <3>1, <3>2, <4>1
      <4>2. CASE p # asked[s]
        BY <3>1, <3>3, <4>2
      <4> QED
        BY <4>1, <4>2
    <3> QED
      BY <3>4
  <2> QED
    BY <1>1, <1>2, <1>4, <2>1 DEF Questions, TypeOK
<1> QED
  BY <1>5, <1>6, <1>7, <1>8, <1>9 DEF IInv

\* A connect that fails keeps the invariant (session.registry.ts start, catch).
LEMMA FactoryFailsInv ==
  ASSUME IInv, NEW s \in Sessions, FactoryFails(s)
  PROVE  IInv'
<1> DEFINE n == SetWaiting(Dispose(machine[s]), FALSE)
<1>1. TypeOK /\ Stages
  BY DEF IInv
<1>2. /\ factory[s] = "pending" /\ factory' = [factory EXCEPT ![s] = "rejected"]
      /\ registered' = registered \ {s} /\ Settled({s}, "refused")
      /\ machine' = [machine EXCEPT ![s] = n]
      /\ Gone(opener[s])
      /\ UNCHANGED <<process, client, driver, asked, said, out, lost, opener, closes>>
  BY DEF FactoryFails
<1>3. machine[s] \in Machines
  BY <1>1 DEF TypeOK
<1>4. n \in Machines /\ Fit(n) /\ n.waiting = FALSE
  BY <1>3, DisposeFacts, SetWaitingFacts
<1> HIDE DEF n
<1>5. opener[s] \in Sockets /\ sock[opener[s]] \in {s, "gone"}
  BY <1>1, <1>2 DEF Stages
<1>6. ScreensKept(registered' \ {s})
  <2>1. sock[opener[s]] \notin registered' \ {s}
    BY <1>1, <1>2, <1>5, NamesAssumption DEF TypeOK
  <2> QED
    BY <1>1, <1>2, <1>5, <2>1, GoneKeeps
<1>7. /\ client' \in [Sessions -> Sockets \cup {NoSocket}]
      /\ \A r \in Sessions \ {s} : client'[r] = client[r]
      /\ said' \subseteq Sessions \X Nat
  BY <1>1, <1>2 DEF TypeOK
<1> QED
  BY <1>1, <1>2, <1>4, <1>6, <1>7, SettleInv

\* Nobody's machine and no driver has moved when closeSession is called.
LEMMA AsTheyAre ==
  ASSUME IInv, NEW S
  PROVE  MachinesByNow(S, machine) /\ DriversByNow(S, driver)
  BY DEF IInv, TypeOK, TimersFit, MachinesByNow, DriversByNow, Fit

\* A timer fires or a driver exits: the machine goes to closing first.
LEMMA ToClosing ==
  ASSUME IInv, NEW s \in Sessions
  PROVE  MachinesByNow({s} \cap registered, [machine EXCEPT ![s] = Transition(@, "closing")])
<1> DEFINE n == Transition(machine[s], "closing")
<1>1. machine \in [Sessions -> Machines] /\ \A r \in Sessions : Fit(machine[r])
  BY DEF IInv, TypeOK, TimersFit, Fit
<1>2. n \in Machines /\ Fit(n) /\ n.waiting = machine[s].waiting
  BY <1>1, TransitionFacts DEF States
<1> HIDE DEF n
<1>3. [machine EXCEPT ![s] = n] = [machine EXCEPT ![s] = Transition(@, "closing")]
  BY DEF n
<1> QED
  BY <1>1, <1>2, <1>3 DEF MachinesByNow

\* exec:close keeps the invariant (exec.service.ts).
LEMMA ExecCloseInv ==
  ASSUME IInv, NEW c \in Sockets, ExecClose(c)
  PROVE  IInv'
<1> DEFINE S == {sock[c]} \cap registered
<1>1. /\ Gone(c) /\ Close(S, machine, driver)
      /\ UNCHANGED <<process, client, factory, asked, said, out, opener>>
  BY DEF ExecClose
<1>2. TypeOK /\ S \in SUBSET registered /\ registered' = registered \ S
  BY <1>1 DEF IInv, Close
<1>3. ScreensKept(registered')
  BY <1>1, <1>2, GoneKeeps
<1>4. MachinesByNow(S, machine) /\ DriversByNow(S, driver)
  BY AsTheyAre
<1> HIDE DEF S
<1> QED
  BY <1>1, <1>2, <1>3, <1>4, CloseInv DEF process, TypeOK

\* Where no connection ends, all screens stay.
LEMMA ScreensStand ==
  ASSUME TypeOK, UNCHANGED <<sock, seen, shown>>, NEW R
  PROVE  ScreensKept(R)
  BY DEF TypeOK, ScreensKept

\* A machine of a session that is not in the map may go to closing.
LEMMA ClosingInv ==
  ASSUME IInv, NEW s \in Sessions, NEW ds,
         Close({s} \cap registered, [machine EXCEPT ![s] = Transition(@, "closing")], ds),
         DriversByNow({s} \cap registered, ds),
         UNCHANGED <<process, client, factory, asked, shown, said, out, seen, sock, opener>>
  PROVE  IInv'
<1> DEFINE ms == [machine EXCEPT ![s] = Transition(@, "closing")]
           S == {s} \cap registered
<1>1. TypeOK /\ S \in SUBSET registered
  BY DEF IInv
<1>2. MachinesByNow(S, ms)
  BY ToClosing
<1>3. ScreensKept(registered')
  BY <1>1, ScreensStand
<1> HIDE DEF ms
<1>4. Close(S, ms, ds) /\ DriversByNow(S, ds)
  BY DEF ms
<1> HIDE DEF S
<1> QED
  BY <1>1, <1>2, <1>3, <1>4, CloseInv DEF process, TypeOK

\* A timer that fires keeps the invariant (session.state.ts armFor).
LEMMA TimerFiresInv ==
  ASSUME IInv, NEW s \in Sessions, TimerFires(s)
  PROVE  IInv'
  BY AsTheyAre, ClosingInv DEF TimerFires

\* A driver that exits by itself keeps the invariant (session.registry.ts sink).
LEMMA DriverExitsInv ==
  ASSUME IInv, NEW s \in Sessions, DriverExits(s)
  PROVE  IInv'
<1>1. DriversByNow({s} \cap registered, [driver EXCEPT ![s] = "ended"])
  BY DEF IInv, TypeOK, DriverExits, DriversByNow
<1> QED
  BY <1>1, ClosingInv DEF DriverExits

\* closeAllSessions keeps the invariant (session.registry.ts).
LEMMA ShutdownInv ==
  ASSUME IInv, Shutdown
  PROVE  IInv'
<1>1. TypeOK /\ ScreensKept(registered')
  BY ScreensStand DEF IInv, Shutdown
<1>2. MachinesByNow(registered, machine) /\ DriversByNow(registered, driver)
  BY AsTheyAre
<1> QED
  BY <1>1, <1>2, CloseInv DEF Shutdown, TypeOK

\* Output keeps the invariant (session.registry.ts sink).
LEMMA DataInv ==
  ASSUME IInv, NEW s \in Sessions, Data(s)
  PROVE  IInv'
<1>1. /\ out' = [out EXCEPT ![s] = @ + 1]
      /\ \E k \in Evictions(s) : lost' = [lost EXCEPT ![s] = k]
      /\ seen' \in {seen, [seen EXCEPT ![client[s]] = Append(@, out[s] + 1)]}
      /\ UNCHANGED <<phase, awaited, starts, registered, machine, client, factory, driver, asked,
                     open, verdict, shown, said, sock, opener, closes>>
  BY DEF Data, process, prompts
<1>2. out[s] \in Nat /\ lost[s] \in Nat /\ out \in [Sessions -> Nat] /\ lost \in [Sessions -> Nat]
  BY DEF IInv, TypeOK
<1>3. out' \in [Sessions -> Nat] /\ lost' \in [Sessions -> Nat]
  BY <1>1, <1>2 DEF Evictions
<1>4. seen' \in [Sockets -> Seq(Nat)]
  <2>1. seen \in [Sockets -> Seq(Nat)]
    BY DEF IInv, TypeOK
  <2>2. client[s] \in Sockets => Append(seen[client[s]], out[s] + 1) \in Seq(Nat)
    BY <1>2, <2>1
  <2> QED
    BY <1>1, <2>1, <2>2
<1>5. TypeOK'
  BY <1>1, <1>3, <1>4 DEF IInv, TypeOK
<1>6. TimersFit' /\ QuestionIsVisible' /\ Stages' /\ Questions'
  BY <1>1 DEF IInv, TimersFit, QuestionIsVisible, Stages, Questions
<1> QED
  BY <1>5, <1>6 DEF IInv

\* The rest of closeSession, after its await, keeps the invariant.
LEMMA DriverClosedInv ==
  ASSUME IInv, NEW s \in Sessions, DriverClosed(s)
  PROVE  IInv'
<1> DEFINE n == Dispose(Transition(machine[s], "closed"))
<1>1. TypeOK /\ TimersFit /\ QuestionIsVisible /\ Stages /\ Questions
  BY DEF IInv
<1>2. /\ driver[s] = "closing" /\ driver' = [driver EXCEPT ![s] = "ended"]
      /\ machine' = [machine EXCEPT ![s] = n]
      /\ lost' = [lost EXCEPT ![s] = out[s]]
      /\ UNCHANGED <<phase, awaited, starts, registered, client, factory, asked, open, verdict,
                     shown, said, out, seen, sock, opener, closes>>
  BY DEF DriverClosed, process, prompts
<1>3. machine[s] \in Machines /\ Fit(machine[s]) /\ machine[s].waiting = open[s]
  BY <1>1 DEF TypeOK, TimersFit, Questions, Fit
<1>4. n \in Machines /\ Fit(n) /\ n.waiting = open[s]
  BY <1>3, TransitionFacts, DisposeFacts DEF States
<1> HIDE DEF n
<1>5. s \notin registered
  BY <1>1, <1>2 DEF Stages
<1>6. TypeOK'
  BY <1>1, <1>2, <1>4 DEF TypeOK
<1>7. TimersFit'
  BY <1>1, <1>2, <1>4, <1>5 DEF TimersFit, Fit, TypeOK
<1>8. QuestionIsVisible' /\ Stages'
  BY <1>1, <1>2, <1>5 DEF QuestionIsVisible, Stages, TypeOK
<1>9. Questions'
  BY <1>1, <1>2, <1>4 DEF Questions, TypeOK
<1> QED
  BY <1>6, <1>7, <1>8, <1>9 DEF IInv

\* The minute's end of a start and the exit of the process keep the invariant.
LEMMA ProcessInv ==
  ASSUME IInv, StartForgotten \/ Exit
  PROVE  IInv'
<1>1. /\ phase' \in {"up", "stopping", "exited"} /\ starts' \in 0..MaxStarts
      /\ UNCHANGED <<awaited, registered, machine, client, factory, driver, asked, open, verdict,
                     shown, said, out, lost, seen, sock, opener, closes>>
  BY LimitsAssumption DEF StartForgotten, Exit, IInv, TypeOK, prompts, output
<1> QED
  BY <1>1 DEF IInv, TypeOK, TimersFit, QuestionIsVisible, Stages, Questions

-----------------------------------------------------------------------------
\* The invariant holds of an empty registry.
LEMMA InitInv == Init => IInv
<1> SUFFICES ASSUME Init PROVE IInv
  OBVIOUS
<1>1. Dispose(Fresh) \in Machines /\ Dispose(Fresh).timer = "none" /\ Dispose(Fresh).waiting = FALSE
  BY FreshFacts DEF Dispose, Machines, Timers
<1>2. 0 \in 0..MaxStarts /\ <<>> \in Seq(Nat)
  BY LimitsAssumption
<1>3. TypeOK
  BY <1>1, <1>2 DEF Init, TypeOK
<1>4. TimersFit /\ QuestionIsVisible
  <2>1. registered = {} /\ \A s \in Sessions : machine[s].timer = "none" /\ open[s] = FALSE
    BY <1>1 DEF Init
  <2> QED
    BY <2>1 DEF TimersFit, QuestionIsVisible
<1>6. Stages
  BY <1>1 DEF Init, Stages
<1>7. Questions
  <2> SUFFICES ASSUME NEW s \in Sessions
               PROVE  /\ \A p \in 1..(asked[s] - 1) : <<s, p>> \in said
                      /\ ~open[s] /\ verdict[s] = "none" /\ driver[s] = "none"
                      /\ asked[s] = 0 /\ machine[s].waiting = open[s]
    BY DEF Questions
  <2>1. asked[s] = 0 /\ open[s] = FALSE /\ verdict[s] = "none" /\ driver[s] = "none"
    BY DEF Init
  <2>2. machine[s].waiting = FALSE
    BY <1>1 DEF Init
  <2>3. machine[s].waiting = open[s]
    BY <2>1, <2>2, Zenon
  <2>4. \A p \in 1..(asked[s] - 1) : <<s, p>> \in said
    BY <2>1
  <2> QED
    BY <2>1, <2>3, <2>4
<1> QED
  BY <1>3, <1>4, <1>6, <1>7 DEF IInv

\* A step that changes nothing keeps the invariant.
LEMMA StutterInv == IInv /\ UNCHANGED vars => IInv'
  BY DEF IInv, TypeOK, TimersFit, QuestionIsVisible, Stages, Questions,
         vars, process, prompts, output

\* Every step keeps the invariant, one action after the other.
LEMMA NextInv == IInv /\ [Next]_vars => IInv'
<1> SUFFICES ASSUME IInv, [Next]_vars PROVE IInv'
  OBVIOUS
<1>1. ASSUME NEW c \in Sockets, SocketStep(c)
      PROVE  IInv'
  BY <1>1, OpenInv, ResumeInv, TurnAwayInv, DisconnectInv, ExecCloseInv, AnswerInv DEF SocketStep
<1>2. ASSUME NEW s \in Sessions, SessionStep(s)
      PROVE  IInv'
  BY <1>2, AskInv, PromptTimesOutInv, FactoryResolvesInv, FactoryFailsInv, DataInv,
     DriverExitsInv, DriverClosedInv, TimerFiresInv DEF SessionStep
<1> QED
  BY <1>1, <1>2, ProcessInv, ShutdownInv, StutterInv DEF Next

\* The inductive invariant holds of every behaviour of the registry.
THEOREM Invariant == Spec => []IInv
  BY InitInv, NextInv, PTL DEF Spec

\* Every variable of the registry keeps to its type; the starts counted for the
\* last minute stay within the limit that admitStart sets.
THEOREM TypesKept == Spec => []TypeOK
<1>1. IInv => TypeOK
  BY DEF IInv
<1> QED
  BY <1>1, Invariant, PTL

\* Every session in the map has the timer its state asks for, and a question
\* with a timer of its own instead while a person is asked (session.state.ts).
THEOREM TimersAlwaysFit == Spec => []TimersFit
<1>1. IInv => TimersFit
  BY DEF IInv
<1> QED
  BY <1>1, Invariant, PTL

\* No driver waits for the answer to a question that is on no connected
\* screen (prompts.ts abandon).
THEOREM QuestionsAreVisible == Spec => []QuestionIsVisible
<1>1. IInv => QuestionIsVisible
  BY DEF IInv
<1> QED
  BY <1>1, Invariant, PTL

\* A connect that asked goes on only with a person's trust in answer to every
\* one of its questions (prompts.ts, ssh/connect.ts approveHostKey).
THEOREM SilenceIsNeverConsent == Spec => []TrustIsExplicit
<1>1. IInv => TrustIsExplicit
  BY DEF IInv, Questions, TrustIsExplicit
<1> QED
  BY <1>1, Invariant, PTL

\* closeSession reaches a driver at most once, whatever races to close it
\* (session.registry.ts closeSession).
THEOREM DriversCloseOnce == Spec => []ClosedOnce
<1>1. IInv => ClosedOnce
  BY DEF IInv, Stages, ClosedOnce
<1> QED
  BY <1>1, Invariant, PTL

-----------------------------------------------------------------------------
(* The screens.  IInv says who holds a session; what a holder has seen     *)
(* needs three facts more: a new connection has seen nothing, the buffer   *)
(* drops no more than there was, and of a session in the map it has the    *)
(* last chunk.                                                             *)

Kept(s) ==
    /\ lost[s] <= out[s]
    /\ factory[s] = "none" => out[s] = 0
    /\ s \in registered => lost[s] < out[s] \/ out[s] = 0

Since(s, c, k) ==
    /\ seen[c] = Chunks(k + 1, out[s])
    /\ s \in registered => k <= lost[s] /\ (k < out[s] \/ out[s] = 0)

Shows(s) ==
    client[s] # NoSocket /\ sock[client[s]] = s => \E k \in 0..out[s] : Since(s, client[s], k)

ScreenInv ==
    /\ \A c \in Sockets : sock[c] = "new" => seen[c] = <<>>
    /\ \A s \in Sessions : Kept(s) /\ Shows(s)

\* One chunk more is the next of the consecutive numbers.
LEMMA ChunksAppend ==
  ASSUME NEW k \in Nat, NEW n \in Nat, k <= n
  PROVE  Append(Chunks(k + 1, n), n + 1) = Chunks(k + 1, n + 1)
<1> DEFINE a == Chunks(k + 1, n)
           b == Chunks(k + 1, n + 1)
<1>1. a \in Seq(Nat) /\ b \in Seq(Nat)
  BY ChunksType
<1>2. n - k \in Nat /\ n + 1 - k \in Nat
  OBVIOUS
<1>3. /\ DOMAIN a = 1..(n - k) /\ \A i \in 1..(n - k) : a[i] = k + i
      /\ DOMAIN b = 1..(n + 1 - k) /\ \A i \in 1..(n + 1 - k) : b[i] = k + i
  BY <1>2 DEF Chunks
<1> HIDE DEF a, b
<1>4. Len(a) = n - k /\ Len(b) = n + 1 - k
  BY <1>1, <1>2, <1>3
<1>5. /\ Append(a, n + 1) \in Seq(Nat) /\ Len(Append(a, n + 1)) = n + 1 - k
      /\ \A i \in 1..(n - k) : Append(a, n + 1)[i] = a[i]
      /\ Append(a, n + 1)[n + 1 - k] = n + 1
  BY <1>1, <1>2, <1>4
<1>6. \A i \in 1..(n + 1 - k) : Append(a, n + 1)[i] = b[i]
  BY <1>2, <1>3, <1>5
<1>7. Append(a, n + 1) = b
  BY <1>1, <1>4, <1>5, <1>6
<1> QED
  BY <1>7 DEF a, b

\* No chunks make an empty screen.
LEMMA NoChunks == Chunks(1, 0) = <<>>
<1>1. Chunks(1, 0) \in Seq(Nat)
  BY ChunksType
<1>2. DOMAIN Chunks(1, 0) = 1..0
  BY DEF Chunks
<1> QED
  BY <1>1, <1>2

\* Connections that end, sessions that leave the map and buffers that are
\* cleared with them leave what the other holders see.
LEMMA ScreensStay ==
  ASSUME IInv, ScreenInv, UNCHANGED out, registered' \subseteq registered,
         \A c \in Sockets : sock'[c] = "gone" \/ (sock'[c] = sock[c] /\ seen'[c] = seen[c]),
         \A s \in Sessions : /\ lost'[s] = lost[s] \/ (lost'[s] = out[s] /\ s \notin registered')
                             /\ client'[s] \in {client[s], NoSocket}
                             /\ factory'[s] = "none" => factory[s] = "none"
  PROVE  ScreenInv'
<1>1. /\ \A s \in Sessions : client[s] \in Sockets \cup {NoSocket} /\ out[s] \in Nat /\ lost[s] \in Nat
      /\ "gone" \notin Sessions
  BY NamesAssumption DEF IInv, TypeOK
<1>2. \A c \in Sockets : sock'[c] = "new" => seen'[c] = <<>>
  BY DEF ScreenInv
<1>3. ASSUME NEW s \in Sessions PROVE Kept(s)'
  BY <1>1 DEF ScreenInv, Kept
<1>4. ASSUME NEW s \in Sessions PROVE Shows(s)'
  <2> DEFINE c == client[s]
  <2>1. SUFFICES ASSUME client'[s] # NoSocket, sock'[client'[s]] = s
                 PROVE  \E k \in 0..out[s] : Since(s, client[s], k)'
    BY <1>1 DEF Shows
  <2>2. /\ client'[s] = c /\ c \in Sockets /\ c # NoSocket
        /\ sock[c] = s /\ seen'[c] = seen[c]
    BY <1>1, <2>1
  <2>3. PICK k \in 0..out[s] : Since(s, c, k)
    BY <2>2 DEF ScreenInv, Shows
  <2>4. s \in registered' => s \in registered /\ lost'[s] = lost[s]
    OBVIOUS
  <2>5. Since(s, c, k)'
    BY <2>2, <2>3, <2>4 DEF Since
  <2> QED
    BY <2>2, <2>5
<1> QED
  BY <1>2, <1>3, <1>4 DEF ScreenInv

\* A connection that opens a session has an empty screen, as has the session
\* (session.registry.ts start).
LEMMA OpenScreen ==
  ASSUME IInv, ScreenInv, NEW c \in Sockets, NEW s \in Sessions, Open(c, s)
  PROVE  ScreenInv'
<1>1. /\ sock[c] = "new" /\ factory[s] = "none"
      /\ registered' = registered \cup {s}
      /\ client' = [client EXCEPT ![s] = c] /\ factory' = [factory EXCEPT ![s] = "pending"]
      /\ sock' = [sock EXCEPT ![c] = s] /\ UNCHANGED <<out, lost, seen>>
  BY DEF Open, output
<1>2. /\ client \in [Sessions -> Sockets \cup {NoSocket}] /\ sock \in [Sockets -> Sessions \cup {"new", "gone"}]
      /\ \A r \in Sessions : out[r] \in Nat /\ lost[r] \in Nat /\ factory \in [Sessions -> {"none", "pending", "resolved", "rejected"}]
      /\ "new" \notin Sessions
  BY NamesAssumption DEF IInv, TypeOK
<1>3. out[s] = 0 /\ lost[s] = 0 /\ seen[c] = <<>>
  BY <1>1, <1>2 DEF ScreenInv, Kept
<1>4. \A d \in Sockets : sock'[d] = "new" => seen'[d] = <<>>
  BY <1>1, <1>2 DEF ScreenInv
<1>5. ASSUME NEW r \in Sessions PROVE Kept(r)'
  BY <1>1, <1>2, <1>3 DEF ScreenInv, Kept
<1>6. Shows(s)'
  <2>1. Since(s, c, 0)'
    BY <1>1, <1>3, NoChunks DEF Since
  <2> QED
    BY <1>1, <1>2, <1>3, <2>1 DEF Shows
<1>7. ASSUME NEW r \in Sessions, r # s PROVE Shows(r)'
  <2>1. client'[r] = client[r] /\ (r \in registered' <=> r \in registered)
    BY <1>1, <1>2, <1>7
  <2>2. CASE client[r] \in Sockets /\ client[r] # c
    BY <1>1, <1>2, <2>1, <2>2 DEF ScreenInv, Shows, Since
  <2>3. CASE client[r] = c
    BY <1>1, <1>2, <1>7, <2>1, <2>3 DEF Shows
  <2> QED
    BY <1>2, <2>1, <2>2, <2>3 DEF Shows
<1> QED
  BY <1>4, <1>5, <1>6, <1>7 DEF ScreenInv

\* A connection that picks a session up is sent what the buffer has, which is
\* its last chunk at least (session.registry.ts resume).
LEMMA ResumeScreen ==
  ASSUME IInv, ScreenInv, NEW c \in Sockets, NEW s \in Sessions, Resume(c, s)
  PROVE  ScreenInv'
<1>1. /\ sock[c] = "new" /\ s \in registered
      /\ client' = [client EXCEPT ![s] = c]
      /\ seen' = [seen EXCEPT ![c] = Replay(s)] /\ sock' = [sock EXCEPT ![c] = s]
      /\ UNCHANGED <<registered, factory, out, lost>>
  BY DEF Resume
<1>2. /\ client \in [Sessions -> Sockets \cup {NoSocket}] /\ sock \in [Sockets -> Sessions \cup {"new", "gone"}]
      /\ seen \in [Sockets -> Seq(Nat)]
      /\ \A r \in Sessions : out[r] \in Nat /\ lost[r] \in Nat
      /\ "new" \notin Sessions
  BY NamesAssumption DEF IInv, TypeOK
<1>3. \A d \in Sockets : sock'[d] = "new" => seen'[d] = <<>>
  BY <1>1, <1>2 DEF ScreenInv
<1>4. ASSUME NEW r \in Sessions PROVE Kept(r)'
  BY <1>1 DEF ScreenInv, Kept
<1>5. Shows(s)'
  <2>1. Kept(s)
    BY DEF ScreenInv
  <2>2. Since(s, c, lost[s])'
    BY <1>1, <1>2, <2>1 DEF Since, Replay, Kept
  <2>3. lost[s] \in 0..out'[s]
    BY <1>1, <1>2, <2>1 DEF Kept
  <2> QED
    BY <1>1, <1>2, <2>2, <2>3 DEF Shows
<1>6. ASSUME NEW r \in Sessions, r # s PROVE Shows(r)'
  <2>1. client'[r] = client[r]
    BY <1>1, <1>2, <1>6
  <2>2. CASE client[r] \in Sockets /\ client[r] # c
    BY <1>1, <1>2, <2>1, <2>2 DEF ScreenInv, Shows, Since
  <2>3. CASE client[r] = c
    BY <1>1, <1>2, <1>6, <2>1, <2>3 DEF Shows
  <2> QED
    BY <1>2, <2>1, <2>2, <2>3 DEF Shows
<1> QED
  BY <1>3, <1>4, <1>5, <1>6 DEF ScreenInv

\* A chunk goes to the holder's screen and to the buffer, which never drops it
\* at once (session.registry.ts sink, ringBuffer.ts evict).
LEMMA DataScreen ==
  ASSUME IInv, ScreenInv, NEW s \in Sessions, Data(s)
  PROVE  ScreenInv'
<1> DEFINE c == client[s]
           held == c # NoSocket /\ sock[c] = s
<1>1. /\ out' = [out EXCEPT ![s] = @ + 1]
      /\ factory[s] = "pending" \/ driver[s] \in {"up", "closing"}
      /\ seen' = IF held THEN [seen EXCEPT ![c] = Append(@, out[s] + 1)] ELSE seen
      /\ UNCHANGED <<registered, client, factory, sock>>
  BY DEF Data
<1>2. PICK e \in lost[s]..out[s] : lost' = [lost EXCEPT ![s] = e]
  BY DEF Data, Evictions
<1>3. /\ client \in [Sessions -> Sockets \cup {NoSocket}] /\ sock \in [Sockets -> Sessions \cup {"new", "gone"}]
      /\ seen \in [Sockets -> Seq(Nat)] /\ out \in [Sessions -> Nat] /\ lost \in [Sessions -> Nat]
      /\ "new" \notin Sessions
  BY NamesAssumption DEF IInv, TypeOK
<1>4. /\ out'[s] = out[s] + 1 /\ lost'[s] = e /\ e >= lost[s] /\ e <= out[s] /\ e \in Nat
      /\ \A r \in Sessions \ {s} : out'[r] = out[r] /\ lost'[r] = lost[r]
  BY <1>1, <1>2, <1>3
<1>5. factory[s] # "none"
  BY <1>1 DEF IInv, Stages
<1>6. \A d \in Sockets : sock'[d] = "new" => seen'[d] = <<>>
  BY <1>1, <1>3 DEF ScreenInv
<1>7. ASSUME NEW r \in Sessions PROVE Kept(r)'
  <2>1. CASE r = s
    BY <1>1, <1>3, <1>4, <1>5, <2>1 DEF Kept
  <2>2. CASE r # s
    BY <1>1, <1>4, <2>2 DEF ScreenInv, Kept
  <2> QED
    BY <2>1, <2>2
<1>8. Shows(s)'
  <2> SUFFICES ASSUME held
               PROVE  \E k \in 0..out'[s] : Since(s, c, k)'
    BY <1>1 DEF Shows
  <2>1. PICK k \in 0..out[s] : Since(s, c, k)
    BY DEF ScreenInv, Shows
  <2>2. c \in Sockets /\ seen'[c] = Append(seen[c], out[s] + 1)
    BY <1>1, <1>3
  <2>3. seen'[c] = Chunks(k + 1, out[s] + 1)
    <3>1. k \in Nat /\ out[s] \in Nat /\ k <= out[s]
      BY <1>3
    <3>2. Append(Chunks(k + 1, out[s]), out[s] + 1) = Chunks(k + 1, out[s] + 1)
      BY <3>1, ChunksAppend
    <3> QED
      BY <2>1, <2>2, <3>2 DEF Since
  <2>4. k <= lost[s] => k <= lost'[s] /\ k < out'[s]
    BY <1>3, <1>4, <2>1
  <2>5. Since(s, c, k)'
    BY <1>1, <1>4, <2>1, <2>3, <2>4 DEF Since
  <2>6. k \in 0..out'[s]
    BY <1>3, <1>4
  <2> QED
    BY <1>1, <2>5, <2>6
<1>9. ASSUME NEW r \in Sessions, r # s PROVE Shows(r)'
  <2> SUFFICES ASSUME client[r] # NoSocket, sock[client[r]] = r
               PROVE  \E k \in 0..out'[r] : Since(r, client[r], k)'
    BY <1>1 DEF Shows
  <2>1. client[r] \in Sockets /\ seen'[client[r]] = seen[client[r]]
    BY <1>1, <1>3, <1>9
  <2>2. PICK k \in 0..out[r] : Since(r, client[r], k)
    BY DEF ScreenInv, Shows
  <2>3. Since(r, client[r], k)'
    BY <1>1, <1>4, <1>9, <2>1, <2>2 DEF Since
  <2> QED
    BY <1>1, <1>4, <1>9, <2>2, <2>3
<1> QED
  BY <1>6, <1>7, <1>8, <1>9 DEF ScreenInv

\* closeSession empties only the buffers of what it takes from the map.
LEMMA CloseScreens ==
  ASSUME IInv, ScreenInv, NEW S \in SUBSET registered, NEW ms, NEW ds, Close(S, ms, ds),
         UNCHANGED <<client, factory, out>>,
         \A c \in Sockets : sock'[c] = "gone" \/ (sock'[c] = sock[c] /\ seen'[c] = seen[c])
  PROVE  ScreenInv'
<1>1. registered' = registered \ S
  BY DEF Close
<1>2. \A s \in Sessions : lost'[s] = lost[s] \/ (s \in S /\ lost'[s] = out[s])
  BY Zenon DEF Close, Finish
<1> QED
  BY <1>1, <1>2, ScreensStay

\* A connection that ends changes no other's screen.
LEMMA GoneScreen ==
  ASSUME IInv, NEW c \in Sockets, Gone(c)
  PROVE  \A d \in Sockets : sock'[d] = "gone" \/ (sock'[d] = sock[d] /\ seen'[d] = seen[d])
  BY DEF IInv, TypeOK, Gone

\* Every step keeps the screens, one action after the other.
LEMMA ScreenStep == IInv /\ ScreenInv /\ [Next]_vars => ScreenInv'
<1> SUFFICES ASSUME IInv, ScreenInv, [Next]_vars PROVE ScreenInv'
  OBVIOUS
<1>1. ASSUME NEW c \in Sockets, SocketStep(c)
      PROVE  ScreenInv'
  <2>1. ASSUME NEW s \in Sessions, NEW attach \in BOOLEAN, TurnAway(c, s, attach)
        PROVE  ScreenInv'
    BY <2>1, ScreensStay DEF TurnAway, output, IInv, TypeOK
  <2>2. CASE Disconnect(c)
    <3>1. \A s \in Sessions : client'[s] \in {client[s], NoSocket}
      BY <2>2 DEF Disconnect, Detach, IInv, TypeOK
    <3> QED
      BY <2>2, <3>1, GoneScreen, ScreensStay DEF Disconnect
  <2>3. CASE ExecClose(c)
    BY <2>3, GoneScreen, CloseScreens DEF ExecClose
  <2>4. ASSUME NEW s \in Sessions, NEW p, NEW trusts, Answer(c, s, p, trusts)
        PROVE  ScreenInv'
    BY <2>4, ScreensStay DEF Answer, output
  <2> QED
    BY <1>1, <2>1, <2>2, <2>3, <2>4, OpenScreen, ResumeScreen DEF SocketStep
<1>2. ASSUME NEW s \in Sessions, SessionStep(s)
      PROVE  ScreenInv'
  <2>1. CASE Ask(s) \/ PromptTimesOut(s)
    BY <2>1, ScreensStay DEF Ask, PromptTimesOut, output
  <2>2. CASE FactoryResolves(s)
    BY <2>2, ScreensStay DEF FactoryResolves, output, IInv, TypeOK
  <2>3. CASE FactoryFails(s)
    <3>1. opener[s] \in Sockets
      BY <2>3 DEF FactoryFails, IInv, Stages
    <3>2. /\ Gone(opener[s]) /\ registered' \subseteq registered /\ UNCHANGED <<client, out, lost>>
          /\ factory' = [factory EXCEPT ![s] = "rejected"]
      BY <2>3 DEF FactoryFails
    <3> QED
      BY <3>1, <3>2, GoneScreen, ScreensStay DEF IInv, TypeOK
  <2>4. CASE DriverExits(s) \/ TimerFires(s)
    BY <2>4, CloseScreens DEF DriverExits, TimerFires
  <2>5. CASE DriverClosed(s)
    <3>1. s \notin registered
      BY <2>5 DEF DriverClosed, IInv, Stages
    <3> QED
      BY <2>5, <3>1, ScreensStay DEF DriverClosed, IInv, TypeOK
  <2> QED
    BY <1>2, <2>1, <2>2, <2>3, <2>4, <2>5, DataScreen DEF SessionStep
<1>3. CASE StartForgotten \/ Exit \/ UNCHANGED vars
  BY <1>3, ScreensStay DEF StartForgotten, Exit, vars, output
<1>4. CASE Shutdown
  BY <1>4, CloseScreens DEF Shutdown
<1> QED
  BY <1>1, <1>2, <1>3, <1>4 DEF Next

\* Whoever holds a session sees all of its output since some point, in order,
\* its last chunk included, for any number of chunks and however the buffer
\* evicts (session.registry.ts resume, sink; ringBuffer.ts).
THEOREM ScreensShowTheOutput == Spec => []ScreenIsOutput
<1>1. Init => ScreenInv
  BY DEF Init, ScreenInv, Kept, Shows
<1>2. ScreenInv => ScreenIsOutput
  BY DEF ScreenInv, Shows, Since, ScreenIsOutput
<1> QED
  BY <1>1, <1>2, ScreenStep, Invariant, PTL DEF Spec
=============================================================================
