------------------------ MODULE TerminalTabsProofs ------------------------
(***************************************************************************)
(* Proofs about TerminalTabs, for any number of windows, sessions and      *)
(* connections.  The registry's invariant holds under the tabs as well,    *)
(* because each of their steps is one of the registry's or none of its     *)
(* business; on it rests what is said here of the connections.             *)
(***************************************************************************)
EXTENDS TerminalTabs, ExecRegistryProofs

USE NoCallAssumption

Statuses == {"none", "connecting", "awaiting-prompt", "ready", "exited", "errored"}
Going    == {<<"ready">>} \cup ({"prompt"} \X Nat)
Messages == Going \cup {<<"error">>, <<"exit">>, <<"bye">>}

TabTypes ==
    /\ tab \in [Windows -> [Sessions -> Statuses]]
    /\ prompt \in [Windows -> [Sessions -> Nat]]
    /\ line \in [Windows -> [Sessions -> Sockets \cup {NoSocket}]]
    /\ targets \in [Windows -> SUBSET Sessions] /\ noted \subseteq Sessions
    /\ call \in [Sockets -> Calls \cup {NoCall}]
    /\ end \in [Sockets -> {"unused", "on", "left", "refused"}]
    /\ wire \in [Sockets -> Seq(Messages)]
    /\ wanted \subseteq Sockets

(* What a session's client, a socket's session and its questions are of.   *)
Held == \A s \in Sessions : client[s] # NoSocket => sock[client[s]] \in {s, "gone"}
Opened == \A c \in Sockets : sock[c] \in Sessions => factory[sock[c]] # "none"
ShownPast == \A c \in Sockets : \A p \in shown[c] : sock[c] \in Sessions /\ p <= asked[sock[c]]

(* A connection from its handshake on: of one session all its life, the    *)
(* line of its tab while the client keeps it, and with nothing to hear of  *)
(* before it stands.                                                       *)
Handshake(c) ==
    /\ call[c] = NoCall <=> end[c] = "unused"
    /\ end[c] = "unused" => sock[c] = "new"
    /\ sock[c] \in Sessions => call[c].id = sock[c] /\ end[c] \in {"on", "left"}
    /\ call[c] # NoCall /\ ~call[c].attach => c \in wanted

Standing(c) ==
    /\ sock[c] = "new" => wire[c] = <<>>
    /\ end[c] = "on" => line[call[c].by][call[c].id] = c
    /\ end[c] = "on" /\ sock[c] = "new" => tab[call[c].by][call[c].id] = "connecting"

(* While a session connects, nothing on the way to a tab of it ends the    *)
(* tab.                                                                    *)
Hopeful(c) ==
    end[c] = "on" /\ sock[c] \in registered /\ factory[sock[c]] = "pending" =>
        /\ tab[call[c].by][call[c].id] \in {"connecting", "awaiting-prompt", "ready"}
        /\ \A i \in 1..Len(wire[c]) : wire[c][i] \in Going

(* A question that is open and was sent on a connection is the last thing  *)
(* sent on it.                                                             *)
OnTheWay(c) == wire[c] # <<>> /\ wire[c][Len(wire[c])] = <<"prompt", asked[sock[c]]>>
Seen(c) ==
    /\ wire[c] = <<>>
    /\ \/ /\ tab[call[c].by][call[c].id] = "awaiting-prompt"
          /\ prompt[call[c].by][call[c].id] = asked[sock[c]]
       \/ \E t \in BOOLEAN : <<"answer", c, asked[sock[c]], t>> \in sent
Questioned(c) ==
    end[c] = "on" /\ sock[c] \in Sessions /\ open[sock[c]] /\ asked[sock[c]] \in shown[c] =>
        OnTheWay(c) \/ Seen(c)

(* A session is started by a connection made for it on request.            *)
Started == \A s \in Sessions : factory[s] # "none" =>
              /\ call[opener[s]] # NoCall /\ call[opener[s]].id = s
              /\ opener[s] \in wanted

TabInv == /\ TabTypes /\ Held /\ Opened /\ ShownPast /\ Started
          /\ \A c \in Sockets : Handshake(c) /\ Standing(c) /\ Hopeful(c) /\ Questioned(c)

-----------------------------------------------------------------------------
(* Sockets, clients and questions in a step of the registry.               *)

\* A socket is new, then of one session, then gone.
LEMMA SocketLife ==
  ASSUME TypeOK, Stages, [Next]_vars, NEW c \in Sockets
  PROVE  \/ sock'[c] = sock[c]
         \/ sock[c] = "new" /\ sock'[c] \in Sessions
         \/ sock'[c] = "gone" /\ shown'[c] = {} /\ sock[c] # "new"
         \/ sock'[c] = "gone" /\ shown'[c] = shown[c] /\ sock[c] = "new"
<1> USE DEF TypeOK
<1>1. ASSUME NEW d \in Sockets, NEW s \in Sessions, Open(d, s) \/ Resume(d, s)
      PROVE  sock'[c] = sock[c] \/ (sock[c] = "new" /\ sock'[c] \in Sessions)
  BY <1>1 DEF Open, Resume
<1>2. ASSUME NEW d \in Sockets, NEW s \in Sessions, NEW a \in BOOLEAN, TurnAway(d, s, a)
      PROVE  sock'[c] = sock[c] \/ (sock[c] = "new" /\ sock'[c] = "gone" /\ shown'[c] = shown[c])
  BY <1>2 DEF TurnAway, prompts
<1>3. ASSUME NEW d \in Sockets, Disconnect(d) \/ ExecClose(d)
      PROVE  sock'[c] = sock[c] \/ (sock'[c] = "gone" /\ shown'[c] = {} /\ sock[c] # "new")
  <2>1. Gone(d) /\ sock[d] \in Sessions
    BY <1>3 DEF Disconnect, ExecClose
  <2> QED BY <2>1, NamesAssumption DEF Gone
<1>4. ASSUME NEW s \in Sessions, FactoryFails(s)
      PROVE  sock'[c] = sock[c] \/ (sock'[c] = "gone" /\ shown'[c] = {} /\ sock[c] # "new")
  <2>1. opener[s] \in Sockets /\ sock[opener[s]] \in {s, "gone"} /\ Gone(opener[s])
    BY <1>4 DEF FactoryFails, Stages
  <2> QED BY <2>1, NamesAssumption DEF Gone
<1>5. ASSUME NEW d \in Sockets, NEW s \in Sessions, NEW p \in 1..MaxPrompts,
             NEW trusts \in BOOLEAN, Answer(d, s, p, trusts)
      PROVE  sock' = sock
  BY <1>5 DEF Answer
<1>6. ASSUME NEW s \in Sessions,
             \/ Ask(s) \/ PromptTimesOut(s) \/ FactoryResolves(s)
             \/ Data(s) \/ DriverExits(s) \/ DriverClosed(s) \/ TimerFires(s)
      PROVE  sock' = sock
  BY <1>6 DEF Ask, PromptTimesOut, FactoryResolves, Data, DriverExits,
     DriverClosed, TimerFires
<1>7. ASSUME StartForgotten \/ Shutdown \/ Exit \/ UNCHANGED vars PROVE sock' = sock
  BY <1>7 DEF StartForgotten, Shutdown, Exit, vars
<1> QED
  BY <1>1, <1>2, <1>3, <1>4, <1>5, <1>6, <1>7 DEF Next, SocketStep, SessionStep

\* A session's client stays, leaves, or is a socket that has just come.
LEMMA ClientLife ==
  ASSUME TypeOK, [Next]_vars, NEW s \in Sessions
  PROVE  \/ client'[s] = client[s] \/ client'[s] = NoSocket
         \/ client'[s] \in Sockets /\ sock'[client'[s]] = s
<1> USE DEF TypeOK
<1>1. ASSUME NEW d \in Sockets, NEW t \in Sessions, Open(d, t) \/ Resume(d, t)
      PROVE  client'[s] = client[s] \/ (client'[s] \in Sockets /\ sock'[client'[s]] = s)
  BY <1>1 DEF Open, Resume
<1>2. ASSUME NEW d \in Sockets, Disconnect(d)
      PROVE  client'[s] = client[s] \/ client'[s] = NoSocket
  BY <1>2 DEF Disconnect, Detach
<1>3. ASSUME NEW d \in Sockets, NEW t \in Sessions, NEW a \in BOOLEAN,
             TurnAway(d, t, a) \/ ExecClose(d)
      PROVE  client' = client
  BY <1>3 DEF TurnAway, ExecClose
<1>4. ASSUME NEW d \in Sockets, NEW t \in Sessions, NEW p \in 1..MaxPrompts,
             NEW trusts \in BOOLEAN, Answer(d, t, p, trusts)
      PROVE  client' = client
  BY <1>4 DEF Answer
<1>5. ASSUME NEW t \in Sessions, SessionStep(t)
      PROVE  client' = client
  BY <1>5 DEF SessionStep, Ask, PromptTimesOut, FactoryResolves, FactoryFails, Data,
              DriverExits, DriverClosed, TimerFires
<1>6. ASSUME StartForgotten \/ Shutdown \/ Exit \/ UNCHANGED vars PROVE client' = client
  BY <1>6 DEF StartForgotten, Shutdown, Exit, vars
<1> QED
  BY <1>1, <1>2, <1>3, <1>4, <1>5, <1>6 DEF Next, SocketStep

\* A socket is shown nothing more, loses its screen, or is shown the question
\* just asked in its session.
LEMMA ShownLife ==
  ASSUME TypeOK, Stages, [Next]_vars, NEW c \in Sockets
  PROVE  \/ shown'[c] = shown[c] \/ shown'[c] = {}
         \/ /\ sock[c] \in Sessions /\ sock'[c] = sock[c]
            /\ asked'[sock[c]] = asked[sock[c]] + 1
            /\ shown'[c] = shown[c] \cup {asked[sock[c]] + 1}
<1> USE DEF TypeOK
<1>1. ASSUME NEW d \in Sockets, NEW t \in Sessions, NEW a \in BOOLEAN,
             Open(d, t) \/ Resume(d, t) \/ TurnAway(d, t, a)
      PROVE  shown' = shown
  BY <1>1 DEF Open, Resume, TurnAway, prompts
<1>2. ASSUME NEW d \in Sockets, Disconnect(d) \/ ExecClose(d)
      PROVE  shown'[c] = shown[c] \/ shown'[c] = {}
  BY <1>2 DEF Disconnect, ExecClose, Gone
<1>3. ASSUME NEW t \in Sessions, FactoryFails(t)
      PROVE  shown'[c] = shown[c] \/ shown'[c] = {}
  BY <1>3 DEF FactoryFails, Gone
<1>4. ASSUME NEW d \in Sockets, NEW t \in Sessions, NEW p \in 1..MaxPrompts,
             NEW trusts \in BOOLEAN, Answer(d, t, p, trusts)
      PROVE  shown' = shown
  BY <1>4 DEF Answer
<1>5. ASSUME NEW t \in Sessions,
             \/ PromptTimesOut(t) \/ FactoryResolves(t)
             \/ Data(t) \/ DriverExits(t) \/ DriverClosed(t) \/ TimerFires(t)
      PROVE  shown' = shown
  BY <1>5 DEF PromptTimesOut, FactoryResolves, Data, DriverExits, DriverClosed,
     TimerFires, prompts
<1>6. ASSUME NEW t \in Sessions, Ask(t), shown'[c] # shown[c]
      PROVE  /\ sock[c] = t /\ sock'[c] = sock[c]
             /\ asked'[t] = asked[t] + 1
             /\ shown'[c] = shown[c] \cup {asked[t] + 1}
  <2>1. t \in registered /\ client[t] # NoSocket /\ client[t] = c
    BY <1>6 DEF Ask
  <2>2. sock[c] = t
    BY <2>1 DEF Stages
  <2> QED
    BY <1>6, <2>1, <2>2 DEF Ask
<1>7. ASSUME StartForgotten \/ Shutdown \/ Exit \/ UNCHANGED vars PROVE shown' = shown
  BY <1>7 DEF StartForgotten, Shutdown, Exit, vars, prompts
<1> QED
  BY <1>1, <1>2, <1>3, <1>4, <1>5, <1>6, <1>7 DEF Next, SocketStep, SessionStep

\* The questions of a session are numbered upwards.
LEMMA AskedLife ==
  ASSUME TypeOK, [Next]_vars, NEW s \in Sessions
  PROVE  asked'[s] \in Nat /\ asked'[s] >= asked[s]
<1> USE DEF TypeOK
<1>1. ASSUME NEW d \in Sockets, SocketStep(d) PROVE asked' = asked
  BY <1>1 DEF SocketStep, Open, Resume, TurnAway, Disconnect, ExecClose, Answer,
     prompts
<1>2. ASSUME NEW t \in Sessions, Ask(t) PROVE asked' = [asked EXCEPT ![t] = @ + 1]
  BY <1>2 DEF Ask
<1>6. ASSUME NEW t \in Sessions, Ask(t) PROVE asked'[s] \in {asked[s], asked[s] + 1}
  BY <1>2, <1>6
<1>3. ASSUME NEW t \in Sessions,
             \/ PromptTimesOut(t) \/ FactoryResolves(t) \/ FactoryFails(t)
             \/ Data(t) \/ DriverExits(t) \/ DriverClosed(t) \/ TimerFires(t)
      PROVE  asked' = asked
  BY <1>3 DEF PromptTimesOut, FactoryResolves, FactoryFails, Data, DriverExits,
     DriverClosed,
              TimerFires, prompts
<1>4. ASSUME StartForgotten \/ Shutdown \/ Exit \/ UNCHANGED vars PROVE asked' = asked
  BY <1>4 DEF StartForgotten, Shutdown, Exit, vars, prompts
<1>5. asked'[s] \in {asked[s], asked[s] + 1}
  BY <1>1, <1>6, <1>3, <1>4 DEF Next, SessionStep
<1>7. asked[s] \in Nat
  OBVIOUS
<1> QED BY <1>5, <1>7

\* A factory is called once, for the socket that opened the session.
LEMMA FactoryLife ==
  ASSUME TypeOK, [Next]_vars, NEW s \in Sessions
  PROVE  \/ factory[s] # "none" /\ factory'[s] # "none" /\ opener'[s] = opener[s]
         \/ factory[s] = "none" /\ factory'[s] = "none"
         \/ factory'[s] # "none" /\ \E c \in Sockets : Open(c, s) /\ opener'[s] = c
<1> USE DEF TypeOK
<1>1. ASSUME NEW d \in Sockets, NEW t \in Sessions, Open(d, t)
      PROVE  \/ factory'[s] = factory[s] /\ opener'[s] = opener[s]
             \/ factory'[s] # "none" /\ t = s /\ opener'[s] = d
  BY <1>1 DEF Open
<1>2. ASSUME NEW d \in Sockets, NEW t \in Sessions, NEW a \in BOOLEAN,
             Resume(d, t) \/ TurnAway(d, t, a) \/ Disconnect(d) \/ ExecClose(d)
      PROVE  factory' = factory /\ opener' = opener
  BY <1>2 DEF Resume, TurnAway, Disconnect, ExecClose
<1>3. ASSUME NEW d \in Sockets, NEW t \in Sessions, NEW p \in 1..MaxPrompts,
             NEW trusts \in BOOLEAN, Answer(d, t, p, trusts)
      PROVE  factory' = factory /\ opener' = opener
  BY <1>3 DEF Answer
<1>4. ASSUME NEW t \in Sessions, FactoryResolves(t) \/ FactoryFails(t)
      PROVE  opener' = opener /\ (factory[s] = "none" <=> factory'[s] = "none")
  BY <1>4 DEF FactoryResolves, FactoryFails
<1>5. ASSUME NEW t \in Sessions,
             \/ Ask(t) \/ PromptTimesOut(t) \/ Data(t) \/ DriverExits(t)
             \/ DriverClosed(t) \/ TimerFires(t)
      PROVE  factory' = factory /\ opener' = opener
  BY <1>5 DEF Ask, PromptTimesOut, Data, DriverExits, DriverClosed, TimerFires
<1>6. ASSUME StartForgotten \/ Shutdown \/ Exit \/ UNCHANGED vars
      PROVE  factory' = factory /\ opener' = opener
  BY <1>6 DEF StartForgotten, Shutdown, Exit, vars
<1> QED
  BY <1>1, <1>2, <1>3, <1>4, <1>5, <1>6 DEF Next, SocketStep, SessionStep

\* A socket that comes is of a session that has begun.
LEMMA SocketComes ==
  ASSUME TypeOK, Stages, [Next]_vars, NEW c \in Sockets, sock[c] = "new", sock'[c] \in Sessions
  PROVE  factory'[sock'[c]] # "none"
<1> USE DEF TypeOK
<1>1. ASSUME NEW d \in Sockets, NEW s \in Sessions, Open(d, s) \/ Resume(d, s)
      PROVE  factory'[sock'[c]] # "none"
  <2>1. sock'[d] = s /\ factory'[s] # "none"
    BY <1>1 DEF Open, Resume, Stages
  <2>2. d = c
    BY <1>1, NamesAssumption DEF Open, Resume
  <2> QED BY <2>1, <2>2
<1>2. ASSUME ~\E d \in Sockets, s \in Sessions : Open(d, s) \/ Resume(d, s) PROVE sock'[c] \in {sock[c], "gone"}
  <2>1. ASSUME NEW d \in Sockets, NEW s \in Sessions, NEW a \in BOOLEAN,
               TurnAway(d, s, a) \/ Disconnect(d) \/ ExecClose(d)
        PROVE  sock'[c] \in {sock[c], "gone"}
    BY <2>1 DEF TurnAway, Disconnect, ExecClose, Gone
  <2>2. ASSUME NEW d \in Sockets, NEW s \in Sessions, NEW p \in 1..MaxPrompts,
               NEW trusts \in BOOLEAN, Answer(d, s, p, trusts)
        PROVE  sock' = sock
    BY <2>2 DEF Answer
  <2>3. ASSUME NEW s \in Sessions, SessionStep(s)
        PROVE  sock'[c] \in {sock[c], "gone"}
    BY <2>3 DEF SessionStep, Ask, PromptTimesOut, FactoryResolves, FactoryFails,
       Gone, Data,
                DriverExits, DriverClosed, TimerFires
  <2>4. ASSUME StartForgotten \/ Shutdown \/ Exit \/ UNCHANGED vars PROVE sock' = sock
    BY <2>4 DEF StartForgotten, Shutdown, Exit, vars
  <2> QED BY <1>2, <2>1, <2>2, <2>3, <2>4 DEF Next, SocketStep
<1> QED BY <1>1, <1>2, NamesAssumption

-----------------------------------------------------------------------------
(* The tabs over the registry.                                             *)

\* What a window does and what it hears is not the registry's business; the
\* rest of the steps are the registry's, with what they send.
LEMMA RegistryStep ==
  ASSUME TypeOK, TabTypes, ShownPast, \A c \in Sockets : Handshake(c), [TabsNext]_allVars
  PROVE  [Next]_vars
<1>1. ASSUME NEW w \in Windows, WindowStep(w) PROVE UNCHANGED vars
  BY <1>1 DEF WindowStep
<1>2. ASSUME NEW c \in Sockets, Connect(c) PROVE Next
  <2>1. call[c] \in Calls
    BY <1>2 DEF Connect, Handshake, TabTypes
  <2>2. call[c].id \in Sessions /\ call[c].attach \in BOOLEAN
    BY <2>1 DEF Calls
  <2>3. \/ Open(c, call[c].id) \/ Resume(c, call[c].id)
        \/ TurnAway(c, call[c].id, call[c].attach)
    BY <1>2 DEF Connect
  <2> QED
    BY <2>2, <2>3 DEF Next, SocketStep
<1>3. ASSUME NEW c \in Sockets, Lose(c) \/ HearClose(c) PROVE Next
  BY <1>3 DEF Lose, HearClose, Next, SocketStep
<1>4. ASSUME NEW c \in Sockets, HearAnswer(c) PROVE Next
  <2>1. PICK p \in 1..MaxPrompts, trusts \in BOOLEAN : Answer(c, call[c].id, p, trusts)
    BY <1>4 DEF HearAnswer
  <2>2. call[c].id \in Sessions
    BY <2>1 DEF Answer, ShownPast
  <2> QED
    BY <2>1, <2>2 DEF Next, SocketStep
<1>5. ASSUME NEW s \in Sessions,
             \/ AskTab(s) \/ ResolveTab(s) \/ FailTab(s) \/ ExitTab(s)
             \/ Quiet(PromptTimesOut(s)) \/ Quiet(DriverClosed(s)) \/ Quiet(TimerFires(s))
      PROVE  Next
  <2>1. SessionStep(s)
    BY <1>5 DEF AskTab, ResolveTab, FailTab, ExitTab, Quiet, SessionStep
  <2> QED BY <2>1 DEF Next
<1>6. ASSUME Quiet(StartForgotten) PROVE Next
  BY <1>6 DEF Quiet, Next
<1>7. ASSUME UNCHANGED allVars PROVE UNCHANGED vars
  BY <1>7 DEF allVars
<1> QED
  BY <1>1, <1>2, <1>3, <1>4, <1>5, <1>6, <1>7 DEF TabsNext

\* No socket is of two sessions, and none is shown a question of the future.
LEMMA HeldStep == ASSUME TypeOK, Stages, Held, [Next]_vars PROVE Held'
<1> SUFFICES ASSUME NEW s \in Sessions, client'[s] # NoSocket
             PROVE  sock'[client'[s]] \in {s, "gone"}
  BY DEF Held
<1>1. CASE client'[s] = client[s]
  <2>1. client[s] \in Sockets /\ sock[client[s]] \in {s, "gone"}
    BY <1>1 DEF Held, TypeOK
  <2>2. \A c \in Sockets : sock[c] # "new" => sock'[c] \in {sock[c], "gone"}
    BY SocketLife
  <2>3. s # "new"
    BY NamesAssumption
  <2> QED BY <1>1, <2>1, <2>2, <2>3
<1>2. CASE client'[s] # client[s]
  <2>1. PICK c \in Sockets : client'[s] = c /\ sock'[c] = s
    BY <1>2, ClientLife
  <2> QED BY <2>1
<1> QED BY <1>1, <1>2

LEMMA ShownPastStep == ASSUME TypeOK, Stages, ShownPast, [Next]_vars PROVE ShownPast'
<1> SUFFICES ASSUME NEW c \in Sockets, NEW p \in shown'[c]
             PROVE  sock'[c] \in Sessions /\ p <= asked'[sock'[c]]
  BY DEF ShownPast
<1>1. CASE shown'[c] = shown[c]
  <2>1. sock[c] \in Sessions /\ p <= asked[sock[c]] /\ p \in Nat
    BY <1>1 DEF ShownPast, TypeOK
  <2>2. sock'[c] = sock[c]
    BY <2>1, <1>1, SocketLife, NamesAssumption
  <2>3. asked'[sock[c]] \in Nat /\ asked'[sock[c]] >= asked[sock[c]] /\ asked[sock[c]] \in Nat
    BY <2>1, AskedLife DEF TypeOK
  <2> QED BY <2>1, <2>2, <2>3
<1>2. CASE /\ sock[c] \in Sessions /\ sock'[c] = sock[c]
           /\ asked'[sock[c]] = asked[sock[c]] + 1
           /\ shown'[c] = shown[c] \cup {asked[sock[c]] + 1}
  <2>1. p \in shown[c] => p <= asked[sock[c]] /\ p \in Nat
    BY DEF ShownPast, TypeOK
  <2>2. asked[sock[c]] \in Nat
    BY <1>2 DEF TypeOK
  <2> QED BY <1>2, <2>1, <2>2
<1> QED BY <1>1, <1>2, ShownLife

LEMMA OpenedStep == ASSUME TypeOK, Stages, Opened, [Next]_vars PROVE Opened'
<1> SUFFICES ASSUME NEW c \in Sockets, sock'[c] \in Sessions PROVE factory'[sock'[c]] # "none"
  BY DEF Opened
<1>1. CASE sock'[c] = sock[c]
  BY <1>1, FactoryLife DEF Opened
<1>2. CASE sock[c] = "new"
  BY <1>2, SocketComes
<1> QED BY <1>1, <1>2, SocketLife, NamesAssumption

-----------------------------------------------------------------------------
(* What a window does to a connection: nothing that the connection's tab   *)
(* shows, an answer, the end of it, or its beginning.                      *)
By(c) == call[c].by
Id(c) == call[c].id

Same(c) ==
    /\ call'[c] = call[c] /\ end'[c] = end[c]
    /\ wire'[c] \in {wire[c], <<>>}
    /\ end[c] = "on" => wire'[c] = wire[c] /\ line'[By(c)][Id(c)] = line[By(c)][Id(c)]

Untouched(c) ==
    /\ Same(c)
    /\ end[c] = "on" => /\ tab'[By(c)][Id(c)] = tab[By(c)][Id(c)]
                        /\ prompt'[By(c)][Id(c)] = prompt[By(c)][Id(c)]

Replied(c) ==
    /\ Same(c)
    /\ tab[By(c)][Id(c)] = "awaiting-prompt" /\ tab'[By(c)][Id(c)] = "connecting"
    /\ sock[c] = Id(c) =>
         \E t \in BOOLEAN : sent' = sent \cup {<<"answer", c, prompt[By(c)][Id(c)], t>>}

Cut(c) ==
    /\ call'[c] = call[c] /\ wire'[c] = <<>>
    /\ end[c] = "on" /\ end'[c] = "left"

Made(c) ==
    /\ end[c] = "unused" /\ end'[c] = "on" /\ wire'[c] \in {wire[c], <<>>}
    /\ call'[c] \in Calls /\ line'[call'[c].by][call'[c].id] = c
    /\ tab'[call'[c].by][call'[c].id] = "connecting"
    /\ ~call'[c].attach => c \in wanted'

TabFrame ==
    /\ tab' \in [Windows -> [Sessions -> Statuses]]
    /\ prompt' \in [Windows -> [Sessions -> Nat]]
    /\ line' \in [Windows -> [Sessions -> Sockets \cup {NoSocket}]]
    /\ targets' \in [Windows -> SUBSET Sessions] /\ noted' \subseteq Sessions
    /\ DOMAIN call' = Sockets /\ DOMAIN end' = Sockets /\ DOMAIN wire' = Sockets
    /\ call' = [c \in Sockets |-> call'[c]] /\ end' = [c \in Sockets |-> end'[c]]
    /\ wire' = [c \in Sockets |-> wire'[c]]
    /\ wanted \subseteq wanted' /\ wanted' \subseteq Sockets
    /\ sent \subseteq sent'

Acted == TabFrame /\ \A c \in Sockets : Untouched(c) \/ Replied(c) \/ Cut(c) \/ Made(c)

Ends == \A c \in Sockets : Handshake(c) /\ Standing(c)

\* A connection that is not unused was made for a session of a window.
LEMMA CallKnown ==
  ASSUME TabTypes, NEW c \in Sockets, Handshake(c), end[c] # "unused"
  PROVE  call[c] \in Calls /\ By(c) \in Windows /\ Id(c) \in Sessions /\ call[c].attach \in BOOLEAN
<1>1. call[c] \in Calls
  BY DEF TabTypes, Handshake
<1> QED BY <1>1 DEF Calls, By, Id

\* open(): a new tab with a new connection; what it does to another tab of the
\* window, a retry's, is that tab's end.
LEMMA OpenActs ==
  ASSUME TabTypes, Ends, NEW w \in Windows, NEW s \in NewIds, Unused # {},
         NEW tabs, NEW prompts_, NEW lines, NEW ends, NEW tgts,
         OpenOn(w, s, tabs, prompts_, lines, ends, tgts),
         tgts \subseteq Sessions,
         \/ tabs = tab[w] /\ prompts_ = prompt[w] /\ lines = line[w] /\ ends = end
         \/ \E u \in Sessions :
              /\ tabs = [tab[w] EXCEPT ![u] = "none"]
              /\ prompts_ = [prompt[w] EXCEPT ![u] = 0]
              /\ lines = [line[w] EXCEPT ![u] = NoSocket]
              /\ ends = Leave({line[w][u]})
  PROVE  Acted
<1> DEFINE n == NextUnused
<1>1. n \in Sockets /\ end[n] = "unused"
  BY DEF NextUnused, Unused
<1>2. s \in Sessions /\ \A c \in Sockets : call[c] # NoCall => Id(c) # s
  BY DEF NewIds, Id
<1> HIDE DEF n
<1>3. /\ tab' = [tab EXCEPT ![w] = [tabs EXCEPT ![s] = "connecting"]]
      /\ prompt' = [prompt EXCEPT ![w] = prompts_]
      /\ line' = [line EXCEPT ![w] = [lines EXCEPT ![s] = n]]
      /\ targets' = [targets EXCEPT ![w] = tgts \cup {s}]
      /\ noted' = tgts \cup {s}
      /\ call' = [call EXCEPT ![n] = [by |-> w, id |-> s, attach |-> FALSE]]
      /\ end' = [ends EXCEPT ![n] = "on"]
      /\ wire' = Dropped(end')
      /\ wanted' = wanted \cup {n}
      /\ UNCHANGED sent
  BY DEF OpenOn, n
<1>4. /\ tabs \in [Sessions -> Statuses] /\ prompts_ \in [Sessions -> Nat]
      /\ lines \in [Sessions -> Sockets \cup {NoSocket}]
      /\ ends \in [Sockets -> {"unused", "on", "left", "refused"}]
  <2>1. ASSUME NEW u \in Sessions, ends = Leave({line[w][u]})
        PROVE  ends \in [Sockets -> {"unused", "on", "left", "refused"}]
    BY <2>1 DEF Leave, TabTypes
  <2>2. ends = end => ends \in [Sockets -> {"unused", "on", "left", "refused"}]
    BY DEF TabTypes
  <2>3. tab[w] \in [Sessions -> Statuses] /\ prompt[w] \in [Sessions -> Nat]
        /\ line[w] \in [Sessions -> Sockets \cup {NoSocket}] /\ "none" \in Statuses
    BY DEF TabTypes, Statuses
  <2>4. ASSUME NEW u \in Sessions, tabs = [tab[w] EXCEPT ![u] = "none"],
               prompts_ = [prompt[w] EXCEPT ![u] = 0], lines = [line[w] EXCEPT ![u] = NoSocket]
        PROVE  /\ tabs \in [Sessions -> Statuses] /\ prompts_ \in [Sessions -> Nat]
               /\ lines \in [Sessions -> Sockets \cup {NoSocket}]
    BY <2>3, <2>4
  <2> QED BY <2>1, <2>2, <2>3, <2>4
<1>5. \A c \in Sockets : wire'[c] = IF end'[c] = "on" THEN wire[c] ELSE <<>>
  BY <1>3 DEF Dropped
<1>6. TabFrame
  <2>1. tab' \in [Windows -> [Sessions -> Statuses]]
    BY <1>2, <1>3, <1>4 DEF TabTypes, Statuses
  <2>2. prompt' \in [Windows -> [Sessions -> Nat]]
    BY <1>2, <1>3, <1>4 DEF TabTypes
  <2>3. line' \in [Windows -> [Sessions -> Sockets \cup {NoSocket}]]
    BY <1>1, <1>2, <1>3, <1>4 DEF TabTypes
  <2>4. targets' \in [Windows -> SUBSET Sessions] /\ noted' \subseteq Sessions
    BY <1>2, <1>3 DEF TabTypes
  <2>5. DOMAIN call' = Sockets /\ call' = [c \in Sockets |-> call'[c]]
    BY <1>3 DEF TabTypes
  <2>6. DOMAIN end' = Sockets /\ end' = [c \in Sockets |-> end'[c]]
    BY <1>3, <1>4
  <2>7. DOMAIN wire' = Sockets /\ wire' = [c \in Sockets |-> wire'[c]]
    BY <1>3 DEF Dropped
  <2>8. wanted \subseteq wanted' /\ wanted' \subseteq Sockets /\ sent \subseteq sent'
    BY <1>1, <1>3 DEF TabTypes
  <2> QED BY <2>1, <2>2, <2>3, <2>4, <2>5, <2>6, <2>7, <2>8 DEF TabFrame
<1>7. Made(n)
  <2>1. call'[n] = [by |-> w, id |-> s, attach |-> FALSE]
    BY <1>1, <1>3 DEF TabTypes
  <2>2. call'[n] \in Calls /\ call'[n].by = w /\ call'[n].id = s
    BY <1>2, <2>1 DEF Calls
  <2>3. line'[w][s] = n /\ tab'[w][s] = "connecting"
    BY <1>2, <1>3, <1>4 DEF TabTypes
  <2>4. end'[n] = "on" /\ n \in wanted'
    BY <1>1, <1>3, <1>4
  <2> QED BY <1>1, <1>5, <2>2, <2>3, <2>4 DEF Made
<1>8. ASSUME NEW c \in Sockets, c # n PROVE Untouched(c) \/ Cut(c)
  <2>1. call'[c] = call[c] /\ end'[c] = ends[c]
    BY <1>3, <1>4, <1>8 DEF TabTypes
  <2>2. CASE end[c] # "on"
    <3>1. ends[c] = end[c]
      BY <2>2 DEF Leave
    <3> QED BY <1>5, <2>1, <2>2, <3>1 DEF Untouched, Same
  <2>3. CASE end[c] = "on"
    <3>1. By(c) \in Windows /\ Id(c) \in Sessions /\ Id(c) # s /\ line[By(c)][Id(c)] = c
      BY <1>2, <2>3, CallKnown DEF Ends, Handshake, Standing, By, Id
    <3>2. CASE ends[c] = end[c]
      <4>1. By(c) = w => /\ tabs[Id(c)] = tab[w][Id(c)] /\ prompts_[Id(c)] = prompt[w][Id(c)]
                         /\ lines[Id(c)] = line[w][Id(c)]
        <5>1. ASSUME NEW u \in Sessions, ends = Leave({line[w][u]}), By(c) = w
              PROVE  u # Id(c)
          BY <2>3, <3>1, <3>2, <5>1 DEF Leave
        <5>2. \A u \in Sessions : u # Id(c) =>
                /\ [tab[w] EXCEPT ![u] = "none"][Id(c)] = tab[w][Id(c)]
                /\ [prompt[w] EXCEPT ![u] = 0][Id(c)] = prompt[w][Id(c)]
                /\ [line[w] EXCEPT ![u] = NoSocket][Id(c)] = line[w][Id(c)]
          BY <3>1 DEF TabTypes
        <5> QED BY <5>1, <5>2
      <4>2. tab'[By(c)][Id(c)] = tab[By(c)][Id(c)]
        BY <1>3, <1>4, <3>1, <4>1 DEF TabTypes
      <4>3. prompt'[By(c)][Id(c)] = prompt[By(c)][Id(c)]
        BY <1>3, <1>4, <3>1, <4>1 DEF TabTypes
      <4>4. line'[By(c)][Id(c)] = line[By(c)][Id(c)]
        BY <1>3, <1>4, <3>1, <4>1 DEF TabTypes
      <4> QED BY <1>5, <2>1, <2>3, <3>2, <4>2, <4>3, <4>4 DEF Untouched, Same
    <3>3. CASE ends[c] # end[c]
      <4>1. ends[c] = "left"
        BY <2>3, <3>3 DEF Leave
      <4> QED BY <1>5, <2>1, <2>3, <4>1 DEF Cut
    <3> QED BY <3>2, <3>3
  <2> QED BY <2>2, <2>3
<1> QED
  BY <1>6, <1>7, <1>8 DEF Acted

LEMMA OpenTabActs == ASSUME TabTypes, Ends, NEW w \in Windows, OpenTab(w) PROVE Acted
<1> DEFINE s == CHOOSE t \in NewIds : TRUE
<1>1. s \in NewIds /\ Unused # {}
  BY DEF OpenTab
<1>2. OpenOn(w, s, tab[w], prompt[w], line[w], end, targets[w])
  BY DEF OpenTab
<1>3. targets[w] \subseteq Sessions
  BY DEF TabTypes
<1> HIDE DEF s
<1> QED BY <1>1, <1>2, <1>3, OpenActs

LEMMA RetryTabActs ==
  ASSUME TabTypes, Ends, NEW w \in Windows, NEW u \in Sessions, RetryTab(w, u) PROVE Acted
<1> DEFINE s == CHOOSE t \in NewIds : TRUE
<1>1. s \in NewIds /\ Unused # {}
  BY DEF RetryTab
<1>2. OpenOn(w, s, [tab[w] EXCEPT ![u] = "none"], [prompt[w] EXCEPT ![u] = 0],
             [line[w] EXCEPT ![u] = NoSocket], Leave({line[w][u]}), targets[w])
  BY DEF RetryTab
<1>3. targets[w] \subseteq Sessions
  BY DEF TabTypes
<1> HIDE DEF s
<1> QED BY <1>1, <1>2, <1>3, OpenActs

\* Where connections only end, the frame follows from the tabs.
LEMMA LeaveFrame ==
  ASSUME TabTypes, NEW cs, end' = Leave(cs), wire' = Dropped(end'), UNCHANGED <<call, wanted>>,
         sent \subseteq sent',
         tab' \in [Windows -> [Sessions -> Statuses]],
         prompt' \in [Windows -> [Sessions -> Nat]],
         line' \in [Windows -> [Sessions -> Sockets \cup {NoSocket}]],
         targets' \in [Windows -> SUBSET Sessions], noted' \subseteq Sessions
  PROVE  /\ TabFrame
         /\ \A c \in Sockets : /\ call'[c] = call[c]
                               /\ end'[c] = IF c \in cs /\ end[c] = "on" THEN "left" ELSE end[c]
                               /\ wire'[c] = IF end'[c] = "on" THEN wire[c] ELSE <<>>
<1>1. DOMAIN end' = Sockets /\ end' = [c \in Sockets |-> end'[c]]
  BY DEF Leave
<1>2. DOMAIN wire' = Sockets /\ wire' = [c \in Sockets |-> wire'[c]]
  BY DEF Dropped
<1>3. DOMAIN call' = Sockets /\ call' = [c \in Sockets |-> call'[c]]
  BY DEF TabTypes
<1>4. wanted \subseteq wanted' /\ wanted' \subseteq Sockets
  BY DEF TabTypes
<1>5. \A c \in Sockets :
        /\ end'[c] = IF c \in cs /\ end[c] = "on" THEN "left" ELSE end[c]
        /\ wire'[c] = IF end'[c] = "on" THEN wire[c] ELSE <<>>
  BY DEF Leave, Dropped
<1> QED BY <1>1, <1>2, <1>3, <1>4, <1>5 DEF TabFrame

LEMMA CloseTabActs ==
  ASSUME TabTypes, Ends, NEW w \in Windows, NEW s \in Sessions, CloseTab(w, s) PROVE Acted
<1>1. /\ end' = Leave({line[w][s]}) /\ wire' = Dropped(end') /\ UNCHANGED <<call, wanted>>
      /\ sent \subseteq sent'
  BY DEF CloseTab
<1>2. /\ tab' = [tab EXCEPT ![w][s] = "none"] /\ prompt' = [prompt EXCEPT ![w][s] = 0]
      /\ line' = [line EXCEPT ![w][s] = NoSocket] /\ targets' = [targets EXCEPT ![w] = @ \ {s}]
      /\ noted' = targets'[w]
  BY DEF CloseTab
<1>3. /\ tab' \in [Windows -> [Sessions -> Statuses]]
      /\ prompt' \in [Windows -> [Sessions -> Nat]]
      /\ line' \in [Windows -> [Sessions -> Sockets \cup {NoSocket}]]
      /\ targets' \in [Windows -> SUBSET Sessions] /\ noted' \subseteq Sessions
  <2>1. tab' \in [Windows -> [Sessions -> Statuses]]
    BY <1>2 DEF TabTypes, Statuses
  <2>2. prompt' \in [Windows -> [Sessions -> Nat]]
    BY <1>2 DEF TabTypes
  <2>3. line' \in [Windows -> [Sessions -> Sockets \cup {NoSocket}]]
    BY <1>2 DEF TabTypes
  <2>4. targets' \in [Windows -> SUBSET Sessions] /\ noted' \subseteq Sessions
    BY <1>2 DEF TabTypes
  <2> QED BY <2>1, <2>2, <2>3, <2>4
<1>4. /\ TabFrame
      /\ \A c \in Sockets :
           /\ call'[c] = call[c]
           /\ end'[c] = IF c \in {line[w][s]} /\ end[c] = "on" THEN "left" ELSE end[c]
           /\ wire'[c] = IF end'[c] = "on" THEN wire[c] ELSE <<>>
  BY <1>1, <1>3, LeaveFrame
<1>5. ASSUME NEW c \in Sockets PROVE Untouched(c) \/ Cut(c)
  <2>1. CASE c = line[w][s] /\ end[c] = "on"
    BY <1>4, <2>1 DEF Cut
  <2>2. CASE end[c] # "on"
    BY <1>4, <2>2 DEF Untouched, Same
  <2>3. CASE c # line[w][s] /\ end[c] = "on"
    <3>1. By(c) \in Windows /\ Id(c) \in Sessions /\ line[By(c)][Id(c)] = c
      BY <2>3, CallKnown DEF Ends, Handshake, Standing, By, Id
    <3>2. ~(By(c) = w /\ Id(c) = s)
      BY <2>3, <3>1
    <3>3. /\ tab'[By(c)][Id(c)] = tab[By(c)][Id(c)] /\ prompt'[By(c)][Id(c)] = prompt[By(c)][Id(c)]
          /\ line'[By(c)][Id(c)] = line[By(c)][Id(c)]
      BY <1>2, <3>1, <3>2 DEF TabTypes
    <3> QED BY <1>4, <2>3, <3>3 DEF Untouched, Same
  <2> QED BY <2>1, <2>2, <2>3
<1> QED BY <1>4, <1>5 DEF Acted

LEMMA ShutActs == ASSUME TabTypes, Ends, NEW w \in Windows, Shut(w) PROVE Acted
<1> DEFINE cs == {c \in Sockets : call[c] # NoCall /\ call[c].by = w}
<1>1. end' = Leave(cs) /\ wire' = Dropped(end') /\ UNCHANGED <<call, wanted>> /\ sent \subseteq sent'
  BY DEF Shut
<1>2. /\ tab' = [tab EXCEPT ![w] = [s \in Sessions |-> "none"]]
      /\ prompt' = [prompt EXCEPT ![w] = [s \in Sessions |-> 0]]
      /\ line' = [line EXCEPT ![w] = [s \in Sessions |-> NoSocket]]
      /\ targets' = [targets EXCEPT ![w] = {}] /\ noted' = noted
  BY DEF Shut
<1>3. /\ tab' \in [Windows -> [Sessions -> Statuses]]
      /\ prompt' \in [Windows -> [Sessions -> Nat]]
      /\ line' \in [Windows -> [Sessions -> Sockets \cup {NoSocket}]]
      /\ targets' \in [Windows -> SUBSET Sessions] /\ noted' \subseteq Sessions
  BY <1>2 DEF TabTypes, Statuses
<1>4. /\ TabFrame
      /\ \A c \in Sockets :
           /\ call'[c] = call[c]
           /\ end'[c] = IF c \in cs /\ end[c] = "on" THEN "left" ELSE end[c]
           /\ wire'[c] = IF end'[c] = "on" THEN wire[c] ELSE <<>>
  <2> HIDE DEF cs
  <2> QED BY <1>1, <1>3, LeaveFrame
<1>5. ASSUME NEW c \in Sockets PROVE Untouched(c) \/ Cut(c)
  <2>1. CASE end[c] # "on"
    BY <1>4, <2>1 DEF Untouched, Same
  <2>2. CASE end[c] = "on"
    <3>1. By(c) \in Windows /\ Id(c) \in Sessions /\ call[c] # NoCall
      BY <2>2, CallKnown DEF Ends, Handshake
    <3>2. CASE By(c) = w
      BY <1>4, <2>2, <3>1, <3>2 DEF Cut, By
    <3>3. CASE By(c) # w
      <4>1. c \notin cs
        BY <3>3 DEF By
      <4>2. /\ tab'[By(c)] = tab[By(c)] /\ prompt'[By(c)] = prompt[By(c)]
            /\ line'[By(c)] = line[By(c)]
        BY <1>2, <3>1, <3>3 DEF TabTypes
      <4> QED BY <1>4, <2>2, <4>1, <4>2 DEF Untouched, Same
    <3> QED BY <3>2, <3>3
  <2> QED BY <2>1, <2>2
<1> QED BY <1>4, <1>5 DEF Acted

\* A page that loads leaves the connections of the page before it, and makes one
\* to pick up what the note names.
LEMMA LoadActs == ASSUME TabTypes, Ends, NEW w \in Windows, Load(w) PROVE Acted
<1> DEFINE S == noted
           cs == {c \in Sockets : call[c] # NoCall /\ call[c].by = w}
<1>1. PICK f \in Injection(S, Unused) :
        /\ line' = [line EXCEPT ![w] = [s \in Sessions |-> IF s \in S THEN f[s] ELSE NoSocket]]
        /\ call' = [c \in Sockets |->
                      IF \E s \in S : f[s] = c
                      THEN Restored(w, CHOOSE s \in S : f[s] = c) ELSE call[c]]
        /\ end' = [c \in Sockets |-> IF \E s \in S : f[s] = c THEN "on" ELSE Leave(cs)[c]]
  BY DEF Load
<1>2. /\ tab' = [tab EXCEPT ![w] = [s \in Sessions |-> IF s \in S THEN "connecting" ELSE "none"]]
      /\ prompt' = [prompt EXCEPT ![w] = [s \in Sessions |-> 0]]
      /\ targets' = [targets EXCEPT ![w] = S]
      /\ wire' = Dropped(end')
      /\ UNCHANGED <<noted, sent, wanted>>
  BY DEF Load
<1>3. f \in [S -> Unused] /\ S \subseteq Sessions /\ Unused \subseteq Sockets
  BY DEF Injection, TabTypes, Unused
<1>4. \A c \in Sockets : wire'[c] = IF end'[c] = "on" THEN wire[c] ELSE <<>>
  BY <1>2 DEF Dropped
<1>5. TabFrame
  <2>1. tab' \in [Windows -> [Sessions -> Statuses]] /\ prompt' \in [Windows -> [Sessions -> Nat]]
    BY <1>2 DEF TabTypes, Statuses
  <2>2. line' \in [Windows -> [Sessions -> Sockets \cup {NoSocket}]]
    <3>1. [s \in Sessions |-> IF s \in S THEN f[s] ELSE NoSocket] \in [Sessions -> Sockets \cup {NoSocket}]
      BY <1>3
    <3> QED BY <1>1, <3>1 DEF TabTypes
  <2>3. targets' \in [Windows -> SUBSET Sessions] /\ noted' \subseteq Sessions
    BY <1>2 DEF TabTypes
  <2>4. /\ DOMAIN call' = Sockets /\ call' = [c \in Sockets |-> call'[c]]
        /\ DOMAIN end' = Sockets /\ end' = [c \in Sockets |-> end'[c]]
    BY <1>1
  <2>5. DOMAIN wire' = Sockets /\ wire' = [c \in Sockets |-> wire'[c]]
    BY <1>2 DEF Dropped
  <2>6. wanted \subseteq wanted' /\ wanted' \subseteq Sockets /\ sent \subseteq sent'
    BY <1>2 DEF TabTypes
  <2> QED BY <2>1, <2>2, <2>3, <2>4, <2>5, <2>6 DEF TabFrame
<1>6. ASSUME NEW c \in Sockets PROVE Untouched(c) \/ Cut(c) \/ Made(c)
  <2>1. CASE \E s \in S : f[s] = c
    <3> DEFINE r == CHOOSE s \in S : f[s] = c
    <3>1. r \in S /\ f[r] = c
      BY <2>1
    <3>2. call'[c] = [by |-> w, id |-> r, attach |-> TRUE] /\ end'[c] = "on"
      BY <1>1, <2>1 DEF Restored
    <3> HIDE DEF r
    <3>3. r \in Sessions /\ end[c] = "unused"
      BY <1>3, <3>1 DEF Unused
    <3>4. line'[w][r] = c /\ tab'[w][r] = "connecting"
      BY <1>1, <1>2, <3>1, <3>3 DEF TabTypes
    <3>5. call'[c] \in Calls /\ call'[c].by = w /\ call'[c].id = r /\ call'[c].attach
      BY <3>2, <3>3 DEF Calls
    <3> QED BY <1>4, <3>2, <3>3, <3>4, <3>5 DEF Made
  <2>2. CASE ~\E s \in S : f[s] = c
    <3>1. call'[c] = call[c] /\ end'[c] = Leave(cs)[c]
      BY <1>1, <2>2
    <3>2. end'[c] = IF c \in cs /\ end[c] = "on" THEN "left" ELSE end[c]
      <4> HIDE DEF cs
      <4> QED BY <3>1 DEF Leave
    <3>3. CASE end[c] # "on"
      BY <1>4, <3>1, <3>2, <3>3 DEF Untouched, Same
    <3>4. CASE end[c] = "on"
      <4>1. By(c) \in Windows /\ Id(c) \in Sessions /\ call[c] # NoCall
        BY <3>4, CallKnown DEF Ends, Handshake
      <4>2. CASE By(c) = w
        BY <1>4, <3>1, <3>2, <3>4, <4>1, <4>2 DEF Cut, By
      <4>3. CASE By(c) # w
        <5>1. c \notin cs
          BY <4>3 DEF By
        <5>2. /\ tab'[By(c)] = tab[By(c)] /\ prompt'[By(c)] = prompt[By(c)]
              /\ line'[By(c)] = line[By(c)]
          BY <1>1, <1>2, <4>1, <4>3 DEF TabTypes
        <5> QED BY <1>4, <3>1, <3>2, <3>4, <5>1, <5>2 DEF Untouched, Same
      <4> QED BY <4>2, <4>3
    <3> QED BY <3>3, <3>4
  <2> QED BY <2>1, <2>2
<1> QED BY <1>5, <1>6 DEF Acted

\* A status that is applied is one that may follow, of the one tab.
LEMMA Applied ==
  ASSUME TabTypes, NEW w \in Windows, NEW s \in Sessions, NEW status \in Statuses, NEW p \in Nat,
         ApplyStatus(w, s, status, p)
  PROVE  /\ tab' \in [Windows -> [Sessions -> Statuses]]
         /\ prompt' \in [Windows -> [Sessions -> Nat]]
         /\ tab'[w][s] \in {status, tab[w][s]}
         /\ status \in Follows(tab[w][s]) \/ (status = tab[w][s] /\ p > 0) =>
              tab'[w][s] = status /\ prompt'[w][s] = p
         /\ \A v \in Windows, t \in Sessions : ~(v = w /\ t = s) =>
              tab'[v][t] = tab[v][t] /\ prompt'[v][t] = prompt[v][t]
<1>1. CASE status \in Follows(tab[w][s]) \/ (status = tab[w][s] /\ p > 0)
  <2>1. tab' = [tab EXCEPT ![w][s] = status] /\ prompt' = [prompt EXCEPT ![w][s] = p]
    BY <1>1 DEF ApplyStatus
  <2> QED BY <1>1, <2>1 DEF TabTypes
<1>2. CASE ~(status \in Follows(tab[w][s]) \/ (status = tab[w][s] /\ p > 0))
  <2>1. UNCHANGED <<tab, prompt>>
    BY <1>2 DEF ApplyStatus
  <2> QED BY <1>2, <2>1 DEF TabTypes
<1> QED BY <1>1, <1>2

LEMMA AnswerTabActs ==
  ASSUME TabTypes, Ends, NEW w \in Windows, NEW s \in Sessions, NEW trusts \in BOOLEAN,
         AnswerTab(w, s, trusts)
  PROVE  Acted
<1>1. /\ tab[w][s] = "awaiting-prompt" /\ ApplyStatus(w, s, "connecting", 0)
      /\ UNCHANGED <<line, targets, noted, call, end, wire, wanted>>
      /\ sent' = IF end[line[w][s]] = "on" /\ sock[line[w][s]] = s
                 THEN sent \cup {<<"answer", line[w][s], prompt[w][s], trusts>>} ELSE sent
  BY DEF AnswerTab
<1>2. "connecting" \in Follows(tab[w][s])
  BY <1>1 DEF Follows
<1>3. /\ tab' \in [Windows -> [Sessions -> Statuses]]
      /\ prompt' \in [Windows -> [Sessions -> Nat]]
      /\ tab'[w][s] = "connecting"
      /\ \A v \in Windows, t \in Sessions : ~(v = w /\ t = s) =>
           tab'[v][t] = tab[v][t] /\ prompt'[v][t] = prompt[v][t]
  BY <1>1, <1>2, Applied DEF Statuses
<1>4. TabFrame
  BY <1>1, <1>3 DEF TabFrame, TabTypes
<1>5. ASSUME NEW c \in Sockets PROVE Untouched(c) \/ Replied(c)
  <2>1. Same(c)
    BY <1>1 DEF Same
  <2>2. CASE end[c] # "on"
    BY <2>1, <2>2 DEF Untouched
  <2>3. CASE end[c] = "on"
    <3>1. By(c) \in Windows /\ Id(c) \in Sessions /\ line[By(c)][Id(c)] = c
      BY <2>3, CallKnown DEF Ends, Handshake, Standing, By, Id
    <3>2. CASE By(c) = w /\ Id(c) = s
      BY <1>1, <1>3, <2>1, <2>3, <3>1, <3>2 DEF Replied
    <3>3. CASE ~(By(c) = w /\ Id(c) = s)
      BY <1>3, <2>1, <3>1, <3>3 DEF Untouched
    <3> QED BY <3>2, <3>3
  <2> QED BY <2>2, <2>3
<1> QED BY <1>4, <1>5 DEF Acted

LEMMA WindowActs == ASSUME TabTypes, Ends, NEW w \in Windows, WindowStep(w) PROVE Acted
BY OpenTabActs, LoadActs, ShutActs, RetryTabActs, CloseTabActs, AnswerTabActs
   DEF WindowStep

LEMMA ActedTypes == ASSUME TabTypes, Acted PROVE TabTypes'
<1>1. \A c \in Sockets : call'[c] \in Calls \cup {NoCall}
  <2>1. \A c \in Sockets : call'[c] = call[c] \/ call'[c] \in Calls
    BY Zenon DEF Acted, Untouched, Same, Replied, Cut, Made
  <2> QED BY <2>1 DEF TabTypes
<1>2. \A c \in Sockets : end'[c] \in {"unused", "on", "left", "refused"}
  BY DEF Acted, Untouched, Same, Replied, Cut, Made, TabTypes
<1>3. \A c \in Sockets : wire'[c] \in Seq(Messages)
  <2>1. \A c \in Sockets : wire'[c] \in {wire[c], <<>>}
    BY DEF Acted, Untouched, Same, Replied, Cut, Made
  <2>2. <<>> \in Seq(Messages) /\ \A c \in Sockets : wire[c] \in Seq(Messages)
    BY DEF TabTypes
  <2> QED BY <2>1, <2>2
<1>4. TabFrame
  BY DEF Acted
<1>5. call' \in [Sockets -> Calls \cup {NoCall}]
  BY <1>1, <1>4 DEF TabFrame
<1>6. end' \in [Sockets -> {"unused", "on", "left", "refused"}]
  BY <1>2, <1>4 DEF TabFrame
<1>7. wire' \in [Sockets -> Seq(Messages)]
  BY <1>3, <1>4 DEF TabFrame
<1> QED
  BY <1>4, <1>5, <1>6, <1>7 DEF TabFrame, TabTypes

\* What a window does keeps what is said of every connection.
LEMMA ActedConnection ==
  ASSUME IInv, TabInv, Acted, UNCHANGED vars, NEW c \in Sockets
  PROVE  Handshake(c)' /\ Standing(c)' /\ Hopeful(c)' /\ Questioned(c)'
<1>1. /\ sock' = sock /\ registered' = registered /\ factory' = factory /\ open' = open
      /\ asked' = asked /\ shown' = shown
  BY DEF vars, prompts
<1>2. Handshake(c) /\ Standing(c) /\ Hopeful(c) /\ Questioned(c) /\ TabTypes
  BY DEF TabInv
<1>3. wanted \subseteq wanted' /\ sent \subseteq sent'
  BY DEF Acted, TabFrame
<1>4. CASE Untouched(c)
  <2>1. Same(c)
    BY <1>4 DEF Untouched
  <2>2. Handshake(c)'
    BY <1>1, <1>2, <1>3, <2>1 DEF Same, Handshake
  <2>3. Standing(c)'
    BY <1>1, <1>2, <1>4, <2>1 DEF Untouched, Same, Standing, By, Id
  <2>4. Hopeful(c)'
    BY <1>1, <1>2, <1>4, <2>1 DEF Untouched, Same, Hopeful, By, Id
  <2>5. Questioned(c)'
    <3> SUFFICES ASSUME end'[c] = "on", sock'[c] \in Sessions, open'[sock'[c]],
                        asked'[sock'[c]] \in shown'[c]
                 PROVE  OnTheWay(c)' \/ Seen(c)'
      BY DEF Questioned
    <3>1. OnTheWay(c) \/ Seen(c)
      BY <1>1, <1>2, <2>1 DEF Same, Questioned
    <3>2. wire'[c] = wire[c] /\ end[c] = "on"
      BY <2>1 DEF Same
    <3>3. OnTheWay(c) => OnTheWay(c)'
      BY <1>1, <3>2 DEF OnTheWay
    <3>4. Seen(c) => Seen(c)'
      BY <1>1, <1>3, <1>4, <2>1, <3>2 DEF Seen, Untouched, Same, By, Id
    <3> QED BY <3>1, <3>3, <3>4
  <2> QED BY <2>2, <2>3, <2>4, <2>5
<1>5. CASE Replied(c)
  <2>1. Same(c) /\ tab[By(c)][Id(c)] = "awaiting-prompt" /\ tab'[By(c)][Id(c)] = "connecting"
    BY <1>5 DEF Replied
  <2>2. Handshake(c)'
    BY <1>1, <1>2, <1>3, <2>1 DEF Same, Handshake
  <2>3. Standing(c)'
    BY <1>1, <1>2, <2>1 DEF Same, Standing, By, Id
  <2>4. Hopeful(c)'
    BY <1>1, <1>2, <2>1 DEF Same, Hopeful, By, Id
  <2>5. Questioned(c)'
    <3> SUFFICES ASSUME end'[c] = "on", sock'[c] \in Sessions, open'[sock'[c]],
                        asked'[sock'[c]] \in shown'[c]
                 PROVE  OnTheWay(c)' \/ Seen(c)'
      BY DEF Questioned
    <3>1. OnTheWay(c) \/ Seen(c)
      BY <1>1, <1>2, <2>1 DEF Same, Questioned
    <3>2. wire'[c] = wire[c] /\ end[c] = "on" /\ call'[c] = call[c]
      BY <2>1 DEF Same
    <3>3. OnTheWay(c) => OnTheWay(c)'
      BY <1>1, <3>2 DEF OnTheWay
    <3>4. ASSUME Seen(c) PROVE Seen(c)'
      <4>1. CASE \E t \in BOOLEAN : <<"answer", c, asked[sock[c]], t>> \in sent
        BY <1>1, <1>3, <3>2, <3>4, <4>1 DEF Seen
      <4>2. CASE prompt[By(c)][Id(c)] = asked[sock[c]]
        <5>1. sock[c] = Id(c)
          BY <1>1, <1>2 DEF Handshake, Id
        <5>2. PICK t \in BOOLEAN : sent' = sent \cup {<<"answer", c, prompt[By(c)][Id(c)], t>>}
          BY <1>5, <5>1 DEF Replied
        <5>3. <<"answer", c, asked[sock[c]], t>> \in sent'
          BY <4>2, <5>2
        <5> QED BY <1>1, <3>2, <3>4, <5>3 DEF Seen
      <4> QED BY <3>4, <4>1, <4>2 DEF Seen, By, Id
    <3> QED BY <3>1, <3>3, <3>4
  <2> QED BY <2>2, <2>3, <2>4, <2>5
<1>6. CASE Cut(c)
  <2>1. call'[c] = call[c] /\ wire'[c] = <<>> /\ end[c] = "on" /\ end'[c] = "left"
    BY <1>6 DEF Cut
  <2>2. Handshake(c)'
    BY <1>1, <1>2, <1>3, <2>1 DEF Handshake
  <2>3. Standing(c)' /\ Hopeful(c)' /\ Questioned(c)'
    BY <2>1 DEF Standing, Hopeful, Questioned
  <2> QED BY <2>2, <2>3
<1>7. CASE Made(c)
  <2>1. sock'[c] = "new" /\ sock[c] = "new"
    BY <1>1, <1>2, <1>7 DEF Made, Handshake
  <2>2. sock'[c] \notin Sessions
    BY <2>1, NamesAssumption
  <2>3. call'[c] # NoCall
    BY <1>7 DEF Made, Calls
  <2>4. Handshake(c)'
    BY <1>7, <2>1, <2>2, <2>3 DEF Made, Handshake
  <2>5. Standing(c)'
    BY <1>2, <1>7, <2>1 DEF Made, Standing
  <2>6. Hopeful(c)' /\ Questioned(c)'
    BY <1>1, <2>2 DEF Hopeful, Questioned, IInv, TypeOK
  <2> QED BY <2>4, <2>5, <2>6
<1> QED BY <1>4, <1>5, <1>6, <1>7 DEF Acted

\* A call that was made stays, so what was started on request stays that.
LEMMA StartedStays ==
  ASSUME Started, UNCHANGED <<factory, opener>>, wanted \subseteq wanted',
         \A c \in Sockets : call[c] # NoCall => call'[c] = call[c],
         wanted \subseteq Sockets
  PROVE  Started'
BY DEF Started

LEMMA ActedInv == ASSUME IInv, TabInv, Acted, UNCHANGED vars PROVE TabInv'
<1>1. TabTypes'
  BY ActedTypes DEF TabInv
<1>2. Held' /\ Opened' /\ ShownPast'
  BY DEF TabInv, Held, Opened, ShownPast, vars, prompts
<1>3. Started'
  <2>1. \A c \in Sockets : call[c] # NoCall => call'[c] = call[c]
    BY DEF TabInv, Acted, Untouched, Same, Replied, Cut, Made, Handshake
  <2>2. wanted \subseteq wanted' /\ wanted \subseteq Sockets
    BY DEF TabInv, Acted, TabFrame, TabTypes
  <2>3. UNCHANGED <<factory, opener>>
    BY DEF vars
  <2> QED BY <2>1, <2>2, <2>3, StartedStays DEF TabInv
<1> QED BY <1>1, <1>2, <1>3, ActedConnection DEF TabInv

-----------------------------------------------------------------------------
(* What a window hears.                                                    *)

\* Another tab than that of a connection is not that of any other that is kept.
LEMMA OwnTab ==
  ASSUME TabTypes, Ends, NEW c \in Sockets, NEW d \in Sockets, c # d,
         end[c] = "on", end[d] = "on"
  PROVE  ~(By(c) = By(d) /\ Id(c) = Id(d))
BY DEF Ends, Standing, By, Id

\* One tab changes and nothing else but one connection: the others stand.
LEMMA OthersStand ==
  ASSUME IInv, TabInv, UNCHANGED vars, NEW c \in Sockets, NEW d \in Sockets, d # c,
         UNCHANGED <<line, targets, noted, call, sent, wanted>>,
         end'[d] = end[d], wire'[d] = wire[d], end[c] = "on",
         \A v \in Windows, t \in Sessions : ~(v = By(c) /\ t = Id(c)) =>
            tab'[v][t] = tab[v][t] /\ prompt'[v][t] = prompt[v][t]
  PROVE  Handshake(d)' /\ Standing(d)' /\ Hopeful(d)' /\ Questioned(d)'
<1>1. /\ sock' = sock /\ registered' = registered /\ factory' = factory /\ open' = open
      /\ asked' = asked /\ shown' = shown
  BY DEF vars, prompts
<1>2. Handshake(d) /\ Standing(d) /\ Hopeful(d) /\ Questioned(d) /\ TabTypes /\ Ends
  BY DEF TabInv, Ends
<1>3. end[d] = "on" => tab'[By(d)][Id(d)] = tab[By(d)][Id(d)] /\ prompt'[By(d)][Id(d)] = prompt[By(d)][Id(d)]
  <2> SUFFICES ASSUME end[d] = "on"
               PROVE tab'[By(d)][Id(d)] = tab[By(d)][Id(d)] /\ prompt'[By(d)][Id(d)] = prompt[By(d)][Id(d)]
    OBVIOUS
  <2>1. By(d) \in Windows /\ Id(d) \in Sessions
    BY <1>2, CallKnown
  <2>2. ~(By(d) = By(c) /\ Id(d) = Id(c))
    BY <1>2, OwnTab
  <2> QED BY <2>1, <2>2
<1>4. Handshake(d)'
  BY <1>1, <1>2 DEF Handshake
<1>5. Standing(d)'
  BY <1>1, <1>2, <1>3 DEF Standing, By, Id
<1>6. Hopeful(d)'
  BY <1>1, <1>2, <1>3 DEF Hopeful, By, Id
<1>7. Questioned(d)'
  <2>1. OnTheWay(d) => OnTheWay(d)'
    BY <1>1 DEF OnTheWay
  <2>2. end[d] = "on" /\ Seen(d) => Seen(d)'
    BY <1>1, <1>3 DEF Seen, By, Id
  <2> QED BY <1>1, <1>2, <2>1, <2>2 DEF Questioned
<1> QED BY <1>4, <1>5, <1>6, <1>7

LEMMA SameRegistry ==
  ASSUME TabInv, UNCHANGED vars, UNCHANGED <<call, wanted>>
  PROVE  Held' /\ Opened' /\ ShownPast' /\ Started'
<1>1. Held' /\ Opened' /\ ShownPast'
  BY DEF TabInv, Held, Opened, ShownPast, vars, prompts
<1>2. Started'
  BY DEF TabInv, Started, vars
<1> QED BY <1>1, <1>2

LEMMA RefusedInv ==
  ASSUME IInv, TabInv, UNCHANGED vars, NEW c \in Sockets, Refused(c) PROVE TabInv'
<1>1. /\ end[c] = "on" /\ sock[c] = "new" /\ end' = [end EXCEPT ![c] = "refused"]
      /\ ApplyStatus(By(c), Id(c), "errored", 0)
      /\ UNCHANGED <<line, targets, noted, call, wire, sent, wanted>>
  BY DEF Refused, By, Id
<1>2. TabTypes /\ Ends /\ Handshake(c)
  BY DEF TabInv, Ends
<1>3. By(c) \in Windows /\ Id(c) \in Sessions
  BY <1>1, <1>2, CallKnown
<1>4. /\ tab' \in [Windows -> [Sessions -> Statuses]]
      /\ prompt' \in [Windows -> [Sessions -> Nat]]
      /\ \A v \in Windows, t \in Sessions : ~(v = By(c) /\ t = Id(c)) =>
            tab'[v][t] = tab[v][t] /\ prompt'[v][t] = prompt[v][t]
  BY <1>1, <1>2, <1>3, Applied DEF Statuses
<1>5. TabTypes'
  BY <1>1, <1>2, <1>4 DEF TabTypes
<1>6. ASSUME NEW d \in Sockets, d # c
      PROVE  Handshake(d)' /\ Standing(d)' /\ Hopeful(d)' /\ Questioned(d)'
  <2>1. end'[d] = end[d] /\ wire'[d] = wire[d]
    BY <1>1, <1>6 DEF TabInv, TabTypes
  <2> QED BY <1>1, <1>4, <1>6, <2>1, OthersStand
<1>7. end'[c] = "refused" /\ sock'[c] = "new" /\ "new" \notin Sessions
  BY <1>1, NamesAssumption DEF TabInv, TabTypes, vars
<1>8. Handshake(c)'
  BY <1>1, <1>2, <1>7 DEF Handshake
<1>9. Standing(c)'
  BY <1>1, <1>7 DEF TabInv, Standing
<1>10. Hopeful(c)' /\ Questioned(c)'
  BY <1>7 DEF Hopeful, Questioned
<1> QED BY <1>1, <1>5, <1>6, <1>8, <1>9, <1>10, SameRegistry DEF TabInv

\* A message does to the tab what it says; one on the way to a shell leaves a
\* tab that goes on going, and a question is shown.
LEMMA HearFacts ==
  ASSUME TabTypes, NEW c \in Sockets, Hear(c), Handshake(c)
  PROVE  /\ tab' \in [Windows -> [Sessions -> Statuses]]
         /\ prompt' \in [Windows -> [Sessions -> Nat]]
         /\ wire'[c] = Tail(wire[c]) /\ \A d \in Sockets : d # c => wire'[d] = wire[d]
         /\ wire' \in [Sockets -> Seq(Messages)]
         /\ \A v \in Windows, t \in Sessions : ~(v = By(c) /\ t = Id(c)) =>
              tab'[v][t] = tab[v][t] /\ prompt'[v][t] = prompt[v][t]
         /\ LET now == tab[By(c)][Id(c)] IN
            now \in {"connecting", "awaiting-prompt", "ready"} =>
              /\ wire[c][1] \in Going => tab'[By(c)][Id(c)] \in {"connecting", "awaiting-prompt", "ready"}
              /\ \A n \in Nat \ {0} : wire[c][1] = <<"prompt", n>> =>
                   tab'[By(c)][Id(c)] = "awaiting-prompt" /\ prompt'[By(c)][Id(c)] = n
<1> DEFINE m == wire[c][1]
<1>1. end[c] = "on" /\ wire[c] # <<>> /\ wire' = [wire EXCEPT ![c] = Tail(@)]
  BY DEF Hear
<1>2. By(c) \in Windows /\ Id(c) \in Sessions
  BY <1>1, CallKnown
<1>3. wire[c] \in Seq(Messages) /\ Tail(wire[c]) \in Seq(Messages) /\ m \in Messages
  <2>1. wire[c] \in Seq(Messages)
    BY DEF TabTypes
  <2>2. Len(wire[c]) > 0 /\ Len(wire[c]) \in Nat
    BY <1>1, <2>1
  <2> QED BY <1>1, <2>1, <2>2
<1>4. /\ wire'[c] = Tail(wire[c]) /\ \A d \in Sockets : d # c => wire'[d] = wire[d]
      /\ wire' \in [Sockets -> Seq(Messages)]
  BY <1>1, <1>3 DEF TabTypes
<1>5. CASE m = <<"ready">>
  <2>1. ApplyStatus(By(c), Id(c), "ready", 0)
    BY <1>5 DEF Hear, By, Id
  <2>2. "ready" \in Statuses /\ 0 \in Nat
    BY DEF Statuses
  <2>3. \A n : m # <<"prompt", n>>
    BY <1>5
  <2> QED BY <1>2, <1>4, <2>1, <2>2, <2>3, Applied
<1>6. CASE \E n \in Nat : m = <<"prompt", n>>
  <2>1. PICK n \in Nat : m = <<"prompt", n>>
    BY <1>6
  <2>2. ApplyStatus(By(c), Id(c), "awaiting-prompt", n)
    BY <2>1 DEF Hear, By, Id
  <2>3. "awaiting-prompt" \in Statuses
    BY DEF Statuses
  <2>4. tab[By(c)][Id(c)] \in {"connecting", "awaiting-prompt", "ready"} =>
          /\ tab'[By(c)][Id(c)] \in {"awaiting-prompt", tab[By(c)][Id(c)]}
          /\ n > 0 => tab'[By(c)][Id(c)] = "awaiting-prompt" /\ prompt'[By(c)][Id(c)] = n
    <3>1. tab[By(c)][Id(c)] \in {"connecting", "ready"} => "awaiting-prompt" \in Follows(tab[By(c)][Id(c)])
      BY DEF Follows
    <3> QED BY <1>2, <2>2, <2>3, <3>1, Applied
  <2>5. \A k : m = <<"prompt", k>> => k = n
    BY <2>1
  <2> QED BY <1>2, <1>4, <2>2, <2>3, <2>4, <2>5, Applied
<1>7. CASE m \in {<<"error">>, <<"exit">>, <<"bye">>}
  <2>1. ApplyStatus(By(c), Id(c), "errored", 0) \/ ApplyStatus(By(c), Id(c), "exited", 0)
    <3>1. CASE m = <<"error">>
      BY <3>1 DEF Hear, By, Id
    <3>2. CASE m = <<"exit">>
      BY <3>2 DEF Hear, By, Id
    <3>3. CASE m = <<"bye">>
      BY <3>3 DEF Hear, By, Id
    <3> QED BY <1>7, <3>1, <3>2, <3>3
  <2>2. "errored" \in Statuses /\ "exited" \in Statuses /\ 0 \in Nat
    BY DEF Statuses
  <2>3. m \notin Going /\ \A n : m # <<"prompt", n>>
    BY <1>7 DEF Going
  <2> QED BY <1>2, <1>4, <2>1, <2>2, <2>3, Applied
<1>8. m = <<"ready">> \/ (\E n \in Nat : m = <<"prompt", n>>) \/ m \in {<<"error">>, <<"exit">>, <<"bye">>}
  BY <1>3 DEF Messages, Going
<1> QED BY <1>5, <1>6, <1>7, <1>8

LEMMA HearInv ==
  ASSUME IInv, TabInv, UNCHANGED vars, NEW c \in Sockets, Hear(c) PROVE TabInv'
<1>1. /\ end[c] = "on" /\ wire[c] # <<>>
      /\ UNCHANGED <<line, targets, noted, call, end, sent, wanted>>
  BY DEF Hear
<1>2. TabTypes /\ Ends /\ Handshake(c) /\ Standing(c) /\ Hopeful(c) /\ Questioned(c)
  BY DEF TabInv, Ends
<1>3. By(c) \in Windows /\ Id(c) \in Sessions
  BY <1>1, <1>2, CallKnown
<1>4. /\ sock' = sock /\ registered' = registered /\ factory' = factory /\ open' = open
      /\ asked' = asked /\ shown' = shown
  BY DEF vars, prompts
<1>5. TabTypes'
  BY <1>1, <1>2, HearFacts DEF TabTypes
<1>6. ASSUME NEW d \in Sockets, d # c
      PROVE  Handshake(d)' /\ Standing(d)' /\ Hopeful(d)' /\ Questioned(d)'
  <2>1. end'[d] = end[d] /\ wire'[d] = wire[d]
    BY <1>1, <1>2, <1>6, HearFacts
  <2> QED BY <1>1, <1>2, <1>6, <2>1, OthersStand, HearFacts
<1>7. Handshake(c)'
  BY <1>1, <1>2, <1>4 DEF Handshake
<1>8. Standing(c)'
  BY <1>1, <1>2, <1>4 DEF Standing
<1>9. /\ wire[c] \in Seq(Messages) /\ Len(wire[c]) \in Nat /\ Len(wire[c]) > 0
      /\ Len(Tail(wire[c])) = Len(wire[c]) - 1
      /\ \A i \in 1..Len(Tail(wire[c])) : Tail(wire[c])[i] = wire[c][i + 1]
      /\ wire'[c] = Tail(wire[c])
  <2>1. wire[c] \in Seq(Messages) /\ wire'[c] = Tail(wire[c])
    BY <1>2, HearFacts DEF TabTypes
  <2> QED BY <1>1, <2>1
<1>10. Hopeful(c)'
  <2> SUFFICES ASSUME sock[c] \in registered, factory[sock[c]] = "pending"
               PROVE  /\ tab'[By(c)][Id(c)] \in {"connecting", "awaiting-prompt", "ready"}
                      /\ \A i \in 1..Len(wire'[c]) : wire'[c][i] \in Going
    BY <1>1, <1>4 DEF Hopeful, By, Id
  <2>1. /\ tab[By(c)][Id(c)] \in {"connecting", "awaiting-prompt", "ready"}
        /\ \A i \in 1..Len(wire[c]) : wire[c][i] \in Going
    BY <1>1, <1>2 DEF Hopeful, By, Id
  <2>2. tab'[By(c)][Id(c)] \in {"connecting", "awaiting-prompt", "ready"}
    <3>1. wire[c][1] \in Going
      BY <1>9, <2>1
    <3> QED BY <1>2, <2>1, <3>1, HearFacts
  <2>3. \A i \in 1..Len(wire'[c]) : wire'[c][i] \in Going
    <3> SUFFICES ASSUME NEW i \in 1..Len(wire'[c]) PROVE wire'[c][i] \in Going OBVIOUS
    <3>1. i + 1 \in 1..Len(wire[c]) /\ wire'[c][i] = wire[c][i + 1]
      BY <1>9
    <3> QED BY <2>1, <3>1
  <2> QED BY <2>2, <2>3
<1>11. Questioned(c)'
  <2> SUFFICES ASSUME sock[c] \in Sessions, open[sock[c]], asked[sock[c]] \in shown[c]
               PROVE  OnTheWay(c)' \/ Seen(c)'
    BY <1>4 DEF Questioned
  <2>1. wire[c][Len(wire[c])] = <<"prompt", asked[sock[c]]>>
    BY <1>1, <1>2 DEF Questioned, OnTheWay, Seen
  <2>2. CASE Len(wire[c]) = 1
    <3>1. wire'[c] = <<>>
      BY <1>9, <2>2
    <3>2. asked[sock[c]] \in Nat \ {0}
      <4>1. asked[sock[c]] \in Nat
        BY DEF IInv, TypeOK
      <4>2. asked[sock[c]] > 0
        BY DEF IInv, Questions
      <4> QED BY <4>1, <4>2
    <3>3. tab[By(c)][Id(c)] \in {"connecting", "awaiting-prompt", "ready"}
      BY <1>1, <1>2 DEF Hopeful, IInv, QuestionIsVisible, By, Id
    <3>4. tab'[By(c)][Id(c)] = "awaiting-prompt" /\ prompt'[By(c)][Id(c)] = asked[sock[c]]
      BY <1>2, <2>1, <2>2, <3>2, <3>3, HearFacts
    <3> QED BY <1>1, <1>4, <3>1, <3>4 DEF Seen, By, Id
  <2>3. CASE Len(wire[c]) > 1
    <3>1. Len(wire'[c]) > 0 /\ wire'[c][Len(wire'[c])] = wire[c][Len(wire[c])]
      BY <1>9, <2>3
    <3> QED BY <1>4, <1>9, <2>1, <3>1 DEF OnTheWay
  <2>4. \A n \in Nat : n > 0 => n = 1 \/ n > 1
    OBVIOUS
  <2> QED BY Zenon, <1>9, <2>2, <2>3, <2>4
<1> QED BY <1>1, <1>5, <1>6, <1>7, <1>8, <1>10, <1>11, SameRegistry DEF TabInv

-----------------------------------------------------------------------------
(* What the server does to a connection: nothing, its beginning, a         *)
(* question, or an end, of the connection or of the connect.               *)
Undisturbed(c) ==
    /\ sock'[c] = sock[c] /\ wire'[c] = wire[c]
    /\ sock[c] \in Sessions =>
        LET s == sock[c] IN
        /\ s \in registered' /\ factory'[s] = "pending" =>
             s \in registered /\ factory[s] = "pending"
        /\ open'[s] /\ asked'[s] \in shown'[c] =>
             /\ open[s] /\ asked'[s] = asked[s] /\ asked[s] \in shown[c]
             /\ \A t \in BOOLEAN : <<"answer", c, asked[s], t>> \in sent =>
                                   <<"answer", c, asked[s], t>> \in sent'

Came(c) ==
    /\ sock[c] = "new" /\ sock'[c] = Id(c) /\ end[c] \in {"on", "left"}
    /\ wire'[c] \in {<<>>, <<<<"ready">>>>}
    /\ shown'[c] = {} /\ asked' = asked

AskedOn(c) ==
    /\ sock[c] \in Sessions /\ sock'[c] = sock[c]
    /\ asked'[sock[c]] = asked[sock[c]] + 1
    /\ registered' = registered /\ factory' = factory
    /\ wire'[c] = IF end[c] = "on" THEN Append(wire[c], <<"prompt", asked[sock[c]] + 1>>)
                  ELSE wire[c]

Over(c) ==
    /\ wire'[c] \in Seq(Messages)
    /\ \/ sock'[c] = "gone" /\ (sock[c] # "new" \/ end[c] # "unused")
       \/ /\ sock[c] \in Sessions /\ sock'[c] = sock[c]
          /\ ~open'[sock[c]] /\ factory'[sock[c]] # "pending"

Served ==
    /\ UNCHANGED <<tab, prompt, line, targets, noted, call, end, wanted>>
    /\ DOMAIN wire' = Sockets /\ wire' = [c \in Sockets |-> wire'[c]]
    /\ \A s \in Sessions : factory[s] = "none" /\ factory'[s] # "none" =>
         opener'[s] \in Sockets /\ call[opener'[s]] # NoCall /\ Id(opener'[s]) = s
                                /\ ~call[opener'[s]].attach
    /\ \A c \in Sockets : Undisturbed(c) \/ Came(c) \/ AskedOn(c) \/ Over(c)

LEMMA ServedTypes == ASSUME TypeOK, TabTypes, Served PROVE TabTypes'
<1>1. ASSUME NEW c \in Sockets PROVE wire'[c] \in Seq(Messages)
  <2>1. wire[c] \in Seq(Messages)
    BY DEF TabTypes
  <2>2. CASE Undisturbed(c) \/ Over(c)
    BY <2>1, <2>2 DEF Undisturbed, Over
  <2>3. CASE Came(c)
    <3>1. <<"ready">> \in Messages
      BY DEF Messages, Going
    <3>2. <<>> \in Seq(Messages) /\ <<<<"ready">>>> \in Seq(Messages)
      BY <3>1
    <3> QED BY <2>3, <3>2 DEF Came
  <2>4. CASE AskedOn(c)
    <3>1. asked[sock[c]] + 1 \in Nat
      BY <2>4 DEF AskedOn, TypeOK
    <3>2. <<"prompt", asked[sock[c]] + 1>> \in Messages
      BY <3>1 DEF Messages, Going
    <3>3. Append(wire[c], <<"prompt", asked[sock[c]] + 1>>) \in Seq(Messages)
      BY <2>1, <3>2
    <3> QED BY <2>1, <2>4, <3>3 DEF AskedOn
  <2> QED BY <2>2, <2>3, <2>4 DEF Served
<1>2. wire' \in [Sockets -> Seq(Messages)]
  BY <1>1 DEF Served
<1> QED BY <1>2 DEF Served, TabTypes

LEMMA ServedConnection ==
  ASSUME IInv, IInv', TabInv, Served, NEW c \in Sockets
  PROVE  Handshake(c)' /\ Standing(c)' /\ Hopeful(c)' /\ Questioned(c)'
<1>1. /\ tab' = tab /\ prompt' = prompt /\ line' = line /\ call' = call /\ end' = end
      /\ wanted' = wanted
  BY DEF Served
<1>2. Handshake(c) /\ Standing(c) /\ Hopeful(c) /\ Questioned(c) /\ TabTypes
  BY DEF TabInv
<1>3. "new" \notin Sessions /\ "gone" \notin Sessions
  BY NamesAssumption
<1>4. registered' \subseteq Sessions
  BY DEF IInv, TypeOK
<1>5. CASE Undisturbed(c)
  <2>1. sock'[c] = sock[c] /\ wire'[c] = wire[c]
    BY <1>5 DEF Undisturbed
  <2>2. Handshake(c)'
    BY <1>1, <1>2, <2>1 DEF Handshake
  <2>3. Standing(c)'
    BY <1>1, <1>2, <2>1 DEF Standing
  <2>4. Hopeful(c)'
    <3> SUFFICES ASSUME end[c] = "on", sock[c] \in registered', factory'[sock[c]] = "pending"
                 PROVE  /\ tab[call[c].by][call[c].id] \in {"connecting", "awaiting-prompt", "ready"}
                        /\ \A i \in 1..Len(wire[c]) : wire[c][i] \in Going
      BY <1>1, <2>1 DEF Hopeful
    <3>1. sock[c] \in registered /\ factory[sock[c]] = "pending"
      BY <1>4, <1>5 DEF Undisturbed
    <3> QED BY <1>2, <3>1 DEF Hopeful
  <2>5. Questioned(c)'
    <3> SUFFICES ASSUME end[c] = "on", sock[c] \in Sessions, open'[sock[c]],
                        asked'[sock[c]] \in shown'[c]
                 PROVE  OnTheWay(c)' \/ Seen(c)'
      BY <1>1, <2>1 DEF Questioned
    <3>1. /\ open[sock[c]] /\ asked'[sock[c]] = asked[sock[c]] /\ asked[sock[c]] \in shown[c]
          /\ \A t \in BOOLEAN : <<"answer", c, asked[sock[c]], t>> \in sent =>
                                <<"answer", c, asked[sock[c]], t>> \in sent'
      BY <1>5 DEF Undisturbed
    <3>2. OnTheWay(c) \/ Seen(c)
      BY <1>2, <3>1 DEF Questioned
    <3>3. OnTheWay(c) => OnTheWay(c)'
      BY <2>1, <3>1 DEF OnTheWay
    <3>4. Seen(c) => Seen(c)'
      BY <1>1, <2>1, <3>1 DEF Seen
    <3> QED BY <3>2, <3>3, <3>4
  <2> QED BY <2>2, <2>3, <2>4, <2>5
<1>6. CASE Came(c)
  <2>1. /\ sock[c] = "new" /\ sock'[c] = Id(c) /\ end[c] \in {"on", "left"}
        /\ wire'[c] \in {<<>>, <<<<"ready">>>>} /\ shown'[c] = {}
    BY <1>6 DEF Came
  <2>2. Id(c) \in Sessions
    BY <1>2, <2>1, CallKnown
  <2>3. Handshake(c)'
    BY <1>1, <1>2, <2>1 DEF Handshake, Id
  <2>4. Standing(c)'
    BY <1>1, <1>2, <1>3, <2>1, <2>2 DEF Standing
  <2>5. Hopeful(c)'
    <3>1. \A i \in 1..Len(wire'[c]) : wire'[c][i] \in Going
      <4>1. Len(<<>>) = 0 /\ Len(<<<<"ready">>>>) = 1 /\ <<<<"ready">>>>[1] = <<"ready">>
        OBVIOUS
      <4> QED BY <2>1, <4>1 DEF Going
    <3> QED BY <1>1, <1>2, <2>1, <3>1 DEF Standing, Hopeful
  <2>6. Questioned(c)'
    BY <2>1 DEF Questioned
  <2> QED BY <2>3, <2>4, <2>5, <2>6
<1>7. CASE AskedOn(c)
  <2> DEFINE s == sock[c]
             q == <<"prompt", asked[s] + 1>>
  <2>1. /\ s \in Sessions /\ sock'[c] = s /\ asked'[s] = asked[s] + 1
        /\ registered' = registered /\ factory' = factory
        /\ wire'[c] = IF end[c] = "on" THEN Append(wire[c], q) ELSE wire[c]
    BY <1>7 DEF AskedOn
  <2>2. wire[c] \in Seq(Messages) /\ asked[s] + 1 \in Nat
    BY <2>1 DEF TabInv, TabTypes, IInv, TypeOK
  <2>3. q \in Going
    BY <2>2 DEF Going
  <2> HIDE DEF s, q
  <2>4. /\ Append(wire[c], q) # <<>> /\ Len(Append(wire[c], q)) = Len(wire[c]) + 1
        /\ Append(wire[c], q)[Len(wire[c]) + 1] = q
        /\ \A i \in 1..Len(wire[c]) : Append(wire[c], q)[i] = wire[c][i]
    BY <2>2
  <2>5. Handshake(c)'
    BY <1>1, <1>2, <2>1 DEF Handshake, s
  <2>6. Standing(c)'
    BY <1>1, <1>2, <1>3, <2>1 DEF Standing
  <2>7. Hopeful(c)'
    <3> SUFFICES ASSUME end[c] = "on", s \in registered, factory[s] = "pending"
                 PROVE  /\ tab[call[c].by][call[c].id] \in {"connecting", "awaiting-prompt", "ready"}
                        /\ \A i \in 1..Len(Append(wire[c], q)) : Append(wire[c], q)[i] \in Going
      BY <1>1, <2>1 DEF Hopeful
    <3>1. /\ tab[call[c].by][call[c].id] \in {"connecting", "awaiting-prompt", "ready"}
          /\ \A i \in 1..Len(wire[c]) : wire[c][i] \in Going
      BY <1>2 DEF Hopeful, s
    <3>2. ASSUME NEW i \in 1..Len(Append(wire[c], q)) PROVE Append(wire[c], q)[i] \in Going
      <4>1. Len(wire[c]) \in Nat
        BY <2>2
      <4>2. i \in 1..Len(wire[c]) \/ i = Len(wire[c]) + 1
        BY <2>4, <4>1
      <4> QED BY <2>3, <2>4, <3>1, <4>2
    <3> QED BY <3>1, <3>2
  <2>8. Questioned(c)'
    BY <1>1, <2>1, <2>4 DEF Questioned, OnTheWay, q
  <2> QED BY <2>5, <2>6, <2>7, <2>8
<1>8. CASE Over(c)
  <2>1. sock'[c] # "new"
    BY <1>3, <1>8 DEF Over
  <2>2. Handshake(c)'
    <3>1. CASE sock'[c] = "gone"
      <4>1. end[c] # "unused"
        BY <1>2, <1>3, <1>8, <3>1 DEF Over, Handshake
      <4> QED BY <1>1, <1>2, <1>3, <3>1, <4>1 DEF Handshake
    <3>2. CASE sock'[c] = sock[c]
      BY <1>1, <1>2, <3>2 DEF Handshake
    <3> QED BY <1>8, <3>1, <3>2 DEF Over
  <2>3. Standing(c)'
    BY <1>1, <1>2, <2>1 DEF Standing
  <2>4. Hopeful(c)' /\ Questioned(c)'
    BY <1>3, <1>4, <1>8 DEF Over, Hopeful, Questioned
  <2> QED BY <2>2, <2>3, <2>4
<1> QED BY <1>5, <1>6, <1>7, <1>8 DEF Served

LEMMA ServedInv ==
  ASSUME IInv, IInv', TabInv, Served, [Next]_vars PROVE TabInv'
<1>1. TypeOK /\ Stages
  BY DEF IInv
<1>2. TabTypes'
  BY <1>1, ServedTypes DEF TabInv
<1>3. Held' /\ Opened' /\ ShownPast'
  BY <1>1, HeldStep, OpenedStep, ShownPastStep DEF TabInv
<1>4. Started'
  <2> SUFFICES ASSUME NEW s \in Sessions, factory'[s] # "none"
               PROVE  /\ call[opener'[s]] # NoCall /\ call[opener'[s]].id = s
                      /\ opener'[s] \in wanted
    BY DEF Served, Started
  <2>1. CASE factory[s] # "none"
    <3>1. opener'[s] = opener[s]
      BY <1>1, <2>1, FactoryLife DEF Open
    <3> QED BY <2>1, <3>1 DEF TabInv, Started
  <2>2. CASE factory[s] = "none"
    <3>1. /\ opener'[s] \in Sockets /\ call[opener'[s]] # NoCall /\ Id(opener'[s]) = s
          /\ ~call[opener'[s]].attach
      BY <2>2 DEF Served
    <3> QED BY <3>1 DEF TabInv, Handshake, Id
  <2> QED BY <2>1, <2>2
<1> QED BY <1>2, <1>3, <1>4, ServedConnection DEF TabInv

\* A step that asks nothing and starts nothing leaves what it says nothing to.
LEMMA LeftAsItWas ==
  ASSUME NEW c \in Sockets, sock'[c] = sock[c], wire'[c] = wire[c],
         asked' = asked, shown'[c] = shown[c],
         sock[c] \in Sessions => /\ open'[sock[c]] => open[sock[c]]
                                 /\ factory'[sock[c]] = factory[sock[c]]
                                 /\ sock[c] \in registered' => sock[c] \in registered,
         \A t \in BOOLEAN : \A p : <<"answer", c, p, t>> \in sent => <<"answer", c, p, t>> \in sent'
  PROVE  Undisturbed(c)
BY DEF Undisturbed

\* What closing sessions does to the rest.
LEMMA CloseQuiets ==
  ASSUME TypeOK, NEW S, NEW ms, NEW ds, Close(S, ms, ds)
  PROVE  /\ registered' \subseteq registered
         /\ \A s \in Sessions : open'[s] => open[s]
BY DEF Close, Finish, Settled

Quieter ==
    /\ sock' = sock /\ shown' = shown /\ asked' = asked /\ factory' = factory
    /\ registered' \subseteq registered
    /\ \A s \in Sessions : open'[s] => open[s]

LEMMA QuietServed ==
  ASSUME IInv, TabInv, UNCHANGED tabVars,
         \/ \E s \in Sessions : PromptTimesOut(s) \/ DriverClosed(s) \/ TimerFires(s)
         \/ StartForgotten
  PROVE  Served
<1>1. TypeOK /\ TabTypes
  BY DEF IInv, TabInv
<1>2. Quieter
  <2>1. ASSUME NEW s \in Sessions, PromptTimesOut(s) PROVE Quieter
    BY <1>1, <2>1 DEF Quieter, PromptTimesOut, Settled
  <2>2. ASSUME NEW s \in Sessions, DriverClosed(s) PROVE Quieter
    BY <2>2 DEF Quieter, DriverClosed, prompts
  <2>3. ASSUME NEW s \in Sessions, TimerFires(s) PROVE Quieter
    BY <1>1, <2>3, CloseQuiets DEF Quieter, TimerFires
  <2>4. ASSUME StartForgotten PROVE Quieter
    BY <2>4 DEF Quieter, StartForgotten, prompts
  <2> QED BY <2>1, <2>2, <2>3, <2>4
<1>3. \A c \in Sockets : Undisturbed(c)
  BY <1>2, LeftAsItWas DEF Quieter, tabVars
<1> QED BY <1>1, <1>2, <1>3 DEF Quieter, Served, tabVars, TabTypes

LEMMA ConnectServed ==
  ASSUME IInv, TabInv, NEW n \in Sockets, Connect(n) PROVE Served
<1> DEFINE s == Id(n)
<1>1. TypeOK /\ Stages /\ TabTypes /\ Opened /\ Handshake(n) /\ ShownPast
  BY DEF IInv, TabInv
<1>2. /\ end[n] \in {"on", "left"} /\ sock[n] = "new"
      /\ UNCHANGED <<tab, prompt, line, targets, noted, call, end, wanted, sent>>
  BY DEF Connect, Rest
<1>3. s \in Sessions /\ call[n] # NoCall /\ call[n].attach \in BOOLEAN
  BY <1>1, <1>2, CallKnown DEF Handshake
<1>4. "new" \notin Sessions /\ shown[n] = {}
  BY <1>1, <1>2, NamesAssumption DEF ShownPast
<1> HIDE DEF s
<1>5. ASSUME Open(n, s), UNCHANGED wire, ~call[n].attach PROVE Served
  <2>1. /\ sock' = [sock EXCEPT ![n] = s] /\ factory' = [factory EXCEPT ![s] = "pending"]
        /\ opener' = [opener EXCEPT ![s] = n] /\ registered' = registered \cup {s}
        /\ open' = open /\ asked' = asked /\ shown' = shown /\ factory[s] = "none"
    BY <1>5 DEF Open, prompts
  <2>2. wire[n] = <<>>
    BY <1>2 DEF TabInv, Standing
  <2>3. Came(n)
    BY <1>1, <1>2, <1>4, <1>5, <2>1, <2>2 DEF Came, TypeOK, s
  <2>4. ASSUME NEW c \in Sockets, c # n PROVE Undisturbed(c)
    <3>1. sock'[c] = sock[c]
      BY <1>1, <2>1, <2>4 DEF TypeOK
    <3>2. sock[c] \in Sessions => sock[c] # s
      BY <1>1, <2>1 DEF Opened
    <3>3. sock[c] \in Sessions => factory'[sock[c]] = factory[sock[c]] /\ (sock[c] \in registered' => sock[c] \in registered)
      BY <1>1, <2>1, <3>2 DEF TypeOK
    <3> QED BY <1>2, <1>5, <2>1, <3>1, <3>3, LeftAsItWas
  <2>5. \A t \in Sessions : factory[t] = "none" /\ factory'[t] # "none" => t = s /\ opener'[t] = n
    BY <1>1, <1>3, <2>1 DEF TypeOK
  <2> QED BY <1>1, <1>2, <1>3, <1>5, <2>3, <2>4, <2>5 DEF Served, TabTypes, s
<1>6. ASSUME Resume(n, s), Greet(n, <<<<"ready">>>>) PROVE Served
  <2>1. /\ sock' = [sock EXCEPT ![n] = s] /\ factory' = factory /\ registered' = registered
        /\ open' = open /\ asked' = asked /\ shown' = shown
    BY <1>6 DEF Resume, prompts
  <2>2. wire' = [wire EXCEPT ![n] = IF end[n] = "on" THEN <<<<"ready">>>> ELSE <<>>]
    BY <1>6 DEF Greet
  <2>3. Came(n)
    BY <1>1, <1>2, <1>4, <2>1, <2>2 DEF Came, TypeOK, TabTypes, s
  <2>4. ASSUME NEW c \in Sockets, c # n PROVE Undisturbed(c)
    <3>1. sock'[c] = sock[c] /\ wire'[c] = wire[c]
      BY <1>1, <2>1, <2>2, <2>4 DEF TypeOK, TabTypes
    <3> QED BY <1>2, <2>1, <3>1, LeftAsItWas
  <2> QED BY <1>1, <1>2, <2>1, <2>2, <2>3, <2>4 DEF Served, TabTypes
<1>7. ASSUME TurnAway(n, s, call[n].attach), Greet(n, <<<<"error">>, <<"bye">>>>) PROVE Served
  <2>1. /\ sock' = [sock EXCEPT ![n] = "gone"] /\ factory' = factory /\ registered' = registered
        /\ open' = open /\ asked' = asked /\ shown' = shown
    BY <1>7 DEF TurnAway, prompts
  <2>2. wire' = [wire EXCEPT ![n] = IF end[n] = "on" THEN <<<<"error">>, <<"bye">>>> ELSE <<>>]
    BY <1>7 DEF Greet
  <2>3. Over(n)
    <3>1. <<"error">> \in Messages /\ <<"bye">> \in Messages
      BY DEF Messages
    <3>2. <<>> \in Seq(Messages) /\ <<<<"error">>, <<"bye">>>> \in Seq(Messages)
      BY <3>1
    <3>3. wire'[n] \in Seq(Messages)
      BY <1>1, <2>2, <3>2 DEF TabTypes
    <3>4. sock'[n] = "gone" /\ end[n] # "unused"
      BY <1>1, <1>2, <2>1 DEF TypeOK
    <3> QED BY <3>3, <3>4 DEF Over
  <2>4. ASSUME NEW c \in Sockets, c # n PROVE Undisturbed(c)
    <3>1. sock'[c] = sock[c] /\ wire'[c] = wire[c]
      BY <1>1, <2>1, <2>2, <2>4 DEF TypeOK, TabTypes
    <3> QED BY <1>2, <2>1, <3>1, LeftAsItWas
  <2> QED BY <1>1, <1>2, <2>1, <2>2, <2>3, <2>4 DEF Served, TabTypes
<1> QED BY <1>5, <1>6, <1>7 DEF Connect, s, Id

LEMMA LoseServed ==
  ASSUME IInv, TabInv, NEW n \in Sockets, Lose(n) PROVE Served
<1>1. TypeOK /\ TabTypes
  BY DEF IInv, TabInv
<1>2. /\ Disconnect(n) /\ Greet(n, <<<<"bye">>>>) /\ sent' = {m \in sent : m[2] # n}
      /\ UNCHANGED <<tab, prompt, line, targets, noted, call, end, wanted>>
  BY DEF Lose, Rest
<1>3. /\ sock[n] \in Sessions /\ sock' = [sock EXCEPT ![n] = "gone"]
      /\ shown' = [shown EXCEPT ![n] = {}]
      /\ factory' = factory /\ registered' = registered /\ asked' = asked
      /\ \A s \in Sessions : open'[s] => open[s]
  BY <1>1, <1>2 DEF Disconnect, Gone, Detach, Settled
<1>4. wire' = [wire EXCEPT ![n] = IF end[n] = "on" THEN <<<<"bye">>>> ELSE <<>>]
  BY <1>2 DEF Greet
<1>5. Over(n)
  <2>1. <<"bye">> \in Messages
    BY DEF Messages
  <2>2. <<>> \in Seq(Messages) /\ <<<<"bye">>>> \in Seq(Messages)
    BY <2>1
  <2>3. wire'[n] \in Seq(Messages)
    BY <1>1, <1>4, <2>2 DEF TabTypes
  <2>4. sock'[n] = "gone" /\ sock[n] # "new"
    BY <1>1, <1>3, NamesAssumption DEF TypeOK
  <2> QED BY <2>3, <2>4 DEF Over
<1>6. ASSUME NEW c \in Sockets, c # n PROVE Undisturbed(c)
  <2>1. sock'[c] = sock[c] /\ wire'[c] = wire[c] /\ shown'[c] = shown[c]
    BY <1>1, <1>3, <1>4, <1>6 DEF TypeOK, TabTypes
  <2>2. \A t \in BOOLEAN : \A p : <<"answer", c, p, t>> \in sent => <<"answer", c, p, t>> \in sent'
    BY <1>2, <1>6
  <2> QED BY <1>3, <2>1, <2>2, LeftAsItWas
<1> QED BY <1>1, <1>2, <1>3, <1>4, <1>5, <1>6 DEF Served, TabTypes

LEMMA HearCloseServed ==
  ASSUME IInv, TabInv, NEW n \in Sockets, HearClose(n) PROVE Served
<1>1. TypeOK /\ TabTypes
  BY DEF IInv, TabInv
<1>2. /\ ExecClose(n) /\ sent' = {m \in sent : m[2] # n}
      /\ UNCHANGED <<tab, prompt, line, targets, noted, call, end, wanted, wire>>
  BY DEF HearClose, Rest
<1>3. /\ sock[n] \in Sessions /\ sock' = [sock EXCEPT ![n] = "gone"]
      /\ shown' = [shown EXCEPT ![n] = {}] /\ factory' = factory /\ asked' = asked
      /\ Close({sock[n]} \cap registered, machine, driver)
  BY <1>2 DEF ExecClose, Gone
<1>4. registered' \subseteq registered /\ \A s \in Sessions : open'[s] => open[s]
  BY <1>1, <1>3, CloseQuiets
<1>5. Over(n)
  <2>1. sock'[n] = "gone" /\ sock[n] # "new"
    BY <1>1, <1>3, NamesAssumption DEF TypeOK
  <2> QED BY <1>1, <1>2, <2>1 DEF Over, TabTypes
<1>6. ASSUME NEW c \in Sockets, c # n PROVE Undisturbed(c)
  <2>1. sock'[c] = sock[c] /\ wire'[c] = wire[c] /\ shown'[c] = shown[c]
    BY <1>1, <1>2, <1>3, <1>6 DEF TypeOK, TabTypes
  <2>2. \A t \in BOOLEAN : \A p : <<"answer", c, p, t>> \in sent => <<"answer", c, p, t>> \in sent'
    BY <1>2, <1>6
  <2> QED BY <1>3, <1>4, <2>1, <2>2, LeftAsItWas
<1> QED BY <1>1, <1>2, <1>3, <1>5, <1>6 DEF Served, TabTypes

\* An answer that arrives closes the question it is for; one for an earlier
\* question leaves the answer to the open one where it is.
LEMMA HearAnswerServed ==
  ASSUME IInv, TabInv, NEW n \in Sockets, HearAnswer(n) PROVE Served
<1>1. TypeOK /\ TabTypes /\ QuestionIsVisible /\ ShownPast
  BY DEF IInv, TabInv
<1>2. PICK p \in 1..MaxPrompts, trusts \in BOOLEAN :
        /\ Answer(n, call[n].id, p, trusts)
        /\ sent' = sent \ {<<"answer", n, p, trusts>>}
        /\ UNCHANGED <<tab, prompt, line, targets, noted, call, end, wanted, wire>>
  BY DEF HearAnswer, Rest
<1>3. sock[n] = Id(n) /\ p \in shown[n] /\ Id(n) \in Sessions
  BY <1>1, <1>2 DEF Answer, ShownPast, Id
<1>4. /\ sock' = sock /\ shown' = shown /\ asked' = asked /\ factory' = factory
      /\ registered' = registered
  BY <1>2 DEF Answer
<1>5. \A s \in Sessions : open'[s] => open[s] /\ ~(s = Id(n) /\ p = asked[s])
  <2>1. CASE AnswersOpen(Id(n), p)
    BY <1>1, <1>2, <2>1 DEF Answer, Id, Settled
  <2>2. CASE ~AnswersOpen(Id(n), p)
    BY <1>1, <1>2, <2>2 DEF Answer, Id, AnswersOpen, QuestionIsVisible
  <2> QED BY <2>1, <2>2
<1>6. ASSUME NEW c \in Sockets PROVE Undisturbed(c)
  <2>1. ASSUME sock[c] \in Sessions, open'[sock[c]], NEW t \in BOOLEAN,
               <<"answer", c, asked[sock[c]], t>> \in sent
        PROVE  <<"answer", c, asked[sock[c]], t>> \in sent'
    <3>1. CASE c = n
      BY <1>2, <1>3, <1>5, <2>1, <3>1
    <3>2. CASE c # n
      BY <1>2, <2>1, <3>2
    <3> QED BY <3>1, <3>2
  <2> QED BY <1>2, <1>4, <1>5, <2>1 DEF Undisturbed
<1> QED BY <1>1, <1>2, <1>4, <1>6 DEF Served, TabTypes

\* A question goes to the client, which nobody but the session's sockets are.
LEMMA AskServed ==
  ASSUME IInv, TabInv, NEW u \in Sessions, AskTab(u) PROVE Served
<1>1. TypeOK /\ Stages /\ TabTypes /\ ShownPast
  BY DEF IInv, TabInv
<1>2. Ask(u) /\ UNCHANGED <<tab, prompt, line, targets, noted, call, end, wanted, sent>>
  BY DEF AskTab, Rest
<1>3. /\ asked' = [asked EXCEPT ![u] = @ + 1] /\ ~open[u]
      /\ sock' = sock /\ factory' = factory /\ registered' = registered
  BY <1>2 DEF Ask
<1>4. CASE u \in registered /\ client[u] # NoSocket
  <2> DEFINE n == client[u]
  <2>1. n \in Sockets /\ sock[n] = u
    BY <1>1, <1>4 DEF TypeOK, Stages
  <2>2. /\ shown' = [shown EXCEPT ![n] = @ \cup {asked[u] + 1}]
        /\ open' = [open EXCEPT ![u] = TRUE]
    BY <1>2, <1>4 DEF Ask
  <2>3. Say(n, <<<<"prompt", asked[u] + 1>>>>)
    BY <1>4 DEF AskTab
  <2> HIDE DEF n
  <2>4. wire' = [d \in Sockets |-> IF d = n /\ sock[n] \in Sessions /\ end[n] = "on"
                                   THEN wire[d] \o <<<<"prompt", asked[u] + 1>>>> ELSE wire[d]]
    BY <2>3 DEF Say
  <2>5. AskedOn(n)
    <3>1. asked'[u] = asked[u] + 1
      BY <1>1, <1>3 DEF TypeOK
    <3>2. wire'[n] = IF end[n] = "on" THEN wire[n] \o <<<<"prompt", asked[u] + 1>>>> ELSE wire[n]
      BY <2>1, <2>4
    <3>3. wire[n] \o <<<<"prompt", asked[u] + 1>>>> = Append(wire[n], <<"prompt", asked[u] + 1>>)
      <4>1. wire[n] \in Seq(Messages) /\ asked[u] + 1 \in Nat
        BY <1>1, <2>1 DEF TabTypes, TypeOK
      <4>2. <<"prompt", asked[u] + 1>> \in Messages
        BY <4>1 DEF Messages, Going
      <4> QED BY <4>1, <4>2
    <3> QED BY <1>3, <2>1, <3>1, <3>2, <3>3 DEF AskedOn
  <2>6. ASSUME NEW c \in Sockets, c # n PROVE Undisturbed(c)
    <3>1. wire'[c] = wire[c] /\ shown'[c] = shown[c]
      BY <1>1, <2>2, <2>4, <2>6 DEF TypeOK
    <3>2. sock[c] = u => asked'[u] \notin shown'[c]
      <4>1. \A p \in shown[c] : sock[c] = u => p <= asked[u] /\ p \in Nat
        BY <1>1 DEF ShownPast, TypeOK
      <4>2. asked'[u] = asked[u] + 1 /\ asked[u] \in Nat
        BY <1>1, <1>3 DEF TypeOK
      <4> QED BY <3>1, <4>1, <4>2
    <3>3. sock[c] \in Sessions /\ sock[c] # u => asked'[sock[c]] = asked[sock[c]] /\ open'[sock[c]] = open[sock[c]]
      BY <1>1, <1>3, <2>2 DEF TypeOK
    <3> QED BY <1>2, <1>3, <3>1, <3>2, <3>3 DEF Undisturbed
  <2> QED BY <1>2, <1>3, <2>4, <2>5, <2>6 DEF Served
<1>5. CASE ~(u \in registered /\ client[u] # NoSocket)
  <2>1. wire' = wire /\ open' = open /\ shown' = shown
    BY <1>2, <1>5 DEF AskTab, Ask
  <2>2. ASSUME NEW c \in Sockets PROVE Undisturbed(c)
    <3>1. sock[c] \in Sessions /\ sock[c] # u => asked'[sock[c]] = asked[sock[c]]
      BY <1>1, <1>3 DEF TypeOK
    <3> QED BY <1>2, <1>3, <2>1, <3>1 DEF Undisturbed
  <2> QED BY <1>1, <1>2, <1>3, <2>1, <2>2 DEF Served, TabTypes
<1> QED BY <1>4, <1>5

\* What is said to one socket, or to none.
LEMMA SayFacts ==
  ASSUME TypeOK, TabTypes, NEW n, NEW ms \in Seq(Messages), Say(n, ms)
  PROVE  /\ DOMAIN wire' = Sockets /\ wire' = [c \in Sockets |-> wire'[c]]
         /\ \A c \in Sockets : wire'[c] \in Seq(Messages)
         /\ \A c \in Sockets : c # n \/ sock[c] \notin Sessions => wire'[c] = wire[c]
<1>1. wire' = [d \in Sockets |-> IF d = n /\ sock[n] \in Sessions /\ end[n] = "on"
                                 THEN wire[d] \o ms ELSE wire[d]]
  BY DEF Say
<1>2. \A c \in Sockets : wire[c] \in Seq(Messages) /\ wire[c] \o ms \in Seq(Messages)
  BY DEF TabTypes
<1> QED BY <1>1, <1>2

\* What a factory or a driver says goes to a socket of its own session, and
\* then there is no connect any more, or to one that has gone.
LEMMA OwnServed ==
  ASSUME IInv, TabInv, NEW u \in Sessions, NEW n, NEW ms \in Seq(Messages), Say(n, ms),
         n \in Sockets => sock[n] \in {u, "gone"},
         UNCHANGED <<tab, prompt, line, targets, noted, call, end, wanted, sent>>,
         asked' = asked, \A s \in Sessions \ {u} : factory'[s] = factory[s] /\ (open'[s] => open[s]),
         registered' \subseteq registered, ~open'[u], factory'[u] # "pending", factory[u] # "none",
         \A c \in Sockets : \/ sock'[c] = sock[c] /\ shown'[c] = shown[c]
                            \/ sock'[c] = "gone" /\ sock[c] # "new"
  PROVE  Served
<1>1. TypeOK /\ TabTypes
  BY DEF IInv, TabInv
<1>2. /\ DOMAIN wire' = Sockets /\ wire' = [c \in Sockets |-> wire'[c]]
      /\ \A c \in Sockets : wire'[c] \in Seq(Messages)
      /\ \A c \in Sockets : c # n \/ sock[c] \notin Sessions => wire'[c] = wire[c]
  BY <1>1, SayFacts
<1>3. ASSUME NEW c \in Sockets PROVE Undisturbed(c) \/ Over(c)
  <2>1. CASE sock'[c] = "gone" /\ sock[c] # "new"
    BY <1>2, <2>1 DEF Over
  <2>2. CASE sock'[c] = sock[c] /\ shown'[c] = shown[c] /\ sock[c] = u
    BY <1>2, <2>2 DEF Over
  <2>3. CASE sock'[c] = sock[c] /\ shown'[c] = shown[c] /\ sock[c] # u
    <3>1. wire'[c] = wire[c]
      BY <1>2, <2>3, NamesAssumption
    <3> QED BY <2>3, <3>1, LeftAsItWas
  <2> QED BY <2>1, <2>2, <2>3
<1>4. \A s \in Sessions : factory[s] = "none" => factory'[s] = "none"
  OBVIOUS
<1> QED BY <1>2, <1>3, <1>4 DEF Served

LEMMA ResolveServed == ASSUME IInv, TabInv, NEW u \in Sessions, ResolveTab(u) PROVE Served
<1>1. TypeOK /\ Stages
  BY DEF IInv
<1>2. /\ FactoryResolves(u) /\ Say(opener[u], <<<<"ready">>>>)
      /\ UNCHANGED <<tab, prompt, line, targets, noted, call, end, wanted, sent>>
  BY DEF ResolveTab, Rest
<1>3. /\ factory[u] = "pending" /\ ~open[u] /\ factory' = [factory EXCEPT ![u] = "resolved"]
      /\ registered' = registered /\ asked' = asked /\ open' = open /\ sock' = sock
      /\ shown' = shown
  BY <1>2 DEF FactoryResolves, prompts
<1>4. <<<<"ready">>>> \in Seq(Messages)
  <2>1. <<"ready">> \in Messages
    BY DEF Messages, Going
  <2> QED BY <2>1
<1>5. sock[opener[u]] \in {u, "gone"}
  BY <1>1, <1>3 DEF Stages
<1>6. \A s \in Sessions \ {u} : factory'[s] = factory[s] /\ (open'[s] => open[s])
  BY <1>1, <1>3 DEF TypeOK
<1>7. ~open'[u] /\ factory'[u] # "pending" /\ factory[u] # "none"
  BY <1>1, <1>3 DEF TypeOK
<1> QED BY <1>2, <1>3, <1>4, <1>5, <1>6, <1>7, OwnServed

LEMMA ErrorAndBye == <<<<"error">>, <<"bye">>>> \in Seq(Messages) /\ <<<<"exit">>>> \in Seq(Messages)
<1>1. <<"error">> \in Messages /\ <<"bye">> \in Messages /\ <<"exit">> \in Messages
  BY DEF Messages
<1> QED BY <1>1

LEMMA FailServed == ASSUME IInv, TabInv, NEW u \in Sessions, FailTab(u) PROVE Served
<1>1. TypeOK /\ Stages
  BY DEF IInv
<1>2. /\ FactoryFails(u) /\ Say(opener[u], <<<<"error">>, <<"bye">>>>)
      /\ UNCHANGED <<tab, prompt, line, targets, noted, call, end, wanted, sent>>
  BY DEF FailTab, Rest
<1>3. /\ factory[u] = "pending" /\ factory' = [factory EXCEPT ![u] = "rejected"]
      /\ registered' = registered \ {u} /\ asked' = asked /\ Settled({u}, "refused")
      /\ sock' = [sock EXCEPT ![opener[u]] = "gone"]
      /\ shown' = [shown EXCEPT ![opener[u]] = {}]
  BY <1>2 DEF FactoryFails, Gone
<1>4. opener[u] \in Sockets /\ sock[opener[u]] \in {u, "gone"}
  BY <1>1, <1>3 DEF Stages
<1>5. \A s \in Sessions \ {u} : factory'[s] = factory[s] /\ (open'[s] => open[s])
  BY <1>1, <1>3 DEF TypeOK, Settled
<1>6. ~open'[u] /\ factory'[u] # "pending" /\ factory[u] # "none"
  BY <1>1, <1>3 DEF TypeOK, Settled
<1>7. \A c \in Sockets : \/ sock'[c] = sock[c] /\ shown'[c] = shown[c]
                         \/ sock'[c] = "gone" /\ sock[c] # "new"
  BY <1>1, <1>3, <1>4, NamesAssumption DEF TypeOK
<1>8. registered' \subseteq registered
  BY <1>3
<1> QED BY <1>2, <1>3, <1>4, <1>5, <1>6, <1>7, <1>8, ErrorAndBye, OwnServed

LEMMA ExitServed == ASSUME IInv, TabInv, NEW u \in Sessions, ExitTab(u) PROVE Served
<1>1. TypeOK /\ Stages /\ QuestionIsVisible /\ TabTypes /\ Held
  BY DEF IInv, TabInv
<1>2. /\ DriverExits(u)
      /\ UNCHANGED <<tab, prompt, line, targets, noted, call, end, wanted, sent>>
  BY DEF ExitTab, Rest
<1>3. /\ driver[u] = "up" /\ factory' = factory /\ asked' = asked /\ sock' = sock /\ shown' = shown
      /\ Close({u} \cap registered, [machine EXCEPT ![u] = Transition(@, "closing")],
               [driver EXCEPT ![u] = "ended"])
  BY <1>2 DEF DriverExits
<1>4. registered' \subseteq registered /\ \A s \in Sessions : open'[s] => open[s]
  BY <1>1, <1>3, CloseQuiets
<1>5. factory[u] = "resolved" /\ ~open[u]
  BY <1>1, <1>3 DEF Stages, QuestionIsVisible
<1>6. CASE client[u] # NoSocket
  <2>1. Say(client[u], <<<<"exit">>>>)
    BY <1>6 DEF ExitTab
  <2>2. sock[client[u]] \in {u, "gone"}
    BY <1>1, <1>6 DEF Held
  <2> QED BY <1>2, <1>3, <1>4, <1>5, <2>1, <2>2, ErrorAndBye, OwnServed
<1>7. CASE client[u] = NoSocket
  <2>1. wire' = wire
    BY <1>7 DEF ExitTab
  <2>2. \A c \in Sockets : Undisturbed(c)
    BY <1>2, <1>3, <1>4, <2>1, LeftAsItWas
  <2> QED BY <1>1, <1>2, <1>3, <2>1, <2>2 DEF Served, TabTypes
<1> QED BY <1>6, <1>7

-----------------------------------------------------------------------------
(* The invariant, and what it says.                                        *)

LEMMA TabInitInv == TabsInit => IInv /\ TabInv
<1> SUFFICES ASSUME TabsInit PROVE IInv /\ TabInv OBVIOUS
<1>1. Init /\ IInv
  BY InitInv DEF TabsInit
<1>2. TabTypes
  <2>1. <<>> \in Seq(Messages) /\ "none" \in Statuses
    BY DEF Statuses
  <2> QED BY <2>1 DEF TabsInit, TabTypes
<1>3. /\ \A s \in Sessions : factory[s] = "none" /\ client[s] = NoSocket /\ ~open[s]
      /\ \A c \in Sockets : sock[c] = "new" /\ shown[c] = {}
      /\ registered = {}
  BY <1>1 DEF Init
<1>4. Held /\ Opened /\ ShownPast /\ Started
  BY <1>3, NamesAssumption DEF Held, Opened, ShownPast, Started
<1>5. ASSUME NEW c \in Sockets
      PROVE  Handshake(c) /\ Standing(c) /\ Hopeful(c) /\ Questioned(c)
  BY <1>3, NamesAssumption DEF TabsInit, Handshake, Standing, Hopeful, Questioned
<1> QED BY <1>1, <1>2, <1>4, <1>5 DEF TabInv

LEMMA TabStepInv == ASSUME IInv, TabInv, [TabsNext]_allVars PROVE [Next]_vars /\ IInv' /\ TabInv'
<1>1. TypeOK /\ TabTypes /\ ShownPast /\ Ends /\ \A c \in Sockets : Handshake(c)
  BY DEF IInv, TabInv, Ends
<1>2. [Next]_vars
  BY <1>1, RegistryStep
<1>3. IInv'
  BY <1>2, NextInv
<1>4. ASSUME NEW w \in Windows, WindowStep(w) PROVE TabInv'
  BY <1>1, <1>4, WindowActs, ActedInv DEF WindowStep
<1>5. ASSUME NEW c \in Sockets, UNCHANGED vars, Hear(c) \/ Refused(c) PROVE TabInv'
  BY <1>5, HearInv, RefusedInv
<1>6. ASSUME NEW c \in Sockets, Connect(c) \/ Lose(c) \/ HearClose(c) \/ HearAnswer(c)
      PROVE  TabInv'
  BY <1>2, <1>3, <1>6, ConnectServed, LoseServed, HearCloseServed,
     HearAnswerServed, ServedInv
<1>7. ASSUME NEW s \in Sessions, AskTab(s) \/ ResolveTab(s) \/ FailTab(s) \/ ExitTab(s)
      PROVE  TabInv'
  BY <1>2, <1>3, <1>7, AskServed, ResolveServed, FailServed, ExitServed, ServedInv
<1>8. ASSUME \/ \E s \in Sessions :
                  Quiet(PromptTimesOut(s)) \/ Quiet(DriverClosed(s)) \/ Quiet(TimerFires(s))
             \/ Quiet(StartForgotten)
      PROVE  TabInv'
  BY <1>2, <1>3, <1>8, QuietServed, ServedInv DEF Quiet
<1>9. ASSUME UNCHANGED allVars PROVE TabInv'
  <2>1. Acted
    BY <1>1, <1>9 DEF Acted, TabFrame, Untouched, Same, TabTypes, allVars, tabVars
  <2>2. UNCHANGED vars
    BY <1>9 DEF allVars
  <2> QED BY <2>1, <2>2, ActedInv
<1> QED BY <1>2, <1>3, <1>4, <1>5, <1>6, <1>7, <1>8, <1>9 DEF TabsNext

LEMMA TabInvHolds == TabsSpec => [](IInv /\ TabInv)
<1>1. (IInv /\ TabInv) /\ [TabsNext]_allVars => (IInv /\ TabInv)'
  BY TabStepInv
<1> QED BY TabInitInv, <1>1, PTL DEF TabsSpec

(* The browser's tabs are one of the ways the registry may be used: every  *)
(* run of the tabs is a run of the registry, so that all that is proved of *)
(* the registry holds for them (exec.service.ts).                          *)
THEOREM TabsUseTheRegistry == TabsSpec => Spec
<1>1. TabsInit => Init
  BY DEF TabsInit
<1>2. (IInv /\ TabInv) /\ [TabsNext]_allVars => [Next]_vars
  BY TabStepInv
<1> QED BY <1>1, <1>2, TabInvHolds, PTL DEF TabsSpec, Spec

(* No page that loads starts a shell, however many windows share the note  *)
(* and whenever they are loaded (session.registry.ts:144-150,              *)
(* sessions.ts:216-219).                                                   *)
THEOREM NoShellIsUnasked == TabsSpec => []NoShellUnasked
<1>1. TabInv => NoShellUnasked
  BY DEF TabInv, Started, NoShellUnasked
<1> QED BY <1>1, TabInvHolds, PTL

(* A question the server waits on is on a screen, on its way there or      *)
(* answered, also in a tab that was picked up in the middle of a connect   *)
(* (sessions-model.ts:100-106, prompts.ts:105-109).                        *)
THEOREM QuestionsAreOnScreen == TabsSpec => []QuestionOnScreen
<1>1. ASSUME IInv, TabInv PROVE QuestionOnScreen
  <2> SUFFICES ASSUME NEW s \in Sessions, open[s]
      PROVE \E c \in Sockets :
              /\ sock[c] = s /\ asked[s] \in shown[c]
              /\ \/ end[c] = "left"
                 \/ <<"prompt", asked[s]>> \in Range(wire[c])
                 \/ LET w == call[c].by IN tab[w][s] = "awaiting-prompt" /\ prompt[w][s] = asked[s]
                 \/ \E t \in BOOLEAN : <<"answer", c, asked[s], t>> \in sent
    BY DEF QuestionOnScreen
  <2>1. PICK c \in Sockets : sock[c] = s /\ asked[s] \in shown[c]
    BY <1>1 DEF IInv, QuestionIsVisible
  <2>2. Handshake(c) /\ Questioned(c) /\ wire[c] \in Seq(Messages)
    BY <1>1 DEF TabInv, TabTypes
  <2>3. CASE end[c] = "left"
    BY <2>1, <2>3
  <2>4. CASE OnTheWay(c)
    <3>1. Len(wire[c]) \in DOMAIN wire[c] /\ wire[c][Len(wire[c])] = <<"prompt", asked[s]>>
      BY <2>1, <2>2, <2>4 DEF OnTheWay
    <3> QED BY <2>1, <3>1 DEF Range
  <2>5. CASE Seen(c)
    BY <2>1, <2>2, <2>5 DEF Seen, Handshake
  <2> QED BY <2>1, <2>2, <2>3, <2>4, <2>5 DEF Handshake, Questioned
<1> QED BY <1>1, TabInvHolds, PTL
=============================================================================
