---------------------------- MODULE TerminalTabs ----------------------------
(***************************************************************************)
(* The terminal tabs of the browser's windows over the server's sessions:  *)
(* what a tab says of its shell, the note in localStorage that a reload    *)
(* brings the tabs back from, and a connection per tab whose messages take *)
(* their time while the server goes on.                                    *)
(*   apps/web/src/stores/sessions.ts, apps/web/src/router.tsx (restore)    *)
(*   apps/web/src/lib/terminal/{sessions-model,open-tabs}.ts               *)
(*   apps/web/src/lib/socket.ts (createExecSocket: no reconnection)        *)
(*   apps/server/src/api/exec/exec.service.ts (what is sent, and when)     *)
(*                                                                         *)
(* Every action of ExecRegistry appears here with what it sends, but for   *)
(* the output, which no tab's status depends on, and the shutdown: to a    *)
(* tab a server that goes is a connection that is lost.                    *)
(***************************************************************************)
EXTENDS ExecRegistry

CONSTANTS
    Windows,
    NoCall,
    MaxNames        \* bound: windows and session ids that are used, together

ASSUME NoCallAssumption == NoCall \notin [by : Windows, id : Sessions, attach : BOOLEAN]

VARIABLES
    tab,            \* what each window says of each session: "none", no tab
    prompt,         \* the question it shows, by its number
    line,           \* sockets: the connection of each tab
    targets,        \* per window: the tabs a retry or a note can be made from
    noted,          \* the note in localStorage, one for all windows
    call,           \* what each connection was made for: the handshake
    end,            \* the client's end of it: unused, on, left, refused
    wire,           \* what the server sent and the window has not heard
    sent,           \* closes and answers on their way to the server
    wanted          \* history: the connections made for somebody's open or retry

tabVars == <<tab, prompt, line, targets, noted, call, end, wire, sent, wanted>>
allVars == <<vars, tabVars>>

Calls == [by : Windows, id : Sessions, attach : BOOLEAN]

TabsInit ==
    /\ Init
    /\ tab = [w \in Windows |-> [s \in Sessions |-> "none"]]
    /\ prompt = [w \in Windows |-> [s \in Sessions |-> 0]]
    /\ line = [w \in Windows |-> [s \in Sessions |-> NoSocket]]
    /\ targets = [w \in Windows |-> {}]
    /\ noted = {}
    /\ call = [c \in Sockets |-> NoCall]
    /\ end = [c \in Sockets |-> "unused"]
    /\ wire = [c \in Sockets |-> <<>>]
    /\ sent = {}
    /\ wanted = {}

-----------------------------------------------------------------------------
(* sessions-model.ts. *)

\* Mutated form: a tab that is ready is asked nothing any more.
FollowsUnasked(status) ==
    CASE status = "connecting" -> {"awaiting-prompt", "ready", "exited", "errored"}
      [] status = "awaiting-prompt" -> {"connecting", "ready", "exited", "errored"}
      [] status = "ready" -> {"exited", "errored"}
      [] OTHER -> {}

Follows(status) ==
    CASE status = "connecting" -> {"awaiting-prompt", "ready", "exited", "errored"}
      [] status = "awaiting-prompt" -> {"connecting", "ready", "exited", "errored"}
      [] status = "ready" -> {"awaiting-prompt", "exited", "errored"}
      [] OTHER -> {}

(* applyStatus.  A question comes with its own number, also to a tab that  *)
(* shows one already; any other change takes the question away.            *)
ApplyStatus(w, s, status, p) ==
    IF status \in Follows(tab[w][s]) \/ (status = tab[w][s] /\ p > 0)
    THEN /\ tab' = [tab EXCEPT ![w][s] = status]
         /\ prompt' = [prompt EXCEPT ![w][s] = p]
    ELSE UNCHANGED <<tab, prompt>>

-----------------------------------------------------------------------------
(* What a window does. *)

NextUnused == CHOOSE c \in Sockets : end[c] = "unused"
Unused == {c \in Sockets : end[c] = "unused"}
NewIds == {s \in Sessions : \A c \in Sockets : call[c] # NoCall => call[c].id # s}

\* The client hears nothing more of a connection it leaves.
Dropped(ends) == [c \in Sockets |-> IF ends[c] = "on" THEN wire[c] ELSE <<>>]

Leave(cs) == [c \in Sockets |-> IF c \in cs /\ end[c] = "on" THEN "left" ELSE end[c]]

\* open, on top of what the same callback did to the tabs before.
OpenOn(w, s, tabs, prompts_, lines, ends, tgts) ==
    LET c == NextUnused IN
    /\ tab' = [tab EXCEPT ![w] = [tabs EXCEPT ![s] = "connecting"]]
    /\ prompt' = [prompt EXCEPT ![w] = prompts_]
    /\ line' = [line EXCEPT ![w] = [lines EXCEPT ![s] = c]]
    /\ targets' = [targets EXCEPT ![w] = tgts \cup {s}]
    /\ noted' = tgts \cup {s}
    /\ call' = [call EXCEPT ![c] = [by |-> w, id |-> s, attach |-> FALSE]]
    /\ end' = [ends EXCEPT ![c] = "on"]
    /\ wire' = Dropped(end')
    /\ wanted' = wanted \cup {c}
    /\ UNCHANGED sent

OpenTab(w) ==
    /\ Unused # {} /\ NewIds # {}
    /\ OpenOn(w, CHOOSE s \in NewIds : TRUE, tab[w], prompt[w], line[w], end, targets[w])

\* retry: the old id stays in targets, and with it in the note.
RetryTab(w, s) ==
    /\ tab[w][s] \in {"exited", "errored"} /\ s \in targets[w]
    /\ Unused # {} /\ NewIds # {}
    /\ OpenOn(w, CHOOSE t \in NewIds : TRUE, [tab[w] EXCEPT ![s] = "none"],
              [prompt[w] EXCEPT ![s] = 0], [line[w] EXCEPT ![s] = NoSocket],
              Leave({line[w][s]}), targets[w])

\* close: exec:close first, which only a connected socket sends.
CloseTab(w, s) ==
    LET c == line[w][s] IN
    /\ tab[w][s] # "none"
    /\ sent' = IF end[c] = "on" /\ sock[c] = s THEN sent \cup {<<"close", c>>} ELSE sent
    /\ end' = Leave({c})
    /\ tab' = [tab EXCEPT ![w][s] = "none"]
    /\ prompt' = [prompt EXCEPT ![w][s] = 0]
    /\ line' = [line EXCEPT ![w][s] = NoSocket]
    /\ targets' = [targets EXCEPT ![w] = @ \ {s}]
    /\ noted' = targets'[w]
    /\ wire' = Dropped(end')
    /\ UNCHANGED <<call, wanted>>

\* answerPrompt, from the question on screen.
AnswerTab(w, s, trusts) ==
    LET c == line[w][s] IN
    /\ tab[w][s] = "awaiting-prompt"
    /\ sent' = IF end[c] = "on" /\ sock[c] = s
               THEN sent \cup {<<"answer", c, prompt[w][s], trusts>>} ELSE sent
    /\ ApplyStatus(w, s, "connecting", 0)
    /\ UNCHANGED <<line, targets, noted, call, end, wire, wanted>>

\* Mutated form: a tab that is brought back opens what it cannot pick up.
RestoredOpening(w, s) == [by |-> w, id |-> s, attach |-> FALSE]

Restored(w, s) == [by |-> w, id |-> s, attach |-> TRUE]

(* A page loads, in place of the one the window showed before: its tabs go *)
(* with their connections, and restore brings back what the note names.    *)
Load(w) ==
    LET S == noted
        cs == {c \in Sockets : call[c] # NoCall /\ call[c].by = w} IN
    /\ targets[w] # {} \/ noted # {}
    /\ Cardinality(S) <= Cardinality(Unused)
    /\ \E f \in Injection(S, Unused) :
        /\ line' = [line EXCEPT ![w] = [s \in Sessions |-> IF s \in S THEN f[s] ELSE NoSocket]]
        /\ call' = [c \in Sockets |->
                      IF \E s \in S : f[s] = c
                      THEN Restored(w, CHOOSE s \in S : f[s] = c) ELSE call[c]]
        /\ end' = [c \in Sockets |-> IF \E s \in S : f[s] = c THEN "on" ELSE Leave(cs)[c]]
    /\ tab' = [tab EXCEPT ![w] = [s \in Sessions |-> IF s \in S THEN "connecting" ELSE "none"]]
    /\ prompt' = [prompt EXCEPT ![w] = [s \in Sessions |-> 0]]
    /\ targets' = [targets EXCEPT ![w] = S]
    /\ wire' = Dropped(end')
    /\ UNCHANGED <<noted, sent, wanted>>

\* A window is closed, and its connections with it.
Shut(w) ==
    /\ \E s \in Sessions : tab[w][s] # "none"
    /\ end' = Leave({c \in Sockets : call[c] # NoCall /\ call[c].by = w})
    /\ tab' = [tab EXCEPT ![w] = [s \in Sessions |-> "none"]]
    /\ prompt' = [prompt EXCEPT ![w] = [s \in Sessions |-> 0]]
    /\ line' = [line EXCEPT ![w] = [s \in Sessions |-> NoSocket]]
    /\ targets' = [targets EXCEPT ![w] = {}]
    /\ wire' = Dropped(end')
    /\ UNCHANGED <<noted, call, sent, wanted>>

\* The window hears what came first: ready, a question, the end, the bye.
Hear(c) ==
    LET m == wire[c][1]  w == call[c].by  s == call[c].id IN
    /\ end[c] = "on" /\ wire[c] # <<>>
    /\ wire' = [wire EXCEPT ![c] = Tail(@)]
    /\ CASE m[1] = "ready"  -> ApplyStatus(w, s, "ready", 0)
         [] m[1] = "prompt" -> ApplyStatus(w, s, "awaiting-prompt", m[2])
         [] m[1] = "error"  -> ApplyStatus(w, s, "errored", 0)
         [] m[1] \in {"exit", "bye"} -> ApplyStatus(w, s, "exited", 0)
    /\ UNCHANGED <<line, targets, noted, call, end, sent, wanted>>

\* connect_error: the handshake does not complete, and is not tried again.
Refused(c) ==
    /\ end[c] = "on" /\ sock[c] = "new"
    /\ end' = [end EXCEPT ![c] = "refused"]
    /\ ApplyStatus(call[c].by, call[c].id, "errored", 0)
    /\ UNCHANGED <<line, targets, noted, call, wire, sent, wanted>>

-----------------------------------------------------------------------------
(* What the server does, with what it sends.  Nothing is sent to a socket  *)
(* that is not connected.                                                  *)

Say(c, ms) ==
    wire' = [d \in Sockets |-> IF d = c /\ sock[c] \in Sessions /\ end[c] = "on"
                              THEN wire[d] \o ms ELSE wire[d]]

Greet(c, ms) == wire' = [wire EXCEPT ![c] = IF end[c] = "on" THEN ms ELSE <<>>]

Rest == <<tab, prompt, line, targets, noted, call, end, wanted>>

\* A handshake may arrive although its tab has gone by then.
Connect(c) ==
    LET h == call[c] IN
    /\ end[c] \in {"on", "left"} /\ sock[c] = "new"
    /\ \/ h.id \notin registered /\ ~h.attach /\ Open(c, h.id) /\ UNCHANGED wire
       \/ Resume(c, h.id) /\ Greet(c, <<<<"ready">>>>)
       \/ TurnAway(c, h.id, h.attach) /\ Greet(c, <<<<"error">>, <<"bye">>>>)
    /\ UNCHANGED <<Rest, sent>>

\* The server loses a connection: because the client left, or by itself.
Lose(c) ==
    /\ Disconnect(c)
    /\ Greet(c, <<<<"bye">>>>)
    /\ sent' = {m \in sent : m[2] # c}
    /\ UNCHANGED Rest

HearClose(c) ==
    /\ <<"close", c>> \in sent
    /\ ExecClose(c)
    /\ sent' = {m \in sent : m[2] # c}
    /\ UNCHANGED <<Rest, wire>>

HearAnswer(c) ==
    \E p \in 1..MaxPrompts, trusts \in BOOLEAN :
        /\ <<"answer", c, p, trusts>> \in sent
        /\ Answer(c, call[c].id, p, trusts)
        /\ sent' = sent \ {<<"answer", c, p, trusts>>}
        /\ UNCHANGED <<Rest, wire>>

AskTab(s) ==
    /\ Ask(s)
    /\ IF s \in registered /\ client[s] # NoSocket
       THEN Say(client[s], <<<<"prompt", asked[s] + 1>>>>) ELSE UNCHANGED wire
    /\ UNCHANGED <<Rest, sent>>

\* exec:ready follows the factory, whatever became of the session meanwhile.
ResolveTab(s) == FactoryResolves(s) /\ Say(opener[s], <<<<"ready">>>>) /\ UNCHANGED <<Rest, sent>>

FailTab(s) ==
    /\ FactoryFails(s)
    /\ Say(opener[s], <<<<"error">>, <<"bye">>>>)
    /\ UNCHANGED <<Rest, sent>>

\* The error that may go before a kubectl's exit ends its tab just the same.
ExitTab(s) ==
    /\ DriverExits(s)
    /\ IF client[s] # NoSocket THEN Say(client[s], <<<<"exit">>>>) ELSE UNCHANGED wire
    /\ UNCHANGED <<Rest, sent>>

\* What nobody is told.
Quiet(A) == A /\ UNCHANGED tabVars

\* The bound on names; and, windows being alike, one of them is the first.
Bounded(w) ==
    LET Made == {call'[c] : c \in {d \in Sockets : call'[d] # NoCall}} IN
    /\ Cardinality({h.by : h \in Made}) + Cardinality({h.id : h \in Made}) <= MaxNames
    /\ (\A c \in Sockets : call[c] = NoCall) => w = CHOOSE v \in Windows : TRUE

WindowStep(w) ==
    /\ \/ OpenTab(w) \/ Load(w) \/ Shut(w)
       \/ \E s \in Sessions : RetryTab(w, s) \/ CloseTab(w, s) \/ \E t \in BOOLEAN : AnswerTab(w, s, t)
    /\ Bounded(w)
    /\ UNCHANGED vars

TabsNext ==
    \/ \E w \in Windows : WindowStep(w)
    \/ \E c \in Sockets : UNCHANGED vars /\ (Hear(c) \/ Refused(c))
    \/ \E c \in Sockets : Connect(c) \/ Lose(c) \/ HearClose(c) \/ HearAnswer(c)
    \/ \E s \in Sessions : AskTab(s) \/ ResolveTab(s) \/ FailTab(s) \/ ExitTab(s)
    \/ \E s \in Sessions : Quiet(PromptTimesOut(s)) \/ Quiet(DriverClosed(s)) \/ Quiet(TimerFires(s))
    \/ Quiet(StartForgotten)

(* Timers fire, and the server notices in the end that a client has left.  *)
TabsFairness ==
    /\ \A s \in Sessions : WF_allVars(Quiet(TimerFires(s))) /\ WF_allVars(Quiet(PromptTimesOut(s)))
    /\ \A c \in Sockets : WF_allVars(end[c] = "left" /\ Lose(c))

TabsSpec == TabsInit /\ [][TabsNext]_allVars /\ TabsFairness

-----------------------------------------------------------------------------
(* No page that loads starts a shell: whatever the note holds, a session   *)
(* is started only for a tab that a person opened or retried               *)
(* (session.registry.ts:144-150, sessions.ts:216-219).                     *)
NoShellUnasked ==
    \A s \in Sessions : factory[s] # "none" => opener[s] \in wanted /\ call[opener[s]].id = s

(* A question is where a person can see it, or on its way there, or the    *)
(* answer is on its way back, for as long as the server waits for one:     *)
(* also in a tab that was picked up in the middle of a connect             *)
(* (sessions-model.ts:100-106, prompts.ts:105-109).                        *)
QuestionOnScreen ==
    \A s \in Sessions : open[s] =>
        \E c \in Sockets :
            /\ sock[c] = s /\ asked[s] \in shown[c]
            /\ \/ end[c] = "left"
               \/ <<"prompt", asked[s]>> \in Range(wire[c])
               \/ LET w == call[c].by IN tab[w][s] = "awaiting-prompt" /\ prompt[w][s] = asked[s]
               \/ \E t \in BOOLEAN : <<"answer", c, asked[s], t>> \in sent

(* A shell whose window has gone ends, unless another tab takes it up: its *)
(* connection is missed and the grace period ends it                       *)
(* (session.registry.ts:306-318).                                          *)
LeftAlone(s) ==
    s \in registered /\ driver[s] = "up" /\ client[s] # NoSocket /\ end[client[s]] = "left"
LeftShellEnds ==
    \A s \in Sessions : LeftAlone(s) ~>
        (s \notin registered \/ (client[s] # NoSocket /\ end[client[s]] = "on"))

(* Disagrees with the code: a tab that is ready over a standing connection *)
(* has a shell to type to (sessions-model.ts:96-98).                       *)
TypingIsRead ==
    \A w \in Windows, s \in Sessions :
        LET c == line[w][s] IN
        tab[w][s] = "ready" /\ end[c] = "on" /\ sock[c] = s /\ wire[c] = <<>> =>
            s \in registered
=============================================================================
