---------------------------- MODULE SettingsSync ----------------------------
(***************************************************************************)
(* The settings as the open windows see them.  A window edits its own copy *)
(* first and sends a patch over HTTP; the server commits it, tells every   *)
(* connected window over Socket.IO and answers with the new snapshot.  A   *)
(* window takes or drops what it hears by revision and by origin.          *)
(*   apps/web/src/stores/settings.ts, apps/web/src/lib/settings/*          *)
(*   apps/server/src/api/settings/{settings.router,settings.events}.ts     *)
(*   apps/server/src/api/settings/settings.store.ts (commit)               *)
(*                                                                         *)
(* Every act of a user has a number of its own, and a field holds the      *)
(* number of the act that wrote it last, so that two values are equal only *)
(* if they are the same act's; 0 stands for what was there before.  Faults *)
(* says what the links and the server may do besides working in order.     *)
(***************************************************************************)
EXTENDS Naturals, Sequences, SequencesExt, FiniteSets

CONSTANTS
    Windows,    \* the open windows, named by their ORIGIN_ID
    Fields,     \* the fields a patch may carry
    Maps,       \* entries of the silences, recents and layouts: no patch has them
    Faults,     \* what may go wrong, see FaultKinds
    Seed,       \* what a window's cache holds before the server answers
    MaxActs,    \* bound: acts of the users
    MaxDrops    \* bound: broken sockets, lost calls and restarts

\* channels: the answers (HTTP) and the broadcasts (the socket) each arrive in
\* their own order, not in one.
\* overtake: requests, and answers, may overtake one another as well.
\* drop: a window's socket may break; it connects again.
\* lose: a request or its answer may be lost, which the window sees as an error.
\* restart: the server may restart.
\* fresh: the server has committed nothing since it started, so its revision
\* is 0, whether it found a settings.json or not.
FaultKinds == {"channels", "overtake", "drop", "lose", "restart", "fresh"}

ASSUME FaultsAssumption == Faults \subseteq FaultKinds
ASSUME BoundsAssumption == MaxActs \in Nat /\ MaxDrops \in Nat
ASSUME SeedAssumption == Seed \in {0, MaxActs + 1}
ASSUME KeysAssumption == Fields \cap Maps = {}

VARIABLES
    doc, rev, pristine,     \* the server's store
    shown,      \* [Windows -> document]: the settings on the screen
    mark,       \* the watermark, state.revision
    pending,    \* outbox: the patch not sent yet
    inFlight,   \* outbox: the patches sent and not answered, [id, patch]
    nextId,     \* outbox: the next id
    first,      \* the first load has not been answered yet
    connected,  \* the window's socket is up
    sent,       \* requests on their way to the server
    inbox,      \* answers and broadcasts on their way to the window
    acts, drops,
    at,         \* history: the revision that committed an act, or 0
    imported    \* history: the imports the server adopted

server  == <<doc, rev, pristine, at, imported>>
outbox  == <<pending, inFlight, nextId>>
screens == <<shown, mark, first>>
links   == <<connected, sent, inbox>>
vars    == <<server, outbox, screens, links, acts, drops>>

-----------------------------------------------------------------------------
Keys == Fields \cup Maps
Acts == 1 .. MaxActs
Values == 0 .. MaxActs + 1
Docs == [Keys -> Values]
None == MaxActs + 2                     \* the patch does not carry this field
Patches == [Fields -> Acts \cup {None}]
NoOne == "null"                         \* the originId of what no window caused
ASSUME OriginAssumption == NoOne \notin Windows

Empty == [k \in Fields |-> None]

\* applyPatch: the patch's fields over a document.
Over(base, patch) ==
    [k \in Keys |-> IF k \in Fields /\ patch[k] # None THEN patch[k] ELSE base[k]]

\* mergePatches: the later patch's fields win.
Merge(base, next) == [k \in Fields |-> IF next[k] # None THEN next[k] ELSE base[k]]

\* The last patch in flight that carries a field is the one that counts.
Carrying(w, k) == {s \in inFlight[w] : s.patch[k] # None}
Latest(S) == CHOOSE s \in S : \A t \in S : t.id <= s.id
InFlight(w) == [k \in Fields |-> IF Carrying(w, k) = {} THEN None
                                 ELSE Latest(Carrying(w, k)).patch[k]]
Unconfirmed(w) == Merge(InFlight(w), pending[w])

Request(kind, id, patch, key, act) ==
    [kind |-> kind, id |-> id, patch |-> patch, key |-> key, act |-> act]
Get == Request("get", 0, Empty, "none", 0)
Send(w, request) == sent' = [sent EXCEPT ![w] = Append(@, request)]

\* Everything the server says carries the whole snapshot.
Message(kind, id, origin, d, r, p) ==
    [kind |-> kind, id |-> id, origin |-> origin, doc |-> d, rev |-> r, pristine |-> p]

Init ==
    /\ doc = [k \in Keys |-> 0]
    /\ IF "fresh" \in Faults THEN pristine \in BOOLEAN /\ rev = 0
                             ELSE pristine = FALSE /\ rev = 1
    /\ shown = [w \in Windows |-> [k \in Keys |-> Seed]]
    /\ mark = [w \in Windows |-> 0]
    /\ pending = [w \in Windows |-> Empty]
    /\ inFlight = [w \in Windows |-> {}]
    /\ nextId = [w \in Windows |-> 1]
    /\ first = [w \in Windows |-> TRUE]
    /\ connected = [w \in Windows |-> TRUE]
    /\ sent = [w \in Windows |-> <<Get>>]
    /\ inbox = [w \in Windows |-> <<>>]
    /\ acts = 0 /\ drops = 0
    /\ at = [a \in Acts |-> 0]
    /\ imported = {}

-----------------------------------------------------------------------------
(* What a person does in a window. *)

\* updateSettings: the screen first, then the outbox; the timer sends it.
Edit(w, k) ==
    /\ acts < MaxActs
    /\ acts' = acts + 1
    /\ LET patch == [Empty EXCEPT ![k] = acts']
       IN  /\ shown' = [shown EXCEPT ![w] = Over(@, patch)]
           /\ pending' = [pending EXCEPT ![w] = Merge(@, patch)]
    /\ UNCHANGED <<server, inFlight, nextId, mark, first, links, drops>>

SendPending(w) ==
    /\ pending[w] # Empty
    /\ inFlight' = [inFlight EXCEPT ![w] =
                      @ \cup {[id |-> nextId[w], patch |-> pending[w]]}]
    /\ Send(w, Request("update", nextId[w], pending[w], "none", 0))
    /\ pending' = [pending EXCEPT ![w] = Empty]
    /\ nextId' = [nextId EXCEPT ![w] = @ + 1]
    /\ UNCHANGED <<server, screens, connected, inbox, acts, drops>>

\* applySilence and applyRecent: sent at once, and not applied here first.
Silence(w, k) ==
    /\ acts < MaxActs
    /\ acts' = acts + 1
    /\ Send(w, Request("op", 0, Empty, k, acts'))
    /\ UNCHANGED <<server, outbox, screens, connected, inbox, drops>>

\* applyTableLayout, and a pin that is moved: applied here first, yet not
\* through the outbox.
Rearrange(w, k) ==
    /\ acts < MaxActs
    /\ acts' = acts + 1
    /\ shown' = [shown EXCEPT ![w][k] = acts']
    /\ Send(w, Request("op", 0, Empty, k, acts'))
    /\ UNCHANGED <<server, outbox, mark, first, connected, inbox, drops>>

Reset(w) ==
    /\ acts < MaxActs
    /\ acts' = acts + 1
    /\ Send(w, Request("reset", 0, Empty, "none", acts'))
    /\ UNCHANGED <<server, outbox, screens, connected, inbox, drops>>

-----------------------------------------------------------------------------
(* The server. *)

\* commit: every connected window is told before the caller is answered.
CommitAs(w, new, did, origin, answer) ==
    /\ doc' = new
    /\ rev' = rev + 1
    /\ pristine' = FALSE
    /\ at' = [a \in Acts |-> IF a \in did THEN rev' ELSE at[a]]
    /\ inbox' = [v \in Windows |->
         inbox[v]
         \o (IF connected[v]
             THEN <<Message("changed", 0, origin, new, rev', FALSE)>> ELSE <<>>)
         \o (IF v = w THEN <<Message(answer.kind, answer.id, NoOne, new, rev', FALSE)>>
                      ELSE <<>>)]

Says(w, kind, id) ==
    inbox' = [inbox EXCEPT ![w] =
                Append(@, Message(kind, id, NoOne, doc, rev, pristine))]

Took(w, i) ==
    /\ i = 1 \/ "overtake" \in Faults
    /\ sent' = [sent EXCEPT ![w] = RemoveAt(@, i)]

HandleGet(w, i) ==
    /\ sent[w][i].kind = "get"
    /\ Took(w, i)
    /\ Says(w, "got", 0)
    /\ UNCHANGED <<server, outbox, screens, connected, acts, drops>>

HandleUpdate(w, i) ==
    LET request == sent[w][i]
    IN  /\ request.kind = "update"
        /\ Took(w, i)
        /\ CommitAs(w, Over(doc, request.patch),
                    {request.patch[k] : k \in Fields}, w,
                    [kind |-> "updated", id |-> request.id])
        /\ UNCHANGED <<imported, outbox, screens, connected, acts, drops>>

\* Mutated form: an operation carries its window's originId as an update does.
HandleOpSigned(w, i) ==
    LET request == sent[w][i]
    IN  /\ request.kind = "op"
        /\ Took(w, i)
        /\ CommitAs(w, [doc EXCEPT ![request.key] = request.act],
                    {request.act}, w, [kind |-> "applied", id |-> 0])
        /\ UNCHANGED <<imported, outbox, screens, connected, acts, drops>>

HandleOp(w, i) ==
    LET request == sent[w][i]
    IN  /\ request.kind = "op"
        /\ Took(w, i)
        /\ CommitAs(w, [doc EXCEPT ![request.key] = request.act],
                    {request.act}, NoOne, [kind |-> "applied", id |-> 0])
        /\ UNCHANGED <<imported, outbox, screens, connected, acts, drops>>

HandleReset(w, i) ==
    LET request == sent[w][i]
    IN  /\ request.kind = "reset"
        /\ Took(w, i)
        /\ CommitAs(w, [k \in Keys |-> request.act],
                    {request.act}, NoOne, [kind |-> "applied", id |-> 0])
        /\ UNCHANGED <<imported, outbox, screens, connected, acts, drops>>

\* Mutated form: an import is adopted whatever the server has.
HandleImportAlways(w, i) ==
    LET request == sent[w][i]
    IN  /\ request.kind = "import"
        /\ Took(w, i)
        /\ CommitAs(w, [k \in Keys |-> request.act],
                    {request.act}, NoOne, [kind |-> "applied", id |-> 0])
        /\ imported' = imported \cup {request.act}
        /\ UNCHANGED <<outbox, screens, connected, acts, drops>>

\* Adopted only while no settings exist; else answered with imported: false.
HandleImport(w, i) ==
    LET request == sent[w][i]
    IN  /\ request.kind = "import"
        /\ Took(w, i)
        /\ IF pristine
           THEN /\ CommitAs(w, [k \in Keys |-> request.act],
                            {request.act}, NoOne, [kind |-> "applied", id |-> 0])
                /\ imported' = imported \cup {request.act}
           ELSE Says(w, "refused", 0) /\ UNCHANGED server
        /\ UNCHANGED <<outbox, screens, connected, acts, drops>>

-----------------------------------------------------------------------------
(* What a window hears. *)

IsAnswer(message) == message.kind # "changed"

\* Broadcasts keep their order among themselves, whatever else happens.
Alike(m1, m2) == IsAnswer(m1) <=> IsAnswer(m2)
Heard(w, i) ==
    /\ \/ i = 1
       \/ /\ "channels" \in Faults
          /\ \A j \in 1 .. i - 1 : ~Alike(inbox[w][i], inbox[w][j])
       \/ "overtake" \in Faults /\ IsAnswer(inbox[w][i])
    /\ inbox' = [inbox EXCEPT ![w] = RemoveAt(@, i)]

\* reconcile: a snapshot is applied if it is newer than the watermark and not
\* this window's own echo; the watermark moves up either way.
Applies(w, message, origin) == message.rev > mark[w] /\ origin # w
\* Mutated form: an own echo is dropped and the watermark stays where it was.
WatermarkOfOthers(w, message, origin) ==
    IF Applies(w, message, origin) THEN message.rev ELSE mark[w]
Watermark(w, message, origin) ==
    IF message.rev > mark[w] THEN message.rev ELSE mark[w]

\* Mutated form: the snapshot reaches the screen as it stands.
AcceptBare(w, message, origin, overlay) ==
    /\ mark' = [mark EXCEPT ![w] = Watermark(w, message, origin)]
    /\ shown' = IF Applies(w, message, origin)
                THEN [shown EXCEPT ![w] = message.doc] ELSE shown
\* accept, with what the outbox holds then laid over the snapshot.
Accept(w, message, origin, overlay) ==
    /\ mark' = [mark EXCEPT ![w] = Watermark(w, message, origin)]
    /\ shown' = IF Applies(w, message, origin)
                THEN [shown EXCEPT ![w] = Over(message.doc, overlay)] ELSE shown

\* Mutated form: a patch that was answered is never dropped.
SettleNothing(w, id) == UNCHANGED inFlight
Settle(w, id) ==
    inFlight' = [inFlight EXCEPT ![w] = {s \in @ : s.id # id}]

HearChanged(w, i) ==
    /\ inbox[w][i].kind = "changed"
    /\ Heard(w, i)
    /\ Accept(w, inbox[w][i], inbox[w][i].origin, Unconfirmed(w))
    /\ UNCHANGED <<server, outbox, first, connected, sent, acts, drops>>

\* The answer to updateSettings settles its patch and is then an own echo.
HearUpdated(w, i) ==
    /\ inbox[w][i].kind = "updated"
    /\ Heard(w, i)
    /\ Settle(w, inbox[w][i].id)
    /\ Accept(w, inbox[w][i], w, Unconfirmed(w)')
    /\ UNCHANGED <<server, pending, nextId, first, connected, sent, acts, drops>>

\* The answer to an operation, a reset or an adopted import.
HearApplied(w, i) ==
    /\ inbox[w][i].kind = "applied"
    /\ Heard(w, i)
    /\ Accept(w, inbox[w][i], NoOne, Unconfirmed(w))
    /\ UNCHANGED <<server, outbox, first, connected, sent, acts, drops>>

HearRefused(w, i) ==
    /\ inbox[w][i].kind = "refused"
    /\ Heard(w, i)
    /\ UNCHANGED <<server, outbox, screens, connected, sent, acts, drops>>

\* A request failed: an update settles all the same, the rest is ignored.
HearFailed(w, i) ==
    /\ inbox[w][i].kind = "failed"
    /\ Heard(w, i)
    /\ Settle(w, inbox[w][i].id)
    /\ UNCHANGED <<server, pending, nextId, screens, connected, sent, acts, drops>>

\* A load: the first that is answered sends this browser's old preferences,
\* if it has any and the server has none.
HearGot(w, i) ==
    /\ inbox[w][i].kind = "got"
    /\ Heard(w, i)
    /\ Accept(w, inbox[w][i], NoOne, Unconfirmed(w))
    /\ first' = [first EXCEPT ![w] = FALSE]
    /\ \/ UNCHANGED <<sent, acts>>
       \/ /\ first[w] /\ inbox[w][i].pristine
          /\ acts < MaxActs
          /\ acts' = acts + 1
          /\ Send(w, Request("import", 0, Empty, "none", acts'))
    /\ UNCHANGED <<server, outbox, connected, drops>>

-----------------------------------------------------------------------------
(* What goes wrong. *)

Goes(fault) == fault \in Faults /\ drops < MaxDrops /\ drops' = drops + 1

Disconnect(w) ==
    /\ Goes("drop")
    /\ connected[w]
    /\ connected' = [connected EXCEPT ![w] = FALSE]
    /\ inbox' = [inbox EXCEPT ![w] = SelectSeq(@, IsAnswer)]
    /\ UNCHANGED <<server, outbox, screens, sent, acts>>

\* Mutated form: only the first connection loads.
ReconnectOnly(w) ==
    /\ ~connected[w]
    /\ connected' = [connected EXCEPT ![w] = TRUE]
    /\ UNCHANGED <<server, outbox, screens, sent, inbox, acts, drops>>

\* "connect" fires on every connection, and loads again.
Reconnect(w) ==
    /\ ~connected[w]
    /\ connected' = [connected EXCEPT ![w] = TRUE]
    /\ Send(w, Get)
    /\ UNCHANGED <<server, outbox, screens, inbox, acts, drops>>

Failed(id) == Message("failed", id, NoOne, [k \in Keys |-> 0], 0, FALSE)

RequestLost(w, i) ==
    /\ Goes("lose")
    /\ sent' = [sent EXCEPT ![w] = RemoveAt(@, i)]
    /\ inbox' = [inbox EXCEPT ![w] = Append(@, Failed(sent[w][i].id))]
    /\ UNCHANGED <<server, outbox, screens, connected, acts>>

AnswerLost(w, i) ==
    /\ Goes("lose")
    /\ inbox[w][i].kind \notin {"changed", "failed"}
    /\ inbox' = [inbox EXCEPT ![w][i] = Failed(@.id)]
    /\ UNCHANGED <<server, outbox, screens, connected, sent, acts>>

\* shutdown flushes and the next process loads the same document, with its
\* revision at 0; the requests that were on their way fail.
Restart ==
    /\ Goes("restart")
    /\ rev' = 0
    /\ connected' = [w \in Windows |-> FALSE]
    /\ inbox' = [w \in Windows |->
         SelectSeq(inbox[w], IsAnswer)
         \o [i \in DOMAIN sent[w] |-> Failed(sent[w][i].id)]]
    /\ sent' = [w \in Windows |-> <<>>]
    /\ UNCHANGED <<doc, pristine, at, imported, outbox, screens, acts>>

-----------------------------------------------------------------------------
Acting(w) ==
    \/ \E k \in Fields : Edit(w, k)
    \/ \E k \in Maps : Silence(w, k)
    \/ \E k \in Maps : Rearrange(w, k)
    \/ Reset(w)

Serve(w) ==
    \/ \E i \in DOMAIN sent[w] : HandleGet(w, i)
    \/ \E i \in DOMAIN sent[w] : HandleUpdate(w, i)
    \/ \E i \in DOMAIN sent[w] : HandleOp(w, i)
    \/ \E i \in DOMAIN sent[w] : HandleReset(w, i)
    \/ \E i \in DOMAIN sent[w] : HandleImport(w, i)

Hear(w) ==
    \/ \E i \in DOMAIN inbox[w] : HearChanged(w, i)
    \/ \E i \in DOMAIN inbox[w] : HearUpdated(w, i)
    \/ \E i \in DOMAIN inbox[w] : HearApplied(w, i)
    \/ \E i \in DOMAIN inbox[w] : HearRefused(w, i)
    \/ \E i \in DOMAIN inbox[w] : HearFailed(w, i)
    \/ \E i \in DOMAIN inbox[w] : HearGot(w, i)

Breaking(w) ==
    \/ Disconnect(w)
    \/ \E i \in DOMAIN sent[w] : RequestLost(w, i)
    \/ \E i \in DOMAIN inbox[w] : AnswerLost(w, i)

Next ==
    \/ \E w \in Windows :
         Acting(w) \/ SendPending(w) \/ Serve(w) \/ Hear(w)
         \/ Breaking(w) \/ Reconnect(w)
    \/ Restart

Spec == Init /\ [][Next]_vars

\* The debounce timer fires, the server answers, what is sent arrives and a
\* broken socket connects again.
FairSpec ==
    /\ Spec
    /\ \A w \in Windows :
         /\ WF_vars(SendPending(w)) /\ WF_vars(Serve(w))
         /\ WF_vars(Hear(w)) /\ WF_vars(Reconnect(w))

-----------------------------------------------------------------------------
(* Properties. *)

\* An edit of the person's that the server has not answered yet is never taken
\* off the screen by a snapshot (outbox.ts): it is there, or a later one is.
OwnEditsStay ==
    \A w \in Windows, k \in Fields :
        Unconfirmed(w)[k] # None => shown[w][k] >= Unconfirmed(w)[k]

\* A value the server has committed is not replaced on a screen by one it had
\* committed before it: no screen snaps backwards (echo.ts, "it is stale").
Committed(v) == v \in Acts /\ at[v] > 0
NoRollback ==
    [][\A w \in Windows, k \in Fields :
         Committed(shown[w][k]) /\ Committed(shown'[w][k])
           => at[shown'[w][k]] >= at[shown[w][k]]]_vars

\* When nothing is under way any more and every window is connected, they all
\* show what the server holds.
Quiet ==
    \A w \in Windows :
        /\ pending[w] = Empty /\ inFlight[w] = {}
        /\ connected[w] /\ sent[w] = <<>> /\ inbox[w] = <<>>
Converged == Quiet => \A w \in Windows : shown[w] = doc

\* An old browser's preferences are adopted once at most, and only by a server
\* on which nothing was changed before, however many windows saw it pristine.
ImportComesFirst ==
    [][imported' # imported
         => imported = {} /\ \A a \in Acts : at[a] = 0]_vars

\* Once the people stop, the windows come to agree with the server for good.
EventuallyAgree == <>[](\A w \in Windows : shown[w] = doc)
=============================================================================
