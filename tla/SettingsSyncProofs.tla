------------------------- MODULE SettingsSyncProofs -------------------------
(***************************************************************************)
(* Whatever the links lose, delay or reorder, for any set of windows and    *)
(* of fields: an edit that was not answered stays on its screen, and an     *)
(* old browser's preferences are adopted first or not at all.               *)
(* On links that lose nothing and keep the order of each channel, no screen *)
(* goes back, and every screen on which no answer and broadcast crossed     *)
(* comes to be what the server holds.                                       *)
(***************************************************************************)
EXTENDS SettingsCrossings, TLAPS

-----------------------------------------------------------------------------
(* The inductive invariant of the outbox and the screen. *)

ScreenShape == DOMAIN shown = Windows /\ \A w \in Windows : DOMAIN shown[w] = Keys

OutboxTypeOK ==
    /\ acts \in Nat
    /\ pending \in [Windows -> Patches]
    /\ inFlight \in [Windows -> SUBSET [id : Nat, patch : Patches]]
    /\ nextId \in [Windows -> Nat]

\* What a patch carries was numbered before now, and ids are handed out in turn.
Numbered ==
    \A w \in Windows :
        /\ \A k \in Fields : pending[w][k] # None => pending[w][k] <= acts
        /\ \A s \in inFlight[w] :
             /\ s.id < nextId[w]
             /\ \A k \in Fields : s.patch[k] # None => s.patch[k] <= acts

\* Of two edits of a field the later is in the patch with the higher id, and
\* what was not sent yet is later than what was.
SendOrder ==
    \A w \in Windows, k \in Fields : \A s \in inFlight[w] :
        s.patch[k] # None =>
            /\ pending[w][k] # None => s.patch[k] <= pending[w][k]
            /\ \A t \in inFlight[w] :
                 t.patch[k] # None /\ s.id <= t.id => s.patch[k] <= t.patch[k]

\* Any patches in flight have a last one (they are finitely many).
HasLatest ==
    \A w \in Windows : \A T \in SUBSET inFlight[w] :
        T # {} => \E s \in T : \A t \in T : t.id <= s.id

\* No unanswered edit is later than what the screen shows.
OnScreen ==
    \A w \in Windows, k \in Fields :
        /\ pending[w][k] # None
             => shown[w][k] \in Nat /\ pending[w][k] <= shown[w][k]
        /\ \A s \in inFlight[w] : s.patch[k] # None
             => shown[w][k] \in Nat /\ s.patch[k] <= shown[w][k]

IInv == /\ ScreenShape /\ OutboxTypeOK /\ Numbered
        /\ SendOrder /\ HasLatest /\ OnScreen

-----------------------------------------------------------------------------
\* None is no act's number.
LEMMA NoneIsNoAct == None \notin Acts /\ None \in Nat /\ Acts \subseteq Nat
  BY BoundsAssumption DEF None, Acts

\* What show lays over a snapshot: the pending edit of a field, else the last
\* one in flight, else nothing; and no unanswered edit of the field is later.
LEMMA UnconfirmedIsLast ==
  ASSUME OutboxTypeOK, SendOrder, HasLatest, NEW w \in Windows, NEW k \in Fields
  PROVE  LET u == Unconfirmed(w)[k] IN
         /\ u # None => u \in Acts
         /\ pending[w][k] # None => u = pending[w][k]
         /\ pending[w][k] = None /\ u # None =>
              \E s \in inFlight[w] : s.patch[k] # None /\ u = s.patch[k]
         /\ \A s \in inFlight[w] : s.patch[k] # None => u # None /\ s.patch[k] <= u
<1> DEFINE C == Carrying(w, k)
<1>1. Unconfirmed(w)[k] = IF pending[w][k] # None THEN pending[w][k] ELSE InFlight(w)[k]
  BY DEF Unconfirmed, Merge
<1>2. InFlight(w)[k] = IF C = {} THEN None ELSE Latest(C).patch[k]
  BY DEF InFlight
<1>3. C \subseteq inFlight[w] /\ \A s \in inFlight[w] : s \in C <=> s.patch[k] # None
  BY DEF Carrying
<1>4. /\ pending[w][k] \in Acts \cup {None}
      /\ \A s \in inFlight[w] : s.id \in Nat /\ s.patch[k] \in Acts \cup {None}
  BY DEF OutboxTypeOK, Patches, Acts
<1>5. ASSUME C # {}
      PROVE  Latest(C) \in C /\ \A t \in C : t.id <= Latest(C).id
  <2>1. \E s \in C : \A t \in C : t.id <= s.id
    BY <1>3, <1>5 DEF HasLatest
  <2>2. QED
    BY <2>1 DEF Latest
<1>6. ASSUME C # {}
      PROVE  \A s \in C : s.patch[k] <= Latest(C).patch[k]
  BY <1>3, <1>5, <1>6 DEF SendOrder
<1>7. \A s \in inFlight[w] : s.patch[k] # None /\ pending[w][k] # None
        => s.patch[k] <= pending[w][k]
  BY DEF SendOrder
<1>8. CASE pending[w][k] # None
  BY <1>1, <1>4, <1>7, <1>8
<1>9. CASE pending[w][k] = None /\ C = {}
  BY <1>1, <1>2, <1>3, <1>9
<1>10. CASE pending[w][k] = None /\ C # {}
  <2>1. /\ Latest(C) \in inFlight[w] /\ Latest(C).patch[k] # None
        /\ Unconfirmed(w)[k] = Latest(C).patch[k]
    BY <1>1, <1>2, <1>3, <1>5, <1>10
  <2>2. QED
    BY <2>1, <1>3, <1>4, <1>6, <1>10
<1>11. QED
  BY <1>8, <1>9, <1>10

\* The invariant holds of windows that have just opened.
LEMMA InitInv == Init => IInv
  BY NoneIsNoAct DEF Init, IInv, ScreenShape, OutboxTypeOK, Numbered, SendOrder,
     HasLatest, OnScreen, Empty, Patches, Acts, Keys

\* A step that leaves the outbox and the screens alone.
LEMMA Untouched ==
  ASSUME IInv, UNCHANGED <<outbox, shown>>, acts' \in Nat, acts' >= acts
  PROVE  IInv'
<1> USE NoneIsNoAct DEF outbox
<1>1. ScreenShape' BY DEF IInv, ScreenShape
<1>2. OutboxTypeOK' BY DEF IInv, OutboxTypeOK
<1>3. Numbered' BY DEF IInv, Numbered, OutboxTypeOK, Patches, Acts
<1>4. SendOrder' BY DEF IInv, SendOrder
<1>5. HasLatest' BY DEF IInv, HasLatest
<1>6. OnScreen' BY DEF IInv, OnScreen
<1>7. QED BY <1>1, <1>2, <1>3, <1>4, <1>5, <1>6 DEF IInv

\* Every value a patch may carry is a number, and so is None.
LEMMA PatchesAreNumbers ==
  ASSUME OutboxTypeOK, NEW w \in Windows, NEW k \in Fields
  PROVE  /\ pending[w][k] \in Nat
         /\ \A s \in inFlight[w] : s.patch[k] \in Nat
<1>1. \A p \in Patches : p[k] \in Acts \cup {None}
  BY DEF Patches, Acts
<1>2. pending[w] \in Patches /\ \A s \in inFlight[w] : s.patch \in Patches
  BY DEF OutboxTypeOK
<1>3. QED
  BY <1>1, <1>2, NoneIsNoAct

-----------------------------------------------------------------------------
(* The steps that move the outbox or a screen. *)

\* updateSettings keeps the invariant (stores/settings.ts).
LEMMA EditInv ==
  ASSUME IInv, NEW w \in Windows, NEW k \in Fields, Edit(w, k)
  PROVE  IInv'
<1> DEFINE patch == [Empty EXCEPT ![k] = acts']
<1> USE NoneIsNoAct
<1>1. /\ ScreenShape /\ OutboxTypeOK /\ Numbered /\ SendOrder /\ HasLatest /\ OnScreen
      /\ UNCHANGED <<inFlight, nextId>> /\ acts < MaxActs /\ acts' = acts + 1
      /\ shown' = [shown EXCEPT ![w] = Over(@, patch)]
      /\ pending' = [pending EXCEPT ![w] = Merge(@, patch)]
  BY DEF IInv, Edit
<1>2. acts' \in Acts /\ acts \in Nat
  BY <1>1, BoundsAssumption DEF OutboxTypeOK, Acts
<1>3. /\ patch[k] = acts' /\ \A j \in Fields \ {k} : patch[j] = None
      /\ patch \in Patches
  BY <1>2 DEF Empty, Patches, Acts
<1>4. /\ \A v \in Windows \ {w} : pending'[v] = pending[v] /\ shown'[v] = shown[v]
      /\ pending'[w] = Merge(pending[w], patch) /\ shown'[w] = Over(shown[w], patch)
  BY <1>1 DEF OutboxTypeOK, ScreenShape
<1>5. /\ pending'[w][k] = acts' /\ shown'[w][k] = acts'
      /\ \A j \in Fields \ {k} :
           pending'[w][j] = pending[w][j] /\ shown'[w][j] = shown[w][j]
  BY <1>2, <1>3, <1>4 DEF Merge, Over, Keys
<1>6. ScreenShape'
  BY <1>1, <1>4 DEF ScreenShape, Over
<1>7. OutboxTypeOK'
  <2>1. Merge(pending[w], patch) \in Patches
    BY <1>1, <1>3 DEF Merge, OutboxTypeOK, Patches
  <2>2. QED
    BY <1>1, <1>2, <2>1 DEF OutboxTypeOK
<1>8. Numbered'
  <2>1. \A v \in Windows, j \in Fields :
          pending'[v][j] # None => pending'[v][j] <= acts'
    <3>1. \A v \in Windows, j \in Fields :
            pending[v][j] # None => pending[v][j] <= acts'
      BY <1>1, <1>2, PatchesAreNumbers DEF Numbered
    <3>2. acts' <= acts'
      BY <1>2, NoneIsNoAct
    <3>3. QED
      BY <1>4, <1>5, <3>1, <3>2
  <2>2. \A v \in Windows : \A s \in inFlight[v] : \A j \in Fields :
          s.patch[j] # None => s.patch[j] <= acts'
    BY <1>1, <1>2, PatchesAreNumbers DEF Numbered
  <2>3. QED
    BY <1>1, <2>1, <2>2 DEF Numbered
<1>9. SendOrder'
  <2>1. \A v \in Windows, j \in Fields : \A s \in inFlight[v] :
          s.patch[j] # None /\ pending'[v][j] # None => s.patch[j] <= pending'[v][j]
    <3>1. \A s \in inFlight[w] : s.patch[k] # None => s.patch[k] <= acts'
      BY <1>1, <1>2, PatchesAreNumbers DEF Numbered
    <3>2. SUFFICES ASSUME NEW v \in Windows, NEW j \in Fields, NEW s \in inFlight[v],
                          s.patch[j] # None, pending'[v][j] # None
                   PROVE  s.patch[j] <= pending'[v][j]
      OBVIOUS
    <3>3. CASE v = w /\ j = k
      BY <1>5, <3>1, <3>2, <3>3
    <3>4. CASE ~(v = w /\ j = k)
      <4>1. pending'[v][j] = pending[v][j]
        BY <1>4, <1>5, <3>4
      <4>2. QED
        BY <1>1, <3>2, <4>1 DEF SendOrder
    <3>5. QED
      BY <3>3, <3>4
  <2>2. QED
    BY <1>1, <2>1 DEF SendOrder
<1>10. HasLatest'
  BY <1>1 DEF HasLatest
<1>11. OnScreen'
  <2>1. \A s \in inFlight[w] : s.patch[k] # None => s.patch[k] <= acts'
    BY <1>1, <1>2, PatchesAreNumbers DEF Numbered
  <2>2. acts' \in Nat /\ acts' <= acts'
    BY <1>2, NoneIsNoAct
  <2>3. \A v \in Windows, j \in Fields : ~(v = w /\ j = k)
          => shown'[v][j] = shown[v][j] /\ pending'[v][j] = pending[v][j]
    BY <1>4, <1>5
  <2>4. inFlight' = inFlight
    BY <1>1
  <2>5. ASSUME NEW v \in Windows, NEW j \in Fields
        PROVE  /\ pending'[v][j] # None
                    => shown'[v][j] \in Nat /\ pending'[v][j] <= shown'[v][j]
               /\ \A s \in inFlight[v] : s.patch[j] # None
                    => shown'[v][j] \in Nat /\ s.patch[j] <= shown'[v][j]
    <3>1. CASE v = w /\ j = k
      BY <1>5, <2>1, <2>2, <3>1
    <3>2. CASE ~(v = w /\ j = k)
      BY <1>1, <2>3, <3>2 DEF OnScreen
    <3>3. QED
      BY <3>1, <3>2
  <2>6. QED
    BY <2>4, <2>5 DEF OnScreen
<1>12. QED
  BY <1>6, <1>7, <1>8, <1>9, <1>10, <1>11 DEF IInv

\* sendPending keeps the invariant (stores/settings.ts, outbox.ts take).
LEMMA SendPendingInv ==
  ASSUME IInv, NEW w \in Windows, SendPending(w)
  PROVE  IInv'
<1> DEFINE new == [id |-> nextId[w], patch |-> pending[w]]
<1> USE NoneIsNoAct
<1>1. /\ ScreenShape /\ OutboxTypeOK /\ Numbered /\ SendOrder /\ HasLatest /\ OnScreen
      /\ UNCHANGED <<shown, acts>>
      /\ inFlight' = [inFlight EXCEPT ![w] = @ \cup {new}]
      /\ pending' = [pending EXCEPT ![w] = Empty]
      /\ nextId' = [nextId EXCEPT ![w] = @ + 1]
  BY DEF IInv, SendPending, screens
<1>2. /\ \A v \in Windows \ {w} :
           /\ inFlight'[v] = inFlight[v] /\ pending'[v] = pending[v]
           /\ nextId'[v] = nextId[v]
      /\ inFlight'[w] = inFlight[w] \cup {new}
      /\ pending'[w] = Empty /\ nextId'[w] = nextId[w] + 1
  BY <1>1 DEF OutboxTypeOK
<1>3. /\ new.id = nextId[w] /\ new.patch = pending[w] /\ new.patch \in Patches
      /\ nextId[w] \in Nat
      /\ \A k \in Fields : Empty[k] = None /\ new.patch[k] \in Acts \cup {None}
      /\ \A s \in inFlight[w] : s.id \in Nat /\ s.id < new.id
      /\ Empty \in Patches
  BY <1>1 DEF OutboxTypeOK, Patches, Empty, Numbered, Acts
<1>4. ScreenShape'
  BY <1>1 DEF ScreenShape
<1>5. OutboxTypeOK'
  BY <1>1, <1>3 DEF OutboxTypeOK
<1>6. Numbered'
  <2>1. \A v \in Windows, k \in Fields :
          pending'[v][k] # None => pending'[v][k] <= acts'
    BY <1>1, <1>2, <1>3 DEF Numbered
  <2>2. \A v \in Windows : \A s \in inFlight'[v] : s.id < nextId'[v]
    BY <1>1, <1>2, <1>3 DEF Numbered
  <2>3. \A v \in Windows : \A s \in inFlight'[v] : \A k \in Fields :
          s.patch[k] # None => s.patch[k] <= acts'
    BY <1>1, <1>2, <1>3 DEF Numbered
  <2>4. QED
    BY <2>1, <2>2, <2>3 DEF Numbered
<1>7. SendOrder'
  <2>1. \A v \in Windows \ {w} : \A k \in Fields : \A s \in inFlight'[v] :
          s.patch[k] # None =>
            /\ pending'[v][k] # None => s.patch[k] <= pending'[v][k]
            /\ \A t \in inFlight'[v] :
                 t.patch[k] # None /\ s.id <= t.id => s.patch[k] <= t.patch[k]
    BY <1>1, <1>2 DEF SendOrder
  <2>2. \A k \in Fields : \A s \in inFlight[w] : s.patch[k] # None =>
          /\ new.patch[k] # None => s.patch[k] <= new.patch[k]
          /\ ~(new.id <= s.id)
    BY <1>1, <1>3 DEF SendOrder
  <2>3. \A k \in Fields : \A s, t \in inFlight'[w] :
          s.patch[k] # None /\ t.patch[k] # None /\ s.id <= t.id
            => s.patch[k] <= t.patch[k]
    <3>1. \A k \in Fields : \A s, t \in inFlight[w] :
            s.patch[k] # None /\ t.patch[k] # None /\ s.id <= t.id
              => s.patch[k] <= t.patch[k]
      BY <1>1 DEF SendOrder
    <3>2. \A k \in Fields : new.patch[k] # None => new.patch[k] <= new.patch[k]
      BY <1>1, <1>3, PatchesAreNumbers
    <3>3. QED
      BY <1>2, <2>2, <3>1, <3>2
  <2>4. QED
    BY <2>1, <2>3, <1>2, <1>3 DEF SendOrder
<1>8. HasLatest'
  <2> SUFFICES ASSUME NEW v \in Windows, NEW T \in SUBSET inFlight'[v], T # {}
               PROVE  \E s \in T : \A t \in T : t.id <= s.id
    BY DEF HasLatest
  <2>1. CASE T \subseteq inFlight[v]
    BY <1>1, <2>1 DEF HasLatest
  <2>2. CASE ~(T \subseteq inFlight[v])
    <3>1. v = w /\ new \in T /\ \A t \in T : t \in inFlight[w] \/ t = new
      BY <1>2, <2>2
    <3>2. \A t \in T : t.id <= new.id
      BY <1>3, <3>1
    <3>3. QED
      BY <3>1, <3>2
  <2>3. QED
    BY <2>1, <2>2
<1>9. OnScreen'
  BY <1>1, <1>2, <1>3 DEF OnScreen
<1>10. QED
  BY <1>4, <1>5, <1>6, <1>7, <1>8, <1>9 DEF IInv

\* An answer that settles a patch is not applied: the screen stays.
LEMMA SettleInv ==
  ASSUME IInv, NEW w \in Windows, NEW id, Settle(w, id),
         UNCHANGED <<shown, pending, nextId, acts>>
  PROVE  IInv'
<1> USE NoneIsNoAct
<1>1. /\ ScreenShape /\ OutboxTypeOK /\ Numbered /\ SendOrder /\ HasLatest /\ OnScreen
      /\ inFlight' = [inFlight EXCEPT ![w] = {s \in @ : s.id # id}]
  BY DEF IInv, Settle
<1>2. \A v \in Windows : inFlight'[v] \subseteq inFlight[v]
  BY <1>1 DEF OutboxTypeOK
<1>3. ScreenShape'
  BY <1>1 DEF ScreenShape
<1>4. OutboxTypeOK'
  BY <1>1 DEF OutboxTypeOK
<1>5. Numbered'
  BY <1>1, <1>2 DEF Numbered
<1>6. SendOrder'
  BY <1>1, <1>2 DEF SendOrder
<1>7. HasLatest'
  BY <1>1, <1>2 DEF HasLatest
<1>8. OnScreen'
  BY <1>1, <1>2 DEF OnScreen
<1>9. QED
  BY <1>3, <1>4, <1>5, <1>6, <1>7, <1>8 DEF IInv

\* accept keeps the invariant, whichever snapshot it is given (stores/settings.ts).
LEMMA AcceptInv ==
  ASSUME IInv, NEW w \in Windows, NEW message, NEW origin,
         Accept(w, message, origin, Unconfirmed(w)), UNCHANGED outbox,
         acts' \in Nat, acts' >= acts
  PROVE  IInv'
<1> USE NoneIsNoAct
<1>1. CASE ~Applies(w, message, origin)
  BY <1>1, Untouched DEF Accept
<1>2. CASE Applies(w, message, origin)
  <2>1. /\ ScreenShape /\ OutboxTypeOK /\ Numbered /\ SendOrder /\ HasLatest /\ OnScreen
        /\ UNCHANGED <<pending, inFlight, nextId>>
        /\ shown' = [shown EXCEPT ![w] = Over(message.doc, Unconfirmed(w))]
    BY <1>2 DEF IInv, Accept, outbox
  <2>2. /\ \A v \in Windows \ {w} : shown'[v] = shown[v]
        /\ shown'[w] = Over(message.doc, Unconfirmed(w))
        /\ DOMAIN shown' = Windows
    BY <2>1 DEF ScreenShape
  <2>3. ScreenShape'
    BY <2>1, <2>2 DEF ScreenShape, Over
  <2>4. OutboxTypeOK'
    BY <2>1 DEF OutboxTypeOK
  <2>5. Numbered'
    BY <2>1 DEF Numbered, OutboxTypeOK, Patches, Acts
  <2>6. SendOrder'
    BY <2>1 DEF SendOrder
  <2>7. HasLatest'
    BY <2>1 DEF HasLatest
  <2>8. ASSUME NEW k \in Fields
        PROVE  /\ pending[w][k] # None
                    => shown'[w][k] \in Nat /\ pending[w][k] <= shown'[w][k]
               /\ \A s \in inFlight[w] : s.patch[k] # None
                    => shown'[w][k] \in Nat /\ s.patch[k] <= shown'[w][k]
    <3>1. Unconfirmed(w)[k] # None => shown'[w][k] = Unconfirmed(w)[k]
      BY <2>2 DEF Over, Keys
    <3>2. /\ Unconfirmed(w)[k] # None => Unconfirmed(w)[k] \in Acts
          /\ pending[w][k] # None => Unconfirmed(w)[k] = pending[w][k]
          /\ \A s \in inFlight[w] : s.patch[k] # None
               => Unconfirmed(w)[k] # None /\ s.patch[k] <= Unconfirmed(w)[k]
      BY <2>1, UnconfirmedIsLast
    <3>3. Acts \subseteq Nat
      BY NoneIsNoAct
    <3>4. CASE Unconfirmed(w)[k] = None
      BY <3>2, <3>4
    <3>5. CASE Unconfirmed(w)[k] # None
      <4>1. shown'[w][k] = Unconfirmed(w)[k] /\ shown'[w][k] \in Nat
        BY <3>1, <3>2, <3>3, <3>5
      <4>2. pending[w][k] # None => pending[w][k] <= shown'[w][k]
        BY <4>1, <3>2
      <4>3. \A s \in inFlight[w] : s.patch[k] # None => s.patch[k] <= shown'[w][k]
        BY <4>1, <3>2
      <4>4. QED
        BY <4>1, <4>2, <4>3
    <3>6. QED
      BY <3>4, <3>5
  <2>9. OnScreen'
    BY <2>1, <2>2, <2>8 DEF OnScreen
  <2>10. QED
    BY <2>3, <2>4, <2>5, <2>6, <2>7, <2>9 DEF IInv
<1>3. QED
  BY <1>1, <1>2

\* A layout is no field: no patch carries it.
LEMMA RearrangeInv ==
  ASSUME IInv, NEW w \in Windows, NEW k \in Maps, Rearrange(w, k)
  PROVE  IInv'
<1> USE NoneIsNoAct
<1>1. /\ ScreenShape /\ OutboxTypeOK /\ Numbered /\ SendOrder /\ HasLatest /\ OnScreen
      /\ UNCHANGED <<pending, inFlight, nextId>> /\ acts' = acts + 1
      /\ shown' = [shown EXCEPT ![w][k] = acts']
  BY DEF IInv, Rearrange, outbox
<1>2. \A v \in Windows : /\ DOMAIN shown'[v] = Keys
                         /\ \A j \in Fields : shown'[v][j] = shown[v][j]
  BY <1>1, KeysAssumption DEF ScreenShape, Keys
<1>3. ScreenShape'
  BY <1>1, <1>2 DEF ScreenShape
<1>4. OutboxTypeOK'
  BY <1>1 DEF OutboxTypeOK
<1>5. Numbered'
  BY <1>1 DEF Numbered, OutboxTypeOK, Patches, Acts
<1>6. SendOrder'
  BY <1>1 DEF SendOrder
<1>7. HasLatest'
  BY <1>1 DEF HasLatest
<1>8. OnScreen'
  BY <1>1, <1>2 DEF OnScreen
<1>9. QED
  BY <1>3, <1>4, <1>5, <1>6, <1>7, <1>8 DEF IInv

-----------------------------------------------------------------------------
(* Every step. *)

\* Every step keeps the invariant, one action after the other.
LEMMA NextInv == IInv /\ [Next]_vars => IInv'
<1> SUFFICES ASSUME IInv, [Next]_vars PROVE IInv'
  OBVIOUS
<1>1. acts \in Nat /\ acts + 1 \in Nat /\ acts >= acts /\ acts + 1 >= acts
  BY DEF IInv, OutboxTypeOK
<1>2. ASSUME NEW w \in Windows, Acting(w) PROVE IInv'
  <2>1. ASSUME NEW k \in Fields, Edit(w, k) PROVE IInv'
    BY <2>1, EditInv
  <2>2. ASSUME NEW k \in Maps, Silence(w, k) PROVE IInv'
    BY <1>1, <2>2, Untouched DEF Silence, outbox, screens
  <2>3. ASSUME NEW k \in Maps, Rearrange(w, k) PROVE IInv'
    BY <2>3, RearrangeInv
  <2>4. CASE Reset(w)
    BY <1>1, <2>4, Untouched DEF Reset, outbox, screens
  <2>5. QED
    BY <1>2, <2>1, <2>2, <2>3, <2>4 DEF Acting
<1>3. ASSUME NEW w \in Windows, SendPending(w) PROVE IInv'
  BY <1>3, SendPendingInv
<1>4. ASSUME NEW w \in Windows, Serve(w) PROVE IInv'
  <2>1. UNCHANGED <<outbox, screens, acts>>
    BY <1>4 DEF Serve, HandleGet, HandleUpdate, HandleOp, HandleReset, HandleImport
  <2>2. QED
    BY <1>1, <2>1, Untouched DEF outbox, screens
<1>5. ASSUME NEW w \in Windows, Hear(w) PROVE IInv'
  <2>1. ASSUME NEW i \in DOMAIN inbox[w], HearChanged(w, i) PROVE IInv'
    BY <1>1, <2>1, AcceptInv DEF HearChanged
  <2>2. ASSUME NEW i \in DOMAIN inbox[w], HearUpdated(w, i) PROVE IInv'
    <3>1. shown' = shown
      BY <2>2 DEF HearUpdated, Accept, Applies
    <3>2. Settle(w, inbox[w][i].id) /\ UNCHANGED <<shown, pending, nextId, acts>>
      BY <2>2, <3>1 DEF HearUpdated
    <3>3. QED
      BY <3>2, SettleInv
  <2>3. ASSUME NEW i \in DOMAIN inbox[w], HearApplied(w, i) PROVE IInv'
    BY <1>1, <2>3, AcceptInv DEF HearApplied
  <2>4. ASSUME NEW i \in DOMAIN inbox[w], HearRefused(w, i) PROVE IInv'
    BY <1>1, <2>4, Untouched DEF HearRefused, outbox, screens
  <2>5. ASSUME NEW i \in DOMAIN inbox[w], HearFailed(w, i) PROVE IInv'
    BY <2>5, SettleInv DEF HearFailed, screens
  <2>6. ASSUME NEW i \in DOMAIN inbox[w], HearGot(w, i) PROVE IInv'
    <3>1. acts' \in Nat /\ acts' >= acts
      BY <1>1, <2>6 DEF HearGot
    <3>2. QED
      BY <2>6, <3>1, AcceptInv DEF HearGot
  <2>7. QED
    BY <1>5, <2>1, <2>2, <2>3, <2>4, <2>5, <2>6 DEF Hear
<1>6. ASSUME NEW w \in Windows, Breaking(w) PROVE IInv'
  <2>1. UNCHANGED <<outbox, screens, acts>>
    BY <1>6 DEF Breaking, Disconnect, RequestLost, AnswerLost
  <2>2. QED
    BY <1>1, <2>1, Untouched DEF outbox, screens
<1>7. ASSUME NEW w \in Windows, Reconnect(w) PROVE IInv'
  BY <1>1, <1>7, Untouched DEF Reconnect, outbox, screens
<1>8. CASE Restart
  BY <1>1, <1>8, Untouched DEF Restart, outbox, screens
<1>9. CASE UNCHANGED vars
  BY <1>1, <1>9, Untouched DEF vars, outbox, screens
<1>10. QED
  BY <1>2, <1>3, <1>4, <1>5, <1>6, <1>7, <1>8, <1>9 DEF Next

\* The inductive invariant holds of every behaviour, under any faults.
THEOREM Invariant == Spec => []IInv
<1>1. Init => IInv
  BY InitInv
<1>2. IInv /\ [Next]_vars => IInv'
  BY NextInv
<1>3. QED
  BY <1>1, <1>2, PTL DEF Spec

-----------------------------------------------------------------------------
\* An edit that the server has not answered is never taken off the screen,
\* whichever snapshots arrive in whichever order (accept, outbox.show).
THEOREM EditsStay == Spec => []OwnEditsStay
<1>1. IInv => OwnEditsStay
  <2> SUFFICES ASSUME IInv, NEW w \in Windows, NEW k \in Fields,
                      Unconfirmed(w)[k] # None
               PROVE  shown[w][k] >= Unconfirmed(w)[k]
    BY DEF OwnEditsStay
  <2>1. OutboxTypeOK /\ SendOrder /\ HasLatest /\ OnScreen
    BY DEF IInv
  <2>2. Unconfirmed(w)[k] \in Nat
    BY <2>1, UnconfirmedIsLast, NoneIsNoAct
  <2>3. CASE pending[w][k] # None
    BY <2>1, <2>2, <2>3, UnconfirmedIsLast DEF OnScreen
  <2>4. CASE pending[w][k] = None
    <3>1. PICK s \in inFlight[w] : s.patch[k] # None /\ Unconfirmed(w)[k] = s.patch[k]
      BY <2>1, <2>4, UnconfirmedIsLast
    <3>2. shown[w][k] \in Nat /\ s.patch[k] <= shown[w][k]
      BY <2>1, <3>1 DEF OnScreen
    <3>3. QED
      BY <2>2, <3>1, <3>2
  <2>5. QED
    BY <2>3, <2>4
<1>2. QED
  BY <1>1, Invariant, PTL

-----------------------------------------------------------------------------
(* The import of an old browser's preferences. *)

\* The server is pristine only while it has committed nothing.
PristineIsUntouched ==
    pristine => imported = {} /\ \A a \in Acts : at[a] = 0

\* After a commit the server is not pristine (settings.store.ts commit).
LEMMA CommitEndsPristine ==
  ASSUME NEW w, NEW new, NEW did, NEW origin, NEW answer,
         CommitAs(w, new, did, origin, answer)
  PROVE  PristineIsUntouched'
  BY DEF CommitAs, PristineIsUntouched

\* Every step keeps a pristine server one on which nothing was committed.
LEMMA PristineInv ==
  PristineIsUntouched /\ [Next]_vars => PristineIsUntouched'
<1> SUFFICES ASSUME PristineIsUntouched, [Next]_vars PROVE PristineIsUntouched'
  OBVIOUS
<1>1. ASSUME UNCHANGED <<pristine, at, imported>> PROVE PristineIsUntouched'
  BY <1>1 DEF PristineIsUntouched
<1>2. ASSUME NEW w \in Windows, Serve(w) PROVE PristineIsUntouched'
  <2>1. ASSUME NEW i \in DOMAIN sent[w], HandleGet(w, i) PROVE PristineIsUntouched'
    BY <1>1, <2>1 DEF HandleGet, server
  <2>2. ASSUME NEW i \in DOMAIN sent[w], HandleUpdate(w, i) PROVE PristineIsUntouched'
    BY <2>2, CommitEndsPristine DEF HandleUpdate
  <2>3. ASSUME NEW i \in DOMAIN sent[w], HandleOp(w, i) PROVE PristineIsUntouched'
    BY <2>3, CommitEndsPristine DEF HandleOp
  <2>4. ASSUME NEW i \in DOMAIN sent[w], HandleReset(w, i) PROVE PristineIsUntouched'
    BY <2>4, CommitEndsPristine DEF HandleReset
  <2>5. ASSUME NEW i \in DOMAIN sent[w], HandleImport(w, i) PROVE PristineIsUntouched'
    BY <1>1, <2>5, CommitEndsPristine DEF HandleImport, server
  <2>6. QED
    BY <1>2, <2>1, <2>2, <2>3, <2>4, <2>5 DEF Serve
<1>3. ASSUME NEW w \in Windows,
             Acting(w) \/ SendPending(w) \/ Hear(w) \/ Breaking(w) \/ Reconnect(w)
      PROVE  UNCHANGED server
  BY <1>3 DEF Acting, Edit, Silence, Rearrange, Reset, SendPending, Hear, HearChanged,
     HearUpdated, HearApplied, HearRefused, HearFailed, HearGot, Breaking, Disconnect,
     RequestLost, AnswerLost, Reconnect
<1>4. CASE Restart
  BY <1>1, <1>4 DEF Restart
<1>5. CASE UNCHANGED vars
  BY <1>1, <1>5 DEF vars, server
<1>6. QED
  BY <1>1, <1>2, <1>3, <1>4, <1>5 DEF Next, server

\* Old preferences are adopted once at most, and only by a server on which
\* nothing was changed before, though any number of windows saw it pristine.
THEOREM ImportFirst == Spec => ImportComesFirst
<1>1. Init => PristineIsUntouched
  BY DEF Init, PristineIsUntouched
<1>2. PristineIsUntouched /\ [Next]_vars
        => (imported' # imported => imported = {} /\ \A a \in Acts : at[a] = 0)
  <2> SUFFICES ASSUME PristineIsUntouched, [Next]_vars, imported' # imported
               PROVE  imported = {} /\ \A a \in Acts : at[a] = 0
    OBVIOUS
  <2>1. PICK w \in Windows : Serve(w)
    BY DEF Next, vars, server, Acting, Edit, Silence, Rearrange, Reset, SendPending,
       Hear, HearChanged, HearUpdated, HearApplied, HearRefused, HearFailed, HearGot,
       Breaking, Disconnect, RequestLost, AnswerLost, Reconnect, Restart
  <2>2. PICK i \in DOMAIN sent[w] : HandleImport(w, i)
    BY <2>1 DEF Serve, HandleGet, HandleUpdate, HandleOp, HandleReset, server
  <2>3. pristine
    BY <2>2 DEF HandleImport, server
  <2>4. QED
    BY <2>3 DEF PristineIsUntouched
<1>3. QED
  BY <1>1, <1>2, PristineInv, PTL DEF Spec, ImportComesFirst

-----------------------------------------------------------------------------
(* Links that keep their order.  On them a screen never goes back.          *)

InOrder == Faults \subseteq {"channels", "fresh"}

Requests ==
    {r \in [kind : {"get", "update", "op", "reset", "import"}, id : Nat,
            patch : Patches, key : Maps \cup {"none"}, act : Values] :
        r.kind \in {"op", "reset", "import"} => r.act \in Acts}
Snapshots == [kind : {"changed", "got", "updated", "applied", "refused"}, id : Nat,
              origin : Windows \cup {NoOne}, doc : Docs, rev : Nat, pristine : BOOLEAN]

LinkTypes ==
    /\ doc \in Docs /\ rev \in Nat /\ pristine \in BOOLEAN /\ at \in [Acts -> Nat]
    /\ mark \in [Windows -> Nat] /\ \A w \in Windows : mark[w] <= rev
    /\ sent \in [Windows -> Seq(Requests)] /\ inbox \in [Windows -> Seq(Snapshots)]
    /\ connected = [w \in Windows |-> TRUE]

\* The acts a request asks the server to commit.
ActsOf(request) ==
    ({request.act} \cup {request.patch[k] : k \in Fields}) \cap Acts

\* An act is in one place: in one outbox, in one request, or committed.
Uncommitted ==
    /\ \A a \in Acts : at[a] > 0 => a <= acts
    /\ \A w \in Windows, k \in Fields : pending[w][k] # None => at[pending[w][k]] = 0
    /\ \A w \in Windows : \A i \in 1..Len(sent[w]) : \A a \in ActsOf(sent[w][i]) :
         a <= acts /\ at[a] = 0
OnePlace ==
    /\ \A w, v \in Windows, k, j \in Fields :
         pending[w][k] # None /\ pending[w][k] = pending[v][j] => w = v
    /\ \A w, v \in Windows, k \in Fields : \A i \in 1..Len(sent[v]) :
         pending[w][k] \notin ActsOf(sent[v][i])
    /\ \A w, v \in Windows : \A i \in 1..Len(sent[w]), j \in 1..Len(sent[v]) :
         w # v \/ i # j => ActsOf(sent[w][i]) \cap ActsOf(sent[v][j]) = {}

\* The updates of a window, on their way there (r) and back (q), are in the
\* order of their ids, the answers first.
Updates(q, r, n) ==
    /\ \A i \in 1..Len(q) : q[i].kind = "updated" => q[i].id < n
    /\ \A j \in 1..Len(r) : r[j].kind = "update" => r[j].id < n
    /\ \A i, j \in 1..Len(q) :
         q[i].kind = "updated" /\ q[j].kind = "updated" /\ i < j => q[i].id < q[j].id
    /\ \A i, j \in 1..Len(r) :
         r[i].kind = "update" /\ r[j].kind = "update" /\ i < j => r[i].id < r[j].id
    /\ \A i \in 1..Len(q), j \in 1..Len(r) :
         q[i].kind = "updated" /\ r[j].kind = "update" => q[i].id < r[j].id

\* A patch in flight (F) is in one request or in one answer, which has it.
Underway(F, q, r) ==
    /\ \A s, t \in F : s.id = t.id => s = t
    /\ \A s \in F : \/ \E i \in 1..Len(q) : q[i].kind = "updated" /\ q[i].id = s.id
                    \/ \E j \in 1..Len(r) : r[j].kind = "update" /\ r[j].id = s.id
    /\ \A j \in 1..Len(r) : r[j].kind = "update" =>
         [id |-> r[j].id, patch |-> r[j].patch] \in F
    /\ \A s \in F : \A i \in 1..Len(q) : q[i].kind = "updated" /\ q[i].id = s.id =>
         \A k \in Fields : s.patch[k] # None => q[i].doc[k] = s.patch[k]

\* What a window has not had an answer to is what it shows.
OnTop == \A w \in Windows, k \in Fields :
    Unconfirmed(w)[k] # None => shown[w][k] = Unconfirmed(w)[k]

\* H is the server's document at every revision.
Past(H) == H \in [0..rev -> Docs] /\ H[rev] = doc
Later(H) ==
    \A k \in Fields, r \in 0..rev : H[r][k] \in Acts =>
        /\ at[H[r][k]] \in 1..r
        /\ \A p \in r..rev : H[p][k] \in Acts /\ at[H[r][k]] <= at[H[p][k]]
Snapped(H) ==
    \A w \in Windows : \A i \in 1..Len(inbox[w]) :
        inbox[w][i].rev <= rev /\ inbox[w][i].doc = H[inbox[w][i].rev]
Seen(H) ==
    \A w \in Windows, k \in Fields :
        Unconfirmed(w)[k] = None /\ shown[w][k] \in Acts =>
            \E r \in 0..mark[w] : shown[w][k] = H[r][k]

InTurn(w) == Updates(inbox[w], sent[w], nextId[w])
             /\ Underway(inFlight[w], inbox[w], sent[w])

LinksInv ==
    LinkTypes /\ Uncommitted /\ OnePlace /\ OnTop /\ \A w \in Windows : InTurn(w)
HistoryInv == \E H : Past(H) /\ Later(H) /\ Snapped(H) /\ Seen(H)

-----------------------------------------------------------------------------
(* The links as sequences.                                                  *)

\* Two sequences, one after the other.
LEMMA Joined ==
    ASSUME NEW S, NEW a \in Seq(S), NEW b \in Seq(S)
    PROVE  /\ a \o b \in Seq(S) /\ Len(a \o b) = Len(a) + Len(b)
           /\ \A j \in 1..(Len(a) + Len(b)) :
                (a \o b)[j] = IF j <= Len(a) THEN a[j] ELSE b[j - Len(a)]
  OBVIOUS

\* What is taken out of a sequence leaves the rest in its order.
LEMMA Removed ==
    ASSUME NEW S, NEW q \in Seq(S), NEW i \in 1..Len(q)
    PROVE  /\ RemoveAt(q, i) \in Seq(S) /\ Len(RemoveAt(q, i)) = Len(q) - 1
           /\ \A j \in 1..(Len(q) - 1) :
                RemoveAt(q, i)[j] = IF j < i THEN q[j] ELSE q[j + 1]
<1>1. Len(q) \in Nat /\ i \in Nat /\ i >= 1 /\ i <= Len(q)
  OBVIOUS
<1> DEFINE a == SubSeq(q, 1, i - 1)
           b == SubSeq(q, i + 1, Len(q))
<1>2. a \in Seq(S) /\ Len(a) = i - 1 /\ \A j \in 1..(i - 1) : a[j] = q[j]
  OBVIOUS
<1>3. b \in Seq(S) /\ Len(b) = Len(q) - i /\ \A j \in 1..(Len(q) - i) : b[j] = q[i + j]
  OBVIOUS
<1> HIDE DEF a, b
<1>4. /\ a \o b \in Seq(S) /\ Len(a \o b) = Len(a) + Len(b)
      /\ \A j \in 1..(Len(a) + Len(b)) :
           (a \o b)[j] = IF j <= Len(a) THEN a[j] ELSE b[j - Len(a)]
  BY <1>2, <1>3, Joined
<1>5. Len(a) + Len(b) = Len(q) - 1
  BY <1>1, <1>2, <1>3
<1>6. ASSUME NEW j \in 1..(Len(q) - 1)
      PROVE  (a \o b)[j] = IF j < i THEN q[j] ELSE q[j + 1]
  <2>1. j \in 1..(Len(a) + Len(b))
    BY <1>5
  <2>2. CASE j < i
    <3>1. j <= Len(a) /\ j \in 1..(i - 1)
      BY <1>1, <1>2, <2>2
    <3> QED BY <2>1, <2>2, <3>1, <1>2, <1>4
  <2>3. CASE ~(j < i)
    <3>1. ~(j <= Len(a)) /\ j - Len(a) \in 1..(Len(q) - i) /\ i + (j - Len(a)) = j + 1
      BY <1>1, <1>2, <2>3
    <3> QED BY <2>1, <2>3, <3>1, <1>3, <1>4
  <2> QED BY <2>2, <2>3
<1>7. RemoveAt(q, i) = a \o b
  BY DEF RemoveAt, a, b
<1> QED BY <1>4, <1>5, <1>6, <1>7

\* What is put at the end of one.
LEMMA Added ==
    ASSUME NEW S, NEW q \in Seq(S), NEW x \in S
    PROVE  /\ Append(q, x) \in Seq(S) /\ Len(Append(q, x)) = Len(q) + 1
           /\ \A j \in 1..Len(q) : Append(q, x)[j] = q[j]
           /\ Append(q, x)[Len(q) + 1] = x
  OBVIOUS

\* What a commit puts at the end of one, by what it appends one after another.
LEMMA AddedTwo ==
    ASSUME NEW S, NEW q \in Seq(S), NEW x \in S, NEW y \in S
    PROVE  /\ (q \o <<x>>) \o <<>> = Append(q, x)
           /\ (q \o <<x>>) \o <<y>> = Append(Append(q, x), y)
  OBVIOUS
-----------------------------------------------------------------------------
(* What a step does to the links.                                           *)

Asks(w, r) ==
    /\ sent' \in [Windows -> Seq(Requests)]
    /\ sent'[w] = Append(sent[w], r)
    /\ \A v \in Windows : v # w => sent'[v] = sent[v]

Shorter(r, t) ==
    /\ r # <<>> /\ Len(t) = Len(r) - 1
    /\ \A j \in 1..Len(t) : t[j] = r[j + 1]

Takes(w) ==
    /\ sent' \in [Windows -> Seq(Requests)]
    /\ Shorter(sent[w], sent'[w])
    /\ \A v \in Windows : v # w => sent'[v] = sent[v]

Without(q, i, t) ==
    /\ i \in 1..Len(q) /\ Len(t) = Len(q) - 1
    /\ \A j \in 1..Len(t) : t[j] = IF j < i THEN q[j] ELSE q[j + 1]

Hears(w, i) ==
    /\ inbox' \in [Windows -> Seq(Snapshots)]
    /\ Without(inbox[w], i, inbox'[w])
    /\ \A v \in Windows : v # w => inbox'[v] = inbox[v]
    /\ inbox[w][i].kind = "updated" =>
         \A j \in 1..(i - 1) : inbox[w][j].kind # "updated"

Answers(w, x) ==
    /\ inbox' \in [Windows -> Seq(Snapshots)] /\ x \in Snapshots
    /\ inbox'[w] = Append(inbox[w], x)
    /\ \A v \in Windows : v # w => inbox'[v] = inbox[v]

Commits(w, new, did, x, y) ==
    /\ doc' = new /\ new \in Docs /\ rev' = rev + 1
    /\ at' \in [Acts -> Nat]
    /\ \A a \in Acts : at'[a] = IF a \in did THEN rev + 1 ELSE at[a]
    /\ x \in Snapshots /\ y \in Snapshots
    /\ x.kind = "changed" /\ x.doc = new /\ x.rev = rev + 1
    /\ y.kind \in {"updated", "applied"} /\ y.doc = new /\ y.rev = rev + 1
    /\ inbox' \in [Windows -> Seq(Snapshots)]
    /\ inbox'[w] = Append(Append(inbox[w], x), y)
    /\ \A v \in Windows : v # w => inbox'[v] = Append(inbox[v], x)

\* A window puts a request at the end of its own link.
LEMMA SendAsks ==
    ASSUME LinkTypes, NEW w \in Windows, NEW r \in Requests, Send(w, r)
    PROVE  Asks(w, r)
<1>1. sent[w] \in Seq(Requests) /\ Append(sent[w], r) \in Seq(Requests)
  BY Added DEF LinkTypes
<1> QED BY <1>1 DEF Asks, Send, LinkTypes

\* The server takes the first request of a link.
LEMMA TookTakes ==
    ASSUME LinkTypes, InOrder, NEW w \in Windows, NEW i \in DOMAIN sent[w], Took(w, i)
    PROVE  i = 1 /\ Takes(w)
<1>1. i = 1 /\ sent' = [sent EXCEPT ![w] = RemoveAt(sent[w], 1)]
  BY DEF Took, InOrder
<1>2. sent[w] \in Seq(Requests) /\ 1 \in 1..Len(sent[w])
  BY <1>1 DEF LinkTypes
<1>3. /\ RemoveAt(sent[w], 1) \in Seq(Requests)
      /\ Len(RemoveAt(sent[w], 1)) = Len(sent[w]) - 1
      /\ \A j \in 1..(Len(sent[w]) - 1) :
           RemoveAt(sent[w], 1)[j] = IF j < 1 THEN sent[w][j] ELSE sent[w][j + 1]
  BY <1>2, Removed
<1>4. /\ sent'[w] = RemoveAt(sent[w], 1) /\ sent' \in [Windows -> Seq(Requests)]
      /\ \A v \in Windows : v # w => sent'[v] = sent[v]
  BY <1>1, <1>3 DEF LinkTypes
<1>5. Shorter(sent[w], sent'[w])
  <2>1. \A j \in 1..(Len(sent[w]) - 1) : ~(j < 1)
    OBVIOUS
  <2>2. sent[w] # <<>>
    BY <1>2
  <2>3. ASSUME NEW j \in 1..(Len(sent[w]) - 1) PROVE sent'[w][j] = sent[w][j + 1]
    BY <1>3, <1>4, <2>1
  <2>4. Len(sent'[w]) = Len(sent[w]) - 1
    BY <1>3, <1>4
  <2> QED BY <2>2, <2>3, <2>4 DEF Shorter
<1> QED BY <1>1, <1>4, <1>5 DEF Takes

\* One message leaves the inbox; an answer is never heard before an earlier one.
LEMMA HeardHears ==
    ASSUME LinkTypes, InOrder, NEW w \in Windows, NEW i \in DOMAIN inbox[w], Heard(w, i)
    PROVE  Hears(w, i)
<1>1. inbox' = [inbox EXCEPT ![w] = RemoveAt(inbox[w], i)]
  BY DEF Heard
<1>2. inbox[w] \in Seq(Snapshots) /\ i \in 1..Len(inbox[w])
  BY DEF LinkTypes
<1>3. /\ RemoveAt(inbox[w], i) \in Seq(Snapshots)
      /\ Len(RemoveAt(inbox[w], i)) = Len(inbox[w]) - 1
      /\ \A j \in 1..(Len(inbox[w]) - 1) :
           RemoveAt(inbox[w], i)[j] = IF j < i THEN inbox[w][j] ELSE inbox[w][j + 1]
  BY <1>2, Removed
<1>4. /\ inbox'[w] = RemoveAt(inbox[w], i) /\ inbox' \in [Windows -> Seq(Snapshots)]
      /\ \A v \in Windows : v # w => inbox'[v] = inbox[v]
  BY <1>1, <1>3 DEF LinkTypes
<1>5. Without(inbox[w], i, inbox'[w])
  BY <1>2, <1>3, <1>4 DEF Without
<1>6. i = 1 \/ \A j \in 1..(i - 1) : ~Alike(inbox[w][i], inbox[w][j])
  BY DEF Heard, InOrder
<1>7. ASSUME inbox[w][i].kind = "updated", NEW j \in 1..(i - 1)
      PROVE  inbox[w][j].kind # "updated"
  <2>1. ~Alike(inbox[w][i], inbox[w][j])
    BY <1>6, <1>7
  <2> QED BY <2>1, <1>7 DEF Alike, IsAnswer
<1> QED BY <1>4, <1>5, <1>7 DEF Hears

\* The server puts an answer at the end of one inbox.
LEMMA SaysAnswers ==
    ASSUME LinkTypes, NEW w \in Windows,
           NEW kind \in {"got", "refused"}, Says(w, kind, 0)
    PROVE  Answers(w, Message(kind, 0, NoOne, doc, rev, pristine))
<1> DEFINE x == Message(kind, 0, NoOne, doc, rev, pristine)
<1>1. x \in Snapshots
  BY DEF Message, Snapshots, LinkTypes
<1> HIDE DEF x
<1>2. inbox' = [inbox EXCEPT ![w] = Append(inbox[w], x)]
  BY DEF Says, x
<1>3. Append(inbox[w], x) \in Seq(Snapshots)
  BY <1>1, Added DEF LinkTypes
<1> QED BY <1>1, <1>2, <1>3 DEF Answers, LinkTypes, x

\* A commit reaches every window, and then the one that asked is answered.
LEMMA CommitAsCommits ==
    ASSUME LinkTypes, NEW w \in Windows, NEW new \in Docs, NEW did,
           NEW origin \in Windows \cup {NoOne}, NEW kind \in {"updated", "applied"},
           NEW id \in Nat, CommitAs(w, new, did, origin, [kind |-> kind, id |-> id])
    PROVE  Commits(w, new, did, Message("changed", 0, origin, new, rev + 1, FALSE),
                                Message(kind, id, NoOne, new, rev + 1, FALSE))
<1> DEFINE x == Message("changed", 0, origin, new, rev + 1, FALSE)
           y == Message(kind, id, NoOne, new, rev + 1, FALSE)
<1>1. doc' = new /\ rev' = rev + 1 /\ rev + 1 \in Nat
  BY DEF CommitAs, LinkTypes
<1>2. x \in Snapshots /\ y \in Snapshots
  BY <1>1 DEF Message, Snapshots
<1>3. /\ x.kind = "changed" /\ x.doc = new /\ x.rev = rev + 1
      /\ y.kind \in {"updated", "applied"} /\ y.doc = new /\ y.rev = rev + 1
  BY DEF Message
<1>4. /\ at' \in [Acts -> Nat]
      /\ \A a \in Acts : at'[a] = IF a \in did THEN rev + 1 ELSE at[a]
  BY <1>1 DEF CommitAs, LinkTypes
<1>5. inbox' = [v \in Windows |->
         inbox[v] \o (IF connected[v] THEN <<x>> ELSE <<>>)
                  \o (IF v = w THEN <<y>> ELSE <<>>)]
  BY <1>1 DEF CommitAs, x, y
<1> HIDE DEF x, y
<1>6. ASSUME NEW v \in Windows
      PROVE  inbox'[v] = IF v = w THEN Append(Append(inbox[v], x), y)
                         ELSE Append(inbox[v], x)
  <2>1. connected[v] /\ inbox[v] \in Seq(Snapshots)
    BY DEF LinkTypes
  <2>2. inbox'[v] = (inbox[v] \o <<x>>) \o (IF v = w THEN <<y>> ELSE <<>>)
    BY <1>5, <2>1
  <2>3. /\ (inbox[v] \o <<x>>) \o <<>> = Append(inbox[v], x)
        /\ (inbox[v] \o <<x>>) \o <<y>> = Append(Append(inbox[v], x), y)
    BY <1>2, <2>1, AddedTwo
  <2>4. CASE v = w
    BY <2>2, <2>3, <2>4
  <2>5. CASE v # w
    BY <2>2, <2>3, <2>5
  <2> QED BY <2>4, <2>5
<1>7. ASSUME NEW v \in Windows PROVE inbox'[v] \in Seq(Snapshots)
  <2>1. inbox[v] \in Seq(Snapshots)
    BY DEF LinkTypes
  <2>2. Append(inbox[v], x) \in Seq(Snapshots)
    BY <1>2, <2>1, Added
  <2>3. Append(Append(inbox[v], x), y) \in Seq(Snapshots)
    BY <1>2, <2>2, Added
  <2> QED BY <1>6, <2>2, <2>3
<1>8. inbox' \in [Windows -> Seq(Snapshots)]
  BY <1>5, <1>7
<1> QED BY <1>1, <1>2, <1>3, <1>4, <1>6, <1>8 DEF Commits, x, y
-----------------------------------------------------------------------------
(* An act is in one place.                                                  *)

\* Acts are numbered from 1.
LEMMA ActsInNat == Acts \subseteq Nat /\ 0 \notin Acts /\ \A a \in Acts : a <= MaxActs
  BY BoundsAssumption DEF Acts

\* What is pending is an act's.
LEMMA PendingActs ==
    ASSUME OutboxTypeOK, NEW w \in Windows, NEW k \in Fields, pending[w][k] # None
    PROVE  pending[w][k] \in Acts
  BY DEF OutboxTypeOK, Patches

\* A new act is in no place yet.
LEMMA NewAct ==
    ASSUME IInv, LinkTypes, Uncommitted, acts < MaxActs
    PROVE  /\ acts + 1 \in Acts /\ at[acts + 1] = 0
           /\ \A w \in Windows, k \in Fields : pending[w][k] # acts + 1
           /\ \A w \in Windows : \A i \in 1..Len(sent[w]) :
                acts + 1 \notin ActsOf(sent[w][i])
<1>1. acts \in Nat /\ acts + 1 \in Acts /\ ~(acts + 1 <= acts)
  BY BoundsAssumption DEF IInv, OutboxTypeOK, Acts
<1>2. at[acts + 1] \in Nat /\ ~(at[acts + 1] > 0)
  BY <1>1 DEF Uncommitted, LinkTypes
<1>3. at[acts + 1] = 0
  BY <1>2
<1>4. ASSUME NEW w \in Windows, NEW k \in Fields PROVE pending[w][k] # acts + 1
  <2>1. pending[w][k] # None => pending[w][k] <= acts
    BY DEF IInv, Numbered
  <2> QED BY <1>1, <2>1, NoneIsNoAct
<1>5. ASSUME NEW w \in Windows, NEW i \in 1..Len(sent[w])
      PROVE  acts + 1 \notin ActsOf(sent[w][i])
  BY <1>1 DEF Uncommitted
<1> QED BY <1>1, <1>3, <1>4, <1>5

\* Nothing is edited, asked or committed.
LEMMA PlaceFrame ==
    ASSUME Uncommitted, OnePlace, UNCHANGED <<pending, sent, at, acts>>
    PROVE  Uncommitted' /\ OnePlace'
<1>1. Uncommitted'
  BY DEF Uncommitted, ActsOf
<1>2. OnePlace'
  BY DEF OnePlace, ActsOf
<1> QED BY <1>1, <1>2

\* An edit is a new act, in one outbox.
LEMMA PlaceEdit ==
    ASSUME IInv, LinkTypes, Uncommitted, OnePlace, NEW w \in Windows, NEW k \in Fields,
           Edit(w, k)
    PROVE  Uncommitted' /\ OnePlace'
<1>1. /\ acts < MaxActs /\ acts' = acts + 1 /\ UNCHANGED <<sent, at>>
      /\ acts \in Nat /\ pending \in [Windows -> Patches]
  BY DEF Edit, links, server, IInv, OutboxTypeOK
<1>2. /\ acts + 1 \in Acts /\ at[acts + 1] = 0
      /\ \A v \in Windows, j \in Fields : pending[v][j] # acts + 1
      /\ \A v \in Windows : \A i \in 1..Len(sent[v]) : acts + 1 \notin ActsOf(sent[v][i])
  BY <1>1, NewAct
<1>3. \A v \in Windows, j \in Fields :
        pending'[v][j] = IF v = w /\ j = k THEN acts + 1 ELSE pending[v][j]
  <2>1. pending' = [pending EXCEPT ![w] = Merge(@, [Empty EXCEPT ![k] = acts + 1])]
    BY <1>1 DEF Edit
  <2>2. ASSUME NEW j \in Fields
        PROVE  Merge(pending[w], [Empty EXCEPT ![k] = acts + 1])[j]
                 = IF j = k THEN acts + 1 ELSE pending[w][j]
    BY <1>2, NoneIsNoAct DEF Merge, Empty
  <2> QED BY <1>1, <2>1, <2>2
<1>4. ASSUME NEW a \in Acts, at[a] > 0 PROVE a <= acts + 1
  <2>1. a \in Nat /\ a <= acts
    BY <1>4, ActsInNat DEF Uncommitted
  <2> QED BY <1>1, <2>1
<1>5. Uncommitted'
  <2>1. \A v \in Windows : \A i \in 1..Len(sent[v]) : \A a \in ActsOf(sent[v][i]) :
          a <= acts + 1 /\ at[a] = 0
    <3> SUFFICES ASSUME NEW v \in Windows, NEW i \in 1..Len(sent[v]),
                        NEW a \in ActsOf(sent[v][i])
                 PROVE  a <= acts + 1 /\ at[a] = 0
      OBVIOUS
    <3>1. a \in Nat /\ a <= acts /\ at[a] = 0
      BY ActsInNat DEF Uncommitted, ActsOf
    <3> QED BY <1>1, <3>1
  <2>2. \A v \in Windows, j \in Fields : pending'[v][j] # None => at[pending'[v][j]] = 0
    BY <1>2, <1>3 DEF Uncommitted
  <2> QED BY <1>1, <1>4, <2>1, <2>2 DEF Uncommitted, ActsOf
<1>6. OnePlace'
  <2>1. \A v, u \in Windows, i, j \in Fields :
          pending'[v][i] # None /\ pending'[v][i] = pending'[u][j] => v = u
    BY <1>2, <1>3 DEF OnePlace
  <2>2. \A v, u \in Windows, j \in Fields : \A i \in 1..Len(sent[u]) :
          pending'[v][j] \notin ActsOf(sent[u][i])
    BY <1>2, <1>3 DEF OnePlace
  <2>3. \A v, u \in Windows, j \in Fields : \A i \in 1..Len(sent'[u]) :
          pending'[v][j] \notin ActsOf(sent'[u][i])
    BY <1>1, <2>2
  <2>4. \A v, u \in Windows : \A i \in 1..Len(sent'[v]), j \in 1..Len(sent'[u]) :
          v # u \/ i # j => ActsOf(sent'[v][i]) \cap ActsOf(sent'[u][j]) = {}
    <3>1. \A v, u \in Windows : \A i \in 1..Len(sent[v]), j \in 1..Len(sent[u]) :
            v # u \/ i # j => ActsOf(sent[v][i]) \cap ActsOf(sent[u][j]) = {}
      BY DEF OnePlace
    <3>2. sent' = sent
      BY <1>1
    <3> QED BY <3>1, <3>2
  <2> QED BY <2>1, <2>3, <2>4 DEF OnePlace
<1> QED BY <1>5, <1>6

\* A request that carries a new act, or none.
LEMMA PlaceAsk ==
    ASSUME IInv, LinkTypes, Uncommitted, OnePlace, NEW w \in Windows, NEW r, Asks(w, r),
           acts < MaxActs, acts' = acts + 1, ActsOf(r) \subseteq {acts + 1},
           UNCHANGED <<pending, at>>
    PROVE  Uncommitted' /\ OnePlace'
<1>1. /\ acts + 1 \in Acts /\ at[acts + 1] = 0 /\ acts \in Nat
      /\ \A v \in Windows, j \in Fields : pending[v][j] # acts + 1
      /\ \A v \in Windows : \A i \in 1..Len(sent[v]) : acts + 1 \notin ActsOf(sent[v][i])
  BY NewAct DEF IInv, OutboxTypeOK
<1>2. \A v \in Windows : \A i \in 1..Len(sent'[v]) :
        \/ i \in 1..Len(sent[v]) /\ sent'[v][i] = sent[v][i]
        \/ v = w /\ i = Len(sent[w]) + 1 /\ sent'[v][i] = r
  <2>1. Len(sent'[w]) = Len(sent[w]) + 1 /\ Len(sent[w]) \in Nat
    BY DEF Asks, LinkTypes
  <2>2. \A i \in 1..Len(sent[w]) : sent'[w][i] = sent[w][i]
    BY DEF Asks, LinkTypes
  <2>3. sent'[w][Len(sent[w]) + 1] = r
    BY DEF Asks, LinkTypes
  <2>4. \A i \in 1..(Len(sent[w]) + 1) : i \in 1..Len(sent[w]) \/ i = Len(sent[w]) + 1
    BY <2>1
  <2> QED BY <2>1, <2>2, <2>3, <2>4 DEF Asks
<1>3. \A v \in Windows : Len(sent[v]) \in Nat
  BY DEF LinkTypes
<1>4. Uncommitted'
  <2>1. ASSUME NEW a \in Acts, at[a] > 0 PROVE a <= acts + 1
    <3>1. a \in Nat /\ a <= acts
      BY <2>1, ActsInNat DEF Uncommitted
    <3> QED BY <1>1, <3>1
  <2>2. ASSUME NEW v \in Windows, NEW i \in 1..Len(sent'[v]), NEW a \in ActsOf(sent'[v][i])
        PROVE  a <= acts + 1 /\ at[a] = 0
    <3>1. CASE i \in 1..Len(sent[v]) /\ sent'[v][i] = sent[v][i]
      <4>1. a \in ActsOf(sent[v][i]) /\ a \in Nat
        BY <2>2, <3>1, ActsInNat DEF ActsOf
      <4>2. a <= acts /\ at[a] = 0
        BY <3>1, <4>1 DEF Uncommitted
      <4> QED BY <1>1, <4>1, <4>2
    <3>2. CASE sent'[v][i] = r
      BY <1>1, <2>2, <3>2
    <3> QED BY <1>2, <3>1, <3>2
  <2>3. \A v \in Windows, j \in Fields : pending[v][j] # None => at[pending[v][j]] = 0
    BY DEF Uncommitted
  <2> QED BY <2>1, <2>2, <2>3 DEF Uncommitted, ActsOf
<1>5. OnePlace'
  <2>1. \A v, u \in Windows, i, j \in Fields :
          pending'[v][i] # None /\ pending'[v][i] = pending'[u][j] => v = u
    BY DEF OnePlace
  <2>2. ASSUME NEW v \in Windows, NEW u \in Windows, NEW j \in Fields,
               NEW i \in 1..Len(sent'[u])
        PROVE  pending'[v][j] \notin ActsOf(sent'[u][i])
    <3>1. pending'[v][j] = pending[v][j] /\ pending[v][j] # acts + 1
      BY <1>1
    <3>2. CASE i \in 1..Len(sent[u]) /\ sent'[u][i] = sent[u][i]
      BY <3>1, <3>2 DEF OnePlace
    <3>3. CASE sent'[u][i] = r
      BY <3>1, <3>3
    <3> QED BY <1>2, <3>2, <3>3
  <2>3. ASSUME NEW v \in Windows, NEW u \in Windows, NEW i \in 1..Len(sent'[v]),
               NEW j \in 1..Len(sent'[u]), v # u \/ i # j
        PROVE  ActsOf(sent'[v][i]) \cap ActsOf(sent'[u][j]) = {}
    <3>1. CASE /\ i \in 1..Len(sent[v]) /\ sent'[v][i] = sent[v][i]
               /\ j \in 1..Len(sent[u]) /\ sent'[u][j] = sent[u][j]
      BY <2>3, <3>1 DEF OnePlace
    <3>2. CASE /\ i \in 1..Len(sent[v]) /\ sent'[v][i] = sent[v][i] /\ sent'[u][j] = r
      BY <1>1, <3>2
    <3>3. CASE /\ j \in 1..Len(sent[u]) /\ sent'[u][j] = sent[u][j] /\ sent'[v][i] = r
      BY <1>1, <3>3
    <3> QED BY <1>2, <2>3, <3>1, <3>2, <3>3
  <2> QED BY <2>1, <2>2, <2>3 DEF OnePlace
<1> QED BY <1>4, <1>5

\* The patch goes from the outbox into a request.
LEMMA PlaceSend ==
    ASSUME IInv, LinkTypes, Uncommitted, OnePlace, NEW w \in Windows, NEW r, Asks(w, r),
           r.patch = pending[w], r.act = 0, pending' = [pending EXCEPT ![w] = Empty],
           UNCHANGED <<at, acts>>
    PROVE  Uncommitted' /\ OnePlace'
<1>1. pending \in [Windows -> Patches] /\ \A k \in Fields : Empty[k] = None
  BY DEF IInv, OutboxTypeOK, Empty
<1>2. \A v \in Windows, k \in Fields :
        pending'[v][k] = IF v = w THEN None ELSE pending[v][k]
  BY <1>1
<1>3. \A a \in ActsOf(r) :
        a \in Acts /\ \E k \in Fields : pending[w][k] # None /\ a = pending[w][k]
  BY NoneIsNoAct, ActsInNat DEF ActsOf
<1>4. \A v \in Windows : \A i \in 1..Len(sent'[v]) :
        \/ i \in 1..Len(sent[v]) /\ sent'[v][i] = sent[v][i]
        \/ v = w /\ i = Len(sent[w]) + 1 /\ sent'[v][i] = r
  <2>1. Len(sent'[w]) = Len(sent[w]) + 1 /\ Len(sent[w]) \in Nat
    BY DEF Asks, LinkTypes
  <2>2. \A i \in 1..Len(sent[w]) : sent'[w][i] = sent[w][i]
    BY DEF Asks, LinkTypes
  <2>3. sent'[w][Len(sent[w]) + 1] = r
    BY DEF Asks, LinkTypes
  <2>4. \A i \in 1..(Len(sent[w]) + 1) : i \in 1..Len(sent[w]) \/ i = Len(sent[w]) + 1
    BY <2>1
  <2> QED BY <2>1, <2>2, <2>3, <2>4 DEF Asks
<1>5. Uncommitted'
  <2>1. \A a \in Acts : at[a] > 0 => a <= acts
    BY DEF Uncommitted
  <2>2. ASSUME NEW v \in Windows, NEW i \in 1..Len(sent'[v]), NEW a \in ActsOf(sent'[v][i])
        PROVE  a <= acts /\ at[a] = 0
    <3>1. CASE i \in 1..Len(sent[v]) /\ sent'[v][i] = sent[v][i]
      BY <2>2, <3>1 DEF Uncommitted
    <3>2. CASE sent'[v][i] = r
      BY <1>3, <2>2, <3>2 DEF Uncommitted, IInv, Numbered
    <3> QED BY <1>4, <3>1, <3>2
  <2>3. \A v \in Windows, j \in Fields : pending'[v][j] # None => at[pending'[v][j]] = 0
    BY <1>2 DEF Uncommitted
  <2> QED BY <2>1, <2>2, <2>3 DEF Uncommitted, ActsOf
<1>6. OnePlace'
  <2>1. \A v, u \in Windows, i, j \in Fields :
          pending'[v][i] # None /\ pending'[v][i] = pending'[u][j] => v = u
    BY <1>2 DEF OnePlace
  <2>2. ASSUME NEW v \in Windows, NEW u \in Windows, NEW j \in Fields,
               NEW i \in 1..Len(sent'[u])
        PROVE  pending'[v][j] \notin ActsOf(sent'[u][i])
    <3>1. CASE v = w
      <4>1. pending'[v][j] = None
        BY <1>2, <3>1
      <4> QED BY <4>1, NoneIsNoAct DEF ActsOf
    <3>2. CASE v # w
      <4>1. pending'[v][j] = pending[v][j]
        BY <1>2, <3>2
      <4>2. CASE i \in 1..Len(sent[u]) /\ sent'[u][i] = sent[u][i]
        BY <4>1, <4>2 DEF OnePlace
      <4>3. CASE sent'[u][i] = r
        BY <1>3, <3>2, <4>1, <4>3 DEF OnePlace
      <4> QED BY <1>4, <4>2, <4>3
    <3> QED BY <3>1, <3>2
  <2>3. ASSUME NEW v \in Windows, NEW u \in Windows, NEW i \in 1..Len(sent'[v]),
               NEW j \in 1..Len(sent'[u]), v # u \/ i # j
        PROVE  ActsOf(sent'[v][i]) \cap ActsOf(sent'[u][j]) = {}
    <3>1. CASE /\ i \in 1..Len(sent[v]) /\ sent'[v][i] = sent[v][i]
               /\ j \in 1..Len(sent[u]) /\ sent'[u][j] = sent[u][j]
      BY <2>3, <3>1 DEF OnePlace
    <3>2. CASE /\ i \in 1..Len(sent[v]) /\ sent'[v][i] = sent[v][i] /\ sent'[u][j] = r
      <4>1. \A k \in Fields : pending[w][k] \notin ActsOf(sent[v][i])
        BY <3>2 DEF OnePlace
      <4> QED BY <1>3, <3>2, <4>1
    <3>3. CASE /\ j \in 1..Len(sent[u]) /\ sent'[u][j] = sent[u][j] /\ sent'[v][i] = r
      <4>1. \A k \in Fields : pending[w][k] \notin ActsOf(sent[u][j])
        BY <3>3 DEF OnePlace
      <4> QED BY <1>3, <3>3, <4>1
    <3> QED BY <1>4, <2>3, <3>1, <3>2, <3>3
  <2> QED BY <2>1, <2>2, <2>3 DEF OnePlace
<1> QED BY <1>5, <1>6

\* The server takes a request and commits its acts, or none.
LEMMA PlaceTake ==
    ASSUME IInv, LinkTypes, Uncommitted, OnePlace, NEW w \in Windows, Takes(w),
           at' \in [Acts -> Nat],
           \A a \in Acts : a \notin ActsOf(sent[w][1]) => at'[a] = at[a],
           UNCHANGED <<pending, acts>>
    PROVE  Uncommitted' /\ OnePlace'
<1>1. /\ \A v \in Windows : Len(sent[v]) \in Nat
      /\ 1 \in 1..Len(sent[w]) /\ Len(sent'[w]) = Len(sent[w]) - 1
      /\ \A i \in 1..Len(sent'[w]) : sent'[w][i] = sent[w][i + 1]
      /\ \A v \in Windows : v # w => sent'[v] = sent[v]
  BY DEF Takes, Shorter, LinkTypes
<1> DEFINE Was(v, i) == IF v = w THEN i + 1 ELSE i
<1>2. ASSUME NEW v \in Windows, NEW i \in 1..Len(sent'[v])
      PROVE  /\ Was(v, i) \in 1..Len(sent[v]) /\ sent'[v][i] = sent[v][Was(v, i)]
             /\ v # w \/ Was(v, i) # 1
  BY <1>1
<1>3. \A v, u \in Windows : \A i \in 1..Len(sent'[v]), j \in 1..Len(sent'[u]) :
        v # u \/ i # j => v # u \/ Was(v, i) # Was(u, j)
  BY <1>1
<1> HIDE DEF Was
<1>4. \A v \in Windows : \A i \in 1..Len(sent'[v]) : \A a \in ActsOf(sent'[v][i]) :
        a <= acts /\ at'[a] = 0
  <2> SUFFICES ASSUME NEW v \in Windows, NEW i \in 1..Len(sent'[v]),
                      NEW a \in ActsOf(sent'[v][i])
               PROVE  a <= acts /\ at'[a] = 0
    OBVIOUS
  <2>1. a \in ActsOf(sent[v][Was(v, i)]) /\ a \in Acts
    BY <1>2 DEF ActsOf
  <2>2. a \notin ActsOf(sent[w][1])
    BY <1>1, <1>2, <2>1 DEF OnePlace
  <2> QED BY <1>2, <2>1, <2>2 DEF Uncommitted
<1>5. \A v \in Windows, k \in Fields : pending[v][k] # None => at'[pending[v][k]] = 0
  <2> SUFFICES ASSUME NEW v \in Windows, NEW k \in Fields, pending[v][k] # None
               PROVE  at'[pending[v][k]] = 0
    OBVIOUS
  <2>1. pending[v][k] \in Acts /\ pending[v][k] \notin ActsOf(sent[w][1])
    BY <1>1, PendingActs DEF OnePlace, IInv
  <2> QED BY <2>1 DEF Uncommitted
<1>6. \A a \in Acts : at'[a] > 0 => a <= acts
  BY <1>1 DEF Uncommitted
<1>7. Uncommitted'
  BY <1>4, <1>5, <1>6 DEF Uncommitted, ActsOf
<1>8. \A v, u \in Windows, k \in Fields : \A i \in 1..Len(sent'[u]) :
        pending'[v][k] \notin ActsOf(sent'[u][i])
  BY <1>2 DEF OnePlace
<1>9. ASSUME NEW v \in Windows, NEW u \in Windows, NEW i \in 1..Len(sent'[v]),
             NEW j \in 1..Len(sent'[u]), v # u \/ i # j
      PROVE  ActsOf(sent'[v][i]) \cap ActsOf(sent'[u][j]) = {}
  <2>1. v # u \/ Was(v, i) # Was(u, j)
    BY <1>3, <1>9
  <2>2. ActsOf(sent[v][Was(v, i)]) \cap ActsOf(sent[u][Was(u, j)]) = {}
    BY <1>2, <2>1 DEF OnePlace
  <2> QED BY <1>2, <2>2
<1>10. OnePlace'
  <2>1. \A v, u \in Windows, i, j \in Fields :
          pending'[v][i] # None /\ pending'[v][i] = pending'[u][j] => v = u
    BY DEF OnePlace
  <2> QED BY <1>8, <1>9, <2>1 DEF OnePlace
<1> QED BY <1>7, <1>10
-----------------------------------------------------------------------------
(* Updates and their answers keep their order.                              *)

Lists(q, r) == q \in Seq(Snapshots) /\ r \in Seq(Requests)

\* A request that is not an update.
LEMMA UpdatesAsk ==
    ASSUME NEW q, NEW r, NEW n \in Nat, NEW F, NEW x \in Requests, x.kind # "update",
           Lists(q, r), Updates(q, r, n), Underway(F, q, r)
    PROVE  Updates(q, Append(r, x), n) /\ Underway(F, q, Append(r, x))
<1> DEFINE t == Append(r, x)
<1>1. /\ Len(t) = Len(r) + 1 /\ Len(r) \in Nat
      /\ \A j \in 1..Len(r) : t[j] = r[j]
      /\ t[Len(r) + 1] = x
  BY Added DEF Lists
<1>2. \A j \in 1..(Len(r) + 1) : j \in 1..Len(r) \/ j = Len(r) + 1
  BY <1>1
<1> HIDE DEF t
<1>3. \A j \in 1..Len(t) : t[j].kind = "update" => j \in 1..Len(r) /\ t[j] = r[j]
  BY <1>1, <1>2
<1>4. \A j \in 1..Len(r) : j \in 1..Len(t)
  BY <1>1
<1>5. Updates(q, t, n)
  <2>1. \A j \in 1..Len(t) : t[j].kind = "update" => t[j].id < n
    BY <1>3 DEF Updates
  <2>2. \A i, j \in 1..Len(t) :
         t[i].kind = "update" /\ t[j].kind = "update" /\ i < j => t[i].id < t[j].id
    BY <1>3 DEF Updates
  <2>3. \A i \in 1..Len(q), j \in 1..Len(t) :
         q[i].kind = "updated" /\ t[j].kind = "update" => q[i].id < t[j].id
    BY <1>3 DEF Updates
  <2> QED BY <2>1, <2>2, <2>3 DEF Updates
<1>6. Underway(F, q, t)
  <2>1. \A s \in F : \/ \E i \in 1..Len(q) : q[i].kind = "updated" /\ q[i].id = s.id
                     \/ \E j \in 1..Len(t) : t[j].kind = "update" /\ t[j].id = s.id
    BY <1>1, <1>4 DEF Underway
  <2>2. \A j \in 1..Len(t) : t[j].kind = "update" =>
         [id |-> t[j].id, patch |-> t[j].patch] \in F
    BY <1>3 DEF Underway
  <2> QED BY <2>1, <2>2 DEF Underway
<1> QED BY <1>5, <1>6 DEF t

\* The patch that is sent gets the next id.
LEMMA UpdatesSend ==
    ASSUME NEW q, NEW r, NEW n \in Nat, NEW F, NEW p,
           \A s \in F : s.id \in Nat /\ s.id < n,
           Request("update", n, p, "none", 0) \in Requests,
           Lists(q, r), Updates(q, r, n), Underway(F, q, r)
    PROVE  LET x == Request("update", n, p, "none", 0) IN
           /\ Updates(q, Append(r, x), n + 1)
           /\ Underway(F \cup {[id |-> n, patch |-> p]}, q, Append(r, x))
<1> DEFINE x == Request("update", n, p, "none", 0)
           t == Append(r, x)
           y == [id |-> n, patch |-> p]
           G == F \cup {y}
<1>0. x.kind = "update" /\ x.id = n /\ x.patch = p /\ y.id = n /\ y.patch = p
  BY DEF Request
<1>1. /\ Len(t) = Len(r) + 1 /\ Len(r) \in Nat
      /\ \A j \in 1..Len(r) : t[j] = r[j]
      /\ t[Len(r) + 1] = x
  BY Added DEF Lists
<1>2. \A j \in 1..(Len(r) + 1) : (j \in 1..Len(r) \/ j = Len(r) + 1)
                                 /\ ~(Len(r) + 1 < j)
  BY <1>1
<1> HIDE DEF t, x, y
<1>3. \A j \in 1..Len(t) : \/ j \in 1..Len(r) /\ t[j] = r[j]
                           \/ j = Len(r) + 1 /\ t[j] = x
  BY <1>1, <1>2
<1>4. /\ \A j \in 1..Len(r) : j \in 1..Len(t) /\ t[j] = r[j]
      /\ Len(r) + 1 \in 1..Len(t)
  BY <1>1
<1>5. /\ \A j \in 1..Len(r) : r[j].kind = "update" => r[j].id \in Nat /\ r[j].id < n
      /\ \A i \in 1..Len(q) : q[i].kind = "updated" => q[i].id \in Nat /\ q[i].id < n
  <2>1. \A j \in 1..Len(r) : r[j] \in Requests
    BY DEF Lists
  <2>2. \A i \in 1..Len(q) : q[i] \in Snapshots
    BY DEF Lists
  <2>3. (\A z \in Requests : z.id \in Nat) /\ \A z \in Snapshots : z.id \in Nat
    BY DEF Requests, Snapshots
  <2> QED BY <2>1, <2>2, <2>3 DEF Updates
<1>6. \A a \in Nat : a < n => a < n + 1 /\ a # n
  OBVIOUS
<1>7. n < n + 1
  OBVIOUS
<1>8. Updates(q, t, n + 1)
  <2>1. \A j \in 1..Len(t) : t[j].kind = "update" => t[j].id < n + 1
    BY <1>0, <1>3, <1>5, <1>6, <1>7
  <2>2. \A i \in 1..Len(q) : q[i].kind = "updated" => q[i].id < n + 1
    BY <1>5, <1>6
  <2>3. \A i, j \in 1..Len(t) :
         t[i].kind = "update" /\ t[j].kind = "update" /\ i < j => t[i].id < t[j].id
    <3> SUFFICES ASSUME NEW i \in 1..Len(t), NEW j \in 1..Len(t), i < j,
                        t[i].kind = "update", t[j].kind = "update"
                 PROVE  t[i].id < t[j].id
      OBVIOUS
    <3>1. i # Len(r) + 1
      BY <1>1, <1>2
    <3>2. i \in 1..Len(r) /\ t[i] = r[i]
      BY <1>3, <3>1
    <3> QED BY <1>0, <1>3, <1>5, <3>2 DEF Updates
  <2>4. \A i \in 1..Len(q), j \in 1..Len(t) :
         q[i].kind = "updated" /\ t[j].kind = "update" => q[i].id < t[j].id
    BY <1>0, <1>3, <1>5 DEF Updates
  <2> QED BY <2>1, <2>2, <2>3, <2>4 DEF Updates
<1>9. Underway(G, q, t)
  <2>1. \A s, u \in G : s.id = u.id => s = u
    BY <1>0, <1>6 DEF Underway
  <2>2. \A s \in G : \/ \E i \in 1..Len(q) : q[i].kind = "updated" /\ q[i].id = s.id
                     \/ \E j \in 1..Len(t) : t[j].kind = "update" /\ t[j].id = s.id
    BY <1>0, <1>1, <1>4 DEF Underway
  <2>3. \A j \in 1..Len(t) : t[j].kind = "update" =>
         [id |-> t[j].id, patch |-> t[j].patch] \in G
    <3> SUFFICES ASSUME NEW j \in 1..Len(t), t[j].kind = "update"
                 PROVE  [id |-> t[j].id, patch |-> t[j].patch] \in G
      OBVIOUS
    <3>1. CASE j \in 1..Len(r) /\ t[j] = r[j]
      BY <3>1 DEF Underway
    <3>2. CASE t[j] = x
      BY <1>0, <3>2 DEF y
    <3> QED BY <1>3, <3>1, <3>2
  <2>4. \A s \in G : \A i \in 1..Len(q) : q[i].kind = "updated" /\ q[i].id = s.id =>
         \A k \in Fields : s.patch[k] # None => q[i].doc[k] = s.patch[k]
    BY <1>0, <1>5, <1>6 DEF Underway
  <2> QED BY <2>1, <2>2, <2>3, <2>4 DEF Underway
<1> QED BY <1>8, <1>9 DEF t, x, y

\* What reaches the window and answers no update.
LEMMA UpdatesHearOther ==
    ASSUME NEW q, NEW r, NEW n \in Nat, NEW F, NEW x \in Snapshots, x.kind # "updated",
           Lists(q, r), Updates(q, r, n), Underway(F, q, r)
    PROVE  Updates(Append(q, x), r, n) /\ Underway(F, Append(q, x), r)
<1> DEFINE t == Append(q, x)
<1>1. /\ Len(t) = Len(q) + 1 /\ Len(q) \in Nat
      /\ \A j \in 1..Len(q) : t[j] = q[j]
      /\ t[Len(q) + 1] = x
  BY Added DEF Lists
<1>2. \A j \in 1..(Len(q) + 1) : j \in 1..Len(q) \/ j = Len(q) + 1
  BY <1>1
<1> HIDE DEF t
<1>3. \A j \in 1..Len(t) : t[j].kind = "updated" => j \in 1..Len(q) /\ t[j] = q[j]
  BY <1>1, <1>2
<1>4. \A j \in 1..Len(q) : j \in 1..Len(t)
  BY <1>1
<1>5. Updates(t, r, n)
  <2>1. \A j \in 1..Len(t) : t[j].kind = "updated" => t[j].id < n
    BY <1>3 DEF Updates
  <2>2. \A i, j \in 1..Len(t) :
         t[i].kind = "updated" /\ t[j].kind = "updated" /\ i < j => t[i].id < t[j].id
    BY <1>3 DEF Updates
  <2>3. \A i \in 1..Len(t), j \in 1..Len(r) :
         t[i].kind = "updated" /\ r[j].kind = "update" => t[i].id < r[j].id
    BY <1>3 DEF Updates
  <2> QED BY <2>1, <2>2, <2>3 DEF Updates
<1>6. Underway(F, t, r)
  <2>1. \A s \in F : \/ \E i \in 1..Len(t) : t[i].kind = "updated" /\ t[i].id = s.id
                     \/ \E j \in 1..Len(r) : r[j].kind = "update" /\ r[j].id = s.id
    BY <1>1, <1>4 DEF Underway
  <2>2. \A s \in F : \A i \in 1..Len(t) : t[i].kind = "updated" /\ t[i].id = s.id =>
         \A k \in Fields : s.patch[k] # None => t[i].doc[k] = s.patch[k]
    BY <1>3 DEF Underway
  <2> QED BY <2>1, <2>2 DEF Underway
<1> QED BY <1>5, <1>6 DEF t

\* The server takes a request that is no update.
LEMMA UpdatesTake ==
    ASSUME NEW q, NEW r, NEW t, NEW n \in Nat, NEW F, Shorter(r, t),
           r[1].kind # "update",
           Lists(q, r), Updates(q, r, n), Underway(F, q, r)
    PROVE  Updates(q, t, n) /\ Underway(F, q, t)
<1>1. Len(r) \in Nat /\ Len(t) \in Nat /\ Len(r) = Len(t) + 1
  BY DEF Lists, Shorter
<1>2. \A j \in 1..Len(t) : j + 1 \in 1..Len(r) /\ t[j] = r[j + 1]
  BY <1>1 DEF Shorter
<1>3. \A i, j \in 1..Len(t) : i < j => i + 1 < j + 1
  BY <1>1
<1>4. \A j \in 1..Len(r) : r[j].kind = "update" =>
        j - 1 \in 1..Len(t) /\ t[j - 1] = r[j]
  <2> SUFFICES ASSUME NEW j \in 1..Len(r), r[j].kind = "update"
               PROVE  j - 1 \in 1..Len(t) /\ t[j - 1] = r[j]
    OBVIOUS
  <2>1. j # 1
    OBVIOUS
  <2>2. j - 1 \in 1..Len(t) /\ (j - 1) + 1 = j
    BY <1>1, <2>1
  <2> QED BY <1>2, <2>2
<1>5. Updates(q, t, n)
  <2>1. \A j \in 1..Len(t) : t[j].kind = "update" => t[j].id < n
    BY <1>2 DEF Updates
  <2>2. \A i, j \in 1..Len(t) :
         t[i].kind = "update" /\ t[j].kind = "update" /\ i < j => t[i].id < t[j].id
    BY <1>2, <1>3 DEF Updates
  <2>3. \A i \in 1..Len(q), j \in 1..Len(t) :
         q[i].kind = "updated" /\ t[j].kind = "update" => q[i].id < t[j].id
    BY <1>2 DEF Updates
  <2> QED BY <2>1, <2>2, <2>3 DEF Updates
<1>6. Underway(F, q, t)
  <2>1. \A s \in F : \/ \E i \in 1..Len(q) : q[i].kind = "updated" /\ q[i].id = s.id
                     \/ \E j \in 1..Len(t) : t[j].kind = "update" /\ t[j].id = s.id
    BY <1>4 DEF Underway
  <2>2. \A j \in 1..Len(t) : t[j].kind = "update" =>
         [id |-> t[j].id, patch |-> t[j].patch] \in F
    BY <1>2 DEF Underway
  <2> QED BY <2>1, <2>2 DEF Underway
<1> QED BY <1>5, <1>6

\* The server takes an update and answers it.
LEMMA UpdatesAnswer ==
    ASSUME NEW q, NEW r, NEW t, NEW n \in Nat, NEW F, NEW x \in Snapshots,
           Shorter(r, t), r[1].kind = "update", x.kind = "updated", x.id = r[1].id,
           \A k \in Fields : r[1].patch[k] # None => x.doc[k] = r[1].patch[k],
           \A s \in F : s = [id |-> s.id, patch |-> s.patch],
           Lists(q, r), Updates(q, r, n), Underway(F, q, r)
    PROVE  Updates(Append(q, x), t, n) /\ Underway(F, Append(q, x), t)
<1> DEFINE u == Append(q, x)
<1>1. Len(r) \in Nat /\ Len(t) \in Nat /\ Len(r) = Len(t) + 1
  BY DEF Lists, Shorter
<1>2. \A j \in 1..Len(t) : j + 1 \in 1..Len(r) /\ t[j] = r[j + 1] /\ 1 < j + 1
  BY <1>1 DEF Shorter
<1>3. /\ \A i, j \in 1..Len(t) : i < j => i + 1 < j + 1
      /\ 1 \in 1..Len(r)
  BY <1>1
<1>4. \A j \in 1..Len(r) : j = 1 \/ (j - 1 \in 1..Len(t) /\ t[j - 1] = r[j])
  <2> SUFFICES ASSUME NEW j \in 1..Len(r), j # 1
               PROVE  j - 1 \in 1..Len(t) /\ t[j - 1] = r[j]
    OBVIOUS
  <2>2. j - 1 \in 1..Len(t) /\ (j - 1) + 1 = j
    BY <1>1
  <2> QED BY <1>2, <2>2
<1>5. /\ Len(u) = Len(q) + 1 /\ Len(q) \in Nat
      /\ \A j \in 1..Len(q) : u[j] = q[j]
      /\ u[Len(q) + 1] = x
  BY Added DEF Lists
<1>6. \A j \in 1..(Len(q) + 1) : (j \in 1..Len(q) \/ j = Len(q) + 1) /\ ~(Len(q) + 1 < j)
  BY <1>5
<1> HIDE DEF u
<1>7. \A j \in 1..Len(u) : \/ j \in 1..Len(q) /\ u[j] = q[j]
                           \/ j = Len(q) + 1 /\ u[j] = x
  BY <1>5, <1>6
<1>8. /\ \A j \in 1..Len(q) : j \in 1..Len(u) /\ u[j] = q[j]
      /\ Len(q) + 1 \in 1..Len(u)
  BY <1>5
<1>9. Updates(u, t, n)
  <2>1. \A i \in 1..Len(u) : u[i].kind = "updated" => u[i].id < n
    BY <1>3, <1>7 DEF Updates
  <2>2. \A j \in 1..Len(t) : t[j].kind = "update" => t[j].id < n
    BY <1>2 DEF Updates
  <2>3. \A i, j \in 1..Len(t) :
         t[i].kind = "update" /\ t[j].kind = "update" /\ i < j => t[i].id < t[j].id
    BY <1>2, <1>3 DEF Updates
  <2>4. ASSUME NEW i \in 1..Len(u), NEW j \in 1..Len(u), i < j,
               u[i].kind = "updated", u[j].kind = "updated"
        PROVE  u[i].id < u[j].id
    <3>1. i # Len(q) + 1
      BY <1>5, <1>6, <2>4
    <3>2. i \in 1..Len(q) /\ u[i] = q[i]
      BY <1>7, <3>1
    <3>3. CASE j \in 1..Len(q) /\ u[j] = q[j]
      BY <2>4, <3>2, <3>3 DEF Updates
    <3>4. CASE u[j] = x
      BY <1>3, <2>4, <3>2, <3>4 DEF Updates
    <3> QED BY <1>7, <3>3, <3>4
  <2>5. ASSUME NEW i \in 1..Len(u), NEW j \in 1..Len(t),
               u[i].kind = "updated", t[j].kind = "update"
        PROVE  u[i].id < t[j].id
    <3>1. CASE i \in 1..Len(q) /\ u[i] = q[i]
      BY <1>2, <2>5, <3>1 DEF Updates
    <3>2. CASE u[i] = x
      BY <1>2, <1>3, <2>5, <3>2 DEF Updates
    <3> QED BY <1>7, <3>1, <3>2
  <2> QED BY <2>1, <2>2, <2>3, <2>4, <2>5 DEF Updates
<1>10. Underway(F, u, t)
  <2>1. ASSUME NEW s \in F
        PROVE  \/ \E i \in 1..Len(u) : u[i].kind = "updated" /\ u[i].id = s.id
               \/ \E j \in 1..Len(t) : t[j].kind = "update" /\ t[j].id = s.id
    <3>1. CASE \E i \in 1..Len(q) : q[i].kind = "updated" /\ q[i].id = s.id
      BY <1>8, <3>1
    <3>2. CASE \E j \in 1..Len(r) : r[j].kind = "update" /\ r[j].id = s.id
      <4>1. PICK j \in 1..Len(r) : r[j].kind = "update" /\ r[j].id = s.id
        BY <3>2
      <4>2. CASE j = 1
        BY <1>5, <1>8, <4>1, <4>2
      <4>3. CASE j - 1 \in 1..Len(t) /\ t[j - 1] = r[j]
        BY <4>1, <4>3
      <4> QED BY <1>4, <4>2, <4>3
    <3> QED BY <3>1, <3>2 DEF Underway
  <2>2. \A j \in 1..Len(t) : t[j].kind = "update" =>
         [id |-> t[j].id, patch |-> t[j].patch] \in F
    BY <1>2 DEF Underway
  <2>3. ASSUME NEW s \in F, NEW i \in 1..Len(u), u[i].kind = "updated", u[i].id = s.id,
               NEW k \in Fields, s.patch[k] # None
        PROVE  u[i].doc[k] = s.patch[k]
    <3>1. CASE i \in 1..Len(q) /\ u[i] = q[i]
      BY <2>3, <3>1 DEF Underway
    <3>2. CASE u[i] = x
      <4> DEFINE y == [id |-> r[1].id, patch |-> r[1].patch]
      <4>1. y \in F /\ y.id = s.id /\ y.patch = r[1].patch
        BY <1>3, <2>3, <3>2 DEF Underway
      <4>2. y = s
        BY <4>1 DEF Underway
      <4> QED BY <2>3, <3>2, <4>1, <4>2
    <3> QED BY <1>7, <3>1, <3>2
  <2> QED BY <2>1, <2>2, <2>3 DEF Underway
<1> QED BY <1>9, <1>10 DEF u

\* The window hears something that answers no update.
LEMMA UpdatesHeard ==
    ASSUME NEW q, NEW r, NEW t, NEW i, NEW n \in Nat, NEW F, Without(q, i, t),
           q[i].kind # "updated",
           Lists(q, r), Updates(q, r, n), Underway(F, q, r)
    PROVE  Updates(t, r, n) /\ Underway(F, t, r)
<1> DEFINE Was(j) == IF j < i THEN j ELSE j + 1
<1>1. Len(q) \in Nat /\ i \in 1..Len(q) /\ Len(t) = Len(q) - 1
  BY DEF Lists, Without
<1>2. \A j \in 1..Len(t) : Was(j) \in 1..Len(q) /\ t[j] = q[Was(j)]
  BY <1>1 DEF Without
<1>3. \A j, k \in 1..Len(t) : j < k => Was(j) < Was(k)
  BY <1>1
<1> HIDE DEF Was
<1>4. ASSUME NEW j \in 1..Len(q), j # i PROVE \E k \in 1..Len(t) : t[k] = q[j]
  <2>1. CASE j < i
    <3>1. j \in 1..Len(t)
      BY <1>1, <2>1
    <3> QED BY <2>1, <3>1 DEF Without
  <2>2. CASE ~(j < i)
    <3>1. j - 1 \in 1..Len(t) /\ ~(j - 1 < i) /\ (j - 1) + 1 = j
      BY <1>1, <1>4, <2>2
    <3> QED BY <3>1 DEF Without
  <2> QED BY <2>1, <2>2
<1>5. Updates(t, r, n)
  <2>1. \A j \in 1..Len(t) : t[j].kind = "updated" => t[j].id < n
    BY <1>2 DEF Updates
  <2>2. \A j, k \in 1..Len(t) :
         t[j].kind = "updated" /\ t[k].kind = "updated" /\ j < k => t[j].id < t[k].id
    BY <1>2, <1>3 DEF Updates
  <2>3. \A j \in 1..Len(t), k \in 1..Len(r) :
         t[j].kind = "updated" /\ r[k].kind = "update" => t[j].id < r[k].id
    BY <1>2 DEF Updates
  <2> QED BY <2>1, <2>2, <2>3 DEF Updates
<1>6. Underway(F, t, r)
  <2>1. ASSUME NEW s \in F
        PROVE  \/ \E j \in 1..Len(t) : t[j].kind = "updated" /\ t[j].id = s.id
               \/ \E j \in 1..Len(r) : r[j].kind = "update" /\ r[j].id = s.id
    <3>1. CASE \E j \in 1..Len(q) : q[j].kind = "updated" /\ q[j].id = s.id
      <4>1. PICK j \in 1..Len(q) : q[j].kind = "updated" /\ q[j].id = s.id
        BY <3>1
      <4>2. PICK k \in 1..Len(t) : t[k] = q[j]
        BY <1>4, <4>1
      <4> QED BY <4>1, <4>2
    <3> QED BY <3>1 DEF Underway
  <2>2. ASSUME NEW s \in F, NEW j \in 1..Len(t),
               t[j].kind = "updated" /\ t[j].id = s.id, NEW k \in Fields, s.patch[k] # None
        PROVE  t[j].doc[k] = s.patch[k]
    <3>1. \E m \in 1..Len(q) : t[j] = q[m]
      BY <1>2
    <3>2. \A m \in 1..Len(q) : q[m].kind = "updated" /\ q[m].id = s.id =>
            q[m].doc[k] = s.patch[k]
      BY <2>2 DEF Underway
    <3> QED BY <2>2, <3>1, <3>2
  <2> QED BY <2>1, <2>2 DEF Underway
<1> QED BY <1>5, <1>6

\* The first answer to an update that is heard settles the oldest patch.
LEMMA UpdatesSettled ==
    ASSUME NEW q, NEW r, NEW t, NEW i, NEW n \in Nat, NEW F, Without(q, i, t),
           q[i].kind = "updated", \A j \in 1..(i - 1) : q[j].kind # "updated",
           Lists(q, r), Updates(q, r, n), Underway(F, q, r)
    PROVE  /\ Updates(t, r, n)
           /\ Underway({s \in F : s.id # q[i].id}, t, r)
           /\ \A s \in F : s.id # q[i].id => q[i].id < s.id
<1> DEFINE Was(j) == IF j < i THEN j ELSE j + 1
           G == {s \in F : s.id # q[i].id}
<1>1. Len(q) \in Nat /\ i \in 1..Len(q) /\ Len(t) = Len(q) - 1
  BY DEF Lists, Without
<1>2. \A j \in 1..Len(t) : Was(j) \in 1..Len(q) /\ t[j] = q[Was(j)]
  BY <1>1 DEF Without
<1>3. \A j, k \in 1..Len(t) : j < k => Was(j) < Was(k)
  BY <1>1
<1> HIDE DEF Was
<1>4. ASSUME NEW j \in 1..Len(q), j # i PROVE \E k \in 1..Len(t) : t[k] = q[j]
  <2>1. CASE j < i
    <3>1. j \in 1..Len(t)
      BY <1>1, <2>1
    <3> QED BY <2>1, <3>1 DEF Without
  <2>2. CASE ~(j < i)
    <3>1. j - 1 \in 1..Len(t) /\ ~(j - 1 < i) /\ (j - 1) + 1 = j
      BY <1>1, <1>4, <2>2
    <3> QED BY <3>1 DEF Without
  <2> QED BY <2>1, <2>2
<1>5. Updates(t, r, n)
  <2>1. \A j \in 1..Len(t) : t[j].kind = "updated" => t[j].id < n
    BY <1>2 DEF Updates
  <2>2. \A j, k \in 1..Len(t) :
         t[j].kind = "updated" /\ t[k].kind = "updated" /\ j < k => t[j].id < t[k].id
    BY <1>2, <1>3 DEF Updates
  <2>3. \A j \in 1..Len(t), k \in 1..Len(r) :
         t[j].kind = "updated" /\ r[k].kind = "update" => t[j].id < r[k].id
    BY <1>2 DEF Updates
  <2> QED BY <2>1, <2>2, <2>3 DEF Updates
<1>6. Underway(G, t, r)
  <2>1. ASSUME NEW s \in G
        PROVE  \/ \E j \in 1..Len(t) : t[j].kind = "updated" /\ t[j].id = s.id
               \/ \E j \in 1..Len(r) : r[j].kind = "update" /\ r[j].id = s.id
    <3>1. CASE \E j \in 1..Len(q) : q[j].kind = "updated" /\ q[j].id = s.id
      <4>1. PICK j \in 1..Len(q) : q[j].kind = "updated" /\ q[j].id = s.id
        BY <3>1
      <4>2. j # i
        BY <4>1
      <4>3. PICK k \in 1..Len(t) : t[k] = q[j]
        BY <1>4, <4>1, <4>2
      <4> QED BY <4>1, <4>3
    <3> QED BY <3>1 DEF Underway
  <2>2. ASSUME NEW s \in G, NEW j \in 1..Len(t),
               t[j].kind = "updated" /\ t[j].id = s.id, NEW k \in Fields, s.patch[k] # None
        PROVE  t[j].doc[k] = s.patch[k]
    <3>1. s \in F
      OBVIOUS
    <3> QED BY <1>2, <2>2, <3>1 DEF Underway
  <2>3. ASSUME NEW j \in 1..Len(r), r[j].kind = "update"
        PROVE  [id |-> r[j].id, patch |-> r[j].patch] \in G
    <3> DEFINE y == [id |-> r[j].id, patch |-> r[j].patch]
    <3>1. y \in F /\ y.id = r[j].id
      BY <2>3 DEF Underway
    <3>2. q[i].id < r[j].id /\ q[i] \in Snapshots /\ r[j] \in Requests
      BY <1>1, <2>3 DEF Updates, Lists
    <3>3. q[i].id # r[j].id
      BY <3>2 DEF Snapshots, Requests
    <3> QED BY <3>1, <3>3
  <2>4. \A s, u \in G : s.id = u.id => s = u
    BY DEF Underway
  <2> QED BY <2>1, <2>2, <2>3, <2>4 DEF Underway
<1>7. ASSUME NEW s \in F, s.id # q[i].id PROVE q[i].id < s.id
  <2>1. CASE \E j \in 1..Len(q) : q[j].kind = "updated" /\ q[j].id = s.id
    <3>1. PICK j \in 1..Len(q) : q[j].kind = "updated" /\ q[j].id = s.id
      BY <2>1
    <3>2. j \notin 1..(i - 1) /\ j # i
      BY <1>7, <3>1
    <3>3. i < j
      BY <1>1, <3>2
    <3> QED BY <1>1, <3>1, <3>3 DEF Updates
  <2>2. CASE \E j \in 1..Len(r) : r[j].kind = "update" /\ r[j].id = s.id
    BY <1>1, <2>2 DEF Updates
  <2> QED BY <1>7, <2>1, <2>2 DEF Underway
<1> QED BY <1>5, <1>6, <1>7
-----------------------------------------------------------------------------
(* What is laid over a snapshot, as the greatest of what was not answered.  *)

Unanswered(w, k) ==
    ({pending[w][k]} \cup {s.patch[k] : s \in inFlight[w]}) \ {None}

Tops(u, S) ==
    /\ S \subseteq Acts
    /\ S = {} => u = None
    /\ S # {} => u \in S /\ \A a \in S : a <= u

TopsInv == \A w \in Windows, k \in Fields : Tops(Unconfirmed(w)[k], Unanswered(w, k))

\* What is laid over a field is the greatest act that is not answered.
LEMMA UnconfirmedTops == IInv => TopsInv
<1> SUFFICES ASSUME IInv, NEW w \in Windows, NEW k \in Fields
             PROVE  Tops(Unconfirmed(w)[k], Unanswered(w, k))
  BY DEF TopsInv
<1> DEFINE u == Unconfirmed(w)[k]
           S == Unanswered(w, k)
<1>1. OutboxTypeOK /\ SendOrder /\ HasLatest
  BY DEF IInv
<1>2. /\ u # None => u \in Acts
      /\ pending[w][k] # None => u = pending[w][k]
      /\ pending[w][k] = None /\ u # None =>
           \E s \in inFlight[w] : s.patch[k] # None /\ u = s.patch[k]
      /\ \A s \in inFlight[w] : s.patch[k] # None => u # None /\ s.patch[k] <= u
  BY <1>1, UnconfirmedIsLast
<1> HIDE DEF u
<1>3. /\ pending[w][k] \in Acts \cup {None}
      /\ \A s \in inFlight[w] : s.patch[k] \in Acts \cup {None}
  BY <1>1 DEF OutboxTypeOK, Patches
<1>4. S \subseteq Acts
  BY <1>3 DEF Unanswered
<1>5. \A a \in S : \/ a = pending[w][k] /\ pending[w][k] # None
                   \/ \E s \in inFlight[w] : s.patch[k] # None /\ a = s.patch[k]
  BY DEF Unanswered
<1>6. u # None => u \in S
  BY <1>2 DEF Unanswered
<1>7. ASSUME NEW a \in S PROVE a <= u /\ u # None
  <2>1. CASE a = pending[w][k] /\ pending[w][k] # None
    <3>1. a \in Nat
      BY <1>4, ActsInNat
    <3>2. a = u /\ u # None
      BY <1>2, <2>1
    <3> QED BY <3>1, <3>2
  <2>2. CASE \E s \in inFlight[w] : s.patch[k] # None /\ a = s.patch[k]
    BY <1>2, <2>2
  <2> QED BY <1>5, <2>1, <2>2
<1> HIDE DEF S
<1>8. Tops(u, S)
  BY <1>4, <1>6, <1>7 DEF Tops
<1> QED BY <1>8 DEF u, S

\* The same, after a step.
LEMMA TopsNext == IInv' => TopsInv'
  BY UnconfirmedTops, PTL

\* The greatest is one.
LEMMA TopsOne ==
    ASSUME NEW S, NEW u, NEW v, Tops(u, S), Tops(v, S) PROVE u = v
<1>1. CASE S = {}
  BY <1>1 DEF Tops
<1>2. CASE S # {}
  <2>1. u \in Nat /\ v \in Nat /\ u <= v /\ v <= u
    BY <1>2, ActsInNat DEF Tops
  <2> QED BY <2>1
<1> QED BY <1>1, <1>2

\* Nothing is edited, sent or answered.
LEMMA OverlayStays ==
    ASSUME UNCHANGED <<pending, inFlight>>
    PROVE  \A w \in Windows : Unconfirmed(w)' = Unconfirmed(w)
  BY DEF Unconfirmed, InFlight, Carrying

\* An edit is the last one of its field.
LEMMA OverlayEdit ==
    ASSUME IInv, IInv', NEW w \in Windows, NEW k \in Fields, Edit(w, k)
    PROVE  \A v \in Windows, j \in Fields :
             Unconfirmed(v)'[j] = IF v = w /\ j = k THEN acts + 1 ELSE Unconfirmed(v)[j]
<1>1. TopsInv /\ TopsInv'
  BY UnconfirmedTops, TopsNext
<1>2. /\ acts < MaxActs /\ UNCHANGED inFlight /\ acts' = acts + 1
      /\ acts \in Nat /\ pending \in [Windows -> Patches]
  BY DEF Edit, IInv, OutboxTypeOK
<1>3. acts + 1 \in Acts
  BY <1>2, BoundsAssumption DEF Acts
<1>4. \A v \in Windows, j \in Fields :
        pending'[v][j] = IF v = w /\ j = k THEN acts + 1 ELSE pending[v][j]
  <2>1. pending' = [pending EXCEPT ![w] = Merge(@, [Empty EXCEPT ![k] = acts + 1])]
    BY <1>2 DEF Edit
  <2>2. ASSUME NEW j \in Fields
        PROVE  Merge(pending[w], [Empty EXCEPT ![k] = acts + 1])[j]
                 = IF j = k THEN acts + 1 ELSE pending[w][j]
    BY <1>3, NoneIsNoAct DEF Merge, Empty
  <2> QED BY <1>2, <2>1, <2>2
<1>5. ASSUME NEW v \in Windows, NEW j \in Fields, ~(v = w /\ j = k)
      PROVE  Unconfirmed(v)'[j] = Unconfirmed(v)[j]
  <2>1. Unanswered(v, j)' = Unanswered(v, j)
    BY <1>2, <1>4, <1>5 DEF Unanswered
  <2> QED BY <1>1, <2>1, TopsOne DEF TopsInv
<1>6. Unconfirmed(w)'[k] = acts + 1
  <2>1. acts + 1 \in Unanswered(w, k)'
    BY <1>3, <1>4, NoneIsNoAct DEF Unanswered
  <2>2. ASSUME NEW a \in Unanswered(w, k)' PROVE a <= acts + 1
    <3>1. a = acts + 1 \/ \E s \in inFlight[w] : s.patch[k] # None /\ a = s.patch[k]
      BY <1>2, <1>4 DEF Unanswered
    <3>2. CASE a = acts + 1
      BY <1>2, <3>2
    <3>3. CASE \E s \in inFlight[w] : s.patch[k] # None /\ a = s.patch[k]
      <4>1. a \in Nat /\ a <= acts
        BY <3>3, PatchesAreNumbers DEF IInv, Numbered
      <4> QED BY <1>2, <4>1
    <3> QED BY <3>1, <3>2, <3>3
  <2>3. Tops(acts + 1, Unanswered(w, k)')
    BY <1>1, <2>1, <2>2 DEF Tops, TopsInv
  <2> QED BY <1>1, <2>3, TopsOne DEF TopsInv
<1> QED BY <1>5, <1>6

\* What is sent is in flight instead of pending.
LEMMA OverlaySend ==
    ASSUME IInv, IInv', NEW w \in Windows, SendPending(w)
    PROVE  \A v \in Windows, j \in Fields : Unconfirmed(v)'[j] = Unconfirmed(v)[j]
<1>1. TopsInv /\ TopsInv'
  BY UnconfirmedTops, TopsNext
<1> DEFINE new == [id |-> nextId[w], patch |-> pending[w]]
<1>2. /\ pending \in [Windows -> Patches] /\ DOMAIN inFlight = Windows
      /\ inFlight' = [inFlight EXCEPT ![w] = @ \cup {new}]
      /\ pending' = [pending EXCEPT ![w] = Empty]
      /\ new.patch = pending[w] /\ \A k \in Fields : Empty[k] = None
  BY DEF SendPending, IInv, OutboxTypeOK, Empty
<1> HIDE DEF new
<1>3. ASSUME NEW v \in Windows, NEW j \in Fields
      PROVE  Unanswered(v, j)' = Unanswered(v, j)
  <2>1. CASE v # w
    BY <1>2, <2>1 DEF Unanswered
  <2>2. CASE v = w
    <3>1. pending'[w][j] = None /\ inFlight'[w] = inFlight[w] \cup {new}
      BY <1>2
    <3> QED BY <1>2, <2>2, <3>1 DEF Unanswered
  <2> QED BY <2>1, <2>2
<1> QED BY <1>1, <1>3, TopsOne DEF TopsInv

\* What is settled was the oldest: either nothing changes or nothing is left.
LEMMA OverlaySettle ==
    ASSUME IInv, IInv', NEW w \in Windows, NEW id, Settle(w, id), UNCHANGED pending,
           \A s \in inFlight[w] : s.id # id => id < s.id
    PROVE  /\ \A v \in Windows : v # w => Unconfirmed(v)' = Unconfirmed(v)
           /\ \A k \in Fields :
                \/ Unconfirmed(w)'[k] = Unconfirmed(w)[k]
                \/ /\ Unconfirmed(w)'[k] = None /\ Unconfirmed(w)[k] # None
                   /\ \E s \in inFlight[w] : s.id = id /\ s.patch[k] = Unconfirmed(w)[k]
<1>1. TopsInv /\ TopsInv'
  BY UnconfirmedTops, TopsNext
<1>2. /\ DOMAIN inFlight = Windows
      /\ inFlight'[w] = {s \in inFlight[w] : s.id # id}
      /\ \A v \in Windows : v # w => inFlight'[v] = inFlight[v]
  BY DEF Settle, IInv, OutboxTypeOK
<1>3. \A v \in Windows : v # w => Unconfirmed(v)' = Unconfirmed(v)
  BY <1>2 DEF Unconfirmed, InFlight, Carrying
<1>4. ASSUME NEW k \in Fields
      PROVE  \/ Unconfirmed(w)'[k] = Unconfirmed(w)[k]
             \/ /\ Unconfirmed(w)'[k] = None /\ Unconfirmed(w)[k] # None
                /\ \E s \in inFlight[w] : s.id = id /\ s.patch[k] = Unconfirmed(w)[k]
  <2> DEFINE u == Unconfirmed(w)[k]
             t == Unconfirmed(w)'[k]
             S == Unanswered(w, k)
             T == Unanswered(w, k)'
  <2>1. Tops(u, S) /\ Tops(t, T)
    BY <1>1 DEF TopsInv
  <2> HIDE DEF u, t
  <2>2. /\ \A a \in T : a \in S /\ a # None
        /\ \A a \in S \ T : \E s \in inFlight[w] : s.id = id /\ s.patch[k] = a /\ a # None
        /\ \A a \in T : \/ pending[w][k] = a
                        \/ \E s \in inFlight[w] : s.id # id /\ s.patch[k] = a
    BY <1>2 DEF Unanswered
  <2> HIDE DEF S, T
  <2>3. CASE S = {}
    BY <2>1, <2>2, <2>3 DEF Tops, u, t
  <2>4. CASE S # {} /\ T = {}
    <3>1. u \in S /\ u \in Acts /\ t = None
      BY <2>1, <2>4 DEF Tops
    <3> QED BY <2>2, <2>4, <3>1, NoneIsNoAct DEF u, t
  <2>5. CASE S # {} /\ T # {}
    <3>1. u \in S /\ t \in T /\ t \in S /\ u \in Nat /\ t \in Nat /\ t <= u /\ u # None
      BY <2>1, <2>2, <2>5, ActsInNat, NoneIsNoAct DEF Tops
    <3>2. u <= t
      <4>1. CASE u \in T
        BY <2>1, <2>5, <4>1 DEF Tops
      <4>2. CASE u \notin T
        <5>1. PICK s \in inFlight[w] : s.id = id /\ s.patch[k] = u
          BY <2>2, <3>1, <4>2
        <5>2. CASE pending[w][k] = t
          BY <2>2, <3>1, <5>1, <5>2 DEF IInv, SendOrder
        <5>3. CASE \E r \in inFlight[w] : r.id # id /\ r.patch[k] = t
          <6>1. PICK r \in inFlight[w] : r.id # id /\ r.patch[k] = t
            BY <5>3
          <6>2. s.id \in Nat /\ r.id \in Nat /\ s.id < r.id
            BY <5>1, <6>1 DEF IInv, OutboxTypeOK
          <6>3. s.id <= r.id
            BY <6>2
          <6> QED BY <2>2, <3>1, <5>1, <6>1, <6>3 DEF IInv, SendOrder
        <5> QED BY <2>2, <3>1, <5>2, <5>3
      <4> QED BY <4>1, <4>2
    <3>3. u = t
      BY <3>1, <3>2
    <3> QED BY <3>3 DEF u, t
  <2> QED BY <2>3, <2>4, <2>5
<1> QED BY <1>3, <1>4
-----------------------------------------------------------------------------
(* The steps, one part of the invariant at a time.                          *)

\* The types of the links, from those of what a step assigns.
LEMMA TypesNext ==
    ASSUME LinkTypes, doc' \in Docs, rev' \in Nat, pristine' \in BOOLEAN,
           at' \in [Acts -> Nat], mark' \in [Windows -> Nat],
           \A w \in Windows : mark'[w] <= rev',
           sent' \in [Windows -> Seq(Requests)], inbox' \in [Windows -> Seq(Snapshots)],
           UNCHANGED connected
    PROVE  LinkTypes'
  BY DEF LinkTypes

\* No field of a screen and no outbox moves.
LEMMA TopStays ==
    ASSUME OnTop, UNCHANGED <<pending, inFlight>>,
           \A w \in Windows, k \in Fields : shown'[w][k] = shown[w][k]
    PROVE  OnTop'
<1>1. \A w \in Windows : Unconfirmed(w)' = Unconfirmed(w)
  BY OverlayStays
<1> QED BY <1>1 DEF OnTop

\* No screen moves, and no watermark goes back.
LEMMA SeenStays ==
    ASSUME NEW H, Seen(H), LinkTypes, UNCHANGED <<pending, inFlight>>,
           mark' \in [Windows -> Nat], \A w \in Windows : mark[w] <= mark'[w],
           \A w \in Windows, k \in Fields : shown'[w][k] = shown[w][k]
    PROVE  Seen(H)'
<1>1. \A w \in Windows : Unconfirmed(w)' = Unconfirmed(w)
  BY OverlayStays
<1> SUFFICES ASSUME NEW w \in Windows, NEW k \in Fields,
                    Unconfirmed(w)'[k] = None, shown'[w][k] \in Acts
             PROVE  \E r \in 0..mark'[w] : shown'[w][k] = H[r][k]
  BY DEF Seen
<1>2. PICK r \in 0..mark[w] : shown[w][k] = H[r][k]
  BY <1>1 DEF Seen
<1>3. r \in 0..mark'[w]
  BY DEF LinkTypes
<1> QED BY <1>2, <1>3

\* A window accepts a snapshot m, or drops it.
Takeover(w, m, origin) ==
    /\ Accept(w, m, origin, Unconfirmed(w))
    /\ m.rev \in Nat /\ m.rev <= rev
    /\ UNCHANGED <<pending, inFlight>>

\* What accept does: the watermark is at the snapshot or past it, and a field of the
\* screen stays or is the snapshot's under what is not answered.
LEMMA AcceptMoves ==
    ASSUME IInv, LinkTypes, NEW w \in Windows, NEW m, NEW origin, Takeover(w, m, origin)
    PROVE  /\ mark' \in [Windows -> Nat] /\ m.rev <= mark'[w]
           /\ \A v \in Windows : mark[v] <= mark'[v] /\ mark'[v] <= rev
           /\ \A v \in Windows, k \in Fields :
                \/ shown'[v][k] = shown[v][k]
                \/ /\ v = w /\ mark[w] < m.rev
                   /\ shown'[v][k] = IF Unconfirmed(w)[k] # None
                                     THEN Unconfirmed(w)[k] ELSE m.doc[k]
<1>1. /\ mark \in [Windows -> Nat] /\ \A v \in Windows : mark[v] <= rev
      /\ rev \in Nat /\ m.rev \in Nat /\ m.rev <= rev
  BY DEF LinkTypes, Takeover
<1>2. /\ mark' = [mark EXCEPT ![w] = IF m.rev > mark[w] THEN m.rev ELSE mark[w]]
      /\ shown' = IF m.rev > mark[w] /\ origin # w
                  THEN [shown EXCEPT ![w] = Over(m.doc, Unconfirmed(w))] ELSE shown
  BY DEF Takeover, Accept, Watermark, Applies
<1>3. /\ mark' \in [Windows -> Nat] /\ m.rev <= mark'[w]
      /\ \A v \in Windows : mark[v] <= mark'[v] /\ mark'[v] <= rev
  BY <1>1, <1>2
<1>4. \A k \in Fields : Over(m.doc, Unconfirmed(w))[k] =
        IF Unconfirmed(w)[k] # None THEN Unconfirmed(w)[k] ELSE m.doc[k]
  BY DEF Over, Keys
<1>5. DOMAIN shown = Windows
  BY DEF IInv, ScreenShape
<1>6. CASE m.rev > mark[w] /\ origin # w
  <2>1. /\ shown'[w] = Over(m.doc, Unconfirmed(w))
        /\ \A v \in Windows : v # w => shown'[v] = shown[v]
    BY <1>2, <1>5, <1>6
  <2>2. mark[w] < m.rev
    BY <1>1, <1>6
  <2> QED BY <1>3, <1>4, <2>1, <2>2
<1>7. CASE ~(m.rev > mark[w] /\ origin # w)
  <2>1. shown' = shown
    BY <1>2, <1>7
  <2> QED BY <1>3, <2>1
<1> QED BY <1>6, <1>7

\* An accepted snapshot leaves what is not answered on top.
LEMMA TopAccept ==
    ASSUME IInv, LinkTypes, OnTop, NEW w \in Windows, NEW m, NEW origin,
           Takeover(w, m, origin)
    PROVE  OnTop'
<1>1. \A v \in Windows : Unconfirmed(v)' = Unconfirmed(v)
  BY OverlayStays DEF Takeover
<1>2. \A v \in Windows, k \in Fields :
        \/ shown'[v][k] = shown[v][k]
        \/ v = w /\ (Unconfirmed(w)[k] # None => shown'[v][k] = Unconfirmed(w)[k])
  BY AcceptMoves
<1> QED BY <1>1, <1>2 DEF OnTop

\* An accepted snapshot is of a revision that the watermark has reached.
LEMMA SeenAccept ==
    ASSUME IInv, LinkTypes, NEW H, Seen(H), NEW w \in Windows, NEW m, NEW origin,
           Takeover(w, m, origin), m.doc = H[m.rev]
    PROVE  Seen(H)'
<1>1. \A v \in Windows : Unconfirmed(v)' = Unconfirmed(v)
  BY OverlayStays DEF Takeover
<1> SUFFICES ASSUME NEW v \in Windows, NEW k \in Fields,
                    Unconfirmed(v)'[k] = None, shown'[v][k] \in Acts
             PROVE  \E r \in 0..mark'[v] : shown'[v][k] = H[r][k]
  BY DEF Seen
<1>2. /\ mark' \in [Windows -> Nat] /\ m.rev <= mark'[w]
      /\ mark[v] <= mark'[v]
      /\ \/ shown'[v][k] = shown[v][k]
         \/ /\ v = w /\ mark[w] < m.rev
            /\ shown'[v][k] = IF Unconfirmed(w)[k] # None
                              THEN Unconfirmed(w)[k] ELSE m.doc[k]
  BY AcceptMoves
<1>3. CASE shown'[v][k] = shown[v][k]
  <2>1. PICK r \in 0..mark[v] : shown[v][k] = H[r][k]
    BY <1>1, <1>3 DEF Seen
  <2>2. r \in 0..mark'[v]
    BY <1>2 DEF LinkTypes
  <2> QED BY <1>3, <2>1, <2>2
<1>4. CASE v = w /\ shown'[v][k] = m.doc[k]
  <2>1. m.rev \in 0..mark'[v]
    BY <1>2, <1>4 DEF Takeover
  <2> QED BY <1>4, <2>1
<1> QED BY <1>1, <1>2, <1>3, <1>4

\* The snapshots that are left are as they were.
LEMMA SnappedHears ==
    ASSUME NEW H, Snapped(H), NEW w \in Windows, NEW i, Hears(w, i), LinkTypes,
           UNCHANGED rev
    PROVE  Snapped(H)'
<1> SUFFICES ASSUME NEW v \in Windows, NEW j \in 1..Len(inbox'[v])
             PROVE  inbox'[v][j].rev <= rev /\ inbox'[v][j].doc = H[inbox'[v][j].rev]
  BY DEF Snapped
<1>1. CASE v # w
  BY <1>1 DEF Hears, Snapped
<1>2. CASE v = w
  <2>1. \E l \in 1..Len(inbox[w]) : inbox'[w][j] = inbox[w][l]
    <3>1. /\ i \in 1..Len(inbox[w]) /\ Len(inbox'[w]) = Len(inbox[w]) - 1
          /\ inbox'[w][j] = IF j < i THEN inbox[w][j] ELSE inbox[w][j + 1]
          /\ Len(inbox[w]) \in Nat /\ j \in 1..Len(inbox'[w])
      BY <1>2 DEF Hears, Without, LinkTypes
    <3>2. j \in 1..Len(inbox[w]) /\ j + 1 \in 1..Len(inbox[w])
      BY <3>1
    <3> QED BY <3>1, <3>2
  <2> QED BY <1>2, <2>1 DEF Snapped
<1> QED BY <1>1, <1>2

\* An answer carries the document of the revision it names.
LEMMA SnappedAnswers ==
    ASSUME NEW H, Snapped(H), Past(H), NEW w \in Windows, NEW x, Answers(w, x), LinkTypes,
           x.doc = doc, x.rev = rev, UNCHANGED rev
    PROVE  Snapped(H)'
<1> SUFFICES ASSUME NEW v \in Windows, NEW j \in 1..Len(inbox'[v])
             PROVE  inbox'[v][j].rev <= rev /\ inbox'[v][j].doc = H[inbox'[v][j].rev]
  BY DEF Snapped
<1>1. CASE v # w
  BY <1>1 DEF Answers, Snapped
<1>2. CASE v = w
  <2>1. inbox[w] \in Seq(Snapshots) /\ inbox'[w] = Append(inbox[w], x)
    BY DEF LinkTypes, Answers
  <2>2. \/ j \in 1..Len(inbox[w]) /\ inbox'[w][j] = inbox[w][j]
        \/ inbox'[w][j] = x
    BY <1>2, <2>1
  <2>3. x.rev <= rev /\ x.doc = H[x.rev]
    BY DEF LinkTypes, Past
  <2> QED BY <1>2, <2>2, <2>3 DEF Snapped
<1> QED BY <1>1, <1>2

-----------------------------------------------------------------------------
(* The steps of a person and of an outbox.                                  *)

Step == IInv /\ IInv' /\ LinksInv

\* updateSettings keeps the invariant of the links.
LEMMA EditLinks ==
    ASSUME Step, NEW w \in Windows, NEW k \in Fields, Edit(w, k)
    PROVE  LinksInv' /\ (HistoryInv => HistoryInv')
<1> USE DEF Step
<1>1. /\ UNCHANGED <<server, inFlight, nextId, mark, first, links, drops>>
      /\ LinkTypes /\ Uncommitted /\ OnePlace /\ OnTop /\ \A v \in Windows : InTurn(v)
  BY DEF Edit, LinksInv
<1>2. LinkTypes'
  BY <1>1 DEF LinkTypes, server, links
<1>3. Uncommitted' /\ OnePlace'
  BY <1>1, PlaceEdit
<1>4. \A v \in Windows, j \in Fields :
        Unconfirmed(v)'[j] = IF v = w /\ j = k THEN acts + 1 ELSE Unconfirmed(v)[j]
  BY OverlayEdit
<1>5. \A v \in Windows, j \in Fields :
        shown'[v][j] = IF v = w /\ j = k THEN acts + 1 ELSE shown[v][j]
  <2>1. /\ shown' = [shown EXCEPT ![w] = Over(@, [Empty EXCEPT ![k] = acts'])]
        /\ acts' = acts + 1 /\ acts < MaxActs /\ acts \in Nat
        /\ DOMAIN shown = Windows
    BY DEF Edit, IInv, OutboxTypeOK, ScreenShape
  <2>2. acts + 1 # None
    BY <2>1, BoundsAssumption DEF None
  <2>3. \A j \in Fields : Over(shown[w], [Empty EXCEPT ![k] = acts + 1])[j]
                            = IF j = k THEN acts + 1 ELSE shown[w][j]
    BY <2>2 DEF Over, Empty, Keys
  <2> QED BY <2>1, <2>3
<1>6. OnTop'
  BY <1>1, <1>4, <1>5 DEF OnTop
<1>7. \A v \in Windows : InTurn(v)'
  BY <1>1 DEF InTurn, links
<1>8. ASSUME NEW H, Past(H), Later(H), Snapped(H), Seen(H)
      PROVE  Past(H)' /\ Later(H)' /\ Snapped(H)' /\ Seen(H)'
  <2>1. Past(H)' /\ Later(H)' /\ Snapped(H)'
    BY <1>1, <1>8 DEF Past, Later, Snapped, server, links
  <2>2. acts + 1 # None
    BY NewAct, NoneIsNoAct, <1>1 DEF Edit
  <2>3. Seen(H)'
    BY <1>1, <1>4, <1>5, <1>8, <2>2 DEF Seen
  <2> QED BY <2>1, <2>3
<1> QED BY <1>2, <1>3, <1>6, <1>7, <1>8 DEF LinksInv, HistoryInv

\* So does the timer that sends the outbox.
LEMMA SendLinks ==
    ASSUME Step, NEW w \in Windows, SendPending(w)
    PROVE  LinksInv' /\ (HistoryInv => HistoryInv')
<1> USE DEF Step
<1> DEFINE r == Request("update", nextId[w], pending[w], "none", 0)
<1>1. /\ UNCHANGED <<server, screens, connected, inbox, acts, drops>>
      /\ pending' = [pending EXCEPT ![w] = Empty]
      /\ inFlight' = [inFlight EXCEPT ![w] =
                        @ \cup {[id |-> nextId[w], patch |-> pending[w]]}]
      /\ nextId' = [nextId EXCEPT ![w] = @ + 1]
      /\ Send(w, r)
  BY DEF SendPending
<1>2. LinkTypes /\ Uncommitted /\ OnePlace /\ OnTop /\ \A v \in Windows : InTurn(v)
  BY DEF LinksInv
<1>3. /\ nextId \in [Windows -> Nat] /\ pending \in [Windows -> Patches]
      /\ inFlight \in [Windows -> SUBSET [id : Nat, patch : Patches]]
  BY DEF IInv, OutboxTypeOK
<1>4. r \in Requests
  BY <1>3, BoundsAssumption DEF Requests, Request, Values
<1>5. Asks(w, r)
  BY <1>1, <1>2, <1>4, SendAsks
<1>6. r.patch = pending[w] /\ r.act = 0 /\ r.kind = "update"
  BY DEF Request
<1> HIDE DEF r
<1>7. LinkTypes'
  BY <1>1, <1>2, <1>5 DEF LinkTypes, Asks, server, screens
<1>8. Uncommitted' /\ OnePlace'
  BY <1>1, <1>2, <1>5, <1>6, PlaceSend DEF server
<1>9. \A v \in Windows, j \in Fields : Unconfirmed(v)'[j] = Unconfirmed(v)[j]
  BY OverlaySend
<1>10. OnTop'
  BY <1>1, <1>2, <1>9 DEF OnTop, screens
<1>11. ASSUME NEW v \in Windows PROVE InTurn(v)'
  <2>1. CASE v # w
    <3>1. UNCHANGED <<inbox[v], nextId[v], inFlight[v], sent[v]>>
      BY <1>1, <1>3, <1>5, <2>1 DEF Asks
    <3> QED BY <1>2, <3>1 DEF InTurn
  <2>2. CASE v = w
    <3>1. /\ inbox'[w] = inbox[w] /\ nextId'[w] = nextId[w] + 1
          /\ inFlight'[w] = inFlight[w] \cup {[id |-> nextId[w], patch |-> pending[w]]}
          /\ sent'[w] = Append(sent[w], r)
      BY <1>1, <1>3, <1>5 DEF Asks
    <3>2. \A s \in inFlight[w] : s.id \in Nat /\ s.id < nextId[w]
      BY <1>3 DEF IInv, Numbered
    <3>3. Lists(inbox[w], sent[w]) /\ nextId[w] \in Nat
      BY <1>2, <1>3 DEF LinkTypes, Lists
    <3>4. Updates(inbox[w], sent[w], nextId[w]) /\ Underway(inFlight[w], inbox[w], sent[w])
      BY <1>2 DEF InTurn
    <3>5. /\ Updates(inbox[w], Append(sent[w], r), nextId[w] + 1)
          /\ Underway(inFlight[w] \cup {[id |-> nextId[w], patch |-> pending[w]]},
                      inbox[w], Append(sent[w], r))
      BY <1>4, <3>2, <3>3, <3>4, UpdatesSend DEF r
    <3> QED BY <2>2, <3>1, <3>5 DEF InTurn
  <2> QED BY <2>1, <2>2
<1>12. ASSUME NEW H, Past(H), Later(H), Snapped(H), Seen(H)
       PROVE  Past(H)' /\ Later(H)' /\ Snapped(H)' /\ Seen(H)'
  <2>1. Past(H)' /\ Later(H)' /\ Snapped(H)'
    BY <1>1, <1>12 DEF Past, Later, Snapped, server
  <2>2. Seen(H)'
    BY <1>1, <1>9, <1>12 DEF Seen, screens
  <2> QED BY <2>1, <2>2
<1> QED BY <1>2, <1>7, <1>8, <1>10, <1>11, <1>12 DEF LinksInv, HistoryInv

\* What a window asks besides an update, with a new act.
LEMMA AskTurn ==
    ASSUME LinkTypes, OutboxTypeOK, NEW w \in Windows, NEW r \in Requests, Asks(w, r),
           r.kind # "update", UNCHANGED <<inbox, inFlight, nextId>>,
           \A v \in Windows : InTurn(v)
    PROVE  \A v \in Windows : InTurn(v)'
<1> SUFFICES ASSUME NEW v \in Windows PROVE InTurn(v)'
  OBVIOUS
<1>1. CASE v # w
  <2>1. sent'[v] = sent[v]
    BY <1>1 DEF Asks
  <2> QED BY <2>1 DEF InTurn
<1>2. CASE v = w
  <2>1. sent'[w] = Append(sent[w], r)
    BY DEF Asks
  <2>2. Lists(inbox[w], sent[w]) /\ nextId[w] \in Nat
    BY DEF LinkTypes, Lists, OutboxTypeOK
  <2>3. Updates(inbox[w], sent[w], nextId[w]) /\ Underway(inFlight[w], inbox[w], sent[w])
    BY DEF InTurn
  <2>4. /\ Updates(inbox[w], Append(sent[w], r), nextId[w])
        /\ Underway(inFlight[w], inbox[w], Append(sent[w], r))
    BY <2>2, <2>3, UpdatesAsk
  <2> QED BY <1>2, <2>1, <2>4 DEF InTurn
<1> QED BY <1>1, <1>2

\* What is asked with a new act.
NewRequest(r) ==
    /\ r \in Requests /\ r.kind # "update" /\ ActsOf(r) \subseteq {acts + 1}
    /\ acts < MaxActs /\ acts' = acts + 1

\* An operation, a reset and an import each carry a new act.
LEMMA NewRequests ==
    ASSUME IInv, acts < MaxActs, acts' = acts + 1,
           NEW kind \in {"op", "reset", "import"}, NEW k \in Maps \cup {"none"}
    PROVE  NewRequest(Request(kind, 0, Empty, k, acts'))
<1>1. acts + 1 \in Acts
  BY BoundsAssumption DEF IInv, OutboxTypeOK, Acts
<1>2. Empty \in Patches
  BY DEF Empty, Patches
<1>3. acts + 1 \in Values
  BY <1>1, BoundsAssumption DEF Values, Acts
<1>4. \A j \in Fields : Empty[j] \notin Acts
  BY NoneIsNoAct DEF Empty
<1>5. ActsOf(Request(kind, 0, Empty, k, acts + 1)) \subseteq {acts + 1}
  BY <1>4 DEF ActsOf, Request
<1>6. Request(kind, 0, Empty, k, acts + 1) \in Requests
  BY <1>1, <1>2, <1>3 DEF Requests, Request
<1>7. Request(kind, 0, Empty, k, acts + 1).kind # "update"
  BY DEF Request
<1> QED BY <1>5, <1>6, <1>7 DEF NewRequest

\* A request that is no update keeps the invariant of the links.
LEMMA AskLinks ==
    ASSUME Step, NEW w \in Windows, NEW r, Send(w, r), NewRequest(r),
           UNCHANGED <<server, outbox, mark, connected, inbox>>,
           \A v \in Windows, k \in Fields : shown'[v][k] = shown[v][k]
    PROVE  LinksInv' /\ (HistoryInv => HistoryInv')
<1> USE DEF Step
<1>1. LinkTypes /\ Uncommitted /\ OnePlace /\ OnTop /\ \A v \in Windows : InTurn(v)
  BY DEF LinksInv
<1>2. Asks(w, r)
  BY <1>1, SendAsks DEF NewRequest
<1>3. UNCHANGED <<doc, rev, pristine, at, imported, pending, inFlight, nextId>>
  BY DEF server, outbox
<1>4. LinkTypes'
  BY <1>1, <1>2, <1>3 DEF LinkTypes, Asks
<1>5. Uncommitted' /\ OnePlace'
  BY <1>1, <1>2, <1>3, PlaceAsk DEF NewRequest
<1>6. OnTop'
  BY <1>1, <1>3, TopStays
<1>7. \A v \in Windows : InTurn(v)'
  <2>1. r \in Requests /\ r.kind # "update" /\ OutboxTypeOK
    BY DEF NewRequest, IInv
  <2> QED BY <1>1, <1>2, <1>3, <2>1, AskTurn
<1>8. ASSUME NEW H, Past(H), Later(H), Snapped(H), Seen(H)
      PROVE  Past(H)' /\ Later(H)' /\ Snapped(H)' /\ Seen(H)'
  <2>1. Past(H)' /\ Later(H)' /\ Snapped(H)'
    BY <1>3, <1>8 DEF Past, Later, Snapped
  <2>2. mark' \in [Windows -> Nat] /\ \A v \in Windows : mark[v] <= mark'[v]
    BY <1>1 DEF LinkTypes
  <2>3. Seen(H)'
    BY <1>1, <1>3, <1>8, <2>2, SeenStays
  <2> QED BY <2>1, <2>3
<1> QED BY <1>4, <1>5, <1>6, <1>7, <1>8 DEF LinksInv, HistoryInv

\* Every act of a person keeps the invariant of the links.
LEMMA ActingLinks ==
    ASSUME Step, NEW w \in Windows, Acting(w)
    PROVE  LinksInv' /\ (HistoryInv => HistoryInv')
<1> USE DEF Step
<1>1. ASSUME NEW k \in Fields, Edit(w, k)
      PROVE  LinksInv' /\ (HistoryInv => HistoryInv')
  BY <1>1, EditLinks
<1>2. ASSUME NEW k \in Maps, Silence(w, k)
      PROVE  LinksInv' /\ (HistoryInv => HistoryInv')
  <2>1. NewRequest(Request("op", 0, Empty, k, acts'))
    BY <1>2, NewRequests DEF Silence
  <2>2. /\ Send(w, Request("op", 0, Empty, k, acts'))
        /\ UNCHANGED <<server, outbox, mark, connected, inbox, shown>>
    BY <1>2 DEF Silence, screens
  <2> QED BY <2>1, <2>2, AskLinks
<1>3. ASSUME NEW k \in Maps, Rearrange(w, k)
      PROVE  LinksInv' /\ (HistoryInv => HistoryInv')
  <2>1. NewRequest(Request("op", 0, Empty, k, acts'))
    BY <1>3, NewRequests DEF Rearrange
  <2>2. /\ Send(w, Request("op", 0, Empty, k, acts'))
        /\ UNCHANGED <<server, outbox, mark, connected, inbox>>
        /\ shown' = [shown EXCEPT ![w][k] = acts']
    BY <1>3 DEF Rearrange
  <2>3. \A v \in Windows, j \in Fields : shown'[v][j] = shown[v][j]
    BY <2>2, KeysAssumption DEF IInv, ScreenShape
  <2> QED BY <2>1, <2>2, <2>3, AskLinks
<1>4. ASSUME Reset(w)
      PROVE  LinksInv' /\ (HistoryInv => HistoryInv')
  <2>1. NewRequest(Request("reset", 0, Empty, "none", acts'))
    BY <1>4, NewRequests DEF Reset
  <2>2. /\ Send(w, Request("reset", 0, Empty, "none", acts'))
        /\ UNCHANGED <<server, outbox, mark, connected, inbox, shown>>
    BY <1>4 DEF Reset, screens
  <2> QED BY <2>1, <2>2, AskLinks
<1> QED BY <1>1, <1>2, <1>3, <1>4 DEF Acting
-----------------------------------------------------------------------------
(* The steps of the server.                                                 *)

\* The server answers with what it has.
Replies(w, kind) ==
    /\ 1 \in DOMAIN sent[w] /\ Took(w, 1) /\ Says(w, kind, 0)
    /\ \/ kind = "got" /\ sent[w][1].kind = "get"
       \/ kind = "refused" /\ sent[w][1].kind = "import"
    /\ UNCHANGED <<server, outbox, screens, connected, acts, drops>>

\* An answer without a commit keeps the invariant of the links.
LEMMA ReplyLinks ==
    ASSUME Step, InOrder, NEW w \in Windows, NEW kind \in {"got", "refused"},
           Replies(w, kind)
    PROVE  LinksInv' /\ (HistoryInv => HistoryInv')
<1> USE DEF Step
<1> DEFINE x == Message(kind, 0, NoOne, doc, rev, pristine)
<1>1. LinkTypes /\ Uncommitted /\ OnePlace /\ OnTop /\ \A v \in Windows : InTurn(v)
  BY DEF LinksInv
<1>2. Takes(w) /\ sent[w][1].kind # "update"
  BY <1>1, TookTakes DEF Replies
<1>3. Answers(w, x)
  BY <1>1, SaysAnswers DEF Replies
<1>4. x.kind # "updated" /\ x.kind # "changed" /\ x.doc = doc /\ x.rev = rev
  BY DEF Message
<1> HIDE DEF x
<1>5. UNCHANGED <<doc, rev, pristine, at, pending, inFlight, nextId, shown, mark>>
  BY DEF Replies, server, outbox, screens
<1>6. LinkTypes'
  <2>1. UNCHANGED connected
    BY DEF Replies
  <2> QED BY <1>1, <1>2, <1>3, <1>5, <2>1 DEF LinkTypes, Takes, Answers
<1>7. Uncommitted' /\ OnePlace'
  <2>1. UNCHANGED acts
    BY DEF Replies
  <2> QED BY <1>1, <1>2, <1>5, <2>1, PlaceTake DEF LinkTypes
<1>8. OnTop'
  BY <1>1, <1>5, TopStays
<1>9. ASSUME NEW v \in Windows PROVE InTurn(v)'
  <2>1. CASE v # w
    <3>1. UNCHANGED <<inbox[v], nextId[v], inFlight[v], sent[v]>>
      BY <1>2, <1>3, <1>5, <2>1 DEF Takes, Answers
    <3> QED BY <1>1, <3>1 DEF InTurn
  <2>2. CASE v = w
    <3>1. /\ inbox'[w] = Append(inbox[w], x) /\ Shorter(sent[w], sent'[w])
          /\ x \in Snapshots
      BY <1>2, <1>3 DEF Takes, Answers
    <3>2. /\ Lists(inbox[w], sent[w]) /\ Lists(inbox[w], sent'[w])
          /\ nextId[w] \in Nat
      BY <1>1, <1>2 DEF LinkTypes, Lists, IInv, OutboxTypeOK, Takes
    <3>3. Updates(inbox[w], sent[w], nextId[w]) /\ Underway(inFlight[w], inbox[w], sent[w])
      BY <1>1 DEF InTurn
    <3>4. /\ Updates(inbox[w], sent'[w], nextId[w])
          /\ Underway(inFlight[w], inbox[w], sent'[w])
      BY <1>2, <3>1, <3>2, <3>3, UpdatesTake
    <3>5. /\ Updates(Append(inbox[w], x), sent'[w], nextId[w])
          /\ Underway(inFlight[w], Append(inbox[w], x), sent'[w])
      BY <1>4, <3>1, <3>2, <3>4, UpdatesHearOther
    <3> QED BY <1>5, <2>2, <3>1, <3>5 DEF InTurn
  <2> QED BY <2>1, <2>2
<1>10. ASSUME NEW H, Past(H), Later(H), Snapped(H), Seen(H)
       PROVE  Past(H)' /\ Later(H)' /\ Snapped(H)' /\ Seen(H)'
  <2>1. Past(H)' /\ Later(H)'
    BY <1>5, <1>10 DEF Past, Later
  <2>2. Snapped(H)'
    BY <1>1, <1>3, <1>4, <1>5, <1>10, SnappedAnswers
  <2>3. mark' \in [Windows -> Nat] /\ \A v \in Windows : mark[v] <= mark'[v]
    BY <1>1, <1>5 DEF LinkTypes
  <2>4. Seen(H)'
    BY <1>1, <1>5, <1>10, <2>3, SeenStays
  <2> QED BY <2>1, <2>2, <2>4
<1> QED BY <1>6, <1>7, <1>8, <1>9, <1>10 DEF LinksInv, HistoryInv

\* What a commit leaves of a field: what was there, or the act it commits.
Written(new, did) ==
    /\ did \subseteq Values \cup {None}
    /\ \A k \in Fields : new[k] = doc[k] \/ new[k] \in did \cap Acts
    /\ \A a \in did \cap Acts : at[a] = 0

\* G is H and the document that is committed now.
Extends(G, H, new) ==
    /\ G \in [0..(rev + 1) -> Docs] /\ G[rev + 1] = new
    /\ \A r \in 0..rev : G[r] = H[r]

\* The revisions before a commit stay, and it is the next one.
LEMMA CommitPast ==
    ASSUME LinkTypes, NEW w \in Windows, NEW new, NEW did, NEW x, NEW y,
           Commits(w, new, did, x, y), NEW H, Past(H), Snapped(H)
    PROVE  \E G : Extends(G, H, new) /\ Past(G)' /\ Snapped(G)'
<1>1. /\ rev \in Nat /\ rev' = rev + 1 /\ doc' = new /\ new \in Docs
      /\ H \in [0..rev -> Docs] /\ H[rev] = doc
  BY DEF LinkTypes, Commits, Past
<1>2. PICK G : /\ G \in [0..(rev + 1) -> Docs] /\ G[rev + 1] = new
                /\ \A r \in 0..rev : G[r] = H[r]
  <2> DEFINE F == [r \in 0..(rev + 1) |-> IF r <= rev THEN H[r] ELSE new]
  <2>1. \A r \in 0..(rev + 1) : r <= rev \/ r = rev + 1
    BY <1>1
  <2>2. \A r \in 0..(rev + 1) : r <= rev => r \in 0..rev
    BY <1>1
  <2>3. /\ rev + 1 \in 0..(rev + 1) /\ ~(rev + 1 <= rev) /\ 0..rev \subseteq 0..(rev + 1)
        /\ \A r \in 0..rev : r <= rev
    BY <1>1
  <2>4. /\ F \in [0..(rev + 1) -> Docs] /\ F[rev + 1] = new
        /\ \A r \in 0..rev : F[r] = H[r]
    BY <1>1, <2>1, <2>2, <2>3
  <2> QED BY <2>4
<1>3. Past(G)'
  BY <1>1, <1>2 DEF Past
<1>4. Snapped(G)'
  <2> SUFFICES ASSUME NEW v \in Windows, NEW j \in 1..Len(inbox'[v])
               PROVE  /\ inbox'[v][j].rev <= rev + 1
                      /\ inbox'[v][j].doc = G[inbox'[v][j].rev]
    BY <1>1 DEF Snapped
  <2>1. inbox[v] \in Seq(Snapshots) /\ x \in Snapshots /\ y \in Snapshots
        /\ (v = w => inbox'[v] = Append(Append(inbox[v], x), y))
        /\ (v # w => inbox'[v] = Append(inbox[v], x))
    BY DEF LinkTypes, Commits
  <2>2. \/ j \in 1..Len(inbox[v]) /\ inbox'[v][j] = inbox[v][j]
        \/ inbox'[v][j] = x
        \/ inbox'[v][j] = y
    <3>1. \A z \in Snapshots : \A q \in Seq(Snapshots) : \A l \in 1..Len(Append(q, z)) :
            \/ l \in 1..Len(q) /\ Append(q, z)[l] = q[l]
            \/ Append(q, z)[l] = z
      OBVIOUS
    <3>2. Append(inbox[v], x) \in Seq(Snapshots)
      BY <2>1
    <3>3. CASE v # w
      BY <2>1, <3>1, <3>3
    <3>4. CASE v = w
      <4>1. \/ j \in 1..Len(Append(inbox[v], x)) /\ inbox'[v][j] = Append(inbox[v], x)[j]
            \/ inbox'[v][j] = y
        BY <2>1, <3>1, <3>2, <3>4
      <4> QED BY <2>1, <3>1, <4>1
    <3> QED BY <3>3, <3>4
  <2>3. CASE j \in 1..Len(inbox[v]) /\ inbox'[v][j] = inbox[v][j]
    <3>1. inbox[v][j].rev <= rev /\ inbox[v][j].doc = H[inbox[v][j].rev]
      BY <2>3 DEF Snapped
    <3>2. inbox[v][j].rev \in Nat
      <4>1. inbox[v][j] \in Snapshots
        BY <2>1, <2>3
      <4> QED BY <4>1 DEF Snapshots
    <3>3. inbox[v][j].rev \in 0..rev
      BY <1>1, <3>1, <3>2
    <3> QED BY <1>1, <1>2, <2>3, <3>1, <3>2, <3>3
  <2>4. x.rev = rev + 1 /\ x.doc = new /\ y.rev = rev + 1 /\ y.doc = new
    BY DEF Commits
  <2>5. rev + 1 <= rev + 1
    BY <1>1
  <2> QED BY <1>2, <2>2, <2>3, <2>4, <2>5
<1> QED BY <1>2, <1>3, <1>4 DEF Extends

\* What a commit writes is later than what every revision before it had.
LEMMA CommitHistory ==
    ASSUME LinkTypes, NEW w \in Windows, NEW new, NEW did, NEW x, NEW y,
           Commits(w, new, did, x, y), Written(new, did),
           UNCHANGED <<pending, inFlight, shown, mark>>, HistoryInv
    PROVE  HistoryInv'
<1>1. PICK H : Past(H) /\ Later(H) /\ Snapped(H) /\ Seen(H)
  BY DEF HistoryInv
<1>2. /\ rev \in Nat /\ rev' = rev + 1 /\ doc' = new /\ new \in Docs
      /\ at \in [Acts -> Nat] /\ at' \in [Acts -> Nat]
      /\ \A a \in Acts : at'[a] = IF a \in did THEN rev + 1 ELSE at[a]
      /\ H \in [0..rev -> Docs] /\ H[rev] = doc
  BY <1>1 DEF LinkTypes, Commits, Past
<1>3. PICK G : Extends(G, H, new) /\ Past(G)' /\ Snapped(G)'
  BY <1>1, CommitPast
<1>4. /\ G \in [0..(rev + 1) -> Docs] /\ G[rev + 1] = new
      /\ \A r \in 0..rev : G[r] = H[r]
  BY <1>3 DEF Extends
\* An act that was committed keeps its revision.
<1>5. ASSUME NEW a \in Acts, at[a] # 0 PROVE at'[a] = at[a]
  BY <1>2, <1>5 DEF Written
<1>6. ASSUME NEW k \in Fields, NEW r \in 0..rev, H[r][k] \in Acts
      PROVE  /\ at'[H[r][k]] \in 1..r /\ at'[H[r][k]] = at[H[r][k]]
             /\ \A p \in r..rev : H[p][k] \in Acts /\ at'[H[r][k]] <= at'[H[p][k]]
  <2>1. /\ at[H[r][k]] \in 1..r
        /\ \A p \in r..rev : H[p][k] \in Acts /\ at[H[r][k]] <= at[H[p][k]]
    BY <1>1, <1>6 DEF Later
  <2>2. at'[H[r][k]] = at[H[r][k]]
    BY <1>5, <1>6, <2>1
  <2>3. ASSUME NEW p \in r..rev PROVE H[p][k] \in Acts /\ at'[H[r][k]] <= at'[H[p][k]]
    <3>1. p \in 0..rev /\ p \in p..rev
      BY <1>2
    <3>2. H[p][k] \in Acts /\ at[H[p][k]] \in 1..p
      BY <1>1, <2>1, <3>1 DEF Later
    <3>3. at'[H[p][k]] = at[H[p][k]]
      BY <1>5, <3>2
    <3> QED BY <2>1, <2>2, <3>2, <3>3
  <2> QED BY <2>1, <2>2, <2>3
<1>7. ASSUME NEW k \in Fields, new[k] \in Acts
      PROVE  at'[new[k]] \in 1..(rev + 1)
  <2>1. CASE new[k] \in did
    BY <1>2, <1>7, <2>1
  <2>2. CASE new[k] \notin did
    <3>1. new[k] = H[rev][k] /\ rev \in 0..rev
      BY <1>2, <2>2 DEF Written
    <3>2. at'[new[k]] \in 1..rev
      BY <1>6, <1>7, <3>1
    <3> QED BY <1>2, <3>2
  <2> QED BY <2>1, <2>2
<1>8. ASSUME NEW k \in Fields, NEW r \in 0..rev, H[r][k] \in Acts
      PROVE  new[k] \in Acts /\ at'[H[r][k]] <= at'[new[k]]
  <2>1. rev \in r..rev /\ r \in Nat /\ r <= rev
    BY <1>2
  <2>2. CASE new[k] \in did \cap Acts
    <3>1. at'[new[k]] = rev + 1
      BY <1>2, <2>2
    <3>2. at'[H[r][k]] \in 1..r
      BY <1>6, <1>8
    <3> QED BY <1>2, <2>1, <2>2, <3>1, <3>2
  <2>3. CASE new[k] = doc[k]
    BY <1>2, <1>6, <1>8, <2>1, <2>3
  <2> QED BY <2>2, <2>3 DEF Written
<1>9. Later(G)'
  <2> SUFFICES ASSUME NEW k \in Fields, NEW r \in 0..(rev + 1), G[r][k] \in Acts
               PROVE  /\ at'[G[r][k]] \in 1..r
                      /\ \A p \in r..(rev + 1) :
                           G[p][k] \in Acts /\ at'[G[r][k]] <= at'[G[p][k]]
    BY <1>2 DEF Later
  <2>1. CASE r \in 0..rev
    <3>1. G[r] = H[r]
      BY <1>4, <2>1
    <3>2. at'[G[r][k]] \in 1..r
      BY <1>6, <2>1, <3>1
    <3>3. ASSUME NEW p \in r..(rev + 1)
          PROVE  G[p][k] \in Acts /\ at'[G[r][k]] <= at'[G[p][k]]
      <4>1. (p \in r..rev /\ p \in 0..rev) \/ p = rev + 1
        BY <1>2
      <4>2. CASE p \in r..rev /\ p \in 0..rev
        BY <1>4, <1>6, <2>1, <3>1, <4>2
      <4>3. CASE p = rev + 1
        BY <1>4, <1>8, <2>1, <3>1, <4>3
      <4> QED BY <4>1, <4>2, <4>3
    <3> QED BY <3>2, <3>3
  <2>2. CASE r = rev + 1
    <3>1. \A p \in r..(rev + 1) : p = r
      BY <1>2, <2>2
    <3>2. at'[G[r][k]] \in 1..r /\ at'[G[r][k]] <= at'[G[r][k]]
      BY <1>2, <1>4, <1>7, <2>2
    <3> QED BY <3>1, <3>2
  <2>3. r \in 0..rev \/ r = rev + 1
    BY <1>2
  <2> QED BY <2>1, <2>2, <2>3
<1>10. Seen(G)'
  <2>1. \A v \in Windows : Unconfirmed(v)' = Unconfirmed(v)
    BY OverlayStays
  <2> SUFFICES ASSUME NEW v \in Windows, NEW k \in Fields,
                      Unconfirmed(v)'[k] = None, shown'[v][k] \in Acts
               PROVE  \E r \in 0..mark'[v] : shown'[v][k] = G[r][k]
    BY DEF Seen
  <2>2. PICK r \in 0..mark[v] : shown[v][k] = H[r][k]
    BY <1>1, <2>1 DEF Seen
  <2>3. r \in 0..rev
    BY DEF LinkTypes
  <2> QED BY <1>4, <2>2, <2>3
<1> QED BY <1>3, <1>9, <1>10 DEF HistoryInv

\* A window's commit reaches every window, and its answer the one that asked.
LEMMA CommitTurn ==
    ASSUME LinkTypes, LinkTypes', OutboxTypeOK, NEW w \in Windows, NEW new, NEW did,
           NEW x, NEW y,
           Commits(w, new, did, x, y), Takes(w), UNCHANGED <<inFlight, nextId>>,
           \/ y.kind = "applied" /\ sent[w][1].kind # "update"
           \/ /\ y.kind = "updated" /\ sent[w][1].kind = "update" /\ y.id = sent[w][1].id
              /\ \A k \in Fields :
                   sent[w][1].patch[k] # None => new[k] = sent[w][1].patch[k],
           \A v \in Windows : InTurn(v)
    PROVE  \A v \in Windows : InTurn(v)'
<1> SUFFICES ASSUME NEW v \in Windows PROVE InTurn(v)'
  OBVIOUS
<1>1. /\ Lists(inbox[v], sent[v]) /\ nextId[v] \in Nat
      /\ x \in Snapshots /\ x.kind # "updated" /\ y \in Snapshots /\ y.doc = new
  BY DEF LinkTypes, Lists, OutboxTypeOK, Commits
<1>2. Updates(inbox[v], sent[v], nextId[v]) /\ Underway(inFlight[v], inbox[v], sent[v])
  BY DEF InTurn
<1>3. CASE v # w
  <2>1. inbox'[v] = Append(inbox[v], x) /\ sent'[v] = sent[v]
    BY <1>3 DEF Commits, Takes
  <2>2. /\ Updates(Append(inbox[v], x), sent[v], nextId[v])
        /\ Underway(inFlight[v], Append(inbox[v], x), sent[v])
    BY <1>1, <1>2, UpdatesHearOther
  <2> QED BY <2>1, <2>2 DEF InTurn
<1>4. CASE v = w
  <2> DEFINE q == Append(inbox[w], x)
  <2>1. inbox'[w] = Append(q, y) /\ Shorter(sent[w], sent'[w])
    BY DEF Commits, Takes
  <2>2. Lists(q, sent[w]) /\ Lists(q, sent'[w])
    BY <1>1, <1>4 DEF Lists, Takes
  <2>3. Updates(q, sent[w], nextId[w]) /\ Underway(inFlight[w], q, sent[w])
    BY <1>1, <1>2, <1>4, UpdatesHearOther
  <2> HIDE DEF q
  <2>4. CASE y.kind = "applied" /\ sent[w][1].kind # "update"
    <3>1. Updates(q, sent'[w], nextId[w]) /\ Underway(inFlight[w], q, sent'[w])
      BY <1>1, <1>4, <2>1, <2>2, <2>3, <2>4, UpdatesTake
    <3>2. /\ Updates(Append(q, y), sent'[w], nextId[w])
          /\ Underway(inFlight[w], Append(q, y), sent'[w])
      BY <1>1, <1>4, <2>2, <2>4, <3>1, UpdatesHearOther
    <3> QED BY <1>4, <2>1, <3>2 DEF InTurn
  <2>5. CASE /\ y.kind = "updated" /\ sent[w][1].kind = "update" /\ y.id = sent[w][1].id
             /\ \A k \in Fields : sent[w][1].patch[k] # None => new[k] = sent[w][1].patch[k]
    <3>1. \A s \in inFlight[w] : s = [id |-> s.id, patch |-> s.patch]
      BY DEF OutboxTypeOK
    <3>2. /\ Updates(Append(q, y), sent'[w], nextId[w])
          /\ Underway(inFlight[w], Append(q, y), sent'[w])
      BY <1>1, <1>4, <2>1, <2>2, <2>3, <2>5, <3>1, UpdatesAnswer
    <3> QED BY <1>4, <2>1, <3>2 DEF InTurn
  <2> QED BY <2>4, <2>5
<1> QED BY <1>3, <1>4

\* The server commits what the request asks for.
Writes(w, new, did, origin, kind, id) ==
    /\ 1 \in DOMAIN sent[w] /\ Took(w, 1)
    /\ CommitAs(w, new, did, origin, [kind |-> kind, id |-> id])
    /\ new \in Docs /\ Written(new, did) /\ did \cap Acts \subseteq ActsOf(sent[w][1])
    /\ id \in Nat
    /\ \/ /\ kind = "applied" /\ sent[w][1].kind \in {"op", "reset", "import"}
          /\ origin = NoOne
       \/ /\ kind = "updated" /\ sent[w][1].kind = "update" /\ id = sent[w][1].id
          /\ origin = w /\ new = Over(doc, sent[w][1].patch)
    /\ UNCHANGED <<outbox, screens, connected, acts, drops>>

\* A commit keeps the invariant of the links.
LEMMA CommitLinks ==
    ASSUME Step, InOrder, NEW w \in Windows, NEW new, NEW did, NEW origin, NEW kind,
           NEW id, Writes(w, new, did, origin, kind, id)
    PROVE  LinksInv' /\ (HistoryInv => HistoryInv')
<1> USE DEF Step
<1> DEFINE x == Message("changed", 0, origin, new, rev + 1, FALSE)
           y == Message(kind, id, NoOne, new, rev + 1, FALSE)
<1>1. LinkTypes /\ Uncommitted /\ OnePlace /\ OnTop /\ \A v \in Windows : InTurn(v)
  BY DEF LinksInv
<1>2. Takes(w)
  BY <1>1, TookTakes DEF Writes
<1>3. Commits(w, new, did, x, y)
  <2>1. /\ new \in Docs /\ origin \in Windows \cup {NoOne}
        /\ kind \in {"updated", "applied"} /\ id \in Nat
        /\ CommitAs(w, new, did, origin, [kind |-> kind, id |-> id])
    BY DEF Writes
  <2> QED BY <1>1, <2>1, CommitAsCommits
<1>4. y.kind = kind /\ y.id = id
  BY DEF Message
<1> HIDE DEF x, y
<1>5. /\ UNCHANGED <<pending, inFlight, nextId, shown, mark, connected, acts>>
      /\ pristine' = FALSE
  BY DEF Writes, outbox, screens, CommitAs
<1>6. LinkTypes'
  <2>1. rev \in Nat /\ rev' = rev + 1 /\ doc' \in Docs /\ at' \in [Acts -> Nat]
        /\ inbox' \in [Windows -> Seq(Snapshots)] /\ sent' \in [Windows -> Seq(Requests)]
        /\ mark \in [Windows -> Nat] /\ \A v \in Windows : mark[v] <= rev
    BY <1>1, <1>2, <1>3 DEF LinkTypes, Takes, Commits
  <2>2. rev' \in Nat /\ \A v \in Windows : mark'[v] <= rev'
    BY <1>5, <2>1
  <2>3. pristine' \in BOOLEAN /\ mark' \in [Windows -> Nat]
    BY <1>5, <2>1
  <2> QED BY <1>1, <1>5, <2>1, <2>2, <2>3, TypesNext
<1>7. Uncommitted' /\ OnePlace'
  <2>1. /\ at' \in [Acts -> Nat]
        /\ \A a \in Acts : a \notin ActsOf(sent[w][1]) => at'[a] = at[a]
    BY <1>3 DEF Commits, Writes
  <2> QED BY <1>1, <1>2, <1>5, <2>1, PlaceTake
<1>8. OnTop'
  BY <1>1, <1>5, TopStays
<1>9. \A v \in Windows : InTurn(v)'
  <2>1. OutboxTypeOK
    BY DEF IInv
  <2>2. \/ y.kind = "applied" /\ sent[w][1].kind # "update"
        \/ /\ y.kind = "updated" /\ sent[w][1].kind = "update" /\ y.id = sent[w][1].id
           /\ \A k \in Fields : sent[w][1].patch[k] # None => new[k] = sent[w][1].patch[k]
    BY <1>4 DEF Writes, Over, Keys
  <2> QED BY <1>1, <1>2, <1>3, <1>5, <1>6, <2>1, <2>2, CommitTurn
<1>10. HistoryInv => HistoryInv'
  BY <1>1, <1>3, <1>5, CommitHistory DEF Writes
<1> QED BY <1>6, <1>7, <1>8, <1>9, <1>10 DEF LinksInv

\* Serve is one of the two.
Serves(w) ==
    \/ \E kind \in {"got", "refused"} : Replies(w, kind)
    \/ \E new, did, origin, kind, id : Writes(w, new, did, origin, kind, id)

\* Every handler of the server either answers with what there is or commits.
LEMMA ServeServes ==
    ASSUME Step, InOrder, NEW w \in Windows, Serve(w)
    PROVE  Serves(w)
<1> USE DEF Step
<1>1. LinkTypes /\ Uncommitted
  BY DEF LinksInv
<1>2. ASSUME NEW i \in DOMAIN sent[w], i = 1
      PROVE  /\ sent[w][i] \in Requests
             /\ \A a \in ActsOf(sent[w][i]) : at[a] = 0
  <2>1. sent[w] \in Seq(Requests) /\ 1 \in 1..Len(sent[w])
    BY <1>1, <1>2 DEF LinkTypes
  <2>2. sent[w][1] \in Requests
    BY <2>1
  <2>3. \A a \in ActsOf(sent[w][1]) : at[a] = 0
    BY <1>1, <2>1 DEF Uncommitted
  <2> QED BY <1>2, <2>2, <2>3
<1>3. ASSUME NEW i \in DOMAIN sent[w], HandleGet(w, i)
      PROVE  Serves(w)
  <2>1. i = 1
    BY <1>1, <1>3, TookTakes DEF HandleGet
  <2>2. Replies(w, "got")
    BY <1>3, <2>1 DEF HandleGet, Replies
  <2> QED BY <2>2 DEF Serves
<1>4. ASSUME NEW i \in DOMAIN sent[w], HandleUpdate(w, i)
      PROVE  Serves(w)
  <2> DEFINE p == sent[w][i].patch
             did == {p[k] : k \in Fields}
  <2>1. /\ sent[w][i].kind = "update" /\ Took(w, i)
        /\ CommitAs(w, Over(doc, p), did, w, [kind |-> "updated", id |-> sent[w][i].id])
        /\ UNCHANGED <<outbox, screens, connected, acts, drops>>
    BY <1>4 DEF HandleUpdate
  <2>2. /\ sent[w][i] \in Requests /\ \A a \in ActsOf(sent[w][i]) : at[a] = 0
        /\ i = 1
    BY <1>1, <1>2, <2>1, TookTakes
  <2>3. sent[w][i].id \in Nat /\ p \in Patches
    BY <2>2 DEF Requests
  <2>4. did \cap Acts \subseteq ActsOf(sent[w][i])
    BY DEF ActsOf
  <2>5. \A k \in Fields : p[k] \in Acts \cup {None}
    BY <2>3 DEF Patches
  <2>6. doc \in Docs /\ Acts \subseteq Values
    BY <1>1, BoundsAssumption DEF LinkTypes, Acts, Values
  <2>7. /\ Over(doc, p) \in Docs
        /\ \A k \in Fields : Over(doc, p)[k] = IF p[k] # None THEN p[k] ELSE doc[k]
    BY <2>5, <2>6 DEF Over, Docs, Keys
  <2>8. Written(Over(doc, p), did)
    BY <2>2, <2>4, <2>5, <2>6, <2>7 DEF Written
  <2> HIDE DEF p, did
  <2>9. Writes(w, Over(doc, p), did, w, "updated", sent[w][i].id)
    BY <2>1, <2>2, <2>3, <2>4, <2>7, <2>8 DEF Writes, p
  <2> QED BY <2>9 DEF Serves
\* A request whose one act goes wherever it goes.
<1>5. ASSUME NEW i \in DOMAIN sent[w], NEW new \in Docs, Took(w, i),
             sent[w][i].kind \in {"op", "reset", "import"},
             CommitAs(w, new, {sent[w][i].act}, NoOne, [kind |-> "applied", id |-> 0]),
             \A k \in Fields : new[k] = doc[k] \/ new[k] = sent[w][i].act,
             UNCHANGED <<outbox, screens, connected, acts, drops>>
      PROVE  Serves(w)
  <2>1. /\ sent[w][i] \in Requests /\ \A a \in ActsOf(sent[w][i]) : at[a] = 0
        /\ i = 1
    BY <1>1, <1>2, <1>5, TookTakes
  <2>2. sent[w][i].act \in Acts /\ Acts \subseteq Values
    BY <1>5, <2>1, BoundsAssumption DEF Requests, Acts, Values
  <2>3. {sent[w][i].act} \cap Acts \subseteq ActsOf(sent[w][i])
    BY DEF ActsOf
  <2>4. Written(new, {sent[w][i].act})
    BY <1>5, <2>1, <2>2, <2>3 DEF Written
  <2>5. Writes(w, new, {sent[w][i].act}, NoOne, "applied", 0)
    BY <1>5, <2>1, <2>3, <2>4 DEF Writes
  <2> QED BY <2>5 DEF Serves
<1>6. ASSUME NEW i \in DOMAIN sent[w], i = 1,
             sent[w][i].kind \in {"op", "reset", "import"}
      PROVE  /\ [k \in Keys |-> sent[w][i].act] \in Docs
             /\ [doc EXCEPT ![sent[w][i].key] = sent[w][i].act] \in Docs
             /\ \A k \in Fields : [j \in Keys |-> sent[w][i].act][k] = sent[w][i].act
             /\ \A k \in Fields :
                  LET new == [doc EXCEPT ![sent[w][i].key] = sent[w][i].act]
                  IN  new[k] = doc[k] \/ new[k] = sent[w][i].act
  <2>1. sent[w][i].act \in Values
    BY <1>2, <1>6 DEF Requests
  <2>2. doc \in Docs
    BY <1>1 DEF LinkTypes
  <2> QED BY <2>1, <2>2 DEF Docs, Keys
<1>7. ASSUME NEW i \in DOMAIN sent[w], HandleOp(w, i)
      PROVE  Serves(w)
  <2>1. i = 1
    BY <1>1, <1>7, TookTakes DEF HandleOp
  <2> DEFINE new == [doc EXCEPT ![sent[w][i].key] = sent[w][i].act]
  <2>2. /\ Took(w, i) /\ sent[w][i].kind \in {"op", "reset", "import"}
        /\ CommitAs(w, new, {sent[w][i].act}, NoOne, [kind |-> "applied", id |-> 0])
        /\ UNCHANGED <<outbox, screens, connected, acts, drops>>
    BY <1>7 DEF HandleOp
  <2>3. new \in Docs /\ \A k \in Fields : new[k] = doc[k] \/ new[k] = sent[w][i].act
    BY <1>6, <2>1, <2>2
  <2> HIDE DEF new
  <2> QED BY <1>5, <2>2, <2>3
<1>8. ASSUME NEW i \in DOMAIN sent[w], HandleReset(w, i)
      PROVE  Serves(w)
  <2>1. i = 1
    BY <1>1, <1>8, TookTakes DEF HandleReset
  <2> DEFINE new == [k \in Keys |-> sent[w][i].act]
  <2>2. /\ Took(w, i) /\ sent[w][i].kind \in {"op", "reset", "import"}
        /\ CommitAs(w, new, {sent[w][i].act}, NoOne, [kind |-> "applied", id |-> 0])
        /\ UNCHANGED <<outbox, screens, connected, acts, drops>>
    BY <1>8 DEF HandleReset
  <2>3. new \in Docs /\ \A k \in Fields : new[k] = doc[k] \/ new[k] = sent[w][i].act
    BY <1>6, <2>1, <2>2
  <2> HIDE DEF new
  <2> QED BY <1>5, <2>2, <2>3
<1>9. ASSUME NEW i \in DOMAIN sent[w], HandleImport(w, i)
      PROVE  Serves(w)
  <2>1. i = 1
    BY <1>1, <1>9, TookTakes DEF HandleImport
  <2>2. CASE pristine
    <3> DEFINE new == [k \in Keys |-> sent[w][i].act]
    <3>1. /\ Took(w, i) /\ sent[w][i].kind \in {"op", "reset", "import"}
          /\ CommitAs(w, new, {sent[w][i].act}, NoOne, [kind |-> "applied", id |-> 0])
          /\ UNCHANGED <<outbox, screens, connected, acts, drops>>
      BY <1>9, <2>2 DEF HandleImport
    <3>2. new \in Docs /\ \A k \in Fields : new[k] = doc[k] \/ new[k] = sent[w][i].act
      BY <1>6, <2>1, <3>1
    <3> HIDE DEF new
    <3> QED BY <1>5, <3>1, <3>2
  <2>3. CASE ~pristine
    <3>1. Replies(w, "refused")
      BY <1>9, <2>1, <2>3 DEF HandleImport, Replies
    <3> QED BY <3>1 DEF Serves
  <2> QED BY <2>2, <2>3
<1> QED BY <1>3, <1>4, <1>7, <1>8, <1>9 DEF Serve

\* Every handler of the server keeps the invariant of the links.
LEMMA ServeLinks ==
    ASSUME Step, InOrder, NEW w \in Windows, Serve(w)
    PROVE  LinksInv' /\ (HistoryInv => HistoryInv')
<1>1. CASE \E kind \in {"got", "refused"} : Replies(w, kind)
  BY <1>1, ReplyLinks
<1>2. CASE \E new, did, origin, kind, id : Writes(w, new, did, origin, kind, id)
  BY <1>2, CommitLinks
<1> QED BY <1>1, <1>2, ServeServes DEF Serves
-----------------------------------------------------------------------------
(* The steps that hear.                                                     *)

\* What is heard is the server's document of some revision so far.
LEMMA HeardSnapshot ==
    ASSUME LinkTypes, NEW H, Past(H), Snapped(H), NEW w \in Windows,
           NEW i \in DOMAIN inbox[w]
    PROVE  /\ i \in 1..Len(inbox[w]) /\ inbox[w][i] \in Snapshots
           /\ inbox[w][i].rev \in Nat /\ inbox[w][i].rev <= rev
           /\ inbox[w][i].doc = H[inbox[w][i].rev]
<1>1. inbox[w] \in Seq(Snapshots)
  BY DEF LinkTypes
<1>2. i \in 1..Len(inbox[w]) /\ inbox[w][i] \in Snapshots
  BY <1>1
<1>3. inbox[w][i].rev \in Nat
  BY <1>2 DEF Snapshots
<1>4. inbox[w][i].rev <= rev /\ inbox[w][i].doc = H[inbox[w][i].rev]
  BY <1>2 DEF Snapped
<1> QED BY <1>2, <1>3, <1>4

\* What is no answer to an update leaves the updates in their order.
LEMMA HearTurn ==
    ASSUME LinkTypes, LinkTypes', OutboxTypeOK, NEW w \in Windows,
           NEW i \in DOMAIN inbox[w], Hears(w, i), inbox[w][i].kind # "updated",
           UNCHANGED <<inFlight, nextId>>,
           \/ UNCHANGED sent
           \/ \E r \in Requests : Asks(w, r) /\ r.kind # "update",
           \A v \in Windows : InTurn(v)
    PROVE  \A v \in Windows : InTurn(v)'
<1> SUFFICES ASSUME NEW v \in Windows PROVE InTurn(v)'
  OBVIOUS
<1>1. CASE v # w
  <2>1. inbox'[v] = inbox[v] /\ sent'[v] = sent[v]
    BY <1>1 DEF Hears, Asks
  <2> QED BY <2>1 DEF InTurn
<1>2. CASE v = w
  <2>1. Without(inbox[w], i, inbox'[w])
    BY DEF Hears
  <2>2. Lists(inbox[w], sent[w]) /\ Lists(inbox'[w], sent[w]) /\ nextId[w] \in Nat
    BY DEF LinkTypes, Lists, OutboxTypeOK
  <2>3. Updates(inbox[w], sent[w], nextId[w]) /\ Underway(inFlight[w], inbox[w], sent[w])
    BY DEF InTurn
  <2>4. Updates(inbox'[w], sent[w], nextId[w]) /\ Underway(inFlight[w], inbox'[w], sent[w])
    BY <2>1, <2>2, <2>3, UpdatesHeard
  <2>5. CASE UNCHANGED sent
    BY <1>2, <2>4, <2>5 DEF InTurn
  <2>6. CASE \E r \in Requests : Asks(w, r) /\ r.kind # "update"
    <3>1. PICK r \in Requests : Asks(w, r) /\ r.kind # "update"
      BY <2>6
    <3>2. sent'[w] = Append(sent[w], r)
      BY <3>1 DEF Asks
    <3>3. /\ Updates(inbox'[w], Append(sent[w], r), nextId[w])
          /\ Underway(inFlight[w], inbox'[w], Append(sent[w], r))
      BY <2>2, <2>4, <3>1, UpdatesAsk
    <3> QED BY <1>2, <3>2, <3>3 DEF InTurn
  <2> QED BY <2>5, <2>6
<1> QED BY <1>1, <1>2

\* A snapshot is accepted or ignored, and the load may be followed by an import.
Listens(w, i) ==
    LET m == inbox[w][i] IN
    /\ i \in DOMAIN inbox[w] /\ Heard(w, i)
    /\ \/ m.kind = "changed" /\ Accept(w, m, m.origin, Unconfirmed(w))
       \/ m.kind \in {"applied", "got"} /\ Accept(w, m, NoOne, Unconfirmed(w))
       \/ m.kind = "refused" /\ UNCHANGED <<shown, mark>>
    /\ UNCHANGED <<sent, acts>> \/ \E r : Send(w, r) /\ NewRequest(r)
    /\ UNCHANGED <<server, outbox, connected, drops>>

\* Hearing it keeps the invariant of the links.
LEMMA HearLinks ==
    ASSUME Step, InOrder, HistoryInv, NEW w \in Windows, NEW i, Listens(w, i)
    PROVE  LinksInv' /\ HistoryInv'
<1> USE DEF Step
<1>1. LinkTypes /\ Uncommitted /\ OnePlace /\ OnTop /\ \A v \in Windows : InTurn(v)
  BY DEF LinksInv
<1>2. PICK H : Past(H) /\ Later(H) /\ Snapped(H) /\ Seen(H)
  BY DEF HistoryInv
<1> DEFINE m == inbox[w][i]
<1>3. m.rev \in Nat /\ m.rev <= rev /\ m.doc = H[m.rev]
  BY <1>1, <1>2, HeardSnapshot DEF Listens
<1>4. Hears(w, i) /\ i \in DOMAIN inbox[w] /\ inbox[w][i].kind # "updated"
  BY <1>1, HeardHears DEF Listens
<1>5. UNCHANGED <<doc, rev, pristine, at, pending, inFlight, nextId, connected>>
  BY DEF Listens, server, outbox
<1>6. UNCHANGED <<sent, acts>> \/ \E r \in Requests : Asks(w, r) /\ NewRequest(r)
  BY <1>1, SendAsks DEF NewRequest, Listens
<1>7. UNCHANGED <<shown, mark>> \/ \E origin : Takeover(w, m, origin)
  <2>1. UNCHANGED <<shown, mark>> \/ \E origin : Accept(w, m, origin, Unconfirmed(w))
    BY DEF Listens
  <2> QED BY <1>3, <1>5, <2>1 DEF Takeover
<1> HIDE DEF m
<1>8. /\ mark' \in [Windows -> Nat]
      /\ \A v \in Windows : mark[v] <= mark'[v] /\ mark'[v] <= rev
  <2>1. CASE UNCHANGED <<shown, mark>>
    BY <1>1, <2>1 DEF LinkTypes
  <2>2. CASE \E origin : Takeover(w, m, origin)
    BY <1>1, <2>2, AcceptMoves
  <2> QED BY <1>7, <2>1, <2>2 DEF m
<1>9. LinkTypes'
  <2>1. sent' \in [Windows -> Seq(Requests)] /\ inbox' \in [Windows -> Seq(Snapshots)]
    BY <1>1, <1>4, <1>6 DEF LinkTypes, Asks, Hears
  <2> QED BY <1>1, <1>5, <1>8, <2>1 DEF LinkTypes
<1>10. Uncommitted' /\ OnePlace'
  <2>1. CASE UNCHANGED <<sent, acts>>
    BY <1>1, <1>5, <2>1, PlaceFrame
  <2>2. CASE \E r \in Requests : Asks(w, r) /\ NewRequest(r)
    BY <1>1, <1>5, <2>2, PlaceAsk DEF NewRequest
  <2> QED BY <1>6, <2>1, <2>2
<1>11. OnTop'
  <2>1. CASE UNCHANGED <<shown, mark>>
    BY <1>1, <1>5, <2>1, TopStays
  <2>2. CASE \E origin : Takeover(w, m, origin)
    BY <1>1, <2>2, TopAccept
  <2> QED BY <1>7, <2>1, <2>2 DEF m
<1>12. \A v \in Windows : InTurn(v)'
  <2>1. OutboxTypeOK
    BY DEF IInv
  <2>2. UNCHANGED sent \/ \E r \in Requests : Asks(w, r) /\ r.kind # "update"
    BY <1>6 DEF NewRequest
  <2> QED BY <1>1, <1>4, <1>5, <1>9, <2>1, <2>2, HearTurn
<1>13. Past(H)' /\ Later(H)'
  BY <1>2, <1>5 DEF Past, Later
<1>14. Snapped(H)'
  BY <1>1, <1>2, <1>4, <1>5, SnappedHears
<1>15. Seen(H)'
  <2>1. CASE UNCHANGED <<shown, mark>>
    BY <1>1, <1>2, <1>5, <1>8, <2>1, SeenStays
  <2>2. CASE \E origin : Takeover(w, m, origin)
    BY <1>1, <1>2, <1>3, <2>2, SeenAccept DEF m
  <2> QED BY <1>7, <2>1, <2>2 DEF m
<1> QED BY <1>9, <1>10, <1>11, <1>12, <1>13, <1>14, <1>15 DEF LinksInv, HistoryInv

\* The answer to an update settles the oldest patch, which the server has.
LEMMA HearUpdatedLinks ==
    ASSUME Step, InOrder, HistoryInv, NEW w \in Windows, NEW i \in DOMAIN inbox[w],
           HearUpdated(w, i)
    PROVE  LinksInv' /\ HistoryInv'
<1> USE DEF Step
<1>1. LinkTypes /\ Uncommitted /\ OnePlace /\ OnTop /\ \A v \in Windows : InTurn(v)
  BY DEF LinksInv
<1>2. PICK H : Past(H) /\ Later(H) /\ Snapped(H) /\ Seen(H)
  BY DEF HistoryInv
<1> DEFINE m == inbox[w][i]
<1>3. /\ m.rev \in Nat /\ m.rev <= rev /\ m.doc = H[m.rev]
      /\ i \in 1..Len(inbox[w]) /\ m \in Snapshots
  BY <1>1, <1>2, HeardSnapshot
<1>4. /\ m.kind = "updated" /\ Heard(w, i) /\ Settle(w, m.id)
      /\ mark' = [mark EXCEPT ![w] = IF m.rev > mark[w] THEN m.rev ELSE mark[w]]
      /\ UNCHANGED <<doc, rev, pristine, at, imported, pending, nextId, first, connected,
                     sent, acts, drops, shown>>
  BY DEF HearUpdated, Accept, Watermark, Applies, server
<1>5. Hears(w, i) /\ \A j \in 1..(i - 1) : inbox[w][j].kind # "updated"
  BY <1>1, <1>4, HeardHears DEF Hears
<1> HIDE DEF m
<1>6. /\ mark' \in [Windows -> Nat] /\ m.rev <= mark'[w]
      /\ \A v \in Windows : mark[v] <= mark'[v] /\ mark'[v] <= rev
  BY <1>1, <1>3, <1>4 DEF LinkTypes
<1>7. LinkTypes'
  BY <1>1, <1>4, <1>5, <1>6 DEF LinkTypes, Hears
<1>8. Uncommitted' /\ OnePlace'
  BY <1>1, <1>4, PlaceFrame
<1>9. /\ inFlight'[w] = {s \in inFlight[w] : s.id # m.id}
      /\ \A v \in Windows : v # w => inFlight'[v] = inFlight[v]
  BY <1>4 DEF Settle, IInv, OutboxTypeOK
<1>10. /\ Updates(inbox'[w], sent[w], nextId[w])
       /\ Underway(inFlight'[w], inbox'[w], sent[w])
       /\ \A s \in inFlight[w] : s.id # m.id => m.id < s.id
       /\ \A s \in inFlight[w] : s.id = m.id =>
            \A k \in Fields : s.patch[k] # None => m.doc[k] = s.patch[k]
  <2>1. Lists(inbox[w], sent[w]) /\ nextId[w] \in Nat
    BY <1>1 DEF LinkTypes, Lists, IInv, OutboxTypeOK
  <2>2. Updates(inbox[w], sent[w], nextId[w]) /\ Underway(inFlight[w], inbox[w], sent[w])
    BY <1>1 DEF InTurn
  <2>3. Without(inbox[w], i, inbox'[w]) /\ inbox[w][i].kind = "updated"
    BY <1>4, <1>5 DEF Hears, m
  <2>4. /\ Updates(inbox'[w], sent[w], nextId[w])
        /\ Underway({s \in inFlight[w] : s.id # inbox[w][i].id}, inbox'[w], sent[w])
        /\ \A s \in inFlight[w] : s.id # inbox[w][i].id => inbox[w][i].id < s.id
    BY <1>5, <2>1, <2>2, <2>3, UpdatesSettled
  <2>5. \A s \in inFlight[w] : s.id = inbox[w][i].id =>
            \A k \in Fields : s.patch[k] # None => inbox[w][i].doc[k] = s.patch[k]
    BY <1>3, <2>2, <2>3 DEF Underway
  <2> QED BY <1>9, <2>4, <2>5 DEF m
<1>11. \A v \in Windows : InTurn(v)'
  <2> SUFFICES ASSUME NEW v \in Windows PROVE InTurn(v)'
    OBVIOUS
  <2>1. CASE v # w
    <3>1. UNCHANGED <<inbox[v], nextId[v], inFlight[v], sent[v]>>
      BY <1>4, <1>5, <1>9, <2>1 DEF Hears
    <3> QED BY <1>1, <3>1 DEF InTurn
  <2>2. CASE v = w
    BY <1>4, <1>10, <2>2 DEF InTurn
  <2> QED BY <2>1, <2>2
<1>12. /\ \A v \in Windows : v # w => Unconfirmed(v)' = Unconfirmed(v)
       /\ \A k \in Fields :
            \/ Unconfirmed(w)'[k] = Unconfirmed(w)[k]
            \/ /\ Unconfirmed(w)'[k] = None /\ Unconfirmed(w)[k] # None
               /\ \E s \in inFlight[w] : s.id = m.id /\ s.patch[k] = Unconfirmed(w)[k]
  BY <1>4, <1>10, OverlaySettle
<1>13. OnTop'
  BY <1>1, <1>4, <1>12 DEF OnTop
<1>14. Past(H)' /\ Later(H)'
  BY <1>2, <1>4 DEF Past, Later
<1>15. Snapped(H)'
  BY <1>1, <1>2, <1>4, <1>5, SnappedHears
<1>16. Seen(H)'
  <2> SUFFICES ASSUME NEW v \in Windows, NEW k \in Fields,
                      Unconfirmed(v)'[k] = None, shown[v][k] \in Acts
               PROVE  \E r \in 0..mark'[v] : shown[v][k] = H[r][k]
    BY <1>4 DEF Seen
  <2>1. CASE Unconfirmed(v)[k] = None
    <3>1. PICK r \in 0..mark[v] : shown[v][k] = H[r][k]
      BY <1>2, <2>1 DEF Seen
    <3>2. r \in 0..mark'[v]
      BY <1>1, <1>6 DEF LinkTypes
    <3> QED BY <3>1, <3>2
  <2>2. CASE Unconfirmed(v)[k] # None
    <3>1. v = w
      BY <1>12, <2>2
    <3>2. PICK s \in inFlight[w] : s.id = m.id /\ s.patch[k] = Unconfirmed(w)[k]
      BY <1>12, <2>2, <3>1
    <3>3. shown[w][k] = m.doc[k]
      BY <1>1, <1>10, <2>2, <3>1, <3>2 DEF OnTop
    <3>4. m.rev \in 0..mark'[w]
      BY <1>3, <1>6
    <3> QED BY <1>3, <3>1, <3>3, <3>4
  <2> QED BY <2>1, <2>2
<1> QED BY <1>7, <1>8, <1>11, <1>13, <1>14, <1>15, <1>16 DEF LinksInv, HistoryInv

\* Whatever a window hears is a snapshot, or the answer to an update.
LEMMA HearListens ==
    ASSUME IInv, LinkTypes, NEW w \in Windows, Hear(w)
    PROVE  \/ \E i : Listens(w, i)
           \/ \E i \in DOMAIN inbox[w] : HearUpdated(w, i)
<1>1. ASSUME NEW i \in DOMAIN inbox[w] PROVE inbox[w][i] \in Snapshots
  <2>1. inbox[w] \in Seq(Snapshots)
    BY DEF LinkTypes
  <2> QED BY <2>1
<1>2. ASSUME NEW i \in DOMAIN inbox[w],
             \/ HearChanged(w, i) \/ HearApplied(w, i) \/ HearRefused(w, i)
      PROVE  Listens(w, i)
  BY <1>2 DEF HearChanged, HearApplied, HearRefused, Listens, screens
<1>3. ASSUME NEW i \in DOMAIN inbox[w], HearGot(w, i)
      PROVE  Listens(w, i)
  <2>1. /\ Heard(w, i) /\ inbox[w][i].kind = "got"
        /\ Accept(w, inbox[w][i], NoOne, Unconfirmed(w))
        /\ UNCHANGED <<server, outbox, connected, drops>>
    BY <1>3 DEF HearGot
  <2>2. UNCHANGED <<sent, acts>> \/ \E r : Send(w, r) /\ NewRequest(r)
    <3>1. CASE UNCHANGED <<sent, acts>>
      BY <3>1
    <3>2. CASE /\ acts < MaxActs /\ acts' = acts + 1
               /\ Send(w, Request("import", 0, Empty, "none", acts'))
      <4>1. NewRequest(Request("import", 0, Empty, "none", acts'))
        BY <3>2, NewRequests
      <4> QED BY <3>2, <4>1
    <3> QED BY <1>3, <3>1, <3>2 DEF HearGot
  <2> QED BY <2>1, <2>2 DEF Listens
<1>4. ASSUME NEW i \in DOMAIN inbox[w], HearFailed(w, i)
      PROVE  FALSE
  BY <1>1, <1>4 DEF HearFailed, Snapshots
<1> QED BY <1>2, <1>3, <1>4 DEF Hear

\* Whatever a window hears, the invariant of the links stays.
LEMMA HearAnyLinks ==
    ASSUME Step, InOrder, HistoryInv, NEW w \in Windows, Hear(w)
    PROVE  LinksInv' /\ HistoryInv'
  BY HearListens, HearLinks, HearUpdatedLinks DEF Step, LinksInv

\* Nothing breaks.
LEMMA NothingBreaks ==
    ASSUME LinkTypes, InOrder, NEW w \in Windows
    PROVE  ~Breaking(w) /\ ~Reconnect(w) /\ ~Restart
<1>1. "drop" \notin Faults /\ "lose" \notin Faults /\ "restart" \notin Faults
  BY DEF InOrder
<1>2. connected[w]
  BY DEF LinkTypes
<1> QED BY <1>1, <1>2 DEF Breaking, Disconnect, RequestLost, AnswerLost, Reconnect,
           Restart, Goes

\* Every step keeps the invariant of the links.
LEMMA LinksNext ==
    ASSUME InOrder, Step, HistoryInv, [Next]_vars
    PROVE  LinksInv' /\ HistoryInv'
<1> USE DEF Step
<1>1. ASSUME NEW w \in Windows, Acting(w) PROVE LinksInv' /\ HistoryInv'
  BY <1>1, ActingLinks
<1>2. ASSUME NEW w \in Windows, SendPending(w) PROVE LinksInv' /\ HistoryInv'
  BY <1>2, SendLinks
<1>3. ASSUME NEW w \in Windows, Serve(w) PROVE LinksInv' /\ HistoryInv'
  BY <1>3, ServeLinks
<1>4. ASSUME NEW w \in Windows, Hear(w) PROVE LinksInv' /\ HistoryInv'
  BY <1>4, HearAnyLinks
<1>5. ASSUME NEW w \in Windows, Breaking(w) \/ Reconnect(w) PROVE FALSE
  BY <1>5, NothingBreaks DEF LinksInv
<1>6. ~Restart
  BY DEF Restart, Goes, InOrder
<1>7. CASE UNCHANGED vars
  <2>1. UNCHANGED <<doc, rev, pristine, at, pending, inFlight, nextId, shown, mark,
                    connected, sent, inbox, acts>>
    BY <1>7 DEF vars, server, outbox, screens, links
  <2>2. LinkTypes'
    BY <2>1 DEF LinksInv, LinkTypes
  <2>3. Uncommitted' /\ OnePlace'
    BY <2>1, PlaceFrame DEF LinksInv
  <2>4. OnTop'
    BY <2>1, TopStays DEF LinksInv
  <2>5. \A w \in Windows : InTurn(w)'
    BY <2>1 DEF LinksInv, InTurn
  <2>6. ASSUME NEW H, Past(H), Later(H), Snapped(H), Seen(H)
        PROVE  Past(H)' /\ Later(H)' /\ Snapped(H)' /\ Seen(H)'
    <3>1. Past(H)' /\ Later(H)' /\ Snapped(H)'
      BY <2>1, <2>6 DEF Past, Later, Snapped
    <3>2. mark' \in [Windows -> Nat] /\ \A v \in Windows : mark[v] <= mark'[v]
      BY <2>1 DEF LinksInv, LinkTypes
    <3>3. Seen(H)'
      BY <2>1, <2>6, <3>2, SeenStays DEF LinksInv
    <3> QED BY <3>1, <3>3
  <2> QED BY <2>2, <2>3, <2>4, <2>5, <2>6 DEF LinksInv, HistoryInv
<1> QED BY <1>1, <1>2, <1>3, <1>4, <1>5, <1>6, <1>7 DEF Next

\* The invariant of the links holds when the windows have just opened.
LEMMA LinksInit ==
    ASSUME InOrder, Init
    PROVE  LinksInv /\ HistoryInv
<1>1. IInv
  BY InitInv
<1>2. /\ doc = [k \in Keys |-> 0] /\ rev \in {0, 1} /\ pristine \in BOOLEAN
      /\ shown = [w \in Windows |-> [k \in Keys |-> Seed]]
      /\ mark = [w \in Windows |-> 0]
      /\ pending = [w \in Windows |-> Empty] /\ inFlight = [w \in Windows |-> {}]
      /\ nextId = [w \in Windows |-> 1]
      /\ connected = [w \in Windows |-> TRUE]
      /\ sent = [w \in Windows |-> <<Get>>] /\ inbox = [w \in Windows |-> <<>>]
      /\ acts = 0 /\ at = [a \in Acts |-> 0]
  BY DEF Init
<1>3. 0 \in Values /\ 0 \notin Acts /\ Seed \notin Acts /\ None \notin Acts
  BY BoundsAssumption, SeedAssumption, NoneIsNoAct DEF Values, Acts
<1>4. Get \in Requests /\ Get.kind = "get"
  BY <1>3 DEF Get, Request, Requests, Empty, Patches
<1>5. ActsOf(Get) = {}
  BY <1>3 DEF ActsOf, Get, Request, Empty
<1>6. /\ \A w \in Windows : sent[w] = <<Get>> /\ Len(sent[w]) = 1 /\ inbox[w] = <<>>
      /\ \A w \in Windows : \A i \in 1..Len(sent[w]) : sent[w][i] = Get
      /\ \A w \in Windows : 1..Len(inbox[w]) = {}
  BY <1>2
<1>7. LinkTypes
  <2>1. doc \in Docs /\ rev \in Nat /\ at \in [Acts -> Nat] /\ mark \in [Windows -> Nat]
        /\ \A w \in Windows : mark[w] <= rev
    BY <1>2, <1>3 DEF Docs
  <2>2. <<Get>> \in Seq(Requests) /\ <<>> \in Seq(Snapshots)
    BY <1>4
  <2> QED BY <1>2, <2>1, <2>2 DEF LinkTypes
<1>8. Uncommitted /\ OnePlace
  <2>1. \A w \in Windows, k \in Fields : pending[w][k] = None
    BY <1>2 DEF Empty
  <2>2. \A a \in Acts : at[a] = 0
    BY <1>2
  <2>3. Uncommitted
    BY <1>5, <1>6, <2>1, <2>2 DEF Uncommitted
  <2>4. OnePlace
    BY <1>5, <1>6, <2>1 DEF OnePlace
  <2> QED BY <2>3, <2>4
<1>9. \A w \in Windows, k \in Fields : Unconfirmed(w)[k] = None
  BY <1>2 DEF Unconfirmed, Merge, InFlight, Carrying, Empty
<1>10. OnTop
  BY <1>9 DEF OnTop
<1>11. \A w \in Windows : InTurn(w)
  BY <1>2, <1>4, <1>6 DEF InTurn, Updates, Underway
<1>12. HistoryInv
  <2>1. PICK H : H = [r \in 0..rev |-> doc]
    OBVIOUS
  <2>2. /\ rev \in Nat /\ rev \in 0..rev /\ doc \in Docs
        /\ \A k \in Fields : doc[k] \notin Acts
    BY <1>2, <1>3 DEF Docs, Keys
  <2>3. Past(H)
    BY <2>1, <2>2 DEF Past
  <2>4. Later(H)
    BY <2>1, <2>2 DEF Later
  <2>5. Snapped(H)
    BY <1>6 DEF Snapped
  <2>6. Seen(H)
    BY <1>2, <1>3 DEF Seen, Keys
  <2> QED BY <2>3, <2>4, <2>5, <2>6 DEF HistoryInv
<1> QED BY <1>7, <1>8, <1>10, <1>11, <1>12 DEF LinksInv

-----------------------------------------------------------------------------
(* No screen snaps backwards.                                               *)

NoStepBack ==
    \A w \in Windows, k \in Fields :
         Committed(shown[w][k]) /\ Committed(shown'[w][k])
           => at[shown'[w][k]] >= at[shown[w][k]]

\* An edit is no commit yet.
LEMMA EditGoesOn ==
    ASSUME Step, NEW w \in Windows, NEW k \in Fields, Edit(w, k)
    PROVE  NoStepBack
<1> USE DEF Step
<1>1. at[acts + 1] = 0 /\ at \in [Acts -> Nat]
  BY NewAct DEF Edit, LinksInv, LinkTypes
<1>2. \A v \in Windows, j \in Fields :
        shown'[v][j] = shown[v][j] \/ shown'[v][j] = acts + 1
  BY DEF Edit, Over, Empty, Keys, IInv, ScreenShape
<1> SUFFICES ASSUME NEW v \in Windows, NEW j \in Fields,
                    Committed(shown[v][j]), Committed(shown'[v][j])
             PROVE  at[shown'[v][j]] >= at[shown[v][j]]
  BY DEF NoStepBack
<1>3. shown'[v][j] = shown[v][j]
  BY <1>1, <1>2 DEF Committed
<1>4. at[shown[v][j]] \in Nat
  BY <1>1 DEF Committed
<1> QED BY <1>3, <1>4

\* An accepted snapshot has every field as it was shown, or later.
LEMMA AcceptGoesOn ==
    ASSUME Step, HistoryInv, NEW w \in Windows, NEW i \in DOMAIN inbox[w],
           NEW origin, Accept(w, inbox[w][i], origin, Unconfirmed(w)),
           UNCHANGED <<pending, inFlight>>
    PROVE  NoStepBack
<1> USE DEF Step
<1>1. LinkTypes /\ OnTop
  BY DEF LinksInv
<1>2. PICK H : Past(H) /\ Later(H) /\ Snapped(H) /\ Seen(H)
  BY DEF HistoryInv
<1> DEFINE m == inbox[w][i]
<1>3. m.rev \in Nat /\ m.rev <= rev /\ m.doc = H[m.rev]
  BY <1>1, <1>2, HeardSnapshot
<1>4. Takeover(w, m, origin)
  BY <1>3 DEF Takeover
<1> HIDE DEF m
<1> SUFFICES ASSUME NEW v \in Windows, NEW k \in Fields,
                    Committed(shown[v][k]), Committed(shown'[v][k])
             PROVE  at[shown'[v][k]] >= at[shown[v][k]]
  BY DEF NoStepBack
<1>5. \/ shown'[v][k] = shown[v][k]
      \/ /\ v = w /\ mark[w] < m.rev
         /\ shown'[v][k] = IF Unconfirmed(w)[k] # None
                           THEN Unconfirmed(w)[k] ELSE m.doc[k]
  BY <1>1, <1>4, AcceptMoves
<1>6. at[shown[v][k]] \in Nat
  BY <1>1 DEF LinkTypes, Committed
<1>7. CASE shown'[v][k] = shown[v][k]
  BY <1>6, <1>7
<1>8. CASE v = w /\ Unconfirmed(w)[k] # None /\ shown'[v][k] = Unconfirmed(w)[k]
  BY <1>1, <1>6, <1>8 DEF OnTop
<1>9. CASE /\ v = w /\ mark[w] < m.rev
           /\ Unconfirmed(w)[k] = None /\ shown'[v][k] = m.doc[k]
  <2>1. PICK r \in 0..mark[w] : shown[w][k] = H[r][k]
    BY <1>2, <1>9 DEF Seen, Committed
  <2>2. r \in 0..rev /\ m.rev \in r..rev
    BY <1>1, <1>3, <1>9 DEF LinkTypes
  <2>3. H[m.rev][k] \in Acts /\ at[H[r][k]] <= at[H[m.rev][k]]
    BY <1>2, <1>9, <2>1, <2>2 DEF Later, Committed
  <2>4. at[H[m.rev][k]] \in Nat
    BY <1>1, <2>3 DEF LinkTypes
  <2> QED BY <1>3, <1>6, <1>9, <2>1, <2>3, <2>4
<1> QED BY <1>5, <1>7, <1>8, <1>9

\* No step takes a screen back.
LEMMA ScreensGoOn ==
    ASSUME InOrder, Step, HistoryInv, [Next]_vars
    PROVE  NoStepBack
<1> USE DEF Step
<1>1. LinkTypes
  BY DEF LinksInv
<1>2. ASSUME \A w \in Windows, k \in Fields : shown'[w][k] = shown[w][k]
      PROVE  NoStepBack
  BY <1>1, <1>2 DEF NoStepBack, Committed, LinkTypes
<1>3. ASSUME NEW w \in Windows, Acting(w) PROVE NoStepBack
  <2>1. ASSUME NEW k \in Fields, Edit(w, k) PROVE NoStepBack
    BY <2>1, EditGoesOn
  <2>2. ASSUME NEW k \in Maps, Rearrange(w, k) PROVE NoStepBack
    <3>1. shown' = [shown EXCEPT ![w][k] = acts']
      BY <2>2 DEF Rearrange
    <3>2. \A v \in Windows, j \in Fields : shown'[v][j] = shown[v][j]
      BY <3>1, KeysAssumption DEF IInv, ScreenShape
    <3> QED BY <1>2, <3>2
  <2>3. ASSUME (\E k \in Maps : Silence(w, k)) \/ Reset(w) PROVE NoStepBack
    <3>1. shown' = shown
      BY <2>3 DEF Silence, Reset, screens
    <3> QED BY <1>2, <3>1
  <2> QED BY <1>3, <2>1, <2>2, <2>3 DEF Acting
<1>4. ASSUME NEW w \in Windows, SendPending(w) \/ Serve(w) PROVE NoStepBack
  <2>1. shown' = shown
    BY <1>4 DEF SendPending, Serve, HandleGet, HandleUpdate, HandleOp, HandleReset,
       HandleImport, screens
  <2> QED BY <1>2, <2>1
<1>5. ASSUME NEW w \in Windows, Hear(w) PROVE NoStepBack
  <2>1. ASSUME NEW i \in DOMAIN inbox[w], HearChanged(w, i) PROVE NoStepBack
    BY <2>1, AcceptGoesOn DEF HearChanged, outbox
  <2>2. ASSUME NEW i \in DOMAIN inbox[w], HearUpdated(w, i) PROVE NoStepBack
    <3>1. shown' = shown
      BY <2>2 DEF HearUpdated, Accept, Applies
    <3> QED BY <1>2, <3>1
  <2>3. ASSUME NEW i \in DOMAIN inbox[w], HearApplied(w, i) PROVE NoStepBack
    BY <2>3, AcceptGoesOn DEF HearApplied, outbox
  <2>4. ASSUME NEW i \in DOMAIN inbox[w], HearRefused(w, i) \/ HearFailed(w, i)
        PROVE  NoStepBack
    <3>1. shown' = shown
      BY <2>4 DEF HearRefused, HearFailed, screens
    <3> QED BY <1>2, <3>1
  <2>5. ASSUME NEW i \in DOMAIN inbox[w], HearGot(w, i) PROVE NoStepBack
    BY <2>5, AcceptGoesOn DEF HearGot, outbox
  <2> QED BY <1>5, <2>1, <2>2, <2>3, <2>4, <2>5 DEF Hear
<1>6. ASSUME NEW w \in Windows, Breaking(w) \/ Reconnect(w) PROVE FALSE
  BY <1>1, <1>6, NothingBreaks
<1>7. ~Restart
  BY DEF Restart, Goes, InOrder
<1>8. CASE UNCHANGED vars
  BY <1>2, <1>8 DEF vars, screens
<1> QED BY <1>3, <1>4, <1>5, <1>6, <1>7, <1>8 DEF Next

\* On links that lose nothing and keep each channel's order, whatever the order
\* between the answers and the broadcasts, no screen goes back to a value the
\* server had committed before the one it shows (echo.ts).
THEOREM NeverRollsBack == ASSUME InOrder PROVE Spec => NoRollback
<1>1. Init => IInv /\ LinksInv /\ HistoryInv
  BY InitInv, LinksInit
<1>2. IInv /\ LinksInv /\ HistoryInv /\ [Next]_vars
        => IInv' /\ LinksInv' /\ HistoryInv' /\ NoStepBack
  <2> SUFFICES ASSUME IInv, LinksInv, HistoryInv, [Next]_vars
               PROVE  IInv' /\ LinksInv' /\ HistoryInv' /\ NoStepBack
    OBVIOUS
  <2>1. IInv'
    BY NextInv
  <2>2. Step
    BY <2>1 DEF Step
  <2> QED BY <2>1, <2>2, LinksNext, ScreensGoOn
<1>3. NoStepBack => [\A w \in Windows, k \in Fields :
         Committed(shown[w][k]) /\ Committed(shown'[w][k])
           => at[shown'[w][k]] >= at[shown[w][k]]]_vars
  BY DEF NoStepBack
<1> QED BY <1>1, <1>2, <1>3, PTL DEF Spec, NoRollback
-----------------------------------------------------------------------------
(* Two channels.  What a window will hear, and what it shows as long as no  *)
(* answer and broadcast crossed on it.                                      *)

TwoChannels == Faults \subseteq {"channels"}

\* An answer to an update has its patch in flight, and is that patch on top of
\* the revision before.
Echoes(H, q, F) ==
    \A i \in 1..Len(q) : q[i].kind = "updated" =>
        /\ q[i].rev > 1
        /\ \E s \in F : s.id = q[i].id /\ q[i].doc = Over(H[q[i].rev - 1], s.patch)

\* A broadcast of the window's own that it has not heard of has its answer there.
Answered(w, q, m) ==
    \A i \in 1..Len(q) : q[i].kind = "changed" /\ q[i].origin = w /\ q[i].rev > m =>
        \E j \in 1..Len(q) : q[j].kind = "updated" /\ q[j].rev = q[i].rev

\* A commit has one answer.
OfCommit(x) == x.kind \in {"updated", "applied"}
OneEach(q) ==
    \A i, j \in 1..Len(q) :
        OfCommit(q[i]) /\ OfCommit(q[j]) /\ q[i].rev = q[j].rev => i = j

\* An operation is under way that will be drawn when it is answered.
Coming(q, r, m) ==
    \/ \E i \in 1..Len(r) : r[i].kind = "op"
    \/ \E i \in 1..Len(q) : q[i].kind = "applied" /\ q[i].rev > m

\* The window knows the last revision or will be told.
Telling(q, r, m, n) ==
    \/ m = n
    \/ \E i \in 1..Len(q) : q[i].rev = n /\ q[i].kind # "refused"
    \/ \E i \in 1..Len(r) : r[i].kind = "get"
Told(w) == Telling(inbox[w], sent[w], mark[w], rev)

Agrees(H, w) ==
    w \notin crossed /\ mark[w] > 0 =>
        /\ \A k \in Fields : Unconfirmed(w)[k] = None => shown[w][k] = H[mark[w]][k]
        /\ \A k \in Maps : \/ Coming(inbox[w], sent[w], mark[w])
                           \/ shown[w][k] = H[mark[w]][k]
InAgreement(H, w) ==
    /\ Echoes(H, inbox[w], inFlight[w]) /\ Answered(w, inbox[w], mark[w])
    /\ OneEach(inbox[w]) /\ Agrees(H, w)

Drawn == \A w \in Windows : shown[w] = [k \in Keys |-> shown[w][k]]
ToldInv == rev > 0 /\ Drawn /\ \A w \in Windows : Told(w)
AgreeInv == \E H : Past(H) /\ Snapped(H) /\ \A w \in Windows : InAgreement(H, w)

\* t is q with something behind it.
Grows(q, t) ==
    /\ Len(q) \in Nat /\ Len(t) \in Nat /\ Len(q) <= Len(t)
    /\ \A i \in 1..Len(q) : t[i] = q[i]
Fresh(q, t) == (Len(q) + 1)..Len(t)

\* A place in the longer sequence is an old one or a new one.
LEMMA OldOrFresh ==
    ASSUME NEW q, NEW t, Grows(q, t), NEW i \in 1..Len(t)
    PROVE  (i \in 1..Len(q) /\ t[i] = q[i]) \/ i \in Fresh(q, t)
  BY DEF Grows, Fresh

\* What is put behind an inbox, one message or two.
LEMMA GrowsByAppend ==
    ASSUME NEW S, NEW q \in Seq(S), NEW x \in S, NEW y \in S
    PROVE  /\ Grows(q, q)
           /\ /\ Grows(q, Append(q, x)) /\ Fresh(q, Append(q, x)) = {Len(q) + 1}
              /\ Append(q, x)[Len(q) + 1] = x
           /\ /\ Grows(q, Append(Append(q, x), y))
              /\ Fresh(q, Append(Append(q, x), y)) = {Len(q) + 1, Len(q) + 2}
              /\ Append(Append(q, x), y)[Len(q) + 1] = x
              /\ Append(Append(q, x), y)[Len(q) + 2] = y
<1>1. Len(q) \in Nat
  OBVIOUS
<1> DEFINE t == Append(q, x)
<1>2. /\ t \in Seq(S) /\ Len(t) = Len(q) + 1
      /\ \A i \in 1..Len(q) : t[i] = q[i]
      /\ t[Len(q) + 1] = x
  BY Added
<1> HIDE DEF t
<1> DEFINE u == Append(t, y)
<1>3. /\ u \in Seq(S) /\ Len(u) = Len(t) + 1
      /\ \A i \in 1..Len(t) : u[i] = t[i]
      /\ u[Len(t) + 1] = y
  BY <1>2, Added
<1> HIDE DEF u
<1>4. Grows(q, q) /\ Grows(q, t) /\ Fresh(q, t) = {Len(q) + 1}
  BY <1>1, <1>2 DEF Grows, Fresh
<1>5. \A i \in 1..Len(q) : u[i] = q[i]
  <2>1. \A i \in 1..Len(q) : i \in 1..Len(t)
    BY <1>1, <1>2
  <2> QED BY <1>2, <1>3, <2>1
<1>6. Len(u) = Len(q) + 2 /\ Grows(q, u) /\ Fresh(q, u) = {Len(q) + 1, Len(q) + 2}
  BY <1>1, <1>2, <1>3, <1>5 DEF Grows, Fresh
<1>7. u[Len(q) + 1] = x /\ u[Len(q) + 2] = y
  <2>1. Len(q) + 1 \in 1..Len(t) /\ Len(t) + 1 = Len(q) + 2
    BY <1>1, <1>2
  <2> QED BY <1>2, <1>3, <2>1
<1> QED BY <1>2, <1>4, <1>6, <1>7 DEF t, u

\* More messages, more in flight and a later past keep the answers' patches.
LEMMA EchoesGrow ==
    ASSUME NEW H, NEW G, NEW q, NEW t, NEW E, NEW F, Grows(q, t), Echoes(H, q, E),
           E \subseteq F,
           \A i \in 1..Len(q) : q[i].kind = "updated" => G[q[i].rev - 1] = H[q[i].rev - 1],
           \A i \in Fresh(q, t) : t[i].kind = "updated" =>
               /\ t[i].rev > 1
               /\ \E s \in F : s.id = t[i].id /\ t[i].doc = Over(G[t[i].rev - 1], s.patch)
    PROVE  Echoes(G, t, F)
<1> SUFFICES ASSUME NEW i \in 1..Len(t), t[i].kind = "updated"
             PROVE  /\ t[i].rev > 1
                    /\ \E s \in F : /\ s.id = t[i].id
                                    /\ t[i].doc = Over(G[t[i].rev - 1], s.patch)
  BY DEF Echoes
<1>1. CASE i \in 1..Len(q) /\ t[i] = q[i]
  <2>1. /\ q[i].rev > 1 /\ G[q[i].rev - 1] = H[q[i].rev - 1]
        /\ \E s \in E : s.id = q[i].id /\ q[i].doc = Over(H[q[i].rev - 1], s.patch)
    BY <1>1 DEF Echoes
  <2>2. PICK s \in E : s.id = q[i].id /\ q[i].doc = Over(H[q[i].rev - 1], s.patch)
    BY <2>1
  <2>3. s \in F /\ s.id = t[i].id /\ t[i].doc = Over(G[t[i].rev - 1], s.patch)
    BY <1>1, <2>1, <2>2
  <2> QED BY <1>1, <2>1, <2>3
<1>2. CASE i \in Fresh(q, t)
  BY <1>2
<1> QED BY <1>1, <1>2, OldOrFresh

\* The window's own broadcasts still have their answers.
LEMMA AnsweredGrow ==
    ASSUME NEW w, NEW q, NEW t, NEW m, Grows(q, t), Answered(w, q, m),
           \A i \in Fresh(q, t) : t[i].kind = "changed" /\ t[i].origin = w =>
               \E j \in 1..Len(t) : t[j].kind = "updated" /\ t[j].rev = t[i].rev
    PROVE  Answered(w, t, m)
<1> SUFFICES ASSUME NEW i \in 1..Len(t), t[i].kind = "changed", t[i].origin = w,
                    t[i].rev > m
             PROVE  \E j \in 1..Len(t) : t[j].kind = "updated" /\ t[j].rev = t[i].rev
  BY DEF Answered
<1>1. CASE i \in 1..Len(q) /\ t[i] = q[i]
  <2>1. PICK j \in 1..Len(q) : q[j].kind = "updated" /\ q[j].rev = q[i].rev
    BY <1>1 DEF Answered
  <2>2. j \in 1..Len(t) /\ t[j] = q[j]
    BY DEF Grows
  <2> QED BY <1>1, <2>1, <2>2
<1>2. CASE i \in Fresh(q, t)
  BY <1>2
<1> QED BY <1>1, <1>2, OldOrFresh

\* The answer to a new revision is the only one.
LEMMA OneEachGrow ==
    ASSUME NEW q, NEW t, NEW n \in Nat, Grows(q, t), OneEach(q),
           \A i \in 1..Len(q) : q[i].rev \in Nat /\ q[i].rev <= n,
           \A i \in Fresh(q, t) : OfCommit(t[i]) => t[i].rev = n + 1,
           \A i, j \in Fresh(q, t) : OfCommit(t[i]) /\ OfCommit(t[j]) => i = j
    PROVE  OneEach(t)
<1> SUFFICES ASSUME NEW i \in 1..Len(t), NEW j \in 1..Len(t),
                    OfCommit(t[i]), OfCommit(t[j]), t[i].rev = t[j].rev
             PROVE  i = j
  BY DEF OneEach
<1>1. (i \in 1..Len(q) /\ t[i] = q[i]) \/ i \in Fresh(q, t)
  BY OldOrFresh
<1>2. (j \in 1..Len(q) /\ t[j] = q[j]) \/ j \in Fresh(q, t)
  BY OldOrFresh
<1>3. CASE (i \in 1..Len(q) /\ t[i] = q[i]) /\ (j \in 1..Len(q) /\ t[j] = q[j])
  BY <1>3 DEF OneEach
<1>4. CASE (i \in 1..Len(q) /\ t[i] = q[i]) /\ j \in Fresh(q, t)
  <2>1. q[i].rev = n + 1 /\ q[i].rev \in Nat /\ q[i].rev <= n
    BY <1>4
  <2> QED BY <2>1
<1>5. CASE i \in Fresh(q, t) /\ (j \in 1..Len(q) /\ t[j] = q[j])
  <2>1. q[j].rev = n + 1 /\ q[j].rev \in Nat /\ q[j].rev <= n
    BY <1>5
  <2> QED BY <2>1
<1>6. CASE i \in Fresh(q, t) /\ j \in Fresh(q, t)
  BY <1>6
<1> QED BY <1>1, <1>2, <1>3, <1>4, <1>5, <1>6

\* What comes still comes when more is put behind it.
LEMMA ComingGrow ==
    ASSUME NEW q, NEW t, NEW r, NEW u, NEW m, Grows(q, t), Grows(r, u), Coming(q, r, m)
    PROVE  Coming(t, u, m)
<1>1. \A i \in 1..Len(q) : i \in 1..Len(t) /\ t[i] = q[i]
  BY DEF Grows
<1>2. \A i \in 1..Len(r) : i \in 1..Len(u) /\ u[i] = r[i]
  BY DEF Grows
<1> QED BY <1>1, <1>2 DEF Coming

\* It comes still when the server takes a request that is no operation.
LEMMA ComingTake ==
    ASSUME NEW q, NEW r \in Seq(Requests), NEW u, NEW m, Shorter(r, u),
           r[1].kind # "op", Coming(q, r, m)
    PROVE  Coming(q, u, m)
<1>1. CASE \E i \in 1..Len(q) : q[i].kind = "applied" /\ q[i].rev > m
  BY <1>1 DEF Coming
<1>2. CASE \E i \in 1..Len(r) : r[i].kind = "op"
  <2>1. PICK i \in 1..Len(r) : r[i].kind = "op"
    BY <1>2
  <2>2. i # 1
    BY <2>1
  <2>3. i - 1 \in 1..Len(u) /\ (i - 1) + 1 = i
    BY <2>2 DEF Shorter
  <2>4. u[i - 1] = r[i]
    BY <2>3 DEF Shorter
  <2> QED BY <2>1, <2>3, <2>4 DEF Coming
<1> QED BY <1>1, <1>2 DEF Coming

\* A window that will be told is still told when more is put behind it.
LEMMA TellingGrow ==
    ASSUME NEW q, NEW t, NEW r, NEW u, NEW m, NEW n, Grows(q, t), Grows(r, u),
           Telling(q, r, m, n)
    PROVE  Telling(t, u, m, n)
<1>1. \A i \in 1..Len(q) : i \in 1..Len(t) /\ t[i] = q[i]
  BY DEF Grows
<1>2. \A i \in 1..Len(r) : i \in 1..Len(u) /\ u[i] = r[i]
  BY DEF Grows
<1> QED BY <1>1, <1>2 DEF Telling

\* It is told when the server takes a request that is no load, too.
LEMMA TellingTake ==
    ASSUME NEW q, NEW r \in Seq(Requests), NEW u, NEW m, NEW n, Shorter(r, u),
           r[1].kind # "get", Telling(q, r, m, n)
    PROVE  Telling(q, u, m, n)
<1>1. CASE m = n \/ \E i \in 1..Len(q) : q[i].rev = n /\ q[i].kind # "refused"
  BY <1>1 DEF Telling
<1>2. CASE \E i \in 1..Len(r) : r[i].kind = "get"
  <2>1. PICK i \in 1..Len(r) : r[i].kind = "get"
    BY <1>2
  <2>2. i # 1
    BY <2>1
  <2>3. i - 1 \in 1..Len(u) /\ (i - 1) + 1 = i
    BY <2>2 DEF Shorter
  <2>4. u[i - 1] = r[i]
    BY <2>3 DEF Shorter
  <2> QED BY <2>1, <2>3, <2>4 DEF Telling
<1> QED BY <1>1, <1>2 DEF Telling

\* One message out of a list: where the others go, and where they were.
LEMMA Shifted ==
    ASSUME NEW q, NEW t, NEW i, Len(q) \in Nat, Without(q, i, t)
    PROVE  /\ \A j \in 1..Len(t) : \E k \in 1..Len(q) \ {i} :
                 t[j] = q[k] /\ k = IF j < i THEN j ELSE j + 1
           /\ \A k \in 1..Len(q) \ {i} : \E j \in 1..Len(t) : t[j] = q[k]
<1>1. /\ i \in 1..Len(q) /\ Len(t) = Len(q) - 1 /\ Len(q) \in Nat
      /\ \A j \in 1..Len(t) : t[j] = IF j < i THEN q[j] ELSE q[j + 1]
  BY DEF Without
<1>2. ASSUME NEW j \in 1..Len(t)
      PROVE  \E k \in 1..Len(q) \ {i} : t[j] = q[k] /\ k = IF j < i THEN j ELSE j + 1
  <2>1. CASE j < i
    <3>1. j \in 1..Len(q) \ {i} /\ t[j] = q[j]
      BY <1>1, <2>1
    <3> QED BY <2>1, <3>1
  <2>2. CASE ~(j < i)
    <3>1. j + 1 \in 1..Len(q) \ {i} /\ t[j] = q[j + 1]
      BY <1>1, <2>2
    <3> QED BY <2>2, <3>1
  <2> QED BY <2>1, <2>2
<1>3. ASSUME NEW k \in 1..Len(q) \ {i} PROVE \E j \in 1..Len(t) : t[j] = q[k]
  <2>1. CASE k < i
    <3>1. k \in 1..Len(t) /\ t[k] = q[k]
      BY <1>1, <2>1
    <3> QED BY <3>1
  <2>2. CASE ~(k < i)
    <3>1. k - 1 \in 1..Len(t) /\ ~(k - 1 < i) /\ (k - 1) + 1 = k
      BY <1>1, <2>2
    <3>2. t[k - 1] = q[k]
      BY <1>1, <3>1
    <3> QED BY <3>1, <3>2
  <2> QED BY <2>1, <2>2
<1> QED BY <1>2, <1>3

\* The answers that are left have their patches, if it settled none of them.
LEMMA EchoesShrink ==
    ASSUME NEW H, NEW q, NEW t, NEW i, NEW F, NEW G, Len(q) \in Nat, Without(q, i, t),
           Echoes(H, q, F),
           \A k \in 1..Len(q) \ {i} : \A s \in F :
               q[k].kind = "updated" /\ s.id = q[k].id => s \in G
    PROVE  Echoes(H, t, G)
<1> SUFFICES ASSUME NEW j \in 1..Len(t), t[j].kind = "updated"
             PROVE  /\ t[j].rev > 1
                    /\ \E s \in G : /\ s.id = t[j].id
                                    /\ t[j].doc = Over(H[t[j].rev - 1], s.patch)
  BY DEF Echoes
<1>1. PICK k \in 1..Len(q) \ {i} : t[j] = q[k]
  BY Shifted
<1>2. q[k].rev > 1 /\ \E s \in F : /\ s.id = q[k].id
                                  /\ q[k].doc = Over(H[q[k].rev - 1], s.patch)
  BY <1>1 DEF Echoes
<1>3. PICK s \in F : s.id = q[k].id /\ q[k].doc = Over(H[q[k].rev - 1], s.patch)
  BY <1>2
<1>4. s \in G
  BY <1>1, <1>3
<1> QED BY <1>1, <1>2, <1>3, <1>4

\* The window's own broadcasts above the watermark (n) have their answers still.
LEMMA AnsweredShrink ==
    ASSUME NEW w, NEW q, NEW t, NEW i, NEW m \in Nat, NEW n \in Nat, Len(q) \in Nat,
           Without(q, i, t), Answered(w, q, m), m <= n,
           \A k \in 1..Len(q) : q[k].rev \in Nat,
           q[i].kind = "updated" => q[i].rev <= n
    PROVE  Answered(w, t, n)
<1> SUFFICES ASSUME NEW j \in 1..Len(t), t[j].kind = "changed", t[j].origin = w,
                    t[j].rev > n
             PROVE  \E l \in 1..Len(t) : t[l].kind = "updated" /\ t[l].rev = t[j].rev
  BY DEF Answered
<1>1. PICK k \in 1..Len(q) \ {i} : t[j] = q[k]
  BY Shifted
<1>2. q[k].rev \in Nat /\ q[k].rev > m
  BY <1>1
<1>3. PICK l \in 1..Len(q) : q[l].kind = "updated" /\ q[l].rev = q[k].rev
  BY <1>1, <1>2 DEF Answered
<1>4. l # i
  BY <1>1, <1>2, <1>3
<1>5. PICK p \in 1..Len(t) : t[p] = q[l]
  BY <1>4, Shifted
<1> QED BY <1>1, <1>3, <1>5

\* A commit has no second answer among those that are left.
LEMMA OneEachShrink ==
    ASSUME NEW q, NEW t, NEW i, Len(q) \in Nat, Without(q, i, t), OneEach(q)
    PROVE  OneEach(t)
<1> SUFFICES ASSUME NEW j \in 1..Len(t), NEW l \in 1..Len(t),
                    OfCommit(t[j]), OfCommit(t[l]), t[j].rev = t[l].rev
             PROVE  j = l
  BY DEF OneEach
<1>1. PICK k \in 1..Len(q) \ {i} : t[j] = q[k] /\ k = IF j < i THEN j ELSE j + 1
  BY Shifted
<1>2. PICK p \in 1..Len(q) \ {i} : t[l] = q[p] /\ p = IF l < i THEN l ELSE l + 1
  BY Shifted
<1>3. k = p
  BY <1>1, <1>2 DEF OneEach
<1>4. i \in Int /\ j \in Int /\ l \in Int
  BY DEF Without
<1> QED BY <1>1, <1>2, <1>3, <1>4

\* What comes still comes if what was heard is not it, nor what moves the
\* watermark over it.
LEMMA ComingShrink ==
    ASSUME NEW q, NEW t, NEW r, NEW i, NEW m, NEW n, Len(q) \in Nat, Without(q, i, t),
           Coming(q, r, m), ~(q[i].kind = "applied" /\ q[i].rev > m),
           \A k \in 1..Len(q) \ {i} : q[k].kind = "applied" /\ q[k].rev > m => q[k].rev > n
    PROVE  Coming(t, r, n)
<1>1. CASE \E j \in 1..Len(r) : r[j].kind = "op"
  BY <1>1 DEF Coming
<1>2. CASE \E k \in 1..Len(q) : q[k].kind = "applied" /\ q[k].rev > m
  <2>1. PICK k \in 1..Len(q) \ {i} : q[k].kind = "applied" /\ q[k].rev > m
    BY <1>2
  <2>2. PICK j \in 1..Len(t) : t[j] = q[k]
    BY Shifted
  <2> QED BY <2>1, <2>2 DEF Coming
<1> QED BY <1>1, <1>2 DEF Coming

\* Who hears of the last revision has it for the watermark.
LEMMA TellingShrink ==
    ASSUME NEW q, NEW t, NEW r, NEW i, NEW m, NEW n, NEW l, Len(q) \in Nat,
           Without(q, i, t), Telling(q, r, m, l), m = l => n = l,
           q[i].rev = l /\ q[i].kind # "refused" => n = l
    PROVE  Telling(t, r, n, l)
<1>1. CASE m = l \/ \E j \in 1..Len(r) : r[j].kind = "get"
  BY <1>1 DEF Telling
<1>2. CASE \E k \in 1..Len(q) : q[k].rev = l /\ q[k].kind # "refused"
  <2>1. PICK k \in 1..Len(q) : q[k].rev = l /\ q[k].kind # "refused"
    BY <1>2
  <2>2. CASE k = i
    BY <2>1, <2>2 DEF Telling
  <2>3. CASE k # i
    <3>1. PICK j \in 1..Len(t) : t[j] = q[k]
      BY <2>3, Shifted
    <3> QED BY <2>1, <3>1 DEF Telling
  <2> QED BY <2>2, <2>3
<1> QED BY <1>1, <1>2 DEF Telling

-----------------------------------------------------------------------------
(* The windows that are marked.                                             *)

\* The inbox of a window that hears gets shorter.
LEMMA HeardShorter ==
    ASSUME LinkTypes, NEW v \in Windows, NEW i \in DOMAIN inbox[v], Heard(v, i)
    PROVE  /\ i \in 1..Len(inbox[v]) /\ Len(inbox'[v]) = Len(inbox[v]) - 1
           /\ \A j \in 1..(Len(inbox[v]) - 1) :
                inbox'[v][j] = IF j < i THEN inbox[v][j] ELSE inbox[v][j + 1]
<1>1. inbox' = [inbox EXCEPT ![v] = RemoveAt(inbox[v], i)]
  BY DEF Heard
<1>2. inbox[v] \in Seq(Snapshots) /\ i \in 1..Len(inbox[v]) /\ v \in DOMAIN inbox
  BY DEF LinkTypes
<1>3. inbox'[v] = RemoveAt(inbox[v], i)
  BY <1>1, <1>2
<1> QED BY <1>2, <1>3, Removed

\* A window that hears nothing is marked if it was.
LEMMA NotHeard ==
    ASSUME LinkTypes, NoteCrossings, NEW v \in Windows, Grows(inbox[v], inbox'[v])
    PROVE  v \in crossed => v \in crossed'
<1>1. ASSUME NEW i \in DOMAIN inbox[v], Heard(v, i) PROVE FALSE
  <2>1. Len(inbox'[v]) = Len(inbox[v]) - 1
    BY <1>1, HeardShorter
  <2> QED BY <2>1 DEF Grows
<1> QED BY <1>1 DEF NoteCrossings

\* Two messages of one channel are not heard at once, even if they are the same.
LEMMA OneIsHeard ==
    ASSUME LinkTypes, TwoChannels, NEW w \in Windows, NEW i \in DOMAIN inbox[w],
           NEW j \in DOMAIN inbox[w], Heard(w, i), Heard(w, j)
    PROVE  i = j
<1>1. ASSUME NEW k \in DOMAIN inbox[w], NEW l \in DOMAIN inbox[w],
             Heard(w, k), Heard(w, l), k < l
      PROVE  FALSE
  <2>1. /\ k \in 1..Len(inbox[w]) /\ Len(inbox'[w]) = Len(inbox[w]) - 1
        /\ \A p \in 1..(Len(inbox[w]) - 1) :
             inbox'[w][p] = IF p < k THEN inbox[w][p] ELSE inbox[w][p + 1]
    BY <1>1, HeardShorter
  <2>2. /\ l \in 1..Len(inbox[w])
        /\ \A p \in 1..(Len(inbox[w]) - 1) :
             inbox'[w][p] = IF p < l THEN inbox[w][p] ELSE inbox[w][p + 1]
    BY <1>1, HeardShorter
  <2>3. Len(inbox[w]) \in Nat
    <3>1. inbox[w] \in Seq(Snapshots)
      BY DEF LinkTypes
    <3> QED BY <3>1
  <2>4. /\ l - 1 \in 1..(Len(inbox[w]) - 1) /\ l - 1 < l /\ ~(l - 1 < k)
        /\ (l - 1) + 1 = l /\ l # 1
    BY <1>1, <2>1, <2>2, <2>3
  <2>5. inbox[w][l - 1] = inbox[w][l]
    BY <2>1, <2>2, <2>4
  <2>6. \A p \in 1..(l - 1) : ~Alike(inbox[w][l], inbox[w][p])
    BY <1>1, <2>4 DEF Heard, TwoChannels
  <2>7. l - 1 \in 1..(l - 1)
    BY <2>2, <2>4
  <2> QED BY <2>5, <2>6, <2>7 DEF Alike
<1>2. i \in Int /\ j \in Int
  BY HeardShorter
<1> QED BY <1>1, <1>2

\* A window is not marked after it heard x only if x did not cross and, unless x
\* was drawn, it was not marked before.
LEMMA MarkedBefore ==
    ASSUME LinkTypes, TwoChannels, NoteCrossings, NEW w \in Windows, NEW i \in DOMAIN inbox[w],
           Heard(w, i), w \notin crossed'
    PROVE  ~Crosses(w, inbox[w][i]) /\ (w \in crossed => Heals(w, inbox[w][i]))
<1>1. ~Crosses(w, inbox[w][i])
  BY DEF NoteCrossings
<1>2. ASSUME w \in crossed PROVE Heals(w, inbox[w][i])
  <2>1. PICK j \in DOMAIN inbox[w] : Heard(w, j) /\ Heals(w, inbox[w][j])
    BY <1>2 DEF NoteCrossings
  <2> QED BY <2>1, OneIsHeard
<1> QED BY <1>1, <1>2

-----------------------------------------------------------------------------
(* Agreement through the steps of a person and of an outbox.                *)

\* A window that was marked still is.
Kept(v) == v \in crossed => v \in crossed'

\* An operation that is asked for will be drawn.
LEMMA ComingOp ==
    ASSUME NEW q, NEW r \in Seq(Requests), NEW m, NEW x \in Requests, x.kind = "op"
    PROVE  Coming(q, Append(r, x), m)
<1>1. /\ Len(r) + 1 \in 1..Len(Append(r, x))
      /\ Append(r, x)[Len(r) + 1] = x
  OBVIOUS
<1> QED BY <1>1 DEF Coming

\* The window shows what it showed, and still expects what it expected.
LEMMA AgreesStay ==
    ASSUME NEW H, NEW G, NEW w \in Windows, Agrees(H, w), mark'[w] = mark[w], Kept(w),
           mark[w] > 0 => G[mark[w]] = H[mark[w]],
           \A k \in Fields : Unconfirmed(w)'[k] = None =>
             Unconfirmed(w)[k] = None /\ shown'[w][k] = shown[w][k],
           Coming(inbox[w], sent[w], mark[w]) => Coming(inbox'[w], sent'[w], mark[w]),
           \A k \in Maps : \/ shown'[w][k] = shown[w][k]
                           \/ Coming(inbox'[w], sent'[w], mark[w])
    PROVE  Agrees(G, w)'
  BY DEF Agrees, Kept

\* What a person draws is a document.
DrawsOver(w) ==
    \/ UNCHANGED shown
    \/ \E base, patch : shown' = [shown EXCEPT ![w] = Over(base, patch)]
    \/ \E k, a : shown' = [shown EXCEPT ![w][k] = a]

\* A screen stays a document.
LEMMA DrawnNext ==
    ASSUME IInv, Drawn, NEW w \in Windows, DrawsOver(w)
    PROVE  Drawn'
<1>1. DOMAIN shown = Windows
  BY DEF IInv, ScreenShape
<1>2. CASE UNCHANGED shown
  BY <1>2 DEF Drawn
<1>3. CASE \E base, patch : shown' = [shown EXCEPT ![w] = Over(base, patch)]
  <2>1. PICK base, patch : shown' = [shown EXCEPT ![w] = Over(base, patch)]
    BY <1>3
  <2>2. \A v \in Windows : shown'[v] = IF v = w THEN Over(base, patch) ELSE shown[v]
    BY <1>1, <2>1
  <2>3. Over(base, patch) = [k \in Keys |-> Over(base, patch)[k]]
    BY DEF Over
  <2> QED BY <2>2, <2>3 DEF Drawn
<1>4. CASE \E k, a : shown' = [shown EXCEPT ![w][k] = a]
  <2>1. PICK k, a : shown' = [shown EXCEPT ![w][k] = a]
    BY <1>4
  <2>2. \A v \in Windows :
          shown'[v] = IF v = w THEN [shown[w] EXCEPT ![k] = a] ELSE shown[v]
    BY <1>1, <2>1
  <2>3. shown[w] = [j \in Keys |-> shown[w][j]]
    BY DEF Drawn
  <2>4. [shown[w] EXCEPT ![k] = a] = [j \in Keys |-> [shown[w] EXCEPT ![k] = a][j]]
    BY <2>3
  <2> QED BY <2>2, <2>4 DEF Drawn
<1> QED BY <1>2, <1>3, <1>4 DEF DrawsOver

\* A step that reaches no inbox keeps the agreement.
LEMMA AskAgrees ==
    ASSUME LinkTypes, ToldInv, AgreeInv, UNCHANGED <<doc, rev, mark, inbox>>, Drawn',
           \A v \in Windows : Kept(v),
           \A v \in Windows : sent'[v] = sent[v]
                              \/ \E r \in Requests : sent'[v] = Append(sent[v], r),
           \A v \in Windows : inFlight[v] \subseteq inFlight'[v],
           \A v \in Windows, k \in Fields : Unconfirmed(v)'[k] = None =>
             Unconfirmed(v)[k] = None /\ shown'[v][k] = shown[v][k],
           \A v \in Windows, k \in Maps :
             \/ shown'[v][k] = shown[v][k]
             \/ \E r \in Requests : r.kind = "op" /\ sent'[v] = Append(sent[v], r)
    PROVE  ToldInv' /\ AgreeInv'
<1>1. ASSUME NEW v \in Windows
      PROVE  /\ Grows(inbox[v], inbox'[v]) /\ Grows(sent[v], sent'[v])
             /\ Fresh(inbox[v], inbox'[v]) = {}
  <2>1. inbox[v] \in Seq(Snapshots) /\ sent[v] \in Seq(Requests)
    BY DEF LinkTypes
  <2>2. Grows(inbox[v], inbox'[v]) /\ Fresh(inbox[v], inbox'[v]) = {}
    BY <2>1 DEF Grows, Fresh
  <2>3. CASE sent'[v] = sent[v]
    BY <2>1, <2>2, <2>3 DEF Grows
  <2>4. CASE \E r \in Requests : sent'[v] = Append(sent[v], r)
    BY <2>1, <2>2, <2>4, GrowsByAppend
  <2> QED BY <2>3, <2>4
<1>2. ToldInv'
  <2>1. ASSUME NEW v \in Windows PROVE Told(v)'
    BY <1>1, TellingGrow DEF ToldInv, Told
  <2> QED BY <2>1 DEF ToldInv
<1>3. PICK H : Past(H) /\ Snapped(H) /\ \A v \in Windows : InAgreement(H, v)
  BY DEF AgreeInv
<1>4. Past(H)' /\ Snapped(H)'
  BY <1>3 DEF Past, Snapped
<1>5. ASSUME NEW v \in Windows PROVE InAgreement(H, v)'
  <2>1. /\ Echoes(H, inbox[v], inFlight[v]) /\ Answered(v, inbox[v], mark[v])
        /\ OneEach(inbox[v]) /\ Agrees(H, v) /\ mark'[v] = mark[v]
        /\ inbox'[v] = inbox[v]
    BY <1>3 DEF InAgreement
  <2>2. Echoes(H, inbox'[v], inFlight'[v])
    BY <1>1, <2>1, EchoesGrow
  <2>3. sent[v] \in Seq(Requests)
    BY DEF LinkTypes
  <2>4. Coming(inbox[v], sent[v], mark[v]) => Coming(inbox'[v], sent'[v], mark[v])
    BY <1>1, ComingGrow
  <2>5. \A k \in Maps : \/ shown'[v][k] = shown[v][k]
                        \/ Coming(inbox'[v], sent'[v], mark[v])
    BY <2>3, ComingOp
  <2>6. Agrees(H, v)'
    BY <2>1, <2>4, <2>5, AgreesStay
  <2> QED BY <2>1, <2>2, <2>6 DEF InAgreement
<1> QED BY <1>2, <1>4, <1>5 DEF AgreeInv

\* A request with a new act keeps the agreement.
LEMMA RequestAgrees ==
    ASSUME Step, \A v \in Windows : Kept(v), ToldInv, AgreeInv, NEW w \in Windows, NEW r, NewRequest(r), Send(w, r),
           UNCHANGED <<server, outbox, mark, inbox>>, DrawsOver(w),
           \A v \in Windows, k \in Fields : shown'[v][k] = shown[v][k],
           UNCHANGED shown \/ (r.kind = "op" /\
             \A v \in Windows, k \in Maps : v # w => shown'[v][k] = shown[v][k])
    PROVE  ToldInv' /\ AgreeInv'
<1>1. LinkTypes /\ IInv /\ Drawn
  BY DEF Step, LinksInv, ToldInv
<1>2. Asks(w, r) /\ r \in Requests
  BY <1>1, SendAsks DEF NewRequest
<1>3. UNCHANGED <<doc, rev, mark, inbox, pending, inFlight>>
  BY DEF server, outbox
<1>4. \A v \in Windows : Unconfirmed(v)' = Unconfirmed(v)
  BY <1>3, OverlayStays
<1>5. Drawn'
  BY <1>1, DrawnNext
<1>6. \A v \in Windows : sent'[v] = sent[v] \/ sent'[v] = Append(sent[v], r)
  BY <1>2 DEF Asks
<1>7. ASSUME NEW v \in Windows, NEW k \in Maps
      PROVE  \/ shown'[v][k] = shown[v][k]
             \/ \E q \in Requests : q.kind = "op" /\ sent'[v] = Append(sent[v], q)
  BY <1>2, <1>6 DEF Asks
<1> QED BY <1>1, <1>2, <1>3, <1>4, <1>5, <1>6, <1>7, AskAgrees

\* Every act of a person keeps the agreement.
LEMMA ActingAgrees ==
    ASSUME Step, \A v \in Windows : Kept(v), ToldInv, AgreeInv, NEW w \in Windows, Acting(w)
    PROVE  ToldInv' /\ AgreeInv'
<1>1. LinkTypes /\ IInv /\ IInv' /\ Drawn /\ DOMAIN shown = Windows
  BY DEF Step, LinksInv, ToldInv, IInv, ScreenShape
<1>2. ASSUME NEW k \in Fields, Edit(w, k) PROVE ToldInv' /\ AgreeInv'
  <2>1. /\ UNCHANGED <<doc, rev, mark, inbox, sent, inFlight>>
        /\ shown' = [shown EXCEPT ![w] = Over(@, [Empty EXCEPT ![k] = acts'])]
        /\ acts' = acts + 1 /\ acts < MaxActs
    BY <1>2 DEF Edit, server, links
  <2>2. DrawsOver(w)
    BY <2>1 DEF DrawsOver
  <2>3. Drawn'
    BY <1>1, <2>2, DrawnNext
  <2>4. acts + 1 # None
    BY <2>1, NewAct, NoneIsNoAct DEF Step, LinksInv
  <2>5. \A v \in Windows, j \in Fields : Unconfirmed(v)'[j] = None =>
          Unconfirmed(v)[j] = None /\ (v # w \/ j # k)
    BY <1>1, <1>2, <2>4, OverlayEdit
  <2>6. \A j \in Keys : j # k =>
          Over(shown[w], [Empty EXCEPT ![k] = acts'])[j] = shown[w][j]
    BY DEF Over, Empty
  <2>7. \A v \in Windows, j \in Keys : v # w \/ j # k => shown'[v][j] = shown[v][j]
    BY <1>1, <2>1, <2>6
  <2>8. \A v \in Windows, j \in Maps : shown'[v][j] = shown[v][j]
    BY <2>7, KeysAssumption DEF Keys
  <2>9. \A v \in Windows, j \in Fields : Unconfirmed(v)'[j] = None =>
          Unconfirmed(v)[j] = None /\ shown'[v][j] = shown[v][j]
    BY <2>5, <2>7 DEF Keys
  <2> QED BY <1>1, <2>1, <2>3, <2>8, <2>9, AskAgrees
<1>3. ASSUME NEW k \in Maps, Silence(w, k) PROVE ToldInv' /\ AgreeInv'
  <2>1. NewRequest(Request("op", 0, Empty, k, acts'))
    BY <1>1, <1>3, NewRequests DEF Silence
  <2>2. /\ Send(w, Request("op", 0, Empty, k, acts'))
        /\ UNCHANGED <<server, outbox, mark, inbox, shown>>
    BY <1>3 DEF Silence, screens
  <2>3. DrawsOver(w)
    BY <2>2 DEF DrawsOver
  <2> QED BY <2>1, <2>2, <2>3, RequestAgrees
<1>4. ASSUME NEW k \in Maps, Rearrange(w, k) PROVE ToldInv' /\ AgreeInv'
  <2>1. NewRequest(Request("op", 0, Empty, k, acts'))
    BY <1>1, <1>4, NewRequests DEF Rearrange
  <2>2. /\ Send(w, Request("op", 0, Empty, k, acts'))
        /\ UNCHANGED <<server, outbox, mark, inbox>>
        /\ shown' = [shown EXCEPT ![w][k] = acts']
    BY <1>4 DEF Rearrange
  <2>3. DrawsOver(w)
    BY <2>2 DEF DrawsOver
  <2>4. \A v \in Windows, j \in Fields : shown'[v][j] = shown[v][j]
    BY <1>1, <2>2, KeysAssumption
  <2>5. \A v \in Windows, j \in Maps : v # w => shown'[v][j] = shown[v][j]
    BY <1>1, <2>2
  <2>6. Request("op", 0, Empty, k, acts').kind = "op"
    BY DEF Request
  <2> QED BY <2>1, <2>2, <2>3, <2>4, <2>5, <2>6, RequestAgrees
<1>5. ASSUME Reset(w) PROVE ToldInv' /\ AgreeInv'
  <2>1. NewRequest(Request("reset", 0, Empty, "none", acts'))
    BY <1>1, <1>5, NewRequests DEF Reset
  <2>2. /\ Send(w, Request("reset", 0, Empty, "none", acts'))
        /\ UNCHANGED <<server, outbox, mark, inbox, shown>>
    BY <1>5 DEF Reset, screens
  <2>3. DrawsOver(w)
    BY <2>2 DEF DrawsOver
  <2> QED BY <2>1, <2>2, <2>3, RequestAgrees
<1> QED BY <1>2, <1>3, <1>4, <1>5 DEF Acting

\* The timer that sends the outbox keeps the agreement.
LEMMA SendAgrees ==
    ASSUME Step, \A v \in Windows : Kept(v), ToldInv, AgreeInv, NEW w \in Windows, SendPending(w)
    PROVE  ToldInv' /\ AgreeInv'
<1> DEFINE r == Request("update", nextId[w], pending[w], "none", 0)
<1>1. LinkTypes /\ IInv /\ IInv' /\ Drawn /\ OutboxTypeOK
  BY DEF Step, LinksInv, ToldInv, IInv
<1>2. r \in Requests
  BY <1>1, BoundsAssumption DEF OutboxTypeOK, Requests, Request, Values
<1>3. UNCHANGED <<doc, rev, mark, inbox, shown>> /\ Send(w, r)
  BY DEF SendPending, server, screens
<1>4. \A v \in Windows : inFlight[v] \subseteq inFlight'[v]
  BY <1>1 DEF SendPending, OutboxTypeOK
<1>5. Asks(w, r)
  BY <1>1, <1>2, <1>3, SendAsks
<1>6. \A v \in Windows :
        sent'[v] = sent[v] \/ \E q \in Requests : sent'[v] = Append(sent[v], q)
  BY <1>2, <1>5 DEF Asks
<1>7. \A v \in Windows, j \in Fields : Unconfirmed(v)'[j] = Unconfirmed(v)[j]
  BY <1>1, OverlaySend
<1>8. Drawn'
  BY <1>1, <1>3 DEF Drawn
<1> HIDE DEF r
<1> QED BY <1>1, <1>3, <1>4, <1>6, <1>7, <1>8, AskAgrees

-----------------------------------------------------------------------------
(* Agreement through the steps of the server.                               *)

\* A window to which nothing happens.
LEMMA LeftAlone ==
    ASSUME LinkTypes, NEW H, NEW v \in Windows, Told(v), InAgreement(H, v), Kept(v),
           inbox'[v] = inbox[v], sent'[v] = sent[v], inFlight'[v] = inFlight[v],
           mark'[v] = mark[v], shown'[v] = shown[v], rev' = rev,
           \A k \in Fields : Unconfirmed(v)'[k] = Unconfirmed(v)[k]
    PROVE  Told(v)' /\ InAgreement(H, v)'
<1>1. Told(v)'
  BY DEF Told
<1>2. Agrees(H, v)'
  BY AgreesStay DEF InAgreement
<1> QED BY <1>1, <1>2 DEF InAgreement

\* What a step of the server leaves in the links of the windows, and who is marked.
LEMMA InboxesGrow ==
    ASSUME LinkTypes, NoteCrossings,
           \A v \in Windows : Grows(inbox[v], inbox'[v])
    PROVE  \A v \in Windows : Kept(v)
  BY NotHeard DEF Kept

\* No message has a revision that was not committed.
LEMMA RevsUpTo ==
    ASSUME LinkTypes, NEW H, Snapped(H), NEW v \in Windows
    PROVE  /\ rev \in Nat /\ Len(inbox[v]) \in Nat
           /\ \A i \in 1..Len(inbox[v]) :
                inbox[v][i].rev \in Nat /\ inbox[v][i].rev <= rev
<1>1. inbox[v] \in Seq(Snapshots) /\ rev \in Nat
  BY DEF LinkTypes
<1>2. ASSUME NEW i \in 1..Len(inbox[v])
      PROVE  inbox[v][i].rev \in Nat /\ inbox[v][i].rev <= rev
  <2>1. inbox[v][i] \in Snapshots
    BY <1>1
  <2> QED BY <2>1 DEF Snapshots, Snapped
<1> QED BY <1>1, <1>2

\* An answer without a commit keeps the agreement.
LEMMA ReplyAgrees ==
    ASSUME Step, InOrder, NoteCrossings, ToldInv, AgreeInv, NEW w \in Windows,
           NEW kind \in {"got", "refused"}, Replies(w, kind)
    PROVE  ToldInv' /\ AgreeInv'
<1> DEFINE x == Message(kind, 0, NoOne, doc, rev, pristine)
<1>1. LinkTypes /\ rev > 0 /\ rev \in Nat /\ Drawn
  BY DEF Step, LinksInv, LinkTypes, ToldInv
<1>2. Takes(w)
  BY <1>1, TookTakes DEF Replies
<1>3. Answers(w, x)
  BY <1>1, SaysAnswers DEF Replies
<1>4. x.kind = kind /\ x.doc = doc /\ x.rev = rev
  BY DEF Message
<1> HIDE DEF x
<1>5. /\ UNCHANGED <<doc, rev, pending, inFlight, shown, mark>>
      /\ sent[w][1].kind # "op" /\ (sent[w][1].kind = "get" => kind = "got")
  BY DEF Replies, server, outbox, screens
<1>6. \A v \in Windows : Unconfirmed(v)' = Unconfirmed(v)
  BY <1>5, OverlayStays
<1>7. PICK H : Past(H) /\ Snapped(H) /\ \A v \in Windows : InAgreement(H, v)
  BY DEF AgreeInv
<1>8. Past(H)' /\ Snapped(H)'
  <2>1. Past(H)'
    BY <1>5, <1>7 DEF Past
  <2>2. Snapped(H)'
    BY <1>1, <1>3, <1>4, <1>5, <1>7, SnappedAnswers
  <2> QED BY <2>1, <2>2
<1>9. /\ inbox[w] \in Seq(Snapshots) /\ sent[w] \in Seq(Requests)
      /\ sent'[w] \in Seq(Requests) /\ x \in Snapshots
      /\ inbox'[w] = Append(inbox[w], x) /\ Shorter(sent[w], sent'[w])
      /\ \A v \in Windows : v # w => inbox'[v] = inbox[v] /\ sent'[v] = sent[v]
  BY <1>1, <1>2, <1>3 DEF LinkTypes, Takes, Answers
<1>10. /\ Grows(inbox[w], inbox'[w]) /\ Fresh(inbox[w], inbox'[w]) = {Len(inbox[w]) + 1}
       /\ inbox'[w][Len(inbox[w]) + 1] = x
       /\ Grows(sent'[w], sent'[w])
  BY <1>9, GrowsByAppend DEF Grows
<1>11. \A v \in Windows : Kept(v)
  <2>1. ASSUME NEW v \in Windows, v # w PROVE Grows(inbox[v], inbox'[v])
    <3>1. inbox'[v] = inbox[v] /\ inbox[v] \in Seq(Snapshots)
      BY <1>1, <1>9, <2>1 DEF LinkTypes
    <3> QED BY <3>1 DEF Grows
  <2> QED BY <1>1, <1>10, <2>1, InboxesGrow
<1>12. ASSUME NEW v \in Windows, v # w PROVE Told(v)' /\ InAgreement(H, v)'
  <2>1. inbox'[v] = inbox[v] /\ sent'[v] = sent[v] /\ Told(v) /\ InAgreement(H, v)
    BY <1>7, <1>9, <1>12 DEF ToldInv
  <2> QED BY <1>1, <1>5, <1>6, <1>11, <2>1, LeftAlone
<1>13. Told(w)'
  <2>1. Telling(inbox[w], sent[w], mark[w], rev)
    BY DEF ToldInv, Told
  <2>2. CASE sent[w][1].kind = "get"
    <3>1. Len(inbox[w]) + 1 \in 1..Len(inbox'[w])
      BY <1>9
    <3> QED BY <1>4, <1>5, <1>10, <2>2, <3>1 DEF Told, Telling
  <2>3. CASE sent[w][1].kind # "get"
    <3>1. Telling(inbox[w], sent'[w], mark[w], rev)
      BY <1>9, <2>1, <2>3, TellingTake
    <3>2. Telling(inbox'[w], sent'[w], mark[w], rev)
      BY <1>10, <3>1, TellingGrow
    <3> QED BY <1>5, <3>2 DEF Told
  <2> QED BY <2>2, <2>3
<1>14. InAgreement(H, w)'
  <2>1. /\ Echoes(H, inbox[w], inFlight[w]) /\ Answered(w, inbox[w], mark[w])
        /\ OneEach(inbox[w]) /\ Agrees(H, w)
    BY <1>7 DEF InAgreement
  <2>2. x.kind # "changed" /\ x.kind # "updated" /\ ~OfCommit(x)
    BY <1>4 DEF OfCommit
  <2>3. Echoes(H, inbox'[w], inFlight'[w])
    BY <1>5, <1>10, <2>1, <2>2, EchoesGrow
  <2>4. Answered(w, inbox'[w], mark'[w])
    BY <1>5, <1>10, <2>1, <2>2, AnsweredGrow
  <2>5. OneEach(inbox'[w])
    <3>1. \A i \in 1..Len(inbox[w]) : inbox[w][i].rev \in Nat /\ inbox[w][i].rev <= rev
      BY <1>1, <1>7, RevsUpTo
    <3> QED BY <1>1, <1>10, <2>1, <2>2, <3>1, OneEachGrow
  <2>6. Coming(inbox[w], sent[w], mark[w]) => Coming(inbox'[w], sent'[w], mark[w])
    <3>1. Coming(inbox[w], sent[w], mark[w]) => Coming(inbox[w], sent'[w], mark[w])
      BY <1>5, <1>9, ComingTake
    <3> QED BY <1>10, <3>1, ComingGrow
  <2>7. Agrees(H, w)'
    BY <1>5, <1>6, <1>11, <2>1, <2>6, AgreesStay
  <2> QED BY <2>3, <2>4, <2>5, <2>7 DEF InAgreement
<1>15. Drawn'
  BY <1>1, <1>5 DEF Drawn
<1>16. ToldInv'
  BY <1>1, <1>5, <1>12, <1>13, <1>15 DEF ToldInv
<1> QED BY <1>8, <1>12, <1>14, <1>16 DEF AgreeInv

\* The past that a window's answers and its screen refer to is in every later one.
LEMMA PastGrows ==
    ASSUME LinkTypes, NEW H, NEW G, NEW new, Extends(G, H, new), Snapped(H),
           NEW v \in Windows, Echoes(H, inbox[v], inFlight[v])
    PROVE  /\ G[mark[v]] = H[mark[v]]
           /\ \A i \in 1..Len(inbox[v]) : inbox[v][i].kind = "updated" =>
                G[inbox[v][i].rev - 1] = H[inbox[v][i].rev - 1]
<1>1. rev \in Nat /\ mark[v] \in 0..rev
  BY DEF LinkTypes
<1>2. ASSUME NEW i \in 1..Len(inbox[v]), inbox[v][i].kind = "updated"
      PROVE  inbox[v][i].rev - 1 \in 0..rev
  <2>1. inbox[v][i].rev \in Nat /\ inbox[v][i].rev <= rev
    BY RevsUpTo
  <2>2. inbox[v][i].rev > 1
    BY <1>2 DEF Echoes
  <2> QED BY <1>1, <2>1, <2>2
<1> QED BY <1>1, <1>2 DEF Extends

\* A commit keeps the agreement: its answer finds the patch in flight, every window
\* is told of it, and the operation it was will be drawn.
LEMMA WriteAgrees ==
    ASSUME Step, InOrder, NoteCrossings, ToldInv, AgreeInv, NEW w \in Windows, NEW new, NEW did,
           NEW origin, NEW kind, NEW id, Writes(w, new, did, origin, kind, id)
    PROVE  ToldInv' /\ AgreeInv'
<1> DEFINE x == Message("changed", 0, origin, new, rev + 1, FALSE)
           y == Message(kind, id, NoOne, new, rev + 1, FALSE)
<1>1. /\ LinkTypes /\ rev > 0 /\ rev \in Nat /\ Drawn /\ InTurn(w)
      /\ mark \in [Windows -> Nat]
  BY DEF Step, LinksInv, LinkTypes, ToldInv
<1>2. Takes(w)
  BY <1>1, TookTakes DEF Writes
<1>3. Commits(w, new, did, x, y)
  <2>1. /\ new \in Docs /\ origin \in Windows \cup {NoOne}
        /\ kind \in {"updated", "applied"} /\ id \in Nat
        /\ CommitAs(w, new, did, origin, [kind |-> kind, id |-> id])
    BY DEF Writes
  <2> QED BY <1>1, <2>1, CommitAsCommits
<1>4. /\ x.kind = "changed" /\ x.origin = origin /\ x.rev = rev + 1 /\ ~OfCommit(x)
      /\ y.kind = kind /\ y.rev = rev + 1 /\ y.doc = new /\ y.id = id
  BY DEF Message, OfCommit
<1> HIDE DEF x, y
<1>5. /\ UNCHANGED <<pending, inFlight, shown, mark>> /\ rev' = rev + 1
      /\ sent[w][1].kind # "get"
      /\ \/ /\ kind = "applied" /\ origin = NoOne
         \/ /\ kind = "updated" /\ origin = w /\ sent[w][1].kind = "update"
            /\ id = sent[w][1].id /\ new = Over(doc, sent[w][1].patch)
  BY DEF Writes, outbox, screens, CommitAs
<1>6. \A v \in Windows : Unconfirmed(v)' = Unconfirmed(v)
  BY <1>5, OverlayStays
<1>7. PICK H : Past(H) /\ Snapped(H) /\ \A v \in Windows : InAgreement(H, v)
  BY DEF AgreeInv
<1>8. PICK G : Extends(G, H, new) /\ Past(G)' /\ Snapped(G)'
  BY <1>1, <1>3, <1>7, CommitPast
<1>9. /\ x \in Snapshots /\ y \in Snapshots /\ Shorter(sent[w], sent'[w])
      /\ inbox'[w] = Append(Append(inbox[w], x), y)
      /\ \A v \in Windows : v # w => inbox'[v] = Append(inbox[v], x) /\ sent'[v] = sent[v]
      /\ \A v \in Windows : /\ inbox[v] \in Seq(Snapshots) /\ Len(inbox[v]) \in Nat
                            /\ sent[v] \in Seq(Requests) /\ sent'[v] \in Seq(Requests)
  BY <1>1, <1>2, <1>3 DEF LinkTypes, Takes, Commits
\* Every window hears of the commit, and w has an answer to it besides.
<1>10. ASSUME NEW v \in Windows
       PROVE  /\ Grows(inbox[v], inbox'[v])
              /\ Len(inbox[v]) + 1 \in Fresh(inbox[v], inbox'[v])
              /\ Fresh(inbox[v], inbox'[v]) \subseteq 1..Len(inbox'[v])
              /\ inbox'[v][Len(inbox[v]) + 1] = x
              /\ IF v = w
                 THEN /\ Fresh(inbox[v], inbox'[v]) = {Len(inbox[v]) + 1, Len(inbox[v]) + 2}
                      /\ inbox'[v][Len(inbox[v]) + 2] = y
                 ELSE Fresh(inbox[v], inbox'[v]) = {Len(inbox[v]) + 1}
  <2>1. Fresh(inbox[v], inbox'[v]) \subseteq 1..Len(inbox'[v])
    BY <1>9 DEF Fresh
  <2>2. /\ inbox[v] \in Seq(Snapshots) /\ x \in Snapshots /\ y \in Snapshots
        /\ IF v = w THEN inbox'[v] = Append(Append(inbox[v], x), y)
                    ELSE inbox'[v] = Append(inbox[v], x)
    BY <1>9
  <2> DEFINE q == inbox[v]
  <2>3. /\ Grows(q, Append(q, x)) /\ Fresh(q, Append(q, x)) = {Len(q) + 1}
        /\ Append(q, x)[Len(q) + 1] = x
        /\ Grows(q, Append(Append(q, x), y))
        /\ Fresh(q, Append(Append(q, x), y)) = {Len(q) + 1, Len(q) + 2}
        /\ Append(Append(q, x), y)[Len(q) + 1] = x
        /\ Append(Append(q, x), y)[Len(q) + 2] = y
    BY <2>2, GrowsByAppend
  <2>4. CASE v = w
    BY <2>1, <2>2, <2>3, <2>4
  <2>5. CASE v # w
    BY <2>1, <2>2, <2>3, <2>5
  <2> QED BY <2>4, <2>5
<1>11. \A v \in Windows : Kept(v)
  BY <1>1, <1>10, InboxesGrow
<1>12. ASSUME NEW v \in Windows
       PROVE  /\ Echoes(H, inbox[v], inFlight[v]) /\ Answered(v, inbox[v], mark[v])
              /\ OneEach(inbox[v]) /\ Agrees(H, v)
              /\ G[mark[v]] = H[mark[v]]
              /\ \A i \in 1..Len(inbox[v]) : inbox[v][i].kind = "updated" =>
                   G[inbox[v][i].rev - 1] = H[inbox[v][i].rev - 1]
              /\ \A i \in 1..Len(inbox[v]) :
                   inbox[v][i].rev \in Nat /\ inbox[v][i].rev <= rev
  <2>1. /\ Echoes(H, inbox[v], inFlight[v]) /\ Answered(v, inbox[v], mark[v])
        /\ OneEach(inbox[v]) /\ Agrees(H, v)
    BY <1>7 DEF InAgreement
  <2> QED BY <1>1, <1>7, <1>8, <2>1, PastGrows, RevsUpTo
<1>13. ASSUME NEW v \in Windows PROVE Told(v)'
  <2>1. /\ Len(inbox[v]) + 1 \in 1..Len(inbox'[v])
        /\ inbox'[v][Len(inbox[v]) + 1] = x
    BY <1>10
  <2> QED BY <1>4, <1>5, <2>1 DEF Told, Telling
<1>14. ASSUME NEW v \in Windows, v # w PROVE InAgreement(G, v)'
  <2>1. \A i \in Fresh(inbox[v], inbox'[v]) : inbox'[v][i] = x
    BY <1>10, <1>14
  <2>2. x.kind # "updated" /\ x.origin # v
    BY <1>4, <1>5, <1>14, OriginAssumption
  <2>3. Echoes(G, inbox'[v], inFlight'[v])
    BY <1>5, <1>10, <1>12, <2>1, <2>2, EchoesGrow
  <2>4. Answered(v, inbox'[v], mark'[v])
    BY <1>5, <1>10, <1>12, <2>1, <2>2, AnsweredGrow
  <2>5. OneEach(inbox'[v])
    <3>1. \A i \in Fresh(inbox[v], inbox'[v]) : ~OfCommit(inbox'[v][i])
      BY <1>4, <2>1
    <3> QED BY <1>1, <1>10, <1>12, <3>1, OneEachGrow
  <2>6. Coming(inbox[v], sent[v], mark[v]) => Coming(inbox'[v], sent'[v], mark[v])
    <3>1. sent'[v] = sent[v] /\ Grows(sent[v], sent'[v])
      BY <1>9, <1>14 DEF Grows
    <3> QED BY <1>10, <3>1, ComingGrow
  <2>7. Agrees(G, v)'
    BY <1>5, <1>6, <1>11, <1>12, <2>6, AgreesStay
  <2> QED BY <2>3, <2>4, <2>5, <2>7 DEF InAgreement
<1>15. InAgreement(G, w)'
  <2>1. /\ \A i \in Fresh(inbox[w], inbox'[w]) :
             (i = Len(inbox[w]) + 1 /\ inbox'[w][i] = x)
             \/ (i = Len(inbox[w]) + 2 /\ inbox'[w][i] = y)
        /\ Len(inbox[w]) + 2 \in 1..Len(inbox'[w]) /\ inbox'[w][Len(inbox[w]) + 2] = y
    <3>1. Len(inbox[w]) + 2 \in Fresh(inbox[w], inbox'[w])
      BY <1>10
    <3> QED BY <1>10, <3>1
  <2>2. Echoes(G, inbox'[w], inFlight'[w])
    <3>1. ASSUME kind = "updated"
          PROVE  /\ y.rev > 1
                 /\ \E s \in inFlight[w] : s.id = y.id /\ y.doc = Over(G[y.rev - 1], s.patch)
      <4>1. /\ sent[w][1].kind = "update" /\ id = sent[w][1].id
            /\ new = Over(doc, sent[w][1].patch)
        BY <1>5, <3>1
      <4>2. 1 \in 1..Len(sent[w])
        BY <1>9 DEF Shorter
      <4> DEFINE s == [id |-> sent[w][1].id, patch |-> sent[w][1].patch]
      <4>3. s \in inFlight[w]
        BY <1>1, <4>1, <4>2 DEF InTurn, Underway
      <4>4. y.rev - 1 = rev /\ y.rev > 1 /\ G[rev] = doc
        BY <1>1, <1>4, <1>7, <1>8 DEF Extends, Past
      <4> QED BY <1>4, <4>1, <4>3, <4>4
    <3>2. \A i \in Fresh(inbox[w], inbox'[w]) : inbox'[w][i].kind = "updated" =>
            inbox'[w][i] = y /\ kind = "updated"
      BY <1>4, <2>1
    <3>3. inFlight'[w] = inFlight[w]
      BY <1>5
    <3> QED BY <1>10, <1>12, <3>1, <3>2, <3>3, EchoesGrow
  <2>3. Answered(w, inbox'[w], mark'[w])
    <3>1. ASSUME NEW i \in Fresh(inbox[w], inbox'[w]),
                 inbox'[w][i].kind = "changed", inbox'[w][i].origin = w
          PROVE  \E j \in 1..Len(inbox'[w]) :
                   inbox'[w][j].kind = "updated" /\ inbox'[w][j].rev = inbox'[w][i].rev
      <4>1. inbox'[w][i] = x
        BY <1>4, <1>5, <2>1, <3>1
      <4>2. kind = "updated"
        BY <1>4, <1>5, <3>1, <4>1, OriginAssumption
      <4> QED BY <1>4, <2>1, <4>1, <4>2
    <3>2. mark'[w] = mark[w]
      BY <1>5
    <3> QED BY <1>10, <1>12, <3>1, <3>2, AnsweredGrow
  <2>4. OneEach(inbox'[w])
    <3>1. \A i \in Fresh(inbox[w], inbox'[w]) : OfCommit(inbox'[w][i]) =>
            inbox'[w][i].rev = rev + 1 /\ i = Len(inbox[w]) + 2
      BY <1>4, <2>1
    <3>2. \A i, j \in Fresh(inbox[w], inbox'[w]) :
            OfCommit(inbox'[w][i]) /\ OfCommit(inbox'[w][j]) => i = j
      BY <3>1
    <3>3. /\ Grows(inbox[w], inbox'[w]) /\ OneEach(inbox[w])
          /\ \A i \in 1..Len(inbox[w]) :
               inbox[w][i].rev \in Nat /\ inbox[w][i].rev <= rev
      BY <1>10, <1>12
    <3> QED BY <1>1, <3>1, <3>2, <3>3, OneEachGrow
  <2>5. Coming(inbox[w], sent[w], mark[w]) => Coming(inbox'[w], sent'[w], mark[w])
    <3>1. CASE kind = "applied"
      <4>1. inbox'[w][Len(inbox[w]) + 2].kind = "applied"
            /\ inbox'[w][Len(inbox[w]) + 2].rev = rev + 1
        BY <1>4, <2>1, <3>1
      <4>2. rev + 1 > mark[w]
        BY <1>1 DEF LinkTypes
      <4> QED BY <2>1, <4>1, <4>2 DEF Coming
    <3>2. CASE kind = "updated"
      <4>1. sent[w][1].kind # "op"
        BY <1>5, <3>2
      <4>2. Coming(inbox[w], sent[w], mark[w]) => Coming(inbox[w], sent'[w], mark[w])
        BY <1>9, <4>1, ComingTake
      <4>3. Grows(sent'[w], sent'[w])
        BY <1>9 DEF Grows
      <4> QED BY <1>10, <4>2, <4>3, ComingGrow
    <3> QED BY <1>5, <3>1, <3>2
  <2>6. Agrees(G, w)'
    BY <1>5, <1>6, <1>11, <1>12, <2>5, AgreesStay
  <2> QED BY <2>2, <2>3, <2>4, <2>6 DEF InAgreement
<1>16. Drawn'
  BY <1>1, <1>5 DEF Drawn
<1>17. ToldInv'
  BY <1>1, <1>5, <1>13, <1>16 DEF ToldInv
<1> QED BY <1>8, <1>14, <1>15, <1>17 DEF AgreeInv

-----------------------------------------------------------------------------
(* Agreement through the steps that hear.                                   *)

\* Whatever is heard, the window is told of the rest.
LEMMA HearKeeps ==
    ASSUME LinkTypes, NEW H, Snapped(H), NEW w \in Windows, NEW i, Hears(w, i),
           UNCHANGED rev, Grows(sent[w], sent'[w]), Told(w),
           Answered(w, inbox[w], mark[w]), OneEach(inbox[w]),
           mark'[w] \in Nat, mark[w] <= mark'[w], mark'[w] <= rev,
           inbox[w][i].kind # "refused" => inbox[w][i].rev <= mark'[w]
    PROVE  Told(w)' /\ Answered(w, inbox'[w], mark'[w]) /\ OneEach(inbox'[w])
<1>1. /\ Without(inbox[w], i, inbox'[w]) /\ Len(inbox[w]) \in Nat /\ i \in 1..Len(inbox[w])
      /\ mark[w] \in Nat /\ rev \in Nat /\ mark[w] <= rev
      /\ \A k \in 1..Len(inbox[w]) : inbox[w][k].rev \in Nat /\ inbox[w][k].rev <= rev
  BY RevsUpTo DEF LinkTypes, Hears, Without
<1>2. Told(w)'
  <2>1. mark[w] = rev => mark'[w] = rev
    BY <1>1
  <2>2. inbox[w][i].rev = rev /\ inbox[w][i].kind # "refused" => mark'[w] = rev
    BY <1>1
  <2>3. Telling(inbox'[w], sent[w], mark'[w], rev)
    BY <1>1, <2>1, <2>2, TellingShrink DEF Told
  <2>4. Grows(inbox'[w], inbox'[w])
    BY <1>1 DEF Grows, Without
  <2> QED BY <2>3, <2>4, TellingGrow DEF Told
<1>3. Answered(w, inbox'[w], mark'[w])
  <2>1. inbox[w][i].kind = "updated" => inbox[w][i].rev <= mark'[w]
    OBVIOUS
  <2> QED BY <1>1, <2>1, AnsweredShrink
<1>4. OneEach(inbox'[w])
  BY <1>1, OneEachShrink
<1> QED BY <1>2, <1>3, <1>4

\* The operations that come are answered after the window's next own change.
LEMMA ComingBeyond ==
    ASSUME NEW q, NEW j \in 1..Len(q), NEW m \in Nat, OneEach(q), q[j].kind = "updated",
           q[j].rev <= m + 1,
           \A k \in 1..Len(q) : q[k].rev \in Nat
    PROVE  \A k \in 1..Len(q) : q[k].kind = "applied" /\ q[k].rev > m => q[k].rev > q[j].rev
<1> SUFFICES ASSUME NEW k \in 1..Len(q), q[k].kind = "applied", q[k].rev > m
             PROVE  q[k].rev > q[j].rev
  OBVIOUS
<1>1. k # j
  OBVIOUS
<1>2. q[k].rev # q[j].rev
  BY <1>1 DEF OneEach, OfCommit
<1> QED BY <1>2

\* What a window does with a snapshot: draw it, skip it as its own, or drop it.
Draws(w, m) ==
    /\ m.kind # "refused" /\ m.rev > mark[w]
    /\ mark' = [mark EXCEPT ![w] = m.rev]
    /\ shown' = [shown EXCEPT ![w] = Over(m.doc, Unconfirmed(w))]
Skips(w, m) ==
    /\ m.kind = "changed" /\ m.origin = w /\ m.rev > mark[w]
    /\ mark' = [mark EXCEPT ![w] = m.rev] /\ shown' = shown
Drops(w, m) ==
    /\ m.kind = "refused" \/ m.rev <= mark[w]
    /\ mark' = mark /\ shown' = shown

LEMMA ListenDoes ==
    ASSUME LinkTypes, NEW w \in Windows, NEW i, Listens(w, i), inbox[w][i].rev \in Nat
    PROVE  LET m == inbox[w][i] IN
           /\ m.kind # "updated"
           /\ Draws(w, m) \/ Skips(w, m) \/ Drops(w, m)
<1> DEFINE m == inbox[w][i]
<1>1. mark \in [Windows -> Nat] /\ m.rev \in Nat /\ NoOne # w
  BY OriginAssumption DEF LinkTypes
<1>2. \/ m.kind = "changed" /\ Accept(w, m, m.origin, Unconfirmed(w))
      \/ m.kind \in {"applied", "got"} /\ Accept(w, m, NoOne, Unconfirmed(w))
      \/ m.kind = "refused" /\ UNCHANGED <<shown, mark>>
  BY DEF Listens
<1> HIDE DEF m
<1>3. ASSUME NEW origin, Accept(w, m, origin, Unconfirmed(w))
      PROVE  /\ m.rev > mark[w] => mark' = [mark EXCEPT ![w] = m.rev]
             /\ ~(m.rev > mark[w]) => mark' = mark
             /\ m.rev > mark[w] /\ origin # w =>
                  shown' = [shown EXCEPT ![w] = Over(m.doc, Unconfirmed(w))]
             /\ ~(m.rev > mark[w] /\ origin # w) => shown' = shown
  <2>1. CASE m.rev > mark[w]
    BY <1>1, <1>3, <2>1 DEF Accept, Applies, Watermark
  <2>2. CASE ~(m.rev > mark[w])
    <3>1. mark' = [mark EXCEPT ![w] = mark[w]] /\ shown' = shown
      BY <1>3, <2>2 DEF Accept, Applies, Watermark
    <3> QED BY <1>1, <2>2, <3>1
  <2> QED BY <2>1, <2>2
<1>4. Draws(w, m) \/ Skips(w, m) \/ Drops(w, m)
  <2>1. CASE m.kind = "changed" /\ Accept(w, m, m.origin, Unconfirmed(w))
    <3>1. CASE m.rev > mark[w]
      BY <1>3, <2>1, <3>1 DEF Draws, Skips
    <3>2. CASE ~(m.rev > mark[w])
      BY <1>1, <1>3, <2>1, <3>2 DEF Drops
    <3> QED BY <3>1, <3>2
  <2>2. CASE m.kind \in {"applied", "got"} /\ Accept(w, m, NoOne, Unconfirmed(w))
    <3>1. CASE m.rev > mark[w]
      BY <1>1, <1>3, <2>2, <3>1 DEF Draws
    <3>2. CASE ~(m.rev > mark[w])
      BY <1>1, <1>3, <2>2, <3>2 DEF Drops
    <3> QED BY <3>1, <3>2
  <2>3. CASE m.kind = "refused" /\ UNCHANGED <<shown, mark>>
    BY <2>3 DEF Drops
  <2> QED BY <1>2, <2>1, <2>2, <2>3
<1> QED BY <1>2, <1>4 DEF m

\* A window that hears draws the snapshot, or shows it already.
LEMMA ListenScreen ==
    ASSUME Step, TwoChannels, NoteCrossings, NEW H, Past(H), Snapped(H), NEW w \in Windows, NEW i,
           Listens(w, i), InAgreement(H, w), Hears(w, i), Grows(sent[w], sent'[w])
    PROVE  Agrees(H, w)'
<1> DEFINE m == inbox[w][i]
           q == inbox[w]
<1>1. LinkTypes /\ IInv /\ DOMAIN shown = Windows /\ mark \in [Windows -> Nat]
  BY DEF Step, LinksInv, LinkTypes, IInv, ScreenShape
<1>2. /\ i \in DOMAIN q /\ Heard(w, i) /\ i \in 1..Len(q)
      /\ m.rev \in Nat /\ m.doc = H[m.rev] /\ m \in Snapshots
  BY <1>1, HeardSnapshot DEF Listens
<1>3. \A v \in Windows : Unconfirmed(v)' = Unconfirmed(v)
  BY OverlayStays DEF Listens, outbox
<1>4. /\ Agrees(H, w) /\ Echoes(H, q, inFlight[w]) /\ Answered(w, q, mark[w]) /\ OneEach(q)
  BY DEF InAgreement
<1>5. /\ Without(q, i, inbox'[w]) /\ Len(q) \in Nat /\ rev \in Nat
      /\ \A k \in 1..Len(q) : q[k].rev \in Nat
  BY <1>1, RevsUpTo DEF Hears
<1>6. m.kind # "updated" /\ (Draws(w, m) \/ Skips(w, m) \/ Drops(w, m))
  BY <1>1, <1>2, ListenDoes
<1> SUFFICES ASSUME w \notin crossed' PROVE Agrees(H, w)'
  BY DEF Agrees
<1>7. ~Crosses(w, m) /\ (w \in crossed => Heals(w, m))
  BY <1>1, <1>2, MarkedBefore
<1>8. ASSUME NEW n, Coming(q, sent[w], mark[w]), ~(m.kind = "applied" /\ m.rev > mark[w]),
             \A k \in 1..Len(q) \ {i} :
               q[k].kind = "applied" /\ q[k].rev > mark[w] => q[k].rev > n
      PROVE  Coming(inbox'[w], sent'[w], n)
  <2>1. Coming(inbox'[w], sent[w], n)
    BY <1>5, <1>8, ComingShrink
  <2>2. Grows(inbox'[w], inbox'[w])
    BY <1>5 DEF Grows, Without
  <2> QED BY <2>1, <2>2, ComingGrow
<1> HIDE DEF m, q
<1>9. CASE Draws(w, m)
  <2>1. shown'[w] = Over(m.doc, Unconfirmed(w)) /\ mark'[w] = m.rev
    BY <1>1, <1>9 DEF Draws
  <2>2. \A k \in Fields : Unconfirmed(w)'[k] = None => shown'[w][k] = m.doc[k]
    BY <1>3, <2>1 DEF Over, Keys
  <2>3. \A k \in Maps : shown'[w][k] = m.doc[k]
    BY <2>1, KeysAssumption DEF Over, Keys
  <2> QED BY <1>2, <2>1, <2>2, <2>3 DEF Agrees
\* Its own patch is on the screen already, and the revision is the next one.
<1>10. CASE Skips(w, m)
  <2>1. Own(w, m) /\ mark'[w] = m.rev /\ shown' = shown /\ m.kind = "changed"
    BY <1>1, <1>10 DEF Skips, Own
  <2>2. w \notin crossed /\ m.rev = mark[w] + 1
    BY <1>1, <1>2, <1>7, <1>10, <2>1 DEF Crosses, Heals, Skips
  <2>3. PICK j \in 1..Len(q) : q[j].kind = "updated" /\ q[j].rev = m.rev
    BY <1>2, <1>4, <1>10 DEF Answered, Skips, m, q
  <2>4. q[j].rev > 1 /\ \E s \in inFlight[w] : q[j].doc = Over(H[q[j].rev - 1], s.patch)
    BY <1>4, <2>3 DEF Echoes
  <2>5. mark[w] > 0 /\ m.rev - 1 = mark[w] /\ q[j].doc = m.doc
    <3>1. q[j].doc = H[q[j].rev]
      BY <1>1, <2>3, HeardSnapshot DEF Snapped, q
    <3> QED BY <1>1, <1>2, <2>2, <2>3, <2>4, <3>1
  <2>6. PICK s \in inFlight[w] : m.doc = Over(H[mark[w]], s.patch)
    BY <2>3, <2>4, <2>5
  <2>7. ASSUME NEW k \in Fields, Unconfirmed(w)'[k] = None
        PROVE  shown'[w][k] = H[m.rev][k]
    <3>1. Unconfirmed(w)[k] = None
      BY <1>3, <2>7
    <3>2. s.patch[k] = None
      <4>1. OutboxTypeOK /\ SendOrder /\ HasLatest
        BY <1>1 DEF IInv
      <4> QED BY <3>1, <4>1, UnconfirmedIsLast
    <3>3. m.doc[k] = H[mark[w]][k]
      BY <2>6, <3>2 DEF Over, Keys
    <3> QED BY <1>2, <1>4, <2>1, <2>2, <2>5, <3>1, <3>3 DEF Agrees
  <2>8. Coming(q, sent[w], mark[w]) => Coming(inbox'[w], sent'[w], m.rev)
    <3>1. \A k \in 1..Len(q) : q[k].kind = "applied" /\ q[k].rev > mark[w] => q[k].rev > m.rev
      <4>1. mark[w] \in Nat /\ j \in 1..Len(q) /\ q[j].rev <= mark[w] + 1
        BY <1>1, <2>2, <2>3
      <4>2. \A k \in 1..Len(q) : q[k].kind = "applied" /\ q[k].rev > mark[w]
              => q[k].rev > q[j].rev
        BY <1>4, <1>5, <2>3, <4>1, ComingBeyond
      <4> QED BY <2>3, <4>2
    <3> QED BY <1>8, <2>1, <3>1
  <2>9. ASSUME NEW k \in Maps
        PROVE  Coming(inbox'[w], sent'[w], m.rev) \/ shown'[w][k] = H[m.rev][k]
    <3>1. m.doc[k] = H[mark[w]][k]
      BY <2>6, KeysAssumption DEF Over, Keys
    <3> QED BY <1>2, <1>4, <2>1, <2>2, <2>5, <2>8, <3>1 DEF Agrees, q
  <2> QED BY <2>1, <2>7, <2>9 DEF Agrees
\* It is not newer than what the window knows.
<1>11. CASE Drops(w, m)
  <2>1. mark' = mark /\ shown' = shown /\ ~(m.kind # "refused" /\ m.rev > mark[w])
    BY <1>1, <1>2, <1>11 DEF Drops
  <2>2. w \notin crossed
    BY <1>7, <2>1 DEF Heals
  <2>3. Coming(q, sent[w], mark[w]) => Coming(inbox'[w], sent'[w], mark[w])
    BY <1>8, <2>1
  <2> QED BY <1>3, <1>4, <2>1, <2>2, <2>3, AgreesStay DEF Kept, q
<1> QED BY <1>6, <1>9, <1>10, <1>11

\* Hearing a snapshot keeps the agreement.
LEMMA ListenAgrees ==
    ASSUME Step, TwoChannels, NoteCrossings, ToldInv, AgreeInv, NEW w \in Windows, NEW i,
           Listens(w, i)
    PROVE  ToldInv' /\ AgreeInv'
<1> DEFINE m == inbox[w][i]
<1>1. /\ LinkTypes /\ IInv /\ Drawn /\ InOrder /\ DOMAIN shown = Windows
      /\ mark \in [Windows -> Nat] /\ rev \in Nat /\ mark[w] <= rev
  BY DEF Step, LinksInv, LinkTypes, ToldInv, InOrder, TwoChannels, IInv, ScreenShape
<1>2. PICK H : Past(H) /\ Snapped(H) /\ \A v \in Windows : InAgreement(H, v)
  BY DEF AgreeInv
<1>3. Hears(w, i) /\ m.rev \in Nat /\ m.rev <= rev
  <2>1. i \in DOMAIN inbox[w] /\ Heard(w, i)
    BY DEF Listens
  <2> QED BY <1>1, <1>2, <2>1, HeardHears, HeardSnapshot
<1>4. m.kind # "updated" /\ (Draws(w, m) \/ Skips(w, m) \/ Drops(w, m))
  BY <1>1, <1>3, ListenDoes
<1>5. /\ UNCHANGED <<doc, rev, pending, inFlight>>
      /\ \A v \in Windows : v # w => sent'[v] = sent[v]
      /\ Grows(sent[w], sent'[w])
  <2>1. UNCHANGED <<doc, rev, pending, inFlight>>
    BY DEF Listens, server, outbox
  <2>2. sent[w] \in Seq(Requests)
    BY <1>1 DEF LinkTypes
  <2>3. CASE UNCHANGED sent
    BY <2>1, <2>2, <2>3 DEF Grows
  <2>4. CASE \E r : Send(w, r) /\ NewRequest(r)
    <3>1. PICK r \in Requests : Asks(w, r)
      BY <1>1, <2>4, SendAsks DEF NewRequest
    <3>2. Grows(sent[w], Append(sent[w], r))
      BY <2>2, GrowsByAppend
    <3> QED BY <2>1, <3>1, <3>2 DEF Asks
  <2> QED BY <2>3, <2>4 DEF Listens
<1>6. \A v \in Windows : Unconfirmed(v)' = Unconfirmed(v)
  BY <1>5, OverlayStays
<1>7. /\ mark'[w] \in Nat /\ mark[w] <= mark'[w] /\ mark'[w] <= rev
      /\ m.kind # "refused" => m.rev <= mark'[w]
      /\ DrawsOver(w)
      /\ \A v \in Windows : v # w => mark'[v] = mark[v] /\ shown'[v] = shown[v]
  <2> HIDE DEF m
  <2>1. CASE Draws(w, m)
    <3>1. /\ mark' = [mark EXCEPT ![w] = m.rev] /\ m.rev > mark[w]
          /\ shown' = [shown EXCEPT ![w] = Over(m.doc, Unconfirmed(w))]
      BY <2>1 DEF Draws
    <3>2. DrawsOver(w)
      BY <3>1 DEF DrawsOver
    <3> QED BY <1>1, <1>3, <3>1, <3>2
  <2>2. CASE Skips(w, m)
    BY <1>1, <1>3, <2>2 DEF Skips, DrawsOver
  <2>3. CASE Drops(w, m)
    BY <1>1, <1>3, <2>3 DEF Drops, DrawsOver
  <2> QED BY <1>4, <2>1, <2>2, <2>3
<1>8. Past(H)' /\ Snapped(H)'
  <2>1. Past(H)'
    BY <1>2, <1>5 DEF Past
  <2> QED BY <1>1, <1>2, <1>3, <1>5, <2>1, SnappedHears
<1>9. ASSUME NEW v \in Windows, v # w PROVE Told(v)' /\ InAgreement(H, v)'
  <2>1. inbox'[v] = inbox[v] /\ inbox[v] \in Seq(Snapshots)
    BY <1>1, <1>3, <1>9 DEF Hears, LinkTypes
  <2>2. Kept(v)
    <3>1. Grows(inbox[v], inbox'[v])
      BY <2>1 DEF Grows
    <3> QED BY <1>1, <3>1, NotHeard DEF Kept
  <2>3. Told(v) /\ InAgreement(H, v)
    BY <1>2 DEF ToldInv
  <2> QED BY <1>1, <1>5, <1>6, <1>7, <1>9, <2>1, <2>2, <2>3, LeftAlone
<1>10. /\ Echoes(H, inbox[w], inFlight[w]) /\ Answered(w, inbox[w], mark[w])
       /\ OneEach(inbox[w]) /\ Told(w) /\ InAgreement(H, w)
  BY <1>2 DEF InAgreement, ToldInv
<1>11. Told(w)' /\ Answered(w, inbox'[w], mark'[w]) /\ OneEach(inbox'[w])
  BY <1>1, <1>2, <1>3, <1>5, <1>7, <1>10, HearKeeps
<1>12. InAgreement(H, w)'
  <2>1. Echoes(H, inbox'[w], inFlight'[w])
    <3>1. Without(inbox[w], i, inbox'[w]) /\ Len(inbox[w]) \in Nat
      BY <1>1, <1>2, <1>3, RevsUpTo DEF Hears
    <3> QED BY <1>5, <1>10, <3>1, EchoesShrink
  <2>2. Agrees(H, w)'
    BY <1>2, <1>3, <1>5, <1>10, ListenScreen
  <2> QED BY <1>11, <2>1, <2>2 DEF InAgreement
<1>13. ToldInv'
  <2>1. Drawn'
    BY <1>1, <1>7, DrawnNext
  <2>2. rev' > 0
    BY <1>5 DEF ToldInv
  <2> QED BY <1>9, <1>11, <2>1, <2>2 DEF ToldInv
<1> QED BY <1>8, <1>9, <1>12, <1>13 DEF AgreeInv

\* The answer to an update settles what the screen shows as it is in the revision
\* that is now the watermark.
LEMMA UpdatedScreen ==
    ASSUME Step, TwoChannels, NoteCrossings, NEW H, Past(H), Snapped(H), NEW w \in Windows,
           NEW i \in DOMAIN inbox[w], HearUpdated(w, i), InAgreement(H, w), Hears(w, i),
           mark'[w] = Watermark(w, inbox[w][i], w), shown' = shown, sent' = sent,
           \A s \in inFlight[w] : s.id # inbox[w][i].id => inbox[w][i].id < s.id
    PROVE  Agrees(H, w)'
<1> DEFINE m == inbox[w][i]
           q == inbox[w]
<1>1. /\ LinkTypes /\ IInv /\ IInv' /\ OnTop /\ InTurn(w) /\ mark \in [Windows -> Nat]
      /\ OutboxTypeOK
  BY DEF Step, LinksInv, LinkTypes, IInv
<1>2. /\ i \in 1..Len(q) /\ m.rev \in Nat /\ m.doc = H[m.rev] /\ Heard(w, i)
      /\ m.kind = "updated"
  BY <1>1, HeardSnapshot DEF HearUpdated
<1>3. Settle(w, m.id) /\ UNCHANGED pending
  BY DEF HearUpdated
<1>4. /\ Agrees(H, w) /\ Echoes(H, q, inFlight[w]) /\ OneEach(q)
  BY DEF InAgreement
<1>5. /\ Without(q, i, inbox'[w]) /\ Len(q) \in Nat
      /\ \A k \in 1..Len(q) : q[k].rev \in Nat
  BY <1>1, RevsUpTo DEF Hears
<1> SUFFICES ASSUME w \notin crossed' PROVE Agrees(H, w)'
  BY DEF Agrees
<1>6. ~Crosses(w, m) /\ (w \in crossed => Heals(w, m))
  BY <1>1, <1>2, MarkedBefore
<1>7. /\ \A s, t \in inFlight[w] : s.id = t.id => s = t
  BY <1>1 DEF InTurn, Underway
<1>8. \A k \in Fields :
         \/ Unconfirmed(w)'[k] = Unconfirmed(w)[k]
         \/ /\ Unconfirmed(w)'[k] = None /\ Unconfirmed(w)[k] # None
            /\ \E s \in inFlight[w] : s.id = m.id /\ s.patch[k] = Unconfirmed(w)[k]
  BY <1>1, <1>3, OverlaySettle
<1> HIDE DEF m, q
\* It is the answer to the next revision, or its broadcast was heard before.
<1>9. w \notin crossed /\ m.rev <= mark[w] + 1 /\ mark[w] <= m.rev /\ mark'[w] = m.rev
  <2>1. Own(w, m)
    BY <1>2 DEF Own
  <2>2. w \notin crossed /\ m.rev <= mark[w] + 1 /\ mark[w] <= m.rev
    BY <1>1, <1>2, <1>6, <2>1 DEF Crosses, Heals
  <2>3. mark'[w] = IF m.rev > mark[w] THEN m.rev ELSE mark[w]
    BY DEF Watermark, m
  <2> QED BY <1>1, <1>2, <2>2, <2>3
<1>10. PICK s \in inFlight[w] : s.id = m.id /\ m.doc = Over(H[m.rev - 1], s.patch)
  BY <1>2, <1>4 DEF Echoes, m, q
<1>11. m.rev > 1 /\ mark[w] > 0 /\ (mark[w] = m.rev \/ mark[w] = m.rev - 1)
  <2>1. m.rev > 1
    BY <1>2, <1>4 DEF Echoes, m, q
  <2> QED BY <1>1, <1>2, <1>9, <2>1
<1>12. ASSUME NEW k \in Fields, Unconfirmed(w)'[k] = None
       PROVE  shown'[w][k] = H[m.rev][k]
  <2>1. CASE Unconfirmed(w)[k] = None
    <3>1. shown[w][k] = H[mark[w]][k]
      BY <1>4, <1>9, <1>11, <2>1 DEF Agrees
    <3>2. s.patch[k] = None
      <4>1. SendOrder /\ HasLatest
        BY <1>1 DEF IInv
      <4> QED BY <1>1, <2>1, <4>1, UnconfirmedIsLast
    <3>3. m.doc[k] = H[m.rev - 1][k]
      BY <1>10, <3>2 DEF Over, Keys
    <3> QED BY <1>2, <1>11, <3>1, <3>3
  <2>2. CASE Unconfirmed(w)[k] # None
    <3>1. PICK t \in inFlight[w] : t.id = m.id /\ t.patch[k] = Unconfirmed(w)[k]
      BY <1>8, <1>12, <2>2
    <3>2. s.patch[k] = Unconfirmed(w)[k]
      BY <1>7, <1>10, <3>1
    <3>3. m.doc[k] = Unconfirmed(w)[k]
      BY <1>10, <2>2, <3>2 DEF Over, Keys
    <3>4. shown[w][k] = Unconfirmed(w)[k]
      BY <1>1, <2>2 DEF OnTop
    <3> QED BY <1>2, <3>3, <3>4
  <2> QED BY <2>1, <2>2
<1>13. Coming(q, sent[w], mark[w]) => Coming(inbox'[w], sent'[w], m.rev)
  <2>1. mark[w] \in Nat /\ i \in 1..Len(q) /\ q[i] = m
    BY <1>1, <1>2 DEF m, q
  <2>2. \A k \in 1..Len(q) : q[k].kind = "applied" /\ q[k].rev > mark[w] => q[k].rev > m.rev
    BY <1>2, <1>4, <1>5, <1>9, <2>1, ComingBeyond
  <2>3. ~(q[i].kind = "applied" /\ q[i].rev > mark[w])
    BY <1>2, <2>1
  <2> QED BY <1>5, <2>2, <2>3, ComingShrink
<1>14. ASSUME NEW k \in Maps
       PROVE  Coming(inbox'[w], sent'[w], m.rev) \/ shown'[w][k] = H[m.rev][k]
  <2>1. m.doc[k] = H[m.rev - 1][k]
    BY <1>10, KeysAssumption DEF Over, Keys
  <2>2. Coming(q, sent[w], mark[w]) \/ shown[w][k] = H[mark[w]][k]
    BY <1>4, <1>9, <1>11 DEF Agrees, q
  <2> QED BY <1>2, <1>11, <1>13, <2>1, <2>2
<1> QED BY <1>9, <1>12, <1>14 DEF Agrees

LEMMA UpdatedAgrees ==
    ASSUME Step, TwoChannels, NoteCrossings, ToldInv, AgreeInv, NEW w \in Windows,
           NEW i \in DOMAIN inbox[w], HearUpdated(w, i)
    PROVE  ToldInv' /\ AgreeInv'
<1> DEFINE m == inbox[w][i]
           q == inbox[w]
<1>1. /\ LinkTypes /\ IInv /\ IInv' /\ Drawn /\ InTurn(w) /\ InOrder /\ OutboxTypeOK
      /\ mark \in [Windows -> Nat] /\ rev \in Nat /\ mark[w] <= rev
  BY DEF Step, LinksInv, LinkTypes, ToldInv, InOrder, TwoChannels, IInv
<1>2. PICK H : Past(H) /\ Snapped(H) /\ \A v \in Windows : InAgreement(H, v)
  BY DEF AgreeInv
<1>3. /\ Hears(w, i) /\ i \in 1..Len(q) /\ m.kind = "updated"
      /\ m.rev \in Nat /\ m.rev <= rev /\ q \in Seq(Snapshots) /\ Len(q) \in Nat
      /\ Without(q, i, inbox'[w])
      /\ \A j \in 1..(i - 1) : q[j].kind # "updated"
  <2>1. Heard(w, i) /\ m.kind = "updated"
    BY DEF HearUpdated
  <2>2. Hears(w, i)
    BY <1>1, <2>1, HeardHears
  <2>3. i \in 1..Len(q) /\ m.rev \in Nat /\ m.rev <= rev /\ q \in Seq(Snapshots)
    BY <1>1, <1>2, HeardSnapshot DEF LinkTypes
  <2> QED BY <2>1, <2>2, <2>3 DEF Hears
<1>4. /\ UNCHANGED <<doc, rev, pending, sent, shown>> /\ Settle(w, m.id)
      /\ mark' = [mark EXCEPT ![w] = Watermark(w, m, w)]
  BY <1>3 DEF HearUpdated, Accept, Applies, server
<1>5. /\ inFlight'[w] = {s \in inFlight[w] : s.id # m.id}
      /\ \A v \in Windows : v # w => inFlight'[v] = inFlight[v]
  BY <1>1, <1>4 DEF Settle, OutboxTypeOK
<1>6. /\ Updates(q, sent[w], nextId[w])
      /\ \A s \in inFlight[w] : s.id # m.id => m.id < s.id
  <2>1. Lists(q, sent[w]) /\ nextId[w] \in Nat
    BY <1>1 DEF LinkTypes, Lists, OutboxTypeOK
  <2>2. Updates(q, sent[w], nextId[w]) /\ Underway(inFlight[w], q, sent[w])
    BY <1>1 DEF InTurn
  <2> QED BY <1>3, <2>1, <2>2, UpdatesSettled
<1>7. \A v \in Windows : v # w => Unconfirmed(v)' = Unconfirmed(v)
  BY <1>1, <1>4, <1>6, OverlaySettle
<1>8. /\ mark'[w] = Watermark(w, m, w) /\ mark'[w] \in Nat /\ mark[w] <= mark'[w]
      /\ mark'[w] <= rev /\ m.rev <= mark'[w]
      /\ \A v \in Windows : v # w => mark'[v] = mark[v]
  <2>1. /\ mark'[w] = Watermark(w, m, w)
        /\ \A v \in Windows : v # w => mark'[v] = mark[v]
    BY <1>1, <1>4
  <2> QED BY <1>1, <1>3, <2>1 DEF Watermark
<1>9. Past(H)' /\ Snapped(H)'
  <2>1. Past(H)'
    BY <1>2, <1>4 DEF Past
  <2> QED BY <1>1, <1>2, <1>3, <1>4, <2>1, SnappedHears
<1>10. ASSUME NEW v \in Windows, v # w PROVE Told(v)' /\ InAgreement(H, v)'
  <2>1. inbox'[v] = inbox[v] /\ inbox[v] \in Seq(Snapshots)
    BY <1>1, <1>3, <1>10 DEF Hears, LinkTypes
  <2>2. Kept(v)
    <3>1. Grows(inbox[v], inbox'[v])
      BY <2>1 DEF Grows
    <3> QED BY <1>1, <3>1, NotHeard DEF Kept
  <2>3. Told(v) /\ InAgreement(H, v)
    BY <1>2 DEF ToldInv
  <2> QED BY <1>1, <1>4, <1>5, <1>7, <1>8, <1>10, <2>1, <2>2, <2>3, LeftAlone
<1>11. /\ Echoes(H, q, inFlight[w]) /\ Answered(w, q, mark[w])
       /\ OneEach(q) /\ Told(w) /\ InAgreement(H, w)
  BY <1>2 DEF InAgreement, ToldInv
<1>12. Grows(sent[w], sent'[w])
  <2>1. sent[w] \in Seq(Requests)
    BY <1>1 DEF LinkTypes
  <2> QED BY <1>4, <2>1 DEF Grows
<1>13. Told(w)' /\ Answered(w, inbox'[w], mark'[w]) /\ OneEach(inbox'[w])
  BY <1>1, <1>2, <1>3, <1>4, <1>8, <1>11, <1>12, HearKeeps
<1>14. Echoes(H, inbox'[w], inFlight'[w])
  <2>1. ASSUME NEW k \in 1..Len(q) \ {i}, NEW s \in inFlight[w],
               q[k].kind = "updated", s.id = q[k].id
        PROVE  s \in inFlight'[w]
    <3>1. i \in 1..Len(q) /\ k \in 1..Len(q) /\ (i < k \/ k < i)
      BY <1>3
    <3>2. q[i].id < q[k].id \/ q[k].id < q[i].id
      BY <1>3, <1>6, <2>1, <3>1 DEF Updates
    <3>3. q[i].id \in Nat /\ q[k].id \in Nat
      <4>1. q[i] \in Snapshots /\ q[k] \in Snapshots
        BY <1>3, <3>1
      <4> QED BY <4>1 DEF Snapshots
    <3> QED BY <1>5, <2>1, <3>2, <3>3
  <2> QED BY <1>3, <1>11, <2>1, EchoesShrink
<1>15. Agrees(H, w)'
  BY <1>2, <1>3, <1>4, <1>6, <1>8, <1>11, UpdatedScreen
<1>16. InAgreement(H, w)'
  BY <1>13, <1>14, <1>15 DEF InAgreement
<1>17. ToldInv'
  <2>1. Drawn' /\ rev' > 0
    BY <1>1, <1>4 DEF Drawn, ToldInv
  <2> QED BY <1>10, <1>13, <2>1 DEF ToldInv
<1> QED BY <1>9, <1>10, <1>16, <1>17 DEF AgreeInv

-----------------------------------------------------------------------------
(* The screens on which nothing crossed agree with the server.              *)

\* Every step keeps the agreement.
LEMMA AgreeNext ==
    ASSUME TwoChannels, Step, ToldInv, AgreeInv, [Next /\ NoteCrossings]_<<vars, crossed>>
    PROVE  ToldInv' /\ AgreeInv'
<1>1. InOrder /\ LinkTypes /\ IInv
  BY DEF InOrder, TwoChannels, Step, LinksInv
<1>2. ASSUME UNCHANGED inbox, NoteCrossings PROVE \A v \in Windows : Kept(v)
  <2>1. \A v \in Windows : inbox[v] \in Seq(Snapshots) /\ inbox'[v] = inbox[v]
    BY <1>1, <1>2 DEF LinkTypes
  <2>2. \A v \in Windows : Grows(inbox[v], inbox'[v])
    BY <2>1 DEF Grows
  <2> QED BY <1>1, <1>2, <2>2, InboxesGrow
<1>3. ASSUME NEW w \in Windows, Acting(w) \/ SendPending(w), NoteCrossings
      PROVE  ToldInv' /\ AgreeInv'
  <2>1. UNCHANGED inbox
    BY <1>3 DEF Acting, Edit, Silence, Rearrange, Reset, SendPending, links
  <2>2. \A v \in Windows : Kept(v)
    BY <1>2, <1>3, <2>1
  <2> QED BY <1>3, <2>2, ActingAgrees, SendAgrees
<1>4. ASSUME NEW w \in Windows, Serve(w), NoteCrossings PROVE ToldInv' /\ AgreeInv'
  <2>1. CASE \E kind \in {"got", "refused"} : Replies(w, kind)
    BY <1>1, <1>4, <2>1, ReplyAgrees
  <2>2. CASE \E new, did, origin, kind, id : Writes(w, new, did, origin, kind, id)
    BY <1>1, <1>4, <2>2, WriteAgrees
  <2> QED BY <1>1, <1>4, <2>1, <2>2, ServeServes DEF Serves
<1>5. ASSUME NEW w \in Windows, Hear(w), NoteCrossings PROVE ToldInv' /\ AgreeInv'
  BY <1>1, <1>5, HearListens, ListenAgrees, UpdatedAgrees
<1>6. ASSUME NEW w \in Windows, Breaking(w) \/ Reconnect(w) PROVE FALSE
  BY <1>1, <1>6, NothingBreaks
<1>7. ~Restart
  BY DEF Restart, Goes, TwoChannels
<1>8. CASE UNCHANGED <<vars, crossed>>
  <2>1. UNCHANGED <<doc, rev, mark, inbox, sent, pending, inFlight, shown, crossed>>
    BY <1>8 DEF vars, server, outbox, screens, links
  <2>2. \A v \in Windows : Unconfirmed(v)' = Unconfirmed(v)
    BY <2>1, OverlayStays
  <2>3. Drawn'
    BY <2>1 DEF ToldInv, Drawn
  <2>4. \A v \in Windows : Kept(v)
    BY <2>1 DEF Kept
  <2> QED BY <1>1, <2>1, <2>2, <2>3, <2>4, AskAgrees
<1> QED BY <1>3, <1>4, <1>5, <1>6, <1>7, <1>8 DEF Next

\* The windows have heard nothing yet, and the first load is on its way.
LEMMA AgreeInit ==
    ASSUME TwoChannels, Init
    PROVE  ToldInv /\ AgreeInv
<1>1. /\ rev = 1
      /\ shown = [w \in Windows |-> [k \in Keys |-> Seed]]
      /\ mark = [w \in Windows |-> 0]
      /\ sent = [w \in Windows |-> <<Get>>] /\ inbox = [w \in Windows |-> <<>>]
      /\ doc = [k \in Keys |-> 0]
  BY DEF Init, TwoChannels
<1>2. \A w \in Windows : inbox[w] = <<>> /\ mark[w] = 0 /\ 1..Len(inbox[w]) = {}
  BY <1>1
<1>3. ASSUME NEW w \in Windows PROVE Told(w)
  <2>1. sent[w] = <<Get>> /\ 1 \in 1..Len(sent[w]) /\ sent[w][1] = Get
    BY <1>1
  <2>2. Get.kind = "get"
    BY DEF Get, Request
  <2> QED BY <2>1, <2>2 DEF Told, Telling
<1>4. ToldInv
  BY <1>1, <1>3 DEF ToldInv, Drawn
<1>5. AgreeInv
  <2>1. PICK H : H = [r \in 0..rev |-> doc]
    OBVIOUS
  <2>2. doc \in Docs /\ rev \in 0..rev
    BY <1>1, BoundsAssumption DEF Docs, Values
  <2>3. Past(H) /\ Snapped(H)
    BY <1>2, <2>1, <2>2 DEF Past, Snapped
  <2>4. \A w \in Windows : InAgreement(H, w)
    BY <1>2 DEF InAgreement, Echoes, Answered, OneEach, Agrees
  <2> QED BY <2>3, <2>4 DEF AgreeInv
<1> QED BY <1>4, <1>5

\* A window that knows the last revision and awaits nothing shows it.
LEMMA AgreedIsShown ==
    ASSUME LinkTypes, ToldInv, AgreeInv
    PROVE  UncrossedAgree
<1> SUFFICES ASSUME NEW w \in Windows \ crossed, sent[w] = <<>>, inbox[w] = <<>>,
                    pending[w] = Empty, inFlight[w] = {}
             PROVE  shown[w] = doc
  BY DEF UncrossedAgree
<1>1. 1..Len(inbox[w]) = {} /\ 1..Len(sent[w]) = {}
  OBVIOUS
<1>2. mark[w] = rev /\ rev > 0
  BY <1>1 DEF ToldInv, Told, Telling
<1>3. PICK H : Past(H) /\ InAgreement(H, w)
  BY DEF AgreeInv
<1>4. Agrees(H, w) /\ H[mark[w]] = doc
  BY <1>2, <1>3 DEF InAgreement, Past
<1>5. \A k \in Fields : Unconfirmed(w)[k] = None
  BY DEF Unconfirmed, Merge, InFlight, Carrying, Empty
<1>6. ~Coming(inbox[w], sent[w], mark[w])
  BY <1>1 DEF Coming
<1>7. \A k \in Keys : shown[w][k] = doc[k]
  BY <1>2, <1>4, <1>5, <1>6 DEF Agrees, Keys
<1>8. shown[w] = [k \in Keys |-> shown[w][k]] /\ doc = [k \in Keys |-> doc[k]]
  BY DEF ToldInv, Drawn, LinkTypes, Docs
<1> QED BY <1>7, <1>8

\* Whatever order the answers and the broadcasts arrive in, and whatever any number
\* of windows edit, reset and rearrange meanwhile, a window shows what the server
\* holds once nothing of its own or for it is under way, unless it dropped an own
\* change above revisions it had not heard of, or settled one after a newer
\* snapshot was drawn (echo.ts:4-11, outbox.ts:4-10).
THEOREM ScreensAgree == ASSUME TwoChannels PROVE CrossSpec => []UncrossedAgree
<1> DEFINE Inv == IInv /\ LinksInv /\ HistoryInv /\ ToldInv /\ AgreeInv
<1>1. Init => Inv
  BY InitInv, LinksInit, AgreeInit DEF InOrder, TwoChannels
<1>2. Inv /\ [Next /\ NoteCrossings]_<<vars, crossed>> => Inv'
  <2> SUFFICES ASSUME Inv, [Next /\ NoteCrossings]_<<vars, crossed>> PROVE Inv'
    OBVIOUS
  <2>1. [Next]_vars
    OBVIOUS
  <2>2. IInv'
    BY <2>1, NextInv
  <2>3. Step /\ InOrder
    BY <2>2 DEF Step, InOrder, TwoChannels
  <2> QED BY <2>1, <2>2, <2>3, LinksNext, AgreeNext
<1>3. Inv => UncrossedAgree
  BY AgreedIsShown DEF LinksInv
<1> QED BY <1>1, <1>2, <1>3, PTL DEF CrossSpec
=============================================================================
