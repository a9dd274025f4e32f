------------------------------ MODULE Recents ------------------------------
(***************************************************************************)
(* What the app remembers: where a person has been, which decays, and what *)
(* they pinned, which has an order of its own beside the map and may lag   *)
(* it.  Any window may send any operation, also for a key that another     *)
(* window has just forgotten; what is listed is filtered by account.       *)
(*   packages/contracts/src/recents.ts                                     *)
(*   apps/server/src/api/settings/settings.store.ts (applyRecents)         *)
(*   apps/web/src/stores/recents.ts                                        *)
(*                                                                         *)
(* An entry is the moment it was recorded, 0 for none: the operations of a *)
(* server are taken to come in different milliseconds.                     *)
(***************************************************************************)
EXTENDS Naturals, Sequences, SequencesExt

CONSTANTS
    Resources,      \* keys of resources
    Elsewhere,      \* those of an account that is not in view
    MaxRecent,      \* MAX_RECENT_ENTRIES
    MaxPinned,      \* MAX_PINNED_ENTRIES
    MaxOps          \* bound: operations

ASSUME ElsewhereAssumption == Elsewhere \subseteq Resources
ASSUME CapsAssumption == MaxRecent \in Nat \ {0} /\ MaxPinned \in Nat \ {0}
ASSUME OpsAssumption == MaxOps \in Nat

VARIABLES
    recents,        \* settings.recents of the server
    ops,            \* operations so far: its clock
    last            \* history: the operation that was last applied

recentVars == <<recents, ops, last>>

Ops ==
    [op : {"record", "pin", "unpin", "forget"}, key : Resources]
    \cup [op : {"movePinned"}, key : Resources, target : Resources]
    \cup [op : {"forgetAll"}, visited : BOOLEAN, pinned : BOOLEAN]
NoOp == [op |-> "none"]

Has(map) == {k \in Resources : map[k] # 0}

-----------------------------------------------------------------------------
(* The cap newest entries stay. *)
PruneMap(map, cap) ==
    [k \in Resources |->
        IF Cardinality({j \in Has(map) : map[j] > map[k]}) < cap THEN map[k] ELSE 0]

First(seq, k) == SelectInSeq(seq, LAMBDA x : x = k)

(* The keys of pruned maps; of a key that is named twice the first counts. *)
PruneRecents(r) ==
    LET pinned == PruneMap(r.pinned, MaxPinned)
        kept   == SelectSeq([i \in DOMAIN r.order |-> <<i, r.order[i]>>],
                            LAMBDA e : pinned[e[2]] # 0 /\ First(r.order, e[2]) = e[1])
    IN [visited |-> PruneMap(r.visited, MaxRecent), pinned |-> pinned,
        order |-> [i \in DOMAIN kept |-> kept[i][2]]]

(* The arranged ones first, as arranged, then the others, newest first. *)
PinnedKeys(r) ==
    LET Before(a, b) ==
            IF First(r.order, a) > 0 /\ First(r.order, b) > 0
            THEN First(r.order, a) < First(r.order, b)
            ELSE First(r.order, a) > 0 \/ (First(r.order, b) = 0 /\ r.pinned[a] > r.pinned[b])
    IN SetToSortSeq(Has(r.pinned), Before)

\* Mutated form: a dragged pin always goes in front of its target.
MoveInFront(order, key, target) ==
    LET without == Remove(order, key) IN
    IF {key, target} \subseteq ToSet(order) /\ key # target
    THEN InsertAt(without, First(without, target), key)
    ELSE order

(* Dragged down it goes behind the target, dragged up in front of it. *)
MovePinned(order, key, target) ==
    LET without == Remove(order, key)
        below   == IF First(order, key) < First(order, target) THEN 1 ELSE 0
    IN
    IF {key, target} \subseteq ToSet(order) /\ key # target
    THEN InsertAt(without, First(without, target) + below, key)
    ELSE order

\* Mutated form: a new pin goes on top of the order as it is in the file.
PinOnFile(r, key, at) ==
    [r EXCEPT !.pinned[key] = at,
              !.order = IF r.pinned[key] # 0 THEN @ ELSE <<key>> \o @]

(* A new pin goes on top; one that is there keeps its place and is stamped.*)
Pin(r, key, at) ==
    [r EXCEPT !.pinned[key] = at,
              !.order = IF r.pinned[key] # 0 THEN PinnedKeys(r) ELSE <<key>> \o PinnedKeys(r)]

NoEntry == [k \in Resources |-> 0]

ApplyRecentOp(r, o, at) ==
    CASE o.op = "record" -> [r EXCEPT !.visited[o.key] = at]
      [] o.op = "pin"    -> Pin(r, o.key, at)
      [] o.op = "unpin"  -> [r EXCEPT !.pinned[o.key] = 0, !.order = Remove(@, o.key)]
      [] o.op = "movePinned" ->
            [r EXCEPT !.order = MovePinned(PinnedKeys(r), o.key, o.target)]
      [] o.op = "forget" ->
            [r EXCEPT !.visited[o.key] = 0, !.pinned[o.key] = 0, !.order = Remove(@, o.key)]
      [] o.op = "forgetAll" ->
            [visited |-> IF o.visited THEN NoEntry ELSE r.visited,
             pinned  |-> IF o.pinned THEN NoEntry ELSE r.pinned,
             order   |-> IF o.pinned THEN <<>> ELSE r.order]

-----------------------------------------------------------------------------
(* Files of every age: without an order, or with one that names a key      *)
(* twice, or one that is not pinned.                                       *)
RecentsInit ==
    /\ ops = Cardinality(Resources) /\ last = NoOp
    /\ \E S \in SUBSET Resources, n \in 0..3 :
        \E order \in [1..n -> Resources] :
          LET keys == SetToSeq(Resources) IN
          /\ Cardinality(S) <= MaxPinned
          /\ recents = [visited |-> NoEntry,
                        pinned |-> [k \in Resources |->
                                      IF k \in S THEN First(keys, k) ELSE 0],
                        order |-> order]

(* applyRecents of the store: the server gives the time and prunes. *)
ApplyRecents(o) ==
    /\ ops < Cardinality(Resources) + MaxOps
    /\ o.op = "forgetAll" => o.visited \/ o.pinned
    /\ ops' = ops + 1 /\ last' = o
    /\ recents' = PruneRecents(ApplyRecentOp(recents, o, ops + 1))

RecentsNext == \E o \in Ops : ApplyRecents(o)

RecentsSpec == RecentsInit /\ [][RecentsNext]_recentVars

-----------------------------------------------------------------------------
(* What a page lists: the pins of one account, or of all (usePinnedList).  *)
View(seq, account) == SelectSeq(seq, LAMBDA k : k \in account)

(* The pins keep their order whatever is done to others, also those of a   *)
(* file from before there was one, and a pin is lost only by the operation *)
(* that says so or, over the cap, by being the one pinned longest ago.     *)
PinsStayPut ==
    [][LET was == PinnedKeys(recents)
           now == PinnedKeys(recents')
           o   == last'
       IN
       /\ o.op # "movePinned" =>
            View(was, ToSet(now)) = View(now, ToSet(was))
       /\ \A k \in ToSet(was) \ ToSet(now) :
            \/ o.op \in {"unpin", "forget"} /\ o.key = k
            \/ o.op = "forgetAll" /\ o.pinned
            \/ o.op = "pin" /\ \A j \in ToSet(was) : recents.pinned[k] <= recents.pinned[j]
      ]_recents

(* A pin that is dropped on another takes its place in the list on screen, *)
(* the others keep theirs, and pins of accounts that are not on screen do  *)
(* not come in between.                                                    *)
MoveTakesThePlace ==
    [][\A account \in {Resources, Elsewhere, Resources \ Elsewhere} :
         LET was == View(PinnedKeys(recents), account)
             now == View(PinnedKeys(recents'), account)
             o   == last'
         IN o.op = "movePinned" /\ {o.key, o.target} \subseteq ToSet(was) =>
              /\ First(now, o.key) = First(was, o.target)
              /\ Remove(now, o.key) = Remove(was, o.key)]_recents
=============================================================================
