------------------------ MODULE S3ConnectionsProofs ------------------------
(***************************************************************************)
(* The saved endpoints and their keys, for any number of requests, saves   *)
(* and restarts.                                                           *)
(***************************************************************************)
EXTENDS S3Connections, TLAPS

Maps == [Refs -> Secrets]

(* A request waits for the file only if it has to do with a key; a save    *)
(* has a reference of its own; what is written is a map.                   *)
JobFits(j) ==
    /\ j.kind # "none"
    /\ (j.kind = "save" /\ j.stored) \/ j.base.ref # 0
    /\ j.kind = "save" => j.edit # 0

WaitFits(r) ==
    /\ where[r] = "idle" <=> job[r].kind = "none"
    /\ where[r] # "idle" => JobFits(job[r])
    /\ where[r] = "writing" => job[r].kind # "use" /\ credentials # NotLoaded
    /\ where[r] \in {"moved", "writing"} => text[r] # Unreadable

VariablesFit ==
    /\ records \in [Endpoints -> Records] /\ onDisk \in [Endpoints -> Records]
    /\ born \subseteq Endpoints /\ edits \in Secrets
    /\ file \in Maps \cup {Unreadable}
    /\ credentials \in Maps \cup {NotLoaded}
    /\ clients \in [Endpoints -> Clients]
    /\ job \in [Handlers -> Jobs] /\ where \in [Handlers -> Places]
    /\ text \in [Handlers -> Maps \cup {Unreadable}]
    /\ restarts \in Nat /\ trouble \subseteq Troubles

TypeInv == VariablesFit /\ \A r \in Handlers : WaitFits(r)

-----------------------------------------------------------------------------
LEMMA MapFacts ==
    /\ Secrets \subseteq Nat /\ 0 \in Secrets /\ Refs = Secrets \ {0} /\ 1 \in Refs
    /\ NoSecrets \in Maps
    /\ \A m \in Maps : m # NotLoaded /\ m # Unreadable
    /\ NoRecord \in Records /\ NoClient \in Clients /\ NoJob \in Jobs
<1>1. Secrets \subseteq Nat /\ 0 \in Secrets /\ Refs = Secrets \ {0} /\ 1 \in Refs
  BY EditsAssumption DEF Secrets, Refs
<1>2. NoSecrets \in Maps
  BY <1>1 DEF NoSecrets, Maps
<1>3. \A m \in Maps : m # NotLoaded /\ m # Unreadable
  BY NotMapsAssumption DEF Maps, Refs, Secrets
<1>4. NoRecord \in Records /\ NoClient \in Clients
  BY <1>1 DEF NoRecord, Records, NoClient, Clients
<1>5. NoJob \in Jobs
  BY <1>1, <1>4, SavedAssumption DEF NoJob, Jobs
<1> QED BY <1>1, <1>2, <1>3, <1>4, <1>5

(* What a handler does once the map is there: it waits for its write, or   *)
(* is done and leaves the map as it was.                                   *)
LEMMA WithMapFits ==
    ASSUME VariablesFit, NEW r \in Handlers, NEW j \in Jobs, JobFits(j),
           NEW m \in Maps, NEW recs \in [Endpoints -> Records],
           WithMap(r, j, m, recs)
    PROVE  /\ records' \in [Endpoints -> Records]
           /\ clients' \in [Endpoints -> Clients]
           /\ job' \in [Handlers -> Jobs] /\ where' \in [Handlers -> Places]
           /\ text' \in [Handlers -> Maps \cup {Unreadable}]
           /\ credentials' \in Maps
           /\ \A q \in Handlers \ {r} :
                where'[q] = where[q] /\ job'[q] = job[q] /\ text'[q] = text[q]
           /\ \/ where'[r] = "idle" /\ job'[r].kind = "none" /\ credentials' = m
              \/ /\ where'[r] = "writing" /\ job'[r] = j /\ j.kind # "use"
                 /\ text'[r] = credentials'
<1> USE DEF VariablesFit
<1>1. /\ j.kind \in {"none", "save", "remove", "use"} /\ j.id \in Endpoints
      /\ j.base \in Records /\ j.base.ref \in Secrets /\ j.base.rev \in Nat
      /\ j.base.edit \in Secrets /\ j.edit \in Secrets
      /\ j.blank \in BOOLEAN /\ j.stored \in BOOLEAN
  BY DEF Jobs, Records
<1>2. ASSUME Answered(r)
      PROVE  /\ job' \in [Handlers -> Jobs] /\ where' \in [Handlers -> Places]
             /\ text' \in [Handlers -> Maps \cup {Unreadable}]
             /\ where'[r] = "idle" /\ job'[r].kind = "none"
             /\ \A q \in Handlers \ {r} :
                  where'[q] = where[q] /\ job'[q] = job[q] /\ text'[q] = text[q]
  <2>1. NoJob.kind = "none" /\ "idle" \in Places
    BY DEF NoJob, Places
  <2> QED BY <1>2, <2>1, MapFacts DEF Answered
<1>3. ASSUME NEW n \in Maps, Waiting(r, j, "writing", n)
      PROVE  /\ job' \in [Handlers -> Jobs] /\ where' \in [Handlers -> Places]
             /\ text' \in [Handlers -> Maps \cup {Unreadable}]
             /\ where'[r] = "writing" /\ job'[r] = j /\ text'[r] = n
             /\ \A q \in Handlers \ {r} :
                  where'[q] = where[q] /\ job'[q] = job[q] /\ text'[q] = text[q]
  BY <1>3 DEF Waiting, Places
<1>4. CASE WriteKey(r, j, m, recs)
  <2>1. RefOf(j) \in Refs
    BY <1>1, <1>4, MapFacts DEF WriteKey, RefOf, JobFits
  <2>2. Merged(j, m) \in Secrets
    BY <1>1, MapFacts DEF Merged, Maps
  <2> DEFINE n == [m EXCEPT ![RefOf(j)] = Merged(j, m)]
  <2>3. n \in Maps
    BY <2>1, <2>2 DEF Maps
  <2> HIDE DEF n
  <2>4. CASE Merged(j, m) # 0
    <3>1. Persist(r, j, n, recs) /\ j.kind = "save"
      BY <1>4, <2>4 DEF WriteKey, n
    <3> QED BY <1>3, <2>3, <3>1 DEF Persist
  <2>5. CASE Merged(j, m) = 0
    BY <1>2, <1>4, <2>5 DEF WriteKey
  <2> QED BY <2>4, <2>5
<1>5. CASE DropKey(r, j, m, recs)
  <2> DEFINE n == [m EXCEPT ![j.base.ref] = 0]
  <2>1. n \in Maps
    BY MapFacts DEF Maps
  <2> HIDE DEF n
  <2>2. CASE m[j.base.ref] # 0
    <3>1. Persist(r, j, n, recs) /\ j.kind # "use"
      BY <1>5, <2>2 DEF DropKey, n
    <3> QED BY <1>3, <2>1, <3>1 DEF Persist
  <2>3. CASE m[j.base.ref] = 0
    <3>1. Conclude(r, j, recs) /\ credentials' = m
      BY <1>5, <2>3 DEF DropKey
    <3>2. RefOf(j) \in Secrets
      BY <1>1, MapFacts DEF RefOf
    <3>3. [rev |-> j.base.rev + 1, ref |-> RefOf(j), edit |-> j.edit] \in Records
      BY <1>1, <3>2 DEF Records
    <3>4. records' \in [Endpoints -> Records]
      BY <3>1, <3>3 DEF Conclude
    <3>5. clients' \in [Endpoints -> Clients]
      BY <3>1, MapFacts DEF Conclude
    <3> QED BY <1>2, <3>1, <3>4, <3>5 DEF Conclude
  <2> QED BY <2>2, <2>3
<1>6. CASE BuildClient(r, j, m, recs)
  <2>1. j.base.ref # 0 /\ m[j.base.ref] \in Secrets
    BY <1>1, <1>6, MapFacts DEF BuildClient, JobFits, Maps
  <2>2. [rev |-> j.base.rev, edit |-> j.base.edit, key |-> m[j.base.ref]] \in Clients
    BY <1>1, <2>1 DEF Clients
  <2>3. clients' \in [Endpoints -> Clients]
    BY <1>6, <2>2 DEF BuildClient
  <2> QED BY <1>2, <1>6, <2>3 DEF BuildClient
<1> QED BY <1>4, <1>5, <1>6 DEF WithMap

(* What the start of a request does to the waits: it is answered, it waits *)
(* for its write with the map that is in memory, or for the file.          *)
Handled(r) ==
    /\ records' \in [Endpoints -> Records]
    /\ clients' \in [Endpoints -> Clients]
    /\ job' \in [Handlers -> Jobs] /\ where' \in [Handlers -> Places]
    /\ text' \in [Handlers -> Maps \cup {Unreadable}]
    /\ credentials' \in Maps \cup {NotLoaded}
    /\ \A q \in Handlers \ {r} :
         where'[q] = where[q] /\ job'[q] = job[q] /\ text'[q] = text[q]
    /\ \/ where'[r] = "idle" /\ job'[r].kind = "none" /\ credentials' = credentials
       \/ /\ where'[r] = "writing" /\ JobFits(job'[r]) /\ job'[r].kind # "use"
          /\ text'[r] = credentials'
          /\ credentials # NotLoaded /\ credentials' # NotLoaded
       \/ where'[r] = "reading" /\ JobFits(job'[r]) /\ credentials' = credentials

LEMMA WithLoadedHandles ==
    ASSUME VariablesFit, NEW r \in Handlers, NEW j \in Jobs, JobFits(j),
           NEW recs \in [Endpoints -> Records], WithLoaded(r, j, recs)
    PROVE  Handled(r)
<1>1. CASE credentials # NotLoaded
  <2>1. credentials \in Maps /\ WithMap(r, j, credentials, recs)
    BY <1>1 DEF VariablesFit, WithLoaded
  <2> QED BY <1>1, <2>1, WithMapFits, MapFacts DEF Handled
<1>2. CASE credentials = NotLoaded
  <2>1. /\ Waiting(r, j, "reading", NoSecrets)
        /\ records' = recs /\ clients' = clients /\ credentials' = credentials
    BY <1>2 DEF WithLoaded
  <2> QED BY <2>1, MapFacts DEF Waiting, VariablesFit, Handled, Places
<1> QED BY <1>1, <1>2

(* A request that has to do with no key is concluded at once. *)
LEMMA ConcludeHandles ==
    ASSUME VariablesFit, NEW r \in Handlers, NEW j \in Jobs,
           NEW recs \in [Endpoints -> Records],
           Conclude(r, j, recs), credentials' = credentials
    PROVE  Handled(r)
<1>1. j.base.rev \in Nat /\ j.base.ref \in Secrets /\ j.edit \in Secrets
  BY DEF Jobs, Records
<1>2. RefOf(j) \in Secrets
  BY <1>1, MapFacts DEF RefOf
<1>3. [rev |-> j.base.rev + 1, ref |-> RefOf(j), edit |-> j.edit] \in Records
  BY <1>1, <1>2 DEF Records
<1>4. records' \in [Endpoints -> Records] /\ clients' \in [Endpoints -> Clients]
  BY <1>3, MapFacts DEF Conclude, VariablesFit
<1>5. /\ job' \in [Handlers -> Jobs] /\ where' \in [Handlers -> Places]
      /\ text' \in [Handlers -> Maps \cup {Unreadable}]
      /\ where'[r] = "idle" /\ job'[r].kind = "none"
      /\ \A q \in Handlers \ {r} :
           where'[q] = where[q] /\ job'[q] = job[q] /\ text'[q] = text[q]
  BY MapFacts DEF Conclude, Answered, VariablesFit, NoJob, Places
<1> QED BY <1>4, <1>5 DEF Handled, VariablesFit

(* The history grows, and remembers two writes at once. *)
LEMMA CrossingRemembers ==
    ASSUME VariablesFit, NEW more \in SUBSET Troubles, Crossing(more)
    PROVE  /\ trouble' \subseteq Troubles /\ trouble \subseteq trouble'
           /\ more \subseteq trouble'
           /\ "crossed" \notin trouble' =>
                \A r, q \in Handlers : where'[r] = "writing" /\ where'[q] = "writing" => r = q
<1>1. "crossed" \in Troubles /\ "tangled" \in Troubles
  BY DEF Troubles
<1> QED BY <1>1 DEF Crossing, Several, VariablesFit

-----------------------------------------------------------------------------
LEMMA SaveHandles ==
    ASSUME VariablesFit, NEW r \in Handlers, NEW e \in Endpoints,
           NEW blank \in BOOLEAN, NEW stored \in BOOLEAN, Save(r, e, blank, stored)
    PROVE  Handled(r) /\ edits' \in Secrets /\ born' \subseteq Endpoints
<1> DEFINE j == [kind |-> "save", id |-> e, base |-> records[e], edit |-> edits + 1,
                 blank |-> blank, stored |-> stored]
<1>1. records[e] \in Records /\ records[e].ref \in Secrets
  BY DEF VariablesFit, Records
<1>2. edits + 1 \in Secrets /\ edits + 1 # 0
  BY EditsAssumption DEF Save, VariablesFit, Secrets
<1>3. j \in Jobs /\ j.kind = "save" /\ j.base = records[e] /\ j.edit = edits + 1
      /\ j.stored = stored
  BY <1>1, <1>2 DEF Jobs
<1>4. IF j.stored \/ j.base.ref # 0
      THEN WithLoaded(r, j, records)
      ELSE Conclude(r, j, records) /\ UNCHANGED credentials
  BY DEF Save
<1> HIDE DEF j
<1>5. Handled(r)
  <2>1. CASE j.stored \/ j.base.ref # 0
    <3>1. JobFits(j)
      BY <1>2, <1>3, <2>1 DEF JobFits
    <3> QED BY <1>3, <1>4, <2>1, <3>1, WithLoadedHandles DEF VariablesFit
  <2>2. CASE ~(j.stored \/ j.base.ref # 0)
    BY <1>3, <1>4, <2>2, ConcludeHandles DEF VariablesFit
  <2> QED BY <2>1, <2>2
<1> QED BY <1>2, <1>5 DEF Save, VariablesFit

LEMMA RemoveHandles ==
    ASSUME VariablesFit, NEW r \in Handlers, NEW e \in Endpoints, RemoveConnection(r, e)
    PROVE  Handled(r)
<1> DEFINE j == [NoJob EXCEPT !.kind = "remove", !.id = e, !.base = records[e]]
           recs == [records EXCEPT ![e] = NoRecord]
<1>1. records[e] \in Records /\ recs \in [Endpoints -> Records]
  BY MapFacts DEF VariablesFit
<1>2. j \in Jobs /\ j.kind = "remove" /\ j.base = records[e]
  BY <1>1, MapFacts DEF Jobs, NoJob
<1>3. IF j.base.ref # 0 THEN WithLoaded(r, j, recs)
      ELSE Conclude(r, j, recs) /\ UNCHANGED credentials
  BY DEF RemoveConnection
<1> HIDE DEF j, recs
<1>4. CASE j.base.ref # 0
  <2>1. JobFits(j)
    BY <1>2, <1>4 DEF JobFits
  <2> QED BY <1>1, <1>2, <1>3, <1>4, <2>1, WithLoadedHandles
<1>5. CASE j.base.ref = 0
  BY <1>1, <1>2, <1>3, <1>5, ConcludeHandles
<1> QED BY <1>4, <1>5

LEMMA UseHandles ==
    ASSUME TypeInv, NEW r \in Handlers, NEW e \in Endpoints, Use(r, e)
    PROVE  Handled(r)
<1> DEFINE j == [NoJob EXCEPT !.kind = "use", !.id = e, !.base = records[e]]
<1>1. records[e] \in Records
  BY DEF TypeInv, VariablesFit
<1>2. j \in Jobs /\ j.kind = "use" /\ j.base = records[e]
  BY <1>1, MapFacts DEF Jobs, NoJob
<1>3. CASE j.base.ref # 0
  <2>1. WithLoaded(r, j, records)
    BY <1>3 DEF Use
  <2> HIDE DEF j
  <2>2. JobFits(j)
    BY <1>2, <1>3 DEF JobFits
  <2> QED BY <1>2, <2>1, <2>2, WithLoadedHandles DEF TypeInv, VariablesFit
<1>4. CASE j.base.ref = 0
  <2>1. [rev |-> j.base.rev, edit |-> j.base.edit, key |-> 0] \in Clients
    BY <1>1, <1>2, MapFacts DEF Records, Clients
  <2>2. clients' \in [Endpoints -> Clients]
    BY <1>4, <2>1 DEF Use, TypeInv, VariablesFit
  <2>3. where[r] = "idle" /\ job[r].kind = "none" /\ UNCHANGED <<records, credentials, job, where, text>>
    BY <1>4 DEF Use, TypeInv, WaitFits
  <2> QED BY <2>2, <2>3 DEF Handled, TypeInv, VariablesFit
<1> QED BY <1>3, <1>4

-----------------------------------------------------------------------------
(* Once a request is handled every wait fits again, if the map that other  *)
(* requests write is still there.                                          *)
LEMMA HandledFits ==
    ASSUME TypeInv, NEW r \in Handlers, Handled(r)
    PROVE  \A q \in Handlers : WaitFits(q)'
<1>1. ASSUME NEW q \in Handlers, q # r
      PROVE  WaitFits(q)'
  <2>1. where'[q] = where[q] /\ job'[q] = job[q] /\ text'[q] = text[q] /\ WaitFits(q)
    BY <1>1 DEF Handled, TypeInv
  <2>2. credentials # NotLoaded => credentials' # NotLoaded
    BY DEF Handled
  <2> QED BY <2>1, <2>2 DEF WaitFits, JobFits
<1>2. WaitFits(r)'
  <2>1. CASE where'[r] = "idle"
    BY <2>1 DEF Handled, WaitFits
  <2>2. CASE where'[r] = "writing"
    <3>1. /\ JobFits(job'[r]) /\ job'[r].kind # "use" /\ credentials' # NotLoaded
          /\ text'[r] = credentials' /\ credentials' \in Maps
      BY <2>2 DEF Handled
    <3> QED BY <2>2, <3>1, MapFacts DEF WaitFits, JobFits
  <2>3. CASE where'[r] = "reading"
    <3>1. JobFits(job'[r])
      BY <2>3 DEF Handled
    <3> QED BY <2>3, <3>1 DEF WaitFits, JobFits
  <2> QED BY <2>1, <2>2, <2>3 DEF Handled
<1> QED BY <1>1, <1>2

(* The entries become the map: the request has been handled, as if the     *)
(* map had been there.                                                     *)
LEMMA InstallFits ==
    ASSUME TypeInv, NEW r \in Handlers, Install(r)
    PROVE  /\ text[r] \in Maps /\ VariablesFit'
           /\ \A q \in Handlers : WaitFits(q)'
           /\ \A q \in Handlers \ {r} : where'[q] = where[q] /\ text'[q] = text[q]
           /\ \/ where'[r] = "idle" /\ credentials' = text[r]
              \/ where'[r] = "writing" /\ text'[r] = credentials'
           /\ trouble \subseteq trouble'
           /\ credentials # NotLoaded => "replaced" \in trouble'
           /\ "crossed" \notin trouble' =>
                \A p, q \in Handlers : where'[p] = "writing" /\ where'[q] = "writing" => p = q
<1>1. text[r] \in Maps /\ job[r] \in Jobs /\ JobFits(job[r])
  BY DEF Install, TypeInv, VariablesFit, WaitFits
<1>2. /\ records' \in [Endpoints -> Records]
      /\ clients' \in [Endpoints -> Clients]
      /\ job' \in [Handlers -> Jobs] /\ where' \in [Handlers -> Places]
      /\ text' \in [Handlers -> Maps \cup {Unreadable}]
      /\ credentials' \in Maps
      /\ \A q \in Handlers \ {r} :
           where'[q] = where[q] /\ job'[q] = job[q] /\ text'[q] = text[q]
      /\ \/ where'[r] = "idle" /\ job'[r].kind = "none" /\ credentials' = text[r]
         \/ /\ where'[r] = "writing" /\ job'[r] = job[r] /\ job[r].kind # "use"
            /\ text'[r] = credentials'
  BY <1>1, WithMapFits DEF Install, TypeInv, VariablesFit
<1>3. PICK more \in SUBSET Troubles :
        Crossing(more) /\ (credentials # NotLoaded => "replaced" \in more)
  BY DEF Install, Troubles
<1>4. /\ trouble' \subseteq Troubles /\ trouble \subseteq trouble' /\ more \subseteq trouble'
      /\ "crossed" \notin trouble' =>
           \A p, q \in Handlers : where'[p] = "writing" /\ where'[q] = "writing" => p = q
  BY <1>3, CrossingRemembers DEF TypeInv
<1>5. VariablesFit'
  BY <1>2, <1>4 DEF Install, TypeInv, VariablesFit
<1>6. credentials' # NotLoaded /\ credentials' # Unreadable
  BY <1>2, MapFacts
<1>7. WaitFits(r)'
  BY <1>1, <1>2, <1>6 DEF WaitFits, JobFits
<1>8. ASSUME NEW q \in Handlers, q # r
      PROVE  WaitFits(q)'
  <2>1. where'[q] = where[q] /\ job'[q] = job[q] /\ text'[q] = text[q] /\ WaitFits(q)
    BY <1>2, <1>8 DEF TypeInv
  <2> QED BY <1>6, <2>1 DEF WaitFits, JobFits
<1> QED BY <1>1, <1>2, <1>3, <1>4, <1>5, <1>7, <1>8

(* A request that was waiting goes on to another wait, or is answered.     *)
Goes(r, place) ==
    /\ where' = [where EXCEPT ![r] = place]
    /\ job' = [job EXCEPT ![r] = IF place = "idle" THEN NoJob ELSE job[r]]

LEMMA GoesFits ==
    ASSUME TypeInv, NEW r \in Handlers, NEW place \in Places \ {"writing"},
           where[r] # "idle", Goes(r, place), credentials' = credentials,
           NEW m \in Maps \cup {Unreadable}, text' = [text EXCEPT ![r] = m],
           place = "moved" => m # Unreadable
    PROVE  /\ job' \in [Handlers -> Jobs] /\ where' \in [Handlers -> Places]
           /\ text' \in [Handlers -> Maps \cup {Unreadable}]
           /\ \A q \in Handlers : WaitFits(q)'
<1>1. NoJob \in Jobs /\ NoJob.kind = "none"
  BY MapFacts DEF NoJob
<1>2. /\ job' \in [Handlers -> Jobs] /\ where' \in [Handlers -> Places]
      /\ text' \in [Handlers -> Maps \cup {Unreadable}]
      /\ where'[r] = place /\ text'[r] = m
      /\ job'[r] = IF place = "idle" THEN NoJob ELSE job[r]
      /\ \A q \in Handlers \ {r} :
           where'[q] = where[q] /\ job'[q] = job[q] /\ text'[q] = text[q]
  BY <1>1 DEF Goes, TypeInv, VariablesFit
<1>3. ASSUME NEW q \in Handlers
      PROVE  WaitFits(q)'
  <2>1. WaitFits(q)
    BY DEF TypeInv
  <2>2. CASE q = r
    BY <1>1, <1>2, <2>1, <2>2 DEF WaitFits, JobFits
  <2>3. CASE q # r
    BY <1>2, <2>1, <2>3 DEF WaitFits, JobFits
  <2> QED BY <2>2, <2>3
<1> QED BY <1>2, <1>3

-----------------------------------------------------------------------------
LEMMA TypeInit == ConnectionInit => TypeInv
<1> SUFFICES ASSUME ConnectionInit PROVE TypeInv
  OBVIOUS
<1>1. [rev |-> 1, ref |-> 1, edit |-> 1] \in Records
  BY MapFacts DEF Records
<1>2. [NoSecrets EXCEPT ![1] = 1] \in Maps
  BY MapFacts DEF Maps
<1>3. "idle" \in Places /\ NoJob.kind = "none" /\ 1 \in Secrets
  BY MapFacts DEF Places, NoJob
<1>4. VariablesFit
  BY <1>1, <1>2, <1>3, MapFacts, SavedAssumption DEF ConnectionInit, VariablesFit
<1>5. \A r \in Handlers : WaitFits(r)
  BY <1>3 DEF ConnectionInit, WaitFits
<1> QED BY <1>4, <1>5 DEF TypeInv

LEMMA TypeStep == TypeInv /\ [ConnectionNext]_connectionVars => TypeInv'
<1> SUFFICES ASSUME TypeInv, [ConnectionNext]_connectionVars
             PROVE  TypeInv'
  OBVIOUS
<1>0. VariablesFit /\ {} \in SUBSET Troubles
  BY DEF TypeInv
<1>1. ASSUME NEW r \in Handlers, NEW e \in Endpoints,
             NEW blank \in BOOLEAN, NEW stored \in BOOLEAN, Save(r, e, blank, stored)
      PROVE  TypeInv'
  <2>1. Handled(r) /\ edits' \in Secrets /\ born' \subseteq Endpoints
    BY <1>0, <1>1, SaveHandles
  <2>2. trouble' \subseteq Troubles
    BY <1>0, <1>1, CrossingRemembers DEF Save
  <2>3. VariablesFit'
    BY <1>0, <1>1, <2>1, <2>2 DEF Save, Handled, VariablesFit
  <2> QED BY <2>1, <2>3, HandledFits DEF TypeInv
<1>2. ASSUME NEW r \in Handlers, NEW e \in Endpoints, RemoveConnection(r, e)
      PROVE  TypeInv'
  <2>1. Handled(r)
    BY <1>0, <1>2, RemoveHandles
  <2>2. trouble' \subseteq Troubles
    BY <1>0, <1>2, CrossingRemembers DEF RemoveConnection
  <2>3. VariablesFit'
    BY <1>0, <1>2, <2>1, <2>2 DEF RemoveConnection, Handled, VariablesFit
  <2> QED BY <2>1, <2>3, HandledFits DEF TypeInv
<1>3. ASSUME NEW r \in Handlers, NEW e \in Endpoints, Use(r, e)
      PROVE  TypeInv'
  <2>1. Handled(r)
    BY <1>3, UseHandles
  <2>2. VariablesFit'
    BY <1>0, <1>3, <2>1 DEF Use, Handled, VariablesFit
  <2> QED BY <2>1, <2>2, HandledFits DEF TypeInv
<1>4. ASSUME NEW r \in Handlers, ReadFile(r)
      PROVE  TypeInv'
  <2>1. /\ where[r] # "idle" /\ Goes(r, "parsing") /\ credentials' = credentials
        /\ text' = [text EXCEPT ![r] = file] /\ file \in Maps \cup {Unreadable}
        /\ "parsing" \in Places
    BY <1>0, <1>4 DEF ReadFile, Waiting, Goes, VariablesFit, Places
  <2>2. /\ job' \in [Handlers -> Jobs] /\ where' \in [Handlers -> Places]
        /\ text' \in [Handlers -> Maps \cup {Unreadable}]
        /\ \A q \in Handlers : WaitFits(q)'
    <3>1. PICK m \in Maps \cup {Unreadable} : text' = [text EXCEPT ![r] = m]
      BY <2>1
    <3>2. "parsing" \in Places \ {"writing"} /\ "parsing" # "moved"
      BY <2>1
    <3> QED BY <2>1, <3>1, <3>2, GoesFits
  <2> QED BY <1>0, <1>4, <2>2 DEF ReadFile, TypeInv, VariablesFit
<1>5. ASSUME NEW r \in Handlers, ReadFails(r) \/ WriteFails(r)
      PROVE  TypeInv'
  <2>1. /\ where[r] # "idle" /\ Goes(r, "idle") /\ credentials' = credentials
        /\ text' = [text EXCEPT ![r] = NoSecrets] /\ "idle" \in Places
    BY <1>5 DEF ReadFails, WriteFails, Answered, Goes, Places
  <2>2. /\ job' \in [Handlers -> Jobs] /\ where' \in [Handlers -> Places]
        /\ text' \in [Handlers -> Maps \cup {Unreadable}]
        /\ \A q \in Handlers : WaitFits(q)'
    BY <2>1, GoesFits, MapFacts
  <2>3. trouble' \subseteq Troubles
    BY <1>0, <1>5 DEF ReadFails, WriteFails, Note, VariablesFit, Troubles
  <2> QED BY <1>0, <1>5, <2>2, <2>3 DEF ReadFails, WriteFails, TypeInv, VariablesFit
<1>6. ASSUME NEW r \in Handlers, Quarantine(r)
      PROVE  TypeInv'
  <2>1. /\ where[r] # "idle" /\ Goes(r, "moved") /\ credentials' = credentials
        /\ text' = [text EXCEPT ![r] = NoSecrets] /\ "moved" \in Places
    BY <1>6 DEF Quarantine, Waiting, Goes, Places
  <2>2. /\ job' \in [Handlers -> Jobs] /\ where' \in [Handlers -> Places]
        /\ text' \in [Handlers -> Maps \cup {Unreadable}]
        /\ \A q \in Handlers : WaitFits(q)'
    BY <2>1, GoesFits, MapFacts
  <2>3. trouble' \subseteq Troubles
    BY <1>0, <1>6 DEF Quarantine, Note, VariablesFit, Troubles
  <2>4. file' \in Maps \cup {Unreadable}
    BY <1>0, <1>6, MapFacts DEF Quarantine, VariablesFit
  <2> QED BY <1>0, <1>6, <2>2, <2>3, <2>4 DEF Quarantine, TypeInv, VariablesFit
<1>7. ASSUME NEW r \in Handlers, Install(r)
      PROVE  TypeInv'
  BY <1>7, InstallFits DEF TypeInv
<1>8. ASSUME NEW r \in Handlers, Renamed(r)
      PROVE  TypeInv'
  <2>1. job[r] \in Jobs /\ text[r] \in Maps
    BY <1>8 DEF Renamed, TypeInv, VariablesFit, WaitFits
  <2>2. Handled(r)
    BY <1>0, <1>8, <2>1, ConcludeHandles DEF Renamed, VariablesFit
  <2>3. VariablesFit'
    BY <1>0, <1>8, <2>1, <2>2 DEF Renamed, Handled, VariablesFit
  <2> QED BY <2>2, <2>3, HandledFits DEF TypeInv
<1>9. CASE RecordsSaved
  BY <1>9 DEF RecordsSaved, TypeInv, VariablesFit, WaitFits, JobFits
<1>10. CASE ServerRestarts
  <2>1. VariablesFit'
    BY <1>0, <1>10, MapFacts DEF ServerRestarts, VariablesFit, Places, Troubles
  <2>2. \A r \in Handlers : WaitFits(r)'
    BY <1>10 DEF ServerRestarts, WaitFits, NoJob
  <2> QED BY <2>1, <2>2 DEF TypeInv
<1>11. CASE UNCHANGED connectionVars
  BY <1>11 DEF connectionVars, TypeInv, VariablesFit, WaitFits, JobFits
<1> QED BY <1>1, <1>2, <1>3, <1>4, <1>5, <1>6, <1>7, <1>8, <1>9, <1>10, <1>11
        DEF ConnectionNext

(* Every variable holds what the code can put there, and who writes has    *)
(* the map: nothing but the end of the process drops it.                   *)
THEOREM ConnectionTypes == ConnectionSpec => []ConnectionTypeOK
<1>1. TypeInv => ConnectionTypeOK
  BY DEF TypeInv, VariablesFit, WaitFits, ConnectionTypeOK, Maps
<1> QED BY <1>1, TypeInit, TypeStep, PTL DEF ConnectionSpec

-----------------------------------------------------------------------------
(* While nothing went wrong and no two writes met, there is one writer, it *)
(* writes what is in memory, and without one the file is what is in        *)
(* memory.  While nothing is in memory, what was read is what the file     *)
(* still holds, for nobody can write it.                                   *)
Clean == trouble \cap {"replaced", "crossed", "failed", "aside"} = {}
NoWriter == \A r \in Handlers : where[r] # "writing"

DiskFits ==
    /\ \A r \in Handlers : where[r] # "moved"
    /\ \A r \in Handlers :
         where[r] = "parsing" /\ credentials = NotLoaded => text[r] = file
    /\ \A r, q \in Handlers : where[r] = "writing" /\ where[q] = "writing" => r = q
    /\ \A r \in Handlers : where[r] = "writing" => text[r] = credentials
    /\ credentials # NotLoaded /\ NoWriter => file = credentials

DiskInv == TypeInv /\ (Clean => DiskFits)

(* The start of a request leaves the disk as it is described: its write is *)
(* the only one, and it writes the map of the memory.                      *)
LEMMA HandledKeepsDisk ==
    ASSUME DiskInv, NEW r \in Handlers, Handled(r), where[r] \in {"idle", "writing"},
           where[r] = "writing" => where'[r] = "idle" /\ credentials' = credentials,
           file' = IF where[r] = "writing" THEN text[r] ELSE file,
           trouble \subseteq trouble',
           "crossed" \notin trouble' =>
             \A p, q \in Handlers : where'[p] = "writing" /\ where'[q] = "writing" => p = q
    PROVE  Clean' => DiskFits'
<1> SUFFICES ASSUME Clean' PROVE DiskFits'
  OBVIOUS
<1>1. Clean /\ "crossed" \notin trouble'
  BY DEF Clean
<1>2. DiskFits /\ TypeInv
  BY <1>1 DEF DiskInv
<1>3. \A q \in Handlers \ {r} : where'[q] = where[q] /\ text'[q] = text[q]
  BY DEF Handled
<1>4. \/ where'[r] = "idle" /\ credentials' = credentials
      \/ where'[r] = "writing" /\ text'[r] = credentials'
         /\ credentials # NotLoaded /\ credentials' # NotLoaded
      \/ where'[r] = "reading" /\ credentials' = credentials
  BY DEF Handled
<1>5. \A p, q \in Handlers : where'[p] = "writing" /\ where'[q] = "writing" => p = q
  BY <1>1
<1>6. credentials' = NotLoaded => credentials = NotLoaded
  BY <1>4
<1>7. \A q \in Handlers : where[q] = "writing" => credentials # NotLoaded
  BY <1>2 DEF TypeInv, WaitFits
<1>8. \A q \in Handlers : where'[q] # "moved"
  BY <1>2, <1>3, <1>4 DEF DiskFits
<1>9. ASSUME NEW q \in Handlers, where'[q] = "parsing", credentials' = NotLoaded
      PROVE  text'[q] = file'
  <2>1. q # r
    BY <1>4, <1>9
  <2>2. where[r] # "writing"
    BY <1>6, <1>7, <1>9
  <2> QED BY <1>2, <1>3, <1>6, <1>9, <2>1, <2>2 DEF DiskFits
<1>10. ASSUME NEW q \in Handlers, where'[q] = "writing"
       PROVE  text'[q] = credentials'
  <2>1. CASE q = r
    BY <1>4, <1>10, <2>1
  <2>2. CASE q # r
    <3>1. where[q] = "writing" /\ text'[q] = text[q] /\ text[q] = credentials
      BY <1>2, <1>3, <1>10, <2>2 DEF DiskFits
    <3>2. where'[r] # "writing"
      BY <1>5, <1>10, <2>2
    <3> QED BY <1>4, <3>1, <3>2
  <2> QED BY <2>1, <2>2
<1>11. ASSUME credentials' # NotLoaded, NoWriter'
       PROVE  file' = credentials'
  <2>1. credentials' = credentials /\ where'[r] # "writing"
    BY <1>4, <1>11 DEF NoWriter
  <2>2. CASE where[r] = "writing"
    BY <1>2, <2>1, <2>2 DEF DiskFits
  <2>3. CASE where[r] # "writing"
    <3>1. NoWriter
      BY <1>3, <1>11, <2>3 DEF NoWriter
    <3> QED BY <1>2, <1>11, <2>1, <2>3, <3>1 DEF DiskFits
  <2> QED BY <2>2, <2>3
<1> QED BY <1>5, <1>8, <1>9, <1>10, <1>11 DEF DiskFits

LEMMA InstallKeepsDisk ==
    ASSUME DiskInv, NEW r \in Handlers, Install(r)
    PROVE  Clean' => DiskFits'
<1> SUFFICES ASSUME Clean' PROVE DiskFits'
  OBVIOUS
<1>0. TypeInv
  BY DEF DiskInv
<1>1. /\ text[r] \in Maps
      /\ \A q \in Handlers \ {r} : where'[q] = where[q] /\ text'[q] = text[q]
      /\ \/ where'[r] = "idle" /\ credentials' = text[r]
         \/ where'[r] = "writing" /\ text'[r] = credentials'
      /\ trouble \subseteq trouble'
      /\ credentials # NotLoaded => "replaced" \in trouble'
      /\ credentials' # NotLoaded
      /\ "crossed" \notin trouble' =>
           \A p, q \in Handlers : where'[p] = "writing" /\ where'[q] = "writing" => p = q
  <2>1. where'[r] = "writing" => credentials' # NotLoaded
    BY <1>0, InstallFits DEF WaitFits
  <2> QED BY <1>0, <2>1, InstallFits, MapFacts
<1>2. Clean /\ "crossed" \notin trouble' /\ credentials = NotLoaded
  BY <1>1 DEF Clean
<1>3. DiskFits
  BY <1>2 DEF DiskInv
<1>4. \A q \in Handlers : where[q] # "writing"
  BY <1>0, <1>2 DEF TypeInv, WaitFits
<1>5. where[r] = "parsing" /\ text[r] = file /\ file' = file
  BY <1>2, <1>3 DEF Install, DiskFits
<1>6. \A q \in Handlers : where'[q] # "moved"
  BY <1>1, <1>3 DEF DiskFits
<1>7. \A q \in Handlers : where'[q] = "writing" => text'[q] = credentials'
  BY <1>1, <1>4
<1>8. NoWriter' => file' = credentials'
  BY <1>1, <1>5 DEF NoWriter
<1> QED BY <1>1, <1>2, <1>6, <1>7, <1>8 DEF DiskFits

(* A call that needs a client waits for the file at most. *)
LEMMA UseDoesNotWrite ==
    ASSUME TypeInv, NEW r \in Handlers, NEW e \in Endpoints, Use(r, e)
    PROVE  where'[r] # "writing"
<1> DEFINE j == [NoJob EXCEPT !.kind = "use", !.id = e, !.base = records[e]]
<1>1. j.kind = "use"
  BY DEF NoJob
<1>2. where[r] = "idle" /\ where \in [Handlers -> Places]
  BY DEF Use, TypeInv, VariablesFit
<1>3. CASE records[e].ref = 0
  <2>1. where' = where
    BY <1>3, MapFacts DEF Use, NoJob
  <2> QED BY <1>2, <2>1
<1>4. CASE records[e].ref # 0
  <2>1. WithLoaded(r, j, records)
    BY <1>4 DEF Use, NoJob
  <2> HIDE DEF j
  <2>2. CASE credentials # NotLoaded
    <3>1. BuildClient(r, j, credentials, records)
      BY <1>1, <2>1, <2>2 DEF WithLoaded, WithMap, WriteKey, DropKey
    <3> QED BY <1>2, <3>1 DEF BuildClient, Answered
  <2>3. CASE credentials = NotLoaded
    BY <1>2, <2>1, <2>3 DEF WithLoaded, Waiting
  <2> QED BY <2>2, <2>3
<1> QED BY <1>3, <1>4

LEMMA DiskInit == ConnectionInit => DiskInv
<1> SUFFICES ASSUME ConnectionInit PROVE DiskFits
  BY TypeInit DEF DiskInv
<1> QED BY DEF ConnectionInit, DiskFits

LEMMA DiskStep == DiskInv /\ [ConnectionNext]_connectionVars => DiskInv'
<1> SUFFICES ASSUME DiskInv, [ConnectionNext]_connectionVars
             PROVE  Clean' => DiskFits'
  BY TypeStep DEF DiskInv
<1>0. TypeInv /\ VariablesFit /\ {} \in SUBSET Troubles
  BY DEF DiskInv, TypeInv
<1>1. ASSUME NEW r \in Handlers, NEW e \in Endpoints,
             NEW blank \in BOOLEAN, NEW stored \in BOOLEAN, Save(r, e, blank, stored)
      PROVE  Clean' => DiskFits'
  <2>1. Handled(r)
    BY <1>0, <1>1, SaveHandles
  <2>2. where[r] = "idle" /\ file' = file /\ Crossing({})
    BY <1>1 DEF Save
  <2> QED BY <1>0, <2>1, <2>2, CrossingRemembers, HandledKeepsDisk
<1>2. ASSUME NEW r \in Handlers, NEW e \in Endpoints, RemoveConnection(r, e)
      PROVE  Clean' => DiskFits'
  <2>1. Handled(r)
    BY <1>0, <1>2, RemoveHandles
  <2>2. where[r] = "idle" /\ file' = file /\ Crossing({})
    BY <1>2 DEF RemoveConnection
  <2> QED BY <1>0, <2>1, <2>2, CrossingRemembers, HandledKeepsDisk
<1>3. ASSUME NEW r \in Handlers, NEW e \in Endpoints, Use(r, e)
      PROVE  Clean' => DiskFits'
  <2> SUFFICES ASSUME Clean' PROVE DiskFits'
    OBVIOUS
  <2>1. Handled(r) /\ Clean /\ DiskFits
    BY <1>0, <1>3, UseHandles DEF Use, Clean, DiskInv
  <2>2. where[r] = "idle" /\ file' = file /\ trouble' = trouble
    BY <1>3 DEF Use
  <2>3. where'[r] # "writing"
    BY <1>0, <1>3, UseDoesNotWrite
  <2>4. \A p, q \in Handlers : where'[p] = "writing" /\ where'[q] = "writing" => p = q
    BY <2>1, <2>3 DEF Handled, DiskFits
  <2> QED BY <1>0, <2>1, <2>2, <2>4, HandledKeepsDisk
<1>4. ASSUME NEW r \in Handlers, ReadFile(r)
      PROVE  Clean' => DiskFits'
  <2>1. /\ where' = [where EXCEPT ![r] = "parsing"] /\ text' = [text EXCEPT ![r] = file]
        /\ where[r] = "reading"
        /\ UNCHANGED <<file, credentials, trouble>>
    BY <1>4 DEF ReadFile, Waiting
  <2> QED BY <1>0, <2>1 DEF DiskInv, DiskFits, Clean, NoWriter, VariablesFit
<1>5. ASSUME NEW r \in Handlers, ReadFails(r) \/ WriteFails(r) \/ Quarantine(r)
      PROVE  Clean' => DiskFits'
  <2>1. "failed" \in trouble' \/ "aside" \in trouble'
    BY <1>5 DEF ReadFails, WriteFails, Quarantine, Note
  <2> QED BY <2>1 DEF Clean
<1>6. ASSUME NEW r \in Handlers, Install(r)
      PROVE  Clean' => DiskFits'
  BY <1>6, InstallKeepsDisk
<1>7. ASSUME NEW r \in Handlers, Renamed(r)
      PROVE  Clean' => DiskFits'
  <2>1. Handled(r) /\ where'[r] = "idle"
    BY <1>0, <1>7, ConcludeHandles DEF Renamed, VariablesFit, Conclude, Answered
  <2>2. where[r] = "writing" /\ file' = text[r] /\ trouble' = trouble
        /\ credentials' = credentials
    BY <1>7 DEF Renamed
  <2> SUFFICES ASSUME Clean' PROVE DiskFits'
    OBVIOUS
  <2>3. DiskFits
    BY <2>2 DEF Clean, DiskInv
  <2>4. \A p, q \in Handlers : where'[p] = "writing" /\ where'[q] = "writing" => p = q
    BY <2>1, <2>3 DEF Handled, DiskFits
  <2> QED BY <2>1, <2>2, <2>4, HandledKeepsDisk
<1>8. CASE RecordsSaved
  BY <1>8 DEF RecordsSaved, DiskInv, DiskFits, Clean, NoWriter
<1>9. CASE ServerRestarts
  <2>1. credentials' = NotLoaded /\ \A r \in Handlers : where'[r] = "idle"
    BY <1>9 DEF ServerRestarts
  <2> QED BY <2>1 DEF DiskFits
<1>10. CASE UNCHANGED connectionVars
  BY <1>10 DEF connectionVars, DiskInv, DiskFits, Clean, NoWriter
<1> QED BY <1>1, <1>2, <1>3, <1>4, <1>5, <1>6, <1>7, <1>8, <1>9, <1>10
        DEF ConnectionNext

(* While writes came one at a time, what was answered is on disk: the file *)
(* is the map of the memory whenever no save or removal is under way.      *)
THEOREM AnsweredStaysOnDisk == ConnectionSpec => []AnsweredIsOnDisk
<1>1. DiskInv => AnsweredIsOnDisk
  <2> SUFFICES ASSUME DiskInv, NoneSaves, credentials # NotLoaded, Clean
               PROVE  file = credentials
    BY DEF AnsweredIsOnDisk, Clean
  <2>1. DiskFits /\ TypeInv
    BY DEF DiskInv
  <2>2. NoWriter
    <3> SUFFICES ASSUME NEW r \in Handlers, where[r] = "writing" PROVE FALSE
      BY DEF NoWriter
    <3>1. job[r].kind \in {"save", "remove"}
      BY <2>1 DEF TypeInv, VariablesFit, WaitFits, JobFits, Jobs
    <3> QED BY <3>1 DEF NoneSaves
  <2> QED BY <2>1, <2>2 DEF DiskFits
<1> QED BY <1>1, DiskInit, DiskStep, PTL DEF ConnectionSpec

-----------------------------------------------------------------------------
(* A reference is a name of one endpoint only: of the one whose save made  *)
(* it, though its record, a record on disk and requests under way may all  *)
(* say it.                                                                 *)
Names(e, k) ==
    /\ k # 0
    /\ \/ k \in {records[e].ref, onDisk[e].ref}
       \/ \E r \in Handlers : job[r].id = e /\ k \in {job[r].base.ref, job[r].edit}

NamesFit ==
    \A e \in Endpoints, k \in Refs : Names(e, k) =>
        /\ k <= edits
        /\ \A f \in Endpoints : Names(f, k) => f = e

(* An endpoint with a record, or with a request that can give it one, has  *)
(* been given its id; and a record counts its revisions from one.          *)
RecordsFit ==
    /\ \A e \in Endpoints :
        /\ records[e] # NoRecord => e \in born /\ records[e].rev # 0
        /\ onDisk[e] # NoRecord => e \in born /\ onDisk[e].rev # 0
    /\ \A r \in Handlers :
        job[r].kind = "save" \/ job[r].base.ref # 0 => job[r].id \in born

(* Until the file has been read, a record that names a key is as it was    *)
(* when the process began, or removed.                                     *)
BasesFit ==
    credentials = NotLoaded =>
        \A r \in Handlers : job[r].base.ref # 0 =>
            records[job[r].id] \in {job[r].base, NoRecord}

Writes(e) == \E r \in Handlers : where[r] = "writing" /\ job[r].id = e

(* A client of the record's revision is that record's, and has its key or  *)
(* a write is under way after which it goes.                               *)
Current(e) ==
    records[e] # NoRecord /\ clients[e].rev = records[e].rev =>
        /\ clients[e].edit = records[e].edit
        /\ records[e].ref # 0 =>
            /\ credentials # NotLoaded
            /\ clients[e].key = credentials[records[e].ref] \/ Writes(e)

Untroubled == trouble \cap {"replaced", "failed"} = {}

CurrentInv ==
    /\ TypeInv /\ NamesFit /\ RecordsFit /\ BasesFit
    /\ Untroubled => \A e \in Endpoints : Current(e)

(* What a step of a handler does for request j: to the jobs, the records   *)
(* and the clients of others nothing, to its own record what the code can. *)
Recorded(r, j) ==
    /\ \A q \in Handlers \ {r} : job'[q] = job[q] /\ where'[q] = where[q]
    /\ job'[r] \in {j, NoJob, job[r]}
    /\ onDisk' = onDisk
    /\ \A f \in Endpoints \ {j.id} : records'[f] = records[f] /\ clients'[f] = clients[f]
    /\ \/ records'[j.id] \in {records[j.id], NoRecord}
       \/ /\ j.kind = "save" /\ clients'[j.id] = NoClient
          /\ records'[j.id].rev # 0
          /\ records'[j.id].ref \in {0, j.base.ref, j.edit}

(* And to the map and its own client, unless it replaces a map.            *)
Mapped(r, j) ==
    /\ credentials # NotLoaded =>
         /\ credentials' # NotLoaded
         /\ \A k \in Refs \ {j.base.ref, j.edit} : credentials'[k] = credentials[k]
    /\ \/ records'[j.id] = NoRecord
       \/ clients'[j.id] = NoClient
       \/ /\ records'[j.id] = records[j.id] /\ clients'[j.id] = clients[j.id]
          /\ \/ where[r] # "writing" /\ credentials \in {credentials', NotLoaded}
             \/ where'[r] = "writing" /\ job'[r] = j /\ credentials' # NotLoaded
       \/ /\ records' = records /\ j.kind = "use" /\ where[r] # "writing"
          /\ j.base.ref # 0 => credentials' # NotLoaded
          /\ clients'[j.id] = [rev |-> j.base.rev, edit |-> j.base.edit,
                               key |-> IF j.base.ref = 0 THEN 0
                                       ELSE credentials'[j.base.ref]]

LEMMA AnsweredEnds ==
    ASSUME VariablesFit, NEW r \in Handlers, Answered(r)
    PROVE  /\ where'[r] = "idle" /\ job'[r] = NoJob
           /\ \A q \in Handlers \ {r} : job'[q] = job[q] /\ where'[q] = where[q]
BY DEF VariablesFit, Answered

LEMMA WaitingWaits ==
    ASSUME VariablesFit, NEW r \in Handlers, NEW j, NEW place, NEW m,
           Waiting(r, j, place, m)
    PROVE  /\ where'[r] = place /\ job'[r] = j
           /\ \A q \in Handlers \ {r} : job'[q] = job[q] /\ where'[q] = where[q]
BY DEF VariablesFit, Waiting

LEMMA ConcludeRecords ==
    ASSUME VariablesFit, NEW r \in Handlers, NEW j \in Jobs, j.kind # "use",
           NEW recs \in [Endpoints -> Records],
           recs \in {records, [records EXCEPT ![j.id] = NoRecord]},
           Conclude(r, j, recs), onDisk' = onDisk
    PROVE  Recorded(r, j) /\ clients'[j.id] = NoClient
<1>1. j.id \in Endpoints /\ j.base.rev \in Nat
  BY DEF Jobs, Records
<1>2. clients'[j.id] = NoClient /\ \A f \in Endpoints \ {j.id} : clients'[f] = clients[f]
  BY <1>1 DEF Conclude, VariablesFit
<1>3. \A f \in Endpoints \ {j.id} : recs[f] = records[f]
  BY <1>1 DEF VariablesFit
<1>4. recs[j.id] \in {records[j.id], NoRecord}
  BY <1>1 DEF VariablesFit
<1>5. CASE j.kind = "save"
  <2> DEFINE saved == [rev |-> j.base.rev + 1, ref |-> RefOf(j), edit |-> j.edit]
  <2>1. records' = [recs EXCEPT ![j.id] = saved]
    BY <1>5 DEF Conclude
  <2>2. records'[j.id] = saved /\ \A f \in Endpoints \ {j.id} : records'[f] = records[f]
    BY <1>1, <1>3, <2>1
  <2>3. saved.rev # 0 /\ saved.ref \in {0, j.base.ref, j.edit}
    BY <1>1 DEF RefOf
  <2> HIDE DEF saved
  <2> QED BY <1>2, <1>5, <2>2, <2>3, AnsweredEnds DEF Conclude, Recorded
<1>6. CASE j.kind # "save"
  <2>1. records' = recs
    BY <1>6 DEF Conclude
  <2> QED BY <1>2, <1>3, <1>4, <2>1, AnsweredEnds DEF Conclude, Recorded
<1> QED BY <1>5, <1>6

LEMMA WithMapWorks ==
    ASSUME VariablesFit, NEW r \in Handlers, where[r] # "writing",
           NEW j \in Jobs, JobFits(j), NEW m \in Maps,
           NEW recs \in [Endpoints -> Records],
           recs \in {records, [records EXCEPT ![j.id] = NoRecord]},
           j.kind = "use" => recs = records,
           WithMap(r, j, m, recs), onDisk' = onDisk
    PROVE  /\ Recorded(r, j) /\ credentials' # NotLoaded
           /\ credentials \in {m, NotLoaded} => Mapped(r, j)
<1>1. /\ j.id \in Endpoints /\ j.base.rev \in Nat /\ j.base.ref \in Secrets
      /\ j.edit \in Secrets
  BY DEF Jobs, Records
<1>2. \A f \in Endpoints \ {j.id} : recs[f] = records[f]
  BY <1>1 DEF VariablesFit
<1>3. recs[j.id] \in {records[j.id], NoRecord}
  BY <1>1 DEF VariablesFit
<1>4. credentials' \in Maps /\ credentials' # NotLoaded
  BY WithMapFits, MapFacts
<1>5. ASSUME Answered(r), credentials' = m, records' = recs, clients' = clients
      PROVE  Recorded(r, j) /\ (credentials \in {m, NotLoaded} => Mapped(r, j))
  <2>1. Recorded(r, j)
    BY <1>2, <1>3, <1>5, AnsweredEnds DEF Recorded
  <2>2. credentials \in {m, NotLoaded} => Mapped(r, j)
    BY <1>3, <1>4, <1>5 DEF Mapped
  <2> QED BY <2>1, <2>2
<1>6. ASSUME NEW k \in {j.base.ref, j.edit}, NEW v,
             Persist(r, j, [m EXCEPT ![k] = v], recs)
      PROVE  Recorded(r, j) /\ (credentials \in {m, NotLoaded} => Mapped(r, j))
  <2>1. /\ where'[r] = "writing" /\ job'[r] = j /\ records' = recs /\ clients' = clients
        /\ \A q \in Handlers \ {r} : job'[q] = job[q] /\ where'[q] = where[q]
    BY <1>6, WaitingWaits DEF Persist
  <2>2. Recorded(r, j)
    BY <1>2, <1>3, <2>1, onDisk' = onDisk DEF Recorded
  <2>3. \A i \in Refs \ {j.base.ref, j.edit} : credentials'[i] = m[i]
    BY <1>6 DEF Persist, Maps
  <2>4. credentials \in {m, NotLoaded} => Mapped(r, j)
    BY <1>3, <1>4, <2>1, <2>3 DEF Mapped
  <2> QED BY <2>2, <2>4
<1>7. ASSUME Conclude(r, j, recs), credentials' = m, j.kind # "use"
      PROVE  Recorded(r, j) /\ (credentials \in {m, NotLoaded} => Mapped(r, j))
  <2>1. Recorded(r, j) /\ clients'[j.id] = NoClient
    BY <1>7, ConcludeRecords
  <2>2. credentials \in {m, NotLoaded} => Mapped(r, j)
    BY <1>4, <1>7, <2>1 DEF Mapped
  <2> QED BY <2>1, <2>2
<1>8. CASE WriteKey(r, j, m, recs)
  <2>1. j.stored => RefOf(j) \in {j.base.ref, j.edit}
    BY DEF RefOf
  <2>2. CASE Merged(j, m) # 0
    <3>1. /\ RefOf(j) \in {j.base.ref, j.edit}
          /\ Persist(r, j, [m EXCEPT ![RefOf(j)] = Merged(j, m)], recs)
      BY <1>8, <2>1, <2>2 DEF WriteKey
    <3>2. Recorded(r, j) /\ (credentials \in {m, NotLoaded} => Mapped(r, j))
      BY <1>6, <3>1, Zenon
    <3> QED BY <1>4, <3>2
  <2>3. CASE Merged(j, m) = 0
    <3>1. Answered(r) /\ credentials' = m /\ records' = recs /\ clients' = clients
      BY <1>8, <2>3 DEF WriteKey
    <3> QED BY <1>4, <1>5, <3>1
  <2> QED BY <2>2, <2>3
<1>9. CASE DropKey(r, j, m, recs)
  <2>1. CASE m[j.base.ref] # 0
    <3>1. /\ j.base.ref \in {j.base.ref, j.edit}
          /\ Persist(r, j, [m EXCEPT ![j.base.ref] = 0], recs)
      BY <1>9, <2>1 DEF DropKey
    <3>2. Recorded(r, j) /\ (credentials \in {m, NotLoaded} => Mapped(r, j))
      BY <1>6, <3>1, Zenon
    <3> QED BY <1>4, <3>2
  <2>2. CASE m[j.base.ref] = 0
    <3>1. Conclude(r, j, recs) /\ credentials' = m /\ j.kind # "use"
      BY <1>9, <2>2 DEF DropKey
    <3> QED BY <1>4, <1>7, <3>1
  <2> QED BY <2>1, <2>2
<1>10. CASE BuildClient(r, j, m, recs)
  <2>1. j.kind = "use" /\ records' = records /\ credentials' = m /\ Answered(r)
        /\ j.base.ref # 0
    BY <1>10 DEF BuildClient, JobFits
  <2>2. CASE m[j.base.ref] = 0
    <3>1. clients' = clients
      BY <1>10, <2>2 DEF BuildClient
    <3> QED BY <1>4, <1>5, <2>1, <3>1
  <2>3. CASE m[j.base.ref] # 0
    <3> DEFINE c == [rev |-> j.base.rev, edit |-> j.base.edit, key |-> m[j.base.ref]]
    <3>1. clients' = [clients EXCEPT ![j.id] = c]
      BY <1>10, <2>3 DEF BuildClient
    <3>2. clients'[j.id] = c /\ \A f \in Endpoints \ {j.id} : clients'[f] = clients[f]
      BY <1>1, <3>1 DEF VariablesFit
    <3>3. Recorded(r, j)
      BY <2>1, <3>2, AnsweredEnds DEF Recorded
    <3>4. credentials \in {m, NotLoaded} => Mapped(r, j)
      BY <1>4, <2>1, <3>2 DEF Mapped
    <3> QED BY <1>4, <3>3, <3>4
  <2> QED BY <2>2, <2>3
<1> QED BY <1>4, <1>8, <1>9, <1>10 DEF WithMap

LEMMA WithLoadedWorks ==
    ASSUME VariablesFit, NEW r \in Handlers, where[r] # "writing",
           NEW j \in Jobs, JobFits(j),
           NEW recs \in [Endpoints -> Records],
           recs \in {records, [records EXCEPT ![j.id] = NoRecord]},
           j.kind = "use" => recs = records,
           WithLoaded(r, j, recs), onDisk' = onDisk
    PROVE  /\ Recorded(r, j) /\ Mapped(r, j)
           /\ credentials' = NotLoaded => records' = recs
<1>1. CASE credentials # NotLoaded
  BY <1>1, WithMapWorks DEF WithLoaded, VariablesFit
<1>2. CASE credentials = NotLoaded
  <2>1. /\ Waiting(r, j, "reading", NoSecrets)
        /\ records' = recs /\ clients' = clients /\ credentials' = credentials
    BY <1>2 DEF WithLoaded
  <2>2. j.id \in Endpoints
    BY DEF Jobs
  <2>3. /\ \A f \in Endpoints \ {j.id} : recs[f] = records[f]
        /\ recs[j.id] \in {records[j.id], NoRecord}
    BY <2>2 DEF VariablesFit
  <2>4. Recorded(r, j)
    BY <2>1, <2>3, WaitingWaits DEF Recorded
  <2>5. Mapped(r, j)
    BY <1>2, <2>1, <2>3 DEF Mapped
  <2> QED BY <2>1, <2>4, <2>5
<1> QED BY <1>1, <1>2
-----------------------------------------------------------------------------
(* The references of j are known to be its endpoint's, or are new.         *)
Knows(j) ==
    \A k \in Refs : k \in {j.base.ref, j.edit} =>
        Names(j.id, k) \/ (k = edits + 1 /\ edits' = edits + 1)

LEMMA NothingNamed ==
    ASSUME NEW k \in Refs
    PROVE  NoRecord.ref # k /\ NoJob.base.ref # k /\ NoJob.edit # k
BY MapFacts DEF NoRecord, NoJob

LEMMA RecordedNames ==
    ASSUME TypeInv, NEW r \in Handlers, NEW j \in Jobs, Recorded(r, j),
           NEW e \in Endpoints, NEW k \in Refs, Names(e, k)'
    PROVE  Names(e, k) \/ (e = j.id /\ k \in {j.base.ref, j.edit})
<1>1. k # 0
  BY MapFacts
<1>2. CASE records'[e].ref = k
  <2>1. CASE e = j.id
    BY <1>1, <1>2, <2>1, NothingNamed DEF Recorded, Names
  <2>2. CASE e # j.id
    BY <1>1, <1>2, <2>2 DEF Recorded, Names
  <2> QED BY <2>1, <2>2
<1>3. CASE onDisk'[e].ref = k
  BY <1>1, <1>3 DEF Recorded, Names
<1>4. ASSUME NEW q \in Handlers, job'[q].id = e, k \in {job'[q].base.ref, job'[q].edit}
      PROVE  Names(e, k) \/ (e = j.id /\ k \in {j.base.ref, j.edit})
  <2>1. job'[q] \in {job[q], j}
    BY <1>4, NothingNamed DEF Recorded
  <2> QED BY <1>1, <1>4, <2>1 DEF Names
<1> QED BY <1>2, <1>3, <1>4 DEF Names

LEMMA NamesStay ==
    ASSUME TypeInv, NamesFit, NEW r \in Handlers, NEW j \in Jobs, Recorded(r, j), Knows(j),
           edits' \in {edits, edits + 1}
    PROVE  NamesFit'
<1>1. edits \in Nat
  BY MapFacts DEF TypeInv, VariablesFit
<1>2. ASSUME NEW e \in Endpoints, NEW k \in Refs, Names(e, k)'
      PROVE  Names(e, k) \/ (e = j.id /\ k = edits + 1 /\ edits' = edits + 1)
  BY <1>2, RecordedNames DEF Knows
<1> SUFFICES ASSUME NEW e \in Endpoints, NEW k \in Refs, Names(e, k)'
             PROVE  k <= edits' /\ \A f \in Endpoints : Names(f, k)' => f = e
  BY DEF NamesFit, Refs
<1>3. k \in Nat
  BY MapFacts
<1>4. k <= edits'
  BY <1>1, <1>2, <1>3 DEF NamesFit
<1>5. ASSUME NEW f \in Endpoints, Names(f, k)'
      PROVE  f = e
  <2>1. CASE Names(f, k) /\ Names(e, k)
    BY <2>1 DEF NamesFit
  <2>2. CASE ~(Names(f, k) /\ Names(e, k))
    <3>1. k = edits + 1
      BY <1>2, <1>5, <2>2
    <3>2. ~Names(f, k) /\ ~Names(e, k)
      BY <1>1, <3>1 DEF NamesFit
    <3> QED BY <1>2, <1>5, <3>2
  <2> QED BY <2>1, <2>2
<1> QED BY <1>4, <1>5

LEMMA RecordsStay ==
    ASSUME TypeInv, RecordsFit, NEW r \in Handlers, NEW j \in Jobs, Recorded(r, j),
           born \subseteq born', j.kind = "save" \/ j.base.ref # 0 => j.id \in born'
    PROVE  RecordsFit'
<1>1. NoJob.kind # "save" /\ NoJob.base.ref = 0
  BY DEF NoJob, NoRecord
<1>2. \A e \in Endpoints : records'[e] # NoRecord => e \in born' /\ records'[e].rev # 0
  <2> SUFFICES ASSUME NEW e \in Endpoints, records'[e] # NoRecord
               PROVE  e \in born' /\ records'[e].rev # 0
    OBVIOUS
  <2>1. CASE records'[e] = records[e]
    BY <2>1 DEF RecordsFit
  <2>2. CASE records'[e] # records[e]
    <3>1. e = j.id
      BY <2>2 DEF Recorded
    <3>2. j.kind = "save" /\ records'[e].rev # 0
      BY <2>2, <3>1 DEF Recorded
    <3> QED BY <3>1, <3>2
  <2> QED BY <2>1, <2>2
<1>3. \A e \in Endpoints : onDisk'[e] # NoRecord => e \in born' /\ onDisk'[e].rev # 0
  BY DEF Recorded, RecordsFit
<1>4. ASSUME NEW q \in Handlers, job'[q].kind = "save" \/ job'[q].base.ref # 0
      PROVE  job'[q].id \in born'
  <2>1. job'[q] \in {job[q], j}
    BY <1>1, <1>4 DEF Recorded
  <2> QED BY <1>4, <2>1 DEF RecordsFit
<1> QED BY <1>2, <1>3, <1>4 DEF RecordsFit

(* Until the file has been read no record that a request has seen changes, *)
(* but to be removed.                                                      *)
LEMMA BasesStay ==
    ASSUME BasesFit, NEW r \in Handlers, NEW j \in Jobs, Recorded(r, j),
           credentials' = NotLoaded =>
             /\ credentials = NotLoaded
             /\ \A q \in Handlers : job[q].base.ref # 0 =>
                  records'[job[q].id] \in {records[job[q].id], NoRecord}
             /\ j.base.ref # 0 => records'[j.id] \in {j.base, NoRecord}
    PROVE  BasesFit'
<1> SUFFICES ASSUME credentials' = NotLoaded, NEW q \in Handlers, job'[q].base.ref # 0
             PROVE  records'[job'[q].id] \in {job'[q].base, NoRecord}
  BY DEF BasesFit
<1>1. NoJob.base.ref = 0
  BY DEF NoJob, NoRecord
<1>2. job'[q] \in {job[q], j}
  BY <1>1 DEF Recorded
<1> QED BY <1>2 DEF BasesFit

LEMMA OthersStayCurrent ==
    ASSUME NEW e \in Endpoints, Current(e),
           records'[e] = records[e], clients'[e] = clients[e], Writes(e) => Writes(e)',
           credentials # NotLoaded /\ records[e].ref # 0 =>
             credentials' # NotLoaded /\ credentials'[records[e].ref] = credentials[records[e].ref]
    PROVE  Current(e)'
BY DEF Current

LEMMA AllStayCurrent ==
    ASSUME TypeInv, NamesFit, RecordsFit', \A e \in Endpoints : Current(e),
           NEW r \in Handlers, NEW j \in Jobs, Recorded(r, j), Mapped(r, j), Knows(j),
           where[r] = "writing" => job[r] = j,
           j.kind = "use" => records[j.id] \in {j.base, NoRecord}
    PROVE  \A e \in Endpoints : Current(e)'
<1>0. j.id \in Endpoints
  BY DEF Jobs
<1>1. ASSUME NEW e \in Endpoints, Writes(e), e # j.id \/ where[r] # "writing"
      PROVE  Writes(e)'
  <2>1. PICK q \in Handlers : where[q] = "writing" /\ job[q].id = e
    BY <1>1 DEF Writes
  <2>2. q # r
    BY <1>1, <2>1
  <2> QED BY <2>1, <2>2 DEF Recorded, Writes
<1>2. ASSUME NEW e \in Endpoints, e # j.id
      PROVE  Current(e)'
  <2>1. records'[e] = records[e] /\ clients'[e] = clients[e] /\ (Writes(e) => Writes(e)')
    BY <1>1, <1>2 DEF Recorded
  <2>2. ASSUME credentials # NotLoaded, records[e].ref # 0
        PROVE  credentials' # NotLoaded
               /\ credentials'[records[e].ref] = credentials[records[e].ref]
    <3>1. records[e].ref \in Refs /\ Names(e, records[e].ref)
      BY <2>2, MapFacts DEF TypeInv, VariablesFit, Records, Names
    <3>2. records[e].ref \notin {j.base.ref, j.edit}
      <4> SUFFICES ASSUME records[e].ref \in {j.base.ref, j.edit} PROVE FALSE
        OBVIOUS
      <4>1. Names(j.id, records[e].ref) \/ records[e].ref = edits + 1
        BY <3>1 DEF Knows
      <4>2. records[e].ref <= edits /\ edits \in Nat /\ records[e].ref # edits + 1
        <5>1. edits \in Nat
          BY MapFacts DEF TypeInv, VariablesFit
        <5>2. records[e].ref <= edits
          BY <3>1 DEF NamesFit
        <5> QED BY <3>1, <5>1, <5>2, MapFacts
      <4> QED BY <1>0, <1>2, <3>1, <4>1, <4>2 DEF NamesFit
    <3> QED BY <2>2, <3>1, <3>2 DEF Mapped
  <2> QED BY <2>1, <2>2, OthersStayCurrent
<1>3. Current(j.id)'
  <2>1. CASE records'[j.id] = NoRecord
    BY <2>1 DEF Current
  <2>2. CASE clients'[j.id] = NoClient
    BY <1>0, <2>2 DEF Current, RecordsFit, NoClient
  <2>3. CASE /\ records'[j.id] = records[j.id] /\ clients'[j.id] = clients[j.id]
             /\ where[r] # "writing" /\ credentials \in {credentials', NotLoaded}
    <3>1. Writes(j.id) => Writes(j.id)'
      BY <1>0, <1>1, <2>3
    <3> QED BY <1>0, <2>3, <3>1, OthersStayCurrent
  <2>4. CASE /\ records'[j.id] = records[j.id] /\ clients'[j.id] = clients[j.id]
             /\ where'[r] = "writing" /\ job'[r] = j /\ credentials' # NotLoaded
    <3>1. Writes(j.id)'
      BY <2>4 DEF Writes
    <3> QED BY <1>0, <2>4, <3>1 DEF Current
  <2>5. CASE /\ records' = records /\ j.kind = "use"
             /\ j.base.ref # 0 => credentials' # NotLoaded
             /\ clients'[j.id] = [rev |-> j.base.rev, edit |-> j.base.edit,
                                  key |-> IF j.base.ref = 0 THEN 0
                                          ELSE credentials'[j.base.ref]]
    BY <2>5 DEF Current
  <2> QED BY <2>1, <2>2, <2>3, <2>4, <2>5 DEF Mapped
<1> QED BY <1>2, <1>3
-----------------------------------------------------------------------------
(* Whatever j does to the records, clients and the map, the invariant      *)
(* stays, if j is what the handler was at or has just begun.               *)
LEMMA WorkedStays ==
    ASSUME CurrentInv, TypeInv', NEW r \in Handlers, NEW j \in Jobs, Recorded(r, j),
           Knows(j), edits' \in {edits, edits + 1}, born \subseteq born',
           j.kind = "save" \/ j.base.ref # 0 => j.id \in born',
           BasesFit', trouble \subseteq trouble',
           Untroubled' => Mapped(r, j),
           where[r] = "writing" => job[r] = j,
           Untroubled' /\ j.kind = "use" => records[j.id] \in {j.base, NoRecord}
    PROVE  CurrentInv'
<1>1. NamesFit'
  BY NamesStay DEF CurrentInv
<1>2. RecordsFit'
  BY RecordsStay DEF CurrentInv
<1>3. ASSUME Untroubled'
      PROVE  \A e \in Endpoints : Current(e)'
  <2>1. \A e \in Endpoints : Current(e)
    BY <1>3 DEF Untroubled, CurrentInv
  <2> QED BY <1>2, <1>3, <2>1, AllStayCurrent DEF CurrentInv
<1> QED BY <1>1, <1>2, <1>3 DEF CurrentInv

LEMMA SaveStaysCurrent ==
    ASSUME CurrentInv, TypeInv', NEW r \in Handlers, NEW e \in Endpoints,
           NEW blank \in BOOLEAN, NEW stored \in BOOLEAN, Save(r, e, blank, stored)
    PROVE  CurrentInv'
<1> DEFINE j == [kind |-> "save", id |-> e, base |-> records[e], edit |-> edits + 1,
                 blank |-> blank, stored |-> stored]
<1>0. TypeInv /\ VariablesFit /\ NamesFit /\ RecordsFit /\ BasesFit
  BY DEF CurrentInv, TypeInv
<1>1. records[e] \in Records
  BY <1>0 DEF VariablesFit
<1>2. edits + 1 \in Secrets /\ edits + 1 # 0
  BY <1>0, EditsAssumption DEF Save, VariablesFit, Secrets
<1>3. /\ j \in Jobs /\ j.kind = "save" /\ j.id = e /\ j.base = records[e]
      /\ j.edit = edits + 1 /\ j.stored = stored
  BY <1>1, <1>2 DEF Jobs
<1>4. /\ where[r] = "idle" /\ (e \in born => records[e] # NoRecord)
      /\ edits' = edits + 1 /\ born' = born \cup {e} /\ onDisk' = onDisk
      /\ Crossing({})
      /\ IF j.stored \/ j.base.ref # 0
         THEN WithLoaded(r, j, records)
         ELSE Conclude(r, j, records) /\ UNCHANGED credentials
  BY DEF Save
<1> HIDE DEF j
<1>5. trouble \subseteq trouble'
  BY <1>0, <1>4, CrossingRemembers
<1>6. Recorded(r, j) /\ Mapped(r, j) /\ BasesFit'
  <2>1. CASE j.stored \/ j.base.ref # 0
    <3>1. JobFits(j)
      BY <1>2, <1>3, <2>1 DEF JobFits
    <3>2. /\ Recorded(r, j) /\ Mapped(r, j)
          /\ credentials' = NotLoaded => records' = records
      BY <1>0, <1>3, <1>4, <2>1, <3>1, WithLoadedWorks DEF VariablesFit
    <3>3. credentials' = NotLoaded => credentials = NotLoaded
      BY <3>2 DEF Mapped
    <3> QED BY <1>0, <1>3, <3>2, <3>3, BasesStay
  <2>2. CASE j.base.ref = 0 /\ Conclude(r, j, records) /\ credentials' = credentials
    <3>1. Recorded(r, j) /\ clients'[j.id] = NoClient
      BY <1>0, <1>3, <1>4, <2>2, ConcludeRecords DEF VariablesFit
    <3>2. Mapped(r, j)
      BY <2>2, <3>1 DEF Mapped
    <3>3. ASSUME credentials = NotLoaded, NEW q \in Handlers, job[q].base.ref # 0
          PROVE  records'[job[q].id] \in {records[job[q].id], NoRecord}
      <4>1. job[q].id \in born /\ job[q].id \in Endpoints
        BY <1>0, <3>3 DEF RecordsFit, VariablesFit
      <4>2. records[job[q].id] \in {job[q].base, NoRecord}
        BY <1>0, <3>3 DEF BasesFit
      <4>3. job[q].id # e
        BY <1>3, <1>4, <2>2, <3>3, <4>1, <4>2
      <4> QED BY <1>3, <3>1, <4>1, <4>3 DEF Recorded
    <3>4. credentials' = NotLoaded =>
            /\ credentials = NotLoaded
            /\ \A q \in Handlers : job[q].base.ref # 0 =>
                 records'[job[q].id] \in {records[job[q].id], NoRecord}
            /\ j.base.ref # 0 => records'[j.id] \in {j.base, NoRecord}
      BY <2>2, <3>3
    <3>5. BasesFit'
      BY <1>0, <1>3, <3>1, <3>4, BasesStay
    <3> QED BY <3>1, <3>2, <3>5
  <2> QED BY <1>4, <2>1, <2>2
<1>7. Knows(j)
  BY <1>3, <1>4, MapFacts DEF Knows, Names
<1> QED BY <1>3, <1>4, <1>5, <1>6, <1>7, WorkedStays

LEMMA RemoveStaysCurrent ==
    ASSUME CurrentInv, TypeInv', NEW r \in Handlers, NEW e \in Endpoints,
           RemoveConnection(r, e)
    PROVE  CurrentInv'
<1> DEFINE j == [NoJob EXCEPT !.kind = "remove", !.id = e, !.base = records[e]]
           recs == [records EXCEPT ![e] = NoRecord]
<1>0. TypeInv /\ VariablesFit /\ NamesFit /\ RecordsFit /\ BasesFit
  BY DEF CurrentInv, TypeInv
<1>1. records[e] \in Records /\ recs \in [Endpoints -> Records]
  BY <1>0, MapFacts DEF VariablesFit
<1>2. j \in Jobs /\ j.kind = "remove" /\ j.id = e /\ j.base = records[e] /\ j.edit = 0
  BY <1>1, MapFacts DEF Jobs, NoJob
<1>3. recs = [records EXCEPT ![j.id] = NoRecord] /\ recs[e] = NoRecord
      /\ \A f \in Endpoints \ {e} : recs[f] = records[f]
  BY <1>0, <1>2 DEF VariablesFit
<1>4. /\ where[r] = "idle" /\ records[e] # NoRecord
      /\ UNCHANGED <<edits, born, onDisk>> /\ Crossing({})
      /\ IF j.base.ref # 0 THEN WithLoaded(r, j, recs)
         ELSE Conclude(r, j, recs) /\ UNCHANGED credentials
  BY DEF RemoveConnection
<1> HIDE DEF j, recs
<1>5. trouble \subseteq trouble'
  BY <1>0, <1>4, CrossingRemembers
<1>6. /\ Recorded(r, j) /\ Mapped(r, j)
      /\ credentials' = NotLoaded => credentials = NotLoaded /\ records' = recs
  <2>1. CASE j.base.ref # 0
    <3>1. JobFits(j)
      BY <1>2, <2>1 DEF JobFits
    <3>2. /\ where[r] # "writing" /\ WithLoaded(r, j, recs) /\ onDisk' = onDisk
          /\ recs \in {records, [records EXCEPT ![j.id] = NoRecord]}
          /\ j.kind # "use"
      BY <1>2, <1>3, <1>4, <2>1
    <3>3. /\ Recorded(r, j) /\ Mapped(r, j)
          /\ credentials' = NotLoaded => records' = recs
      BY <1>0, <1>1, <1>2, <3>1, <3>2, WithLoadedWorks
    <3> QED BY <3>3 DEF Mapped
  <2>2. CASE j.base.ref = 0
    <3>1. Conclude(r, j, recs) /\ credentials' = credentials
      BY <1>4, <2>2
    <3>2. Recorded(r, j) /\ clients'[j.id] = NoClient
      BY <1>0, <1>1, <1>2, <1>3, <1>4, <3>1, ConcludeRecords
    <3>3. records' = recs
      BY <1>2, <3>1 DEF Conclude
    <3> QED BY <3>1, <3>2, <3>3 DEF Mapped
  <2> QED BY <2>1, <2>2
<1>7. BasesFit'
  <2>1. ASSUME credentials' = NotLoaded, NEW q \in Handlers
        PROVE  records'[job[q].id] \in {records[job[q].id], NoRecord}
    <3>1. job[q].id \in Endpoints
      BY <1>0 DEF VariablesFit, Jobs
    <3> QED BY <1>3, <1>6, <2>1, <3>1
  <2> QED BY <1>0, <1>2, <1>3, <1>6, <2>1, BasesStay
<1>8. Knows(j)
  BY <1>2, MapFacts DEF Knows, Names
<1> QED BY <1>0, <1>2, <1>4, <1>5, <1>6, <1>7, <1>8, WorkedStays DEF RecordsFit

LEMMA UseStaysCurrent ==
    ASSUME CurrentInv, TypeInv', NEW r \in Handlers, NEW e \in Endpoints, Use(r, e)
    PROVE  CurrentInv'
<1> DEFINE j == [NoJob EXCEPT !.kind = "use", !.id = e, !.base = records[e]]
<1>0. TypeInv /\ VariablesFit /\ NamesFit /\ RecordsFit /\ BasesFit
  BY DEF CurrentInv, TypeInv
<1>1. records[e] \in Records
  BY <1>0 DEF VariablesFit
<1>2. j \in Jobs /\ j.kind = "use" /\ j.id = e /\ j.base = records[e] /\ j.edit = 0
  BY <1>1, MapFacts DEF Jobs, NoJob
<1>3. /\ where[r] = "idle" /\ records[e] # NoRecord
      /\ UNCHANGED <<edits, born, onDisk, trouble>>
      /\ IF j.base.ref # 0 THEN WithLoaded(r, j, records)
         ELSE /\ clients' = [clients EXCEPT ![e] =
                               [rev |-> j.base.rev, edit |-> j.base.edit, key |-> 0]]
              /\ UNCHANGED <<records, credentials, job, where, text>>
  BY DEF Use
<1> HIDE DEF j
<1>4. /\ Recorded(r, j) /\ Mapped(r, j)
      /\ credentials' = NotLoaded => credentials = NotLoaded /\ records' = records
  <2>1. CASE j.base.ref # 0
    <3>1. JobFits(j)
      BY <1>2, <2>1 DEF JobFits
    <3>2. /\ Recorded(r, j) /\ Mapped(r, j)
          /\ credentials' = NotLoaded => records' = records
      BY <1>0, <1>2, <1>3, <2>1, <3>1, WithLoadedWorks DEF VariablesFit
    <3> QED BY <3>2 DEF Mapped
  <2>2. CASE j.base.ref = 0
    <3> DEFINE c == [rev |-> j.base.rev, edit |-> j.base.edit, key |-> 0]
    <3>1. /\ clients' = [clients EXCEPT ![e] = c]
          /\ UNCHANGED <<records, credentials, job, where, text>>
      BY <1>3, <2>2
    <3>2. clients'[e] = c /\ \A f \in Endpoints \ {e} : clients'[f] = clients[f]
      BY <1>0, <3>1 DEF VariablesFit
    <3>3. Recorded(r, j)
      BY <1>2, <1>3, <3>1, <3>2 DEF Recorded
    <3>4. Mapped(r, j)
      BY <1>2, <1>3, <2>2, <3>1, <3>2 DEF Mapped
    <3> QED BY <3>1, <3>3, <3>4
  <2> QED BY <2>1, <2>2
<1>5. BasesFit'
  BY <1>0, <1>2, <1>4, BasesStay
<1>6. Knows(j)
  BY <1>2, MapFacts DEF Knows, Names
<1> QED BY <1>0, <1>2, <1>3, <1>4, <1>5, <1>6, WorkedStays DEF RecordsFit

LEMMA InstallStaysCurrent ==
    ASSUME CurrentInv, TypeInv', NEW r \in Handlers, Install(r)
    PROVE  CurrentInv'
<1> DEFINE j == job[r]
<1>0. TypeInv /\ VariablesFit /\ NamesFit /\ RecordsFit /\ BasesFit
  BY DEF CurrentInv, TypeInv
<1>1. /\ text[r] \in Maps /\ j \in Jobs /\ JobFits(j) /\ where[r] # "writing"
      /\ WithMap(r, j, text[r], records) /\ UNCHANGED <<edits, born, onDisk>>
  BY <1>0 DEF Install, TypeInv, VariablesFit, WaitFits
<1>2. trouble \subseteq trouble' /\ (credentials # NotLoaded => "replaced" \in trouble')
  BY <1>0, InstallFits
<1>3. /\ Recorded(r, j) /\ credentials' # NotLoaded
      /\ credentials = NotLoaded => Mapped(r, j)
  BY <1>0, <1>1, WithMapWorks DEF VariablesFit
<1>4. BasesFit'
  BY <1>3 DEF BasesFit
<1>5. Knows(j)
  BY <1>1, MapFacts DEF Knows, Names
<1>6. j.kind = "save" \/ j.base.ref # 0 => j.id \in born'
  BY <1>0, <1>1 DEF RecordsFit
<1>7. Untroubled' => credentials = NotLoaded
  BY <1>2 DEF Untroubled
<1>8. Untroubled' /\ j.kind = "use" => records[j.id] \in {j.base, NoRecord}
  BY <1>0, <1>1, <1>7 DEF BasesFit, JobFits
<1> QED BY <1>1, <1>2, <1>3, <1>4, <1>5, <1>6, <1>7, <1>8, WorkedStays

LEMMA RenamedStaysCurrent ==
    ASSUME CurrentInv, TypeInv', NEW r \in Handlers, Renamed(r)
    PROVE  CurrentInv'
<1> DEFINE j == job[r]
<1>0. TypeInv /\ VariablesFit /\ NamesFit /\ RecordsFit /\ BasesFit
  BY DEF CurrentInv, TypeInv
<1>1. /\ j \in Jobs /\ j.kind # "use" /\ credentials # NotLoaded
      /\ Conclude(r, j, records) /\ UNCHANGED <<edits, born, onDisk, credentials, trouble>>
  BY <1>0 DEF Renamed, TypeInv, VariablesFit, WaitFits
<1>2. Recorded(r, j) /\ clients'[j.id] = NoClient
  BY <1>0, <1>1, ConcludeRecords DEF VariablesFit
<1>3. Mapped(r, j)
  BY <1>1, <1>2 DEF Mapped
<1>4. BasesFit'
  BY <1>1 DEF BasesFit
<1>5. Knows(j)
  BY <1>1, MapFacts DEF Knows, Names
<1>6. j.kind = "save" \/ j.base.ref # 0 => j.id \in born'
  BY <1>0, <1>1 DEF RecordsFit
<1> QED BY <1>1, <1>2, <1>3, <1>4, <1>5, <1>6, WorkedStays

(* A handler that goes on waiting, or whose read failed, does none of it.  *)
LEMMA WaitStaysCurrent ==
    ASSUME CurrentInv, TypeInv', NEW r \in Handlers,
           ReadFile(r) \/ ReadFails(r) \/ WriteFails(r) \/ Quarantine(r)
    PROVE  CurrentInv'
<1> DEFINE j == job[r]
<1>0. TypeInv /\ VariablesFit /\ NamesFit /\ RecordsFit /\ BasesFit
  BY DEF CurrentInv, TypeInv
<1>1. /\ j \in Jobs
      /\ UNCHANGED <<records, onDisk, born, edits, credentials, clients>>
      /\ trouble \subseteq trouble'
      /\ where[r] # "writing" \/ "failed" \in trouble'
      /\ \A q \in Handlers \ {r} : job'[q] = job[q] /\ where'[q] = where[q]
      /\ job'[r] \in {j, NoJob}
  <2>1. CASE ReadFile(r) \/ Quarantine(r)
    BY <1>0, <2>1 DEF ReadFile, Quarantine, Waiting, Note, VariablesFit
  <2>2. CASE ReadFails(r) \/ WriteFails(r)
    BY <1>0, <2>2 DEF ReadFails, WriteFails, Answered, Note, VariablesFit
  <2> QED BY <2>1, <2>2
<1>2. Recorded(r, j)
  BY <1>1 DEF Recorded
<1>3. ASSUME Untroubled', NEW e \in Endpoints
      PROVE  Current(e)'
  <2>1. Current(e) /\ where[r] # "writing"
    BY <1>1, <1>3 DEF Untroubled, CurrentInv
  <2>2. Writes(e) => Writes(e)'
    BY <1>1, <2>1 DEF Writes
  <2> QED BY <1>1, <2>1, <2>2, OthersStayCurrent
<1>4. BasesFit'
  <2>1. credentials' = NotLoaded =>
          /\ credentials = NotLoaded
          /\ \A q \in Handlers : job[q].base.ref # 0 =>
               records'[job[q].id] \in {records[job[q].id], NoRecord}
          /\ j.base.ref # 0 => records'[j.id] \in {j.base, NoRecord}
    BY <1>0, <1>1 DEF BasesFit
  <2> QED BY <1>0, <1>1, <1>2, <2>1, BasesStay
<1>5. Knows(j)
  BY <1>1, MapFacts DEF Knows, Names
<1>6. j.kind = "save" \/ j.base.ref # 0 => j.id \in born'
  BY <1>0, <1>1 DEF RecordsFit
<1>7. NamesFit' /\ RecordsFit'
  BY <1>0, <1>1, <1>2, <1>5, <1>6, NamesStay, RecordsStay
<1> QED BY <1>3, <1>4, <1>7 DEF CurrentInv
-----------------------------------------------------------------------------
LEMMA CurrentInit == ConnectionInit => CurrentInv
<1> SUFFICES ASSUME ConnectionInit PROVE CurrentInv
  OBVIOUS
<1>1. /\ \A e \in Endpoints : e # Saved => records[e] = NoRecord
      /\ records[Saved] = [rev |-> 1, ref |-> 1, edit |-> 1]
      /\ onDisk = records /\ born = {Saved} /\ edits = 1
      /\ \A r \in Handlers : job[r] = NoJob
      /\ credentials = NotLoaded
      /\ \A e \in Endpoints : clients[e] = NoClient
  BY SavedAssumption DEF ConnectionInit
<1>2. NamesFit
  <2>1. ASSUME NEW e \in Endpoints, NEW k \in Refs, Names(e, k)
        PROVE  e = Saved /\ k = 1
    BY <1>1, <2>1, NothingNamed DEF Names
  <2> QED BY <1>1, <2>1 DEF NamesFit
<1>3. RecordsFit /\ BasesFit
  BY <1>1 DEF RecordsFit, BasesFit, NoJob, NoRecord
<1>4. \A e \in Endpoints : Current(e)
  BY <1>1 DEF Current, NoClient
<1> QED BY <1>2, <1>3, <1>4, TypeInit DEF CurrentInv

LEMMA CurrentStep == CurrentInv /\ [ConnectionNext]_connectionVars => CurrentInv'
<1> SUFFICES ASSUME CurrentInv, [ConnectionNext]_connectionVars
             PROVE  CurrentInv'
  OBVIOUS
<1>0. TypeInv /\ NamesFit /\ RecordsFit /\ BasesFit /\ TypeInv'
  BY TypeStep DEF CurrentInv
<1>1. ASSUME NEW r \in Handlers, NEW e \in Endpoints,
             NEW blank \in BOOLEAN, NEW stored \in BOOLEAN, Save(r, e, blank, stored)
      PROVE  CurrentInv'
  BY <1>0, <1>1, SaveStaysCurrent
<1>2. ASSUME NEW r \in Handlers, NEW e \in Endpoints, RemoveConnection(r, e)
      PROVE  CurrentInv'
  BY <1>0, <1>2, RemoveStaysCurrent
<1>3. ASSUME NEW r \in Handlers, NEW e \in Endpoints, Use(r, e)
      PROVE  CurrentInv'
  BY <1>0, <1>3, UseStaysCurrent
<1>4. ASSUME NEW r \in Handlers,
             ReadFile(r) \/ ReadFails(r) \/ WriteFails(r) \/ Quarantine(r)
      PROVE  CurrentInv'
  BY <1>0, <1>4, WaitStaysCurrent
<1>5. ASSUME NEW r \in Handlers, Install(r)
      PROVE  CurrentInv'
  BY <1>0, <1>5, InstallStaysCurrent
<1>6. ASSUME NEW r \in Handlers, Renamed(r)
      PROVE  CurrentInv'
  BY <1>0, <1>6, RenamedStaysCurrent
<1>7. CASE RecordsSaved
  <2>1. /\ onDisk' = records
        /\ UNCHANGED <<records, born, edits, credentials, clients, job, where, trouble>>
    BY <1>7 DEF RecordsSaved
  <2>2. ASSUME NEW e \in Endpoints, NEW k \in Refs, Names(e, k)'
        PROVE  Names(e, k)
    BY <2>1, <2>2 DEF Names
  <2>3. NamesFit'
    BY <1>0, <2>1, <2>2 DEF NamesFit, Refs
  <2>4. RecordsFit' /\ BasesFit'
    BY <1>0, <2>1 DEF RecordsFit, BasesFit
  <2>5. Untroubled' => \A e \in Endpoints : Current(e)'
    BY <2>1 DEF CurrentInv, Untroubled, Current, Writes
  <2> QED BY <1>0, <2>3, <2>4, <2>5 DEF CurrentInv
<1>8. CASE ServerRestarts
  <2>1. /\ records' = onDisk /\ credentials' = NotLoaded
        /\ \A e \in Endpoints : clients'[e] = NoClient
        /\ \A r \in Handlers : job'[r] = NoJob
        /\ UNCHANGED <<onDisk, born, edits>>
    BY <1>8 DEF ServerRestarts
  <2>2. ASSUME NEW e \in Endpoints, NEW k \in Refs, Names(e, k)'
        PROVE  Names(e, k)
    BY <2>1, <2>2, NothingNamed DEF Names
  <2>3. NamesFit'
    BY <1>0, <2>1, <2>2 DEF NamesFit, Refs
  <2>4. RecordsFit' /\ BasesFit'
    BY <1>0, <2>1 DEF RecordsFit, BasesFit, NoJob, NoRecord
  <2>5. \A e \in Endpoints : Current(e)'
    BY <1>0, <2>1 DEF RecordsFit, Current, NoClient
  <2> QED BY <1>0, <2>3, <2>4, <2>5 DEF CurrentInv
<1>9. CASE UNCHANGED connectionVars
  BY <1>0, <1>9 DEF connectionVars, CurrentInv, NamesFit, Names, RecordsFit, BasesFit,
                    Untroubled, Current, Writes
<1> QED BY <1>1, <1>2, <1>3, <1>4, <1>5, <1>6, <1>7, <1>8, <1>9 DEF ConnectionNext

(* A cached client of the record's revision was built from that record and *)
(* signs with the key the map has, also when two windows edit the endpoint *)
(* at once, for any handlers, endpoints, saves and restarts.               *)
THEOREM ClientsAreCurrent == ConnectionSpec => []ClientIsCurrent
<1>1. CurrentInv => ClientIsCurrent
  <2> SUFFICES ASSUME CurrentInv, NEW e \in Endpoints,
                      Edits(e) = {}, credentials # NotLoaded,
                      clients[e].rev = records[e].rev, records[e] # NoRecord, Untroubled
               PROVE  /\ clients[e].edit = records[e].edit
                      /\ records[e].ref # 0 => clients[e].key = credentials[records[e].ref]
    BY DEF ClientIsCurrent, Untroubled
  <2>1. Current(e)
    BY DEF CurrentInv
  <2>2. ~Writes(e)
    <3> SUFFICES ASSUME NEW r \in Handlers, where[r] = "writing", job[r].id = e
                 PROVE  FALSE
      BY DEF Writes
    <3>1. job[r].kind \in {"save", "remove"}
      BY DEF CurrentInv, TypeInv, VariablesFit, WaitFits, JobFits, Jobs
    <3> QED BY <3>1 DEF Edits
  <2> QED BY <2>1, <2>2 DEF Current
<1> QED BY <1>1, CurrentInit, CurrentStep, PTL DEF ConnectionSpec
-----------------------------------------------------------------------------
Smooth == trouble \subseteq {"crossed"}

(* The references that are stored for an endpoint: its record's, what the  *)
(* request that edits it will leave or, before that has the map, has seen. *)
Holds(e, k) ==
    \/ Edits(e) = {} /\ k = records[e].ref
    \/ \E r \in Edits(e) :
        \/ where[r] # "writing" /\ k = job[r].base.ref
        \/ where[r] = "writing" /\ job[r].kind = "save" /\ k = RefOf(job[r])

OneEdit == \A e \in Endpoints : \A r, q \in Edits(e) : r = q

EditFits(r) ==
    /\ job[r].kind = "save" /\ where[r] # "writing" =>
         records[job[r].id].ref = job[r].base.ref
    /\ job[r].kind = "remove" => records[job[r].id] = NoRecord

EditsFit == \A r \in Handlers : EditFits(r)

ReadsFit ==
    \A r \in Handlers :
        /\ where[r] # "moved"
        /\ where[r] = "parsing" /\ credentials = NotLoaded => text[r] = file

(* The map, or the file it will be read from, has the references that are  *)
(* stored and no others.                                                   *)
Held(map) == \A k \in Refs : map[k] # 0 <=> \E e \in Endpoints : Holds(e, k)

KeysFit ==
    /\ credentials # NotLoaded => Held(credentials)
    /\ credentials = NotLoaded /\ file # Unreadable => Held(file)

KeyInv == CurrentInv /\ (Smooth => OneEdit /\ EditsFit /\ ReadsFit /\ KeysFit)

(* What is held is a name of that endpoint, hence of no other.             *)
LEMMA HeldByOne ==
    ASSUME TypeInv, NamesFit, NEW e \in Endpoints, NEW f \in Endpoints, NEW k \in Refs,
           Holds(e, k), Holds(f, k)
    PROVE  e = f
<1>1. ASSUME NEW g \in Endpoints, Holds(g, k)
      PROVE  Names(g, k)
  <2>1. k # 0
    BY MapFacts
  <2>2. ASSUME NEW r \in Edits(g), k = RefOf(job[r])
        PROVE  k \in {job[r].base.ref, job[r].edit}
    BY <2>1, <2>2 DEF RefOf
  <2> QED BY <1>1, <2>1, <2>2 DEF Holds, Names, Edits
<1> QED BY <1>1 DEF NamesFit

LEMMA OthersHold ==
    ASSUME NEW r \in Handlers, NEW j \in Jobs, Recorded(r, j),
           job[r] = j \/ job[r].kind = "none", NEW f \in Endpoints, f # j.id
    PROVE  Edits(f)' = Edits(f) /\ \A k : Holds(f, k)' <=> Holds(f, k)
<1>1. r \notin Edits(f) /\ r \notin Edits(f)'
  BY DEF Edits, Recorded, NoJob
<1>2. Edits(f)' = Edits(f)
  BY <1>1 DEF Edits, Recorded
<1>3. \A q \in Edits(f) : where'[q] = where[q] /\ job'[q] = job[q]
  BY <1>1 DEF Edits, Recorded
<1>4. records'[f] = records[f]
  BY DEF Recorded
<1> QED BY <1>2, <1>3, <1>4 DEF Holds

(* A handler that begins nothing leaves it to the one that edits.          *)
LEMMA AnotherHolds ==
    ASSUME NEW r \in Handlers, NEW j \in Jobs, Recorded(r, j), NEW e \in Endpoints,
           r \notin Edits(e), r \notin Edits(e)', Edits(e) # {}
    PROVE  Edits(e)' = Edits(e) /\ \A k : Holds(e, k)' <=> Holds(e, k)
<1>1. Edits(e)' = Edits(e)
  BY DEF Edits, Recorded
<1>2. \A q \in Edits(e) : where'[q] = where[q] /\ job'[q] = job[q]
  BY DEF Edits, Recorded
<1> QED BY <1>1, <1>2 DEF Holds

(* The same references are stored for the endpoint of j: the map that had  *)
(* them all still does.                                                    *)
LEMMA HeldStays ==
    ASSUME NEW r \in Handlers, NEW j \in Jobs, Recorded(r, j),
           job[r] = j \/ job[r].kind = "none", NEW m, Held(m),
           \A k \in Refs : Holds(j.id, k)' <=> Holds(j.id, k)
    PROVE  \A k \in Refs : m[k] # 0 <=> \E e \in Endpoints : Holds(e, k)'
<1>1. \A e \in Endpoints, k \in Refs : Holds(e, k)' <=> Holds(e, k)
  <2> SUFFICES ASSUME NEW e \in Endpoints, NEW k \in Refs
               PROVE  Holds(e, k)' <=> Holds(e, k)
    OBVIOUS
  <2>1. CASE e = j.id
    BY <2>1
  <2>2. CASE e # j.id
    BY <2>2, OthersHold
  <2> QED BY <2>1, <2>2
<1> QED BY <1>1 DEF Held

(* Once the key of j is in the map, or out of it.                          *)
LEMMA HeldAfterWrite ==
    ASSUME TypeInv, NamesFit, NEW r \in Handlers, NEW j \in Jobs, Recorded(r, j), JobFits(j),
           job[r] = j \/ job[r].kind = "none", NEW m \in Maps, Held(m),
           \A k \in Refs : Holds(j.id, k) <=> k = j.base.ref,
           \A k \in Refs : Holds(j.id, k)' <=> j.kind = "save" /\ k = RefOf(j),
           NEW n \in Maps, NEW i \in Refs, \A k \in Refs \ {i} : n[k] = m[k],
           IF j.kind = "save" /\ j.stored THEN i = RefOf(j) /\ n[i] # 0
           ELSE i = j.base.ref /\ n[i] = 0
    PROVE  \A k \in Refs : n[k] # 0 <=> \E e \in Endpoints : Holds(e, k)'
<1>0. j.id \in Endpoints /\ \A k \in Refs : k # 0
  BY MapFacts DEF Jobs
<1>1. \A e \in Endpoints, k \in Refs : e # j.id => (Holds(e, k)' <=> Holds(e, k))
  BY OthersHold
<1>2. ASSUME NEW k \in Refs, k # i
      PROVE  n[k] # 0 <=> \E e \in Endpoints : Holds(e, k)'
  <2>1. Holds(j.id, k)' <=> Holds(j.id, k)
    BY <1>0, <1>2 DEF RefOf
  <2> QED BY <1>1, <1>2, <2>1 DEF Held
<1>3. n[i] # 0 <=> \E e \in Endpoints : Holds(e, i)'
  <2>1. CASE j.kind = "save" /\ j.stored
    BY <1>0, <2>1
  <2>2. CASE ~(j.kind = "save" /\ j.stored)
    <3>1. i = j.base.ref /\ n[i] = 0 /\ Holds(j.id, i)
      BY <2>2
    <3>2. ~Holds(j.id, i)'
      BY <1>0, <2>2 DEF RefOf
    <3>3. \A e \in Endpoints : Holds(e, i) => e = j.id
      BY <1>0, <3>1, HeldByOne
    <3> QED BY <1>1, <3>1, <3>2, <3>3
  <2> QED BY <2>1, <2>2
<1> QED BY <1>2, <1>3

LEMMA EditsStayFit ==
    ASSUME TypeInv, EditsFit, NEW r \in Handlers, NEW j \in Jobs, Recorded(r, j),
           job[r] = j \/ job[r].kind = "none",
           \A q \in Edits(j.id) : q # r => EditFits(q)', EditFits(r)'
    PROVE  EditsFit'
<1> SUFFICES ASSUME NEW q \in Handlers, q # r PROVE EditFits(q)'
  BY DEF EditsFit
<1>1. job'[q] = job[q] /\ where'[q] = where[q] /\ EditFits(q) /\ job[q].id \in Endpoints
  BY DEF Recorded, EditsFit, TypeInv, VariablesFit, Jobs
<1>2. CASE job[q].id # j.id
  BY <1>1, <1>2 DEF Recorded, EditFits
<1>3. CASE job[q].id = j.id /\ job[q].kind \notin {"save", "remove"}
  BY <1>1, <1>3 DEF EditFits
<1>4. CASE job[q].id = j.id /\ job[q].kind \in {"save", "remove"}
  BY <1>4 DEF Edits
<1> QED BY <1>2, <1>3, <1>4

LEMMA WithMapHolds ==
    ASSUME CurrentInv, OneEdit, OneEdit', EditsFit,
           NEW r \in Handlers, where[r] # "writing", NEW j \in Jobs, JobFits(j),
           job[r] = j \/ (job[r].kind = "none" /\ j.base = records[j.id]),
           NEW m \in Maps, Held(m), NEW recs \in [Endpoints -> Records],
           recs \in {records, [records EXCEPT ![j.id] = NoRecord]},
           IF j.kind = "remove" THEN recs[j.id] = NoRecord ELSE recs = records,
           j.kind = "save" => records[j.id].ref = j.base.ref,
           j.kind # "use" /\ Edits(j.id) \subseteq {r} =>
             \A k \in Refs : Holds(j.id, k) <=> k = j.base.ref,
           WithMap(r, j, m, recs), onDisk' = onDisk
    PROVE  /\ EditsFit' /\ credentials' # NotLoaded /\ where'[r] \in {"idle", "writing"}
           /\ \A k \in Refs : credentials'[k] # 0 <=> \E e \in Endpoints : Holds(e, k)'
<1>0. /\ TypeInv /\ VariablesFit /\ NamesFit /\ j.id \in Endpoints /\ j.base.ref \in Secrets
      /\ j.kind \in {"none", "save", "remove", "use"} /\ j.kind # "none"
  BY DEF CurrentInv, TypeInv, Jobs, Records, JobFits
<1>1. Recorded(r, j) /\ credentials' \in Maps /\ credentials' # NotLoaded
  BY <1>0, WithMapWorks, WithMapFits
<1>2. job[r] = j \/ job[r].kind = "none"
  OBVIOUS
<1>3. \A q \in Edits(j.id) : q # r => job'[q] = job[q] /\ where'[q] = where[q] /\ EditFits(q)
                                      /\ job[q].id = j.id
  BY <1>1 DEF Recorded, EditsFit, Edits
\* It is answered, and the record is as it was.
<1>4. ASSUME Answered(r), credentials' = m, records' = records, j.kind # "remove"
      PROVE  /\ EditsFit' /\ where'[r] \in {"idle", "writing"}
             /\ \A k \in Refs : credentials'[k] # 0 <=> \E e \in Endpoints : Holds(e, k)'
  <2>1. where'[r] = "idle" /\ job'[r] = NoJob /\ NoJob.kind = "none"
    BY <1>0, <1>4, AnsweredEnds DEF NoJob
  <2>2. EditsFit'
    <3>1. EditFits(r)'
      BY <2>1 DEF EditFits
    <3>2. \A q \in Edits(j.id) : q # r => EditFits(q)'
      BY <1>3, <1>4 DEF EditFits
    <3> QED BY <1>0, <1>1, <1>2, <3>1, <3>2, EditsStayFit DEF CurrentInv
  <2>3. \A k \in Refs : Holds(j.id, k)' <=> Holds(j.id, k)
    <3>1. r \notin Edits(j.id)'
      BY <2>1 DEF Edits
    <3>2. CASE r \in Edits(j.id)
      <4>1. Edits(j.id) = {r} /\ j.kind = "save" /\ Edits(j.id)' = {}
        <5>1. Edits(j.id) = {r}
          BY <1>0, <3>2 DEF OneEdit
        <5>2. Edits(j.id)' = {}
          BY <1>1, <3>1, <5>1 DEF Edits, Recorded
        <5>3. job[r].kind \in {"save", "remove"}
          BY <3>2 DEF Edits
        <5>4. j.kind \in {"save", "remove"}
          BY <1>2, <5>3
        <5> QED BY <1>4, <5>1, <5>2, <5>4
      <4> QED BY <1>4, <4>1 DEF Holds
    <3>3. CASE r \notin Edits(j.id) /\ Edits(j.id) # {}
      BY <1>0, <1>1, <3>1, <3>3, AnotherHolds
    <3>4. CASE Edits(j.id) = {}
      <4>1. Edits(j.id)' = {}
        BY <1>1, <3>1, <3>4 DEF Edits, Recorded
      <4> QED BY <1>4, <3>4, <4>1 DEF Holds
    <3> QED BY <3>2, <3>3, <3>4
  <2> QED BY <1>1, <1>2, <1>4, <2>1, <2>2, <2>3, HeldStays
\* It waits for its write, and no other edits the endpoint.
<1>5. ASSUME NEW i \in Refs, NEW v \in Secrets, Persist(r, j, [m EXCEPT ![i] = v], recs),
             IF j.kind = "save" /\ j.stored THEN i = RefOf(j) /\ v # 0
             ELSE i = j.base.ref /\ v = 0,
             j.kind # "use"
      PROVE  /\ EditsFit' /\ where'[r] \in {"idle", "writing"}
             /\ \A k \in Refs : credentials'[k] # 0 <=> \E e \in Endpoints : Holds(e, k)'
  <2>1. where'[r] = "writing" /\ job'[r] = j /\ records' = recs
        /\ credentials' = [m EXCEPT ![i] = v]
    BY <1>0, <1>5, WaitingWaits DEF Persist
  <2>2. Edits(j.id)' = {r}
    <3>1. r \in Edits(j.id)'
      BY <1>0, <1>5, <2>1 DEF Edits
    <3> QED BY <1>0, <3>1 DEF OneEdit
  <2>3. Edits(j.id) \subseteq {r}
    BY <1>1, <2>2 DEF Edits, Recorded
  <2>4. EditsFit'
    <3>1. EditFits(r)'
      BY <1>5, <2>1 DEF EditFits
    <3> QED BY <1>0, <1>1, <1>2, <2>3, <3>1, EditsStayFit DEF CurrentInv
  <2>5. \A k \in Refs : Holds(j.id, k) <=> k = j.base.ref
    BY <1>5, <2>3
  <2>6. \A k : Holds(j.id, k)' <=> j.kind = "save" /\ k = RefOf(j)
    BY <2>1, <2>2 DEF Holds
  <2>7. credentials'[i] = v /\ \A k \in Refs \ {i} : credentials'[k] = m[k]
    BY <2>1 DEF Maps
  <2>8. \A k \in Refs : credentials'[k] # 0 <=> \E e \in Endpoints : Holds(e, k)'
    BY <1>0, <1>1, <1>2, <1>5, <2>5, <2>6, <2>7, HeldAfterWrite
  <2> QED BY <2>1, <2>4, <2>8
\* Its key is not there, for another has dropped it and is writing.
<1>6. ASSUME Conclude(r, j, recs), credentials' = m, m[j.base.ref] = 0, j.kind # "use",
             j.base.ref \in Refs
      PROVE  /\ EditsFit' /\ where'[r] \in {"idle", "writing"}
             /\ \A k \in Refs : credentials'[k] # 0 <=> \E e \in Endpoints : Holds(e, k)'
  <2>1. where'[r] = "idle" /\ job'[r] = NoJob /\ NoJob.kind = "none"
    BY <1>0, <1>6, AnsweredEnds DEF Conclude, NoJob
  <2>2. ~Holds(j.id, j.base.ref)
    BY <1>0, <1>6 DEF Held
  <2>3. ~(Edits(j.id) \subseteq {r})
    BY <1>6, <2>2
  <2>4. r \notin Edits(j.id) /\ r \notin Edits(j.id)' /\ Edits(j.id) # {}
    BY <1>0, <2>1, <2>3 DEF OneEdit, Edits
  <2>5. \A k \in Refs : Holds(j.id, k)' <=> Holds(j.id, k)
    BY <1>0, <1>1, <2>4, AnotherHolds
  <2>6. ASSUME NEW q \in Edits(j.id), q # r
        PROVE  EditFits(q)'
    <3>1. q \in Handlers /\ job[r] # j
      BY <1>0, <1>6, <2>4 DEF Edits
    <3>2. j.base = records[j.id] /\ records[j.id].ref \in Refs /\ records[j.id] # NoRecord
      BY <1>6, <3>1, MapFacts DEF NoRecord
    <3>3. job[q].kind = "save" /\ job[q].id = j.id
      BY <1>3, <2>6, <3>2 DEF EditFits, Edits
    <3>4. where[q] = "writing"
      <4> SUFFICES ASSUME where[q] # "writing" PROVE FALSE
        OBVIOUS
      <4>1. job[q].base.ref = j.base.ref
        BY <1>3, <2>6, <3>2, <3>3 DEF EditFits
      <4> QED BY <2>2, <2>6, <4>1 DEF Holds
    <3> QED BY <1>3, <2>6, <3>3, <3>4 DEF EditFits
  <2>7. EditsFit'
    <3>1. EditFits(r)'
      BY <2>1 DEF EditFits
    <3> QED BY <1>0, <1>1, <1>2, <2>6, <3>1, EditsStayFit DEF CurrentInv
  <2> QED BY <1>1, <1>2, <1>6, <2>1, <2>5, <2>7, HeldStays
<1>7. CASE WriteKey(r, j, m, recs)
  <2>1. j.kind = "save" /\ j.stored /\ recs = records
    BY <1>7 DEF WriteKey
  <2>2. CASE Merged(j, m) # 0
    <3>1. RefOf(j) \in Refs /\ Merged(j, m) \in Secrets
      BY <1>0, <2>1, <1>7, MapFacts DEF RefOf, Merged, JobFits, Jobs, Records, Maps
    <3>2. Persist(r, j, [m EXCEPT ![RefOf(j)] = Merged(j, m)], recs)
      BY <1>7, <2>2 DEF WriteKey
    <3> QED BY <1>1, <1>5, <2>1, <2>2, <3>1, <3>2
  <2>3. CASE Merged(j, m) = 0
    <3>1. Answered(r) /\ credentials' = m /\ records' = recs
      BY <1>7, <2>3 DEF WriteKey
    <3> QED BY <1>1, <1>4, <2>1, <3>1
  <2> QED BY <2>2, <2>3
<1>8. CASE DropKey(r, j, m, recs)
  <2>1. /\ j.kind # "use" /\ ~(j.kind = "save" /\ j.stored) /\ j.base.ref \in Refs
        /\ 0 \in Secrets
    BY <1>0, <1>8, MapFacts DEF DropKey, JobFits
  <2>2. CASE m[j.base.ref] # 0
    <3>1. Persist(r, j, [m EXCEPT ![j.base.ref] = 0], recs)
      BY <1>8, <2>2 DEF DropKey
    <3> QED BY <1>1, <1>5, <2>1, <3>1
  <2>3. CASE m[j.base.ref] = 0
    <3>1. Conclude(r, j, recs) /\ credentials' = m
      BY <1>8, <2>3 DEF DropKey
    <3> QED BY <1>1, <1>6, <2>1, <2>3, <3>1
  <2> QED BY <2>2, <2>3
<1>9. CASE BuildClient(r, j, m, recs)
  BY <1>1, <1>4, <1>9 DEF BuildClient
<1> QED BY <1>7, <1>8, <1>9 DEF WithMap
-----------------------------------------------------------------------------
LEMMA NoneTangled ==
    ASSUME NEW more, Crossing(more), Smooth'
    PROVE  OneEdit' /\ more \subseteq {"crossed"} /\ Smooth
BY DEF Crossing, Smooth, Several, OneEdit

LEMMA ReadsStay ==
    ASSUME ReadsFit, NEW r \in Handlers, file' = file, where'[r] \notin {"moved", "parsing"},
           \A q \in Handlers \ {r} : where'[q] = where[q] /\ text'[q] = text[q],
           credentials' = NotLoaded => credentials = NotLoaded
    PROVE  ReadsFit'
<1> SUFFICES ASSUME NEW q \in Handlers
             PROVE  /\ where'[q] # "moved"
                    /\ where'[q] = "parsing" /\ credentials' = NotLoaded => text'[q] = file'
  BY DEF ReadsFit
<1>1. CASE q = r
  BY <1>1
<1>2. CASE q # r
  BY <1>2 DEF ReadsFit
<1> QED BY <1>1, <1>2

(* What holds of j when a handler takes it up: it has just been idle.      *)
LEMMA BegunHolds ==
    ASSUME TypeInv, NEW r \in Handlers, where[r] = "idle", NEW j \in Jobs,
           j.base = records[j.id], Edits(j.id) \subseteq {r}
    PROVE  Edits(j.id) = {} /\ \A k \in Refs : Holds(j.id, k) <=> k = j.base.ref
<1>1. r \notin Edits(j.id)
  BY DEF TypeInv, WaitFits, Edits
<1>2. Edits(j.id) = {}
  BY <1>1
<1> QED BY <1>2 DEF Holds

(* The map is there, or the handler waits for the file and holds what it   *)
(* has seen.                                                               *)
LEMMA WithLoadedHolds ==
    ASSUME KeyInv, Smooth, OneEdit',
           NEW r \in Handlers, where[r] = "idle", NEW j \in Jobs, JobFits(j),
           j.base = records[j.id], NEW recs \in [Endpoints -> Records],
           recs \in {records, [records EXCEPT ![j.id] = NoRecord]},
           IF j.kind = "remove" THEN recs[j.id] = NoRecord ELSE recs = records,
           WithLoaded(r, j, recs), onDisk' = onDisk, file' = file
    PROVE  EditsFit' /\ ReadsFit' /\ KeysFit'
<1>0. /\ CurrentInv /\ TypeInv /\ VariablesFit /\ NamesFit
      /\ OneEdit /\ EditsFit /\ ReadsFit /\ KeysFit
      /\ j.id \in Endpoints /\ job[r].kind = "none" /\ j.kind \in {"save", "remove", "use"}
  BY DEF KeyInv, CurrentInv, TypeInv, WaitFits, Jobs, JobFits
<1>1. Recorded(r, j)
  BY <1>0, WithLoadedWorks
<1>2. CASE credentials # NotLoaded
  <2>1. credentials \in Maps /\ WithMap(r, j, credentials, recs) /\ Held(credentials)
    BY <1>0, <1>2 DEF WithLoaded, VariablesFit, KeysFit
  <2>2. j.kind # "use" /\ Edits(j.id) \subseteq {r} =>
          \A k \in Refs : Holds(j.id, k) <=> k = j.base.ref
    BY <1>0, BegunHolds
  <2>3. /\ EditsFit' /\ credentials' # NotLoaded /\ where'[r] \in {"idle", "writing"}
        /\ \A k \in Refs : credentials'[k] # 0 <=> \E e \in Endpoints : Holds(e, k)'
    BY <1>0, <2>1, <2>2, WithMapHolds
  <2>4. ReadsFit'
    BY <1>0, <1>1, <2>3 DEF ReadsFit, Recorded
  <2> QED BY <2>3, <2>4 DEF KeysFit, Held
<1>3. CASE credentials = NotLoaded
  <2>1. /\ where'[r] = "reading" /\ job'[r] = j /\ records' = recs
        /\ credentials' = NotLoaded /\ text'[r] = NoSecrets
        /\ \A q \in Handlers \ {r} : text'[q] = text[q]
    BY <1>0, <1>3, WaitingWaits DEF WithLoaded, Waiting, VariablesFit
  <2>2. ReadsFit'
    BY <1>0, <1>1, <1>3, <2>1, ReadsStay DEF Recorded
  <2>3. CASE j.kind = "use"
    <3>1. r \notin Edits(j.id) /\ r \notin Edits(j.id)'
      BY <1>0, <2>1, <2>3 DEF Edits
    <3>2. \A k \in Refs : Holds(j.id, k)' <=> Holds(j.id, k)
      <4>1. CASE Edits(j.id) # {}
        BY <1>0, <1>1, <3>1, <4>1, AnotherHolds
      <4>2. CASE Edits(j.id) = {}
        <5>1. Edits(j.id)' = {}
          BY <1>1, <3>1, <4>2 DEF Edits, Recorded
        <5> QED BY <2>1, <2>3, <4>2, <5>1 DEF Holds
      <4> QED BY <4>1, <4>2
    <3>3. EditsFit'
      <4>1. EditFits(r)'
        BY <2>1, <2>3 DEF EditFits
      <4>2. \A q \in Edits(j.id) : q # r => EditFits(q)'
        BY <1>0, <1>1, <2>1, <2>3 DEF EditFits, EditsFit, Recorded, Edits
      <4> QED BY <1>0, <1>1, <4>1, <4>2, EditsStayFit
    <3>4. file # Unreadable =>
            \A k \in Refs : file[k] # 0 <=> \E e \in Endpoints : Holds(e, k)'
      BY <1>0, <1>1, <1>3, <3>2, HeldStays DEF KeysFit
    <3> QED BY <2>1, <2>2, <3>3, <3>4 DEF KeysFit, Held
  <2>4. CASE j.kind # "use"
    <3>1. Edits(j.id)' = {r}
      <4>1. r \in Edits(j.id)'
        BY <1>0, <2>1, <2>4 DEF Edits
      <4> QED BY <1>0, <4>1 DEF OneEdit
    <3>2. Edits(j.id) \subseteq {r}
      BY <1>1, <3>1 DEF Edits, Recorded
    <3>3. \A k \in Refs : Holds(j.id, k)' <=> Holds(j.id, k)
      <4>1. \A k \in Refs : Holds(j.id, k) <=> k = j.base.ref
        BY <1>0, <3>2, BegunHolds
      <4>2. \A k : Holds(j.id, k)' <=> k = j.base.ref
        BY <2>1, <3>1 DEF Holds
      <4> QED BY <4>1, <4>2
    <3>4. EditsFit'
      <4>1. EditFits(r)'
        BY <2>1 DEF EditFits
      <4> QED BY <1>0, <1>1, <3>2, <4>1, EditsStayFit
    <3>5. file # Unreadable =>
            \A k \in Refs : file[k] # 0 <=> \E e \in Endpoints : Holds(e, k)'
      BY <1>0, <1>1, <1>3, <3>3, HeldStays DEF KeysFit
    <3> QED BY <2>1, <2>2, <3>4, <3>5 DEF KeysFit, Held
  <2> QED BY <2>3, <2>4
<1> QED BY <1>2, <1>3
(* A save or a removal that has to do with no key is over at once.         *)
LEMMA KeylessHolds ==
    ASSUME KeyInv, Smooth, NEW r \in Handlers, where[r] = "idle", NEW j \in Jobs,
           j.kind # "use", j.base = records[j.id], j.base.ref = 0,
           Conclude(r, j, records) \/ Conclude(r, j, [records EXCEPT ![j.id] = NoRecord]),
           records'[j.id].ref = 0,
           j.kind = "save" /\ j.id \in born => records[j.id] # NoRecord,
           j.kind # "save" => records'[j.id] = NoRecord,
           UNCHANGED <<onDisk, file, credentials>>
    PROVE  EditsFit' /\ ReadsFit' /\ KeysFit'
<1>0. /\ CurrentInv /\ TypeInv /\ VariablesFit /\ NamesFit /\ RecordsFit
      /\ OneEdit /\ EditsFit /\ ReadsFit /\ KeysFit
      /\ j.id \in Endpoints /\ job[r].kind = "none"
  BY DEF KeyInv, CurrentInv, TypeInv, WaitFits, Jobs
<1>1. Recorded(r, j)
  <2>1. [records EXCEPT ![j.id] = NoRecord] \in [Endpoints -> Records]
        /\ records \in [Endpoints -> Records]
    BY <1>0, MapFacts DEF VariablesFit
  <2> QED BY <1>0, <2>1, ConcludeRecords
<1>2. where'[r] = "idle" /\ job'[r] = NoJob /\ NoJob.kind = "none"
      /\ \A q \in Handlers \ {r} : where'[q] = where[q] /\ text'[q] = text[q]
  BY <1>0 DEF Conclude, Answered, VariablesFit, NoJob
<1>3. r \notin Edits(j.id) /\ r \notin Edits(j.id)'
  BY <1>0, <1>2 DEF Edits
<1>4. \A k \in Refs : Holds(j.id, k)' <=> Holds(j.id, k)
  <2>1. CASE Edits(j.id) # {}
    BY <1>0, <1>1, <1>3, <2>1, AnotherHolds
  <2>2. CASE Edits(j.id) = {}
    <3>1. Edits(j.id)' = {}
      BY <1>1, <1>3, <2>2 DEF Edits, Recorded
    <3>2. \A k \in Refs : k # 0
      BY MapFacts
    <3> QED BY <2>2, <3>1, <3>2 DEF Holds
  <2> QED BY <2>1, <2>2
<1>5. EditsFit'
  <2>1. EditFits(r)'
    BY <1>2 DEF EditFits
  <2>2. ASSUME NEW q \in Edits(j.id), q # r
        PROVE  EditFits(q)'
    <3>1. /\ q \in Handlers /\ job[q].id = j.id /\ EditFits(q)
          /\ job'[q] = job[q] /\ where'[q] = where[q]
      BY <1>0, <1>1, <2>2 DEF Edits, Recorded, EditsFit
    <3>2. ASSUME job[q].kind = "remove"
          PROVE  records'[j.id] = NoRecord
      <4>1. JobFits(job[q])
        BY <1>0, <3>1, <3>2 DEF TypeInv, WaitFits
      <4>2. job[q].base.ref # 0
        BY <3>2, <4>1 DEF JobFits
      <4>3. j.id \in born /\ records[j.id] = NoRecord
        BY <1>0, <3>1, <3>2, <4>2 DEF RecordsFit, EditFits
      <4> QED BY <4>3
    <3> QED BY <3>1, <3>2 DEF EditFits
  <2> QED BY <1>0, <1>1, <2>1, <2>2, EditsStayFit
<1>6. ReadsFit'
  BY <1>0, <1>2, ReadsStay
<1>7. KeysFit'
  <2>1. credentials # NotLoaded =>
          \A k \in Refs : credentials[k] # 0 <=> \E e \in Endpoints : Holds(e, k)'
    BY <1>0, <1>1, <1>4, HeldStays DEF KeysFit
  <2>2. credentials = NotLoaded /\ file # Unreadable =>
          \A k \in Refs : file[k] # 0 <=> \E e \in Endpoints : Holds(e, k)'
    BY <1>0, <1>1, <1>4, HeldStays DEF KeysFit
  <2> QED BY <2>1, <2>2 DEF KeysFit, Held
<1> QED BY <1>5, <1>6, <1>7

LEMMA SaveHolds ==
    ASSUME KeyInv, Smooth', NEW r \in Handlers, NEW e \in Endpoints,
           NEW blank \in BOOLEAN, NEW stored \in BOOLEAN, Save(r, e, blank, stored)
    PROVE  OneEdit' /\ EditsFit' /\ ReadsFit' /\ KeysFit'
<1> DEFINE j == [kind |-> "save", id |-> e, base |-> records[e], edit |-> edits + 1,
                 blank |-> blank, stored |-> stored]
<1>0. VariablesFit
  BY DEF KeyInv, CurrentInv, TypeInv
<1>1. records[e] \in Records
  BY <1>0 DEF VariablesFit
<1>2. edits + 1 \in Secrets /\ edits + 1 # 0
  BY <1>0, EditsAssumption DEF Save, VariablesFit, Secrets
<1>3. /\ j \in Jobs /\ j.kind = "save" /\ j.id = e /\ j.base = records[e]
      /\ j.edit = edits + 1 /\ j.stored = stored
  BY <1>1, <1>2 DEF Jobs
<1>4. /\ where[r] = "idle" /\ (e \in born => records[e] # NoRecord)
      /\ onDisk' = onDisk /\ file' = file /\ Crossing({})
      /\ IF j.stored \/ j.base.ref # 0
         THEN WithLoaded(r, j, records)
         ELSE Conclude(r, j, records) /\ UNCHANGED credentials
  BY DEF Save
<1> HIDE DEF j
<1>5. OneEdit' /\ Smooth
  BY <1>4, NoneTangled
<1>6. CASE j.stored \/ j.base.ref # 0
  <2>1. JobFits(j) /\ records \in [Endpoints -> Records]
    BY <1>0, <1>2, <1>3, <1>6 DEF JobFits, VariablesFit
  <2> QED BY <1>3, <1>4, <1>5, <1>6, <2>1, WithLoadedHolds
<1>7. CASE ~(j.stored \/ j.base.ref # 0)
  <2>1. Conclude(r, j, records) /\ credentials' = credentials /\ j.base.ref = 0 /\ RefOf(j) = 0
    BY <1>4, <1>7 DEF RefOf
  <2>2. records'[j.id].ref = 0
    BY <1>0, <1>3, <2>1 DEF Conclude, VariablesFit
  <2> QED BY <1>3, <1>4, <1>5, <2>1, <2>2, KeylessHolds
<1> QED BY <1>6, <1>7

LEMMA RemoveHolds ==
    ASSUME KeyInv, Smooth', NEW r \in Handlers, NEW e \in Endpoints, RemoveConnection(r, e)
    PROVE  OneEdit' /\ EditsFit' /\ ReadsFit' /\ KeysFit'
<1> DEFINE j == [NoJob EXCEPT !.kind = "remove", !.id = e, !.base = records[e]]
           recs == [records EXCEPT ![e] = NoRecord]
<1>0. VariablesFit
  BY DEF KeyInv, CurrentInv, TypeInv
<1>1. records[e] \in Records /\ recs \in [Endpoints -> Records]
  BY <1>0, MapFacts DEF VariablesFit
<1>2. j \in Jobs /\ j.kind = "remove" /\ j.id = e /\ j.base = records[e] /\ j.edit = 0
  BY <1>1, MapFacts DEF Jobs, NoJob
<1>3. recs = [records EXCEPT ![j.id] = NoRecord] /\ recs[e] = NoRecord
  BY <1>0, <1>2 DEF VariablesFit
<1>4. /\ where[r] = "idle" /\ onDisk' = onDisk /\ file' = file /\ Crossing({})
      /\ IF j.base.ref # 0 THEN WithLoaded(r, j, recs)
         ELSE Conclude(r, j, recs) /\ UNCHANGED credentials
  BY DEF RemoveConnection
<1> HIDE DEF j, recs
<1>5. OneEdit' /\ Smooth
  BY <1>4, NoneTangled
<1>6. CASE j.base.ref # 0
  <2>1. JobFits(j)
    BY <1>2, <1>6 DEF JobFits
  <2> QED BY <1>1, <1>2, <1>3, <1>4, <1>5, <1>6, <2>1, WithLoadedHolds
<1>7. CASE j.base.ref = 0
  <2>1. Conclude(r, j, recs) /\ credentials' = credentials
    BY <1>4, <1>7
  <2>2. records'[j.id] = NoRecord /\ NoRecord.ref = 0
    BY <1>2, <1>3, <2>1 DEF Conclude, NoRecord
  <2> QED BY <1>2, <1>3, <1>4, <1>5, <1>7, <2>1, <2>2, KeylessHolds
<1> QED BY <1>6, <1>7

LEMMA NothingMoves ==
    ASSUME OneEdit, EditsFit, ReadsFit, KeysFit,
           UNCHANGED <<records, file, credentials, job, where, text>>
    PROVE  OneEdit' /\ EditsFit' /\ ReadsFit' /\ KeysFit'
BY DEF OneEdit, EditsFit, EditFits, ReadsFit, KeysFit, Held, Holds, Edits, RefOf

LEMMA UseHolds ==
    ASSUME KeyInv, Smooth', NEW r \in Handlers, NEW e \in Endpoints, Use(r, e)
    PROVE  OneEdit' /\ EditsFit' /\ ReadsFit' /\ KeysFit'
<1> DEFINE j == [NoJob EXCEPT !.kind = "use", !.id = e, !.base = records[e]]
<1>0. TypeInv /\ VariablesFit
  BY DEF KeyInv, CurrentInv, TypeInv
<1>1. records[e] \in Records
  BY <1>0 DEF VariablesFit
<1>2. j \in Jobs /\ j.kind = "use" /\ j.id = e /\ j.base = records[e] /\ j.edit = 0
  BY <1>1, MapFacts DEF Jobs, NoJob
<1>3. /\ where[r] = "idle" /\ UNCHANGED <<onDisk, file, trouble>>
      /\ IF j.base.ref # 0 THEN WithLoaded(r, j, records)
         ELSE UNCHANGED <<records, credentials, job, where, text>>
  BY DEF Use
<1> HIDE DEF j
<1>4. Smooth /\ OneEdit /\ EditsFit /\ ReadsFit /\ KeysFit
  BY <1>3 DEF Smooth, KeyInv
<1>5. CASE j.base.ref # 0
  <2>1. JobFits(j) /\ records \in [Endpoints -> Records]
    BY <1>0, <1>2, <1>5 DEF JobFits, VariablesFit
  <2>2. Recorded(r, j)
    BY <1>0, <1>2, <1>3, <1>5, <2>1, WithLoadedWorks
  <2>3. job[r].kind = "none"
    BY <1>0, <1>3 DEF TypeInv, WaitFits
  <2>4. \A q \in Handlers : job'[q] = job[q] \/ job'[q].kind \notin {"save", "remove"}
    BY <1>2, <2>2, <2>3 DEF Recorded, NoJob
  <2>5. OneEdit'
    BY <1>4, <2>4 DEF OneEdit, Edits
  <2> QED BY <1>2, <1>3, <1>4, <1>5, <2>1, <2>5, WithLoadedHolds
<1>6. CASE j.base.ref = 0
  BY <1>3, <1>4, <1>6, NothingMoves
<1> QED BY <1>5, <1>6

LEMMA InstallHolds ==
    ASSUME KeyInv, Smooth', NEW r \in Handlers, Install(r)
    PROVE  OneEdit' /\ EditsFit' /\ ReadsFit' /\ KeysFit'
<1> DEFINE j == job[r]
<1>0. CurrentInv /\ TypeInv /\ VariablesFit
  BY DEF KeyInv, CurrentInv, TypeInv
<1>1. /\ OneEdit' /\ Smooth /\ credentials = NotLoaded
      /\ OneEdit /\ EditsFit /\ ReadsFit /\ KeysFit
  <2>1. Crossing(IF credentials = NotLoaded THEN {} ELSE {"replaced"})
    BY DEF Install
  <2> QED BY <2>1, NoneTangled DEF KeyInv
<1>2. where[r] = "parsing" /\ text[r] # Unreadable /\ text[r] = file
  BY <1>1 DEF Install, ReadsFit
<1>3. /\ text[r] \in Maps /\ Held(text[r]) /\ j \in Jobs /\ JobFits(j)
      /\ WithMap(r, j, text[r], records) /\ onDisk' = onDisk /\ EditFits(r)
      /\ records \in [Endpoints -> Records]
  BY <1>0, <1>1, <1>2 DEF Install, TypeInv, VariablesFit, WaitFits, KeysFit, EditsFit
<1>4. j.kind # "use" => \A k \in Refs : Holds(j.id, k) <=> k = j.base.ref
  <2> SUFFICES ASSUME j.kind # "use" PROVE \A k \in Refs : Holds(j.id, k) <=> k = j.base.ref
    OBVIOUS
  <2>1. r \in Edits(j.id) /\ j.id \in Endpoints
    BY <1>3 DEF Edits, JobFits, Jobs
  <2>2. Edits(j.id) = {r}
    BY <1>1, <2>1 DEF OneEdit
  <2> QED BY <1>2, <2>2 DEF Holds
<1>5. /\ j.kind = "save" => records[j.id].ref = j.base.ref
      /\ j.kind = "remove" => records[j.id] = NoRecord
  BY <1>2, <1>3 DEF EditFits
<1>6. /\ EditsFit' /\ credentials' # NotLoaded /\ where'[r] \in {"idle", "writing"}
      /\ \A k \in Refs : credentials'[k] # 0 <=> \E e \in Endpoints : Holds(e, k)'
  BY <1>0, <1>1, <1>2, <1>3, <1>4, <1>5, WithMapHolds
<1>7. Recorded(r, j)
  BY <1>0, <1>2, <1>3, WithMapWorks
<1>8. ReadsFit'
  BY <1>1, <1>6, <1>7 DEF ReadsFit, Recorded
<1> QED BY <1>1, <1>6, <1>8 DEF KeysFit, Held

LEMMA RenamedHolds ==
    ASSUME KeyInv, Smooth', NEW r \in Handlers, Renamed(r)
    PROVE  OneEdit' /\ EditsFit' /\ ReadsFit' /\ KeysFit'
<1>0. TypeInv /\ VariablesFit /\ NamesFit
  BY DEF KeyInv, CurrentInv, TypeInv
<1> PICK j \in Jobs : j = job[r]
  BY <1>0 DEF VariablesFit
<1>1. OneEdit /\ EditsFit /\ ReadsFit /\ KeysFit
  BY DEF Renamed, Smooth, KeyInv
<1>2. /\ j.kind \in {"save", "remove"} /\ j.id \in Endpoints
      /\ credentials # NotLoaded /\ where[r] = "writing" /\ EditFits(r)
      /\ Conclude(r, j, records) /\ UNCHANGED <<onDisk, credentials>>
  BY <1>0, <1>1 DEF Renamed, TypeInv, VariablesFit, WaitFits, JobFits, Jobs, EditsFit
<1>3. Recorded(r, j)
  BY <1>0, <1>2, ConcludeRecords DEF VariablesFit
<1>4. where'[r] = "idle" /\ job'[r] = NoJob /\ NoJob.kind = "none"
  BY <1>0, <1>2, AnsweredEnds DEF Conclude, NoJob
<1>5. \A e : Edits(e)' = Edits(e) \ {r}
  BY <1>3, <1>4 DEF Edits, Recorded
<1>6. OneEdit'
  BY <1>1, <1>5 DEF OneEdit
<1>7. Edits(j.id) = {r} /\ Edits(j.id)' = {}
  <2>1. r \in Edits(j.id)
    BY <1>2 DEF Edits
  <2> QED BY <1>1, <1>2, <1>5, <2>1 DEF OneEdit
<1>8. EditsFit'
  <2>1. EditFits(r)'
    BY <1>4 DEF EditFits
  <2> QED BY <1>0, <1>1, <1>2, <1>3, <1>7, <2>1, EditsStayFit
<1>9. ReadsFit'
  BY <1>1, <1>2, <1>3, <1>4 DEF ReadsFit, Recorded
<1>10. \A k \in Refs : Holds(j.id, k)' <=> Holds(j.id, k)
  <2>1. CASE j.kind = "save"
    <3>1. records'[j.id].ref = RefOf(j)
      BY <1>0, <1>2, <2>1 DEF Conclude, VariablesFit
    <3> QED BY <1>2, <1>7, <2>1, <3>1 DEF Holds
  <2>2. CASE j.kind = "remove"
    <3>1. records'[j.id] = NoRecord
      BY <1>2, <2>2 DEF Conclude, EditFits
    <3> QED BY <1>2, <1>7, <2>2, <3>1, NothingNamed DEF Holds
  <2> QED BY <1>2, <2>1, <2>2
<1>11. KeysFit'
  <2>1. \A k \in Refs : credentials[k] # 0 <=> \E e \in Endpoints : Holds(e, k)'
    BY <1>1, <1>2, <1>3, <1>10, HeldStays DEF KeysFit
  <2> QED BY <1>2, <2>1 DEF KeysFit, Held
<1> QED BY <1>6, <1>8, <1>9, <1>11

LEMMA ReadHolds ==
    ASSUME KeyInv, Smooth', NEW r \in Handlers, ReadFile(r)
    PROVE  OneEdit' /\ EditsFit' /\ ReadsFit' /\ KeysFit'
<1>1. OneEdit /\ EditsFit /\ ReadsFit /\ KeysFit /\ VariablesFit
  BY DEF ReadFile, Smooth, KeyInv, CurrentInv, TypeInv
<1>2. /\ where[r] = "reading" /\ where'[r] = "parsing" /\ text'[r] = file
      /\ \A q \in Handlers \ {r} : where'[q] = where[q] /\ text'[q] = text[q]
      /\ UNCHANGED <<records, file, credentials>>
      /\ \A q \in Handlers : job'[q] = job[q]
  BY <1>1 DEF ReadFile, Waiting, VariablesFit
<1>3. \A q \in Handlers : where'[q] = "writing" <=> where[q] = "writing"
  BY <1>2
<1>4. \A e : Edits(e)' = Edits(e)
  BY <1>2 DEF Edits
<1>5. \A e : \A q \in Edits(e) : q \in Handlers
  BY DEF Edits
<1>6. \A e, k : Holds(e, k)' <=> Holds(e, k)
  BY <1>2, <1>3, <1>4, <1>5 DEF Holds, RefOf
<1>7. OneEdit' /\ EditsFit'
  BY <1>1, <1>2, <1>3, <1>4 DEF OneEdit, EditsFit, EditFits
<1>8. ReadsFit'
  <2> SUFFICES ASSUME NEW q \in Handlers
               PROVE  /\ where'[q] # "moved"
                      /\ where'[q] = "parsing" /\ credentials' = NotLoaded => text'[q] = file'
    BY DEF ReadsFit
  <2>1. CASE q = r
    BY <1>2, <2>1
  <2>2. CASE q # r
    BY <1>1, <1>2, <2>2 DEF ReadsFit
  <2> QED BY <2>1, <2>2
<1>9. KeysFit'
  BY <1>1, <1>2, <1>6 DEF KeysFit, Held
<1> QED BY <1>7, <1>8, <1>9

LEMMA RestartHolds ==
    ASSUME KeyInv, Smooth', ServerRestarts
    PROVE  OneEdit' /\ EditsFit' /\ ReadsFit' /\ KeysFit'
<1>1. /\ records' = onDisk /\ file' = file /\ credentials' = NotLoaded
      /\ \A r \in Handlers : job'[r] = NoJob /\ where'[r] = "idle"
      /\ file # Unreadable /\ InUse(file) = Named(onDisk)
  BY DEF ServerRestarts, Smooth
<1>2. \A e : Edits(e)' = {}
  BY <1>1 DEF Edits, NoJob
<1>3. OneEdit' /\ EditsFit' /\ ReadsFit'
  BY <1>1, <1>2 DEF OneEdit, EditsFit, EditFits, ReadsFit, NoJob
<1>4. ASSUME NEW k \in Refs
      PROVE  file'[k] # 0 <=> \E e \in Endpoints : Holds(e, k)'
  <2>1. k # 0
    BY MapFacts
  <2>2. file[k] # 0 <=> \E e \in Endpoints : k = onDisk[e].ref
    BY <1>1, <2>1 DEF InUse, Named
  <2> QED BY <1>1, <1>2, <2>2 DEF Holds
<1> QED BY <1>1, <1>3, <1>4 DEF KeysFit, Held
-----------------------------------------------------------------------------
LEMMA KeyInit == ConnectionInit => KeyInv
<1> SUFFICES ASSUME ConnectionInit PROVE KeyInv
  OBVIOUS
<1>1. /\ \A e \in Endpoints : records[e].ref = IF e = Saved THEN 1 ELSE 0
      /\ \A r \in Handlers : job[r] = NoJob /\ where[r] = "idle"
      /\ credentials = NotLoaded
      /\ file # Unreadable => file = [NoSecrets EXCEPT ![1] = 1]
  BY SavedAssumption DEF ConnectionInit, NoRecord
<1>2. \A e : Edits(e) = {}
  BY <1>1 DEF Edits, NoJob
<1>3. OneEdit /\ EditsFit /\ ReadsFit
  BY <1>1, <1>2 DEF OneEdit, EditsFit, EditFits, ReadsFit, NoJob
<1>4. ASSUME file # Unreadable, NEW k \in Refs
      PROVE  file[k] # 0 <=> \E e \in Endpoints : Holds(e, k)
  <2>1. k # 0 /\ 1 \in Refs
    BY MapFacts
  <2>2. file[k] # 0 <=> k = 1
    BY <1>1, <1>4, <2>1 DEF NoSecrets
  <2>3. (\E e \in Endpoints : Holds(e, k)) <=> k = 1
    BY <1>1, <1>2, <2>1, SavedAssumption DEF Holds
  <2> QED BY <2>2, <2>3
<1>5. KeysFit
  BY <1>1, <1>4 DEF KeysFit, Held
<1> QED BY <1>3, <1>5, CurrentInit DEF KeyInv

LEMMA KeyStep == KeyInv /\ [ConnectionNext]_connectionVars => KeyInv'
<1> SUFFICES ASSUME KeyInv, [ConnectionNext]_connectionVars, Smooth'
             PROVE  OneEdit' /\ EditsFit' /\ ReadsFit' /\ KeysFit'
  BY CurrentStep DEF KeyInv
<1>1. ASSUME NEW r \in Handlers, NEW e \in Endpoints,
             NEW blank \in BOOLEAN, NEW stored \in BOOLEAN, Save(r, e, blank, stored)
      PROVE  OneEdit' /\ EditsFit' /\ ReadsFit' /\ KeysFit'
  BY <1>1, SaveHolds
<1>2. ASSUME NEW r \in Handlers, NEW e \in Endpoints, RemoveConnection(r, e)
      PROVE  OneEdit' /\ EditsFit' /\ ReadsFit' /\ KeysFit'
  BY <1>2, RemoveHolds
<1>3. ASSUME NEW r \in Handlers, NEW e \in Endpoints, Use(r, e)
      PROVE  OneEdit' /\ EditsFit' /\ ReadsFit' /\ KeysFit'
  BY <1>3, UseHolds
<1>4. ASSUME NEW r \in Handlers, ReadFile(r)
      PROVE  OneEdit' /\ EditsFit' /\ ReadsFit' /\ KeysFit'
  BY <1>4, ReadHolds
<1>5. ASSUME NEW r \in Handlers, ReadFails(r) \/ WriteFails(r) \/ Quarantine(r)
      PROVE  FALSE
  BY <1>5 DEF ReadFails, WriteFails, Quarantine, Note, Smooth
<1>6. ASSUME NEW r \in Handlers, Install(r)
      PROVE  OneEdit' /\ EditsFit' /\ ReadsFit' /\ KeysFit'
  BY <1>6, InstallHolds
<1>7. ASSUME NEW r \in Handlers, Renamed(r)
      PROVE  OneEdit' /\ EditsFit' /\ ReadsFit' /\ KeysFit'
  BY <1>7, RenamedHolds
<1>8. CASE RecordsSaved \/ UNCHANGED connectionVars
  <2>1. UNCHANGED <<records, file, credentials, job, where, text, trouble>>
    BY <1>8 DEF RecordsSaved, connectionVars
  <2>2. OneEdit /\ EditsFit /\ ReadsFit /\ KeysFit
    BY <2>1 DEF Smooth, KeyInv
  <2> QED BY <2>1, <2>2, NothingMoves
<1>9. CASE ServerRestarts
  BY <1>9, RestartHolds
<1> QED BY <1>1, <1>2, <1>3, <1>4, <1>5, <1>6, <1>7, <1>8, <1>9 DEF ConnectionNext

(* Unless windows edited the same endpoint at once, first reads crossed or *)
(* the disk failed, the map has the key of every endpoint that signs with  *)
(* a stored one, and no key that is no one's.                              *)
THEOREM RecordsHaveTheirKeys == ConnectionSpec => []RecordHasItsKey
<1>1. KeyInv => RecordHasItsKey
  <2> SUFFICES ASSUME KeyInv, NoneSaves, Smooth, credentials # NotLoaded
               PROVE  InUse(credentials) = Named(records)
    BY DEF RecordHasItsKey, Smooth
  <2>1. Held(credentials) /\ VariablesFit
    BY DEF KeyInv, KeysFit, CurrentInv, TypeInv
  <2>2. \A e : Edits(e) = {}
    BY DEF NoneSaves, Edits
  <2>3. \A k \in Refs : credentials[k] # 0 <=> \E e \in Endpoints : k = records[e].ref
    BY <2>1, <2>2 DEF Held, Holds
  <2>4. \A e \in Endpoints : records[e].ref # 0 => records[e].ref \in Refs
    BY <2>1, MapFacts DEF VariablesFit, Records
  <2>5. \A k \in Refs : k # 0
    BY MapFacts
  <2> QED BY <2>3, <2>4, <2>5 DEF InUse, Named
<1> QED BY <1>1, KeyInit, KeyStep, PTL DEF ConnectionSpec
=============================================================================
