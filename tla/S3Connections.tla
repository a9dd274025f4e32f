--------------------------- MODULE S3Connections ---------------------------
(***************************************************************************)
(* The saved S3 endpoints.  What an endpoint is lives in the settings as a *)
(* record; the key it signs with lives in a file of its own, read once     *)
(* into a map and written whole at every change; a client built from both  *)
(* is cached by the record's revision.  Handlers of several windows        *)
(* interleave wherever one awaits the disk.                                *)
(*   apps/server/src/api/s3/{connectionStore,connections.router}.ts        *)
(*   packages/core/src/s3/{connections,endpointClient}.ts                  *)
(*                                                                         *)
(* An edit is named by a number: it is the key the form carries, the       *)
(* reference a new credential is stored under (a UUID), and whatever else  *)
(* of the endpoint the edit sets.                                          *)
(***************************************************************************)
EXTENDS Naturals

CONSTANTS
    Handlers,       \* of the HTTP requests that are answered at the same time
    Endpoints,      \* ids of connections
    Saved,          \* the one that was saved in an earlier life of the server
    MaxEdits,       \* bound: saves sent
    MaxRestarts,    \* bound: the server ends and starts again
    NotLoaded,      \* credentials: null
    Unreadable      \* a file that holds no JSON object

ASSUME SavedAssumption == Saved \in Endpoints
ASSUME EditsAssumption == MaxEdits \in Nat \ {0} /\ MaxRestarts \in Nat
ASSUME NotMapsAssumption ==
    {NotLoaded, Unreadable} \cap [1..MaxEdits -> 0..MaxEdits] = {}

VARIABLES
    records,        \* settings.s3.connections in memory
    onDisk,         \* the same in settings.json, which follows
    born,           \* the ids given out
    edits,          \* saves sent so far
    file,           \* credentials/s3.json
    credentials,    \* the map in memory
    clients,        \* the cached client of each endpoint
    job,            \* the request a handler works on
    where,          \* the await it is at
    text,           \* what it read, or what it is writing
    restarts,
    trouble         \* history: what went wrong or crossed so far

connectionVars == <<records, onDisk, born, edits, file, credentials, clients,
                    job, where, text, restarts, trouble>>

Secrets   == 0..MaxEdits                    \* 0: none
Refs      == 1..MaxEdits
NoSecrets == [k \in Refs |-> 0]

Records  == [rev : Nat, ref : Secrets, edit : Secrets]
NoRecord == [rev |-> 0, ref |-> 0, edit |-> 0]
Clients  == [rev : Nat, edit : Secrets, key : Secrets]
NoClient == [rev |-> 0, edit |-> 0, key |-> 0]

Jobs == [kind : {"none", "save", "remove", "use"}, id : Endpoints, base : Records,
         edit : Secrets, blank : BOOLEAN, stored : BOOLEAN]
NoJob == [kind |-> "none", id |-> Saved, base |-> NoRecord, edit |-> 0,
          blank |-> FALSE, stored |-> FALSE]
Places == {"idle", "reading", "parsing", "moved", "writing"}
Troubles == {"replaced", "tangled", "crossed", "failed", "aside", "torn"}

ConnectionInit ==
    /\ records = [e \in Endpoints |->
                    IF e = Saved THEN [rev |-> 1, ref |-> 1, edit |-> 1] ELSE NoRecord]
    /\ onDisk = records
    /\ born = {Saved} /\ edits = 1
    /\ file \in {[NoSecrets EXCEPT ![1] = 1], Unreadable}
    /\ credentials = NotLoaded
    /\ clients = [e \in Endpoints |-> NoClient]
    /\ job = [r \in Handlers |-> NoJob]
    /\ where = [r \in Handlers |-> "idle"]
    /\ text = [r \in Handlers |-> NoSecrets]
    /\ restarts = 0 /\ trouble = {}

Note(what) == trouble' = trouble \cup {what}

InUse(map)  == {k \in Refs : map[k] # 0}
Named(recs) == {recs[e].ref : e \in Endpoints} \ {0}

-----------------------------------------------------------------------------
\* Mutated form: every save stores its key under a new reference.
RefAlwaysNew(j) == IF j.stored THEN j.edit ELSE 0

(* The reference a saved record names: the one it had, or a new one. *)
RefOf(j) ==
    CASE ~j.stored -> 0
      [] j.stored /\ j.base.ref # 0 -> j.base.ref
      [] OTHER -> j.edit

(* A blank field means the stored value stands (mergeCredential). *)
Merged(j, m) ==
    CASE ~j.blank -> j.edit
      [] j.blank /\ j.base.ref # 0 -> m[j.base.ref]
      [] OTHER -> 0

Answered(r) ==
    /\ where' = [where EXCEPT ![r] = "idle"]
    /\ job' = [job EXCEPT ![r] = NoJob]
    /\ text' = [text EXCEPT ![r] = NoSecrets]

Waiting(r, j, place, m) ==
    /\ where' = [where EXCEPT ![r] = place]
    /\ job' = [job EXCEPT ![r] = j]
    /\ text' = [text EXCEPT ![r] = m]

\* Mutated form: the client that was built before stays.
ConcludeKeepingClient(r, j, recs) ==
    /\ records' = IF j.kind = "save"
                  THEN [recs EXCEPT ![j.id] =
                          [rev |-> j.base.rev + 1, ref |-> RefOf(j), edit |-> j.edit]]
                  ELSE recs
    /\ UNCHANGED clients
    /\ Answered(r)

(* The end of a save, which puts the record, and of a removal: the router  *)
(* drops the endpoint's client.                                            *)
Conclude(r, j, recs) ==
    /\ records' = IF j.kind = "save"
                  THEN [recs EXCEPT ![j.id] =
                          [rev |-> j.base.rev + 1, ref |-> RefOf(j), edit |-> j.edit]]
                  ELSE recs
    /\ clients' = [clients EXCEPT ![j.id] = NoClient]
    /\ Answered(r)

(* The map is changed, and all of it is on its way to the file. *)
Persist(r, j, m, recs) ==
    /\ credentials' = m
    /\ Waiting(r, j, "writing", m)
    /\ records' = recs /\ UNCHANGED clients

(* From where the map m is there, without another wait up to a write. *)
WriteKey(r, j, m, recs) ==
    /\ j.kind = "save" /\ j.stored
    /\ IF Merged(j, m) # 0
       THEN Persist(r, j, [m EXCEPT ![RefOf(j)] = Merged(j, m)], recs)
       ELSE Answered(r) /\ credentials' = m /\ records' = recs /\ UNCHANGED clients

\* Mutated form: a removed key is dropped from the map and left in the file.
DropKeyUnwritten(r, j, m, recs) ==
    /\ j.kind = "remove" \/ (j.kind = "save" /\ ~j.stored)
    /\ Conclude(r, j, recs) /\ credentials' = [m EXCEPT ![j.base.ref] = 0]

DropKey(r, j, m, recs) ==
    /\ j.kind = "remove" \/ (j.kind = "save" /\ ~j.stored)
    /\ IF m[j.base.ref] # 0
       THEN Persist(r, j, [m EXCEPT ![j.base.ref] = 0], recs)
       ELSE Conclude(r, j, recs) /\ credentials' = m

(* endpointClient: built from the record as it was when the request came.  *)
BuildClient(r, j, m, recs) ==
    /\ j.kind = "use"
    /\ clients' = IF m[j.base.ref] = 0 THEN clients
                  ELSE [clients EXCEPT ![j.id] =
                          [rev |-> j.base.rev, edit |-> j.base.edit, key |-> m[j.base.ref]]]
    /\ Answered(r) /\ credentials' = m /\ records' = recs

WithMap(r, j, m, recs) ==
    WriteKey(r, j, m, recs) \/ DropKey(r, j, m, recs) \/ BuildClient(r, j, m, recs)

(* loaded(): the map if it is there; if not, the file is read first. *)
WithLoaded(r, j, recs) ==
    IF credentials # NotLoaded THEN WithMap(r, j, credentials, recs)
    ELSE /\ Waiting(r, j, "reading", NoSecrets)
         /\ records' = recs /\ UNCHANGED <<credentials, clients>>

Edits(e) == {r \in Handlers : job[r].id = e /\ job[r].kind \in {"save", "remove"}}

Several(set) == \E r, q \in set : r # q

(* History: what two requests do at once from here on. *)
Crossing(more) ==
    trouble' = trouble \cup more
        \cup (IF Several({r \in Handlers : where'[r] = "writing"}) THEN {"crossed"} ELSE {})
        \cup (IF \E e \in Endpoints : Several(Edits(e)') THEN {"tangled"} ELSE {})

-----------------------------------------------------------------------------
(* saveConnection; an endpoint that has no id yet is given one. *)
Save(r, e, blank, stored) ==
    LET j == [kind |-> "save", id |-> e, base |-> records[e], edit |-> edits + 1,
              blank |-> blank, stored |-> stored]
    IN
    /\ where[r] = "idle" /\ edits < MaxEdits
    /\ e \in born => records[e] # NoRecord
    /\ stored /\ j.base.ref = 0 => ~blank     \* or "Enter an access key id and ..."
    /\ edits' = edits + 1 /\ born' = born \cup {e}
    /\ IF j.stored \/ j.base.ref # 0
       THEN WithLoaded(r, j, records)
       ELSE Conclude(r, j, records) /\ UNCHANGED credentials
    /\ Crossing({})
    /\ UNCHANGED <<onDisk, file, restarts>>

(* deleteConnection: the record goes first, its key after it. *)
RemoveConnection(r, e) ==
    LET j    == [NoJob EXCEPT !.kind = "remove", !.id = e, !.base = records[e]]
        recs == [records EXCEPT ![e] = NoRecord]
    IN
    /\ where[r] = "idle" /\ records[e] # NoRecord
    /\ IF j.base.ref # 0 THEN WithLoaded(r, j, recs)
       ELSE Conclude(r, j, recs) /\ UNCHANGED credentials
    /\ Crossing({})
    /\ UNCHANGED <<onDisk, born, edits, file, restarts>>

(* Any call of the endpoint that finds no client for its record. *)
Use(r, e) ==
    LET j == [NoJob EXCEPT !.kind = "use", !.id = e, !.base = records[e]] IN
    /\ where[r] = "idle" /\ records[e] # NoRecord
    /\ clients[e].rev # records[e].rev
    /\ IF j.base.ref # 0 THEN WithLoaded(r, j, records)
       ELSE /\ clients' = [clients EXCEPT ![e] =
                             [rev |-> j.base.rev, edit |-> j.base.edit, key |-> 0]]
            /\ UNCHANGED <<records, credentials, job, where, text>>
    /\ UNCHANGED <<onDisk, born, edits, file, restarts, trouble>>

-----------------------------------------------------------------------------
(* The file is opened and its content is on the way. *)
ReadFile(r) ==
    /\ where[r] = "reading"
    /\ Waiting(r, job[r], "parsing", file)
    /\ UNCHANGED <<records, onDisk, born, edits, file, credentials, clients,
                   restarts, trouble>>

(* EACCES and the like fail the request; a record that is removed is gone. *)
ReadFails(r) ==
    /\ where[r] = "reading"
    /\ Answered(r)
    /\ Note("failed")
    /\ UNCHANGED <<records, onDisk, born, edits, file, credentials, clients, restarts>>

(* A text that is no object: whatever is at the path by now is renamed,    *)
(* or cannot be.                                                           *)
Quarantine(r) ==
    /\ where[r] = "parsing" /\ text[r] = Unreadable
    /\ Waiting(r, job[r], "moved", NoSecrets)
    /\ file' \in {NoSecrets, file}
    /\ Note("aside")
    /\ UNCHANGED <<records, onDisk, born, edits, credentials, clients, restarts>>

(* The entries become the map, whatever another request has put there.     *)
Install(r) ==
    /\ where[r] = "moved" \/ (where[r] = "parsing" /\ text[r] # Unreadable)
    /\ WithMap(r, job[r], text[r], records)
    /\ Crossing(IF credentials = NotLoaded THEN {} ELSE {"replaced"})
    /\ UNCHANGED <<onDisk, born, edits, file, restarts>>

Renamed(r) ==
    /\ where[r] = "writing"
    /\ file' = text[r]
    /\ Conclude(r, job[r], records)
    /\ UNCHANGED <<onDisk, born, edits, credentials, restarts, trouble>>

(* The write is reported as failed; the map is not set back. *)
WriteFails(r) ==
    /\ where[r] = "writing"
    /\ Answered(r)
    /\ Note("failed")
    /\ UNCHANGED <<records, onDisk, born, edits, file, credentials, clients, restarts>>

(* What SettingsStore describes, in one step. *)
RecordsSaved ==
    /\ onDisk # records /\ onDisk' = records
    /\ UNCHANGED <<records, born, edits, file, credentials, clients, job, where, text,
                   restarts, trouble>>

ServerRestarts ==
    /\ restarts < MaxRestarts /\ restarts' = restarts + 1
    /\ trouble' = IF file # Unreadable /\ InUse(file) = Named(onDisk) THEN {} ELSE {"torn"}
    /\ records' = onDisk /\ credentials' = NotLoaded
    /\ clients' = [e \in Endpoints |-> NoClient]
    /\ job' = [r \in Handlers |-> NoJob] /\ where' = [r \in Handlers |-> "idle"]
    /\ text' = [r \in Handlers |-> NoSecrets]
    /\ UNCHANGED <<onDisk, born, edits, file>>

ConnectionNext ==
    \/ \E r \in Handlers, e \in Endpoints :
          \/ \E blank, stored \in BOOLEAN : Save(r, e, blank, stored)
          \/ RemoveConnection(r, e)
          \/ Use(r, e)
    \/ \E r \in Handlers :
          \/ ReadFile(r) \/ ReadFails(r) \/ Quarantine(r)
          \/ Install(r) \/ Renamed(r) \/ WriteFails(r)
    \/ RecordsSaved
    \/ ServerRestarts

ConnectionSpec == ConnectionInit /\ [][ConnectionNext]_connectionVars

-----------------------------------------------------------------------------
NoneSaves == \A r \in Handlers : job[r].kind \notin {"save", "remove"}

(* Every variable holds what the code can put there, and who writes has    *)
(* the map: it is dropped by nothing but the end of the process.           *)
ConnectionTypeOK ==
    /\ records \in [Endpoints -> Records] /\ onDisk \in [Endpoints -> Records]
    /\ born \subseteq Endpoints /\ edits \in Secrets
    /\ file \in [Refs -> Secrets] \cup {Unreadable}
    /\ credentials \in [Refs -> Secrets] \cup {NotLoaded}
    /\ clients \in [Endpoints -> Clients]
    /\ job \in [Handlers -> Jobs] /\ where \in [Handlers -> Places]
    /\ text \in [Handlers -> [Refs -> Secrets] \cup {Unreadable}]
    /\ restarts \in Nat /\ trouble \subseteq Troubles
    /\ \A r \in Handlers :
        /\ where[r] = "idle" <=> job[r].kind = "none"
        /\ where[r] = "writing" => credentials # NotLoaded

(* Unless two windows edited the same endpoint at once, two first reads    *)
(* crossed or the disk failed, an endpoint that signs with a stored key    *)
(* finds it, and no key is kept for no one.                                *)
RecordHasItsKey ==
    NoneSaves /\ trouble \subseteq {"crossed"} /\ credentials # NotLoaded =>
        InUse(credentials) = Named(records)

(* A client that is cached for the record's revision was built from that   *)
(* record and signs with the key the map has, even when two windows edit   *)
(* the endpoint at once and both arrive at the same revision.              *)
ClientIsCurrent ==
    \A e \in Endpoints :
        /\ Edits(e) = {} /\ credentials # NotLoaded
        /\ clients[e].rev = records[e].rev /\ records[e] # NoRecord
        /\ trouble \cap {"replaced", "failed"} = {}
        => /\ clients[e].edit = records[e].edit
           /\ records[e].ref # 0 => clients[e].key = credentials[records[e].ref]

(* While writes came one at a time, the answered requests are on disk.     *)
AnsweredIsOnDisk ==
    NoneSaves /\ credentials # NotLoaded
    /\ trouble \cap {"replaced", "crossed", "failed", "aside"} = {} => file = credentials

(* A key that was saved, and answered for, is there until its endpoint is  *)
(* removed, whoever else saves at the same time.                           *)
SavedKeyStays ==
    \A e \in Endpoints :
        /\ NoneSaves /\ credentials # NotLoaded /\ records[e].ref # 0
        /\ trouble \cap {"tangled", "failed", "aside", "torn"} = {}
        => credentials[records[e].ref] # 0
=============================================================================
