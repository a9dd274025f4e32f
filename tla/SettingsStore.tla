--------------------------- MODULE SettingsStore ---------------------------
(***************************************************************************)
(* The server's preferences store: memory is authoritative once a load has *)
(* run, and settings.json is a projection of it, written behind the caller *)
(* by one serialised write loop.                                           *)
(*   apps/server/src/api/settings/settings.store.ts                        *)
(*   apps/server/src/api/settings/settings.file.ts                         *)
(*   apps/server/src/main.ts (load before listen, flush at shutdown)       *)
(*                                                                         *)
(* A document (the whole settings object) is named by the commit that made *)
(* it: 0 is the defaults, and a later document has a larger name, across   *)
(* restarts too.  What a patch does to the fields is not modelled here.    *)
(* Time is counted in ticks, and a timer that is due fires before the next *)
(* tick (the event loop is not blocked for a tick).                        *)
(***************************************************************************)
EXTENDS Integers, FiniteSets

CONSTANTS
    Debounce,   \* WRITE_DEBOUNCE_MS, in ticks
    MaxDefer,   \* WRITE_MAX_DEFER_MS, in ticks
    Errors,     \* the messages describeError may return
    MaxDocs     \* bound: commits made over the life of the file

ASSUME TimesAssumption == Debounce \in Nat \ {0} /\ MaxDefer \in Nat \ {0}
ASSUME ErrorsAssumption == "none" \notin Errors /\ "newer" \notin Errors
ASSUME MaxDocsAssumption == MaxDocs \in Nat \ {0}

VARIABLES
    proc,       \* the server process: down, probing, up, flushing, flushed
    settings,   \* the document in memory
    revision, pristine, writable, reason, frozen,
    dirty,      \* a change no write has taken yet
    flushing,   \* the promise: null, pending, or settled but still in place
    timer,      \* ticks until the debounce timer fires, or Off
    age,        \* ticks since firstDirtyAt, or Off when it is 0
    writes,     \* the calls of writeSettingsFileAtomic in flight
    told,       \* the snapshot the listeners heard last
    file,       \* what a read of settings.json returns
    durable,    \* what a power cut may still bring back in its place
    understood, \* history: the load parsed, moved aside or missed the file
    issued      \* history: the name of the last document committed

memory == <<settings, revision, pristine, writable, reason, frozen>>
behind == <<dirty, flushing, timer, age, writes>>
disk   == <<file, durable>>
vars   == <<proc, memory, behind, told, disk, understood, issued>>

-----------------------------------------------------------------------------
Off == -1
Docs == 0 .. MaxDocs + 1
Kinds == {"missing", "garbage", "half", "newer", "ours"}

Ours(d) == [kind |-> "ours", doc |-> d]
Missing == [kind |-> "missing", doc |-> 0]
\* A temp file is worth reading only once it is written out and fsynced.
Temp(w) == [kind |-> IF w.step = "open" THEN "half" ELSE "ours", doc |-> w.doc]

\* The HTTP and socket servers take calls until the process exits.
Serving == proc \in {"up", "flushing", "flushed"}

Snapshot == [settings |-> settings, revision |-> revision,
             pristine |-> pristine, writable |-> writable, reason |-> reason]
\* commit's loop over the listeners, and notifyPersistence's.
Notify ==
    told' = [settings |-> settings', revision |-> revision',
             pristine |-> pristine', writable |-> writable', reason |-> reason']

-----------------------------------------------------------------------------
\* What a process that has not loaded yet holds.
Boot ==
    /\ proc' = "down"
    /\ settings' = 0 /\ revision' = 0 /\ pristine' = TRUE
    /\ writable' = TRUE /\ reason' = "none" /\ frozen' = FALSE
    /\ dirty' = FALSE /\ flushing' = "null" /\ timer' = Off /\ age' = Off
    /\ writes' = {}
    /\ Notify
    /\ understood' = FALSE

Init ==
    /\ proc = "down"
    /\ settings = 0 /\ revision = 0 /\ pristine = TRUE
    /\ writable = TRUE /\ reason = "none" /\ frozen = FALSE
    /\ dirty = FALSE /\ flushing = "null" /\ timer = Off /\ age = Off
    /\ writes = {}
    /\ told = Snapshot
    /\ understood = FALSE
    /\ issued = 1
    /\ file \in {Missing, Ours(1), [kind |-> "garbage", doc |-> 0],
                 [kind |-> "newer", doc |-> 1]}
    /\ durable = file

-----------------------------------------------------------------------------
(* load, one action per outcome of the read. *)

LoadReadFails ==
    /\ proc = "down"
    /\ \E e \in Errors : reason' = e
    /\ writable' = FALSE
    /\ proc' = "up"
    /\ understood' = FALSE
    /\ UNCHANGED <<settings, revision, pristine, frozen, behind, disk, issued>>
    /\ Notify

LoadNewer ==
    /\ proc = "down" /\ file.kind = "newer"
    /\ settings' = file.doc
    /\ pristine' = FALSE /\ writable' = FALSE /\ frozen' = TRUE
    /\ reason' = "newer"
    /\ proc' = "up"
    /\ understood' = TRUE
    /\ UNCHANGED <<revision, behind, disk, issued>>
    /\ Notify

LoadOurs ==
    /\ proc = "down" /\ file.kind = "ours"
    /\ settings' = file.doc
    /\ pristine' = FALSE
    /\ proc' = "probing"
    /\ understood' = TRUE
    /\ UNCHANGED <<revision, writable, reason, frozen, behind, disk, issued>>
    /\ Notify

LoadMissing ==
    /\ proc = "down" /\ file.kind = "missing"
    /\ proc' = "probing"
    /\ understood' = TRUE
    /\ UNCHANGED <<memory, behind, told, disk, issued>>

\* The rename of the bad file may fail, which quarantine swallows.
LoadQuarantines ==
    /\ proc = "down" /\ file.kind \in {"garbage", "half"}
    /\ \/ file' = Missing /\ understood' = TRUE
       \/ UNCHANGED file /\ understood' = FALSE
    /\ pristine' = FALSE
    /\ proc' = "probing"
    /\ UNCHANGED <<settings, revision, writable, reason, frozen, behind,
                   durable, issued>>
    /\ Notify

Probe ==
    /\ proc = "probing"
    /\ \/ UNCHANGED <<writable, reason>>
       \/ writable' = FALSE /\ \E e \in Errors : reason' = e
    /\ proc' = "up"
    /\ UNCHANGED <<settings, revision, pristine, frozen, behind, disk,
                   understood, issued>>
    /\ Notify

-----------------------------------------------------------------------------
(* The write loop.  An iteration takes what memory holds and clears dirty. *)

StartWrite(doc) ==
    /\ writes' = writes \cup {[doc |-> doc, step |-> "open"]}
    /\ dirty' = FALSE /\ age' = Off

\* Mutated form: runFlush without its "if (flushing) return flushing".
RunFlushUnguarded(d, a, doc) ==
    IF d
    THEN flushing' = "pending" /\ StartWrite(doc)
    ELSE dirty' = d /\ age' = a /\ UNCHANGED <<flushing, writes>>

\* runFlush, called with dirty = d and firstDirtyAt = a.  A loop with nothing
\* to do ends before the promise it returns is assigned to flushing.
RunFlush(d, a, doc) ==
    \/ /\ flushing # "null"
       /\ dirty' = d /\ age' = a
       /\ UNCHANGED <<flushing, writes>>
    \/ /\ flushing = "null" /\ d
       /\ flushing' = "pending"
       /\ StartWrite(doc)
    \/ /\ flushing = "null" /\ ~d
       /\ flushing' = "settled"
       /\ dirty' = d /\ age' = a
       /\ UNCHANGED writes

\* Mutated form: no ceiling on the deferral.
ScheduleFlushUnbounded(doc) ==
    \/ frozen /\ UNCHANGED behind
    \/ /\ ~frozen
       /\ dirty' = TRUE /\ age' = (IF age = Off THEN 0 ELSE age)
       /\ timer' = Debounce
       /\ UNCHANGED <<flushing, writes>>

ScheduleFlush(doc) ==
    LET a == IF age = Off THEN 0 ELSE age
    IN  \/ frozen /\ UNCHANGED behind
        \/ ~frozen /\ a >= MaxDefer /\ timer' = Off /\ RunFlush(TRUE, a, doc)
        \/ /\ ~frozen /\ a < MaxDefer
           /\ dirty' = TRUE /\ age' = a /\ timer' = Debounce
           /\ UNCHANGED <<flushing, writes>>

Commit ==
    /\ Serving /\ issued <= MaxDocs
    /\ issued' = issued + 1
    /\ settings' = issued + 1
    /\ revision' = revision + 1
    /\ pristine' = FALSE
    /\ UNCHANGED <<writable, reason, frozen>>
    /\ Notify
    /\ ScheduleFlush(issued + 1)
    /\ UNCHANGED <<proc, disk, understood>>

\* update, applySilence, applyS3Connection, applyRecents, applyTableLayout and
\* reset are each one commit; importLegacy is one while the store is pristine.
Update == Commit
ImportLegacy == pristine /\ Commit

Tick ==
    /\ Serving /\ timer # 0
    /\ timer # Off \/ age \in 0 .. MaxDefer + Debounce - 1
    /\ timer' = IF timer = Off THEN Off ELSE timer - 1
    /\ age' = IF age = Off \/ age = MaxDefer + Debounce THEN age ELSE age + 1
    /\ UNCHANGED <<proc, memory, dirty, flushing, writes, told, disk,
                   understood, issued>>

TimerFires ==
    /\ Serving /\ timer = 0
    /\ timer' = Off
    /\ RunFlush(dirty, age, settings)
    /\ UNCHANGED <<proc, memory, told, disk, understood, issued>>

-----------------------------------------------------------------------------
(* writeSettingsFileAtomic, one step per await that matters on disk. *)

\* open, write, fsync and close the temp file.
SyncTemp(w) ==
    /\ w.step = "open"
    /\ writes' = (writes \ {w}) \cup {[w EXCEPT !.step = "synced"]}
    /\ UNCHANGED <<proc, memory, dirty, flushing, timer, age, told, disk,
                   understood, issued>>

\* Mutated form: the rename does not wait for the temp file's write and fsync.
RenameUnsynced(w) ==
    /\ w.step \in {"open", "synced"}
    /\ file' = Temp(w)
    /\ writes' = (writes \ {w}) \cup {[w EXCEPT !.step = "renamed"]}
    /\ UNCHANGED <<proc, memory, dirty, flushing, timer, age, told, durable,
                   understood, issued>>

Rename(w) ==
    /\ w.step = "synced"
    /\ file' = Temp(w)
    /\ writes' = (writes \ {w}) \cup {[w EXCEPT !.step = "renamed"]}
    /\ UNCHANGED <<proc, memory, dirty, flushing, timer, age, told, durable,
                   understood, issued>>

\* Mutated forms: dirty is cleared once the write is done, not when it takes
\* the document; the loop is an if.
NextIterationClears(w) ==
    /\ writes' = writes \ {w}
    /\ flushing' = "null"
    /\ dirty' = FALSE /\ age' = Off
    /\ proc' = IF proc = "flushing" THEN "flushed" ELSE proc
NextIterationOnce(w) ==
    /\ writes' = writes \ {w}
    /\ flushing' = "null"
    /\ proc' = IF proc = "flushing" THEN "flushed" ELSE proc
    /\ UNCHANGED <<dirty, age>>

\* The loop after a write: around again if a change came in, or the end of
\* it, where a flush that awaits the promise goes on at once.
NextIteration(w) ==
    \/ /\ dirty
       /\ writes' = (writes \ {w}) \cup {[doc |-> settings, step |-> "open"]}
       /\ dirty' = FALSE /\ age' = Off
       /\ UNCHANGED <<proc, flushing>>
    \/ /\ ~dirty
       /\ writes' = writes \ {w}
       /\ flushing' = "null"
       /\ proc' = IF proc = "flushing" THEN "flushed" ELSE proc
       /\ UNCHANGED <<dirty, age>>

\* The directory's fsync is best effort: it may or may not take.
WriteReturns(w) ==
    /\ w.step = "renamed"
    /\ durable' = file \/ UNCHANGED durable
    /\ writable' = TRUE
    /\ reason' = IF writable THEN reason ELSE "none"
    /\ UNCHANGED <<settings, revision, pristine, frozen>>
    /\ IF writable THEN UNCHANGED told ELSE Notify
    /\ NextIteration(w)
    /\ UNCHANGED <<timer, file, understood, issued>>

\* Everything up to the rename may throw; the document is not marked dirty.
WriteFails(w) ==
    /\ w.step \in {"open", "synced"}
    /\ writable' = FALSE
    /\ \E e \in Errors : reason' = e
    /\ UNCHANGED <<settings, revision, pristine, frozen>>
    /\ IF writable \/ reason' # reason THEN Notify ELSE UNCHANGED told
    /\ NextIteration(w)
    /\ UNCHANGED <<timer, disk, understood, issued>>

-----------------------------------------------------------------------------
\* Mutated form: flush looks at dirty alone, not at a write under way.
FlushIfDirty ==
    /\ Serving
    /\ timer' = Off
    /\ IF dirty
          THEN /\ RunFlush(dirty, age, settings)
               /\ proc' = IF flushing' = "pending" THEN "flushing" ELSE "flushed"
          ELSE UNCHANGED <<dirty, age, flushing, writes>> /\ proc' = "flushed"
    /\ UNCHANGED <<memory, told, disk, understood, issued>>

\* flush, awaited by main.ts on SIGINT or SIGTERM while calls still come in.
Flush ==
    /\ Serving
    /\ timer' = Off
    /\ IF dirty \/ flushing # "null"
          THEN RunFlush(dirty, age, settings)
          ELSE UNCHANGED <<dirty, age, flushing, writes>>
    /\ proc' = IF flushing' = "pending" THEN "flushing" ELSE "flushed"
    /\ UNCHANGED <<memory, told, disk, understood, issued>>

\* process.exit after the flush, or a crash at any other moment.
ProcessEnds ==
    /\ proc # "down"
    /\ Boot
    /\ UNCHANGED <<disk, issued>>

\* A rename whose directory was not synced may be undone.
PowerCut ==
    /\ Boot
    /\ file' \in {file, durable}
    /\ durable' = file'
    /\ UNCHANGED issued

WriteStep == \E w \in writes :
    SyncTemp(w) \/ Rename(w) \/ WriteReturns(w) \/ WriteFails(w)

Next ==
    \/ LoadReadFails \/ LoadNewer \/ LoadOurs \/ LoadMissing
    \/ LoadQuarantines \/ Probe
    \/ Update \/ ImportLegacy \/ Tick \/ TimerFires
    \/ \E w \in writes : SyncTemp(w)
    \/ \E w \in writes : Rename(w)
    \/ \E w \in writes : WriteReturns(w)
    \/ \E w \in writes : WriteFails(w)
    \/ Flush \/ ProcessEnds \/ PowerCut

Spec == Init /\ [][Next]_vars

\* Time passes, a due timer is run, and a file operation returns or throws.
FairSpec ==
    /\ Spec
    /\ WF_vars(Tick) /\ WF_vars(TimerFires)
    /\ WF_vars(WriteStep)

-----------------------------------------------------------------------------
(* Properties. *)

WriteSteps == {"open", "synced", "renamed"}

FlagsTypeOK == {pristine, writable, frozen, dirty, understood} \subseteq BOOLEAN

MemoryTypeOK ==
    /\ proc \in {"down", "probing", "up", "flushing", "flushed"}
    /\ settings \in Docs /\ revision \in Nat
    /\ reason \in Errors \cup {"none", "newer"} /\ issued \in Docs

BehindTypeOK ==
    /\ flushing \in {"null", "pending", "settled"}
    /\ timer \in {Off} \cup 0 .. Debounce
    /\ age \in {Off} \cup 0 .. MaxDefer + Debounce
    /\ writes \subseteq [doc : Docs, step : WriteSteps]

DiskTypeOK ==
    /\ file \in [kind : Kinds, doc : Docs]
    /\ durable \in [kind : Kinds, doc : Docs]

ToldTypeOK ==
    told \in [settings : Docs, revision : Nat, pristine : BOOLEAN,
              writable : BOOLEAN, reason : Errors \cup {"none", "newer"}]

\* Every variable holds what the code can put there.
TypeOK ==
    FlagsTypeOK /\ MemoryTypeOK /\ BehindTypeOK /\ DiskTypeOK /\ ToldTypeOK

\* Two writes never interleave, and the promise in flushing is pending exactly
\* while one is under way (runFlush's comment).
OneWriteAtATime ==
    /\ \A w1, w2 \in writes : w1 = w2
    /\ (writes # {}) <=> (flushing = "pending")

\* A crash or a power cut finds the old file or the new one, never half of
\* each (the header of settings.file.ts).
NeverHalf == file.kind # "half" /\ durable.kind # "half"

\* A change the file lacks is not forgotten: as long as the store says it can
\* save, the change is being written or is marked for a write.
Saved == file = Ours(settings)
NothingForgotten ==
    Serving /\ revision > 0 /\ writable /\ ~Saved
        => dirty \/ \E w \in writes : w.doc = settings

\* A mark is never left without somebody to act on it: a timer, the loop, or
\* (the defect FlushDrains shows) the settled promise that blocks them all.
DirtyHasAWriter == dirty => timer # Off \/ flushing # "null"

\* A stream of changes that keeps pushing the timer back does not starve the
\* disk: with no write under way, none waits past the ceiling and one debounce.
BoundedDeferral ==
    dirty /\ flushing = "null" => age < MaxDefer + Debounce

\* What the open windows were told last is what the store holds: no change of
\* a value or of writability goes unannounced, and none is announced early.
ListenersCurrent == told = Snapshot

\* While a process runs, an older document never replaces a newer one on disk.
NeverOlder == [][proc # "down" /\ proc' # "down" => file'.doc >= file.doc]_vars

\* A file the load recognised as a newer faws's is never written, whatever is
\* changed, retried or flushed afterwards (frozen).
NewerFileKept == [][understood /\ file.kind = "newer" => file' = file]_vars

\* When the shutdown's flush returns, every change is in the file, unless the
\* store has said that it cannot save or the promise was stuck already.
FlushReturned == proc # "flushed" /\ proc' = "flushed"
FlushSaves ==
    [][FlushReturned /\ flushing' # "settled" /\ writable' /\ revision' > 0
         => file' = Ours(settings')]_vars

\* A change reaches the file in the end, unless a write fails, the process
\* ends or the promise is stuck.
EventuallySaved ==
    (Serving /\ revision > 0 /\ ~Saved)
        ~> (Saved \/ ~writable \/ flushing = "settled" \/ ~Serving)

\* "Awaits any pending write", says the interface of flush: when it returns,
\* nothing is left waiting to be written.  The code breaks this one.
FlushDrains == [][FlushReturned => ~dirty']_vars

\* "The next write cannot land on top of a file we failed to read", says
\* readSettingsFile.  The code breaks this one.
UnreadFileKept ==
    [][Serving /\ ~understood /\ file.kind # "missing" => file' = file]_vars

\* The header's shape, memory authoritative and the file a projection of it:
\* the store implements a write-behind register.  Half a file is worth no more
\* than none.
Worth(f) == IF f.kind = "half" THEN 0 ELSE f.doc
Abstract == INSTANCE WriteBehind WITH
    mem <- settings, saved <- Worth(file), safe <- Worth(durable)
ImplementsWriteBehind == Abstract!Spec
=============================================================================
