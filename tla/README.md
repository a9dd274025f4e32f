# faws: specifications of the application's core

faws is a desktop and web console for AWS: a Fastify server (tRPC over HTTP, two
kinds of Socket.IO traffic), a React web client and an Electron shell that starts
the server. This directory holds TLA+ modules translated from its TypeScript
source, the TLC configurations that check them on small instances and proofs of
the theorems that hold for every instance. Paths below are relative to `src/`.

## 1. Inventory

| part | where | state it keeps | operations |
|---|---|---|---|
| Settings store | `apps/server/src/api/settings/settings.store.ts`, `settings.file.ts`, `settings.instance.ts` | the settings object, its revision, `pristine`, `writable`, `frozen`; the write loop (`dirty`, `flushing`, the debounce timer, `firstDirtyAt`); `settings.json` | load, seven mutators, the write loop, the atomic write, quarantine, probe, flush |
| Settings sync | `apps/web/src/stores/settings.ts`, `apps/web/src/lib/settings/*`, server `settings.router.ts`, `settings.events.ts` | per window: the settings shown, the watermark `revision`, the outbox (queued and in-flight patch), load status | edit, send, answer, failure, broadcast, load, reconnect |
| Exec sessions (server) | `apps/server/src/api/exec/session.registry.ts`, `session.state.ts`, `prompts.ts`, `exec.service.ts`, drivers | sessions by id, their status, client, driver, timers, prompts, replay buffer | start, attach, input, resize, prompt and answer, detach, close, timers, shutdown |
| Terminal tabs (web) | `apps/web/src/stores/sessions.ts`, `apps/web/src/lib/terminal/*` | the tabs, the active one, one socket per tab, the remembered list | open, restore, close, retry, answer, every server event |
| Replay buffer, scanner, recorder | `apps/server/src/api/exec/ringBuffer.ts`, `streamScanner.ts`, `recorder.ts` | bytes kept for a reattach; the escape state | append, evict, snapshot; feed; emit, flush, stop |
| SSH, SSM, Kubernetes and ECS drivers | `apps/server/src/api/exec/drivers`, `exec/ssh`, `exec/kube`, `exec/ssm`, `exec/pty.ts` | hops, the tunnel, a one-time key, the channel or child, the `closing` flag | connect over any chain, prompt, exit, close, unwind |
| Recents, pins, silences, table layouts | `packages/contracts/src/recents.ts`, `settings.ts`, `tables.ts`, `apps/web/src/stores/{recents,silenced}.ts` | maps of entries with times and ranks | record, pin, move, unpin, forget, prune |
| S3 connections | `apps/server/src/api/s3/connectionStore.ts`, `connections.router.ts`, `packages/core/src/s3/*` | the records in the settings, the map of keys and its file, cached clients | save, remove, use, first read, write, set aside |
| S3 uploads | `apps/web/src/lib/s3-upload.ts`, `features/s3/components/UploadDropzone.tsx`, `apps/server/src/api/s3/{uploads,actions.router,bytes.routes}.ts` | a file's workers and row, the server's upload sessions, what S3 holds | choose, create, send parts, cancel, complete, sweep |
| S3 scans | `apps/web/src/lib/s3-scan.ts`, `features/s3/components/ObjectSearch.tsx`, `apps/server/src/api/s3/scan.service.ts`, `packages/core/src/fetchers/s3/scan.ts` | the running search, its socket, the walk and its unsent hits | start, stop, read a page, flush, end |
| S3 copies and moves | `packages/core/src/actions/s3/objects.ts`, `features/s3/components/CopyMoveDialog.tsx` | none beyond the request; the objects are S3's | head, copy whole or in parts, abort, delete |
| Read-only guard | `packages/core/src/readOnlyGuard.ts`, `apps/web/src/hooks/useWriteMode.ts` | two switches | set, assert |
| Electron shell and dev runner | `apps/desktop/src`, `scripts/dev-runner.ts` | the backend child and its port | spawn, handshake, restart, quit |
| Fetchers, pages, components | `packages/core/src/fetchers`, `apps/web/src/{features,pages,components}` | none of their own worth a model | AWS calls and rendering |

How they interact. The web client sends mutations over HTTP and gets the new
snapshot back in the answer; the store tells every window of each change over
Socket.IO. These are two channels, so an answer and a broadcast may overtake each
other. A terminal tab has a socket of its own; the server keeps the session when
that socket goes away and gives it back to a socket that asks for it by id. The
settings store is a singleton of the server process: `main.ts` loads it before
the server listens and flushes it first when it shuts down.

What is hard here: a write loop with a promise as its lock; timers that race
what they guard; optimistic edits in several windows; two channels without a
common order; a server restart that resets a counter clients compare; sessions
whose driver arrives after the session has died; sockets that come and go while
a session lives; a late disconnect of a socket that no longer owns the session.
`PROJECT.json` lists these hazards at their lines.

What makes each part correct:

- *Settings store*: no change is forgotten while the store says it can save; one
  write at a time; the file is whole after any crash and moves forward only; a
  newer version's file is never written; listeners know the current state; the
  flush at shutdown saves.
- *Settings sync*: an edit that is not answered stays on its own screen; no
  screen snaps back; windows come to agree with the server; an old browser's
  preferences do not overwrite anything.
- *Exec sessions*: every session in the map has the timer of its state; silence
  is never consent; no question without somebody to see it; the screen is the
  output; one close per driver; a connect ends.
- *Drivers*: a connect that fails leaves nothing behind that it was given,
  wherever it failed; the sink is told once; what is billed for ends with its shell.
- *Terminal tabs*: a page that loads never starts a shell; a question the server
  waits on is on a screen; the shell of a window that has gone ends.
- *Replay buffer, recorder*: a replay starts at a safe boundary, fits its budget
  and is a suffix of the output; a recording is a prefix of it.
- *S3 connections*: a record has its key and no key is kept for no one; a client
  in the cache signs with the key of its record; what was answered is on disk.
- *S3 uploads*: an object is completed from all its parts or not at all; what S3
  bills for is known to the server and ends.
- *S3 scans*: the hits are those of the listing, in order, of this search; a walk
  nobody listens to stops; the spinner ends.
- *S3 moves*: what a move deletes is at its destination; a half copy is aborted.
- *Recents and pins*: an entry per key, limits, and the order a move asks for.

## 2. Plan

What is done, most important behaviour first: `SettingsStore` with the abstract
`WriteBehind`; `SettingsSync` with `SettingsCrossings`; `ExecRegistry`; `S3Connections`; `S3Uploads`,
`S3Scans` and `S3Moves`; `ExecDrivers` with the abstract `ExecContract`;
`TerminalTabs`, composed with `ExecRegistry`; `ReplayBuffer`; `Recents`; and
`Recorder`. All but `Recents` have proofs.

What would come next: the layouts of tables (`tables.ts` with the store's
`applyTables`), the search box that keeps its text in the address
(`useSearchState.ts`), and the finished recordings, which are listed, swept and
deleted. Then the order of the pins (`PinsStayPut`, `MoveTakesThePlace`), proved.

## 3. The modules and the code

**WriteBehind** is the promise in the header of `settings.store.ts`: memory is
authoritative and the file is a projection of it that follows. It has a value in
memory, the copy on disk and the copy a power cut may set it back to.

**SettingsStore** is `settings.store.ts` and `settings.file.ts` with the startup
and the shutdown of `main.ts`. A document is named by the commit that made it.
`load` is one action per outcome (`LoadReadFails`, `LoadNewer`, `LoadOurs`,
`LoadMissing`, `LoadQuarantines`) followed by `Probe`; the seven mutators are
`Update` and `ImportLegacy`, both `Commit`; `scheduleFlush` and `runFlush` are the
operators `ScheduleFlush` and `RunFlush`, which their callers apply at once, as
the code calls them; a write is `SyncTemp`, `Rename`, `WriteReturns` or
`WriteFails`; `NextIteration` is the rest of the loop after its await. `flushing`
has a third value, `settled`: a promise that has settled and was stored after it
had, see section 8. `ProcessEnds` and `PowerCut` may come at any time.
`Abstract` maps it to `WriteBehind`; `Worth` is what a load makes of the file there,
so that half a file is not taken for the document it was to be.

**SettingsSync** is the window (`stores/settings.ts`, `lib/settings/*`) and what it
sees of the server. Each act of a person has a number, and a field holds the
number of the act that wrote it, so that "older" and "newer" can be said of
values. `sent` and `inbox` are the two links. `Edit`, `Rearrange`, `Silence` and
`Reset` are the store's functions, `SendPending` the debounced send, `HandleX` the
server's handlers (commit, broadcast and answer in one callback), `HearX` what a
window does with each answer or broadcast; `Applies` and `Watermark` are
`reconcile`, `Unconfirmed` is what `show` lays over a snapshot. `Faults` turns on
what the links and the machine may do besides working. **SettingsCrossings** adds a
history: the windows in which an answer and a broadcast crossed in one of the two
ways that the code does not cover (`Crosses`), until a snapshot is drawn again
(`Heals`). `MCSettingsSync` adds the symmetry of the windows.

**ExecRegistry** is `session.registry.ts` with `session.state.ts`, `prompts.ts`, the
socket handlers of `exec.service.ts`, and the shutdown. A session's machine is a
record (`Armed`, `Transition`, `SetWaiting`, `Dispose` are its methods); `Close` is
`closeSession`, applied wherever the code calls it, and `DriverClosed` is what
follows its await. A socket is new, then of one session, then gone; sockets are
never used twice, like Socket.IO connections. `factory` and `driver` are the
connect and what it brought up, kept after the session has left the map, because
the code goes on running them. The questions of a connect are numbered; `said`
remembers what people trusted. Output is counted in chunks; `lost` of them are no
longer in the buffer, which may evict any of the older ones (`Evictions`), so that
every byte budget is covered.

**ReplayBuffer** is what one session keeps of its output, byte by byte:
`ringBuffer.ts` over `streamScanner.ts`. The far end writes whole sequences (`Write`,
out of the set `Written`), a driver reads any number of bytes of them (`Receive`);
`Feed` is the scanner's step for one byte, `ChunkOf` the record `append` makes,
`Dropped` and `Evict` the loop and the cut of `evict`. A byte is named by its place in
the stream, so a chunk is the place of its first byte. `whole` and `vouched` are
history: where sequences really end, and where the scanner said they do.

**Recorder** is one transcript (`recorder.ts`) from its first line to its last: a
read goes through the decoder of its direction (`Decoded`: the code points that
are complete now and were not before), `Emit` counts, batches and arms the timer,
`Stop` is the size limit's end and `close`, `Hand` is `flush`. What has been handed
over is Node's: `Opens`, `Lands`, and `StreamFails` for the error event nobody
listens to. `Exits` may come at any time and does not wait for the stream.
`MCExec` puts the three side by side; each stands still while another runs.

**ExecContract** is what the registry takes a driver for (`ExecDriver`, `ExecSink`
in `exec.service.ts`): pending until it is up or rejected, then an end that is
told once, or a close after which nothing is told.

**ExecDrivers** is one driver of any kind, from the first await of its factory to
the end of `close`. `at` is the await the factory is in; `hops` and `live` are the
connections it has pushed and those that still stand, `link` the SSM session of a
tunnel or a shell, `key` the private key made for Instance Connect. `Dial`, `Forward`,
`Prepare`, `Push`, `LastHop` and `OpenShell` are the SSH factory's awaits in order,
`Start` and `Spawn` those of the plugin factories and of kubectl, `SshFails` and
`PluginFails` the ways out of any of them, `StartedForNobody` the one on which AWS has
started a session whose stream the server was not given (section 8); `Unwind` and `Terminate` are the code's own
functions and `Tell` is the `closing` flag with `sink.exit`. `HopLost` and
`TunnelLost` break any connection at any time, with what rides on it.
`Registry` maps it to `ExecContract`.

**TerminalTabs** is the windows of the browser over `ExecRegistry`, which it
extends: every action of the registry appears here together with what it sends
(`Connect` with `Open`, `Resume` or `TurnAway`, `AskTab` with `Ask`, and so on), but
for the output and the shutdown, which are left to `ExecRegistry`; to a tab a server
that goes is a connection that is lost. `tab` and `prompt` are what a window shows,
`line` the socket of a tab, `targets` and `noted` what `restore` works from: the
note is one `localStorage` entry for all windows. `call` is a socket's handshake,
`end` the client's end of it, `wire` and `sent` what is under way in either
direction. `OpenTab`, `RetryTab`, `CloseTab`, `AnswerTab` and `Load` are the store's
functions; `Follows` and `ApplyStatus` are `sessions-model.ts`. `MCTerminals` puts it
and `ExecDrivers` side by side: what a session counts on in a driver is only
`ExecContract`, so one half stands still while the other runs.

**S3Connections** is the saved endpoints: the record in the settings, the key in a
file that is read once into a map and written whole at every change, and the
client cached by the record's revision. Handlers of several windows' requests
interleave at every await (`where` says at which). An edit is named by a number,
which stands for the key it carries, its reference, and whatever else it sets.
`trouble` is history: which of the things that break the promises (two first reads
that cross, a write that fails, a file that is set aside, ...) have happened.

**Recents** is `packages/contracts/src/recents.ts` as the store applies it: the map
of places visited, the map of pins, and the order of the pins, a list that files
of earlier versions lack or have only in part. `ApplyRecentOp` is every operation,
`PruneRecents` the caps and the clean-up of the order, `PinnedKeys` the list as it is
shown, `MovePinned` a drag. Operations are taken to come in different
milliseconds. `MCSaved` puts `SettingsCrossings`, `S3Connections` and `Recents`
side by side, and adds the symmetry of the handlers and of the windows.

**S3Uploads** is one file from the page to the bucket in all four forms (in one
request or in parts, through the server or by signed URLs): the workers of
`uploadFile`, the row the person sees, the server's session by token and its
sweep, and S3. `stage` is where `uploadFile` is, `worker` where each worker is,
`call` the completion or abort under way; `Other` is somebody else who writes the
key. **S3Scans** is a recursive search: the page's socket per scan (`link`), the
server's walk, the hits it holds back for a batch and the messages under way.
**S3Moves** is `copyObject` and `multipartCopy`: an object's content is the number of
the write that made it, so that what arrived can be compared with what was
deleted, while others write both keys and any answer may be lost.
`MCS3Transfers` runs the three beside one another.

Modules ending in `Proofs` extend the module they are about.

## 4. Runs

| run | bounds | shows |
|---|---|---|
| `settings_store` | debounce 2 ticks, ceiling 3, two errors, 4 documents, fair | the safety properties of the store, the refinement of `WriteBehind`, `EventuallySaved` |
| `settings_flush_stuck` | as above | violates `FlushDrains` |
| `settings_sync` | 2 windows, a field and a map entry, 3 acts, links in order, fair | `Converged`, `EventuallyAgree` |
| `settings_sync_faults` | 2 windows, 2 acts, one fault of any kind, requests and answers overtake | `OwnEditsStay`, `ImportComesFirst` |
| `settings_sync_late_answer` | 2 windows, 2 acts, two channels | violates `Converged` |
| `exec_registry` | 2 sessions for one place, 2 sockets, 2 questions, 3 chunks, idle timer on; a buffer of 4 bytes and 9 bytes written in sequences of 7 kinds, 5 of them unread; a transcript of 3 bytes a direction, limit 4, 1 resize | the safety properties of the registry; replays start clean and keep the tail; the transcript is the output |
| `connect_resumed` | 1 session, 2 sockets, idle timer off, fair | violates `ConnectTimesOut` |
| `terminals` | 2 windows, 2 sessions and ids of which 3 are used together, 2 sockets, 1 question, fair; drivers of every kind, chains of 3 jump hosts | no shell unasked, questions on screen, ends of shells, and of connects that were not resumed on the way; drivers leave nothing they were given and keep `ExecContract` |
| `ssh_exit_leak` | 1 jump host | violates `ClosedMeansClosed` |
| `saved` | 2 handlers, 2 endpoints, 3 edits, 1 restart; 2 windows, 3 acts, or 2 and a broken socket, answers and broadcasts unordered between them; 4 resources, caps 1 and 3, 2 operations on any starting file | records, keys, clients and the file fit; `NoRollback`, `UncrossedAgree`; pins keep their order and move where they are dropped |
| `s3_saved_key` | 2 handlers, 2 endpoints, 3 edits, 1 restart | violates `SavedKeyStays` |
| `s3_transfers` | 4 parts, 3 workers; 4 pages, ceiling 3, batches of 2, 2 searches; 2 pieces, 3 writes; fair | objects whole, uploads tracked and ended, hits right, walks and spinners end, moves lose nothing unless others write their keys |

Why the bounds are enough. The store's ceiling is larger than its debounce, so
that the timer can be pushed back more than once and the ceiling cut it short;
four documents are one on disk, one being written, one that lands meanwhile and
one more. In the sync two windows are a person and somebody else, an act of each
makes a conflict and the third one follows the conflict; one fault is enough to
lose, break or restart in every state that two acts reach. In the registry two
ids compete for one place and one start; the second socket is there to take a
session over from the first or to find it gone; with two questions an answer can
be late for the next; with three chunks one can be evicted, one kept and one new.
In `terminals` `MaxNames` = 3 bounds windows and ids together: one window with two
sessions (a retry, a second tab) or two windows with one (a note that both
restore), over two sockets, so that a session can be left and taken up once by a
reload or by the other window. Windows are alike, and so the first to act is a
fixed one. Three jump hosts make a first, a middle and a last one. In
`saved` two handlers cross in every way at one map; the third edit follows them. On
their screens a broken socket takes the place of the third act (`MaxSteps`): the gap of
a conflict, with the own answer heard in it or not.
A file may name a key twice, one that is not pinned, or none, and a second
operation meets what the first has left; four keys overrun the cap of three. Four
bytes of buffer hold a sequence and the head of the next, or less than one
sequence; the sequences stand for every state of the scanner. A transcript of
three bytes has code points of one, two and three bytes, cut at every place, and
hits its limit of four with a line waiting, or with a line that arrives. In `s3_transfers` four parts over three workers leave one worker a
second part after another has failed; four pages with a ceiling of three and
batches of two end a search full, short of a batch and cut; a second search
starts over the first. Where a run
puts parts side by side it picks one of them at the start, and its states are the
sum of theirs and not the product: nothing is claimed of their interplay, which
the code does not have, and every property is about one part. Bounds on acts, faults, questions, chunks and names are
guards of the actions they bound; deadlock is checked in the store, which never
stops, and not where such a bound ends the run (a settled sync, an exited server,
a rejected connect).

Every property has a mutated form of a definition of the code that breaks it
("Mutated form" in the modules).

## 5. Fairness

`SettingsStore`: time passes, a due timer fires, a file operation returns or
throws: Node runs them. Nothing is assumed of changes, shutdowns and crashes.
`SettingsSync`: a debounce timer fires, a request under way is served, an answer
heard and a broken socket reconnects (`lib/socket.ts` sets
`reconnectionAttempts: Infinity`); people need not act and nothing is lost in
that run. `UncrossedAgree` is a safety property and needs none of it.
`ExecRegistry` (in `connect_resumed`): timers fire and questions time out; the
factory may hang, since a host may.
`TerminalTabs`: timers and question timeouts fire, and the server notices in the end
that a client has left (Socket.IO's ping timeout). Nothing is assumed of people,
of messages, of drivers, or of the factory, which may hang: that is what the
connect timer is for.
`ExecDrivers`: AWS answers a TerminateSession or refuses it (the SDK gives up in
the end), and `kill` waits no longer than its grace. Hosts and children may be
silent for ever.
`S3Uploads`: sessions age, the sweeper runs every so often, and an abort is
answered or refused. Nothing is assumed of the page, which may be gone.
`S3Scans`: a socket connects or says it cannot, what was sent over it is heard
while it stands, a page that is being read is answered while somebody listens,
and the server notices a socket that is gone.

## 6. Proofs

All of them are for every value of the constants, under the assumptions named in
the modules (`TimesAssumption`, `ErrorsAssumption`, `MaxDocsAssumption`;
`FaultsAssumption`, `BoundsAssumption`, `SeedAssumption`, `KeysAssumption`,
`OriginAssumption`;
`NoSocketAssumption`, `NamesAssumption`, `LimitsAssumption`; `NoCallAssumption`;
`CapacityAssumption`,
`WrittenAssumption`, `BufferBoundsAssumption`; `SavedAssumption`, `EditsAssumption`,
`NotMapsAssumption`; `PartsAssumption`; `PiecesAssumption`; `ScanAssumption`;
`SizeAssumption`, `SaidAssumption`; `JumpsAssumption`), and
go through one inductive invariant per module, with a lemma or a step per action.
Type invariants (`TypeOK` of the store and of the registry, `DriverTypeOK`,
`UploadTypeOK`, `MoveTypeOK`, `ConnectionTypeOK`, `BufferTypeOK`) are proved and not
repeated in the runs.

`SettingsStoreProofs` proves every safety property of the store, and that it
implements `WriteBehind`; also five the runs do not repeat, since the refinement
or another property would already catch what breaks them (`OneWriteAtATime`,
`NeverHalf`, `DirtyHasAWriter`, `ListenersCurrent`, `NewerFileKept`). The invariant
orders the documents (on disk, being written, in memory, issued), says that a
write under way carries the last change or `dirty` is set, that a frozen store has
no work, and that the time a change has waited and what its timer has left stay
under the bound together. The last is needed because `BoundedDeferral` alone says
nothing of a timer about to be re-armed.

`SettingsSyncProofs` proves `OwnEditsStay` and `ImportComesFirst` under all faults
at once. `Numbered` and `SendOrder` say that of two unanswered edits of a field
the later is in the patch with the higher id, `HasLatest` that the patches in
flight have a last one, `OnScreen` that none is later than the screen. Without
`SendOrder` merging in order of ids could put an older edit on top.

It proves `NoRollback` for links that lose nothing and keep the order of each
channel (`InOrder`, the theorem's one hypothesis; the answers and the broadcasts may
overtake each other). A rule about two consecutive screens says nothing of the
snapshots still under way, so the invariant speaks of all of them: `HistoryInv` says
that there is a past, the server's document at every revision, in which later
revisions hold later acts of a field (`Later`), every message carries the document
of its revision (`Snapped`), and what a screen shows unedited was there at a revision
the watermark has reached (`Seen`). A message that is applied is beyond the
watermark, hence later. For a window's own edits `LinksInv` adds that an act is in
one outbox, in one request or committed (`Uncommitted`, `OnePlace`), that updates and
answers are in order of their ids and a patch in flight is in one request or in one
answer that has it (`InTurn`), and that what was not answered is what is shown
(`OnTop`): so the value under an answered patch is not older than the patch.

It proves `UncrossedAgree` (`ScreensAgree`) on the code's two channels
(`TwoChannels`, the theorem's one hypothesis; answers and broadcasts overtake each
other freely), for any windows, fields, entries of maps and acts. The property makes
an exception of a window in which an own echo was dropped above a revision it had not
heard of, or an update was settled after a newer snapshot was drawn: of these TLC
finds `Converged` violated (`settings_sync_late_answer`), and only until the next
snapshot that is drawn. `ToldInv` says that a window knows the server's last revision,
or that a message or a load under way will tell it. `AgreeInv` says, of the same past,
that an answer has its patch in flight and is that patch on top of the revision
before (`Echoes`), that a window's own broadcast beyond its watermark still has its
answer to come (`Answered`), that a commit has one answer (`OneEach`), and that where
nothing crossed the screen is the revision of the watermark, but for the fields with
an edit that was not answered and the entries of maps of which something is still to
come (`Agrees`, `Coming`). When nothing is under way neither exception is left. That
an own broadcast has its answer to come is what lets an echo be skipped: what it says
is on the screen already, laid there by the edit.

`ExecRegistryProofs` proves `TypeOK`, `TimersFit`, `QuestionIsVisible`,
`TrustIsExplicit`, `ClosedOnce` and `ScreenIsOutput`. `Stages` says what a session may have
at each stage of its life (a driver only from a resolved factory, no close yet of
what is in the map, a client whose socket is the session's); `Questions` that every question
but the last was answered with trust and what the last came to. Both are needed:
`closeSession` may be called for a session at any stage, and `TrustIsExplicit`
alone does not say what the connect knew when it asked again. For the screens
`ScreenInv` adds that a socket that is new has been sent nothing, that the buffer
has dropped no more than came, and that what is in the map keeps its last chunk:
without it a resume could not be said to show the end of the output.

`TerminalTabsProofs` proves that every run of the tabs is one of the registry
(`TabsUseTheRegistry`), so that its theorems hold under them, and with the
registry's invariant `NoShellUnasked` and `QuestionOnScreen`. For the former
`Handshake` says that a connection which does not attach is one a person asked
for, `Started` that a session's factory was set off by one made for it. For the
latter `Standing` ties a connection to the line and the status of its tab,
`Hopeful` says that nothing under way to the tab of a connect ends that tab, and
`Questioned` that an open question is the last thing sent on its connection, or that
the wire is empty and the tab shows it or the answer has been sent. The property
alone does not say that nothing comes behind the question, and a status that did
would take it off.

`ExecOutputProofs` is about both keepers of the output. Of the buffer it proves
`BufferTypeOK` and `KeepsTheTail` for any capacity, any sequences and any reads.
`Followed` orders the chunks and says where each may be cut, `HasVouched` that a
chunk that began at a boundary and is within the capacity is still there; both
speak of the chunks alone. `ReplayStartsClean` is proved for sequences of the kinds
the scanner tells apart (`Framed`): that is the theorem's one hypothesis, which TLC
evaluates for the sequences of the runs (`OrdinaryIsFramed`), and which the
sequences of section 8 do not meet. `FramedCloses` says that over such a sequence
the scanner is at a boundary behind its last byte and at none before; `ScannedInv`
says that the scanner is where it would be had it read the stream in one go, however
the reads cut it, and at a boundary where a sequence ends and nowhere else, and
`CleanInv` that a chunk said to start safely starts between two sequences. The scanner runs over bytes; what that recursion
comes to is proved by the least place at which it would not hold.

Of the recorder it proves `TranscriptIsOutput` for any output and any limit. The
invariant says of the lines, in whichever of the three places they are, that each
begins where the last one of its direction ended (`Follow`, by `Reaches`, which names
the line that reached a place instead of taking a maximum over the lines); that
while the recording goes on each direction reaches its last complete code point,
there is no note yet and the size is under the limit; and that a recording that
has stopped has nothing waiting. The last is what keeps a line from following the
note.

`S3ConnectionsProofs` proves four properties for any number of handlers, endpoints,
saves and restarts.

- `ConnectionTypeOK`, with what is known of a request at each await (`WaitFits`).
- `AnsweredIsOnDisk`: while nothing has gone wrong with the file (`Clean`) there is at
  most one writer, it writes the map that is in memory, without one the file is that
  map, and before there is a map what was read is what the file still holds
  (`DiskFits`).
- `ClientIsCurrent`: a reference is a name of one endpoint only (`NamesFit`), an
  endpoint with a record has been given its id (`RecordsFit`), and until the file has
  been read no record that names a key changes other than by its removal
  (`BasesFit`). So a request that began before the map was there builds its client
  from the record that still stands, and who changes another endpoint's key cannot
  change this one's. A client whose key differs from the map's has a write under way
  after which it goes (`Current`).
- `RecordHasItsKey`: the map, or before it the file, has exactly the references that
  are stored (`KeysFit`): a record's, or in the place of the record what the one
  request that edits it has seen until it writes, and will leave from then on
  (`Holds`). An endpoint with one edit at a time is what makes `Holds` name at most
  one reference each, and `NamesFit` keeps those of two endpoints apart.

`ExecDriversProofs` proves `DriverTypeOK`, `NothingLeft` and the safety half of
`KeepsTheContract`, for jump chains of any length. What `NothingLeft` speaks of is what
the driver was given: a session that AWS started without a stream for it
(`StartedForNobody`) is left by the code, and named as left (section 8). `Chain` and `Links` say what can
be open at each await of the factory, so that the catch block is known to close
all of it; `Endings` ties the flag, the exits told and the close to one another and
to what is still open. `NothingLeft` alone says nothing of a factory that has not
failed yet.

`S3TransfersProofs` proves `ObjectIsWhole` and `OpenIsTracked` for any number of
parts and workers. The invariant says that every part up to the next one is
stored, with a worker or given up by a failure (`Covered`), that a completion is
only asked for with all of them (`AskedWhole`), and that whoever reports success
does so of an object that is there (`Landed`). It proves `MovedIsThere` and
`HalfCopyAborted` for copies in any number of parts. And it proves
`HitsAreTheListing` for any pages, ceiling, batch and number of searches: the
messages of a search that are under way continue one another (`Chained`) from
what its page shows to what its walk holds back, which reaches to the page that
is being read (`HeldBack`), and the page takes those of the newest search only.

Only model-checked: liveness (`EventuallySaved`, `EventuallyAgree`, `ConnectEnds`,
`LeftShellEnds`, `SessionEnds`, `AbandonedIsAborted`, `UnheardWalkStops`,
`SpinnerEnds`), `Converged`, `NoRollback` and `UncrossedAgree` with a socket that breaks, and the
properties of `Recents`. Liveness under fairness and ENABLED are out of reach of the
installed provers. An induction over data must be led by hand, as a least
counterexample over the naturals: the scanner's is, and those over the lists of
`Recents` are not.

## 7. What is not modelled

- *Store*: the fields of the document and the migration chain, which is empty in
  this version; two processes that share a data directory (last writer wins, by
  the store's own header); leftover temp files, the pruning of quarantined
  copies and the throttling of the log.
- *Sync*: the `ready` and `persistence` fields and the notices made from them.
- *Exec*: input, resize and `exec:status`; the list of sessions;
  several questions outstanding at once (the drivers ask one at a time); an `open`
  under an id that was used before (ids are fresh UUIDs and restored tabs
  attach); a second signal while the server shuts down.
- *Recorder*: the list of finished recordings, their sweep and their deletion; the
  variable that turns recording off; times.
- *Recents*: the dwell timer before a visit is recorded, drags that are called
  off, labels and hrefs; two operations in one millisecond.
- *Drivers*: what a host key, an SSH config or a kubeconfig says, argument
  building, the text of errors, and the abort signal, which nothing ever sets off.
- *Tabs*: which tab is active, unread marks, the dock, focus and titles; in
  `TerminalTabs` an `exec:error` that a kubectl sends before its exit is the exit.
- *S3*: what a key, a certificate or an endpoint says; drafts and probes of the
  form; what a pattern matches; downloads; tags, deletes and prefixes, which are
  single calls of S3.
- The components with status `not_modelled` in `PROJECT.json`, with the reason.
  Most of the repository's lines are in them: the pages, components, fetchers and
  actions of the web client and of `packages/core` render AWS's answers and keep no
  state a model would say anything about, so the share of lines the map covers
  stays small.

## 8. Where the code and its comments disagree

Each of these is a run that TLC finds violated:

- `settings_flush_stuck`: a `runFlush` that finds nothing to do stores a promise
  that has settled already (`settings.store.ts:190`). A change that landed during
  a write leaves exactly such a call behind, and nothing is written afterwards.
- `settings_sync_late_answer`: an answer that is overtaken by somebody else's
  broadcast leaves the overwritten value on the screen.
- `connect_resumed`: a page reloaded in the middle of a connect resumes its session,
  which takes the machine from `starting` to `running` and clears the connect timer
  (`session.registry.ts:177`) while the factory is still awaited. With the idle timer
  off nothing is left that would end a host that hangs, against
  `session.state.ts:40` and `ssh/connect.ts:178-180`: it keeps its place until its
  tab is closed or loses its connection. `ConnectEnds` makes an exception of this case and of no other.
- `ssh_exit_leak`: a shell that exits by itself sets `closing`
  (`ssh.driver.ts:147-151`), so that neither the channel's close nor `driver.close`
  unwinds: the hops stay connected and a tunnel's plugin is never told to end.
- `s3_saved_key`: two first reads of the key file cross (`connectionStore.ts:96`);
  the later one replaces the map and drops a key that was saved in between.

Stated in the modules with the line they quote, found violated by TLC, and left out
of the runs, which stay few:

- `UnreadFileKept` (`SettingsStore`): after a read that failed, or a quarantine whose
  rename failed, the next change is written over the unread file.
- `NeverFailsASession` (`Recorder`): the write stream of a transcript has no `error`
  listener (`recorder.ts:80`), and the try around it cannot see a file that cannot be
  opened or written later: the process ends with all its sessions, against the
  comment in the catch block (`recorder.ts:82`).
- `NobodysDriver` (`ExecRegistry`): nobody aborts a connect (`session.registry.ts:258`).
  When its client has gone or its session has ended it goes on, and the driver it
  brings up belongs to no session and is closed by nobody, although the signal is
  said to abort when the client disconnects (`exec.service.ts:55-57`).
- `NothingOutlives` (`ExecRegistry`): the shutdown does not see a driver that is
  still connecting, and the server exits with it up (`main.ts:166-172`).
- `TypingIsRead` (`TerminalTabs`): `exec:ready` follows the factory also when the
  connect timer has ended the session meanwhile; the tab is then ready and what
  is typed goes nowhere (`sessions-model.ts:96-98`).
- `NothingReplaced` (`S3Moves`): the check that a destination is free is made before
  the copy, and a copy in parts completes over what was written since
  (`objects.ts:336`, against `CopyMoveDialog.tsx:88`).

Met with the models, by other values of the constants or by reading:

- `SettingsSync` with `Faults = {"drop"}` and two fields violates `Converged`: an own
  answer moves the watermark past the broadcasts lost in the gap, and the
  refetch (`settings.ts:247`) may then be dropped as stale (`UncrossedAgree` makes an
  exception of this case and holds). So do `{"restart"}`
  (the watermark outlives the process that counted it), `{"lose"}`, and `{"fresh"}`
  with a `Seed` other than 0 (a server that has committed nothing answers with
  revision 0, which no window applies over what its cache holds). `{"channels", "overtake"}` violates `NoRollback`
  (`echo.ts:9-11`), and with `"overtake"`, `"lose"` or `"restart"` `UncrossedAgree` is
  violated as well.
- In `ExecRegistry` the disconnect of a socket detaches its session whoever holds
  it by then (`exec.service.ts:152`): open in A, resume in B, A disconnects, and B's
  shell goes silent and ends with the grace timer.
- `ReplayBuffer` with `Written <- WithCharsets` (in `MCExec`) violates
  `ReplayStartsClean`: the scanner takes `ESC (` for a whole sequence
  (`streamScanner.ts:59`), so the `B` of `ESC ( B`, which terminfo's `sgr0` of an xterm
  begins with, may begin a replay (against `ringBuffer.ts:9-10`).
- `exit` at the end of the shutdown does not wait for the transcripts' streams
  (`main.ts:172-176`): the last lines of a recording may not reach the disk.
- A client that goes while its session connects leaves it in `starting`, and the
  session then runs without a client and, with the idle timer off, without a timer
  (`session.registry.ts:317`).
- StartSession may succeed and its answer be lost, or come back without a stream: the
  driver throws (`ssm.driver.ts:128-133`, `ssh/transport.ts:94-96`) without terminating the
  session, which counts against the account's quota until AWS ends it. `NothingLeft`
  leaves this case out.
- A search whose connection is lost in the middle says nothing to its page, which
  listens for `connect_error` only (`s3-scan.ts:51`): the spinner turns until the
  next search or stop. `SpinnerEnds` leaves this case out.
- The delete of a move is unconditional (`objects.ts:282`): what somebody else wrote to
  the source after the copy is lost with it. `MovedIsThere` leaves this case out.
- Two saves of endpoints at once may rename their key files in the other order
  (`connectionStore.ts:127`). `AnsweredIsOnDisk` leaves writers that race out.
- Input typed while the session connects is dropped (`session.registry.ts:290`;
  `exec.service.ts:131-132` says it is not).
- A tab picked up in the middle of a connect is ready at once; after it has
  answered a question it says "connecting" and hears no second `exec:ready`, which
  goes to the socket that opened the session. A session that a timer ends, or
  another tab, tells its tab nothing.
- The remembered tabs are written by each window over the other's
  (`sessions.ts:64-70`), and a retried tab stays in `targets` under its old id
  (`sessions.ts:289-297`), so that a reload brings back both.
- A move does not look at the `errors` of its delete (`objects.ts:282-292`, against
  178-180), and reports a source it could not delete as moved.
- `UploadDropzone` looks its row up by the entry it first made, so progress and
  errors after the first patch are lost (`UploadDropzone.tsx:59-64`).
- An ECS child that cannot be spawned leaves the exec session it was started for
  (`ecs.driver.ts:153-165`); AWS ends it in its own time.
