------------------------ MODULE SettingsStoreProofs ------------------------
(***************************************************************************)
(* Theorems about SettingsStore, for every debounce, ceiling, set of write *)
(* errors and number of commits.  All of them rest on one inductive        *)
(* invariant, IInv.                                                        *)
(***************************************************************************)
EXTENDS SettingsStore, TLAPS

-----------------------------------------------------------------------------
(* The inductive invariant, in parts. *)

\* A process that does not serve yet has changed nothing and writes nothing.
IdleUntilServing ==
    ~Serving => /\ revision = 0 /\ ~dirty /\ timer = Off /\ writes = {}
                /\ flushing = "null" /\ (proc = "down" => settings = 0)

\* A change or a write is there only after a commit, never under a frozen file.
WorkHasACause ==
    /\ dirty \/ writes # {} => revision > 0
    /\ frozen => /\ ~dirty /\ timer = Off /\ writes = {} /\ ~writable
                 /\ flushing = "null"
    /\ understood /\ file.kind = "newer" => frozen /\ proc # "down"

\* Which documents are older than which.
DocsOrdered ==
    /\ settings =< issued /\ file.doc =< issued /\ durable.doc =< issued
    /\ revision > 0 => settings >= file.doc
    /\ \A w \in writes : w.doc =< settings /\ w.doc >= file.doc
    /\ \A w \in writes : w.step = "renamed" => file = Ours(w.doc)

FilesSane ==
    /\ NeverHalf
    /\ file.kind \in {"missing", "garbage"} => file.doc = 0
    /\ durable.kind \in {"missing", "garbage"} => durable.doc = 0
    /\ file.kind = "newer" => durable = file

\* While a write runs, it carries the last document or another must follow;
\* when none runs and nothing is marked, the file holds the last document.
WorkCoversChanges ==
    /\ \A w \in writes : dirty \/ w.doc = settings
    /\ Serving /\ revision > 0 /\ writable /\ writes = {} /\ ~dirty => Saved

\* The debounce left and the time waited together stay under the bound.
Deferral ==
    /\ dirty <=> age # Off
    /\ dirty /\ flushing = "null" =>
          timer # Off /\ timer + age < MaxDefer + Debounce

IInv ==
    /\ TypeOK
    /\ ListenersCurrent
    /\ OneWriteAtATime
    /\ IdleUntilServing
    /\ WorkHasACause
    /\ DocsOrdered
    /\ FilesSane
    /\ WorkCoversChanges
    /\ Deferral

USE DEF Serving, Snapshot, Notify, Ours, Missing, Docs, Kinds, WriteSteps, Off

-----------------------------------------------------------------------------
\* The inductive invariant holds before the first load.
LEMMA InitIInv == Init => IInv
<1> SUFFICES ASSUME Init PROVE IInv
  OBVIOUS
<1> USE MaxDocsAssumption, TimesAssumption DEF Init
<1>1. FlagsTypeOK
  BY DEF FlagsTypeOK
<1>2. MemoryTypeOK
  BY DEF MemoryTypeOK
<1>3. BehindTypeOK
  BY DEF BehindTypeOK
<1>4. DiskTypeOK
  BY DEF DiskTypeOK
<1>5. ListenersCurrent
  BY DEF ListenersCurrent
<1>6. ToldTypeOK
  BY DEF ToldTypeOK
<1>7. OneWriteAtATime
  BY DEF OneWriteAtATime
<1>8. IdleUntilServing
  BY DEF IdleUntilServing
<1>9. WorkHasACause
  BY DEF WorkHasACause
<1>10. DocsOrdered
  BY DEF DocsOrdered
<1>11. FilesSane
  BY DEF FilesSane, NeverHalf
<1>12. WorkCoversChanges
  BY DEF WorkCoversChanges, Saved
<1>13. Deferral
  BY DEF Deferral
<1>. QED
  BY <1>1, <1>2, <1>3, <1>4, <1>5, <1>6, <1>7, <1>8, <1>9, <1>10, <1>11,
     <1>12, <1>13
  DEF IInv, TypeOK

\* Every step keeps the inductive invariant.
LEMMA StepIInv == IInv /\ [Next]_vars => IInv'
<1> SUFFICES ASSUME IInv, [Next]_vars PROVE IInv'
  OBVIOUS
<1> USE TimesAssumption, MaxDocsAssumption, ErrorsAssumption
        DEF IInv, TypeOK, memory, behind, disk
<1>1. CASE LoadReadFails
  <2> USE <1>1 DEF LoadReadFails
  <2>1. FlagsTypeOK'
    BY DEF FlagsTypeOK
  <2>2. MemoryTypeOK' /\ BehindTypeOK' /\ DiskTypeOK'
    BY DEF MemoryTypeOK, DiskTypeOK, BehindTypeOK
  <2>3. ListenersCurrent'
    BY DEF ListenersCurrent
  <2>4. ToldTypeOK'
    BY <2>1, <2>2, <2>3
    DEF ToldTypeOK, ListenersCurrent, MemoryTypeOK, FlagsTypeOK
  <2>5. OneWriteAtATime' /\ IdleUntilServing' /\ WorkHasACause'
    BY DEF OneWriteAtATime, IdleUntilServing, WorkHasACause
  <2>6. DocsOrdered' /\ FilesSane'
    BY DEF MemoryTypeOK, BehindTypeOK, DiskTypeOK, IdleUntilServing,
           DocsOrdered, OneWriteAtATime, FilesSane, NeverHalf
  <2>7. WorkCoversChanges'
    BY DEF IdleUntilServing, WorkCoversChanges, Saved
  <2>8. Deferral'
    BY DEF BehindTypeOK, Deferral
  <2>. QED
    BY <2>1, <2>2, <2>3, <2>4, <2>5, <2>6, <2>7, <2>8
<1>2. CASE LoadNewer
  <2> USE <1>2 DEF LoadNewer
  <2>1. FlagsTypeOK'
    BY DEF FlagsTypeOK
  <2>2. MemoryTypeOK' /\ BehindTypeOK' /\ DiskTypeOK'
    BY DEF MemoryTypeOK, DiskTypeOK, BehindTypeOK
  <2>3. ListenersCurrent'
    BY DEF ListenersCurrent
  <2>4. ToldTypeOK'
    BY <2>1, <2>2, <2>3
    DEF ToldTypeOK, ListenersCurrent, MemoryTypeOK, FlagsTypeOK
  <2>5. OneWriteAtATime' /\ IdleUntilServing' /\ WorkHasACause'
    BY DEF OneWriteAtATime, IdleUntilServing, WorkHasACause
  <2>6. DocsOrdered' /\ FilesSane'
    BY DEF MemoryTypeOK, BehindTypeOK, DiskTypeOK, IdleUntilServing,
           DocsOrdered, OneWriteAtATime, FilesSane, NeverHalf
  <2>7. WorkCoversChanges'
    BY DEF IdleUntilServing, WorkCoversChanges, Saved
  <2>8. Deferral'
    BY DEF BehindTypeOK, Deferral
  <2>. QED
    BY <2>1, <2>2, <2>3, <2>4, <2>5, <2>6, <2>7, <2>8
<1>3. CASE LoadOurs
  <2> USE <1>3 DEF LoadOurs
  <2>1. FlagsTypeOK'
    BY DEF FlagsTypeOK
  <2>2. MemoryTypeOK' /\ BehindTypeOK' /\ DiskTypeOK'
    BY DEF MemoryTypeOK, DiskTypeOK, BehindTypeOK
  <2>3. ListenersCurrent'
    BY DEF ListenersCurrent
  <2>4. ToldTypeOK'
    BY <2>1, <2>2, <2>3
    DEF ToldTypeOK, ListenersCurrent, MemoryTypeOK, FlagsTypeOK
  <2>5. OneWriteAtATime' /\ IdleUntilServing' /\ WorkHasACause'
    BY DEF OneWriteAtATime, IdleUntilServing, WorkHasACause
  <2>6. DocsOrdered' /\ FilesSane'
    BY DEF MemoryTypeOK, BehindTypeOK, DiskTypeOK, IdleUntilServing,
           DocsOrdered, OneWriteAtATime, FilesSane, NeverHalf
  <2>7. WorkCoversChanges'
    BY DEF IdleUntilServing, WorkCoversChanges, Saved
  <2>8. Deferral'
    BY DEF BehindTypeOK, Deferral
  <2>. QED
    BY <2>1, <2>2, <2>3, <2>4, <2>5, <2>6, <2>7, <2>8
<1>4. CASE LoadMissing
  <2> USE <1>4 DEF LoadMissing
  <2>1. FlagsTypeOK'
    BY DEF FlagsTypeOK
  <2>2. MemoryTypeOK' /\ BehindTypeOK' /\ DiskTypeOK'
    BY DEF MemoryTypeOK, DiskTypeOK, BehindTypeOK
  <2>3. ListenersCurrent'
    BY DEF ListenersCurrent
  <2>4. ToldTypeOK'
    BY <2>1, <2>2, <2>3
    DEF ToldTypeOK, ListenersCurrent, MemoryTypeOK, FlagsTypeOK
  <2>5. OneWriteAtATime' /\ IdleUntilServing' /\ WorkHasACause'
    BY DEF OneWriteAtATime, IdleUntilServing, WorkHasACause
  <2>6. DocsOrdered' /\ FilesSane'
    BY DEF MemoryTypeOK, BehindTypeOK, DiskTypeOK, IdleUntilServing,
           DocsOrdered, OneWriteAtATime, FilesSane, NeverHalf
  <2>7. WorkCoversChanges'
    BY DEF IdleUntilServing, WorkCoversChanges, Saved
  <2>8. Deferral'
    BY DEF BehindTypeOK, Deferral
  <2>. QED
    BY <2>1, <2>2, <2>3, <2>4, <2>5, <2>6, <2>7, <2>8
<1>5. CASE LoadQuarantines
  <2> USE <1>5 DEF LoadQuarantines
  <2>1. FlagsTypeOK'
    BY DEF FlagsTypeOK
  <2>2. MemoryTypeOK' /\ BehindTypeOK' /\ DiskTypeOK'
    BY DEF MemoryTypeOK, DiskTypeOK, BehindTypeOK
  <2>3. ListenersCurrent'
    BY DEF ListenersCurrent
  <2>4. ToldTypeOK'
    BY <2>1, <2>2, <2>3
    DEF ToldTypeOK, ListenersCurrent, MemoryTypeOK, FlagsTypeOK
  <2>5. OneWriteAtATime' /\ IdleUntilServing' /\ WorkHasACause'
    BY DEF OneWriteAtATime, IdleUntilServing, WorkHasACause
  <2>6. DocsOrdered' /\ FilesSane'
    BY DEF MemoryTypeOK, BehindTypeOK, DiskTypeOK, IdleUntilServing,
           DocsOrdered, OneWriteAtATime, FilesSane, NeverHalf
  <2>7. WorkCoversChanges'
    BY DEF IdleUntilServing, WorkCoversChanges, Saved
  <2>8. Deferral'
    BY DEF BehindTypeOK, Deferral
  <2>. QED
    BY <2>1, <2>2, <2>3, <2>4, <2>5, <2>6, <2>7, <2>8
<1>6. CASE Probe
  <2> USE <1>6 DEF Probe
  <2>1. FlagsTypeOK'
    BY DEF FlagsTypeOK
  <2>2. MemoryTypeOK' /\ BehindTypeOK' /\ DiskTypeOK'
    BY DEF MemoryTypeOK, DiskTypeOK, BehindTypeOK
  <2>3. ListenersCurrent'
    BY DEF ListenersCurrent
  <2>4. ToldTypeOK'
    BY <2>1, <2>2, <2>3
    DEF ToldTypeOK, ListenersCurrent, MemoryTypeOK, FlagsTypeOK
  <2>5. OneWriteAtATime' /\ IdleUntilServing' /\ WorkHasACause'
    BY DEF OneWriteAtATime, IdleUntilServing, WorkHasACause
  <2>6. DocsOrdered' /\ FilesSane'
    BY DEF MemoryTypeOK, BehindTypeOK, DiskTypeOK, IdleUntilServing,
           DocsOrdered, OneWriteAtATime, FilesSane, NeverHalf
  <2>7. WorkCoversChanges'
    BY DEF IdleUntilServing, WorkCoversChanges, Saved
  <2>8. Deferral'
    BY DEF BehindTypeOK, Deferral
  <2>. QED
    BY <2>1, <2>2, <2>3, <2>4, <2>5, <2>6, <2>7, <2>8
<1>7. CASE Commit
  <2> USE <1>7 DEF Commit, ScheduleFlush, RunFlush, StartWrite
  <2>1. FlagsTypeOK'
    BY DEF FlagsTypeOK
  <2>2. MemoryTypeOK' /\ BehindTypeOK' /\ DiskTypeOK'
    BY DEF MemoryTypeOK, DiskTypeOK, BehindTypeOK
  <2>3. ListenersCurrent'
    BY DEF ListenersCurrent
  <2>4. ToldTypeOK'
    BY <2>1, <2>2, <2>3
    DEF ToldTypeOK, ListenersCurrent, MemoryTypeOK, FlagsTypeOK
  <2>5. OneWriteAtATime'
    BY DEF OneWriteAtATime
  <2>6. IdleUntilServing'
    BY DEF IdleUntilServing
  <2>7. WorkHasACause'
    BY DEF TypeOK, FlagsTypeOK, MemoryTypeOK, BehindTypeOK, DiskTypeOK,
           OneWriteAtATime, IdleUntilServing, WorkHasACause, DocsOrdered,
           FilesSane, NeverHalf, WorkCoversChanges, Saved, Deferral
  <2>8. DocsOrdered' /\ FilesSane'
    BY DEF MemoryTypeOK, BehindTypeOK, DiskTypeOK, IdleUntilServing,
           DocsOrdered, OneWriteAtATime, FilesSane, NeverHalf
  <2>9. WorkCoversChanges'
    <3>1. CASE frozen
      <4>1. writes' = {} /\ ~writable'
        BY <3>1 DEF WorkHasACause
      <4>. QED
        BY <4>1 DEF WorkCoversChanges
    <3>2. CASE ~frozen
      <4>1. dirty' \/ writes' = {[doc |-> settings', step |-> "open"]}
        BY <3>2 DEF OneWriteAtATime
      <4>2. \A v \in writes' : dirty' \/ v.doc = settings'
        BY <4>1
      <4>3. dirty' \/ writes' # {}
        BY <4>1
      <4>. QED
        BY <4>2, <4>3 DEF WorkCoversChanges
    <3>. QED
      BY <3>1, <3>2
  <2>10. Deferral'
    BY DEF BehindTypeOK, Deferral
  <2>. QED
    BY <2>1, <2>2, <2>3, <2>4, <2>5, <2>6, <2>7, <2>8, <2>9, <2>10
<1>8. CASE Tick
  <2> USE <1>8 DEF Tick
  <2>1. FlagsTypeOK'
    BY DEF FlagsTypeOK
  <2>2. MemoryTypeOK' /\ BehindTypeOK' /\ DiskTypeOK'
    BY DEF MemoryTypeOK, DiskTypeOK, BehindTypeOK
  <2>3. ListenersCurrent'
    BY DEF ListenersCurrent
  <2>4. ToldTypeOK'
    BY <2>1, <2>2, <2>3
    DEF ToldTypeOK, ListenersCurrent, MemoryTypeOK, FlagsTypeOK
  <2>5. OneWriteAtATime' /\ IdleUntilServing' /\ WorkHasACause'
    BY DEF OneWriteAtATime, IdleUntilServing, WorkHasACause
  <2>6. DocsOrdered' /\ FilesSane'
    BY DEF MemoryTypeOK, BehindTypeOK, DiskTypeOK, IdleUntilServing,
           DocsOrdered, OneWriteAtATime, FilesSane, NeverHalf
  <2>7. WorkCoversChanges'
    BY DEF IdleUntilServing, WorkCoversChanges, Saved
  <2>8. Deferral'
    BY DEF BehindTypeOK, Deferral
  <2>. QED
    BY <2>1, <2>2, <2>3, <2>4, <2>5, <2>6, <2>7, <2>8
<1>9. CASE TimerFires
  <2> USE <1>9 DEF TimerFires, RunFlush, StartWrite
  <2>1. FlagsTypeOK'
    BY DEF FlagsTypeOK
  <2>2. MemoryTypeOK' /\ BehindTypeOK' /\ DiskTypeOK'
    BY DEF MemoryTypeOK, DiskTypeOK, BehindTypeOK
  <2>3. ListenersCurrent'
    BY DEF ListenersCurrent
  <2>4. ToldTypeOK'
    BY <2>1, <2>2, <2>3
    DEF ToldTypeOK, ListenersCurrent, MemoryTypeOK, FlagsTypeOK
  <2>5. OneWriteAtATime'
    BY DEF OneWriteAtATime
  <2>6. IdleUntilServing'
    BY DEF IdleUntilServing
  <2>7. WorkHasACause'
    BY DEF IdleUntilServing, WorkHasACause
  <2>8. DocsOrdered' /\ FilesSane'
    BY DEF TypeOK, FlagsTypeOK, MemoryTypeOK, BehindTypeOK, DiskTypeOK,
           OneWriteAtATime, IdleUntilServing, WorkHasACause, DocsOrdered,
           FilesSane, NeverHalf, WorkCoversChanges, Saved, Deferral
  <2>9. WorkCoversChanges'
    <3>1. Saved' <=> Saved
      BY DEF Saved
    <3>2. CASE UNCHANGED <<dirty, writes>>
      BY <3>1, <3>2 DEF WorkCoversChanges
    <3>3. CASE writes' = {[doc |-> settings', step |-> "open"]}
      <4>1. writes' # {} /\ \A v \in writes' : v.doc = settings'
        BY <3>3
      <4>. QED
        BY <4>1 DEF WorkCoversChanges
    <3>. QED
      BY <3>2, <3>3 DEF OneWriteAtATime
  <2>10. Deferral'
    BY DEF BehindTypeOK, Deferral
  <2>. QED
    BY <2>1, <2>2, <2>3, <2>4, <2>5, <2>6, <2>7, <2>8, <2>9, <2>10
<1>10. CASE Flush
  <2> USE <1>10 DEF Flush, RunFlush, StartWrite
  <2>1. FlagsTypeOK'
    BY DEF FlagsTypeOK
  <2>2. MemoryTypeOK' /\ BehindTypeOK' /\ DiskTypeOK'
    BY DEF MemoryTypeOK, DiskTypeOK, BehindTypeOK
  <2>3. ListenersCurrent'
    BY DEF ListenersCurrent
  <2>4. ToldTypeOK'
    BY <2>1, <2>2, <2>3
    DEF ToldTypeOK, ListenersCurrent, MemoryTypeOK, FlagsTypeOK
  <2>5. OneWriteAtATime' /\ IdleUntilServing' /\ WorkHasACause'
    BY DEF OneWriteAtATime, IdleUntilServing, WorkHasACause
  <2>6. DocsOrdered' /\ FilesSane'
    BY DEF TypeOK, FlagsTypeOK, MemoryTypeOK, BehindTypeOK, DiskTypeOK,
           OneWriteAtATime, IdleUntilServing, WorkHasACause, DocsOrdered,
           FilesSane, NeverHalf, WorkCoversChanges, Saved, Deferral
  <2>7. WorkCoversChanges'
    <3>1. Saved' <=> Saved
      BY DEF Saved
    <3>2. CASE UNCHANGED <<dirty, writes>>
      BY <3>1, <3>2 DEF WorkCoversChanges
    <3>3. CASE writes' = {[doc |-> settings', step |-> "open"]}
      <4>1. writes' # {} /\ \A v \in writes' : v.doc = settings'
        BY <3>3
      <4>. QED
        BY <4>1 DEF WorkCoversChanges
    <3>. QED
      BY <3>2, <3>3 DEF OneWriteAtATime
  <2>8. Deferral'
    BY DEF BehindTypeOK, Deferral
  <2>. QED
    BY <2>1, <2>2, <2>3, <2>4, <2>5, <2>6, <2>7, <2>8
<1>11. CASE ProcessEnds
  <2> USE <1>11 DEF ProcessEnds, Boot
  <2>1. FlagsTypeOK'
    BY DEF FlagsTypeOK
  <2>2. MemoryTypeOK' /\ BehindTypeOK' /\ DiskTypeOK'
    BY DEF MemoryTypeOK, DiskTypeOK, BehindTypeOK
  <2>3. ListenersCurrent'
    BY DEF ListenersCurrent
  <2>4. ToldTypeOK'
    BY <2>1, <2>2, <2>3
    DEF ToldTypeOK, ListenersCurrent, MemoryTypeOK, FlagsTypeOK
  <2>5. OneWriteAtATime' /\ IdleUntilServing' /\ WorkHasACause'
    BY DEF OneWriteAtATime, IdleUntilServing, WorkHasACause
  <2>6. DocsOrdered' /\ FilesSane'
    BY DEF MemoryTypeOK, BehindTypeOK, DiskTypeOK, IdleUntilServing,
           DocsOrdered, OneWriteAtATime, FilesSane, NeverHalf
  <2>7. WorkCoversChanges'
    BY DEF IdleUntilServing, WorkCoversChanges, Saved
  <2>8. Deferral'
    BY DEF BehindTypeOK, Deferral
  <2>. QED
    BY <2>1, <2>2, <2>3, <2>4, <2>5, <2>6, <2>7, <2>8
<1>12. CASE PowerCut
  <2> USE <1>12 DEF PowerCut, Boot
  <2>1. FlagsTypeOK'
    BY DEF FlagsTypeOK
  <2>2. MemoryTypeOK' /\ BehindTypeOK' /\ DiskTypeOK'
    BY DEF MemoryTypeOK, DiskTypeOK, BehindTypeOK
  <2>3. ListenersCurrent'
    BY DEF ListenersCurrent
  <2>4. ToldTypeOK'
    BY <2>1, <2>2, <2>3
    DEF ToldTypeOK, ListenersCurrent, MemoryTypeOK, FlagsTypeOK
  <2>5. OneWriteAtATime' /\ IdleUntilServing' /\ WorkHasACause'
    BY DEF OneWriteAtATime, IdleUntilServing, WorkHasACause
  <2>6. DocsOrdered' /\ FilesSane'
    BY DEF MemoryTypeOK, BehindTypeOK, DiskTypeOK, IdleUntilServing,
           DocsOrdered, OneWriteAtATime, FilesSane, NeverHalf
  <2>7. WorkCoversChanges'
    BY DEF IdleUntilServing, WorkCoversChanges, Saved
  <2>8. Deferral'
    BY DEF BehindTypeOK, Deferral
  <2>. QED
    BY <2>1, <2>2, <2>3, <2>4, <2>5, <2>6, <2>7, <2>8
<1>13. ASSUME NEW w \in writes, SyncTemp(w) PROVE IInv'
  <2> USE <1>13 DEF SyncTemp
  <2>1. FlagsTypeOK'
    BY DEF FlagsTypeOK
  <2>2. MemoryTypeOK' /\ BehindTypeOK' /\ DiskTypeOK'
    BY DEF MemoryTypeOK, DiskTypeOK, BehindTypeOK
  <2>3. ListenersCurrent'
    BY DEF ListenersCurrent
  <2>4. ToldTypeOK'
    BY <2>1, <2>2, <2>3
    DEF ToldTypeOK, ListenersCurrent, MemoryTypeOK, FlagsTypeOK
  <2>5. OneWriteAtATime' /\ IdleUntilServing' /\ WorkHasACause'
    BY DEF OneWriteAtATime, IdleUntilServing, WorkHasACause
  <2>6. DocsOrdered' /\ FilesSane'
    BY DEF MemoryTypeOK, BehindTypeOK, DiskTypeOK, IdleUntilServing,
           DocsOrdered, OneWriteAtATime, FilesSane, NeverHalf
  <2>7. WorkCoversChanges'
    BY DEF TypeOK, FlagsTypeOK, MemoryTypeOK, BehindTypeOK, DiskTypeOK,
           OneWriteAtATime, IdleUntilServing, WorkHasACause, DocsOrdered,
           FilesSane, NeverHalf, WorkCoversChanges, Saved, Deferral
  <2>8. Deferral'
    BY DEF BehindTypeOK, Deferral
  <2>. QED
    BY <2>1, <2>2, <2>3, <2>4, <2>5, <2>6, <2>7, <2>8
<1>14. ASSUME NEW w \in writes, Rename(w) PROVE IInv'
  <2> USE <1>14 DEF Rename, Temp
  <2>1. FlagsTypeOK'
    BY DEF FlagsTypeOK
  <2>2. MemoryTypeOK' /\ BehindTypeOK' /\ DiskTypeOK'
    BY DEF MemoryTypeOK, DiskTypeOK, BehindTypeOK
  <2>3. ListenersCurrent'
    BY DEF ListenersCurrent
  <2>4. ToldTypeOK'
    BY <2>1, <2>2, <2>3
    DEF ToldTypeOK, ListenersCurrent, MemoryTypeOK, FlagsTypeOK
  <2>5. OneWriteAtATime' /\ IdleUntilServing' /\ WorkHasACause'
    BY DEF OneWriteAtATime, IdleUntilServing, WorkHasACause
  <2>6. DocsOrdered' /\ FilesSane'
    BY DEF MemoryTypeOK, BehindTypeOK, DiskTypeOK, IdleUntilServing,
           DocsOrdered, OneWriteAtATime, FilesSane, NeverHalf
  <2>7. WorkCoversChanges'
    BY DEF TypeOK, FlagsTypeOK, MemoryTypeOK, BehindTypeOK, DiskTypeOK,
           OneWriteAtATime, IdleUntilServing, WorkHasACause, DocsOrdered,
           FilesSane, NeverHalf, WorkCoversChanges, Saved, Deferral
  <2>8. Deferral'
    BY DEF BehindTypeOK, Deferral
  <2>. QED
    BY <2>1, <2>2, <2>3, <2>4, <2>5, <2>6, <2>7, <2>8
<1>15. ASSUME NEW w \in writes, WriteReturns(w) PROVE IInv'
  <2> USE <1>15 DEF WriteReturns, NextIteration
  <2>1. FlagsTypeOK'
    BY DEF FlagsTypeOK
  <2>2. MemoryTypeOK' /\ BehindTypeOK' /\ DiskTypeOK'
    BY DEF MemoryTypeOK, DiskTypeOK, BehindTypeOK
  <2>3. ListenersCurrent'
    BY DEF ListenersCurrent
  <2>4. ToldTypeOK'
    BY <2>1, <2>2, <2>3
    DEF ToldTypeOK, ListenersCurrent, MemoryTypeOK, FlagsTypeOK
  <2>5. OneWriteAtATime' /\ IdleUntilServing' /\ WorkHasACause'
    BY DEF OneWriteAtATime, IdleUntilServing, WorkHasACause
  <2>6. DocsOrdered' /\ FilesSane'
    BY DEF MemoryTypeOK, BehindTypeOK, DiskTypeOK, IdleUntilServing,
           DocsOrdered, OneWriteAtATime, FilesSane, NeverHalf
  <2>7. WorkCoversChanges'
    <3>1. CASE dirty
      <4>1. writes' = {[doc |-> settings', step |-> "open"]}
        BY <3>1 DEF OneWriteAtATime
      <4>2. writes' # {} /\ \A v \in writes' : v.doc = settings'
        BY <4>1
      <4>. QED
        BY <4>2 DEF WorkCoversChanges
    <3>2. CASE ~dirty
      <4>1. writes' = {}
        BY <3>2 DEF OneWriteAtATime
      <4>2. Saved'
        BY <3>2 DEF WorkCoversChanges, DocsOrdered, Saved
      <4>. QED
        BY <4>1, <4>2 DEF WorkCoversChanges
    <3>. QED
      BY <3>1, <3>2
  <2>8. Deferral'
    BY DEF BehindTypeOK, Deferral
  <2>. QED
    BY <2>1, <2>2, <2>3, <2>4, <2>5, <2>6, <2>7, <2>8
<1>16. ASSUME NEW w \in writes, WriteFails(w) PROVE IInv'
  <2> USE <1>16 DEF WriteFails, NextIteration
  <2>1. FlagsTypeOK'
    BY DEF FlagsTypeOK
  <2>2. MemoryTypeOK' /\ BehindTypeOK' /\ DiskTypeOK'
    BY DEF MemoryTypeOK, DiskTypeOK, BehindTypeOK
  <2>3. ListenersCurrent'
    BY DEF ListenersCurrent, FlagsTypeOK, MemoryTypeOK
  <2>4. ToldTypeOK'
    BY <2>1, <2>2, <2>3
    DEF ToldTypeOK, ListenersCurrent, MemoryTypeOK, FlagsTypeOK
  <2>5. OneWriteAtATime' /\ IdleUntilServing' /\ WorkHasACause'
    BY DEF OneWriteAtATime, IdleUntilServing, WorkHasACause
  <2>6. DocsOrdered' /\ FilesSane'
    BY DEF MemoryTypeOK, BehindTypeOK, DiskTypeOK, IdleUntilServing,
           DocsOrdered, OneWriteAtATime, FilesSane, NeverHalf
  <2>7. WorkCoversChanges'
    BY DEF TypeOK, FlagsTypeOK, MemoryTypeOK, BehindTypeOK, DiskTypeOK,
           OneWriteAtATime, IdleUntilServing, WorkHasACause, DocsOrdered,
           FilesSane, NeverHalf, WorkCoversChanges, Saved, Deferral
  <2>8. Deferral'
    BY DEF BehindTypeOK, Deferral
  <2>. QED
    BY <2>1, <2>2, <2>3, <2>4, <2>5, <2>6, <2>7, <2>8
<1>17. CASE UNCHANGED vars
  BY <1>17 DEF vars, ListenersCurrent, ToldTypeOK, FlagsTypeOK, MemoryTypeOK,
       BehindTypeOK, DiskTypeOK, OneWriteAtATime, IdleUntilServing,
       WorkHasACause, DocsOrdered, FilesSane, NeverHalf, WorkCoversChanges,
       Saved, Deferral
<1>. QED
  BY <1>1, <1>2, <1>3, <1>4, <1>5, <1>6, <1>7, <1>8, <1>9, <1>10, <1>11,
     <1>12, <1>13, <1>14, <1>15, <1>16, <1>17
  DEF Next, Update, ImportLegacy

-----------------------------------------------------------------------------
\* The inductive invariant holds in every reachable state.
THEOREM Invariant == Spec => []IInv
<1>1. Init => IInv
  BY InitIInv
<1>2. IInv /\ [Next]_vars => IInv'
  BY StepIInv
<1>. QED
  BY <1>1, <1>2, PTL DEF Spec

\* Every variable keeps to its type.
THEOREM TypeCorrect == Spec => []TypeOK
<1>1. IInv => TypeOK
  BY DEF IInv
<1>. QED
  BY <1>1, Invariant, PTL

\* There is never more than one call of writeSettingsFileAtomic under way.
THEOREM WritesSerialised == Spec => []OneWriteAtATime
<1>1. IInv => OneWriteAtATime
  BY DEF IInv
<1>. QED
  BY <1>1, Invariant, PTL

\* No crash or power cut leaves half a settings.json.
THEOREM FileWhole == Spec => []NeverHalf
<1>1. IInv => NeverHalf
  BY DEF IInv, FilesSane
<1>. QED
  BY <1>1, Invariant, PTL

\* While the store says it can save, an unsaved change is being written or is
\* marked for a write.
THEOREM ChangesRemembered == Spec => []NothingForgotten
<1>1. IInv => NothingForgotten
  <2> SUFFICES ASSUME IInv, Serving, revision > 0, writable, ~Saved, ~dirty
               PROVE  \E w \in writes : w.doc = settings
    BY DEF NothingForgotten
  <2>1. writes # {}
    BY DEF IInv, WorkCoversChanges
  <2>2. \A w \in writes : w.doc = settings
    BY DEF IInv, WorkCoversChanges
  <2>. QED
    BY <2>1, <2>2
<1>. QED
  BY <1>1, Invariant, PTL

\* A mark always has a timer or a loop behind it, or the stuck promise.
THEOREM MarksServed == Spec => []DirtyHasAWriter
<1>1. IInv => DirtyHasAWriter
  BY DEF IInv, Deferral, DirtyHasAWriter
<1>. QED
  BY <1>1, Invariant, PTL

\* However the changes come in, the disk is not starved of them.
THEOREM DeferralBounded == Spec => []BoundedDeferral
<1>1. IInv => BoundedDeferral
  BY TimesAssumption
  DEF IInv, TypeOK, BehindTypeOK, Deferral, BoundedDeferral
<1>. QED
  BY <1>1, Invariant, PTL

\* The windows are never left with a stale snapshot by the server's side.
THEOREM ListenersInformed == Spec => []ListenersCurrent
<1>1. IInv => ListenersCurrent
  BY DEF IInv
<1>. QED
  BY <1>1, Invariant, PTL

-----------------------------------------------------------------------------
(* What a step may never do. *)

\* While a process runs, an older document never replaces a newer one on disk.
THEOREM DiskMovesForward == Spec => NeverOlder
<1>1. IInv /\ [Next]_vars =>
        [proc # "down" /\ proc' # "down" => file'.doc >= file.doc]_vars
  <2> SUFFICES ASSUME IInv, Next, proc # "down", proc' # "down"
               PROVE  file'.doc >= file.doc
    BY DEF vars, disk
  <2> USE DEF IInv, TypeOK
  <2>1. CASE UNCHANGED file
    BY <2>1, MaxDocsAssumption DEF DiskTypeOK
  <2>2. CASE LoadQuarantines
    BY <2>2 DEF LoadQuarantines
  <2>3. ASSUME NEW w \in writes, Rename(w) PROVE file'.doc >= file.doc
    BY <2>3 DEF Rename, Temp, DocsOrdered
  <2>4. ~PowerCut
    BY DEF PowerCut, Boot
  <2>. QED
    BY <2>1, <2>2, <2>3, <2>4
    DEF Next, LoadReadFails, LoadNewer, LoadOurs, LoadMissing, Probe,
        Update, ImportLegacy, Commit, Tick, TimerFires, SyncTemp, WriteReturns, WriteFails, Flush,
        ProcessEnds, disk
<1>. QED
  BY <1>1, Invariant, PTL DEF Spec, NeverOlder

\* A file the load recognised as a newer faws's is never written.
THEOREM NewerFileSafe == Spec => NewerFileKept
<1>1. IInv /\ [Next]_vars =>
        [understood /\ file.kind = "newer" => file' = file]_vars
  <2> SUFFICES ASSUME IInv, Next, understood, file.kind = "newer"
               PROVE  file' = file
    BY DEF vars, disk
  <2>1. frozen /\ proc # "down" /\ writes = {} /\ durable = file
    BY DEF IInv, WorkHasACause, FilesSane
  <2>. QED
    BY <2>1
    DEF Next, LoadReadFails, LoadNewer, LoadOurs, LoadMissing, LoadQuarantines,
        Probe, Update, ImportLegacy, Commit, Tick, TimerFires, Flush,
        ProcessEnds, PowerCut, disk
<1>. QED
  BY <1>1, Invariant, PTL DEF Spec, NewerFileKept

\* When the shutdown's flush returns, the file holds the last change, unless
\* the store has said that it cannot save or its promise is the stuck one.
THEOREM FlushKeepsItsWord == Spec => FlushSaves
<1>1. IInv /\ [Next]_vars =>
        [FlushReturned /\ flushing' # "settled" /\ writable' /\ revision' > 0
           => file' = Ours(settings')]_vars
  <2> SUFFICES ASSUME IInv, Next, FlushReturned, flushing' # "settled",
                      writable', revision' > 0
               PROVE  Saved'
    BY DEF vars, FlushReturned, Saved
  <2>1. IInv'
    BY StepIInv
  <2>2. ~dirty' /\ writes' = {} /\ Serving'
    <3>1. CASE Flush
      <4>1. flushing' = "null"
        BY <3>1, <2>1 DEF Flush, FlushReturned, IInv, TypeOK, BehindTypeOK
      <4>. QED
        BY <3>1, <4>1, <2>1
        DEF Flush, RunFlush, StartWrite, FlushReturned, IInv, OneWriteAtATime
    <3>2. ASSUME NEW w \in writes, WriteReturns(w) \/ WriteFails(w)
          PROVE  ~dirty' /\ writes' = {} /\ Serving'
      BY <3>2, <2>1 DEF WriteReturns, WriteFails, NextIteration, FlushReturned,
                        IInv, OneWriteAtATime
    <3>. QED
      BY <3>1, <3>2
      DEF FlushReturned, Next, LoadReadFails, LoadNewer, LoadOurs, LoadMissing,
          LoadQuarantines, Probe, Update, ImportLegacy, Commit, Tick,
          TimerFires, SyncTemp, Rename,
          ProcessEnds, PowerCut, Boot
  <2>. QED
    BY <2>1, <2>2 DEF IInv, WorkCoversChanges
<1>. QED
  BY <1>1, Invariant, PTL DEF Spec, FlushSaves

-----------------------------------------------------------------------------
\* The store, its timers, retries, temp files and restarts included,
\* implements the write-behind register.
THEOREM Implements == Spec => ImplementsWriteBehind
<1>1. Init => Abstract!Init
  BY MaxDocsAssumption DEF Init, Abstract!Init, Worth, Ours, Missing
<1>2. IInv /\ IInv' /\ [Next]_vars => [Abstract!Next]_Abstract!vars
  <2> SUFFICES ASSUME IInv, IInv', [Next]_vars
               PROVE  [Abstract!Next]_Abstract!vars
    OBVIOUS
  <2>0. /\ Worth(file) = file.doc /\ Worth(durable) = durable.doc
        /\ Worth(file)' = file'.doc /\ Worth(durable)' = durable'.doc
    BY DEF Worth, IInv, FilesSane, NeverHalf
  <2> USE DEF Abstract!vars, Abstract!Next, memory, disk
  <2>1. CASE LoadReadFails \/ LoadMissing \/ Probe \/ Tick \/ TimerFires \/ Flush
    BY <2>0, <2>1 DEF LoadReadFails, LoadMissing, Probe, Tick, TimerFires, Flush
  <2>2. CASE LoadNewer \/ LoadOurs
    <3>1. settings = 0
      BY <2>2 DEF IInv, IdleUntilServing, LoadNewer, LoadOurs
    <3>. QED
      BY <2>0, <2>2, <3>1 DEF LoadNewer, LoadOurs, Abstract!Start
  <2>3. CASE LoadQuarantines
    <3>1. file'.doc = file.doc
      BY <2>3 DEF LoadQuarantines, IInv, FilesSane, NeverHalf
    <3>. QED
      BY <2>0, <2>3, <3>1 DEF LoadQuarantines
  <2>4. CASE Commit
    <3>1. settings' \in Nat /\ settings' > settings /\ settings' > file.doc
      BY <2>4, MaxDocsAssumption
      DEF Commit, IInv, TypeOK, MemoryTypeOK, DiskTypeOK, DocsOrdered
    <3>. QED
      BY <2>0, <2>4, <3>1 DEF Commit, Abstract!Change
  <2>5. ASSUME NEW w \in writes, Rename(w)
        PROVE  Abstract!Next \/ UNCHANGED Abstract!vars
    <3>1. file'.doc = w.doc
      BY <2>5 DEF Rename, Temp
    <3>2. file.doc =< w.doc /\ w.doc =< settings
      BY DEF IInv, DocsOrdered
    <3>3. w.doc \in Nat /\ file.doc \in Nat /\ settings \in Nat
      BY MaxDocsAssumption
      DEF IInv, TypeOK, MemoryTypeOK, BehindTypeOK, DiskTypeOK
    <3>4. CASE w.doc = file.doc
      BY <2>0, <2>5, <3>1, <3>4 DEF Rename
    <3>5. CASE w.doc # file.doc
      <4>1. file'.doc \in file.doc + 1 .. settings
        BY <3>1, <3>2, <3>3, <3>5
      <4>. QED
        BY <2>0, <2>5, <4>1 DEF Rename, Abstract!Save
    <3>. QED
      BY <3>4, <3>5
  <2>6. ASSUME NEW w \in writes, WriteReturns(w)
        PROVE  Abstract!Next \/ UNCHANGED Abstract!vars
    BY <2>0, <2>6 DEF WriteReturns, Abstract!Sync
  <2>7. ASSUME NEW w \in writes, SyncTemp(w) \/ WriteFails(w)
        PROVE  UNCHANGED Abstract!vars
    BY <2>0, <2>7 DEF SyncTemp, WriteFails
  <2>8. CASE ProcessEnds
    BY <2>0, <2>8 DEF ProcessEnds, Boot, Abstract!Stop
  <2>9. CASE PowerCut
    BY <2>0, <2>9 DEF PowerCut, Boot, Abstract!Cut
  <2>10. CASE UNCHANGED vars
    BY <2>0, <2>10 DEF vars, disk
  <2>. QED
    BY <2>1, <2>2, <2>3, <2>4, <2>5, <2>6, <2>7, <2>8, <2>9, <2>10
    DEF Next, Update, ImportLegacy
<1>. QED
  BY <1>1, <1>2, Invariant, PTL DEF Spec, ImplementsWriteBehind, Abstract!Spec
=============================================================================
