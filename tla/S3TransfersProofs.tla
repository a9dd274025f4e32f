------------------------- MODULE S3TransfersProofs -------------------------
(***************************************************************************)
(* Proofs about S3Uploads, for every number of parts and workers, about    *)
(* S3Moves, for copies of any number of parts, and about S3Scans, for      *)
(* listings of any length and batches of any size.                         *)
(***************************************************************************)
EXTENDS S3Uploads, S3Moves, S3Scans, TLAPS

USE PartsAssumption, PiecesAssumption

-----------------------------------------------------------------------------
(* The types, a variable or two at a time. *)
Page      == form \in Forms /\ row \in [entry : BOOLEAN, sent : Nat, error : BOOLEAN]
Flags     == cancelled \in BOOLEAN /\ aborts \in BOOLEAN /\ untracked \in BOOLEAN
Progress  == stage \in Stages /\ next \in Nat \ {0}
Calling   == session \in {"none", "young", "old"} /\ call \in Calls
Duty      == {d \in [at : Spots, part : 0..Parts] : d.at = "ended" \/ d.part # 0}
Workings  == worker \in [1..Workers -> Duty]
PartsHere == etags \subseteq 1..Parts /\ stored \subseteq 1..Parts
Objects   == /\ upload \in {"none", "open", "completed", "aborted"}
             /\ object \in [of : {"nobody", "us", "other"}, parts : SUBSET (1..Parts)]
Typed     == /\ Page /\ Flags /\ Progress /\ Calling
             /\ Workings /\ PartsHere /\ Objects

LEMMA TypedIsTypeOK == Typed => UploadTypeOK
<1> SUFFICES ASSUME Typed PROVE UploadTypeOK OBVIOUS
<1>1. worker \in [1..Workers -> [at : Spots, part : 0..Parts]]
  BY DEF Typed, Workings, Duty
<1> QED
  BY <1>1 DEF UploadTypeOK, Typed, Page, Flags, Progress, Calling, PartsHere,
     Objects

(* What a worker does next is a part of the file or nothing.               *)
LEMMA TakeType ==
    ASSUME Page, NEW n \in Nat \ {0}
    PROVE  Take(n) \in Duty
<1>1. Count \in Nat /\ Count <= Parts BY DEF Count
<1>2. n <= Count => n \in 1..Parts BY <1>1
<1>3. Ended \in Duty BY DEF Ended, Spots, Duty
<1>4. ASSUME NEW spot \in {"signing", "sent"}, n <= Count
      PROVE  [at |-> spot, part |-> n] \in Duty
  BY <1>2, <1>4 DEF Spots, Duty
<1>5. n > Count \/ n <= Count BY <1>1
<1> QED BY <1>3, <1>4, <1>5 DEF Take

(* A worker is always with a part of the file, or has none.                *)
LEMMA WorkingStep ==
    ASSUME Page, Progress, Workings, [UploadNext]_uploadVars PROVE Workings'
<1> USE DEF Workings
<1>1. CASE UNCHANGED worker BY <1>1
<1>2. CASE Create
  <2>1. ASSUME NEW w \in 1..Workers PROVE Take(w) \in Duty
    <3>1. w \in Nat \ {0} OBVIOUS
    <3> QED BY <3>1, TakeType
  <2> QED BY <1>2, <2>1 DEF Create
<1>3. Ended \in Duty BY DEF Ended, Duty, Spots
<1>4. ASSUME NEW w \in 1..Workers, worker[w].at # "ended", NEW spot \in Spots
      PROVE  [worker[w] EXCEPT !.at = spot] \in Duty
  BY <1>4 DEF Duty
<1>5. "cut" \in Spots /\ {"sent", "received", "stored", "cut"} \subseteq Spots BY DEF Spots
<1>6. CASE Cancel BY <1>3, <1>4, <1>5, <1>6 DEF Cancel
<1>7. CASE Leave BY <1>3, <1>4, <1>5, <1>7 DEF Leave
<1>8. CASE Restart BY <1>4, <1>5, <1>8 DEF Restart
<1>9. ASSUME NEW w \in 1..Workers, PartLoads(w) PROVE Workings'
  <2>1. Take(next) \in Duty BY TakeType DEF Progress
  <2> QED BY <1>9, <2>1 DEF PartLoads
<1>10. ASSUME NEW w \in 1..Workers,
              Sign(w) \/ Receive(w) \/ Store(w) \/ Break(w) \/ CutOff(w) \/ FileLoads(w)
       PROVE  Workings'
  <2>1. StopWorker(w) \/ \E spot \in Spots : Goto(w, spot)
    BY <1>10, <1>5 DEF Sign, Receive, Store, Break, CutOff, FileLoads
  <2>2. worker[w].at # "ended"
    BY <1>10 DEF Sign, Receive, Store, AtS3, Break, CutOff, FileLoads
  <2>3. CASE StopWorker(w) BY <1>3, <2>3 DEF StopWorker
  <2>4. ASSUME NEW spot \in Spots, Goto(w, spot) PROVE Workings'
    BY <1>4, <2>2, <2>4 DEF Goto
  <2> QED BY <2>1, <2>3, <2>4
<1> QED
  BY <1>1, <1>2, <1>6, <1>7, <1>8, <1>9, <1>10
  DEF UploadNext, uploadVars, page, Choose, CreateFails, Arrive, Commit, Close, Answer,
      AnswerLost, Age, Sweep, Abort, AbortFails, Other

(* The line of the page, and what was asked for.                           *)
LEMMA PageStep == ASSUME Page, [UploadNext]_uploadVars PROVE Page'
<1> USE DEF Page
<1>1. form' = form
  BY DEF UploadNext, uploadVars, page, server, Choose, Create, CreateFails,
     Cancel, Leave, Sign,
         Receive, Store, Break, CutOff, PartLoads, FileLoads, Arrive, Commit, Close,
         Answer, AnswerLost, Age, Sweep, Abort, AbortFails, Restart, Other
<1>2. ASSUME NEW sent \in Nat, NEW error \in BOOLEAN
      PROVE  Patched(sent, error) \in [entry : BOOLEAN, sent : Nat, error : BOOLEAN]
  BY DEF Patched
<1> DEFINE Rows == [entry : BOOLEAN, sent : Nat, error : BOOLEAN]
<1>3. /\ Patched(0, FALSE) \in Rows /\ Patched(0, TRUE) \in Rows
      /\ Patched(1, FALSE) \in Rows /\ Patched(Count, FALSE) \in Rows
  BY <1>2 DEF Count
<1>4. row.sent \in Nat OBVIOUS
<1>5. Reject => Page' BY <1>1, <1>2, <1>4 DEF Reject
<1>6. CASE UNCHANGED row BY <1>1, <1>6
<1>7. CASE Choose BY <1>1, <1>7 DEF Choose
<1>8. CASE Create \/ CreateFails BY <1>1, <1>3, <1>8 DEF Create, CreateFails
<1>9. CASE Answer BY <1>1, <1>3, <1>5, <1>9 DEF Answer
<1>10. ASSUME NEW w \in 1..Workers, PartLoads(w) PROVE Page'
  <2>1. row.sent + 1 \in Nat /\ (stage' = "failed") \in BOOLEAN BY <1>4
  <2> QED BY <1>1, <1>2, <1>10, <2>1 DEF PartLoads
<1>11. ASSUME NEW w \in 1..Workers, FileLoads(w) PROVE Page'
  BY <1>1, <1>3, <1>6, <1>11 DEF FileLoads
<1>12. CASE UNCHANGED row \/ Reject BY <1>5, <1>6, <1>12
<1> QED
  BY <1>6, <1>7, <1>8, <1>9, <1>10, <1>11, <1>12
  DEF UploadNext, uploadVars, page, server, Cancel, Leave, Sign, Receive, Store, Break, CutOff,
      Arrive, Commit, Close, AnswerLost, Age, Sweep, Abort, AbortFails, Restart, Other

(* Where the promise and the loop's counter stand.                         *)
LEMMA ProgressStep == ASSUME Progress, [UploadNext]_uploadVars PROVE Progress'
<1> USE DEF Progress, Stages
<1>1. next' \in {next, next + 1, Workers + 1}
  BY DEF UploadNext, uploadVars, page, server, Choose, Create, CreateFails,
     Cancel, Leave, Sign,
         Receive, Store, Break, CutOff, PartLoads, FileLoads, Arrive, Commit, Close,
         Answer, AnswerLost, Age, Sweep, Abort, AbortFails, Restart, Other
<1>2. stage' \in Stages
  BY DEF UploadNext, uploadVars, page, server, Choose, Create, CreateFails,
     Cancel, Leave, Sign,
         Receive, Store, Break, CutOff, PartLoads, FileLoads, Arrive, Commit, Close,
         Answer, AnswerLost, Age, Sweep, Abort, AbortFails, Restart, Other, Reject, AfterLast
<1>3. next' \in Nat \ {0} BY <1>1
<1> QED BY <1>2, <1>3

(* What the server's map and its calls come to.                            *)
LEMMA CallingStep == ASSUME Calling, [UploadNext]_uploadVars PROVE Calling'
<1> USE DEF Calling, Calls
<1>1. session' \in {"none", "young", "old"}
  BY DEF UploadNext, uploadVars, page, server, Choose, Create, CreateFails,
     Cancel, Leave, Sign,
         Receive, Store, Break, CutOff, PartLoads, FileLoads, Arrive, Commit, Close,
         Answer, AnswerLost, Age, Sweep, Abort, AbortFails, Restart, Other
<1>2. call' \in Calls
  BY DEF UploadNext, uploadVars, page, server, Choose, Create, CreateFails,
     Cancel, Leave, Sign,
         Receive, Store, Break, CutOff, PartLoads, FileLoads, Arrive, Commit, Close,
         Answer, AnswerLost, Age, Sweep, Abort, AbortFails, Restart, Other, AfterLast
<1> QED BY <1>1, <1>2

(* What has come back and what S3 has are parts of the file.               *)
LEMMA PartsStep ==
    ASSUME Workings, PartsHere, [UploadNext]_uploadVars PROVE PartsHere'
<1> USE DEF PartsHere
<1>1. ASSUME NEW w \in 1..Workers, worker[w].at # "ended" PROVE worker[w].part \in 1..Parts
  BY <1>1 DEF Workings, Duty
<1>2. CASE UNCHANGED <<etags, stored>> BY <1>2
<1>3. 1 \in 1..Parts OBVIOUS
<1>4. ASSUME NEW w \in 1..Workers, Store(w) \/ CutOff(w) PROVE PartsHere'
  <2>1. worker[w].part \in 1..Parts BY <1>1, <1>4 DEF Store, AtS3, CutOff
  <2> QED BY <1>4, <2>1 DEF Store, CutOff, Put, page
<1>5. ASSUME NEW w \in 1..Workers, PartLoads(w) PROVE PartsHere'
  <2>1. worker[w].part \in 1..Parts BY <1>1, <1>5 DEF PartLoads
  <2> QED BY <1>5, <2>1 DEF PartLoads, bucket
<1>6. ASSUME NEW w \in 1..Workers, FileLoads(w) PROVE PartsHere'
  BY <1>3, <1>6 DEF FileLoads, bucket
<1> QED
  BY <1>2, <1>4, <1>5, <1>6
  DEF UploadNext, uploadVars, page, server, bucket, Choose, Create, CreateFails, Cancel, Leave,
      Sign, Receive, Break, Arrive, Commit, Close, Answer, AnswerLost, Age, Sweep, Abort,
      AbortFails, Restart, Other

(* The upload at S3 and the object.                                        *)
LEMMA ObjectsStep ==
    ASSUME PartsHere, Objects, [UploadNext]_uploadVars PROVE Objects'
<1> DEFINE Them == [of : {"nobody", "us", "other"}, parts : SUBSET (1..Parts)]
<1>1. upload' \in {"none", "open", "completed", "aborted"}
  BY DEF Objects, UploadNext, uploadVars, page, server, bucket, Choose, Create,
     CreateFails,
         Cancel, Leave, Sign, Receive, Store, Break, CutOff, PartLoads, FileLoads, Arrive,
         Commit, Close, Answer, AnswerLost, Age, Sweep, Abort, AbortFails, Restart, Other
<1>2. /\ [of |-> "us", parts |-> etags] \in Them
      /\ [of |-> "us", parts |-> {1}] \in Them
      /\ [of |-> "other", parts |-> {}] \in Them
  BY DEF PartsHere
<1>3. object' \in {object, [of |-> "us", parts |-> etags], [of |-> "us", parts |-> {1}],
                   [of |-> "other", parts |-> {}]}
  BY DEF UploadNext, uploadVars, page, server, bucket, Choose, Create, CreateFails,
         Cancel, Leave, Sign, Receive, Store, Put, Break, CutOff, PartLoads, FileLoads, Arrive,
         Commit, Close, Answer, AnswerLost, Age, Sweep, Abort, AbortFails, Restart, Other
<1>4. object' \in Them BY <1>2, <1>3 DEF Objects
<1> QED BY <1>1, <1>4 DEF Objects

(* The flags.                                                              *)
LEMMA FlagsStep == ASSUME Page, Flags, [UploadNext]_uploadVars PROVE Flags'
<1>1. cancelled' = cancelled \/ cancelled' = TRUE
  BY DEF UploadNext, uploadVars, page, server, bucket, Choose, Create, CreateFails,
         Cancel, Leave, Sign, Receive, Store, Break, CutOff, PartLoads, FileLoads, Arrive,
         Commit, Close, Answer, AnswerLost, Age, Sweep, Abort, AbortFails, Restart, Other
<1>2. aborts' = aborts \/ aborts' = FALSE \/ aborts' = form.parts
  BY DEF UploadNext, uploadVars, page, server, bucket, Choose, Create, CreateFails,
         Cancel, Leave, Sign, Receive, Store, Break, CutOff, PartLoads, FileLoads, Arrive,
         Commit, Close, Answer, AnswerLost, Age, Sweep, Abort, AbortFails, Restart, Other
<1>3. \/ untracked' = untracked
      \/ untracked' = (upload' = "open")
      \/ untracked' = (untracked \/ upload = "open")
  BY DEF UploadNext, uploadVars, page, server, bucket, Choose, Create, CreateFails,
         Cancel, Leave, Sign, Receive, Store, Break, CutOff, PartLoads, FileLoads, Arrive,
         Commit, Close, Answer, AnswerLost, Age, Sweep, Abort, AbortFails, Restart, Other
<1>4. form.parts \in BOOLEAN BY DEF Page, Forms
<1>5. cancelled' \in BOOLEAN BY <1>1 DEF Flags
<1>6. aborts' \in BOOLEAN BY <1>2, <1>4 DEF Flags
<1>7. untracked' \in BOOLEAN BY <1>3 DEF Flags
<1> QED BY <1>5, <1>6, <1>7 DEF Flags

(* Every step keeps the types.                                             *)
LEMMA TypedStep == ASSUME Typed, [UploadNext]_uploadVars PROVE Typed'
BY WorkingStep, PageStep, ProgressStep, CallingStep, PartsStep, ObjectsStep,
   FlagsStep DEF Typed

LEMMA TypedInit == UploadInit => Typed
<1> SUFFICES ASSUME UploadInit PROVE Typed OBVIOUS
<1>1. Page /\ Progress BY DEF UploadInit, Page, Progress, Stages
<1>2. Flags /\ Calling BY DEF UploadInit, Flags, Calling, Calls
<1>3. Workings BY DEF UploadInit, Workings, Duty, Spots, Ended
<1>4. PartsHere /\ Objects BY DEF UploadInit, PartsHere, Objects, Nobody
<1> QED BY <1>1, <1>2, <1>3, <1>4 DEF Typed

(* Every variable of an upload holds what the code can put there, for      *)
(* every file and every number of workers.                                 *)
THEOREM UploadTypes == UploadSpec => []UploadTypeOK
<1>1. Typed /\ [UploadNext]_uploadVars => Typed' BY TypedStep
<1> QED BY TypedInit, <1>1, TypedIsTypeOK, PTL DEF UploadSpec

-----------------------------------------------------------------------------
(* Why what arrives is whole: as long as nothing went wrong every part     *)
(* below the counter has come back or is with a worker, and a worker that  *)
(* has ended found no part left; so when all have ended all has come back. *)
Busy == {"signing", "sent", "received", "stored"}

Untroubled == stage = "running" /\ form.parts /\ ~cancelled

Cover ==
    /\ \A n \in 1..Parts : n < next =>
          n \in etags \/ \E w \in 1..Workers : worker[w].at \in Busy /\ worker[w].part = n
    /\ \A w \in 1..Workers : worker[w].at \in Busy \/ next > Parts

Covered == Untroubled => Cover

AskedWhole == call # "none" /\ form.parts => etags = 1..Parts

(* Before the upload is there nothing has been sent or asked.              *)
Early == stage \in {"idle", "creating"} =>
             call = "none" /\ \A w \in 1..Workers : worker[w].at = "ended"

(* Which upload does what: a file in one request has no upload at S3 and   *)
(* is not completed, one in parts is not closed.                           *)
Kinds ==
    /\ ~form.parts => /\ upload = "none" /\ stage # "completing"
                      /\ call \notin {"at S3", "committed"}
    /\ form.parts => stage # "closing"

(* Whoever says that the object is there says it because it is.            *)
Landed ==
    /\ stage \in {"closing", "done"} => object.of = "us"
    /\ call = "committed" => upload = "completed" /\ object.of = "us"
    /\ call = "ok" /\ form.parts => object.of = "us"
    /\ \A w \in 1..Workers : worker[w].at = "stored" /\ ~form.parts => object.of = "us"

Whole == object.of = "us" => object.parts = 1..Count

UploadInv == Typed /\ Covered /\ AskedWhole /\ Early /\ Kinds /\ Landed /\ Whole /\ OpenIsTracked

LEMMA UploadInvInit == UploadInit => UploadInv
<1> SUFFICES ASSUME UploadInit PROVE UploadInv OBVIOUS
<1>1. Typed BY TypedInit
<1>2. Early /\ Covered /\ AskedWhole /\ OpenIsTracked /\ Kinds
  BY DEF UploadInit, Early, Covered, Untroubled, AskedWhole, OpenIsTracked,
     Kinds, Ended
<1>3. Landed /\ Whole BY DEF UploadInit, Landed, Whole, Nobody, Ended
<1> QED BY <1>1, <1>2, <1>3 DEF UploadInv

(* An object of ours is not written again.                                 *)
LEMMA OursStays ==
    ASSUME [UploadNext]_uploadVars
    PROVE  form' = form /\ (object.of = "us" => object' = object)
<1>1. form' = form
  BY DEF UploadNext, uploadVars, page, server, bucket, Choose, Create,
     CreateFails, Cancel, Leave,
         Sign, Receive, Store, Break, CutOff, PartLoads, FileLoads, Arrive,
         Commit, Close, Answer, AnswerLost, Age, Sweep, Abort, AbortFails, Restart, Other
<1>2. Nobody.of # "us" BY DEF Nobody
<1>3. ASSUME NEW w \in 1..Workers, Store(w) \/ CutOff(w), object.of = "us" PROVE object' = object
  BY <1>2, <1>3 DEF Store, CutOff, Accepts, Put
<1>4. ASSUME Commit \/ Other, object.of = "us" PROVE object' = object
  BY <1>2, <1>4 DEF Commit, Other
<1>5. \/ object' = object \/ Commit \/ Other
      \/ \E w \in 1..Workers : Store(w) \/ CutOff(w)
  BY DEF UploadNext, uploadVars, page, server, bucket, Choose, Create,
     CreateFails, Cancel, Leave,
         Sign, Receive, Break, PartLoads, FileLoads, Arrive, Close, Answer, AnswerLost, Age,
         Sweep, Abort, AbortFails, Restart
<1> QED BY <1>1, <1>3, <1>4, <1>5

LEMMA EarlyStep == ASSUME Typed, Early, [UploadNext]_uploadVars PROVE Early'
<1> SUFFICES ASSUME stage' \in {"idle", "creating"}
             PROVE  call' = "none" /\ \A w \in 1..Workers : worker'[w].at = "ended"
  BY DEF Early
<1>1. CASE Choose BY <1>1 DEF Choose, Early, page, server
<1>2. stage \in {"idle", "creating"}
  BY DEF UploadNext, uploadVars, page, server, bucket, Choose, Create,
     CreateFails, Cancel, Leave,
         Sign, Receive, Store, Reject, Break, CutOff, PartLoads, AfterLast, FileLoads, Arrive,
         Commit, Close, Answer, AnswerLost, Age, Sweep, Abort, AbortFails, Restart, Other
<1>3. call = "none" /\ \A w \in 1..Workers : worker[w].at = "ended" BY <1>2 DEF Early
<1>4. CASE UNCHANGED <<call, worker>> BY <1>3, <1>4
<1>5. CASE Restart BY <1>3, <1>5 DEF Restart, Typed, Workings
<1>6. ASSUME NEW w \in 1..Workers,
             Sign(w) \/ Receive(w) \/ Store(w) \/ Break(w) \/ CutOff(w)
               \/ PartLoads(w) \/ FileLoads(w)
      PROVE FALSE
  BY <1>3, <1>6 DEF Sign, Receive, Store, AtS3, Break, CutOff, PartLoads, FileLoads
<1>7. CASE Create \/ Cancel \/ Leave BY <1>2, <1>7 DEF Create, Cancel, Leave
<1> QED
  BY <1>1, <1>3, <1>4, <1>5, <1>6, <1>7
  DEF UploadNext, uploadVars, page, server, CreateFails, Arrive, Commit, Close, Answer,
      AnswerLost, Age, Sweep, Abort, AbortFails, Other

LEMMA KindsStep == ASSUME Typed, Kinds, [UploadNext]_uploadVars PROVE Kinds'
<1>1. form' = form BY OursStays
<1>2. ~form.parts => upload' = "none"
  BY DEF Kinds, UploadNext, uploadVars, page, server, bucket, Choose, Create,
     CreateFails, Cancel,
         Leave, Sign, Receive, Store, Break, CutOff, PartLoads, FileLoads, Arrive,
         Commit, Close, Answer, AnswerLost, Age, Sweep, Abort, AbortFails, Restart, Other
<1>3. ~form.parts => stage' # "completing" /\ call' \notin {"at S3", "committed"}
  BY DEF Kinds, UploadNext, uploadVars, page, server, bucket, Choose, Create,
     CreateFails, Cancel,
         Leave, Sign, Receive, Store, Reject, Break, CutOff, PartLoads, FileLoads, Arrive,
         Commit, Close, Answer, AnswerLost, Age, Sweep, Abort, AbortFails, Restart, Other
<1>4. form.parts => stage' # "closing"
  BY DEF Kinds, UploadNext, uploadVars, page, server, bucket, Choose, Create,
     CreateFails, Cancel,
         Leave, Sign, Receive, Store, Reject, Break, CutOff, PartLoads, AfterLast, FileLoads,
         Arrive, Commit, Close, Answer, AnswerLost, Age, Sweep, Abort, AbortFails, Restart, Other
<1> QED BY <1>1, <1>2, <1>3, <1>4 DEF Kinds

(* What S3 bills for stays within the server's reach.                      *)
LEMMA TrackedStep ==
    ASSUME Typed, Early, Kinds, Landed, OpenIsTracked, [UploadNext]_uploadVars
    PROVE  OpenIsTracked'
BY DEF OpenIsTracked, Early, Kinds, Landed, UploadNext, uploadVars, page,
   server, bucket, Choose,
       Create, CreateFails, Cancel, Leave, Sign, Receive, Store, Break, CutOff, PartLoads,
       FileLoads, Arrive, Commit, Close, Answer, AnswerLost, Age, Sweep, Abort, AbortFails,
       Restart, Other

(* Whoever says that the object is there says it because it is.            *)
LEMMA LandedStep ==
    ASSUME Typed, Early, Kinds, Landed, [UploadNext]_uploadVars PROVE Landed'
<1>1. form' = form /\ (object.of = "us" => object'.of = "us") BY OursStays
<1>2. ASSUME call' = "committed" PROVE upload' = "completed" /\ object'.of = "us"
  <2>1. CASE Commit
    <3>1. upload' = "completed" /\ object' = [of |-> "us", parts |-> etags]
      BY <1>2, <2>1, Zenon DEF Commit
    <3> QED BY <3>1
  <2>2. call = "committed" \/ Commit
    BY <1>2 DEF UploadNext, uploadVars, page, server, Choose, Create,
       CreateFails, Cancel, Leave,
       Sign, Receive, Store, Break, CutOff, PartLoads, AfterLast, FileLoads, Arrive,
       Close, Answer, AnswerLost, Age, Sweep, Abort, AbortFails, Restart, Other
  <2>3. CASE call = "committed"
    <3>1. upload = "completed" /\ object.of = "us" /\ stage \notin {"idle", "creating"}
      BY <2>3 DEF Landed, Early
    <3>2. upload' = upload
      BY <2>3, <3>1 DEF UploadNext, uploadVars, page, server, bucket, Choose,
         Create, CreateFails,
         Cancel, Leave, Sign, Receive, Store, Break, CutOff, PartLoads, FileLoads, Arrive, Commit,
         Close, Answer, AnswerLost, Age, Sweep, Abort, AbortFails, Restart, Other
    <3> QED BY <1>1, <3>1, <3>2
  <2> QED BY <2>1, <2>2, <2>3
<1>3. ASSUME call' = "ok", form.parts PROVE object'.of = "us"
  <2>1. call = "ok" \/ call = "committed"
    BY <1>3 DEF UploadNext, uploadVars, page, server, Choose, Create,
       CreateFails, Cancel, Leave,
       Sign, Receive, Store, Break, CutOff, PartLoads, AfterLast, FileLoads, Arrive, Commit,
       Close, Answer, AnswerLost, Age, Sweep, Abort, AbortFails, Restart, Other
  <2> QED BY <1>1, <1>3, <2>1 DEF Landed
<1>4. ASSUME NEW w \in 1..Workers, worker'[w].at = "stored", ~form.parts PROVE object'.of = "us"
  <2>1. CASE worker[w].at = "stored" BY <1>1, <1>4, <2>1 DEF Landed
  <2>2. ASSUME NEW v \in 1..Workers, Store(v), v = w PROVE object'.of = "us"
    BY <1>4, <2>2 DEF Store, Put, StopWorker, Ended, Workings, Typed
  <2>3. worker[w].at = "stored" \/ \E v \in 1..Workers : Store(v) /\ v = w
    <3> USE DEF Typed, Workings
    <3>1. ASSUME NEW v \in 1..Workers, Goto(v, "stored"), v # w PROVE worker[w].at = "stored"
      BY <1>4, <3>1 DEF Goto
    <3>2. ASSUME NEW v \in 1..Workers, NEW spot \in {"sent", "received", "cut"}, Goto(v, spot)
          PROVE  worker[w].at = "stored"
      BY <1>4, <3>2 DEF Goto
    <3>3. ASSUME NEW v \in 1..Workers, StopWorker(v) PROVE worker[w].at = "stored"
      BY <1>4, <3>3 DEF StopWorker, Ended
    <3>4. ASSUME NEW v \in 1..Workers, Store(v) PROVE v = w \/ worker[w].at = "stored"
      BY <3>1, <3>3, <3>4 DEF Store
    <3>5. ASSUME NEW v \in 1..Workers,
                 Sign(v) \/ Receive(v) \/ Break(v) \/ CutOff(v) \/ PartLoads(v) \/ FileLoads(v)
          PROVE worker[w].at = "stored"
      BY <1>4, <3>2, <3>3, <3>5 DEF Sign, Receive, Break, CutOff, PartLoads,
         FileLoads
    <3>6. CASE Create BY <1>4, <3>6 DEF Create, Take, Ended
    <3>7. CASE Cancel BY <1>4, <3>7 DEF Cancel, Ended
    <3>8. CASE Leave BY <1>4, <3>8 DEF Leave, Ended
    <3>9. CASE Restart
      <4>1. worker'[w] = IF worker[w].at = "received" THEN [worker[w] EXCEPT !.at = "cut"]
                         ELSE worker[w]
        BY <3>9 DEF Restart
      <4>2. [worker[w] EXCEPT !.at = "cut"].at = "cut" BY DEF Duty
      <4> QED BY <1>4, <4>1, <4>2
    <3>10. CASE worker' = worker BY <1>4, <3>10
    <3> QED
      BY <3>4, <3>5, <3>6, <3>7, <3>8, <3>9, <3>10
      DEF UploadNext, uploadVars, page, Choose, CreateFails, Arrive, Commit, Close,
          Answer, AnswerLost, Age, Sweep, Abort, AbortFails, Other
  <2> QED BY <2>1, <2>2, <2>3
<1>5. ASSUME stage' \in {"closing", "done"} PROVE object'.of = "us"
  <2>1. CASE stage \in {"closing", "done"} BY <1>1, <2>1 DEF Landed
  <2>2. ASSUME NEW w \in 1..Workers, FileLoads(w) PROVE object'.of = "us"
    BY <1>1, <2>2 DEF FileLoads, Landed
  <2>3. CASE Answer /\ stage = "completing" BY <1>1, <1>5, <2>3 DEF Answer, Reject, Landed, Kinds
  <2>4. \/ stage \in {"closing", "done"}
        \/ \E w \in 1..Workers : FileLoads(w)
        \/ Answer /\ stage = "completing"
    BY <1>5 DEF UploadNext, uploadVars, page, server, Choose, Create,
       CreateFails, Cancel,
       Leave, Sign, Receive, Store, Reject, Break, CutOff, PartLoads, AfterLast, Arrive,
       Commit, Close, Answer, AnswerLost, Age, Sweep, Abort, AbortFails, Restart, Other
  <2> QED BY <2>1, <2>2, <2>3, <2>4
<1> QED BY <1>1, <1>2, <1>3, <1>4, <1>5 DEF Landed

(* Every part below the counter has come back or is with a worker, after   *)
(* the next one has come back too.                                         *)
LEMMA CoverLoads ==
    ASSUME Typed, Untroubled, Cover, NEW w \in 1..Workers, PartLoads(w)
    PROVE  Cover' /\ next' = next + 1
<1> USE DEF Typed, Workings, Progress
<1>1. next' = next + 1 /\ next \in Nat BY DEF PartLoads, Untroubled
<1>2. worker'[w] = Take(next) /\ \A v \in 1..Workers : v # w => worker'[v] = worker[v]
  BY DEF PartLoads
<1>3. etags' = etags \cup {worker[w].part} BY DEF PartLoads
<1>4. CASE next <= Parts
  <2>1. worker'[w].at \in Busy /\ worker'[w].part = next
    BY <1>1, <1>2, <1>4 DEF Take, Count, Untroubled, Busy
  <2> QED BY <1>1, <1>2, <1>3, <2>1 DEF Cover
<1>5. CASE next > Parts
  <2>1. \A n \in 1..Parts : n < next' => n < next BY <1>1, <1>5
  <2>2. next' > Parts BY <1>1, <1>5
  <2>3. ASSUME NEW n \in 1..Parts
        PROVE  n \in etags' \/ \E v \in 1..Workers : worker'[v].at \in Busy /\ worker'[v].part = n
    <3>1. n \in etags \/ \E v \in 1..Workers : worker[v].at \in Busy /\ worker[v].part = n
      BY <1>1, <1>5 DEF Cover
    <3> QED BY <1>2, <1>3, <3>1
  <2> QED BY <1>1, <2>2, <2>3 DEF Cover
<1> QED BY <1>1, <1>4, <1>5

LEMMA CoveredStep == ASSUME Typed, Covered, [UploadNext]_uploadVars PROVE Covered'
<1> SUFFICES ASSUME Untroubled' PROVE Cover' BY DEF Covered
<1> USE DEF Typed, Workings
<1>1. form' = form BY OursStays
<1>2. ~cancelled
  BY DEF Untroubled, UploadNext, uploadVars, page, server, Choose, Create,
     CreateFails, Cancel,
         Leave, Sign, Receive, Store, Break, CutOff, PartLoads, FileLoads, Arrive,
         Commit, Close, Answer, AnswerLost, Age, Sweep, Abort, AbortFails, Restart, Other
<1>3. stage' = "running" /\ form.parts BY <1>1 DEF Untroubled
<1>4. CASE Create
  <2>1. next' = Workers + 1 /\ \A w \in 1..Workers : worker'[w] = Take(w)
    BY <1>4 DEF Create
  <2>2. ASSUME NEW w \in 1..Workers, w <= Parts
        PROVE  worker'[w].at \in Busy /\ worker'[w].part = w
    <3>1. ~(w > Count \/ (cancelled /\ form.parts)) BY <1>2, <1>3, <2>2 DEF Count
    <3>2. Take(w) = [at |-> IF form.parts /\ form.signed THEN "signing" ELSE "sent", part |-> w]
      BY <3>1, Zenon DEF Take
    <3> QED BY <2>1, <3>2 DEF Busy
  <2>3. \A n \in 1..Parts : n < Workers + 1 => n \in 1..Workers OBVIOUS
  <2>4. \A w \in 1..Workers : w <= Parts \/ Workers + 1 > Parts OBVIOUS
  <2> QED BY <2>1, <2>2, <2>3, <2>4 DEF Cover
<1>5. stage = "running" \/ Create
  BY <1>3 DEF UploadNext, uploadVars, page, Choose, CreateFails, Cancel, Leave,
     Sign, Receive, Store, Reject, Break, CutOff, PartLoads, AfterLast, FileLoads, Arrive,
     Commit, Close, Answer, AnswerLost, Age, Sweep, Abort, AbortFails, Restart, Other
<1>6. SUFFICES ASSUME stage = "running" PROVE Cover' BY <1>4, <1>5
<1>7. Untroubled /\ Cover BY <1>2, <1>3, <1>6 DEF Untroubled, Covered
<1>8. ~Reject BY <1>3, <1>6 DEF Reject
<1>9. CASE UNCHANGED <<worker, next, etags>> BY <1>7, <1>9 DEF Cover
<1>10. ASSUME NEW w \in 1..Workers, NEW spot \in Busy, Goto(w, spot), UNCHANGED <<next, etags>>,
              worker[w].at \in Busy
       PROVE  Cover'
  <2>1. \A v \in 1..Workers : v # w => worker'[v] = worker[v] BY <1>10 DEF Goto
  <2>2. worker'[w].at = spot /\ worker'[w].part = worker[w].part BY <1>10 DEF Goto, Duty
  <2> QED BY <1>7, <1>10, <2>1, <2>2 DEF Cover
<1>11. ASSUME NEW w \in 1..Workers, Sign(w) \/ Receive(w) \/ Store(w) PROVE Cover'
  <2>1. {"sent", "received", "stored", "signing"} \subseteq Busy BY DEF Busy
  <2> QED BY <1>8, <1>10, <1>11, <2>1 DEF Sign, Receive, Store, AtS3
<1>12. ASSUME NEW w \in 1..Workers, Break(w) \/ CutOff(w) \/ FileLoads(w) PROVE Cover'
  <2>1. ~(Break(w) \/ FileLoads(w)) BY <1>3, <1>8 DEF Break, FileLoads
  <2>2. worker[w].at = "cut" /\ UNCHANGED next BY <1>12, <2>1 DEF CutOff
  <2> QED BY <1>7, <1>12, <2>1, <2>2 DEF Cover, CutOff, Busy, StopWorker, Ended
<1>13. ASSUME NEW w \in 1..Workers, PartLoads(w) PROVE Cover' BY <1>7, <1>13, CoverLoads
<1>14. CASE Restart BY <1>8, <1>9, <1>14 DEF Restart
<1>15. ~(Cancel \/ Leave \/ Create \/ Choose \/ CreateFails)
  BY <1>3, <1>6 DEF Cancel, Leave, Create, Choose, CreateFails, Untroubled
<1> QED
  BY <1>9, <1>11, <1>12, <1>13, <1>14, <1>15
  DEF UploadNext, uploadVars, page, Arrive, Commit, Close, Answer, AnswerLost, Age, Sweep,
      Abort, AbortFails, Other

(* A completion is asked for when every part has come back.                *)
LEMMA AskedWholeStep ==
    ASSUME Typed, Early, Covered, AskedWhole, [UploadNext]_uploadVars PROVE AskedWhole'
<1> SUFFICES ASSUME call' # "none", form.parts PROVE etags' = 1..Parts
  BY OursStays DEF AskedWhole
<1>1. etags \subseteq etags' /\ etags' \subseteq 1..Parts
  <2>1. PartsHere' BY PartsStep DEF Typed
  <2>2. etags \subseteq etags'
    BY DEF UploadNext, uploadVars, page, Choose, Create, CreateFails, Cancel, Leave,
       Sign, Receive, Store, Break, CutOff, PartLoads, FileLoads, Arrive, Commit,
       Close, Answer, AnswerLost, Age, Sweep, Abort, AbortFails, Restart, Other
  <2> QED BY <2>1, <2>2 DEF PartsHere
<1>2. CASE call # "none" BY <1>1, <1>2 DEF AskedWhole
<1>3. ASSUME NEW w \in 1..Workers, PartLoads(w), call = "none" PROVE etags' = 1..Parts
  <2>1. Untroubled /\ \A v \in 1..Workers : worker'[v].at = "ended"
    BY <1>3 DEF PartLoads, AfterLast, Untroubled
  <2>2. Cover' BY <1>3, <2>1, CoverLoads DEF Covered
  <2>3. \A v \in 1..Workers : worker'[v].at \notin Busy BY <2>1 DEF Busy
  <2>4. next' > Parts BY <2>2, <2>3, 1 \in 1..Workers DEF Cover
  <2>5. next' \in Nat BY ProgressStep DEF Typed, Progress
  <2>6. \A n \in 1..Parts : n < next' BY <2>4, <2>5
  <2>7. 1..Parts \subseteq etags' BY <2>2, <2>3, <2>6 DEF Cover
  <2> QED BY <1>1, <2>7
<1>4. call # "none" \/ \E w \in 1..Workers : PartLoads(w) /\ call = "none"
  BY DEF UploadNext, uploadVars, page, server, Choose, Create, CreateFails,
     Cancel, Leave,
     Sign, Receive, Store, Break, CutOff, FileLoads, Arrive, Commit,
     Close, Answer, AnswerLost, Age, Sweep, Abort, AbortFails, Restart, Other
<1> QED BY <1>2, <1>3, <1>4

LEMMA WholeStep ==
    ASSUME Typed, Kinds, AskedWhole, Whole, [UploadNext]_uploadVars PROVE Whole'
<1> SUFFICES ASSUME object'.of = "us" PROVE object'.parts = (1..Count)' BY DEF Whole
<1>1. form' = form /\ (object.of = "us" => object' = object) BY OursStays
<1>2. (1..Count)' = 1..Count BY <1>1 DEF Count
<1>3. CASE object.of = "us" BY <1>1, <1>2, <1>3 DEF Whole
<1>4. CASE ~form.parts /\ object' = [of |-> "us", parts |-> {1}]
  <2>1. 1..1 = {1} OBVIOUS
  <2> QED BY <1>2, <1>4, <2>1 DEF Count
<1>5. CASE Commit /\ object' # object
  <2>1. call = "at S3" /\ form.parts BY <1>5 DEF Commit, Kinds
  <2>2. etags = 1..Parts BY <2>1 DEF AskedWhole
  <2>3. object' = [of |-> "us", parts |-> etags] BY <1>5, Zenon DEF Commit
  <2> QED BY <1>2, <2>1, <2>2, <2>3 DEF Count
<1>6. CASE Other BY <1>6 DEF Other
<1>7. ASSUME NEW w \in 1..Workers, Store(w) \/ CutOff(w)
      PROVE  \/ object' = object
             \/ ~form.parts /\ object' = [of |-> "us", parts |-> {1}]
  BY <1>7, Zenon DEF Store, CutOff, Put
<1>8. object' = object \/ Commit \/ Other \/ \E w \in 1..Workers : Store(w) \/ CutOff(w)
  BY DEF UploadNext, uploadVars, page, server, bucket, Choose, Create,
     CreateFails, Cancel, Leave,
         Sign, Receive, Break, PartLoads, FileLoads, Arrive, Close,
         Answer, AnswerLost, Age, Sweep, Abort, AbortFails, Restart
<1>9. CASE object' = object BY <1>3, <1>9
<1> QED BY <1>4, <1>5, <1>6, <1>7, <1>8, <1>9

LEMMA UploadInvStep == ASSUME UploadInv, [UploadNext]_uploadVars PROVE UploadInv'
BY TypedStep, CoveredStep, AskedWholeStep, EarlyStep, KindsStep, LandedStep,
   WholeStep,
   TrackedStep DEF UploadInv

LEMMA UploadInvHolds == UploadSpec => []UploadInv
<1>1. UploadInv /\ [UploadNext]_uploadVars => UploadInv' BY UploadInvStep
<1> QED BY UploadInvInit, <1>1, PTL DEF UploadSpec

(* Whatever arrives at the key under our name is the whole file, and what  *)
(* is reported as done is there: for every number of parts and of workers, *)
(* whichever of them failed, were cancelled or went on after a failure.    *)
THEOREM UploadsAreWhole == UploadSpec => []ObjectIsWhole
<1>1. UploadInv => ObjectIsWhole BY DEF UploadInv, Whole, Landed, ObjectIsWhole
<1> QED BY UploadInvHolds, <1>1, PTL

(* What S3 bills for is always within the server's reach.                  *)
THEOREM UploadsAreTracked == UploadSpec => []OpenIsTracked
<1>1. UploadInv => OpenIsTracked BY DEF UploadInv
<1> QED BY UploadInvHolds, <1>1, PTL

-----------------------------------------------------------------------------
(* Copies and moves.  The types, a variable or two at a time. *)
Request  == wish \in Wishes /\ step \in Steps
Contented == source \in Contents /\ writes \in Contents /\ removed \in Contents
Copied   == \E m \in 0..Pieces : pieces \in [1..m -> Contents]
AtBucket == /\ copy \in {"none", "open", "unknown", "completed", "aborted"}
            /\ target.by \in {"nobody", "them", "us"}
History  == meddled \in BOOLEAN /\ replaced \in BOOLEAN
MoveTyped == Request /\ Contented /\ Copied /\ AtBucket /\ History

LEMMA RequestStep == ASSUME Request, [MoveNext]_moveVars PROVE Request'
BY DEF Request, Steps, MoveNext, moveVars, HeadSource, CopyWhole, CreateCopy,
   CopyPiece,
       CompleteCopy, AbortCopy, DeleteSource, Crash, SourceWritten, SourceDeleted, TargetWritten

LEMMA ContentedStep == ASSUME Contented, [MoveNext]_moveVars PROVE Contented'
<1>1. writes' = writes \/ (writes < MaxWrites /\ writes' = writes + 1)
  BY DEF MoveNext, moveVars, HeadSource, CopyWhole, CreateCopy, CopyPiece,
       CompleteCopy, AbortCopy, DeleteSource, Crash, SourceWritten, SourceDeleted, TargetWritten
<1>2. source' = source \/ source' = 0 \/ source' = writes'
  BY DEF MoveNext, moveVars, HeadSource, CopyWhole, CreateCopy, CopyPiece,
       CompleteCopy, AbortCopy, DeleteSource, Crash, SourceWritten, SourceDeleted, TargetWritten
<1>3. removed' = removed \/ removed' = source
  BY DEF MoveNext, moveVars, HeadSource, CopyWhole, CreateCopy, CopyPiece,
       CompleteCopy, AbortCopy, DeleteSource, Crash, SourceWritten, SourceDeleted, TargetWritten
<1> QED BY <1>1, <1>2, <1>3 DEF Contented, Contents

LEMMA CopiedStep == ASSUME Contented, Copied, [MoveNext]_moveVars PROVE Copied'
<1>1. CASE UNCHANGED pieces BY <1>1 DEF Copied
<1>2. ASSUME NEW n \in 1..Pieces, DOMAIN pieces = 1..(n - 1),
             pieces' = [k \in 1..n |-> IF k = n THEN source ELSE pieces[k]]
      PROVE  Copied'
  <2>1. \A k \in 1..(n - 1) : pieces[k] \in Contents BY <1>2 DEF Copied
  <2>2. \A k \in 1..n : k = n \/ k \in 1..(n - 1) OBVIOUS
  <2>3. pieces' \in [1..n -> Contents] BY <1>2, <2>1, <2>2 DEF Contented
  <2> QED BY <2>3 DEF Copied
<1>3. CASE CopyPiece BY <1>1, <1>2, <1>3 DEF CopyPiece
<1> QED
  BY <1>1, <1>3 DEF MoveNext, moveVars, HeadSource, CopyWhole, CreateCopy,
     CompleteCopy, AbortCopy, DeleteSource, Crash, SourceWritten, SourceDeleted, TargetWritten

LEMMA AtBucketStep == ASSUME AtBucket, [MoveNext]_moveVars PROVE AtBucket'
<1>1. copy' \in {"none", "open", "unknown", "completed", "aborted"}
  BY DEF AtBucket, MoveNext, moveVars, HeadSource, CopyWhole, CreateCopy, CopyPiece,
       CompleteCopy, AbortCopy, DeleteSource, Crash, SourceWritten, SourceDeleted, TargetWritten
<1>2. \A from : Ours(from).by = "us" BY DEF Ours
<1>3. Theirs.by = "them" BY DEF Theirs
<1>4. UNCHANGED target \/ target' = Theirs \/ \E from : target' = Ours(from)
  BY DEF MoveNext, moveVars, HeadSource, CopyWhole, CreateCopy, CopyPiece, Place,
       CompleteCopy, AbortCopy, DeleteSource, Crash, SourceWritten, SourceDeleted, TargetWritten
<1>5. target'.by \in {"nobody", "them", "us"} BY <1>2, <1>3, <1>4 DEF AtBucket
<1> QED BY <1>1, <1>5 DEF AtBucket

LEMMA HistoryStep == ASSUME History, [MoveNext]_moveVars PROVE History'
<1>1. meddled' = meddled \/ meddled' = (meddled \/ step # "idle")
  BY DEF MoveNext, moveVars, HeadSource, CopyWhole, CreateCopy, CopyPiece, Meddle,
       CompleteCopy, AbortCopy, DeleteSource, Crash, SourceWritten, SourceDeleted, TargetWritten
<1>2. replaced' = replaced \/ replaced' = (replaced \/ target = Theirs)
  BY DEF MoveNext, moveVars, HeadSource, CopyWhole, CreateCopy, CopyPiece, Place,
       CompleteCopy, AbortCopy, DeleteSource, Crash, SourceWritten, SourceDeleted, TargetWritten
<1> QED BY <1>1, <1>2 DEF History

LEMMA MoveTypedInit == MoveInit => MoveTyped
<1> SUFFICES ASSUME MoveInit PROVE MoveTyped OBVIOUS
<1>1. Contented BY DEF MoveInit, Contented, Contents
<1>5. Request BY DEF MoveInit, Request, Steps
<1>6. History BY DEF MoveInit, History
<1>2. pieces \in [1..0 -> Contents] BY DEF MoveInit
<1>3. Copied BY <1>2 DEF Copied
<1>4. AtBucket BY DEF MoveInit, AtBucket, NoObject, Theirs
<1> QED BY <1>1, <1>3, <1>4, <1>5, <1>6 DEF MoveTyped

LEMMA MoveTypedStep == ASSUME MoveTyped, [MoveNext]_moveVars PROVE MoveTyped'
BY RequestStep, ContentedStep, CopiedStep, AtBucketStep, HistoryStep DEF MoveTyped

(* Every variable of a move holds what the code can put there.             *)
THEOREM MoveTypes == MoveSpec => []MoveTypeOK
<1>1. MoveTyped /\ [MoveNext]_moveVars => MoveTyped' BY MoveTypedStep
<1>2. MoveTyped => MoveTypeOK BY DEF MoveTyped, MoveTypeOK, Request, Contented, AtBucket, History
<1> QED BY MoveTypedInit, <1>1, <1>2, PTL DEF MoveSpec

-----------------------------------------------------------------------------
(* Why a move loses nothing.  While nobody else writes, all parts copied   *)
(* so far come from what the source holds, so when the copy is confirmed   *)
(* the destination has all of it, and then nothing of ours touches the     *)
(* destination any more.                                                   *)
AllOf(content) == IF wish.large THEN [n \in 1..Pieces |-> content] ELSE <<content>>

Arrived(content) == target.by = "us" /\ target.from = AllOf(content)

Begun == step = "idle" => pieces = <<>>

Deleted == removed # 0 => step \in {"done", "failed"}

Faithful ==
    ~meddled =>
        /\ step = "parts" => wish.large /\ \A k \in DOMAIN pieces : pieces[k] = source
        /\ step = "copying" => ~wish.large
        /\ step = "copied" => Arrived(source)
        /\ removed # 0 => Arrived(removed)

OpenOnlyMeanwhile == copy = "open" => step \in {"parts", "aborting", "crashed"}

MoveInv == MoveTyped /\ Begun /\ Deleted /\ Faithful /\ OpenOnlyMeanwhile

LEMMA MoveInvInit == MoveInit => MoveInv
BY MoveTypedInit DEF MoveInit, MoveInv, Begun, Deleted, Faithful, OpenOnlyMeanwhile

LEMMA BegunStep == ASSUME Begun, [MoveNext]_moveVars PROVE Begun'
BY DEF Begun, MoveNext, moveVars, HeadSource, CopyWhole, CreateCopy, CopyPiece,
       CompleteCopy, AbortCopy, DeleteSource, Crash, SourceWritten, SourceDeleted, TargetWritten

LEMMA DeletedStep == ASSUME Deleted, [MoveNext]_moveVars PROVE Deleted'
BY DEF Deleted, MoveNext, moveVars, HeadSource, CopyWhole, CreateCopy, CopyPiece,
       CompleteCopy, AbortCopy, DeleteSource, Crash, SourceWritten, SourceDeleted, TargetWritten

LEMMA OpenStep == ASSUME OpenOnlyMeanwhile, [MoveNext]_moveVars PROVE OpenOnlyMeanwhile'
BY DEF OpenOnlyMeanwhile, MoveNext, moveVars, HeadSource, CopyWhole, CreateCopy,
   CopyPiece,
       CompleteCopy, AbortCopy, DeleteSource, Crash, SourceWritten, SourceDeleted, TargetWritten

LEMMA FaithfulStep ==
    ASSUME MoveTyped, Begun, Deleted, Faithful, [MoveNext]_moveVars PROVE Faithful'
<1> SUFFICES ASSUME ~meddled'
             PROVE /\ step' = "parts" =>
                         wish'.large /\ \A k \in DOMAIN pieces' : pieces'[k] = source'
                   /\ step' = "copying" => ~wish'.large
                   /\ step' = "copied" => Arrived(source)'
                   /\ removed' # 0 => Arrived(removed)'
  BY DEF Faithful
<1>1. wish' = wish
  BY DEF MoveNext, moveVars, HeadSource, CopyWhole, CreateCopy, CopyPiece,
       CompleteCopy, AbortCopy, DeleteSource, Crash, SourceWritten, SourceDeleted, TargetWritten
<1>2. ~meddled
  BY DEF MoveNext, moveVars, HeadSource, CopyWhole, CreateCopy, CopyPiece, Meddle,
       CompleteCopy, AbortCopy, DeleteSource, Crash, SourceWritten, SourceDeleted, TargetWritten
<1> USE DEF Arrived, AllOf
<1>4. CASE UNCHANGED moveVars BY <1>2, <1>4 DEF moveVars, Faithful
<1>5. CASE HeadSource BY <1>1, <1>2, <1>5 DEF HeadSource, Begun, Deleted, Faithful
<1>6. CASE CopyWhole
  BY <1>1, <1>2, <1>6 DEF CopyWhole, Deleted, Faithful, Place, Ours
<1>7. CASE CreateCopy BY <1>1, <1>2, <1>7 DEF CreateCopy, Deleted, Faithful
<1>8. CASE CopyPiece
  <2>1. ASSUME NEW n \in 1..Pieces, DOMAIN pieces = 1..(n - 1),
               pieces' = [k \in 1..n |-> IF k = n THEN source ELSE pieces[k]]
        PROVE  \A k \in DOMAIN pieces' : pieces'[k] = source
    <3>1. \A k \in 1..n : k = n \/ k \in 1..(n - 1) OBVIOUS
    <3> QED BY <1>2, <1>8, <2>1, <3>1 DEF Faithful, CopyPiece
  <2>2. step' = "parts" => \A k \in DOMAIN pieces' : pieces'[k] = source'
    BY <1>8, <2>1 DEF CopyPiece
  <2>3. step' \in {"parts", "aborting"} /\ removed' = removed /\ step = "parts"
    BY <1>8 DEF CopyPiece
  <2> QED BY <1>1, <1>2, <2>2, <2>3 DEF Faithful, Deleted
<1>9. CASE CompleteCopy
  <2>1. wish.large /\ \A k \in 1..Pieces : pieces[k] = source
    BY <1>2, <1>9 DEF CompleteCopy, Faithful
  <2>2. pieces = [n \in 1..Pieces |-> source]
    BY <1>9, <2>1 DEF CompleteCopy, MoveTyped, Copied
  <2>3. step' = "copied" => target' = Ours(pieces) BY <1>9 DEF CompleteCopy, Place
  <2>4. step' \in {"copied", "aborting"} /\ UNCHANGED <<source, removed>> /\ step = "parts"
    BY <1>9 DEF CompleteCopy
  <2> QED BY <1>1, <2>1, <2>2, <2>3, <2>4 DEF Ours, Deleted
<1>10. CASE AbortCopy BY <1>1, <1>2, <1>10 DEF AbortCopy, Deleted, Faithful
<1>11. CASE DeleteSource BY <1>1, <1>2, <1>11 DEF DeleteSource, Deleted, Faithful
<1>12. CASE Crash BY <1>1, <1>2, <1>12 DEF Crash, Deleted, Faithful
<1>13. CASE SourceWritten \/ SourceDeleted \/ TargetWritten
  BY <1>1, <1>2, <1>13
  DEF SourceWritten, SourceDeleted, TargetWritten, Meddle, Deleted, Faithful, Begun
<1> QED
  BY <1>4, <1>5, <1>6, <1>7, <1>8, <1>9, <1>10, <1>11, <1>12, <1>13 DEF MoveNext

LEMMA MoveInvHolds == MoveSpec => []MoveInv
<1>1. MoveInv /\ [MoveNext]_moveVars => MoveInv'
  BY MoveTypedStep, BegunStep, DeletedStep, FaithfulStep, OpenStep DEF MoveInv
<1> QED BY MoveInvInit, <1>1, PTL DEF MoveSpec

(* What a move deletes at its source is at its destination, all of it,     *)
(* unless somebody else wrote one of the two keys meanwhile: for copies of *)
(* any number of parts, whatever answer is lost on the way.                *)
THEOREM MovesLoseNothing == MoveSpec => []MovedIsThere
<1>1. MoveInv => MovedIsThere BY DEF MoveInv, Faithful, Arrived, AllOf, MovedIsThere
<1> QED BY MoveInvHolds, <1>1, PTL

(* A copy in parts that has failed leaves nothing at S3 to pay for, unless *)
(* S3 did not answer.                                                      *)
THEOREM HalfCopiesAreAborted == MoveSpec => []HalfCopyAborted
<1>1. MoveInv => HalfCopyAborted BY DEF MoveInv, OpenOnlyMeanwhile, HalfCopyAborted
<1> QED BY MoveInvHolds, <1>1, PTL

-----------------------------------------------------------------------------
(* Scans.  Hits list the matches of the pages after a up to b.             *)
Lists(hits, a, b) ==
    /\ \A i, j \in 1..Len(hits) : i < j => hits[i] < hits[j]
    /\ \A i \in 1..Len(hits) : hits[i] \in listing.matches /\ a < hits[i] /\ hits[i] <= b
    /\ \A x \in listing.matches : a < x /\ x <= b => \E i \in 1..Len(hits) : hits[i] = x

ScanMessages ==
    [kind : {"chunk", "done", "cut", "error"}, hits : Seq(Nat), upto : Nat]

ScanStates ==
    [running : BOOLEAN, hits : Seq(Nat), end : {"none", "done", "cut", "error"}, upto : Nat]

ScanTypes ==
    /\ listing.pages \in Nat \ {0} /\ listing.matches \subseteq 1..listing.pages
    /\ scan \in 0..MaxScans /\ scans \in 0..MaxScans
    /\ shown \in ScanStates
    /\ link \in [Scans -> {"none", "connecting", "up", "lost", "dropped"}]
    /\ wire \in [Scans -> Seq(ScanMessages)]
    /\ walk \in [Scans -> {"none", "reading", "ended"}]
    /\ scanned \in [Scans -> Nat] /\ buffer \in [Scans -> Seq(Nat)]

(* What is under way on a connection: batches that follow on one another   *)
(* from page p on, then at most one word of the end.                       *)
From(w, p, k) == IF k = 1 THEN p ELSE w[k - 1].upto
Last(w, p) == IF w = <<>> THEN p ELSE w[Len(w)].upto

Chained(w, p) ==
    \A k \in 1..Len(w) :
        /\ w[k].kind # "error" =>
             /\ From(w, p, k) <= w[k].upto /\ w[k].upto <= listing.pages
             /\ Lists(w[k].hits, From(w, p, k), w[k].upto)
        /\ w[k].kind # "chunk" => k = Len(w) /\ w[k].hits = <<>>
        /\ w[k].kind = "done" => w[k].upto = listing.pages

(* The walk holds back what came after the last batch.                     *)
HeldBack(s, p) ==
    walk[s] = "reading" =>
        /\ \A k \in 1..Len(wire[s]) : wire[s][k].kind = "chunk"
        /\ Last(wire[s], p) <= scanned[s] /\ scanned[s] < listing.pages
        /\ Lists(buffer[s], Last(wire[s], p), scanned[s])

Unbegun(s) == wire[s] = <<>> /\ walk[s] = "none" /\ scanned[s] = 0 /\ buffer[s] = <<>>

(* A scan from its socket on.  Only that of the current search is heard.   *)
ScanOf(s) ==
    /\ s > scans => link[s] = "none"
    /\ link[s] \in {"none", "connecting"} => Unbegun(s)
    /\ link[s] \in {"connecting", "up"} => scan = s
    /\ link[s] = "connecting" => shown.hits = <<>> /\ shown.end = "none"
    /\ link[s] = "up" =>
         /\ shown.end = "none" /\ walk[s] # "none"
         /\ \E p \in 0..listing.pages :
              Lists(shown.hits, 0, p) /\ Chained(wire[s], p) /\ HeldBack(s, p)

ShownListed ==
    /\ \E n \in 0..listing.pages : Lists(shown.hits, 0, n)
    /\ shown.end \in {"done", "cut"} => Lists(shown.hits, 0, shown.upto)
    /\ shown.end = "done" => shown.upto = listing.pages

ScanInv == ScanTypes /\ scan <= scans /\ (\A s \in Scans : ScanOf(s)) /\ ShownListed

\* Batches that follow on one another list what they list together.
LEMMA ListsConcat ==
  ASSUME listing.matches \subseteq Nat, NEW h \in Seq(Nat), NEW k \in Seq(Nat),
         NEW a \in Nat, NEW b \in Nat, NEW c \in Nat, a <= b, b <= c,
         Lists(h, a, b), Lists(k, b, c)
  PROVE  Lists(h \o k, a, c) /\ h \o k \in Seq(Nat)
<1> DEFINE g == h \o k
<1>1. /\ g \in Seq(Nat)
      /\ \A i \in 1..Len(h) : g[i] = h[i]
      /\ \A i \in 1..Len(k) : g[Len(h) + i] = k[i]
  BY SMT
<1>6. Len(g) = Len(h) + Len(k) /\ Len(h) \in Nat /\ Len(k) \in Nat
  BY SMT
<1> HIDE DEF g
<1>2. \A i \in 1..Len(g) : i \in 1..Len(h) \/ (i - Len(h) \in 1..Len(k) /\ g[i] = k[i - Len(h)])
  <2> SUFFICES ASSUME NEW i \in 1..Len(g), i \notin 1..Len(h)
               PROVE  i - Len(h) \in 1..Len(k) /\ g[i] = k[i - Len(h)]
    OBVIOUS
  <2>1. i - Len(h) \in 1..Len(k) /\ Len(h) + (i - Len(h)) = i
    BY <1>6
  <2>2. g[Len(h) + (i - Len(h))] = k[i - Len(h)]
    BY <1>1, <2>1
  <2> QED BY <2>1, <2>2
<1>3. ASSUME NEW i \in 1..Len(g) PROVE g[i] \in listing.matches /\ a < g[i] /\ g[i] <= c
  <2>1. CASE i \in 1..Len(h)
    <3>1. g[i] = h[i] /\ h[i] \in listing.matches /\ a < h[i] /\ h[i] <= b
      BY <1>1, <2>1 DEF Lists
    <3> QED BY <3>1
  <2>2. CASE i - Len(h) \in 1..Len(k) /\ g[i] = k[i - Len(h)]
    <3>1. k[i - Len(h)] \in listing.matches /\ b < k[i - Len(h)] /\ k[i - Len(h)] <= c
      BY <2>2 DEF Lists
    <3> QED BY <2>2, <3>1
  <2> QED BY <1>2, <2>1, <2>2
<1>4. ASSUME NEW i \in 1..Len(g), NEW j \in 1..Len(g), i < j PROVE g[i] < g[j]
  <2>1. CASE j \in 1..Len(h)
    <3>1. i \in 1..Len(h)
      BY <1>6, <1>4, <2>1
    <3> QED BY <1>1, <1>4, <2>1, <3>1 DEF Lists
  <2>2. CASE i \in 1..Len(h) /\ j - Len(h) \in 1..Len(k) /\ g[j] = k[j - Len(h)]
    <3>1. h[i] <= b /\ h[i] \in Nat /\ b < k[j - Len(h)] /\ k[j - Len(h)] \in Nat
      BY <2>2 DEF Lists
    <3>2. h[i] < k[j - Len(h)]
      BY <3>1
    <3>3. g[i] = h[i] /\ g[j] = k[j - Len(h)]
      BY <1>1, <2>2
    <3> QED BY <3>2, <3>3
  <2>3. CASE /\ i - Len(h) \in 1..Len(k) /\ g[i] = k[i - Len(h)]
             /\ j - Len(h) \in 1..Len(k) /\ g[j] = k[j - Len(h)]
    <3>1. i - Len(h) < j - Len(h)
      BY <1>6, <1>4
    <3> QED BY <2>3, <3>1 DEF Lists
  <2> QED
    BY <1>2, <2>1, <2>2, <2>3
<1>5. ASSUME NEW x \in listing.matches, a < x, x <= c PROVE \E i \in 1..Len(g) : g[i] = x
  <2>1. CASE x <= b
    <3>1. PICK i \in 1..Len(h) : h[i] = x
      BY <1>5, <2>1 DEF Lists
    <3>2. i \in 1..Len(g) /\ g[i] = x
      BY <1>1, <1>6, <3>1
    <3> QED BY <3>2
  <2>2. CASE b < x
    <3>1. PICK i \in 1..Len(k) : k[i] = x
      BY <1>5, <2>2 DEF Lists
    <3>2. Len(h) + i \in 1..Len(g)
      BY <1>6
    <3>3. g[Len(h) + i] = x
      BY <1>1, <3>1
    <3> QED BY <3>2, <3>3
  <2> QED BY <2>1, <2>2
<1> QED BY <1>1, <1>3, <1>4, <1>5 DEF Lists, g

\* A page that is read adds itself, if it matches.
LEMMA ListsPage ==
  ASSUME listing.matches \subseteq Nat, NEW h \in Seq(Nat), NEW a \in Nat, NEW n \in Nat,
         a <= n, Lists(h, a, n)
  PROVE  LET k == h \o (IF n + 1 \in listing.matches THEN <<n + 1>> ELSE <<>>) IN
         Lists(k, a, n + 1) /\ k \in Seq(Nat)
<1> DEFINE k == IF n + 1 \in listing.matches THEN <<n + 1>> ELSE <<>>
<1>1. k \in Seq(Nat)
  OBVIOUS
<1>2. Lists(k, n, n + 1)
  <2>1. CASE n + 1 \in listing.matches
    <3>1. Len(<<n + 1>>) = 1 /\ <<n + 1>>[1] = n + 1
      OBVIOUS
    <3>2. \A x \in listing.matches : n < x /\ x <= n + 1 => x = n + 1
      OBVIOUS
    <3> QED BY <2>1, <3>1, <3>2 DEF Lists
  <2>2. CASE n + 1 \notin listing.matches
    <3>1. \A x \in listing.matches : ~(n < x /\ x <= n + 1)
      BY <2>2
    <3>2. k = <<>> /\ Len(<<>>) = 0
      BY <2>2
    <3> QED BY <3>1, <3>2 DEF Lists
  <2> QED BY <2>1, <2>2
<1> HIDE DEF k
<1>3. n + 1 \in Nat /\ n <= n + 1
  OBVIOUS
<1>4. Lists(h \o k, a, n + 1) /\ h \o k \in Seq(Nat)
  BY <1>1, <1>2, <1>3, ListsConcat
<1> QED BY <1>4 DEF k

LEMMA ListsNothing == ASSUME NEW a \in Nat, listing.matches \subseteq Nat PROVE Lists(<<>>, a, a)
<1>1. \A x \in listing.matches : ~(a < x /\ x <= a)
  OBVIOUS
<1>2. Len(<<>>) = 0
  OBVIOUS
<1> QED BY <1>1, <1>2 DEF Lists

\* A message that goes on where the last one ended prolongs the chain.
LEMMA ChainAppend ==
  ASSUME NEW w \in Seq(ScanMessages), NEW p \in Nat, NEW m \in ScanMessages,
         Chained(w, p), \A k \in 1..Len(w) : w[k].kind = "chunk",
         m.kind # "error" =>
           /\ Last(w, p) <= m.upto /\ m.upto <= listing.pages
           /\ Lists(m.hits, Last(w, p), m.upto),
         m.kind # "chunk" => m.hits = <<>>,
         m.kind = "done" => m.upto = listing.pages
  PROVE  /\ Chained(Append(w, m), p) /\ Append(w, m) \in Seq(ScanMessages)
         /\ Last(Append(w, m), p) = m.upto
         /\ m.kind = "chunk" => \A k \in 1..Len(Append(w, m)) : Append(w, m)[k].kind = "chunk"
<1> DEFINE v == Append(w, m)
<1>1. /\ v \in Seq(ScanMessages) /\ Len(v) = Len(w) + 1 /\ Len(w) \in Nat /\ v # <<>>
      /\ v[Len(w) + 1] = m /\ \A k \in 1..Len(w) : v[k] = w[k]
  BY SMT
<1> HIDE DEF v
<1>2. From(v, p, Len(w) + 1) = Last(w, p)
  <2>1. CASE w = <<>>
    <3>1. Len(w) = 0
      BY <2>1
    <3> QED BY <2>1, <3>1 DEF From, Last
  <2>2. CASE w # <<>>
    <3>1. Len(w) > 0
      BY <2>2
    <3>2. Len(w) + 1 # 1 /\ Len(w) + 1 - 1 = Len(w) /\ Len(w) \in 1..Len(w)
      BY <1>1, <3>1
    <3> QED BY <1>1, <2>2, <3>2 DEF From, Last
  <2> QED BY <2>1, <2>2
<1>3. ASSUME NEW k \in 1..Len(w) PROVE From(v, p, k) = From(w, p, k)
  <2>1. CASE k = 1
    BY <2>1 DEF From
  <2>2. CASE k # 1
    <3>1. k - 1 \in 1..Len(w)
      BY <1>1, <2>2
    <3> QED BY <1>1, <2>2, <3>1 DEF From
  <2> QED BY <2>1, <2>2
<1>4. \A k \in 1..Len(v) : k \in 1..Len(w) \/ k = Len(w) + 1
  BY <1>1
<1>5. Chained(v, p)
  <2> SUFFICES ASSUME NEW k \in 1..Len(v)
      PROVE /\ v[k].kind # "error" =>
                 /\ From(v, p, k) <= v[k].upto /\ v[k].upto <= listing.pages
                 /\ Lists(v[k].hits, From(v, p, k), v[k].upto)
            /\ v[k].kind # "chunk" => k = Len(v) /\ v[k].hits = <<>>
            /\ v[k].kind = "done" => v[k].upto = listing.pages
    BY DEF Chained
  <2>1. CASE k \in 1..Len(w)
    BY <1>1, <1>3, <2>1 DEF Chained
  <2>2. CASE k = Len(w) + 1
    BY <1>1, <1>2, <2>2
  <2> QED BY <1>4, <2>1, <2>2
<1>6. Last(v, p) = m.upto
  BY <1>1 DEF Last
<1>7. m.kind = "chunk" => \A k \in 1..Len(v) : v[k].kind = "chunk"
  BY <1>1, <1>4
<1> QED BY <1>1, <1>5, <1>6, <1>7 DEF v

\* A batch that is heard moves the beginning of the chain.
LEMMA ChainTail ==
  ASSUME NEW w \in Seq(ScanMessages), NEW p \in Nat, w # <<>>, Chained(w, p),
         w[1].kind = "chunk"
  PROVE  /\ Chained(Tail(w), w[1].upto)
         /\ Last(Tail(w), w[1].upto) = Last(w, p)
<1> DEFINE v == Tail(w)
<1>1. /\ v \in Seq(ScanMessages) /\ Len(w) \in Nat /\ Len(w) > 0 /\ Len(v) = Len(w) - 1
      /\ \A k \in 1..Len(v) : v[k] = w[k + 1]
  BY SMT
<1> HIDE DEF v
<1>2. ASSUME NEW k \in 1..Len(v)
      PROVE  From(v, w[1].upto, k) = From(w, p, k + 1) /\ k + 1 \in 1..Len(w) /\ v[k] = w[k + 1]
  <2>1. k + 1 \in 1..Len(w) /\ v[k] = w[k + 1] /\ k + 1 # 1 /\ (k + 1) - 1 = k
    BY <1>1
  <2>2. CASE k = 1
    BY <2>1, <2>2 DEF From
  <2>3. CASE k # 1
    <3>1. k - 1 \in 1..Len(v) /\ (k - 1) + 1 = k
      BY <1>1, <2>3
    <3>2. v[k - 1] = w[k]
      BY <1>1, <3>1
    <3> QED BY <2>1, <2>3, <3>2 DEF From
  <2> QED BY <2>1, <2>2, <2>3
<1>3. Chained(v, w[1].upto)
  <2> SUFFICES ASSUME NEW k \in 1..Len(v)
      PROVE /\ v[k].kind # "error" =>
                 /\ From(v, w[1].upto, k) <= v[k].upto /\ v[k].upto <= listing.pages
                 /\ Lists(v[k].hits, From(v, w[1].upto, k), v[k].upto)
            /\ v[k].kind # "chunk" => k = Len(v) /\ v[k].hits = <<>>
            /\ v[k].kind = "done" => v[k].upto = listing.pages
    BY DEF Chained
  <2>1. k + 1 = Len(w) => k = Len(v)
    BY <1>1
  <2> QED BY <1>2, <2>1 DEF Chained
<1>4. Last(v, w[1].upto) = Last(w, p)
  <2>1. CASE Len(w) = 1
    <3>1. v = <<>>
      BY <1>1, <2>1
    <3> QED BY <2>1, <3>1 DEF Last
  <2>2. CASE Len(w) > 1
    <3>1. v # <<>> /\ Len(v) \in 1..Len(v) /\ Len(v) + 1 = Len(w)
      BY <1>1, <2>2
    <3> QED BY <1>1, <3>1 DEF Last
  <2>3. Len(w) = 1 \/ Len(w) > 1
    BY <1>1
  <2> QED BY <2>1, <2>2, <2>3
<1> QED BY <1>3, <1>4 DEF v

-----------------------------------------------------------------------------
(* The steps of a scan. *)

\* The listing does not change, and so what lists it does not.
LEMMA ListsSame == ASSUME listing' = listing, NEW h, NEW a, NEW b PROVE Lists(h, a, b)' <=> Lists(h, a, b)
BY DEF Lists

\* A scan that stands still, and is heard no more or shows what it showed.
LEMMA ScanStands ==
  ASSUME ScanInv, NEW s \in Scans, UNCHANGED <<listing, scans>>,
         wire'[s] = wire[s], walk'[s] = walk[s], scanned'[s] = scanned[s], buffer'[s] = buffer[s],
         \/ link'[s] = link[s] /\ scan' = scan /\ UNCHANGED shown
         \/ link'[s] = link[s] /\ link[s] \notin {"connecting", "up"}
         \/ link'[s] \in {"dropped", "lost"} /\ link[s] # "none"
  PROVE  ScanOf(s)'
<1>1. CASE link'[s] = link[s] /\ scan' = scan /\ UNCHANGED shown
  <2>1. \A p : /\ Lists(shown.hits, 0, p)' <=> Lists(shown.hits, 0, p)
               /\ Chained(wire[s], p)' <=> Chained(wire[s], p)
               /\ HeldBack(s, p)' <=> HeldBack(s, p)
    BY <1>1 DEF Lists, Chained, From, HeldBack, Last
  <2> QED BY <1>1, <2>1 DEF ScanInv, ScanOf, Unbegun
<1>2. CASE link'[s] = link[s] /\ link[s] \notin {"connecting", "up"}
  BY <1>2 DEF ScanInv, ScanOf, Unbegun
<1>3. CASE link'[s] \in {"dropped", "lost"} /\ link[s] # "none"
  BY <1>3 DEF ScanInv, ScanOf, Unbegun
<1> QED BY <1>1, <1>2, <1>3

LEMMA DroppedFacts ==
  ASSUME ScanTypes
  PROVE  /\ Dropped \in [Scans -> {"none", "connecting", "up", "lost", "dropped"}]
         /\ \A s \in Scans : Dropped[s] = IF s = scan THEN "dropped" ELSE link[s]
<1>1. CASE scan = 0
  BY <1>1, ScanAssumption DEF ScanTypes, Dropped, Scans
<1>2. CASE scan # 0
  BY <1>2 DEF ScanTypes, Dropped, Scans
<1> QED BY <1>1, <1>2

\* What is shown stays a beginning of the listing where only the end is told.
LEMMA ShownStands ==
  ASSUME ScanInv, UNCHANGED listing,
         \/ shown'.hits = shown.hits /\ shown'.end = shown.end /\ shown'.upto = shown.upto
         \/ shown'.hits = shown.hits /\ shown'.end \notin {"done", "cut"}
         \/ shown'.hits = <<>> /\ shown'.end = "none"
  PROVE  ShownListed'
<1>1. listing.matches \subseteq Nat
  BY DEF ScanInv, ScanTypes
<1>2. CASE shown'.hits = shown.hits /\ shown'.end = shown.end /\ shown'.upto = shown.upto
  BY <1>2 DEF ScanInv, ShownListed, Lists
<1>3. CASE shown'.hits = shown.hits /\ shown'.end \notin {"done", "cut"}
  BY <1>3 DEF ScanInv, ShownListed, Lists
<1>4. CASE shown'.hits = <<>> /\ shown'.end = "none"
  <2>1. Lists(shown.hits, 0, 0)'
    BY <1>1, <1>4, ListsNothing, ListsSame
  <2>2. 0 \in 0..listing'.pages
    BY DEF ScanInv, ScanTypes
  <2> QED BY <1>4, <2>1, <2>2 DEF ShownListed
<1> QED BY <1>2, <1>3, <1>4

LEMMA StartSearchInv == ASSUME ScanInv, StartSearch PROVE ScanInv'
<1> DEFINE n == scans + 1
<1>1. /\ scans < MaxScans /\ scans' = n /\ scan' = n /\ shown' = Blank(TRUE)
      /\ link' = [Dropped EXCEPT ![n] = "connecting"]
      /\ UNCHANGED <<listing, wire, walk, scanned, buffer>>
  BY DEF StartSearch
<1>2. ScanTypes /\ scan <= scans
  BY DEF ScanInv
<1>3. n \in Scans /\ n \in 0..MaxScans /\ scans < n /\ n \in Nat
  BY <1>1, <1>2, ScanAssumption DEF ScanTypes, Scans
<1> HIDE DEF n
<1>4. /\ link' \in [Scans -> {"none", "connecting", "up", "lost", "dropped"}]
      /\ \A s \in Scans : link'[s] = IF s = n THEN "connecting" ELSE IF s = scan THEN "dropped" ELSE link[s]
  BY <1>1, <1>2, <1>3, DroppedFacts
<1>5. shown'.hits = <<>> /\ shown'.end = "none" /\ shown'.upto = 0
  BY <1>1 DEF Blank
<1>6. ScanTypes'
  <2>1. <<>> \in Seq(Nat) /\ 0 \in Nat
    OBVIOUS
  <2>2. shown' \in ScanStates
    BY <1>1, <2>1 DEF Blank, ScanStates
  <2>3. scan' \in 0..MaxScans /\ scans' \in 0..MaxScans
    BY <1>1, <1>3
  <2> QED BY <1>1, <1>2, <1>4, <2>2, <2>3 DEF ScanTypes
<1>7. ASSUME NEW s \in Scans PROVE ScanOf(s)'
  <2>1. CASE s = n
    <3>1. link[s] = "none" /\ Unbegun(s)
      BY <1>3, <2>1 DEF ScanInv, ScanOf
    <3>2. Unbegun(s)'
      BY <1>1, <3>1 DEF Unbegun
    <3>3. ~(s > scans')
      BY <1>1, <1>3, <2>1
    <3> QED BY <1>1, <1>4, <1>5, <2>1, <3>2, <3>3 DEF ScanOf
  <2>2. CASE s # n
    <3>1. link'[s] = IF s = scan THEN "dropped" ELSE link[s]
      BY <1>4, <2>2
    <3>2. link'[s] \notin {"connecting", "up"}
      BY <3>1 DEF ScanInv, ScanOf
    <3>3. s > scans' => link'[s] = "none"
      <4> SUFFICES ASSUME s > scans' PROVE link'[s] = "none" OBVIOUS
      <4>1. s > scans /\ s # scan
        BY <1>1, <1>2, <1>3 DEF ScanTypes, Scans
      <4> QED BY <3>1, <4>1 DEF ScanInv, ScanOf
    <3>4. link'[s] = "none" => Unbegun(s)'
      BY <1>1, <3>1 DEF ScanInv, ScanOf, Unbegun
    <3> QED BY <3>2, <3>3, <3>4 DEF ScanOf
  <2> QED BY <2>1, <2>2
<1>8. ShownListed'
  BY <1>1, <1>5, ShownStands
<1>9. scan' <= scans'
  BY <1>1, <1>3
<1> QED BY <1>6, <1>7, <1>8, <1>9 DEF ScanInv

\* The running scan is told to end, by a button, a bad connection or its end.
LEMMA EndScan ==
  ASSUME ScanInv, UNCHANGED <<listing, scans, walk, scanned, buffer>>, scan' = 0,
         link' \in [Scans -> {"none", "connecting", "up", "lost", "dropped"}],
         wire' \in [Scans -> Seq(ScanMessages)],
         \A s \in Scans : \/ s = scan /\ link'[s] = "dropped"
                          \/ s # scan /\ link'[s] = link[s] /\ wire'[s] = wire[s],
         shown' \in ScanStates, ShownListed'
  PROVE  ScanInv'
<1>1. ScanTypes'
  <2>1. scan' \in 0..MaxScans
    BY ScanAssumption
  <2> QED BY <2>1 DEF ScanInv, ScanTypes
<1>2. ASSUME NEW s \in Scans PROVE ScanOf(s)'
  <2>1. CASE s # scan
    BY <2>1, ScanStands DEF ScanInv, ScanOf
  <2>2. CASE s = scan
    <3>1. ~(s > scans')
      BY <2>2 DEF ScanInv, ScanTypes
    <3> QED BY <2>2, <3>1 DEF ScanOf
  <2> QED BY <2>1, <2>2
<1>3. scan' <= scans'
  BY DEF ScanInv, ScanTypes
<1> QED BY <1>1, <1>2, <1>3 DEF ScanInv

\* A step of one scan, when the others stand.
LEMMA OneScan ==
  ASSUME ScanInv, NEW s \in Scans, UNCHANGED <<listing, scan, scans>>, ScanTypes',
         \A t \in Scans \ {s} : /\ link'[t] = link[t] /\ wire'[t] = wire[t]
                                /\ walk'[t] = walk[t] /\ scanned'[t] = scanned[t]
                                /\ buffer'[t] = buffer[t],
         UNCHANGED shown \/ link[s] = "up", ShownListed', ScanOf(s)'
  PROVE  ScanInv'
<1>1. ASSUME NEW t \in Scans, t # s PROVE ScanOf(t)'
  <2>1. CASE UNCHANGED shown
    BY <1>1, <2>1, ScanStands
  <2>2. CASE link[s] = "up"
    <3>1. link[t] \notin {"connecting", "up"}
      BY <1>1, <2>2 DEF ScanInv, ScanOf
    <3> QED BY <1>1, <3>1, ScanStands
  <2> QED BY <2>1, <2>2
<1>2. scan' <= scans'
  BY DEF ScanInv
<1> QED BY <1>1, <1>2 DEF ScanInv

LEMMA StopSearchInv == ASSUME ScanInv, StopSearch PROVE ScanInv'
<1>1. ScanTypes /\ scan <= scans
  BY DEF ScanInv
<1>2. /\ scan # 0 /\ scan' = 0 /\ link' = Dropped
      /\ UNCHANGED <<listing, scans, wire, walk, scanned, buffer>>
      /\ shown' \in {[shown EXCEPT !.running = FALSE], Blank(FALSE)}
  BY DEF StopSearch
<1>3. /\ shown' \in ScanStates
      /\ \/ shown'.hits = shown.hits /\ shown'.end = shown.end /\ shown'.upto = shown.upto
         \/ shown'.hits = <<>> /\ shown'.end = "none"
  <2>1. CASE shown' = [shown EXCEPT !.running = FALSE]
    BY <1>1, <2>1 DEF ScanTypes, ScanStates
  <2>2. CASE shown' = Blank(FALSE)
    <3>1. <<>> \in Seq(Nat) /\ 0 \in Nat
      OBVIOUS
    <3> QED BY <2>2, <3>1 DEF Blank, ScanStates
  <2> QED BY <1>2, <2>1, <2>2
<1>4. ShownListed'
  BY <1>2, <1>3, ShownStands
<1>5. \A s \in Scans : \/ s = scan /\ link'[s] = "dropped"
                       \/ s # scan /\ link'[s] = link[s] /\ wire'[s] = wire[s]
  BY <1>1, <1>2, DroppedFacts
<1>6. /\ link' \in [Scans -> {"none", "connecting", "up", "lost", "dropped"}]
      /\ wire' \in [Scans -> Seq(ScanMessages)]
  BY <1>1, <1>2, DroppedFacts DEF ScanTypes
<1> QED BY <1>2, <1>3, <1>4, <1>5, <1>6, EndScan

LEMMA ConnectInv == ASSUME ScanInv, NEW s \in Scans, Connect(s) PROVE ScanInv'
<1>1. ScanTypes /\ link[s] = "connecting" /\ Unbegun(s) /\ scan = s
  BY DEF ScanInv, ScanOf, Connect
<1>2. /\ link' = [link EXCEPT ![s] = "up"] /\ walk' = [walk EXCEPT ![s] = "reading"]
      /\ UNCHANGED <<listing, scan, scans, shown, wire, scanned, buffer>>
  BY DEF Connect
<1>3. link'[s] = "up" /\ walk'[s] = "reading" /\ wire'[s] = <<>> /\ scanned'[s] = 0
      /\ buffer'[s] = <<>>
  BY <1>1, <1>2 DEF ScanTypes, Unbegun
<1>4. ScanTypes'
  BY <1>1, <1>2 DEF ScanTypes
<1>5. shown.hits = <<>> /\ shown.end = "none" /\ s <= scans /\ s \in Nat /\ scans \in Nat
  BY <1>1 DEF ScanInv, ScanOf, ScanTypes, Scans
<1>6. listing.matches \subseteq Nat /\ 0 \in 0..listing.pages /\ 0 <= 0 /\ 0 < listing.pages
  BY <1>1 DEF ScanTypes
<1>7. Lists(<<>>, 0, 0)'
  BY <1>2, <1>6, ListsNothing, ListsSame
<1>8. Chained(wire[s], 0)' /\ HeldBack(s, 0)'
  <2>1. Len(<<>>) = 0
    OBVIOUS
  <2> QED BY <1>2, <1>3, <1>6, <1>7, <2>1 DEF Chained, HeldBack, Last
<1>9. ScanOf(s)'
  BY <1>1, <1>2, <1>3, <1>5, <1>6, <1>7, <1>8 DEF ScanOf
<1>10. ShownListed'
  BY <1>2, ShownStands
<1>11. \A t \in Scans \ {s} : link'[t] = link[t] /\ walk'[t] = walk[t]
  BY <1>1, <1>2 DEF ScanTypes
<1> QED BY <1>2, <1>4, <1>9, <1>10, <1>11, OneScan

LEMMA UnreachableInv == ASSUME ScanInv, NEW s \in Scans, Unreachable(s) PROVE ScanInv'
<1>1. ScanTypes /\ link[s] = "connecting" /\ scan = s
  BY DEF ScanInv, ScanOf, Unreachable
<1>2. /\ link' = [link EXCEPT ![s] = "dropped"] /\ scan' = 0
      /\ shown' = [shown EXCEPT !.running = FALSE, !.end = "error"]
      /\ UNCHANGED <<listing, scans, wire, walk, scanned, buffer>>
  BY DEF Unreachable
<1>3. shown' \in ScanStates /\ shown'.hits = shown.hits /\ shown'.end = "error"
  BY <1>1, <1>2 DEF ScanTypes, ScanStates
<1>4. ShownListed'
  BY <1>2, <1>3, ShownStands
<1>5. /\ link' \in [Scans -> {"none", "connecting", "up", "lost", "dropped"}]
      /\ wire' \in [Scans -> Seq(ScanMessages)]
      /\ \A t \in Scans : \/ t = scan /\ link'[t] = "dropped"
                          \/ t # scan /\ link'[t] = link[t] /\ wire'[t] = wire[t]
  BY <1>1, <1>2 DEF ScanTypes
<1> QED BY <1>2, <1>3, <1>4, <1>5, EndScan

LEMMA NoticeInv == ASSUME ScanInv, NEW s \in Scans, Notice(s) PROVE ScanInv'
<1>1. ScanTypes /\ link[s] \in {"dropped", "lost"}
  BY DEF ScanInv, Notice
<1>2. /\ walk' = [walk EXCEPT ![s] = "ended"]
      /\ UNCHANGED <<listing, scan, scans, shown, link, wire, scanned, buffer>>
  BY DEF Notice
<1>3. ScanTypes'
  BY <1>1, <1>2 DEF ScanTypes
<1>4. ScanOf(s)'
  BY <1>1, <1>2 DEF ScanInv, ScanOf
<1>5. ShownListed'
  BY <1>2, ShownStands
<1>6. \A t \in Scans \ {s} : walk'[t] = walk[t]
  BY <1>1, <1>2 DEF ScanTypes
<1> QED BY <1>2, <1>3, <1>4, <1>5, <1>6, OneScan

LEMMA LoseInv == ASSUME ScanInv, NEW s \in Scans, Lose(s) PROVE ScanInv'
<1>1. ScanTypes /\ link[s] = "up"
  BY DEF ScanInv, Lose
<1>2. /\ link' = [link EXCEPT ![s] = "lost"] /\ wire' = [wire EXCEPT ![s] = <<>>]
      /\ UNCHANGED <<listing, scan, scans, shown, walk, scanned, buffer>>
  BY DEF Lose
<1>3. ScanTypes'
  <2>1. <<>> \in Seq(ScanMessages)
    OBVIOUS
  <2> QED BY <1>1, <1>2, <2>1 DEF ScanTypes
<1>4. ScanOf(s)'
  BY <1>1, <1>2 DEF ScanInv, ScanOf, ScanTypes
<1>5. ShownListed'
  BY <1>2, ShownStands
<1>6. \A t \in Scans \ {s} : link'[t] = link[t] /\ wire'[t] = wire[t]
  BY <1>1, <1>2 DEF ScanTypes
<1> QED BY <1>2, <1>3, <1>4, <1>5, <1>6, OneScan

\* A batch that is sent, or kept, leaves the walk in step with its wire.
LEMMA BatchSent ==
  ASSUME listing.matches \subseteq Nat, NEW w \in Seq(ScanMessages), NEW p \in Nat,
         NEW n \in Nat, NEW h \in Seq(Nat), NEW v, NEW b,
         Chained(w, p), \A k \in 1..Len(w) : w[k].kind = "chunk",
         Last(w, p) \in Nat, Last(w, p) <= n, n <= listing.pages, Lists(h, Last(w, p), n),
         \/ v = w \o <<[kind |-> "chunk", hits |-> h, upto |-> n]>> /\ b = <<>>
         \/ v = w /\ b = h
  PROVE  /\ Chained(v, p) /\ \A k \in 1..Len(v) : v[k].kind = "chunk"
         /\ Last(v, p) \in Nat /\ Last(v, p) <= n /\ Lists(b, Last(v, p), n)
<1> DEFINE m == [kind |-> "chunk", hits |-> h, upto |-> n]
<1>1. CASE v = w \o <<m>> /\ b = <<>>
  <2>1. m \in ScanMessages /\ m.kind = "chunk" /\ m.hits = h /\ m.upto = n
    BY DEF ScanMessages
  <2> HIDE DEF m
  <2>2. v = Append(w, m)
    BY <1>1, <2>1
  <2>3. /\ Chained(Append(w, m), p) /\ Last(Append(w, m), p) = n
        /\ \A k \in 1..Len(Append(w, m)) : Append(w, m)[k].kind = "chunk"
    BY <2>1, ChainAppend
  <2>4. Lists(<<>>, n, n) /\ n <= n
    BY ListsNothing
  <2>5. b = <<>> /\ n \in Nat
    BY <1>1
  <2> QED BY <2>2, <2>3, <2>4, <2>5, Zenon
<1>2. CASE v = w /\ b = h
  BY <1>2
<1> QED BY <1>1, <1>2

LEMMA ChainSame ==
  ASSUME listing' = listing, NEW w, NEW p, Chained(w, p) PROVE Chained(w, p)'
BY DEF Chained, Lists, From

\* The scan that is heard, after a step that changes what it sends and holds.
LEMMA UpAgain ==
  ASSUME ScanInv, NEW s \in Scans, UNCHANGED <<listing, scan, scans, shown, link>>,
         link[s] = "up", walk'[s] # "none", NEW p \in 0..listing.pages,
         Lists(shown.hits, 0, p), Chained(wire[s], p)', HeldBack(s, p)'
  PROVE  ScanOf(s)'
<1>1. Lists(shown.hits, 0, p)'
  BY DEF Lists
<1> QED BY <1>1 DEF ScanInv, ScanOf

LEMMA ReadFailsInv == ASSUME ScanInv, NEW s \in Scans, ReadFails(s) PROVE ScanInv'
<1> DEFINE m == [kind |-> "error", hits |-> <<>>, upto |-> 0]
<1>1. ScanTypes /\ walk[s] = "reading"
  BY DEF ScanInv, ReadFails
<1>2. /\ walk' = [walk EXCEPT ![s] = "ended"]
      /\ wire' = [wire EXCEPT ![s] = Append(@, m)]
      /\ UNCHANGED <<listing, scan, scans, shown, link, scanned, buffer>>
  BY DEF ReadFails
<1>3. m \in ScanMessages /\ m.kind = "error" /\ m.hits = <<>>
  <2>1. <<>> \in Seq(Nat) /\ 0 \in Nat
    OBVIOUS
  <2> QED BY <2>1 DEF ScanMessages
<1> HIDE DEF m
<1>4. /\ wire[s] \in Seq(ScanMessages) /\ wire'[s] = Append(wire[s], m) /\ walk'[s] = "ended"
      /\ \A t \in Scans \ {s} : wire'[t] = wire[t] /\ walk'[t] = walk[t]
  BY <1>1, <1>2 DEF ScanTypes
<1>5. ScanTypes'
  <2>1. Append(wire[s], m) \in Seq(ScanMessages)
    BY <1>3, <1>4
  <2> QED BY <1>1, <1>2, <2>1 DEF ScanTypes
<1>6. ScanOf(s)'
  <2>1. CASE link[s] = "up"
    <3>1. PICK p \in 0..listing.pages :
              Lists(shown.hits, 0, p) /\ Chained(wire[s], p) /\ HeldBack(s, p)
      BY <2>1 DEF ScanInv, ScanOf
    <3>2. p \in Nat /\ \A k \in 1..Len(wire[s]) : wire[s][k].kind = "chunk"
      <4>1. p \in Nat
        BY <1>1, <3>1 DEF ScanTypes
      <4> QED BY <1>1, <3>1, <4>1 DEF HeldBack
    <3>3. PICK v : v = Append(wire[s], m)
      OBVIOUS
    <3>4. Chained(v, p)
      BY <1>3, <1>4, <3>1, <3>2, <3>3, ChainAppend
    <3>5. Chained(v, p)'
      BY <1>2, <3>4, ChainSame
    <3>6. Chained(wire[s], p)'
      BY <1>4, <3>3, <3>5
    <3>7. HeldBack(s, p)' /\ walk'[s] # "none"
      BY <1>4 DEF HeldBack
    <3> QED BY <1>2, <2>1, <3>1, <3>6, <3>7, UpAgain
  <2>2. CASE link[s] # "up"
    BY <1>1, <1>2, <2>2 DEF ScanInv, ScanOf, Unbegun
  <2> QED BY <2>1, <2>2
<1>7. ShownListed'
  BY <1>2, ShownStands
<1> QED BY <1>2, <1>4, <1>5, <1>6, <1>7, OneScan

LEMMA ReadPageInv == ASSUME ScanInv, NEW s \in Scans, ReadPage(s) PROVE ScanInv'
<1>1. ScanTypes /\ walk[s] = "reading"
  BY DEF ScanInv, ReadPage
<1>2. PICK due \in BOOLEAN, late \in BOOLEAN :
       LET n    == scanned[s] + 1
           hits == buffer[s] \o (IF n \in listing.matches THEN <<n>> ELSE <<>>)
           cut  == late \/ n >= MaxObjects
           last == cut \/ n = listing.pages
           send == Flushed(hits, last, due)
       IN
       /\ scanned' = [scanned EXCEPT ![s] = n]
       /\ buffer' = [buffer EXCEPT ![s] = IF send THEN <<>> ELSE hits]
       /\ wire' = [wire EXCEPT ![s] = @
             \o (IF send /\ hits # <<>>
                 THEN <<[kind |-> "chunk", hits |-> hits, upto |-> n]>> ELSE <<>>)
             \o Ending(n, last, cut)]
       /\ walk' = [walk EXCEPT ![s] = IF last THEN "ended" ELSE "reading"]
  BY DEF ReadPage
<1> DEFINE n    == scanned[s] + 1
           hits == buffer[s] \o (IF n \in listing.matches THEN <<n>> ELSE <<>>)
           cut  == late \/ n >= MaxObjects
           last == cut \/ n = listing.pages
           send == Flushed(hits, last, due)
           b    == IF send THEN <<>> ELSE hits
           v    == wire[s] \o (IF send /\ hits # <<>>
                       THEN <<[kind |-> "chunk", hits |-> hits, upto |-> n]>> ELSE <<>>)
           e    == Ending(n, last, cut)
<1>3. UNCHANGED <<listing, scan, scans, shown, link>>
  BY DEF ReadPage
<1>4. /\ wire[s] \in Seq(ScanMessages) /\ buffer[s] \in Seq(Nat) /\ scanned[s] \in Nat
      /\ n \in Nat /\ listing.matches \subseteq Nat /\ listing.pages \in Nat
  BY <1>1 DEF ScanTypes
<1>5. hits \in Seq(Nat)
  BY <1>4
<1>6. /\ scanned'[s] = n /\ buffer'[s] = b /\ wire'[s] = v \o e
      /\ walk'[s] = IF last THEN "ended" ELSE "reading"
      /\ \A t \in Scans \ {s} : /\ wire'[t] = wire[t] /\ walk'[t] = walk[t]
                                /\ scanned'[t] = scanned[t] /\ buffer'[t] = buffer[t]
  BY <1>1, <1>2 DEF ScanTypes
<1>7. v \in Seq(ScanMessages) /\ e \in Seq(ScanMessages) /\ b \in Seq(Nat)
  <2>1. \A k \in {"chunk", "done", "cut"}, h \in Seq(Nat) : [kind |-> k, hits |-> h, upto |-> n] \in ScanMessages
    BY <1>4 DEF ScanMessages
  <2>2. <<>> \in Seq(Nat)
    OBVIOUS
  <2>3. [kind |-> "chunk", hits |-> hits, upto |-> n] \in ScanMessages
    BY <1>5, <2>1
  <2>4. [kind |-> IF cut THEN "cut" ELSE "done", hits |-> <<>>, upto |-> n] \in ScanMessages
    BY <2>1, <2>2
  <2>5. \A m \in ScanMessages : <<m>> \in Seq(ScanMessages)
    OBVIOUS
  <2>6. <<>> \in Seq(ScanMessages)
    OBVIOUS
  <2>7. v \in Seq(ScanMessages)
    BY <1>4, <2>3, <2>5, <2>6
  <2>8. e \in Seq(ScanMessages)
    BY <2>4, <2>5, <2>6 DEF Ending
  <2> QED BY <1>5, <2>2, <2>7, <2>8
<1>8. ScanTypes'
  <2>1. scanned' \in [Scans -> Nat]
    BY <1>1, <1>2, <1>4 DEF ScanTypes
  <2>2. buffer' = [buffer EXCEPT ![s] = b] /\ wire' = [wire EXCEPT ![s] = v \o e]
        /\ walk' = [walk EXCEPT ![s] = IF last THEN "ended" ELSE "reading"]
    BY <1>2
  <2> HIDE DEF b, v, e, last
  <2>3. buffer' \in [Scans -> Seq(Nat)]
    BY <1>1, <1>7, <2>2 DEF ScanTypes
  <2>4. v \o e \in Seq(ScanMessages)
    BY <1>7
  <2>5. wire' \in [Scans -> Seq(ScanMessages)]
    BY <1>1, <2>2, <2>4 DEF ScanTypes
  <2>6. walk' \in [Scans -> {"none", "reading", "ended"}]
    BY <1>1, <2>2 DEF ScanTypes
  <2> QED BY <1>1, <1>3, <2>1, <2>3, <2>5, <2>6 DEF ScanTypes
<1>9. ScanOf(s)'
  <2>1. CASE link[s] = "up"
    <3>1. PICK p \in 0..listing.pages :
              Lists(shown.hits, 0, p) /\ Chained(wire[s], p) /\ HeldBack(s, p)
      BY <2>1 DEF ScanInv, ScanOf
    <3>2. /\ \A k \in 1..Len(wire[s]) : wire[s][k].kind = "chunk"
          /\ Last(wire[s], p) <= scanned[s] /\ scanned[s] < listing.pages
          /\ Lists(buffer[s], Last(wire[s], p), scanned[s])
      BY <1>1, <3>1 DEF HeldBack
    <3>3. p \in Nat /\ Last(wire[s], p) \in Nat
      <4>1. p \in Nat
        BY <1>4, <3>1
      <4>2. wire[s] # <<>> => wire[s][Len(wire[s])] \in ScanMessages
        BY <1>4
      <4> QED BY <4>1, <4>2 DEF Last, ScanMessages
    <3>4. Last(wire[s], p) <= n /\ n <= listing.pages
      BY <1>4, <3>2, <3>3
    <3>5. Lists(hits, Last(wire[s], p), n)
      BY <1>4, <3>2, <3>3, ListsPage
    <3>6. send \in BOOLEAN
      BY DEF Flushed
    <3>7. /\ Chained(v, p) /\ \A k \in 1..Len(v) : v[k].kind = "chunk"
          /\ Last(v, p) \in Nat /\ Last(v, p) <= n /\ Lists(b, Last(v, p), n)
      <4> HIDE DEF n, hits, send, last, cut
      <4>1. wire[s] \in Seq(ScanMessages) /\ n \in Nat /\ hits \in Seq(Nat)
        BY <1>4, <1>5
      <4>2. listing.matches \subseteq Nat
        BY <1>4
      <4>3. \/ v = wire[s] \o <<[kind |-> "chunk", hits |-> hits, upto |-> n]>> /\ b = <<>>
            \/ v = wire[s] /\ b = hits
        <5>1. wire[s] \o <<>> = wire[s]
          BY <4>1
        <5> QED BY <5>1
      <4> HIDE DEF v, b
      <4> QED BY <3>1, <3>2, <3>3, <3>4, <3>5, <3>6, <4>1, <4>2, <4>3, BatchSent
    <3>8. last => b = <<>>
      BY DEF Flushed
    <3>9. last /\ ~cut => n = listing.pages
      OBVIOUS
    <3>10. CASE last
      <4> DEFINE m == [kind |-> IF cut THEN "cut" ELSE "done", hits |-> <<>>, upto |-> n]
      <4>1. e = <<m>>
        BY <3>10 DEF Ending
      <4>2. /\ m \in ScanMessages /\ m.kind # "error" /\ m.kind # "chunk" /\ m.hits = <<>>
            /\ m.upto = n /\ (m.kind = "done" => n = listing.pages)
        <5>1. <<>> \in Seq(Nat)
          OBVIOUS
        <5> HIDE DEF n
        <5> QED BY <1>4, <3>9, <3>10, <5>1 DEF ScanMessages
      <4> HIDE DEF m, v, e, b, n, last, cut
      <4>3. v \o e = Append(v, m)
        BY <1>7, <4>1, <4>2
      <4>4. Chained(Append(v, m), p)
        BY <1>7, <3>3, <3>4, <3>7, <3>8, <3>10, <4>2, ChainAppend
      <4>5. PICK u : u = Append(v, m)
        OBVIOUS
      <4>6. Chained(u, p)'
        BY <1>3, <4>4, <4>5, ChainSame
      <4>7. Chained(wire[s], p)'
        BY <1>6, <4>3, <4>5, <4>6
      <4>8. HeldBack(s, p)' /\ walk'[s] # "none"
        BY <1>6, <3>10 DEF HeldBack
      <4> QED BY <1>3, <2>1, <3>1, <4>7, <4>8, UpAgain
    <3>11. CASE ~last
      <4>1. e = <<>>
        BY <3>11 DEF Ending
      <4>2. n < listing.pages
        BY <1>4, <3>4, <3>11
      <4> HIDE DEF v, e, b, n, last, cut
      <4>3. v \o e = v
        BY <1>7, <4>1
      <4>4. PICK u : u = v
        OBVIOUS
      <4>5. wire'[s] = u /\ scanned'[s] = n
        BY <1>6, <4>3, <4>4
      <4>6. Chained(u, p)'
        BY <1>3, <3>7, <4>4, ChainSame
      <4>7. Chained(wire[s], p)'
        BY <4>5, <4>6
      <4>8. PICK c, i : c = b /\ i = n
        OBVIOUS
      <4>9. Lists(c, Last(u, p), i)'
        BY <1>3, <3>7, <4>4, <4>8 DEF Lists, Last
      <4>10. HeldBack(s, p)'
        BY <1>3, <1>6, <3>7, <4>2, <4>4, <4>5, <4>8, <4>9 DEF HeldBack, Last
      <4>11. walk'[s] # "none"
        BY <1>6, <3>11
      <4> QED BY <1>3, <2>1, <3>1, <4>7, <4>10, <4>11, UpAgain
    <3> QED BY <3>10, <3>11
  <2>2. CASE link[s] # "up"
    BY <1>1, <1>3, <2>2 DEF ScanInv, ScanOf, Unbegun
  <2> QED BY <2>1, <2>2
<1>10. ShownListed'
  BY <1>3, ShownStands
<1> HIDE DEF n, hits, cut, last, send, b, v, e
<1> QED BY <1>3, <1>6, <1>8, <1>9, <1>10, OneScan

LEMMA HearScanInv == ASSUME ScanInv, NEW s \in Scans, Hear(s) PROVE ScanInv'
<1> DEFINE w == wire[s]
           m == Head(w)
<1>1. ScanTypes /\ link[s] = "up" /\ w # <<>> /\ scan = s
  BY DEF ScanInv, ScanOf, Hear
<1>2. w \in Seq(ScanMessages) /\ m \in ScanMessages /\ m = w[1] /\ 1 \in 1..Len(w)
  BY <1>1 DEF ScanTypes
<1>3. /\ wire' = [wire EXCEPT ![s] = Tail(w)]
      /\ UNCHANGED <<listing, scans, walk, scanned, buffer>>
  BY DEF Hear
<1>4. /\ wire'[s] = Tail(w) /\ \A t \in Scans \ {s} : wire'[t] = wire[t]
      /\ wire' \in [Scans -> Seq(ScanMessages)]
  <2>1. Tail(w) \in Seq(ScanMessages)
    BY <1>1, <1>2
  <2> QED BY <1>1, <1>3, <2>1 DEF ScanTypes
<1>5. PICK p \in 0..listing.pages :
          Lists(shown.hits, 0, p) /\ Chained(w, p) /\ HeldBack(s, p)
  BY <1>1 DEF ScanInv, ScanOf
<1>6. /\ m.kind # "error" => p <= m.upto /\ m.upto <= listing.pages /\ Lists(m.hits, p, m.upto)
      /\ m.kind # "chunk" => 1 = Len(w) /\ m.hits = <<>>
      /\ m.kind = "done" => m.upto = listing.pages
  BY <1>2, <1>5 DEF Chained, From
<1>7. /\ p \in Nat /\ m.upto \in Nat /\ m.hits \in Seq(Nat) /\ shown.hits \in Seq(Nat)
      /\ listing.matches \subseteq Nat /\ 0 \in Nat /\ 0 <= p /\ listing.pages \in Nat
      /\ m.kind \in {"chunk", "done", "cut", "error"}
  <2>1. p \in Nat /\ listing.pages \in Nat /\ 0 <= p /\ listing.matches \subseteq Nat
    BY <1>1, <1>5 DEF ScanTypes
  <2> QED BY <1>1, <1>2, <2>1 DEF ScanTypes, ScanStates, ScanMessages
<1>8. m.kind # "error" => /\ Lists(shown.hits \o m.hits, 0, m.upto)
                          /\ shown.hits \o m.hits \in Seq(Nat) /\ m.upto \in 0..listing.pages
  <2> SUFFICES ASSUME m.kind # "error"
               PROVE  /\ Lists(shown.hits \o m.hits, 0, m.upto)
                      /\ shown.hits \o m.hits \in Seq(Nat) /\ m.upto \in 0..listing.pages
    OBVIOUS
  <2>1. m.upto \in 0..listing.pages /\ p <= m.upto /\ Lists(m.hits, p, m.upto)
    BY <1>6, <1>7
  <2> HIDE DEF m
  <2> QED BY <1>5, <1>7, <2>1, ListsConcat
<1> HIDE DEF m
<1>9. CASE m.kind = "chunk"
  <2>1. shown' = [Blank(TRUE) EXCEPT !.hits = shown.hits \o m.hits] /\ UNCHANGED <<scan, link>>
    BY <1>9 DEF Hear, m
  <2>2. PICK h : h = shown.hits \o m.hits
    OBVIOUS
  <2>3. h \in Seq(Nat) /\ Lists(h, 0, m.upto) /\ m.upto \in 0..listing.pages
    BY <1>8, <1>9, <2>2
  <2>4. shown'.hits = h /\ shown'.end = "none" /\ shown' \in ScanStates
    BY <2>1, <2>2, <2>3 DEF Blank, ScanStates
  <2>5. ScanTypes'
    BY <1>1, <1>3, <1>4, <2>1, <2>4 DEF ScanTypes
  <2>6. PICK u : u = m.upto
    OBVIOUS
  <2>7. Lists(shown.hits, 0, u)' /\ u \in 0..listing'.pages /\ u \in 0..listing.pages
    BY <1>3, <2>3, <2>4, <2>6, ListsSame
  <2>8. ShownListed'
    BY <2>4, <2>7 DEF ShownListed
  <2>9. /\ Chained(Tail(w), u) /\ Last(Tail(w), u) = Last(w, p)
    BY <1>1, <1>2, <1>5, <1>7, <1>9, <2>6, ChainTail
  <2>10. PICK v : v = Tail(w)
    OBVIOUS
  <2>11. wire'[s] = v
    BY <1>4, <2>10
  <2>12. Chained(v, u)'
    BY <1>3, <2>9, <2>10, ChainSame
  <2>13. Chained(wire[s], u)'
    BY <2>11, <2>12
  <2>14. HeldBack(s, u)'
    <3> SUFFICES ASSUME walk[s] = "reading" PROVE HeldBack(s, u)'
      BY <1>3 DEF HeldBack
    <3>1. /\ \A k \in 1..Len(w) : w[k].kind = "chunk"
          /\ Last(w, p) <= scanned[s] /\ scanned[s] < listing.pages
          /\ Lists(buffer[s], Last(w, p), scanned[s])
      BY <1>5 DEF HeldBack
    <3>2. \A k \in 1..Len(v) : k + 1 \in 1..Len(w) /\ v[k] = w[k + 1]
      BY <1>1, <1>2, <2>10
    <3>3. \A k \in 1..Len(v) : v[k].kind = "chunk"
      BY <3>1, <3>2
    <3>4. Last(v, u) = Last(w, p)
      BY <2>9, <2>10
    <3>5. /\ Last(v, u)' <= scanned'[s] /\ scanned'[s] < listing'.pages
          /\ Lists(buffer[s], Last(v, u), scanned[s])'
      BY <1>3, <3>1, <3>4 DEF Last, Lists
    <3> QED BY <2>11, <3>3, <3>5 DEF HeldBack, Last
  <2>15. ScanOf(s)'
    <3>1. /\ s > scans => link[s] = "none"
          /\ link[s] \in {"none", "connecting"} => Unbegun(s)
          /\ walk[s] # "none"
      BY <1>1 DEF ScanInv, ScanOf
    <3> QED BY <1>1, <1>3, <2>1, <2>4, <2>7, <2>13, <2>14, <3>1 DEF ScanOf
  <2> QED BY <1>1, <1>3, <1>4, <2>1, <2>5, <2>8, <2>15, OneScan
<1>10. CASE m.kind # "chunk"
  <2>1. /\ shown' = [shown EXCEPT !.running = FALSE, !.end = m.kind, !.upto = m.upto]
        /\ scan' = 0 /\ link' = Dropped
    BY <1>10 DEF Hear, m
  <2>2. /\ shown' \in ScanStates /\ shown'.hits = shown.hits /\ shown'.end = m.kind
        /\ shown'.upto = m.upto
    BY <1>1, <1>7, <1>10, <2>1 DEF ScanTypes, ScanStates
  <2>3. ShownListed'
    <3>1. CASE m.kind = "error"
      BY <1>3, <2>2, <3>1, ShownStands
    <3>2. CASE m.kind # "error"
      <4>1. shown.hits \o m.hits = shown.hits
        <5>1. m.hits = <<>>
          BY <1>6, <1>10
        <5>2. \A q \in Seq(Nat) : q \o <<>> = q
          OBVIOUS
        <5> QED BY <1>7, <5>1, <5>2
      <4>2. PICK h, u : h = shown.hits /\ u = m.upto
        OBVIOUS
      <4>3. Lists(h, 0, u)' /\ u \in 0..listing'.pages
        BY <1>3, <1>8, <3>2, <4>1, <4>2, ListsSame
      <4>4. u = listing'.pages \/ m.kind # "done"
        BY <1>3, <1>6, <4>2
      <4> QED BY <2>2, <4>2, <4>3, <4>4 DEF ShownListed
    <3> QED BY <3>1, <3>2
  <2>4. /\ link' \in [Scans -> {"none", "connecting", "up", "lost", "dropped"}]
        /\ \A t \in Scans : \/ t = scan /\ link'[t] = "dropped"
                            \/ t # scan /\ link'[t] = link[t] /\ wire'[t] = wire[t]
    BY <1>1, <1>4, <2>1, DroppedFacts
  <2> QED BY <1>3, <1>4, <2>1, <2>2, <2>3, <2>4, EndScan
<1> QED BY <1>9, <1>10

LEMMA ScanStep == ScanInv /\ [ScanNext]_scanVars => ScanInv'
<1> SUFFICES ASSUME ScanInv, [ScanNext]_scanVars PROVE ScanInv'
  OBVIOUS
<1>1. ASSUME UNCHANGED scanVars PROVE ScanInv'
  <2>1. ScanTypes' /\ scan' <= scans'
    BY <1>1 DEF scanVars, ScanInv, ScanTypes
  <2>2. ASSUME NEW s \in Scans PROVE ScanOf(s)'
    BY <1>1, <2>2, ScanStands DEF scanVars
  <2>3. ShownListed'
    BY <1>1, ShownStands DEF scanVars
  <2> QED BY <2>1, <2>2, <2>3 DEF ScanInv
<1>2. ASSUME NEW s \in Scans,
             \/ Connect(s) \/ Unreachable(s) \/ ReadPage(s) \/ ReadFails(s)
             \/ Notice(s) \/ Lose(s) \/ Hear(s)
      PROVE  ScanInv'
  BY <1>2, ConnectInv, UnreachableInv, ReadPageInv, ReadFailsInv, NoticeInv,
     LoseInv,
     HearScanInv
<1> QED BY <1>1, <1>2, StartSearchInv, StopSearchInv DEF ScanNext

LEMMA ScanStart == ScanInit => ScanInv
<1> SUFFICES ASSUME ScanInit PROVE ScanInv
  OBVIOUS
<1>1. <<>> \in Seq(Nat) /\ <<>> \in Seq(ScanMessages) /\ 0 \in Nat /\ 0 \in 0..MaxScans
  BY ScanAssumption
<1>2. shown \in ScanStates /\ shown.hits = <<>> /\ shown.end = "none"
  BY <1>1 DEF ScanInit, Blank, ScanStates
<1>3. listing.pages \in Nat \ {0} /\ listing.matches \subseteq 1..listing.pages
  BY ScanAssumption DEF ScanInit
<1>4. ScanTypes /\ scan <= scans
  <2>1. scan = 0 /\ scans = 0 /\ scan <= scans
    BY DEF ScanInit
  <2>2. /\ link \in [Scans -> {"none", "connecting", "up", "lost", "dropped"}]
        /\ walk \in [Scans -> {"none", "reading", "ended"}]
    BY DEF ScanInit
  <2>3. /\ wire \in [Scans -> Seq(ScanMessages)] /\ scanned \in [Scans -> Nat]
        /\ buffer \in [Scans -> Seq(Nat)]
    BY <1>1 DEF ScanInit
  <2> QED BY <1>1, <1>2, <1>3, <2>1, <2>2, <2>3 DEF ScanTypes
<1>5. ASSUME NEW s \in Scans PROVE ScanOf(s)
  BY DEF ScanInit, ScanOf, Unbegun
<1>6. Lists(shown.hits, 0, 0) /\ 0 \in 0..listing.pages
  BY <1>2, <1>3, ListsNothing
<1>7. ShownListed
  BY <1>2, <1>6 DEF ShownListed
<1> QED BY <1>4, <1>5, <1>7 DEF ScanInv

(* A search shows the hits of a beginning of the listing, in its order and *)
(* once each, and when it says that it has ended, all of them up to where  *)
(* it stopped: for every listing, ceiling, batch and interleaving of the   *)
(* searches.                                                               *)
THEOREM ScansListTheHits == ScanSpec => []HitsAreTheListing
<1>1. ASSUME NEW h \in Seq(Nat), NEW n \in Nat, Lists(h, 0, n), ScanTypes
      PROVE  ListUpTo(h, n)
  <2>1. \A x : x \in Range(h) <=> \E i \in 1..Len(h) : h[i] = x
    BY DEF Range
  <2>2. \A x \in listing.matches : x \in Nat /\ 0 < x
    BY <1>1 DEF ScanTypes
  <2>3. \A x \in Range(h) : x \in listing.matches \cap 1..n
    <3> SUFFICES ASSUME NEW i \in 1..Len(h) PROVE h[i] \in listing.matches \cap 1..n
      BY <2>1
    <3>1. h[i] \in listing.matches /\ 0 < h[i] /\ h[i] <= n
      BY <1>1 DEF Lists
    <3> QED BY <2>2, <3>1
  <2>4. \A x \in listing.matches \cap 1..n : x \in Range(h)
    <3> SUFFICES ASSUME NEW x \in listing.matches \cap 1..n PROVE \E i \in 1..Len(h) : h[i] = x
      BY <2>1
    <3>1. 0 < x /\ x <= n
      OBVIOUS
    <3> QED BY <1>1, <3>1 DEF Lists
  <2> QED BY <1>1, <2>3, <2>4 DEF ListUpTo, Lists
<1>2. ScanInv => HitsAreTheListing
  <2> SUFFICES ASSUME ScanInv PROVE HitsAreTheListing
    OBVIOUS
  <2>1. shown.hits \in Seq(Nat) /\ shown.upto \in Nat /\ ScanTypes /\ ShownListed
    BY DEF ScanInv, ScanTypes, ScanStates
  <2>2. PICK n \in 0..listing.pages : Lists(shown.hits, 0, n)
    BY <2>1 DEF ShownListed
  <2>3. n \in Nat
    BY <2>1 DEF ScanTypes
  <2>4. ListUpTo(shown.hits, n)
    BY <1>1, <2>1, <2>2, <2>3
  <2>5. shown.end \in {"done", "cut"} => ListUpTo(shown.hits, shown.upto)
    BY <1>1, <2>1 DEF ShownListed
  <2> QED BY <2>1, <2>4, <2>5 DEF HitsAreTheListing, ShownListed
<1> QED BY <1>2, ScanStart, ScanStep, PTL DEF ScanSpec
=============================================================================
