----------------------------- MODULE S3Uploads -----------------------------
(***************************************************************************)
(* One file on its way from a page to a bucket, in one request or in parts *)
(* that several workers send, through the server or straight to S3 with a  *)
(* URL the server signs.  The server knows the upload by a token; what it  *)
(* has started at S3 costs money until it is completed or aborted.         *)
(*   apps/web/src/lib/s3-upload.ts                                         *)
(*   apps/web/src/features/s3/components/UploadDropzone.tsx                *)
(*   apps/server/src/api/s3/{uploads,actions.router,bytes.routes}.ts       *)
(*   packages/core/src/actions/s3/objects.ts                               *)
(***************************************************************************)
EXTENDS Naturals

CONSTANTS
    Parts,          \* partCount of a file past the threshold
    Workers         \* CONCURRENCY

ASSUME PartsAssumption == Parts \in Nat \ {0} /\ Workers \in Nat \ {0}

VARIABLES
    form,           \* what was asked for: in parts or not, signed or not
    stage,          \* of the page's promise
    cancelled,      \* cancel() was called
    next,           \* the part the next free worker takes
    worker,         \* where each worker is, and with which part
    etags,          \* the parts whose etag came back
    row,            \* the line the page shows, and if it is still `entry`
    session,        \* what the server's map has for the token, and since when
    call,           \* the completeUpload or abortUpload that ends it
    aborts,         \* an abort of the upload is under way
    upload,         \* S3's multipart upload
    stored,         \* the parts S3 has of it
    object,         \* what is at the key
    untracked       \* history: the upload id is known to nobody any more

page   == <<form, stage, cancelled, next, worker, etags, row>>
server == <<session, call, aborts, untracked>>
bucket == <<upload, stored, object>>
uploadVars == <<page, server, bucket>>

Forms    == [parts : BOOLEAN, signed : BOOLEAN]
Stages   == {"idle", "creating", "running", "completing", "closing", "done",
             "failed", "left"}
Spots    == {"signing", "sent", "received", "stored", "cut", "ended"}
Calls    == {"none", "asked", "at S3", "committed", "ok", "refused"}
Nobody   == [of |-> "nobody", parts |-> {}]

Count == IF form.parts THEN Parts ELSE 1
Ended == [at |-> "ended", part |-> 0]

UploadInit ==
    /\ form \in Forms /\ stage = "idle" /\ cancelled = FALSE /\ next = 1
    /\ worker = [w \in 1..Workers |-> Ended] /\ etags = {}
    /\ row = [entry |-> FALSE, sent |-> 0, error |-> FALSE]
    /\ session = "none" /\ call = "none" /\ aborts = FALSE
    /\ upload = "none" /\ stored = {} /\ object = Nobody
    /\ untracked = FALSE

-----------------------------------------------------------------------------
(* UploadDropzone: a patch is put on a copy that takes the entry's place,  *)
(* and every later patch looks for the entry.                              *)
Patched(sent, error) ==
    IF row.entry THEN [entry |-> FALSE, sent |-> sent, error |-> error] ELSE row

(* The promise rejects, unless it has; the workers are not told.           *)
Reject ==
    IF stage \in {"running", "completing", "closing"}
    THEN stage' = "failed" /\ row' = Patched(row.sent, TRUE)
    ELSE UNCHANGED <<stage, row>>

(* The head of a worker's loop: part n, or none.  A signed part waits for  *)
(* its URL first; a file in one request has no loop.                       *)
Take(n) ==
    IF n > Count \/ (cancelled /\ form.parts) THEN Ended
    ELSE [at |-> IF form.parts /\ form.signed THEN "signing" ELSE "sent", part |-> n]

Choose ==
    /\ stage = "idle" /\ stage' = "creating"
    /\ row' = [entry |-> TRUE, sent |-> 0, error |-> FALSE]
    /\ UNCHANGED <<form, cancelled, next, worker, etags, server, bucket>>

(* createUpload opens the upload at S3, if it takes parts, and then the    *)
(* session; uploadFile starts every worker at once.                        *)
Create ==
    /\ stage = "creating"
    /\ upload' = IF form.parts THEN "open" ELSE "none"
    /\ session' = "young" /\ stage' = "running"
    /\ row' = Patched(0, FALSE)                         \* update({ handle })
    /\ worker' = [w \in 1..Workers |-> Take(w)]
    /\ next' = Workers + 1
    /\ UNCHANGED <<form, cancelled, etags, call, aborts, untracked, stored, object>>

(* The page's answer is lost, or S3 refuses, or its answer is lost: then   *)
(* nobody has the upload id.                                               *)
CreateFails ==
    /\ stage = "creating" /\ stage' = "failed" /\ row' = Patched(0, TRUE)
    /\ upload' \in IF form.parts THEN {"none", "open"} ELSE {"none"}
    /\ \/ session' = "young" /\ (form.parts => upload' = "open") /\ UNCHANGED untracked
       \/ session' = "none" /\ untracked' = (upload' = "open")
    /\ UNCHANGED <<form, cancelled, next, worker, etags, call, aborts, stored, object>>

Goto(w, spot) == worker' = [worker EXCEPT ![w].at = spot]

StopWorker(w) == worker' = [worker EXCEPT ![w] = Ended]

(* presignPart: the session still has to be there.                         *)
Sign(w) ==
    /\ worker[w].at = "signing"
    /\ IF session # "none" THEN Goto(w, "sent") /\ UNCHANGED <<stage, row>>
       ELSE StopWorker(w) /\ Reject
    /\ UNCHANGED <<form, cancelled, next, etags, server, bucket>>

(* The route finds the session before it forwards the bytes.               *)
Receive(w) ==
    /\ worker[w].at = "sent" /\ ~form.signed
    /\ IF session # "none" THEN Goto(w, "received") /\ UNCHANGED <<stage, row>>
       ELSE StopWorker(w) /\ Reject
    /\ UNCHANGED <<form, cancelled, next, etags, server, bucket>>

AtS3(w) == worker[w].at = IF form.signed THEN "sent" ELSE "received"

Accepts == IF form.parts THEN upload = "open" ELSE object = Nobody

(* UploadPart, or PutObject on the condition that nothing is there.        *)
Put(p) ==
    IF form.parts THEN stored' = stored \cup {p} /\ UNCHANGED object
    ELSE object' = [of |-> "us", parts |-> {1}] /\ UNCHANGED stored

Store(w) ==
    /\ AtS3(w)
    /\ IF Accepts
       THEN Goto(w, "stored") /\ Put(worker[w].part) /\ UNCHANGED <<stage, row>>
       ELSE StopWorker(w) /\ Reject /\ UNCHANGED <<stored, object>>
    /\ UNCHANGED <<form, cancelled, next, etags, server, upload>>

(* The connection breaks; what was on its way may still get there.         *)
Break(w) ==
    /\ worker[w].at \in {"sent", "received", "stored"}
    /\ IF worker[w].at = "stored" THEN StopWorker(w) ELSE Goto(w, "cut")
    /\ Reject
    /\ UNCHANGED <<form, cancelled, next, etags, server, bucket>>

CutOff(w) ==
    /\ worker[w].at = "cut" /\ StopWorker(w)
    /\ \/ Accepts /\ Put(worker[w].part)
       \/ UNCHANGED <<stored, object>>
    /\ UNCHANGED <<form, stage, cancelled, next, etags, row, server, upload>>

\* Mutated form: a cancelled upload is completed with the parts it has.
AfterLastUnasked(w) ==
    IF stage = "running" /\ \A v \in 1..Workers : worker'[v].at = "ended"
    THEN stage' = "completing" /\ call' = "asked"
    ELSE UNCHANGED <<stage, call>>

(* Promise.all: when the last worker has ended, and none of them failed,   *)
(* what came back is completed.                                            *)
AfterLast(w) ==
    IF stage = "running" /\ \A v \in 1..Workers : worker'[v].at = "ended"
    THEN IF cancelled THEN stage' = "failed" /\ UNCHANGED call
         ELSE stage' = "completing" /\ call' = "asked"
    ELSE UNCHANGED <<stage, call>>

(* The etag of a part arrives, and the worker goes on.                     *)
PartLoads(w) ==
    /\ worker[w].at = "stored" /\ form.parts
    /\ etags' = etags \cup {worker[w].part}
    /\ worker' = [worker EXCEPT ![w] = Take(next)]
    /\ next' = IF cancelled THEN next ELSE next + 1
    /\ AfterLast(w)
    /\ row' = Patched(row.sent + 1, stage' = "failed")
    /\ UNCHANGED <<form, cancelled, session, aborts, untracked, bucket>>

(* The whole file is there.  The route has closed the session; of a signed *)
(* upload the server knows nothing, and the page asks it to.               *)
FileLoads(w) ==
    /\ worker[w].at = "stored" /\ ~form.parts /\ StopWorker(w)
    /\ etags' = {1}
    /\ IF form.signed
       THEN /\ stage' = IF stage = "running" THEN "closing" ELSE stage
            /\ call' = IF stage = "running" THEN "asked" ELSE call
            /\ UNCHANGED <<session, row>>
       ELSE /\ stage' = IF stage = "running" THEN "done" ELSE stage
            /\ session' = "none" /\ row' = Patched(1, FALSE)
            /\ UNCHANGED call
    /\ UNCHANGED <<form, cancelled, next, aborts, untracked, bucket>>

(* The button sets the flag and breaks the requests that are open; a part  *)
(* that waits for its URL, and a completion, have none.                    *)
Cancel ==
    /\ stage \in {"running", "completing", "closing", "failed"} /\ ~cancelled
    /\ row.sent < Count /\ ~row.error
    /\ cancelled' = TRUE
    /\ worker' = [w \in 1..Workers |->
          IF worker[w].at \in {"sent", "received"} THEN [worker[w] EXCEPT !.at = "cut"]
          ELSE IF worker[w].at = "stored" THEN Ended ELSE worker[w]]
    /\ IF worker' # worker THEN Reject ELSE UNCHANGED <<stage, row>>
    /\ UNCHANGED <<form, next, etags, server, bucket>>

(* The page goes, and its requests with it.                                *)
Leave ==
    /\ stage \notin {"idle", "left"} /\ stage' = "left"
    /\ worker' = [w \in 1..Workers |->
          IF worker[w].at \in {"sent", "received"} THEN [worker[w] EXCEPT !.at = "cut"]
          ELSE Ended]
    /\ UNCHANGED <<form, cancelled, next, etags, row, server, bucket>>

-----------------------------------------------------------------------------
\* Mutated form: the session is forgotten before S3 has made the object.
ArriveForgetting ==
    /\ call = "asked"
    /\ call' = IF ~form.parts THEN "ok" ELSE IF session # "none" THEN "at S3" ELSE "refused"
    /\ session' = "none"
    /\ UNCHANGED <<page, aborts, untracked, bucket>>

(* completeUpload, or the abortUpload that closes a signed upload.         *)
Arrive ==
    /\ call = "asked"
    /\ IF form.parts
       THEN /\ call' = IF session # "none" THEN "at S3" ELSE "refused"
            /\ UNCHANGED session
       ELSE call' = "ok" /\ session' = "none"
    /\ UNCHANGED <<page, aborts, untracked, bucket>>

(* CompleteMultipartUpload makes the object of the parts it names, on the  *)
(* condition that nothing is at the key.                                   *)
Commit ==
    /\ call = "at S3"
    /\ IF upload = "open" /\ object = Nobody /\ etags \subseteq stored
       THEN /\ call' = "committed" /\ upload' = "completed"
            /\ object' = [of |-> "us", parts |-> etags]
       ELSE call' = "refused" /\ UNCHANGED <<upload, object>>
    /\ UNCHANGED <<page, session, aborts, untracked, stored>>

Close ==
    /\ call = "committed"
    /\ \/ call' = "ok" /\ session' = "none"
       \/ call' = "refused" /\ UNCHANGED session       \* S3's answer is lost
    /\ UNCHANGED <<page, aborts, untracked, bucket>>

Answer ==
    /\ call \in {"ok", "refused"} /\ stage \in {"completing", "closing"}
    /\ IF call = "ok" THEN stage' = "done" /\ row' = Patched(Count, FALSE) ELSE Reject
    /\ UNCHANGED <<form, cancelled, next, worker, etags, server, bucket>>

AnswerLost ==
    /\ stage \in {"completing", "closing"} /\ Reject
    /\ UNCHANGED <<form, cancelled, next, worker, etags, server, bucket>>

-----------------------------------------------------------------------------
(* Six hours after it was opened, whatever has happened since.             *)
Age ==
    /\ session = "young" /\ session' = "old"
    /\ UNCHANGED <<page, call, aborts, untracked, bucket>>

\* Mutated form: the sweep forgets the session and leaves S3 alone.
SweepForgets ==
    /\ session = "old" /\ session' = "none"
    /\ UNCHANGED <<page, call, aborts, untracked, bucket>>

(* discardUpload, from the sweeper.                                        *)
Sweep ==
    /\ session = "old" /\ session' = "none"
    /\ aborts' = form.parts
    /\ UNCHANGED <<page, call, untracked, bucket>>

Abort ==
    /\ aborts /\ aborts' = FALSE
    /\ upload' = IF upload = "open" THEN "aborted" ELSE upload
    /\ UNCHANGED <<page, session, call, untracked, stored, object>>

(* A failure is logged, and the session is gone by then.                   *)
AbortFails ==
    /\ aborts /\ aborts' = FALSE
    /\ untracked' = (untracked \/ upload = "open")
    /\ UNCHANGED <<page, session, call, bucket>>

(* Sessions live in memory; what is at S3 at that moment goes its way.     *)
Restart ==
    /\ session # "none" /\ session' = "none"
    /\ untracked' = (untracked \/ upload = "open")
    /\ call' = IF call \in {"asked", "at S3", "committed"} THEN "refused" ELSE call
    /\ worker' = [w \in 1..Workers |->
          IF worker[w].at = "received" THEN [worker[w] EXCEPT !.at = "cut"] ELSE worker[w]]
    /\ IF worker' # worker THEN Reject ELSE UNCHANGED <<stage, row>>
    /\ UNCHANGED <<form, cancelled, next, etags, aborts, bucket>>

(* Somebody else writes the same key.                                      *)
Other ==
    /\ object = Nobody /\ object' = [of |-> "other", parts |-> {}]
    /\ UNCHANGED <<page, server, upload, stored>>

UploadNext ==
    \/ Choose \/ Create \/ CreateFails \/ Cancel \/ Leave
    \/ \E w \in 1..Workers :
          Sign(w) \/ Receive(w) \/ Store(w) \/ Break(w) \/ CutOff(w)
            \/ PartLoads(w) \/ FileLoads(w)
    \/ Arrive \/ Commit \/ Close \/ Answer \/ AnswerLost
    \/ Age \/ Sweep \/ Abort \/ AbortFails \/ Restart \/ Other

(* Only what the server's clock and S3 do by themselves.                   *)
UploadFairness ==
    WF_uploadVars(Age) /\ WF_uploadVars(Sweep) /\ WF_uploadVars(Abort \/ AbortFails)

UploadSpec == UploadInit /\ [][UploadNext]_uploadVars /\ UploadFairness

-----------------------------------------------------------------------------
(* Every variable holds what the code can put there.                       *)
UploadTypeOK ==
    /\ form \in Forms /\ stage \in Stages /\ cancelled \in BOOLEAN
    /\ next \in Nat /\ etags \subseteq 1..Parts
    /\ worker \in [1..Workers -> [at : Spots, part : 0..Parts]]
    /\ row \in [entry : BOOLEAN, sent : Nat, error : BOOLEAN]
    /\ session \in {"none", "young", "old"} /\ call \in Calls
    /\ aborts \in BOOLEAN /\ untracked \in BOOLEAN
    /\ upload \in {"none", "open", "completed", "aborted"}
    /\ stored \subseteq 1..Parts
    /\ object \in [of : {"nobody", "us", "other"}, parts : SUBSET (1..Parts)]

(* What arrives at the key under our name is the whole file, whichever     *)
(* parts failed or were cancelled while others went on; and an upload that *)
(* is reported as done is there.                                           *)
ObjectIsWhole ==
    /\ object.of = "us" => object.parts = 1..Count
    /\ stage = "done" => object.of = "us"

(* As long as S3 bills for an upload the server can still abort it, unless *)
(* it was restarted or S3 would not answer.                                *)
OpenIsTracked == upload = "open" => session # "none" \/ aborts \/ untracked

(* ... and it does, though the page that started it is gone.               *)
AbandonedIsAborted == upload = "open" ~> (upload # "open" \/ untracked)
=============================================================================
