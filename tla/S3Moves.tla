------------------------------ MODULE S3Moves ------------------------------
(***************************************************************************)
(* An object that is copied to another key, and deleted if it is a move:   *)
(* in one request up to five gigabytes, in parts beyond.  S3 is external;  *)
(* whoever else has access to the bucket writes both keys at any time, and *)
(* each answer may be lost.                                                *)
(*   packages/core/src/actions/s3/objects.ts (copyObject, multipartCopy)   *)
(*   apps/web/src/features/s3/components/CopyMoveDialog.tsx                *)
(*                                                                         *)
(* The content of the source is known by the number of the write that made *)
(* it; an object at the destination by the contents its parts came from.   *)
(***************************************************************************)
EXTENDS Naturals

CONSTANTS
    Pieces,         \* parts of a copy of a large object
    MaxWrites       \* bound: writes of the source

ASSUME PiecesAssumption == Pieces \in Nat \ {0} /\ MaxWrites \in Nat \ {0}

VARIABLES
    wish,           \* the request: large object, move, overwrite
    step,           \* where copyObject is
    pieces,         \* of each part copied so far, the content it came from
    copy,           \* S3's multipart upload of the copy
    source,         \* the content at the source, 0: nothing
    writes,         \* writes of the source
    target,         \* what is at the destination
    removed,        \* history: the content our delete took away, 0: none
    meddled,        \* history: somebody wrote a key since the first request
    replaced        \* history: what we wrote took somebody else's place

moveVars == <<wish, step, pieces, copy, source, writes, target, removed,
              meddled, replaced>>

Wishes   == [large : BOOLEAN, move : BOOLEAN, overwrite : BOOLEAN]
Steps    == {"idle", "copying", "parts", "copied", "aborting", "done", "failed",
             "crashed"}
Contents == 0..MaxWrites
NoObject == [by |-> "nobody", from |-> <<>>]
Theirs   == [by |-> "them", from |-> <<>>]
Ours(from) == [by |-> "us", from |-> from]

MoveInit ==
    /\ wish \in Wishes /\ step = "idle"
    /\ pieces = <<>> /\ copy = "none"
    /\ source = 1 /\ writes = 1 /\ target \in {NoObject, Theirs}
    /\ removed = 0 /\ meddled = FALSE /\ replaced = FALSE

-----------------------------------------------------------------------------
(* HeadObject: is it there, and how large.                                 *)
HeadSource ==
    /\ step = "idle"
    /\ step' = IF source = 0 THEN "failed" ELSE IF wish.large THEN "parts" ELSE "copying"
    /\ UNCHANGED <<wish, pieces, copy, source, writes, target, removed, meddled, replaced>>

(* What we write is at the destination, whoever was there.                 *)
Place(from) ==
    /\ target' = Ours(from)
    /\ replaced' = (replaced \/ target = Theirs)

(* CopyObject, conditional unless it may overwrite; its answer may be lost *)
(* after it was done.                                                      *)
CopyWhole ==
    /\ step = "copying"
    /\ IF source # 0 /\ (wish.overwrite \/ target = NoObject)
       THEN Place(<<source>>) /\ step' \in {"copied", "failed"}
       ELSE step' = "failed" /\ UNCHANGED <<target, replaced>>
    /\ UNCHANGED <<wish, pieces, copy, source, writes, removed, meddled>>

(* CreateMultipartUpload; without an answer there is no id to abort.       *)
CreateCopy ==
    /\ step = "parts" /\ copy = "none"
    /\ \/ copy' = "open" /\ UNCHANGED step
       \/ copy' \in {"none", "unknown"} /\ step' = "failed"
    /\ UNCHANGED <<wish, pieces, source, writes, target, removed, meddled, replaced>>

(* UploadPartCopy of whatever the source holds by now.                     *)
CopyPiece ==
    /\ step = "parts" /\ copy = "open"
    /\ \E n \in {k \in 1..Pieces : DOMAIN pieces = 1..(k - 1)} :
          \/ source # 0 /\ UNCHANGED step
             /\ pieces' = [k \in 1..n |-> IF k = n THEN source ELSE pieces[k]]
          \/ step' = "aborting" /\ UNCHANGED pieces
    /\ UNCHANGED <<wish, copy, source, writes, target, removed, meddled, replaced>>

\* Mutated form: the completion is sent as soon as a part is there.
CompleteCopyEarly ==
    /\ step = "parts" /\ pieces # <<>>
    /\ \/ Place(pieces) /\ copy' = "completed" /\ step' \in {"copied", "aborting"}
       \/ step' = "aborting" /\ UNCHANGED <<copy, target, replaced>>
    /\ UNCHANGED <<wish, pieces, source, writes, removed, meddled>>

(* CompleteMultipartUpload carries no condition.                           *)
CompleteCopy ==
    /\ step = "parts" /\ DOMAIN pieces = 1..Pieces
    /\ \/ Place(pieces) /\ copy' = "completed" /\ step' \in {"copied", "aborting"}
       \/ step' = "aborting" /\ UNCHANGED <<copy, target, replaced>>
    /\ UNCHANGED <<wish, pieces, source, writes, removed, meddled>>

\* Mutated form: a copy that failed at its first part is not aborted.
AbortCopyWithPieces ==
    /\ step = "aborting" /\ step' = "failed"
    /\ copy' \in IF copy = "open" /\ pieces # <<>> THEN {"aborted", "unknown"} ELSE {copy}
    /\ UNCHANGED <<wish, pieces, source, writes, target, removed, meddled, replaced>>

(* AbortMultipartUpload; that it fails is not reported.                    *)
AbortCopy ==
    /\ step = "aborting" /\ step' = "failed"
    /\ copy' \in IF copy = "open" THEN {"aborted", "unknown"} ELSE {copy}
    /\ UNCHANGED <<wish, pieces, source, writes, target, removed, meddled, replaced>>

(* DeleteObjects takes whatever is at the source, or refuses the key in a  *)
(* list nobody reads, or fails.                                            *)
DeleteSource ==
    /\ step = "copied"
    /\ \/ wish.move /\ source' = 0 /\ removed' = source /\ step' \in {"done", "failed"}
       \/ wish.move /\ step' \in {"done", "failed"} /\ UNCHANGED <<source, removed>>
       \/ ~wish.move /\ step' = "done" /\ UNCHANGED <<source, removed>>
    /\ UNCHANGED <<wish, pieces, copy, writes, target, meddled, replaced>>

(* The server ends in the middle, and nothing takes the request up again.  *)
Crash ==
    /\ step \notin {"idle", "done", "failed", "crashed"} /\ step' = "crashed"
    /\ UNCHANGED <<wish, pieces, copy, source, writes, target, removed, meddled, replaced>>

Meddle == meddled' = (meddled \/ step # "idle")

SourceWritten ==
    /\ writes < MaxWrites /\ writes' = writes + 1 /\ source' = writes + 1
    /\ Meddle
    /\ UNCHANGED <<wish, step, pieces, copy, target, removed, replaced>>

SourceDeleted ==
    /\ source # 0 /\ source' = 0 /\ Meddle
    /\ UNCHANGED <<wish, step, pieces, copy, writes, target, removed, replaced>>

TargetWritten ==
    /\ target # Theirs /\ target' = Theirs /\ Meddle
    /\ UNCHANGED <<wish, step, pieces, copy, source, writes, removed, replaced>>

MoveNext ==
    \/ HeadSource \/ CopyWhole \/ CreateCopy \/ CopyPiece \/ CompleteCopy \/ AbortCopy
    \/ DeleteSource \/ Crash \/ SourceWritten \/ SourceDeleted \/ TargetWritten

MoveSpec == MoveInit /\ [][MoveNext]_moveVars

-----------------------------------------------------------------------------
(* Every variable holds what the code can put there.                       *)
MoveTypeOK ==
    /\ wish \in Wishes /\ step \in Steps
    /\ copy \in {"none", "open", "unknown", "completed", "aborted"}
    /\ source \in Contents /\ writes \in Contents /\ removed \in Contents
    /\ target.by \in {"nobody", "them", "us"}
    /\ meddled \in BOOLEAN /\ replaced \in BOOLEAN

(* "The copy is confirmed first, so a failure leaves the original where it *)
(* is": unless somebody else wrote one of the two keys meanwhile, what the *)
(* delete took away is at the destination, all of it.                      *)
MovedIsThere ==
    removed # 0 /\ ~meddled =>
        /\ target.by = "us"
        /\ target.from = IF wish.large THEN [n \in 1..Pieces |-> removed] ELSE <<removed>>

(* "A half copied multipart bills as storage until it is abandoned": when  *)
(* copyObject has returned none is left open, unless S3 did not answer.    *)
HalfCopyAborted == step \in {"done", "failed"} => copy # "open"

(* "Without this the write is refused rather than overwriting anything."   *)
NothingReplaced == ~wish.overwrite => ~replaced
=============================================================================
