--------------------------- MODULE MCS3Transfers ---------------------------
(***************************************************************************)
(* Uploads, recursive searches and moves for TLC: three parts that share   *)
(* nothing but the bucket, so one of them runs while the others stand      *)
(* still.                                                                  *)
(***************************************************************************)
EXTENDS S3Uploads, S3Scans, S3Moves

VARIABLE part

Init ==
    /\ UploadInit /\ ScanInit /\ MoveInit
    /\ part \in {"upload", "scan", "move"}
    /\ part # "upload" => form = [parts |-> TRUE, signed |-> FALSE]
    /\ part # "scan" => listing = [pages |-> 1, matches |-> {}]
    /\ part # "move" =>
         target = NoObject /\ wish = [large |-> FALSE, move |-> FALSE, overwrite |-> FALSE]

Next ==
    \/ part = "upload" /\ UploadNext /\ UNCHANGED <<part, scanVars, moveVars>>
    \/ part = "scan" /\ ScanNext /\ UNCHANGED <<part, uploadVars, moveVars>>
    \/ part = "move" /\ MoveNext /\ UNCHANGED <<part, uploadVars, scanVars>>

Spec == Init /\ [][Next]_<<part, uploadVars, scanVars, moveVars>>
             /\ UploadFairness /\ ScanFairness
=============================================================================
