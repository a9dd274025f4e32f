-------------------------- MODULE SettingsCrossings --------------------------
(***************************************************************************)
(* SettingsSync on its two channels, with the windows marked in which an   *)
(* answer and a broadcast crossed.  The answers come over HTTP and the     *)
(* broadcasts over the socket, so that a window may hear them in another   *)
(* order than the server sent them, and its screen may then stay wrong     *)
(* when nothing is under way any more (run settings_sync_late_answer).     *)
(* This module says when, and that it is never so otherwise:               *)
(*   - reconcile drops an own echo unread although the window has not      *)
(*     heard of what was committed before it;                              *)
(*   - an update is settled after the window drew a newer snapshot, over   *)
(*     which show had laid what is now gone from the outbox.               *)
(***************************************************************************)
EXTENDS SettingsSync

VARIABLE crossed    \* history: the windows marked so

\* What reconcile takes for the window's own change.
Own(w, message) ==
    \/ message.kind = "updated"
    \/ message.kind = "changed" /\ message.origin = w

\* Dropped unread above revisions never heard of, or settled too late.
Crosses(w, message) ==
    \/ Own(w, message) /\ message.rev > mark[w] + 1
    \/ message.kind = "updated" /\ message.rev < mark[w]

\* A snapshot that is drawn: the screen is as if nothing had crossed.
Heals(w, message) ==
    /\ message.kind \in {"changed", "applied", "got"} /\ ~Own(w, message)
    /\ message.rev > mark[w]

NoteCrossings ==
    crossed' = {w \in Windows :
        \/ \E i \in DOMAIN inbox[w] : Heard(w, i) /\ Crosses(w, inbox[w][i])
        \/ /\ w \in crossed
           /\ ~\E i \in DOMAIN inbox[w] : Heard(w, i) /\ Heals(w, inbox[w][i])}

CrossSpec == Init /\ crossed = {} /\ [][Next /\ NoteCrossings]_<<vars, crossed>>

-----------------------------------------------------------------------------
\* A window in which nothing crossed shows what the server holds once nothing of
\* its own or for it is under way, whatever was heard in which order and whatever
\* the other windows are doing: reconcile and the overlay of show are enough but
\* for the two cases above (echo.ts:4-11, outbox.ts:4-10).
UncrossedAgree ==
    \A w \in Windows \ crossed :
        connected[w] /\ sent[w] = <<>> /\ inbox[w] = <<>>
        /\ pending[w] = Empty /\ inFlight[w] = {}
            => shown[w] = doc
=============================================================================
