------------------------------ MODULE MCSaved ------------------------------
(***************************************************************************)
(* What is saved for a person, for TLC: the settings on the screens of     *)
(* several windows, the S3 endpoints with the keys that are a file of      *)
(* their own, and the pins.  Each is by itself here, and stands still      *)
(* while another runs.  Handlers are interchangeable: they are places to   *)
(* wait at and nothing else; and so are windows, which differ in nothing   *)
(* but their ORIGIN_ID.  Every property says the same of each.             *)
(***************************************************************************)
EXTENDS SettingsCrossings, S3Connections, Recents

CONSTANT MaxSteps   \* bound: acts and broken sockets together

VARIABLE part

Symmetry == Permutations(Handlers) \cup Permutations(Windows)

SavedInit ==
    /\ Init /\ crossed = {} /\ ConnectionInit /\ RecentsInit
    /\ part \in {"screens", "keys", "pins"}
    /\ part # "keys" => file = Unreadable
    /\ part # "pins" =>
         recents = [visited |-> NoEntry, pinned |-> NoEntry, order |-> <<>>]

screenVars == <<vars, crossed>>

SavedNext ==
    \/ /\ part = "screens" /\ Next /\ NoteCrossings /\ acts' + drops' <= MaxSteps
       /\ UNCHANGED <<part, connectionVars, recentVars>>
    \/ part = "keys" /\ ConnectionNext /\ UNCHANGED <<part, screenVars, recentVars>>
    \/ part = "pins" /\ RecentsNext /\ UNCHANGED <<part, screenVars, connectionVars>>

SavedSpec ==
    SavedInit /\ [][SavedNext]_<<part, screenVars, connectionVars, recentVars>>
=============================================================================
