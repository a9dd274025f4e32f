------------------------------- MODULE MCExec -------------------------------
(***************************************************************************)
(* The exec sessions, the bytes one of them keeps for a replay, and its    *)
(* transcript, for TLC: ExecRegistry takes what is kept by whole chunks    *)
(* and sees nothing of a transcript, so each part stands still while       *)
(* another runs.  Sessions and sockets are interchangeable: the registry   *)
(* uses them as keys and nothing else, and every invariant says the same   *)
(* of each.                                                                *)
(***************************************************************************)
EXTENDS ExecRegistry, ReplayBuffer, Recorder, TLC

VARIABLE part

NameSymmetry == Permutations(Sessions) \cup Permutations(Sockets)

(* What a program writes: a letter, code points of two and three bytes, a  *)
(* colour, a title, a string with an escape in it, a short escape.         *)
Ordinary == {<<97>>, <<195, 169>>, <<226, 148, 128>>, <<27, 91, 49, 109>>,
             <<27, 93, 48, 7>>, <<27, 80, 27, 48, 27, 92>>, <<27, 55>>}

ASSUME OrdinaryIsFramed == \A w \in Ordinary : Framed(w)

(* With ESC ( B, which terminfo's sgr0 of an xterm begins with; the        *)
(* scanner takes it for two sequences, and ReplayStartsClean fails.        *)
WithCharsets == {<<97>>, <<27, 91, 109>>, <<27, 40, 66>>}

ExecInit ==
    /\ Init /\ ReplayInit /\ RecorderInit
    /\ part \in {"sessions", "output", "transcript"}
    /\ part # "transcript" => ~recordInput /\ ends = [d \in Directions |-> {0, MaxSaid}]

ExecNext ==
    \/ part = "sessions" /\ Next /\ UNCHANGED <<part, replayVars, recorderVars>>
    \/ part = "output" /\ ReplayNext /\ UNCHANGED <<part, vars, recorderVars>>
    \/ part = "transcript" /\ RecorderNext /\ UNCHANGED <<part, vars, replayVars>>

ExecSpec == ExecInit /\ [][ExecNext]_<<part, vars, replayVars, recorderVars>>
=============================================================================
