------------------------------ MODULE Recorder ------------------------------
(***************************************************************************)
(* The transcript of one session.  What is said arrives in reads that end  *)
(* anywhere, goes through a decoder for each direction, becomes lines that *)
(* wait for a timer, and then belongs to a write stream of Node.           *)
(*   apps/server/src/api/exec/recorder.ts                                  *)
(*                                                                         *)
(* A byte of either direction is named by its place, and a line of text by *)
(* the places between which it lies.                                       *)
(***************************************************************************)
EXTENDS Naturals, Sequences, FiniteSetsExt

CONSTANTS
    MaxSize,        \* MAX_BYTES
    MaxSaid,        \* bound: bytes of either direction
    MaxResizes      \* bound

ASSUME SizeAssumption == MaxSize \in Nat \ {0}
ASSUME SaidAssumption == MaxSaid \in Nat /\ MaxResizes \in Nat

VARIABLES
    recordInput,    \* FAWS_EXEC_RECORD_INPUT
    ends,           \* the places between the code points that will be said
    heard,          \* bytes the decoders have been given
    resizes,        \* bound's counter
    written, stopped, pending,
    flushTimer,
    queue,          \* lines the stream has been given; it ends when stopped
    opened,         \* whether its file is
    file,           \* lines on disk
    server          \* the process: up, down or crashed

recorderVars == <<recordInput, ends, heard, resizes, written, stopped, pending,
                  flushTimer, queue, opened, file, server>>

Directions == {"o", "i"}
Resize     == [is |-> "r"]
Header     == [is |-> "header"]
Note       == [is |-> "note"]   \* recording stopped: size limit reached

Text(d, from, to) == [is |-> d, from |-> from, to |-> to]

\* Texts of MaxSaid bytes: a code point of UTF-8 has up to four of them.
Texts ==
    {cuts \in SUBSET (0..MaxSaid) :
        /\ {0, MaxSaid} \subseteq cuts
        /\ \A c \in cuts \ {0} : \E b \in cuts : b < c /\ c <= b + 4}

\* The bytes of a line, without those every line has.
Size(line) == IF line.is \in Directions THEN line.to - line.from ELSE 1

RecorderInit ==
    /\ recordInput \in BOOLEAN
    /\ ends \in [Directions -> Texts]
    /\ heard = [d \in Directions |-> 0]
    /\ resizes = 0 /\ written = 0 /\ stopped = FALSE /\ pending = <<>>
    /\ flushTimer = FALSE
    /\ queue = <<Header>> /\ opened = FALSE /\ file = <<>>
    /\ server = "up"

-----------------------------------------------------------------------------
\* flush, of these lines.
Hand(lines) ==
    /\ queue' = queue \o lines
    /\ pending' = <<>> /\ flushTimer' = FALSE

\* Mutated form: what is pending waits for a timer that has been cleared.
StopUnflushed(lines) ==
    /\ stopped' = TRUE /\ flushTimer' = FALSE
    /\ UNCHANGED <<pending, queue>>

Stop(lines) == stopped' = TRUE /\ Hand(lines)

Emit(line) ==
    /\ ~stopped
    /\ written' = written + Size(line)
    /\ IF written' >= MaxSize
       THEN Stop(pending \o <<line, Note>>)
       ELSE /\ pending' = Append(pending, line)
            /\ flushTimer' = TRUE
            /\ UNCHANGED <<stopped, queue>>

Ignored == UNCHANGED <<written, stopped, pending, flushTimer, queue>>

\* Mutated form: a new decoder for every read.
DecodedAfresh(d, n) ==
    LET inside == {e \in ends[d] : heard[d] <= e /\ e <= n}
    IN  IF inside = {} THEN <<n, n>> ELSE <<Min(inside), Max(inside)>>

\* The text that is complete once n bytes have been read, but was not before.
Decoded(d, n) ==
    <<Max({e \in ends[d] : e <= heard[d]}), Max({e \in ends[d] : e <= n})>>

\* output and input: a read of the bytes up to n.
Hear(d, n) ==
    LET text == Decoded(d, n) IN
    /\ heard[d] < n
    /\ d = "i" => recordInput
    /\ heard' = [heard EXCEPT ![d] = n]
    /\ IF stopped \/ text[1] = text[2] THEN Ignored ELSE Emit(Text(d, text[1], text[2]))
    /\ UNCHANGED <<recordInput, ends, resizes, opened, file, server>>

ResizeTo ==
    /\ resizes < MaxResizes
    /\ resizes' = resizes + 1
    /\ IF stopped THEN Ignored ELSE Emit(Resize)
    /\ UNCHANGED <<recordInput, ends, heard, opened, file, server>>

\* The last thing closeSession does for a recording.
CloseRecorder ==
    /\ ~stopped
    /\ Stop(pending)
    /\ UNCHANGED <<recordInput, ends, heard, resizes, written, opened, file, server>>

FlushTimer ==
    /\ flushTimer
    /\ Hand(pending)
    /\ UNCHANGED <<recordInput, ends, heard, resizes, written, stopped, opened, file, server>>

-----------------------------------------------------------------------------
\* Node.

Opens ==
    /\ ~opened
    /\ opened' = TRUE
    /\ UNCHANGED <<recordInput, ends, heard, resizes, written, stopped, pending,
                   flushTimer, queue, file, server>>

Lands ==
    /\ opened /\ queue # <<>>
    /\ file' = Append(file, Head(queue)) /\ queue' = Tail(queue)
    /\ UNCHANGED <<recordInput, ends, heard, resizes, written, stopped, pending,
                   flushTimer, opened, server>>

\* The file cannot be opened or written: the stream says so with an event that
\* nobody listens to, which ends the process.
StreamFails ==
    /\ ~opened \/ queue # <<>>
    /\ server' = "crashed"
    /\ UNCHANGED <<recordInput, ends, heard, resizes, written, stopped, pending,
                   flushTimer, queue, opened, file>>

\* The server exits, or is killed; it does not wait for the stream.
Exits ==
    /\ server' = "down"
    /\ UNCHANGED <<recordInput, ends, heard, resizes, written, stopped, pending,
                   flushTimer, queue, opened, file>>

RecorderNext ==
    /\ server = "up"
    /\ \/ \E d \in Directions : \E n \in 1..MaxSaid : Hear(d, n)
       \/ ResizeTo \/ CloseRecorder \/ FlushTimer
       \/ Opens \/ Lands \/ StreamFails \/ Exits

RecorderSpec == RecorderInit /\ [][RecorderNext]_recorderVars

-----------------------------------------------------------------------------
(* Lines on disk, on their way there, and waiting for the timer. *)
Transcript == file \o queue \o pending

(* How far the first i lines of it bring a direction. *)
Said(d, i) ==
    Max({0} \cup {Transcript[j].to : j \in {j \in 1..i : Transcript[j].is = d}})

(* The transcript is what was said: in each direction the lines follow one *)
(* another without a gap, cut between code points although the reads were  *)
(* not ("must not become two replacement characters in the file",          *)
(* recorder.ts:88-89), up to the last complete one unless it has stopped.  *)
(* What a line waits for is coming, a recording that is full says so at    *)
(* its end and nowhere else, and one that was closed misses nothing.       *)
TranscriptIsOutput ==
    /\ Transcript[1] = Header
    /\ \A i \in DOMAIN Transcript : \A d \in Directions :
        Transcript[i].is = d =>
            /\ Transcript[i].from = Said(d, i - 1)
            /\ Transcript[i].from < Transcript[i].to /\ Transcript[i].to \in ends[d]
    /\ stopped \/ \A d \in Directions :
                      Said(d, Len(Transcript)) = Max({e \in ends[d] : e <= heard[d]})
    /\ pending # <<>> => flushTimer /\ ~stopped
    /\ \A i \in DOMAIN Transcript : Transcript[i] = Note => i = Len(Transcript) /\ stopped
    /\ written >= MaxSize => Note \in {Transcript[i] : i \in DOMAIN Transcript}

(* Disagrees with the code: "A transcript is worth having, but never worth *)
(* failing a session over" (recorder.ts:82).                               *)
NeverFailsASession == server # "crashed"
=============================================================================
