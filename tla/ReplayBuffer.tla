---------------------------- MODULE ReplayBuffer ----------------------------
(***************************************************************************)
(* The end of a session's output that is kept for a terminal that comes    *)
(* back.  The far end writes whole sequences: characters, colours, titles; *)
(* a driver reads them in chunks that end anywhere.  The buffer drops old  *)
(* chunks and must not begin a replay inside a sequence.                   *)
(*   apps/server/src/api/exec/{ringBuffer,streamScanner}.ts                *)
(*                                                                         *)
(* A byte of the session is named by its place in the stream, so a chunk   *)
(* is the place of its first byte: it goes on to where the next one is.    *)
(***************************************************************************)
EXTENDS Naturals, Sequences, FiniteSetsExt

CONSTANTS
    Capacity,       \* SCROLLBACK_BYTES
    Written,        \* the sequences the far end writes
    MaxBytes,       \* bound: bytes written
    MaxUnread       \* bound: bytes written and not read yet

Bytes == 0..255

ASSUME CapacityAssumption == Capacity \in Nat \ {0}
ASSUME WrittenAssumption == Written \subseteq Seq(Bytes) \ {<<>>}
ASSUME BufferBoundsAssumption == MaxBytes \in Nat /\ MaxUnread \in Nat

VARIABLES
    stream,     \* history: every byte the far end has written
    whole,      \* history: the places between two sequences
    read,       \* bytes that were appended
    scanner,    \* where the scanner is after them
    chunks,
    bytes,      \* total retained
    vouched     \* history: chunks that began where the scanner saw a boundary

replayVars == <<stream, whole, read, scanner, chunks, bytes, vouched>>

Ground == [state |-> "ground", pending |-> 0]
ChunkRecords == [at : Nat, startsSafe : BOOLEAN, firstSafe : Nat]

In(state) == [state |-> state, pending |-> 0]

(* How many continuation bytes a lead byte promises: 110xxxxx, 1110xxxx,   *)
(* 11110xxx.                                                               *)
Owed(b) ==
    CASE b \in 192..223 -> 1
      [] b \in 224..239 -> 2
      [] b \in 240..247 -> 3
      [] OTHER -> 0

FromGround(b) ==
    CASE b = 27 -> In("escape")
      [] b # 27 /\ Owed(b) > 0 -> [state |-> "utf8", pending |-> Owed(b)]
      [] OTHER -> Ground

\* STRING_INTRODUCERS and OSC_INTRODUCER
Introducers == {80, 88, 93, 94, 95}

(* ESC [ up to a byte of 0x40-0x7e; ESC ], P, X, ^ or _ up to BEL or ESC \;*)
(* ESC and one byte; a code point.                                         *)
Feed(s, b) ==
    CASE s.state = "ground" -> FromGround(b)
      [] s.state = "escape" /\ b = 91 -> In("csi")
      [] s.state = "escape" /\ b \in Introducers -> In("string")
      [] s.state = "csi" /\ b \notin 64..126 -> s
      [] s.state = "string" /\ b = 27 -> In("string-escape")
      [] s.state = "string" /\ b \notin {7, 27} -> s
      [] s.state = "string-escape" /\ b # 92 -> In("string")
      [] s.state = "utf8" /\ b \in 128..191 /\ s.pending > 1 ->
            [s EXCEPT !.pending = @ - 1]
      [] s.state = "utf8" /\ b \notin 128..191 -> FromGround(b)
      [] OTHER -> Ground

(* Where the scanner is after each of the next n bytes. *)
Scan(n) ==
    LET after[i \in 0..n] ==
            IF i = 0 THEN scanner ELSE Feed(after[i - 1], stream[read + i])
    IN  after

Boundary(s) == s.state = "ground"

(* What the scanner means to tell apart, each from its first byte to its   *)
(* last: one byte, a code point, ESC and one byte, a control sequence, and *)
(* a string, whose payload may hold an ESC that ends nothing.              *)
SingleByte(w) == Len(w) = 1 /\ w[1] # 27 /\ Owed(w[1]) = 0

CodePoint(w) ==
    /\ Owed(w[1]) > 0 /\ Len(w) = 1 + Owed(w[1])
    /\ \A i \in 2..Len(w) : w[i] \in 128..191

ShortEscape(w) == Len(w) = 2 /\ w[1] = 27 /\ w[2] \notin Introducers \cup {91}

ControlSequence(w) ==
    /\ Len(w) > 2 /\ w[1] = 27 /\ w[2] = 91
    /\ \A i \in 3..Len(w) : w[i] \in 64..126 <=> i = Len(w)

Payload(w, last) ==
    \A i \in 3..last : w[i] # 7 /\ (w[i] = 27 => w[i + 1] \notin {7, 27, 92})

StringSequence(w) ==
    /\ Len(w) > 2 /\ w[1] = 27 /\ w[2] \in Introducers
    /\ \/ w[Len(w)] = 7 /\ Payload(w, Len(w) - 1)
       \/ /\ Len(w) > 3 /\ w[Len(w) - 1] = 27 /\ w[Len(w)] = 92
          /\ Payload(w, Len(w) - 2)

Framed(w) ==
    \/ SingleByte(w) \/ CodePoint(w) \/ ShortEscape(w)
    \/ ControlSequence(w) \/ StringSequence(w)

ReplayInit ==
    /\ stream = <<>> /\ whole = {0}
    /\ read = 0 /\ scanner = Ground
    /\ chunks = <<>> /\ bytes = 0
    /\ vouched = {}

-----------------------------------------------------------------------------
(* firstSafeOffset, as a place: a place behind the chunk is null. *)
ChunkOf(n) ==
    LET safe == {i \in 0..(n - 1) : Boundary(Scan(n)[i])}
    IN [at |-> read, startsSafe |-> Boundary(scanner),
        firstSafe |-> read + (IF safe = {} THEN n ELSE Min(safe))]

\* Mutated form: the loop stops once the bytes fit, whatever the head is.
DroppedFitting(cs, total) ==
    Min({k \in 0..(Len(cs) - 1) :
            k = Len(cs) - 1 \/ total - (cs[k + 1].at - cs[1].at) <= Capacity})

\* Mutated form: a buffer that is just full drops one chunk more.
DroppedWhenFull(cs, total) ==
    Min({k \in 0..(Len(cs) - 1) :
            \/ k = Len(cs) - 1
            \/ total - (cs[k + 1].at - cs[1].at) < Capacity /\ cs[k + 1].startsSafe})

(* The chunks the loop of evict drops before it stops. *)
Dropped(cs, total) ==
    Min({k \in 0..(Len(cs) - 1) :
            \/ k = Len(cs) - 1
            \/ total - (cs[k + 1].at - cs[1].at) <= Capacity /\ cs[k + 1].startsSafe})

(* The one chunk that is left is cut forward to where a replay can start.  *)
Evict(cs, total, end) ==
    LET kept == SubSeq(cs, Dropped(cs, total) + 1, Len(cs))
        size == total - (kept[1].at - cs[1].at)
        only == kept[1]
        cut  == only.firstSafe
    IN IF Len(kept) > 1 \/ only.startsSafe \/ cut \in {end, only.at}
       THEN chunks' = kept /\ bytes' = size
       ELSE /\ chunks' = <<[at |-> cut, startsSafe |-> TRUE, firstSafe |-> cut]>>
            /\ bytes' = size - (cut - only.at)

(* The driver reads n bytes and the registry appends them. *)
Receive(n) ==
    /\ read + n <= Len(stream)
    /\ read' = read + n
    /\ scanner' = Scan(n)[n]
    /\ vouched' = IF Boundary(scanner) THEN vouched \cup {read} ELSE vouched
    /\ Evict(Append(chunks, ChunkOf(n)), bytes + n, read + n)
    /\ UNCHANGED <<stream, whole>>

(* closeSession clears the buffer; the scanner stays where it is. *)
Clear ==
    /\ chunks # <<>>
    /\ chunks' = <<>> /\ bytes' = 0 /\ vouched' = {}
    /\ UNCHANGED <<stream, whole, read, scanner>>

(* The program at the far end writes one sequence. *)
Write(w) ==
    /\ Len(stream) + Len(w) <= MaxBytes /\ Len(stream) - read <= MaxUnread
    /\ stream' = stream \o w
    /\ whole' = whole \cup {Len(stream) + Len(w)}
    /\ UNCHANGED <<read, scanner, chunks, bytes, vouched>>

ReplayNext ==
    \/ \E w \in Written : Write(w)
    \/ \E n \in 1..MaxBytes : Receive(n)
    \/ Clear

ReplaySpec == ReplayInit /\ [][ReplayNext]_replayVars

-----------------------------------------------------------------------------
(* The buffer holds what the code can put there: chunks that begin before  *)
(* what was read and follow one another.                                   *)
BufferTypeOK ==
    /\ read \in Nat /\ bytes \in Nat /\ vouched \subseteq Nat
    /\ chunks \in Seq(ChunkRecords)
    /\ \A i \in DOMAIN chunks : chunks[i].at < read
    /\ \A i, j \in DOMAIN chunks : i < j => chunks[i].at < chunks[j].at

(* A replay begins between two sequences the far end wrote, wherever the   *)
(* driver's reads have cut them, unless all that is left is part of a      *)
(* single one: "replay never starts in the middle of an escape sequence or *)
(* a UTF-8 code point" (ringBuffer.ts:9-10).                               *)
ReplayStartsClean ==
    chunks # <<>> =>
        \/ chunks[1].at \in whole
        \/ Len(chunks) = 1 /\ whole \cap (chunks[1].at)..(read - 1) = {}

(* What is kept is the end of the stream, the counter says how much it is, *)
(* it is within the capacity or a single chunk, and a tail that fits and   *)
(* could be replayed from its head is not dropped.                         *)
KeepsTheTail ==
    chunks # <<>> =>
        /\ bytes = read - chunks[1].at
        /\ Len(chunks) > 1 => bytes <= Capacity
        /\ \A c \in vouched : read - c <= Capacity => chunks[1].at <= c
=============================================================================
