-------------------------- MODULE ExecOutputProofs --------------------------
(***************************************************************************)
(* What is kept of a session's output: the replay buffer, for every        *)
(* capacity, every output and every way a driver's reads cut it, and the   *)
(* transcript, for every text and size limit.                              *)
(***************************************************************************)
EXTENDS ReplayBuffer, Recorder, WellFoundedInduction, SequenceTheorems, TLAPS

-----------------------------------------------------------------------------
(* A set of numbers that is not empty has a least one. *)
LEMMA LeastNumber ==
    ASSUME NEW S \in SUBSET Nat, S # {}
    PROVE  Min(S) \in S /\ \A k \in S : Min(S) <= k
<1>1. \E m \in S : \A k \in S : ~(<<k, m>> \in OpToRel(<, Nat))
  BY WFMin, NatLessThanWellFounded, Zenon
<1>2. \E m \in S : \A k \in S : ~(k < m)
  BY <1>1, Zenon DEF OpToRel
<1>3. \E m \in S : \A k \in S : m <= k
  BY <1>2
<1> QED BY <1>3 DEF Min

(* Each chunk is where it was put and may be cut only at a place in it.    *)
Followed(cs, end) ==
    /\ cs \in Seq(ChunkRecords)
    /\ \A i \in DOMAIN cs :
        /\ cs[i].at < end
        /\ cs[i].at <= cs[i].firstSafe /\ cs[i].firstSafe <= end
    /\ \A i, j \in DOMAIN cs : i < j => cs[i].at < cs[j].at

(* A chunk that began at a boundary and is within the capacity is there.   *)
HasVouched(cs, end, safe) ==
    \A c \in safe : end - c <= Capacity =>
        \E i \in DOMAIN cs : cs[i].at = c /\ cs[i].startsSafe

ReplayInv ==
    /\ read \in Nat /\ bytes \in Nat /\ vouched \subseteq Nat
    /\ Followed(chunks, read)
    /\ bytes = IF chunks = <<>> THEN 0 ELSE read - chunks[1].at
    /\ HasVouched(chunks, read, vouched)
    /\ Len(chunks) > 1 => bytes <= Capacity

-----------------------------------------------------------------------------
(* The chunk that is appended may be cut at a place in it, or not at all.  *)
LEMMA ChunkPlace ==
    ASSUME read \in Nat, NEW n \in Nat, n > 0
    PROVE  /\ ChunkOf(n) \in ChunkRecords
           /\ ChunkOf(n).at = read
           /\ ChunkOf(n).startsSafe = Boundary(scanner)
           /\ read <= ChunkOf(n).firstSafe /\ ChunkOf(n).firstSafe <= read + n
<1> DEFINE safe == {i \in 0..(n - 1) : Boundary(Scan(n)[i])}
           first == IF safe = {} THEN n ELSE Min(safe)
<1>1. first \in Nat /\ first <= n
  <2>1. CASE safe = {}
    BY <2>1
  <2>2. CASE safe # {}
    <3>1. safe \in SUBSET Nat
      OBVIOUS
    <3>2. Min(safe) \in safe
      BY <2>2, <3>1, LeastNumber
    <3> QED BY <2>2, <3>2
  <2> QED BY <2>1, <2>2
<1>2. ChunkOf(n) = [at |-> read, startsSafe |-> Boundary(scanner),
                    firstSafe |-> read + first]
  BY DEF ChunkOf
<1>3. Boundary(scanner) \in BOOLEAN
  BY DEF Boundary
<1> HIDE DEF first
<1> QED BY <1>1, <1>2, <1>3 DEF ChunkRecords

(* Where the loop of evict stops, and that it stops no later than it must. *)
LEMMA WhereEvictStops ==
    ASSUME NEW cs \in Seq(ChunkRecords), cs # <<>>, NEW total \in Nat
    PROVE  /\ Dropped(cs, total) \in 0..(Len(cs) - 1)
           /\ \/ Dropped(cs, total) = Len(cs) - 1
              \/ /\ total - (cs[Dropped(cs, total) + 1].at - cs[1].at) <= Capacity
                 /\ cs[Dropped(cs, total) + 1].startsSafe
           /\ \A k \in 0..(Len(cs) - 1) :
                total - (cs[k + 1].at - cs[1].at) <= Capacity /\ cs[k + 1].startsSafe
                => Dropped(cs, total) <= k
<1> DEFINE Stops == {k \in 0..(Len(cs) - 1) :
            \/ k = Len(cs) - 1
            \/ total - (cs[k + 1].at - cs[1].at) <= Capacity /\ cs[k + 1].startsSafe}
<1>1. Len(cs) \in Nat /\ Len(cs) > 0
  BY EmptySeq, LenProperties
<1>2. Stops \in SUBSET Nat /\ Len(cs) - 1 \in Stops
  BY <1>1
<1>3. Min(Stops) \in Stops /\ \A k \in Stops : Min(Stops) <= k
  BY <1>2, LeastNumber
<1>4. Dropped(cs, total) = Min(Stops)
  BY DEF Dropped
<1> HIDE DEF Stops
<1>5. Dropped(cs, total) \in Stops /\ \A k \in Stops : Dropped(cs, total) <= k
  BY <1>3, <1>4
<1> QED BY <1>5 DEF Stops

(* What is left of a sequence when its first k elements are dropped.       *)
LEMMA KeptFrom ==
    ASSUME NEW S, NEW cs \in Seq(S), NEW k \in 0..(Len(cs) - 1)
    PROVE  LET kept == SubSeq(cs, k + 1, Len(cs)) IN
           /\ kept \in Seq(S) /\ Len(kept) = Len(cs) - k
           /\ \A i \in 1..Len(kept) : kept[i] = cs[k + i]
           /\ DOMAIN kept = 1..Len(kept)
<1> DEFINE kept == SubSeq(cs, k + 1, Len(cs))
<1>1. Len(cs) \in Nat /\ k \in Nat
  BY LenProperties
<1>2. k + 1 \in Int /\ Len(cs) \in Int /\ k + 1 <= Len(cs)
  BY <1>1
<1>3. \A i \in (k + 1)..Len(cs) : cs[i] \in S
  <2>1. \A i \in (k + 1)..Len(cs) : i \in 1..Len(cs)
    BY <1>1
  <2> QED BY <2>1, ElementOfSeq
<1>4. /\ kept \in Seq(S)
      /\ Len(kept) = IF k + 1 <= Len(cs) THEN Len(cs) - (k + 1) + 1 ELSE 0
      /\ \A i \in 1..(Len(cs) - (k + 1) + 1) : kept[i] = cs[(k + 1) + i - 1]
  BY <1>2, <1>3, SubSeqProperties
<1> HIDE DEF kept
<1>5. Len(kept) = Len(cs) - k /\ Len(cs) - (k + 1) + 1 = Len(cs) - k
  BY <1>1, <1>2, <1>4
<1>6. \A i \in 1..Len(kept) : (k + 1) + i - 1 = k + i
  BY <1>1, <1>5
<1>7. \A i \in 1..Len(kept) : kept[i] = cs[k + i]
  BY <1>4, <1>5, <1>6
<1> QED BY <1>4, <1>5, <1>7, LenProperties DEF kept

(* After evict the buffer is again as it has to be. *)
LEMMA EvictKeeps ==
    ASSUME NEW cs \in Seq(ChunkRecords), cs # <<>>, NEW end \in Nat,
           NEW total \in Nat, NEW safe \in SUBSET Nat,
           Followed(cs, end), total = end - cs[1].at,
           HasVouched(cs, end, safe),
           Evict(cs, total, end)
    PROVE  /\ bytes' \in Nat
           /\ Followed(chunks', end)
           /\ bytes' = IF chunks' = <<>> THEN 0 ELSE end - chunks'[1].at
           /\ HasVouched(chunks', end, safe)
           /\ Len(chunks') > 1 => bytes' <= Capacity
<1> DEFINE k == Dropped(cs, total)
           kept == SubSeq(cs, k + 1, Len(cs))
           size == total - (kept[1].at - cs[1].at)
<1>0. Capacity \in Nat
  BY CapacityAssumption
<1>1. Len(cs) \in Nat /\ Len(cs) > 0 /\ DOMAIN cs = 1..Len(cs)
  BY EmptySeq, LenProperties
<1>2. k \in 0..(Len(cs) - 1)
  BY WhereEvictStops
<1> HIDE DEF k
<1>3. /\ kept \in Seq(ChunkRecords) /\ Len(kept) = Len(cs) - k
      /\ \A i \in 1..Len(kept) : kept[i] = cs[k + i]
      /\ DOMAIN kept = 1..Len(kept)
  BY <1>2, KeptFrom
<1> HIDE DEF kept
<1>4. \A i \in 1..Len(cs) : cs[i].at \in Nat /\ cs[i].firstSafe \in Nat
  <2>1. \A i \in 1..Len(cs) : cs[i] \in ChunkRecords
    BY ElementOfSeq
  <2> QED BY <2>1 DEF ChunkRecords
<1>5. /\ k + 1 \in 1..Len(cs) /\ 1 \in 1..Len(kept) /\ kept[1] = cs[k + 1]
      /\ kept[1].at \in Nat /\ cs[1].at \in Nat /\ kept[1].at < end
      /\ size = end - kept[1].at /\ size \in Nat
  <2>1. k + 1 \in 1..Len(cs) /\ 1 \in 1..Len(kept) /\ 1 \in 1..Len(cs)
    BY <1>1, <1>2, <1>3
  <2>2. kept[1] = cs[k + 1]
    BY <1>3, <2>1
  <2>3. kept[1].at \in Nat /\ cs[1].at \in Nat /\ kept[1].at < end
    BY <1>1, <1>4, <2>1, <2>2 DEF Followed
  <2> QED BY <2>1, <2>2, <2>3
<1>6. Followed(kept, end)
  <2>1. \A i \in 1..Len(kept) : k + i \in 1..Len(cs)
    BY <1>1, <1>2, <1>3
  <2>2. \A i \in DOMAIN kept :
           /\ kept[i].at < end
           /\ kept[i].at <= kept[i].firstSafe /\ kept[i].firstSafe <= end
    BY <1>1, <1>3, <2>1 DEF Followed
  <2>3. ASSUME NEW i \in DOMAIN kept, NEW j \in DOMAIN kept, i < j
        PROVE  kept[i].at < kept[j].at
    <3>1. k + i \in 1..Len(cs) /\ k + j \in 1..Len(cs) /\ k + i < k + j
      BY <1>2, <1>3, <2>1, <2>3
    <3> QED BY <1>1, <1>3, <2>3, <3>1 DEF Followed
  <2> QED BY <1>3, <2>2, <2>3 DEF Followed
<1>7. HasVouched(kept, end, safe)
  <2> SUFFICES ASSUME NEW c \in safe, end - c <= Capacity
               PROVE  \E i \in DOMAIN kept : kept[i].at = c /\ kept[i].startsSafe
    BY DEF HasVouched
  <2>1. PICK j \in 1..Len(cs) : cs[j].at = c /\ cs[j].startsSafe
    BY <1>1 DEF HasVouched
  <2>2. total - (cs[j].at - cs[1].at) <= Capacity
    BY <1>0, <1>1, <1>4, <2>1
  <2>3. k <= j - 1
    BY <2>1, <2>2, WhereEvictStops, j - 1 \in 0..(Len(cs) - 1), (j - 1) + 1 = j,
       <1>1 DEF k
  <2>4. j - k \in 1..Len(kept) /\ k + (j - k) = j
    BY <1>1, <1>2, <1>3, <2>3
  <2>5. kept[j - k] = cs[j]
    BY <1>3, <2>4
  <2> QED BY <1>3, <2>1, <2>4, <2>5
<1>8. Len(kept) > 1 => size <= Capacity
  <2>1. k = Len(cs) - 1 \/ total - (cs[k + 1].at - cs[1].at) <= Capacity
    BY WhereEvictStops DEF k
  <2>2. size = total - (cs[k + 1].at - cs[1].at)
    BY <1>5
  <2>3. Len(kept) > 1 => k # Len(cs) - 1
    <3>1. Len(kept) = Len(cs) - k /\ k \in Nat /\ Len(cs) \in Nat
      BY <1>1, <1>2, <1>3
    <3> QED BY <3>1
  <2> HIDE DEF size
  <2> QED BY <2>1, <2>2, <2>3
<1>9. kept # <<>> /\ Len(kept) >= 1
  BY <1>1, <1>2, <1>3, EmptySeq
<1>10. CASE chunks' = kept /\ bytes' = size
  BY <1>5, <1>6, <1>7, <1>8, <1>9, <1>10
<1>11. CASE /\ Len(kept) = 1 /\ ~kept[1].startsSafe
            /\ kept[1].firstSafe \notin {end, kept[1].at}
            /\ chunks' = <<[at |-> kept[1].firstSafe, startsSafe |-> TRUE,
                             firstSafe |-> kept[1].firstSafe]>>
            /\ bytes' = size - (kept[1].firstSafe - kept[1].at)
  <2> DEFINE cut == kept[1].firstSafe
  <2>1. cut \in Nat /\ kept[1].at \in Nat /\ kept[1].at <= cut /\ cut < end
    <3>1. kept[1].firstSafe \in Nat /\ kept[1].firstSafe <= end
          /\ kept[1].at <= kept[1].firstSafe
      BY <1>3, <1>4, <1>5, <1>6 DEF Followed
    <3> QED BY <1>5, <1>11, <3>1
  <2>2. chunks' \in Seq(ChunkRecords) /\ Len(chunks') = 1 /\ chunks' # <<>>
        /\ chunks'[1].at = cut /\ chunks'[1].firstSafe = cut /\ DOMAIN chunks' = {1}
    BY <1>11, <2>1 DEF ChunkRecords
  <2>3. bytes' = end - cut
    BY <1>5, <1>11, <2>1, <1>9
  <2>4. Followed(chunks', end)
    BY <2>1, <2>2 DEF Followed
  <2>5. \A c \in safe : ~(end - c <= Capacity)
    <3> SUFFICES ASSUME NEW c \in safe, end - c <= Capacity
                 PROVE  FALSE
      OBVIOUS
    <3>1. \E i \in DOMAIN kept : kept[i].startsSafe
      BY <1>7 DEF HasVouched
    <3>2. \A i \in 1..Len(kept) : i = 1
      BY <1>11
    <3> QED BY <3>1, <3>2, <1>3, <1>11
  <2>6. HasVouched(chunks', end, safe)
    BY <2>5 DEF HasVouched
  <2> QED BY <2>1, <2>2, <2>3, <2>4, <2>6
<1>12. Len(kept) > 1 \/ Len(kept) = 1
  BY <1>9, <1>3, LenProperties, <1>1, <1>2
<1> QED BY <1>10, <1>11, <1>12 DEF Evict, k, kept

-----------------------------------------------------------------------------
LEMMA ReplayInitInv == ReplayInit => ReplayInv
BY CapacityAssumption DEF ReplayInit, ReplayInv, Followed, HasVouched

LEMMA ReplayStepInv == ReplayInv /\ [ReplayNext]_replayVars => ReplayInv'
<1> SUFFICES ASSUME ReplayInv, [ReplayNext]_replayVars
             PROVE  ReplayInv'
  OBVIOUS
<1>0. Capacity \in Nat /\ MaxBytes \in Nat
  BY CapacityAssumption, BufferBoundsAssumption
<1>1. CASE UNCHANGED replayVars
  BY <1>1 DEF replayVars, ReplayInv
<1>2. ASSUME NEW w \in Written, Write(w)
      PROVE  ReplayInv'
  BY <1>2 DEF Write, ReplayInv
<1>3. CASE Clear
  BY <1>0, <1>3 DEF Clear, ReplayInv, Followed, HasVouched
<1>4. ASSUME NEW n \in 1..MaxBytes, Receive(n)
      PROVE  ReplayInv'
  <2> DEFINE c == ChunkOf(n)
             cs == Append(chunks, c)
             end == read + n
  <2>1. n \in Nat /\ n > 0 /\ read \in Nat /\ end \in Nat /\ bytes \in Nat
    BY <1>0 DEF ReplayInv
  <2>2. /\ c \in ChunkRecords /\ c.at = read /\ c.startsSafe = Boundary(scanner)
        /\ read <= c.firstSafe /\ c.firstSafe <= end
    BY <2>1, ChunkPlace
  <2> HIDE DEF c
  <2>3. chunks \in Seq(ChunkRecords) /\ Len(chunks) \in Nat
        /\ DOMAIN chunks = 1..Len(chunks)
    BY LenProperties DEF ReplayInv, Followed
  <2>4. /\ cs \in Seq(ChunkRecords) /\ cs # <<>> /\ Len(cs) = Len(chunks) + 1
        /\ \A i \in 1..Len(chunks) : cs[i] = chunks[i]
        /\ cs[Len(chunks) + 1] = c /\ DOMAIN cs = 1..(Len(chunks) + 1)
    BY <2>2, <2>3, AppendProperties, LenProperties, EmptySeq
  <2> HIDE DEF cs
  <2>5. \A i \in 1..Len(chunks) : chunks[i].at \in Nat /\ chunks[i].firstSafe \in Nat
    <3>1. \A i \in 1..Len(chunks) : chunks[i] \in ChunkRecords
      BY <2>3, ElementOfSeq
    <3> QED BY <3>1 DEF ChunkRecords
  <2>6. Followed(cs, end)
    <3>1. ASSUME NEW i \in DOMAIN cs
          PROVE  cs[i].at < end /\ cs[i].at <= cs[i].firstSafe /\ cs[i].firstSafe <= end
      <4>1. CASE i \in 1..Len(chunks)
        BY <2>1, <2>3, <2>4, <2>5, <4>1 DEF ReplayInv, Followed
      <4>2. CASE i = Len(chunks) + 1
        BY <2>1, <2>2, <2>4, <4>2
      <4> QED BY <2>3, <2>4, <4>1, <4>2
    <3>2. ASSUME NEW i \in DOMAIN cs, NEW j \in DOMAIN cs, i < j
          PROVE  cs[i].at < cs[j].at
      <4>1. CASE j \in 1..Len(chunks)
        BY <2>3, <2>4, <3>2, <4>1 DEF ReplayInv, Followed
      <4>2. CASE j = Len(chunks) + 1
        <5>1. i \in 1..Len(chunks)
          BY <2>3, <2>4, <3>2, <4>2
        <5> QED BY <2>2, <2>3, <2>4, <4>2, <5>1 DEF ReplayInv, Followed
      <4> QED BY <2>3, <2>4, <4>1, <4>2
    <3> QED BY <2>4, <3>1, <3>2 DEF Followed
  <2>7. bytes + n = end - cs[1].at
    <3>1. CASE chunks = <<>>
      BY <2>1, <2>2, <2>4, <3>1 DEF ReplayInv
    <3>2. CASE chunks # <<>>
      BY <2>1, <2>3, <2>4, <2>5, <3>2, EmptySeq DEF ReplayInv
    <3> QED BY <3>1, <3>2
  <2>8. vouched' \in SUBSET Nat
    BY <1>4, <2>1 DEF Receive, ReplayInv
  <2>9. HasVouched(cs, end, vouched')
    <3> SUFFICES ASSUME NEW v \in vouched', end - v <= Capacity
                 PROVE  \E i \in DOMAIN cs : cs[i].at = v /\ cs[i].startsSafe
      BY DEF HasVouched
    <3>1. CASE v \in vouched
      <4>1. read - v <= Capacity
        BY <1>0, <2>1, <2>8
      <4>2. PICK i \in DOMAIN chunks : chunks[i].at = v /\ chunks[i].startsSafe
        BY <3>1, <4>1 DEF ReplayInv, HasVouched
      <4> QED BY <2>3, <2>4, <4>2
    <3>2. CASE v = read /\ Boundary(scanner)
      <4>1. Len(chunks) + 1 \in DOMAIN cs
        BY <2>3, <2>4
      <4> QED BY <2>2, <2>4, <3>2, <4>1
    <3> QED BY <1>4, <3>1, <3>2 DEF Receive
  <2>10. Evict(cs, bytes + n, end) /\ read' = end
    BY <1>4 DEF Receive, cs, c
  <2> HIDE DEF end
  <2> QED BY <2>1, <2>4, <2>6, <2>7, <2>8, <2>9, <2>10, EvictKeeps DEF ReplayInv
<1> QED BY <1>1, <1>2, <1>3, <1>4 DEF ReplayNext

-----------------------------------------------------------------------------
(* The buffer holds chunks that follow one another and end where the       *)
(* session's output does.                                                  *)
THEOREM BufferType == ReplaySpec => []BufferTypeOK
<1>1. ReplayInv => BufferTypeOK
  BY DEF ReplayInv, Followed, BufferTypeOK
<1> QED BY <1>1, ReplayInitInv, ReplayStepInv, PTL DEF ReplaySpec

(* Whatever is read in whatever pieces: the buffer keeps the end of the    *)
(* output, counts it right, is within SCROLLBACK_BYTES or a single chunk,  *)
(* and drops no tail that fits and could be replayed from its head.        *)
THEOREM TailIsKept == ReplaySpec => []KeepsTheTail
<1>1. ReplayInv => KeepsTheTail
  <2> SUFFICES ASSUME ReplayInv, chunks # <<>>
               PROVE  /\ bytes = read - chunks[1].at
                      /\ Len(chunks) > 1 => bytes <= Capacity
                      /\ \A c \in vouched : read - c <= Capacity => chunks[1].at <= c
    BY DEF KeepsTheTail
  <2>1. bytes = read - chunks[1].at /\ (Len(chunks) > 1 => bytes <= Capacity)
    BY DEF ReplayInv
  <2>2. ASSUME NEW c \in vouched, read - c <= Capacity
        PROVE  chunks[1].at <= c
    <3>1. PICK i \in DOMAIN chunks : chunks[i].at = c
      BY <2>2 DEF ReplayInv, HasVouched
    <3>2. chunks \in Seq(ChunkRecords) /\ DOMAIN chunks = 1..Len(chunks)
          /\ Len(chunks) \in Nat
      BY LenProperties DEF ReplayInv, Followed
    <3>3. chunks[1].at \in Nat /\ c \in Nat
      <4>1. 1 \in 1..Len(chunks)
        BY <3>1, <3>2
      <4>2. chunks[1] \in ChunkRecords
        BY <3>2, <4>1, ElementOfSeq
      <4> QED BY <2>2, <4>2 DEF ChunkRecords, ReplayInv
    <3>4. i = 1 \/ chunks[1].at < chunks[i].at
      BY <3>1, <3>2 DEF ReplayInv, Followed
    <3> QED BY <3>1, <3>3, <3>4
  <2> QED BY <2>1, <2>2
<1> QED BY <1>1, ReplayInitInv, ReplayStepInv, PTL DEF ReplaySpec

-----------------------------------------------------------------------------
(* Where the scanner is.  Along is what it goes through over a text.       *)
ScannerStates ==
    {Ground} \cup [state : {"escape", "csi", "string", "string-escape", "utf8"},
                  pending : Nat]

Along(g, w) ==
    /\ g \in [0..Len(w) -> ScannerStates]
    /\ \A i \in 1..Len(w) : g[i] = Feed(g[i - 1], w[i])

Closed(g, w) ==
    /\ Along(g, w) /\ g[0] = Ground /\ g[Len(w)] = Ground
    /\ \A i \in 1..(Len(w) - 1) : ~Boundary(g[i])

LEMMA OwedBytes ==
    ASSUME NEW b \in Bytes
    PROVE  Owed(b) \in 0..3 /\ (Owed(b) > 0 => b # 27)
BY DEF Owed, Bytes

LEMMA SingleByteCloses ==
    ASSUME NEW w \in Seq(Bytes), SingleByte(w) PROVE \E g : Closed(g, w)
<1> DEFINE g == [i \in 0..1 |-> Ground]
<1>1. Len(w) = 1 /\ w[1] \in Bytes /\ w[1] # 27 /\ Owed(w[1]) = 0
  BY DEF SingleByte
<1>2. Feed(Ground, w[1]) = Ground
  BY <1>1 DEF Feed, FromGround, Ground
<1>3. Ground \in ScannerStates
  BY DEF Ground, ScannerStates
<1>4. Closed(g, w)
  BY <1>1, <1>2, <1>3 DEF Closed, Along
<1> QED BY <1>4

LEMMA ShortEscapeCloses ==
    ASSUME NEW w \in Seq(Bytes), ShortEscape(w) PROVE \E g : Closed(g, w)
<1> DEFINE g == [i \in 0..2 |-> IF i = 1 THEN In("escape") ELSE Ground]
<1>1. Len(w) = 2 /\ w[1] = 27 /\ w[2] \notin Introducers /\ w[2] # 91
  BY DEF ShortEscape
<1>2. Feed(Ground, w[1]) = In("escape")
  BY <1>1 DEF Feed, FromGround, Ground
<1>3. Feed(In("escape"), w[2]) = Ground
  BY <1>1 DEF Feed, In
<1>4. Ground \in ScannerStates /\ In("escape") \in ScannerStates /\ ~Boundary(In("escape"))
  BY DEF Ground, In, ScannerStates, Boundary
<1>5. g \in [0..2 -> ScannerStates] /\ g[0] = Ground /\ g[1] = In("escape") /\ g[2] = Ground
  BY <1>4
<1> HIDE DEF g
<1>6. Along(g, w)
  <2>1. \A i \in 1..2 : i = 1 \/ i = 2
    OBVIOUS
  <2>2. 1 - 1 = 0 /\ 2 - 1 = 1
    OBVIOUS
  <2> QED BY <1>1, <1>2, <1>3, <1>5, <2>1, <2>2 DEF Along
<1>7. \A i \in 1..(Len(w) - 1) : i = 1
  BY <1>1
<1> QED BY <1>1, <1>4, <1>5, <1>6, <1>7 DEF Closed

LEMMA CodePointCloses ==
    ASSUME NEW w \in Seq(Bytes), w # <<>>, CodePoint(w) PROVE \E g : Closed(g, w)
<1> DEFINE n == Owed(w[1])
           s(k) == [state |-> "utf8", pending |-> k]
           g == [i \in 0..Len(w) |-> IF i = 0 \/ i = Len(w) THEN Ground ELSE s(n + 1 - i)]
<1>1. w[1] \in Bytes
  BY EmptySeq
<1>2. /\ n \in 1..3 /\ Len(w) = 1 + n /\ w[1] # 27
      /\ \A i \in 2..Len(w) : w[i] \in 128..191
  BY <1>1, OwedBytes DEF CodePoint
<1>3. Feed(Ground, w[1]) = s(n)
  BY <1>2 DEF Feed, FromGround, Ground
<1> HIDE DEF n
<1>4. ASSUME NEW k \in 1..3, NEW b \in 128..191
      PROVE  Feed(s(k), b) = IF k = 1 THEN Ground ELSE s(k - 1)
  BY DEF Feed, FromGround, Ground
<1>5. \A k \in Nat : s(k) \in ScannerStates /\ ~Boundary(s(k))
  BY DEF ScannerStates, Boundary
<1>6. Ground \in ScannerStates
  BY DEF Ground, ScannerStates
<1> HIDE DEF s
<1>7. /\ g \in [0..Len(w) -> ScannerStates] /\ g[0] = Ground /\ g[Len(w)] = Ground
      /\ \A i \in 1..n : g[i] = s(n + 1 - i)
  BY <1>2, <1>5, <1>6
<1> HIDE DEF g
<1>8. ASSUME NEW i \in 1..Len(w) PROVE g[i] = Feed(g[i - 1], w[i])
  <2>1. CASE i = 1
    <3>1. g[1] = s(n)
      BY <1>2, <1>7
    <3> QED BY <1>3, <1>7, <2>1, <3>1
  <2>2. CASE i # 1
    <3>1. i - 1 \in 1..n /\ w[i] \in 128..191 /\ n + 1 - (i - 1) \in 1..3
      BY <1>2, <2>2
    <3>2. g[i - 1] = s(n + 1 - (i - 1))
      BY <1>7, <3>1
    <3>3. CASE i = Len(w)
      <4>1. n + 1 - (i - 1) = 1
        BY <1>2, <3>3
      <4> QED BY <1>4, <1>7, <3>1, <3>2, <3>3, <4>1
    <3>4. CASE i # Len(w)
      <4>1. i \in 1..n /\ n + 1 - (i - 1) # 1 /\ n + 1 - (i - 1) - 1 = n + 1 - i
        BY <1>2, <3>4
      <4>2. PICK k \in 1..3 : k = n + 1 - (i - 1)
        BY <3>1
      <4>3. k # 1 /\ k - 1 = n + 1 - i
        <5>1. n \in Nat
          BY <1>2
        <5> QED BY <4>1, <4>2, <5>1
      <4>4. Feed(s(k), w[i]) = s(k - 1)
        BY <1>4, <3>1, <4>3
      <4>5. g[i] = s(k - 1) /\ g[i - 1] = s(k)
        BY <1>7, <3>2, <4>1, <4>2, <4>3
      <4> QED BY <4>4, <4>5
    <3> QED BY <3>3, <3>4
  <2> QED BY <2>1, <2>2
<1>9. ASSUME NEW i \in 1..(Len(w) - 1) PROVE ~Boundary(g[i])
  <2>1. i \in 1..n /\ n + 1 - i \in Nat
    BY <1>2
  <2> QED BY <1>5, <1>7, <2>1
<1> QED BY <1>7, <1>8, <1>9 DEF Closed, Along

LEMMA ControlCloses ==
    ASSUME NEW w \in Seq(Bytes), ControlSequence(w) PROVE \E g : Closed(g, w)
<1> DEFINE g == [i \in 0..Len(w) |-> IF i = 0 \/ i = Len(w) THEN Ground
                                     ELSE IF i = 1 THEN In("escape") ELSE In("csi")]
<1>1. /\ Len(w) \in Nat /\ Len(w) > 2 /\ w[1] = 27 /\ w[2] = 91
      /\ \A i \in 3..Len(w) : w[i] \in 64..126 <=> i = Len(w)
  BY DEF ControlSequence
<1>2. Feed(Ground, 27) = In("escape") /\ Feed(In("escape"), 91) = In("csi")
  <2>1. Feed(Ground, 27) = In("escape")
    BY DEF Feed, FromGround, Ground
  <2>2. Feed(In("escape"), 91) = In("csi")
    BY DEF Feed, In, Introducers
  <2> QED BY <2>1, <2>2
<1>3. \A b : Feed(In("csi"), b) = IF b \in 64..126 THEN Ground ELSE In("csi")
  BY DEF Feed, In
<1>4. /\ Ground \in ScannerStates /\ In("escape") \in ScannerStates /\ In("csi") \in ScannerStates
      /\ ~Boundary(In("escape")) /\ ~Boundary(In("csi"))
  BY DEF Ground, In, ScannerStates, Boundary
<1>5. /\ g \in [0..Len(w) -> ScannerStates] /\ g[0] = Ground /\ g[Len(w)] = Ground
      /\ g[1] = In("escape") /\ \A i \in 2..(Len(w) - 1) : g[i] = In("csi")
  BY <1>1, <1>4
<1> HIDE DEF g
<1>6. ASSUME NEW i \in 1..Len(w) PROVE g[i] = Feed(g[i - 1], w[i])
  <2>1. CASE i = 1
    BY <1>1, <1>2, <1>5, <2>1
  <2>2. CASE i = 2
    <3>1. 2 - 1 = 1 /\ 2 \in 2..(Len(w) - 1)
      BY <1>1
    <3> QED BY <1>1, <1>2, <1>5, <2>2, <3>1
  <2>3. CASE i > 2
    <3>1. i - 1 \in 2..(Len(w) - 1) /\ i \in 3..Len(w)
      BY <1>1, <2>3
    <3>2. g[i - 1] = In("csi") /\ (w[i] \in 64..126 <=> i = Len(w))
      BY <1>1, <1>5, <3>1
    <3>3. i # Len(w) => i \in 2..(Len(w) - 1)
      BY <1>1, <3>1
    <3> QED BY <1>3, <1>5, <3>2, <3>3
  <2> QED BY <2>1, <2>2, <2>3
<1>7. ASSUME NEW i \in 1..(Len(w) - 1) PROVE ~Boundary(g[i])
  <2>1. i = 1 \/ i \in 2..(Len(w) - 1)
    BY <1>1
  <2> QED BY <1>4, <1>5, <2>1
<1> QED BY <1>5, <1>6, <1>7 DEF Closed, Along

\* The scanner after a byte of a string: an ESC may be the end of it.
LEMMA StringCloses ==
    ASSUME NEW w \in Seq(Bytes), StringSequence(w) PROVE \E g : Closed(g, w)
<1> DEFINE g == [i \in 0..Len(w) |-> IF i = 0 \/ i = Len(w) THEN Ground
                                     ELSE IF i = 1 THEN In("escape")
                                     ELSE IF i > 2 /\ w[i] = 27 THEN In("string-escape")
                                     ELSE In("string")]
<1>1. /\ Len(w) \in Nat /\ Len(w) > 2 /\ w[1] = 27 /\ w[2] \in Introducers
      /\ \/ w[Len(w)] = 7 /\ Payload(w, Len(w) - 1)
         \/ /\ Len(w) > 3 /\ w[Len(w) - 1] = 27 /\ w[Len(w)] = 92
            /\ Payload(w, Len(w) - 2)
  BY DEF StringSequence
<1>2. Feed(Ground, 27) = In("escape") /\ \A b \in Introducers : Feed(In("escape"), b) = In("string")
  BY DEF Feed, FromGround, Ground, In, Introducers
<1>3. \A b : Feed(In("string"), b) = IF b = 27 THEN In("string-escape")
                                     ELSE IF b = 7 THEN Ground ELSE In("string")
  BY DEF Feed, In
<1>4. \A b : Feed(In("string-escape"), b) = IF b = 92 THEN Ground ELSE In("string")
  BY DEF Feed, In
<1>5. /\ Ground \in ScannerStates /\ \A k \in {"escape", "string", "string-escape"} :
            In(k) \in ScannerStates /\ ~Boundary(In(k))
  BY DEF Ground, In, ScannerStates, Boundary
<1>6. /\ g \in [0..Len(w) -> ScannerStates] /\ g[0] = Ground /\ g[Len(w)] = Ground
      /\ g[1] = In("escape") /\ g[2] = In("string")
      /\ \A i \in 3..(Len(w) - 1) :
            g[i] = IF w[i] = 27 THEN In("string-escape") ELSE In("string")
  BY <1>1, <1>5
<1> HIDE DEF g
\* What may follow in the payload, whichever way the string ends.
<1>7. /\ \A i \in 3..(Len(w) - 1) : w[i] # 7
      /\ \A i \in 3..(Len(w) - 1) : w[i] = 27 => w[i + 1] # 27
      /\ \A i \in 3..(Len(w) - 1) : w[i] = 27 => (w[i + 1] = 92 <=> i + 1 = Len(w))
      /\ w[Len(w)] = 7 \/ (w[Len(w)] = 92 /\ w[Len(w) - 1] = 27 /\ Len(w) > 3)
      /\ w[Len(w)] = 7 /\ Len(w) > 3 => w[Len(w) - 1] # 27
  <2>1. CASE w[Len(w)] = 7 /\ Payload(w, Len(w) - 1)
    <3>1. \A i \in 3..(Len(w) - 1) : w[i] # 7 /\ (w[i] = 27 => w[i + 1] \notin {7, 27, 92})
      BY <2>1 DEF Payload
    <3>2. \A i \in 3..(Len(w) - 1) : i + 1 = Len(w) => w[i] # 27
      BY <2>1, <3>1
    <3>3. Len(w) > 3 => Len(w) - 1 \in 3..(Len(w) - 1) /\ (Len(w) - 1) + 1 = Len(w)
      BY <1>1
    <3> QED BY <2>1, <3>1, <3>2, <3>3
  <2>2. CASE /\ Len(w) > 3 /\ w[Len(w) - 1] = 27 /\ w[Len(w)] = 92
             /\ Payload(w, Len(w) - 2)
    <3>1. \A i \in 3..(Len(w) - 2) : w[i] # 7 /\ (w[i] = 27 => w[i + 1] \notin {7, 27, 92})
      BY <2>2 DEF Payload
    <3>2. \A i \in 3..(Len(w) - 1) :
              (i \in 3..(Len(w) - 2) /\ i + 1 # Len(w)) \/ (i = Len(w) - 1 /\ i + 1 = Len(w))
      BY <1>1
    <3> QED BY <2>2, <3>1, <3>2
  <2> QED BY <1>1, <2>1, <2>2
<1>8. ASSUME NEW i \in 1..Len(w) PROVE g[i] = Feed(g[i - 1], w[i])
  <2>1. CASE i = 1
    BY <1>1, <1>2, <1>6, <2>1
  <2>2. CASE i = 2
    <3>1. 2 - 1 = 1
      OBVIOUS
    <3> QED BY <1>1, <1>2, <1>6, <2>2, <3>1
  <2>3. CASE i = 3
    <3>1. g[i - 1] = In("string")
      BY <1>6, <2>3
    <3>2. CASE Len(w) = 3
      BY <1>3, <1>6, <1>7, <2>3, <3>1, <3>2
    <3>3. CASE Len(w) # 3
      <4>1. 3 \in 3..(Len(w) - 1)
        <5>1. \A n \in Nat : n > 2 /\ n # 3 => 3 \in 3..(n - 1)
          OBVIOUS
        <5> QED BY <1>1, <3>3, <5>1, Zenon
      <4> QED BY <1>3, <1>6, <1>7, <2>3, <3>1, <4>1
    <3> QED BY <3>2, <3>3
  <2>4. CASE i > 3
    <3>1. i - 1 \in 3..(Len(w) - 1) /\ (i - 1) + 1 = i
      BY <1>1, <2>4
    <3>2. CASE i = Len(w)
      <4>1. g[i] = Ground
        BY <1>6, <3>2
      <4>2. CASE w[i - 1] = 27
        <5>1. w[i] = 92
          <6>1. w[Len(w) - 1] = 27
            BY <3>2, <4>2
          <6>2. Len(w) > 3
            BY <2>4, <3>2
          <6> QED BY <1>7, <3>2, <6>1, <6>2, Zenon
        <5>2. g[i - 1] = In("string-escape")
          BY <1>6, <3>1, <4>2
        <5> QED BY <1>4, <4>1, <5>1, <5>2
      <4>3. CASE w[i - 1] # 27
        <5>1. w[i] = 7 /\ g[i - 1] = In("string")
          BY <1>6, <1>7, <3>1, <3>2, <4>3
        <5> QED BY <1>3, <4>1, <5>1
      <4> QED BY <4>2, <4>3
    <3>3. CASE i # Len(w)
      <4>1. i \in 3..(Len(w) - 1)
        BY <1>1, <2>4, <3>3
      <4>2. g[i] = (IF w[i] = 27 THEN In("string-escape") ELSE In("string")) /\ w[i] # 7
        BY <1>6, <1>7, <4>1
      <4>3. CASE w[i - 1] = 27
        <5>1. w[i] # 92 /\ w[i] # 27 /\ g[i - 1] = In("string-escape")
          BY <1>6, <1>7, <3>1, <3>3, <4>3
        <5> QED BY <1>4, <4>2, <5>1
      <4>4. CASE w[i - 1] # 27
        <5>1. g[i - 1] = In("string")
          BY <1>6, <3>1, <4>4
        <5> QED BY <1>3, <4>2, <5>1
      <4> QED BY <4>3, <4>4
    <3> QED BY <3>2, <3>3
  <2> QED BY <2>1, <2>2, <2>3, <2>4
<1>9. ASSUME NEW i \in 1..(Len(w) - 1) PROVE ~Boundary(g[i])
  <2>1. i = 1 \/ i = 2 \/ i \in 3..(Len(w) - 1)
    BY <1>1
  <2> QED BY <1>5, <1>6, <2>1
<1> QED BY <1>6, <1>8, <1>9 DEF Closed, Along

\* The scanner sees a boundary at the end of a framed sequence and not before.
LEMMA FramedCloses ==
    ASSUME NEW w \in Seq(Bytes), w # <<>>, Framed(w) PROVE \E g : Closed(g, w)
BY SingleByteCloses, CodePointCloses, ShortEscapeCloses, ControlCloses,
   StringCloses DEF Framed

-----------------------------------------------------------------------------
(* The scanner goes through the stream as it would through all of it.      *)
ScannedInv ==
    /\ stream \in Seq(Bytes) /\ whole \subseteq 0..Len(stream) /\ Len(stream) \in whole
    /\ read \in 0..Len(stream)
    /\ \E g : /\ Along(g, stream) /\ scanner = g[read]
              /\ \A i \in 0..Len(stream) : Boundary(g[i]) <=> i \in whole

CleanInv ==
    /\ chunks \in Seq(ChunkRecords)
    /\ \A i \in DOMAIN chunks : chunks[i].startsSafe => chunks[i].at \in whole
    /\ ReplayStartsClean

\* A recursion over the bytes has one result.
Follows(f, n) == f = [i \in 0..n |-> IF i = 0 THEN scanner ELSE Feed(f[i - 1], stream[read + i])]

LEMMA OneScan ==
    ASSUME NEW n \in Nat, NEW f, NEW h, Follows(f, n), Follows(h, n)
    PROVE  f = h
<1> DEFINE Bad == {i \in 0..n : f[i] # h[i]}
<1>1. \A i \in 0..n : i # 0 => i - 1 \in 0..n
  OBVIOUS
<1>2. /\ f[0] = scanner /\ h[0] = scanner
      /\ \A i \in 0..n : i # 0 => f[i] = Feed(f[i - 1], stream[read + i]) /\ h[i] = Feed(h[i - 1], stream[read + i])
  BY DEF Follows
<1>3. Bad = {}
  <2> SUFFICES ASSUME Bad # {} PROVE FALSE
    OBVIOUS
  <2>1. Bad \in SUBSET Nat
    OBVIOUS
  <2>2. PICK m \in Bad : \A k \in Bad : m <= k
    BY <2>1, LeastNumber
  <2>3. m \in 0..n /\ f[m] # h[m] /\ m # 0
    BY <1>2
  <2>4. m - 1 \in 0..n /\ m - 1 \notin Bad
    BY <1>1, <2>2, <2>3
  <2>5. f[m - 1] = h[m - 1]
    BY <2>4
  <2> QED BY <1>2, <2>3, <2>5
<1>4. \A i \in 0..n : f[i] = h[i]
  BY <1>3
<1> QED BY <1>4 DEF Follows

LEMMA ScanFollows ==
    ASSUME NEW g, Along(g, stream), scanner = g[read], read \in Nat, NEW n \in Nat,
           stream \in Seq(Bytes), read + n <= Len(stream)
    PROVE  \A i \in 0..n : Scan(n)[i] = g[read + i]
<1> DEFINE h == [i \in 0..n |-> g[read + i]]
<1>1. Follows(h, n)
  <2> SUFFICES ASSUME NEW i \in 0..n
               PROVE  g[read + i] = IF i = 0 THEN scanner ELSE Feed(h[i - 1], stream[read + i])
    BY DEF Follows
  <2>1. CASE i = 0
    BY <2>1
  <2>2. CASE i # 0
    <3>1. read + i \in 1..Len(stream) /\ i - 1 \in 0..n /\ read + (i - 1) = (read + i) - 1
      BY <2>2
    <3>2. g[read + i] = Feed(g[(read + i) - 1], stream[read + i])
      BY <3>1 DEF Along
    <3> QED BY <2>2, <3>1, <3>2
  <2> QED BY <2>1, <2>2
<1> DEFINE f == Scan(n)
<1> HIDE DEF h
<1>2. Follows(f, n)
  BY <1>1 DEF Scan, Follows
<1> HIDE DEF f
<1>3. f = h
  BY <1>1, <1>2, OneScan
<1> QED BY <1>3 DEF h, f

\* Feeding goes on from what was written before.
Joined(k, g, v, h, w) ==
    /\ Along(k, v \o w)
    /\ \A i \in 0..Len(v) : k[i] = g[i]
    /\ \A i \in (Len(v) + 1)..(Len(v) + Len(w)) : k[i] = h[i - Len(v)]

LEMMA AlongMore ==
    ASSUME NEW v \in Seq(Bytes), NEW w \in Seq(Bytes), NEW g, NEW h,
           Along(g, v), Closed(h, w), g[Len(v)] = Ground
    PROVE  \E k : Joined(k, g, v, h, w)
<1> DEFINE k == [i \in 0..(Len(v) + Len(w)) |->
                    IF i <= Len(v) THEN g[i] ELSE h[i - Len(v)]]
           x == v \o w
<1>1. /\ x \in Seq(Bytes) /\ Len(x) = Len(v) + Len(w) /\ Len(v) \in Nat /\ Len(w) \in Nat
      /\ \A i \in 1..Len(v) : x[i] = v[i]
      /\ \A i \in (Len(v) + 1)..(Len(v) + Len(w)) : x[i] = w[i - Len(v)]
  BY ConcatProperties, LenProperties
<1> HIDE DEF x
<1>2. /\ \A i \in 0..Len(v) : k[i] = g[i] /\ g[i] \in ScannerStates
      /\ \A i \in (Len(v) + 1)..(Len(v) + Len(w)) :
            k[i] = h[i - Len(v)] /\ h[i - Len(v)] \in ScannerStates
  <2>1. ASSUME NEW i \in 0..Len(v) PROVE k[i] = g[i] /\ g[i] \in ScannerStates
    <3>1. i \in 0..(Len(v) + Len(w)) /\ i <= Len(v)
      BY <1>1
    <3> QED BY <3>1 DEF Along
  <2>2. ASSUME NEW i \in (Len(v) + 1)..(Len(v) + Len(w))
        PROVE  k[i] = h[i - Len(v)] /\ h[i - Len(v)] \in ScannerStates
    <3>1. i \in 0..(Len(v) + Len(w)) /\ ~(i <= Len(v)) /\ i - Len(v) \in 0..Len(w)
      BY <1>1
    <3> QED BY <3>1 DEF Along, Closed
  <2> QED BY <2>1, <2>2
<1>3. k \in [0..Len(x) -> ScannerStates]
  <2>1. \A i \in 0..Len(x) : i \in 0..Len(v) \/ i \in (Len(v) + 1)..(Len(v) + Len(w))
    BY <1>1
  <2>2. \A i \in 0..Len(x) : k[i] \in ScannerStates
    BY <1>2, <2>1
  <2> QED BY <1>1, <2>2
<1> HIDE DEF k
<1>4. ASSUME NEW i \in 1..Len(x) PROVE k[i] = Feed(k[i - 1], x[i])
  <2>1. CASE i \in 1..Len(v)
    <3>1. i \in 0..Len(v) /\ i - 1 \in 0..Len(v)
      BY <1>1, <2>1
    <3>2. g[i] = Feed(g[i - 1], v[i])
      BY <2>1 DEF Along
    <3> QED BY <1>1, <1>2, <2>1, <3>1, <3>2
  <2>2. CASE i = Len(v) + 1
    <3>1. /\ i \in (Len(v) + 1)..(Len(v) + Len(w)) /\ i - Len(v) = 1 /\ i - 1 = Len(v)
          /\ Len(v) \in 0..Len(v) /\ 1 \in 1..Len(w) /\ 1 - 1 = 0
      BY <1>1, <2>2
    <3>2. h[1] = Feed(h[0], w[1]) /\ h[0] = Ground
      BY <3>1 DEF Along, Closed
    <3>3. k[i] = h[1] /\ k[i - 1] = Ground /\ x[i] = w[1]
      BY <1>1, <1>2, <3>1
    <3> QED BY <3>2, <3>3
  <2>3. CASE i > Len(v) + 1
    <3>1. /\ i \in (Len(v) + 1)..(Len(v) + Len(w)) /\ i - 1 \in (Len(v) + 1)..(Len(v) + Len(w))
          /\ i - Len(v) \in 1..Len(w) /\ (i - 1) - Len(v) = (i - Len(v)) - 1
      BY <1>1, <2>3
    <3>2. h[i - Len(v)] = Feed(h[(i - Len(v)) - 1], w[i - Len(v)])
      BY <3>1 DEF Along, Closed
    <3>3. k[i] = h[i - Len(v)] /\ k[i - 1] = h[(i - Len(v)) - 1] /\ x[i] = w[i - Len(v)]
      BY <1>1, <1>2, <3>1
    <3> QED BY <3>2, <3>3
  <2> QED BY <1>1, <2>1, <2>2, <2>3
<1>5. Along(k, x)
  BY <1>3, <1>4 DEF Along
<1> QED BY <1>2, <1>5 DEF x, Joined

LEMMA WriteScanned ==
    ASSUME ScannedInv, NEW w \in Written, Framed(w), Write(w) PROVE ScannedInv'
<1>1. w \in Seq(Bytes) /\ w # <<>>
  BY WrittenAssumption
<1>2. /\ stream' = stream \o w /\ whole' = whole \cup {Len(stream) + Len(w)}
      /\ UNCHANGED <<read, scanner>>
  BY DEF Write
<1>3. PICK g : /\ Along(g, stream) /\ scanner = g[read]
               /\ \A i \in 0..Len(stream) : Boundary(g[i]) <=> i \in whole
  BY DEF ScannedInv
<1>4. PICK h : Closed(h, w)
  BY <1>1, FramedCloses
<1>5. /\ stream \in Seq(Bytes) /\ whole \subseteq 0..Len(stream) /\ Len(stream) \in whole
      /\ read \in 0..Len(stream)
  BY DEF ScannedInv
<1>6. PICK n \in Nat, m \in Nat : n = Len(stream) /\ m = Len(w) /\ m > 0
  BY <1>1, <1>5, LenProperties, EmptySeq
<1>7. /\ stream' \in Seq(Bytes) /\ Len(stream') = n + m
  BY <1>1, <1>2, <1>5, <1>6, ConcatProperties
<1>8. g[Len(stream)] = Ground
  <2>1. n \in 0..n
    BY <1>6
  <2>2. Boundary(g[n]) /\ g[n] \in ScannerStates
    BY <1>3, <1>5, <1>6, <2>1 DEF Along
  <2> QED BY <1>6, <2>2 DEF ScannerStates, Boundary
<1>9. PICK k : /\ Along(k, stream')
               /\ \A i \in 0..n : k[i] = g[i]
               /\ \A i \in (n + 1)..(n + m) : k[i] = h[i - n]
  <2>1. PICK k : Joined(k, g, stream, h, w)
    <3>1. Along(g, stream) /\ stream \in Seq(Bytes)
      BY <1>3, <1>5
    <3>2. w \in Seq(Bytes) /\ Closed(h, w)
      BY <1>1, <1>4
    <3> QED BY <1>8, <3>1, <3>2, AlongMore
  <2> QED BY <1>2, <1>6, <2>1 DEF Joined
<1>10. \A i \in 1..m : Boundary(h[i]) <=> i = m
  <2> SUFFICES ASSUME NEW i \in 1..m PROVE Boundary(h[i]) <=> i = m
    OBVIOUS
  <2>1. CASE i = m
    BY <1>4, <1>6, <2>1 DEF Closed, Boundary, Ground
  <2>2. CASE i # m
    <3>1. i \in 1..(m - 1)
      BY <2>2
    <3> QED BY <1>4, <1>6, <2>2, <3>1 DEF Closed
  <2> QED BY <2>1, <2>2
<1>11. ASSUME NEW i \in 0..(n + m) PROVE Boundary(k[i]) <=> i \in whole'
  <2>1. CASE i \in 0..n
    <3>1. i # n + m
      BY <1>6, <2>1
    <3> QED BY <1>2, <1>3, <1>6, <1>9, <2>1, <3>1
  <2>2. CASE i \in (n + 1)..(n + m)
    <3>1. i \notin 0..n /\ i - n \in 1..m /\ (i = n + m <=> i - n = m)
      BY <1>6, <2>2
    <3>2. i \notin whole
      BY <1>5, <1>6, <3>1
    <3> QED BY <1>2, <1>6, <1>9, <1>10, <2>2, <3>1, <3>2
  <2>3. i \in 0..n \/ i \in (n + 1)..(n + m)
    BY <1>6
  <2> QED BY <2>1, <2>2, <2>3
<1>12. /\ whole' \subseteq 0..(n + m) /\ n + m \in whole' /\ read' \in 0..(n + m)
       /\ scanner' = k[read']
  <2>1. \A i \in 0..n : i \in 0..(n + m)
    BY <1>6
  <2>2. read \in 0..n /\ whole \subseteq 0..n /\ n + m \in 0..(n + m)
    BY <1>5, <1>6
  <2> QED BY <1>2, <1>3, <1>6, <1>9, <2>1, <2>2
<1>13. \E x : /\ Along(x, stream') /\ scanner' = x[read']
              /\ \A i \in 0..Len(stream') : Boundary(x[i]) <=> i \in whole'
  BY <1>7, <1>9, <1>11, <1>12
<1> QED BY <1>7, <1>12, <1>13 DEF ScannedInv, Along

\* What is appended begins and may be cut between two sequences.
LEMMA ChunkIsClean ==
    ASSUME ScannedInv, NEW n \in Nat, n > 0, read + n <= Len(stream)
    PROVE  LET c == ChunkOf(n) IN
           /\ c.startsSafe <=> read \in whole
           /\ c.firstSafe # read + n => c.firstSafe \in whole
           /\ \A i \in read..(read + n - 1) : i < c.firstSafe => i \notin whole
           /\ Boundary(Scan(n)[n]) <=> read + n \in whole
<1>1. PICK g : /\ Along(g, stream) /\ scanner = g[read]
               /\ \A i \in 0..Len(stream) : Boundary(g[i]) <=> i \in whole
  BY DEF ScannedInv
<1>2. stream \in Seq(Bytes) /\ read \in Nat /\ Len(stream) \in Nat
  BY LenProperties DEF ScannedInv
<1>3. \A i \in 0..n : Scan(n)[i] = g[read + i] /\ read + i \in 0..Len(stream)
  <2>1. \A i \in 0..n : Scan(n)[i] = g[read + i]
    BY <1>1, <1>2, ScanFollows
  <2> QED BY <1>2, <2>1
<1>4. \A i \in 0..n : Boundary(Scan(n)[i]) <=> read + i \in whole
  BY <1>1, <1>3
<1> DEFINE safe == {i \in 0..(n - 1) : Boundary(Scan(n)[i])}
           first == IF safe = {} THEN n ELSE Min(safe)
<1>5. ChunkOf(n) = [at |-> read, startsSafe |-> Boundary(scanner),
                    firstSafe |-> read + first]
  BY DEF ChunkOf
<1>6. /\ first \in 0..n /\ (first # n => read + first \in whole)
      /\ \A i \in 0..(n - 1) : i < first => read + i \notin whole
  <2>1. CASE safe = {}
    <3>1. \A i \in 0..(n - 1) : read + i \notin whole
      BY <1>4, <2>1
    <3> QED BY <2>1, <3>1
  <2>2. CASE safe # {}
    <3>1. safe \in SUBSET Nat
      OBVIOUS
    <3>2. Min(safe) \in safe /\ \A k \in safe : Min(safe) <= k
      BY <2>2, <3>1, LeastNumber
    <3>3. first = Min(safe)
      BY <2>2
    <3> HIDE DEF first
    <3>4. first \in 0..(n - 1) /\ Boundary(Scan(n)[first])
      BY <3>2, <3>3
    <3>5. ASSUME NEW i \in 0..(n - 1), i < first PROVE read + i \notin whole
      <4>1. i \notin safe
        BY <3>2, <3>3, <3>4, <3>5
      <4> QED BY <1>4, <4>1
    <3> QED BY <1>4, <3>4, <3>5
  <2> QED BY <2>1, <2>2
<1> HIDE DEF first
<1>7. Boundary(scanner) <=> read \in whole
  <2>1. read \in 0..Len(stream)
    BY <1>2
  <2> QED BY <1>1, <2>1
<1>8. ASSUME NEW i \in read..(read + n - 1), i < read + first PROVE i \notin whole
  <2>1. i - read \in 0..(n - 1) /\ i - read < first /\ read + (i - read) = i
    BY <1>2, <1>6, <1>8
  <2> QED BY <1>6, <2>1
<1>9. read + first # read + n => read + first \in whole
  BY <1>6
<1> QED BY <1>4, <1>5, <1>7, <1>8, <1>9

LEMMA ReceiveScanned ==
    ASSUME ScannedInv, NEW n \in Nat, n > 0, Receive(n) PROVE ScannedInv'
<1>1. PICK g : /\ Along(g, stream) /\ scanner = g[read]
               /\ \A i \in 0..Len(stream) : Boundary(g[i]) <=> i \in whole
  BY DEF ScannedInv
<1>2. stream \in Seq(Bytes) /\ read \in Nat /\ Len(stream) \in Nat
  BY LenProperties DEF ScannedInv
<1>3. /\ read + n <= Len(stream) /\ read' = read + n /\ scanner' = Scan(n)[n]
      /\ UNCHANGED <<stream, whole>>
  BY DEF Receive
<1>4. scanner' = g[read']
  <2>1. \A i \in 0..n : Scan(n)[i] = g[read + i]
    BY <1>1, <1>2, <1>3, ScanFollows
  <2> QED BY <1>3, <2>1
<1>5. read' \in 0..Len(stream')
  BY <1>2, <1>3
<1>6. \E x : /\ Along(x, stream') /\ scanner' = x[read']
             /\ \A i \in 0..Len(stream') : Boundary(x[i]) <=> i \in whole'
  BY <1>1, <1>3, <1>4
<1> QED BY <1>3, <1>5, <1>6 DEF ScannedInv, Along

LEMMA ReceiveClean ==
    ASSUME ScannedInv, CleanInv, NEW n \in Nat, n > 0, Receive(n), read \in Nat, bytes \in Nat
    PROVE  CleanInv'
<1> DEFINE c == ChunkOf(n)
           cs == Append(chunks, c)
           k == Dropped(cs, bytes + n)
           kept == SubSeq(cs, k + 1, Len(cs))
           end == read + n
<1>1. /\ read + n <= Len(stream) /\ read' = end /\ UNCHANGED <<stream, whole>>
      /\ Evict(cs, bytes + n, end)
  BY DEF Receive
<1>2. /\ c \in ChunkRecords /\ c.at = read
      /\ c.startsSafe <=> read \in whole
      /\ c.firstSafe # end => c.firstSafe \in whole
      /\ \A i \in read..(end - 1) : i < c.firstSafe => i \notin whole
  BY <1>1, ChunkPlace, ChunkIsClean
<1> HIDE DEF c
<1>3. /\ cs \in Seq(ChunkRecords) /\ cs # <<>> /\ Len(cs) = Len(chunks) + 1
      /\ \A i \in 1..Len(chunks) : cs[i] = chunks[i]
      /\ cs[Len(chunks) + 1] = c /\ Len(chunks) \in Nat /\ DOMAIN chunks = 1..Len(chunks)
  BY <1>2, AppendProperties, LenProperties, EmptySeq DEF CleanInv
<1> HIDE DEF cs
<1>12. Len(cs) \in Nat /\ Len(cs) > 0 /\ bytes + n \in Nat
  BY <1>3
<1>4. /\ k \in 0..(Len(cs) - 1)
      /\ k = Len(cs) - 1 \/ cs[k + 1].startsSafe
  <2>1. cs \in Seq(ChunkRecords) /\ cs # <<>>
    BY <1>3
  <2> QED BY <1>12, <2>1, WhereEvictStops
<1> HIDE DEF k
<1>5. /\ kept \in Seq(ChunkRecords) /\ Len(kept) = Len(cs) - k /\ DOMAIN kept = 1..Len(kept)
      /\ \A i \in 1..Len(kept) : kept[i] = cs[k + i] /\ k + i \in 1..Len(cs)
  <2>1. cs \in Seq(ChunkRecords) /\ k \in 0..(Len(cs) - 1)
    BY <1>3, <1>4
  <2>2. /\ kept \in Seq(ChunkRecords) /\ Len(kept) = Len(cs) - k
        /\ \A i \in 1..Len(kept) : kept[i] = cs[k + i]
    BY <2>1, KeptFrom
  <2> HIDE DEF kept
  <2>3. \A i \in 1..Len(kept) : k + i \in 1..Len(cs)
    BY <1>12, <2>1, <2>2
  <2> QED BY <2>2, <2>3, LenProperties
<1> HIDE DEF kept
<1>13. /\ Len(kept) \in Nat /\ Len(kept) > 0 /\ k \in Nat
       /\ Len(kept) = Len(cs) - k /\ Len(cs) = Len(chunks) + 1 /\ Len(chunks) \in Nat
  <2>1. k \in 0..(Len(cs) - 1) /\ Len(kept) = Len(cs) - k
    BY <1>4, <1>5
  <2> QED BY <1>3, <1>12, <2>1
<1>6. \A i \in 1..Len(cs) : cs[i].startsSafe => cs[i].at \in whole
  <2>1. \A i \in 1..Len(cs) : i \in 1..Len(chunks) \/ i = Len(chunks) + 1
    BY <1>3
  <2> QED BY <1>2, <1>3, <2>1 DEF CleanInv
<1>7. \A i \in DOMAIN kept : kept[i].startsSafe => kept[i].at \in whole
  BY <1>5, <1>6
<1>8. 1 \in 1..Len(kept) /\ Len(kept) \in Nat
  BY <1>13
<1>9. CASE chunks' = kept /\ (Len(kept) > 1 \/ kept[1].startsSafe)
  <2>1. kept[1].startsSafe
    <3>1. Len(kept) > 1 => k # Len(cs) - 1
      BY <1>12, <1>13
    <3> QED BY <1>4, <1>5, <1>8, <1>9, <3>1
  <2> QED BY <1>1, <1>5, <1>7, <1>8, <1>9, <2>1 DEF CleanInv, ReplayStartsClean
<1>10. CASE ~(Len(kept) > 1 \/ kept[1].startsSafe)
  <2>1. Len(kept) = 1 /\ kept[1] = c
    <3>1. Len(kept) = 1
      BY <1>10, <1>13
    <3>2. k + 1 = Len(chunks) + 1
      <4>1. \A a, b \in Nat : 1 = (b + 1) - a => a + 1 = b + 1
        OBVIOUS
      <4>2. 1 = (Len(chunks) + 1) - k
        BY <1>13, <3>1, Zenon
      <4> QED BY <1>13, <4>1, <4>2, Zenon
    <3>3. kept[1] = cs[k + 1]
      BY <1>5, <1>8
    <3> QED BY <1>3, <3>1, <3>2, <3>3
  <2>2. read \notin whole
    BY <1>2, <1>10, <2>1
  <2>3. CASE c.firstSafe \in {end, c.at} /\ chunks' = kept
    <3>1. c.firstSafe = end
      BY <1>1, <1>2, <2>2, <2>3
    <3>2. \A i \in read..(end - 1) : i \notin whole
      BY <1>2, <3>1
    <3>3. whole' \cap (chunks'[1].at)..(read' - 1) = {}
      BY <1>1, <1>2, <2>1, <2>3, <3>2
    <3> QED BY <1>1, <1>5, <1>7, <2>1, <2>3, <3>3 DEF CleanInv, ReplayStartsClean
  <2>4. CASE /\ c.firstSafe # end
             /\ chunks' = <<[at |-> c.firstSafe, startsSafe |-> TRUE,
                             firstSafe |-> c.firstSafe]>>
    <3>1. c.firstSafe \in whole /\ c.firstSafe \in Nat
      BY <1>2, <2>4 DEF ChunkRecords
    <3>2. /\ chunks' \in Seq(ChunkRecords) /\ Len(chunks') = 1 /\ DOMAIN chunks' = {1}
          /\ chunks'[1].at = c.firstSafe
      BY <2>4, <3>1 DEF ChunkRecords
    <3> QED BY <1>1, <3>1, <3>2 DEF CleanInv, ReplayStartsClean
  <2> QED BY <1>1, <1>10, <2>1, <2>3, <2>4 DEF Evict, k, kept
<1>11. Len(kept) > 1 \/ kept[1].startsSafe => chunks' = kept
  BY <1>1 DEF Evict, k, kept
<1> QED BY <1>9, <1>10, <1>11

LEMMA CleanStep ==
    ASSUME \A w \in Written : Framed(w), ReplayInv, ScannedInv, CleanInv,
           [ReplayNext]_replayVars
    PROVE  ScannedInv' /\ CleanInv'
<1>0. MaxBytes \in Nat /\ read \in Nat /\ bytes \in Nat
  BY BufferBoundsAssumption DEF ReplayInv
<1>1. CASE UNCHANGED replayVars
  BY <1>1 DEF replayVars, ScannedInv, Along, CleanInv, ReplayStartsClean
<1>2. ASSUME NEW w \in Written, Write(w) PROVE ScannedInv' /\ CleanInv'
  <2>1. UNCHANGED <<read, chunks>> /\ whole' = whole \cup {Len(stream) + Len(w)}
    BY <1>2 DEF Write
  <2>2. Len(stream) \in Nat /\ Len(w) \in Nat /\ read <= Len(stream)
    BY WrittenAssumption, LenProperties DEF ScannedInv
  <2>3. chunks # <<>> => chunks[1].at \in Nat
    <3>1. chunks # <<>> => chunks[1] \in ChunkRecords
      BY EmptySeq, ElementOfSeq, LenProperties DEF CleanInv
    <3> QED BY <3>1 DEF ChunkRecords
  <2>4. Len(stream) + Len(w) \notin (chunks[1].at)..(read - 1)
    BY <1>0, <2>2
  <2>5. ReplayStartsClean'
    BY <2>1, <2>4 DEF CleanInv, ReplayStartsClean
  <2>6. CleanInv'
    BY <2>1, <2>5 DEF CleanInv
  <2> QED BY <1>2, <2>6, WriteScanned
<1>3. CASE Clear
  <2>1. ScannedInv'
    BY <1>3 DEF Clear, ScannedInv, Along
  <2> QED BY <1>3, <2>1 DEF Clear, CleanInv, ReplayStartsClean
<1>4. ASSUME NEW n \in 1..MaxBytes, Receive(n) PROVE ScannedInv' /\ CleanInv'
  <2>1. n \in Nat /\ n > 0
    BY <1>0
  <2> QED BY <1>0, <1>4, <2>1, ReceiveScanned, ReceiveClean
<1> QED BY <1>1, <1>2, <1>3, <1>4 DEF ReplayNext

LEMMA CleanStart == ReplayInit => ScannedInv /\ CleanInv
<1> SUFFICES ASSUME ReplayInit PROVE ScannedInv /\ CleanInv
  OBVIOUS
<1>1. /\ stream = <<>> /\ Len(<<>>) = 0 /\ <<>> \in Seq(Bytes) /\ whole = {0}
      /\ read = 0 /\ scanner = Ground /\ chunks = <<>> /\ <<>> \in Seq(ChunkRecords)
      /\ \A i \in 0..0 : i = 0
  BY DEF ReplayInit
<1> DEFINE g == [i \in 0..0 |-> Ground]
<1>2. Along(g, stream) /\ g[0] = Ground
  BY <1>1 DEF Along, ScannerStates
<1>3. Boundary(Ground)
  BY DEF Boundary, Ground
<1> HIDE DEF g
<1>4. ScannedInv
  BY <1>1, <1>2, <1>3 DEF ScannedInv
<1> QED BY <1>1, <1>4 DEF CleanInv, ReplayStartsClean

(* Where the far end writes sequences as the scanner means to read them,   *)
(* however long they are and wherever reads cut them, a replay begins      *)
(* between two of them, or with all that is left of a single one.          *)
THEOREM ReplaysStartClean ==
    ASSUME \A w \in Written : Framed(w)
    PROVE  ReplaySpec => []ReplayStartsClean
<1>1. ReplayInv /\ ScannedInv /\ CleanInv /\ [ReplayNext]_replayVars
      => ReplayInv' /\ ScannedInv' /\ CleanInv'
  BY CleanStep, ReplayStepInv
<1>2. CleanInv => ReplayStartsClean
  BY DEF CleanInv
<1> QED BY <1>1, <1>2, CleanStart, ReplayInitInv, PTL DEF ReplaySpec

-----------------------------------------------------------------------------
(* The transcript.  Numbers up to a bound have a greatest one among them.  *)
LEMMA GreatestNumber ==
    ASSUME NEW b \in Nat, NEW S \in SUBSET (0..b), S # {}
    PROVE  Max(S) \in S /\ \A k \in S : k <= Max(S)
<1> DEFINE U == {u \in Nat : \A k \in S : k <= u}
<1>1. U \in SUBSET Nat /\ b \in U
  OBVIOUS
<1>2. PICK m \in U : \A u \in U : m <= u
  BY <1>1, LeastNumber
<1>3. m \in Nat /\ \A k \in S : k <= m
  BY <1>2
<1>4. m \in S
  <2> SUFFICES ASSUME m \notin S PROVE FALSE
    OBVIOUS
  <2>1. PICK x \in S : TRUE
    OBVIOUS
  <2>2. x \in Nat /\ x <= m /\ x # m
    BY <1>3, <2>1
  <2>3. m - 1 \in Nat
    BY <1>3, <2>2
  <2>4. \A k \in S : k \in Nat /\ k <= m /\ k # m
    BY <1>3
  <2>5. \A k \in S : k <= m - 1
    BY <1>3, <2>4
  <2>6. m <= m - 1
    BY <1>2, <2>3, <2>5
  <2> QED BY <1>3, <2>6
<1>5. \E x \in S : \A y \in S : x >= y
  BY <1>3, <1>4
<1> QED BY <1>5 DEF Max

LEMMA GreatestIs ==
    ASSUME NEW S \in SUBSET Nat, NEW m \in S, \A k \in S : k <= m
    PROVE  Max(S) = m
<1>1. \A x \in S : (\A y \in S : x >= y) => x = m
  OBVIOUS
<1>2. \E x \in S : \A y \in S : x >= y
  OBVIOUS
<1> QED BY <1>1, <1>2 DEF Max

Lines == {Resize, Header, Note} \cup [is : Directions, from : Nat, to : Nat]

(* The first i lines of T bring direction d to m. *)
Reaches(T, d, i, m) ==
    /\ m = 0 \/ \E j \in 1..i : T[j].is = d /\ T[j].to = m
    /\ \A j \in 1..i : T[j].is = d => T[j].to <= m

(* In each direction the lines follow one another, between places of E.    *)
Follow(T, E) ==
    \A i \in 1..Len(T) : \A d \in Directions :
        T[i].is = d =>
            Reaches(T, d, i - 1, T[i].from) /\ T[i].from < T[i].to /\ T[i].to \in E[d]

Begun(T, E) ==
    /\ T \in Seq(Lines) /\ T # <<>> /\ T[1] = Header
    /\ Follow(T, E) /\ \A i \in 1..Len(T) : T[i] = Note => i = Len(T)

Unnoted(T) == \A i \in 1..Len(T) : T[i] # Note

Complete(d) == Max({e \in ends[d] : e <= heard[d]})

RecorderTypes ==
    /\ ends \in [Directions -> Texts] /\ heard \in [Directions -> 0..MaxSaid]
    /\ written \in Nat /\ stopped \in BOOLEAN /\ flushTimer \in BOOLEAN
    /\ pending \in Seq(Lines) /\ queue \in Seq(Lines) /\ file \in Seq(Lines)

RecorderInv ==
    /\ RecorderTypes /\ Begun(Transcript, ends)
    /\ ~stopped => /\ Unnoted(Transcript) /\ written < MaxSize
                   /\ \A d \in Directions :
                        Reaches(Transcript, d, Len(Transcript), Complete(d))
    /\ stopped => pending = <<>>
    /\ pending # <<>> => flushTimer
    /\ written >= MaxSize => ~Unnoted(Transcript)

\* What a line that is added changes of what is reached: its own direction.
LEMMA AppendReaches ==
    ASSUME NEW T \in Seq(Lines), NEW l \in Lines, NEW d \in Directions, NEW m \in Nat,
           Reaches(T, d, Len(T), m), l.is = d => m <= l.to
    PROVE  Reaches(Append(T, l), d, Len(Append(T, l)), IF l.is = d THEN l.to ELSE m)
<1> DEFINE v == Append(T, l)
<1>1. /\ Len(v) = Len(T) + 1 /\ Len(T) \in Nat /\ v[Len(T) + 1] = l
      /\ \A j \in 1..Len(T) : v[j] = T[j]
  BY AppendProperties, LenProperties
<1> HIDE DEF v
<1>2. /\ \A j \in 1..Len(v) : j \in 1..Len(T) \/ j = Len(T) + 1
      /\ \A j \in 1..Len(T) : j \in 1..Len(v)
      /\ Len(T) + 1 \in 1..Len(v)
  BY <1>1
<1>3. \A j \in 1..Len(T) : T[j].is = d => T[j].to \in Nat
  <2>1. \A x \in Lines : x.is = d => x.to \in Nat
    BY DEF Lines, Resize, Header, Note, Directions
  <2> QED BY <2>1, ElementOfSeq
<1>4. l.is = d => l.to \in Nat
  BY DEF Lines, Resize, Header, Note, Directions
<1>5. CASE l.is = d
  <2>1. \A j \in 1..Len(T) : T[j].is = d => T[j].to <= l.to
    BY <1>3, <1>4, <1>5 DEF Reaches
  <2> QED BY <1>1, <1>2, <1>4, <1>5, <2>1 DEF Reaches, v
<1>6. CASE l.is # d
  BY <1>1, <1>2, <1>6 DEF Reaches, v
<1> QED BY <1>5, <1>6

LEMMA PrefixReaches ==
    ASSUME NEW T \in Seq(Lines), NEW l \in Lines, NEW d, NEW m, NEW i \in 0..Len(T),
           Reaches(T, d, i, m)
    PROVE  Reaches(Append(T, l), d, i, m)
<1>1. \A j \in 1..i : Append(T, l)[j] = T[j]
  <2>1. \A j \in 1..i : j \in 1..Len(T)
    BY LenProperties
  <2> QED BY <2>1, AppendProperties
<1> QED BY <1>1 DEF Reaches

LEMMA AppendBegun ==
    ASSUME NEW T, NEW E, NEW l \in Lines, Begun(T, E), Unnoted(T),
           \A d \in Directions : l.is = d =>
               Reaches(T, d, Len(T), l.from) /\ l.from < l.to /\ l.to \in E[d]
    PROVE  /\ Begun(Append(T, l), E)
           /\ l # Note => Unnoted(Append(T, l))
           /\ l = Note => ~Unnoted(Append(T, l))
<1> DEFINE v == Append(T, l)
<1>1. T \in Seq(Lines) /\ T # <<>> /\ T[1] = Header /\ Follow(T, E)
  BY DEF Begun
<1>2. /\ v \in Seq(Lines) /\ v # <<>> /\ Len(v) = Len(T) + 1 /\ v[Len(T) + 1] = l
      /\ Len(T) \in Nat /\ Len(T) > 0
      /\ \A j \in 1..Len(T) : v[j] = T[j]
  BY <1>1, AppendProperties, LenProperties, EmptySeq
<1>3. /\ \A j \in 1..Len(v) : j \in 1..Len(T) \/ j = Len(T) + 1
      /\ \A j \in 1..Len(T) : j - 1 \in 0..Len(T)
      /\ Len(T) \in 0..Len(T) /\ (Len(T) + 1) - 1 = Len(T) /\ 1 \in 1..Len(T)
      /\ Len(T) + 1 \in 1..Len(v)
  BY <1>2
<1>4. ASSUME NEW i \in 1..Len(v), NEW d \in Directions, v[i].is = d
      PROVE  Reaches(v, d, i - 1, v[i].from) /\ v[i].from < v[i].to /\ v[i].to \in E[d]
  <2>1. CASE i \in 1..Len(T)
    <3>1. Reaches(T, d, i - 1, T[i].from) /\ T[i].from < T[i].to /\ T[i].to \in E[d]
      BY <1>1, <1>2, <1>4, <2>1 DEF Follow
    <3>2. i - 1 \in 0..Len(T)
      BY <1>3, <2>1
    <3>3. Reaches(v, d, i - 1, T[i].from)
      BY <1>1, <3>1, <3>2, PrefixReaches
    <3> QED BY <1>2, <2>1, <3>1, <3>3
  <2>2. CASE i = Len(T) + 1
    <3>1. Reaches(T, d, Len(T), l.from) /\ l.from < l.to /\ l.to \in E[d]
      BY <1>2, <1>4, <2>2
    <3>2. Reaches(v, d, Len(T), l.from)
      BY <1>1, <1>3, <3>1, PrefixReaches
    <3> QED BY <1>2, <1>3, <2>2, <3>1, <3>2
  <2> QED BY <1>3, <2>1, <2>2
<1> HIDE DEF v
<1>5. Begun(v, E)
  <2>1. v[1] = Header
    BY <1>1, <1>2, <1>3
  <2>2. \A i \in 1..Len(v) : v[i] = Note => i = Len(v)
    BY <1>2, <1>3 DEF Unnoted
  <2>3. Follow(v, E)
    BY <1>4 DEF Follow
  <2> QED BY <1>2, <2>1, <2>2, <2>3 DEF Begun
<1>6. l # Note => Unnoted(v)
  BY <1>2, <1>3 DEF Unnoted
<1>7. l = Note => ~Unnoted(v)
  BY <1>2, <1>3 DEF Unnoted
<1> QED BY <1>5, <1>6, <1>7 DEF v

\* The complete part of a text, after each read of it.
LEMMA CompleteFacts ==
    ASSUME NEW E \in Texts, NEW n \in 0..MaxSaid
    PROVE  LET top == Max({e \in E : e <= n}) IN
           top \in E /\ top \in Nat /\ top <= n /\ \A e \in E : e <= n => e <= top
<1> DEFINE S == {e \in E : e <= n}
<1>1. MaxSaid \in Nat /\ n \in Nat /\ E \subseteq 0..MaxSaid /\ 0 \in E
  BY SaidAssumption DEF Texts
<1>2. S \in SUBSET (0..n) /\ S # {}
  <2>1. \A e \in E : e \in Nat /\ (e <= n => e \in 0..n)
    BY <1>1
  <2>2. 0 \in S
    BY <1>1
  <2> QED BY <2>1, <2>2
<1>3. Max(S) \in S /\ \A k \in S : k <= Max(S)
  BY <1>1, <1>2, GreatestNumber
<1>4. PICK m \in S : m = Max(S) /\ \A k \in S : k <= m
  BY <1>3
<1>5. m \in E /\ m <= n /\ m \in Nat
  BY <1>1
<1>6. \A e \in E : e <= n => e <= m
  BY <1>4
<1> QED BY <1>4, <1>5, <1>6

\* Two last lines, added to what waits, come at the end of everything.
LastLines(f, q, p, l, x) ==
    /\ x \in Seq(Lines) /\ x = p \o <<l, Note>>
    /\ f \o (q \o x) \o <<>> = Append(Append(f \o q \o p, l), Note)

\* How three pieces of a transcript may be handed on without changing it.
LEMMA Pieces ==
    ASSUME NEW f \in Seq(Lines), NEW q \in Seq(Lines), NEW p \in Seq(Lines)
    PROVE  /\ f \o q \o p \in Seq(Lines)
           /\ f \o (q \o p) \o <<>> = f \o q \o p
           /\ \A l \in Lines : /\ f \o q \o Append(p, l) = Append(f \o q \o p, l)
                               /\ Append(p, l) \in Seq(Lines)
           /\ \A l \in Lines : \E x : LastLines(f, q, p, l, x)
           /\ q # <<>> => /\ Append(f, Head(q)) \o Tail(q) \o p = f \o q \o p
                          /\ Append(f, Head(q)) \in Seq(Lines) /\ Tail(q) \in Seq(Lines)
<1>1. \A a, b \in Seq(Lines) : a \o b \in Seq(Lines) /\ a \o <<>> = a
  BY ConcatProperties, ConcatEmptySeq
<1>2. ASSUME NEW a \in Seq(Lines), NEW b \in Seq(Lines), NEW c \in Seq(Lines)
      PROVE  (a \o b) \o c = a \o (b \o c)
  OBVIOUS
<1>3. \A a \in Seq(Lines), l \in Lines : Append(a, l) = a \o <<l>> /\ <<l>> \in Seq(Lines)
  BY AppendIsConcat
<1>4. f \o q \in Seq(Lines) /\ f \o q \o p \in Seq(Lines)
  BY <1>1
<1>5. f \o (q \o p) \o <<>> = f \o q \o p
  BY <1>1, <1>2
<1>6. ASSUME NEW l \in Lines
      PROVE  f \o q \o Append(p, l) = Append(f \o q \o p, l) /\ Append(p, l) \in Seq(Lines)
  BY <1>1, <1>2, <1>3, <1>4
<1>7. ASSUME NEW l \in Lines PROVE \E x : LastLines(f, q, p, l, x)
  <2> DEFINE k == Note
  <2>0. k \in Lines
    BY DEF Lines
  <2> HIDE DEF k
  <2>1. p \o <<l, k>> = Append(Append(p, l), k)
    OBVIOUS
  <2>2. p \o <<l, k>> = (p \o <<l>>) \o <<k>>
    BY <1>3, <1>6, <2>0, <2>1
  <2>3. (p \o <<l>>) \in Seq(Lines) /\ <<k>> \in Seq(Lines) /\ p \o <<l, k>> \in Seq(Lines)
    BY <1>1, <1>3, <2>0, <2>2
  <2>4. f \o (q \o (p \o <<l, k>>)) \o <<>> = (f \o q) \o (p \o <<l, k>>)
    <3>1. PICK x \in Seq(Lines) : x = p \o <<l, k>>
      BY <2>3
    <3>2. f \o (q \o x) = (f \o q) \o x
      BY <1>2
    <3>3. q \o x \in Seq(Lines) /\ f \o (q \o x) \in Seq(Lines)
      BY <1>1
    <3> QED BY <1>1, <3>1, <3>2, <3>3
  <2>5. (f \o q) \o ((p \o <<l>>) \o <<k>>) = ((f \o q) \o (p \o <<l>>)) \o <<k>>
    BY <1>2, <1>4, <2>3
  <2>6. (f \o q) \o (p \o <<l>>) = Append(f \o q \o p, l)
    BY <1>3, <1>6
  <2>7. Append(f \o q \o p, l) \in Seq(Lines)
    BY <1>1, <1>3, <1>4
  <2>8. Append(f \o q \o p, l) \o <<k>> = Append(Append(f \o q \o p, l), k)
    BY <1>3, <2>0, <2>7
  <2> QED BY <2>2, <2>3, <2>4, <2>5, <2>6, <2>8 DEF LastLines, k
<1>8. ASSUME q # <<>>
      PROVE  /\ Append(f, Head(q)) \o Tail(q) \o p = f \o q \o p
             /\ Append(f, Head(q)) \in Seq(Lines) /\ Tail(q) \in Seq(Lines)
  <2>1. Head(q) \in Lines /\ Tail(q) \in Seq(Lines)
    BY <1>8, HeadTailProperties
  <2>2. <<Head(q)>> \o Tail(q) = q
    BY <1>8
  <2>3. Append(f, Head(q)) = f \o <<Head(q)>> /\ <<Head(q)>> \in Seq(Lines)
    BY <1>3, <2>1
  <2>4. (f \o <<Head(q)>>) \o Tail(q) = f \o q
    BY <1>2, <2>1, <2>2, <2>3
  <2> QED BY <1>1, <2>1, <2>3, <2>4
<1> QED BY <1>4, <1>5, <1>6, <1>7, <1>8

\* A line that says what has been read and not said yet may be added.
LEMMA EmitKeeps ==
    ASSUME RecorderInv, NEW l \in Lines, l # Note, Emit(l), UNCHANGED <<ends, file>>,
           heard' \in [Directions -> 0..MaxSaid], l.is # "header",
           l.is \in Directions => l.to \in ends[l.is],
           \A d \in Directions :
               IF l.is = d THEN l.from = Complete(d) /\ l.to = Complete(d)' /\ l.from < l.to
                           ELSE Complete(d)' = Complete(d)
    PROVE  RecorderInv'
<1> DEFINE T == Transcript
<1>0. MaxSize \in Nat
  BY SizeAssumption
<1>1. /\ RecorderTypes /\ ~stopped /\ Begun(T, ends) /\ Unnoted(T) /\ written < MaxSize
      /\ \A d \in Directions : Reaches(T, d, Len(T), Complete(d))
  BY DEF RecorderInv, Emit
<1>2. written' \in Nat
  <2>1. Size(l) \in Nat
    BY DEF Size, Lines, Resize, Header, Note, Directions
  <2> QED BY <1>1, <2>1 DEF Emit, RecorderTypes
<1>3. ASSUME NEW d \in Directions
      PROVE  Complete(d) \in Nat /\ Complete(d)' \in Nat
  <2>1. Complete(d) \in Nat
    BY <1>1, CompleteFacts DEF RecorderTypes, Complete
  <2>2. Complete(d)' \in Nat
    BY <1>1, CompleteFacts DEF RecorderTypes, Complete
  <2> QED BY <2>1, <2>2
<1>4. PICK v : v = Append(T, l)
  OBVIOUS
<1>5. Begun(v, ends) /\ Unnoted(v) /\ v \in Seq(Lines)
  <2>1. \A d \in Directions : l.is = d =>
             Reaches(T, d, Len(T), l.from) /\ l.from < l.to /\ l.to \in ends[d]
    BY <1>1
  <2> HIDE DEF T
  <2>2. Begun(v, ends) /\ Unnoted(v)
    BY <1>1, <1>4, <2>1, AppendBegun
  <2> QED BY <2>2 DEF Begun
<1>6. ASSUME NEW d \in Directions PROVE Reaches(v, d, Len(v), Complete(d)')
  <2>1. T \in Seq(Lines)
    BY <1>1 DEF Begun
  <2>2. Reaches(T, d, Len(T), Complete(d)) /\ (l.is = d => Complete(d) <= l.to)
    BY <1>1, <1>3
  <2> HIDE DEF T
  <2>3. Reaches(v, d, Len(v), IF l.is = d THEN l.to ELSE Complete(d))
    BY <1>3, <1>4, <2>1, <2>2, AppendReaches
  <2>4. Complete(d)' = IF l.is = d THEN l.to ELSE Complete(d)
    OBVIOUS
  <2> QED BY <2>3, <2>4
<1>7. file \in Seq(Lines) /\ queue \in Seq(Lines) /\ pending \in Seq(Lines) /\ Note \in Lines
  BY <1>1 DEF RecorderTypes, Lines
<1>8. CASE written' >= MaxSize
  <2>0. PICK x : LastLines(file, queue, pending, l, x)
    BY <1>7, Pieces
  <2>1. /\ stopped' = TRUE /\ queue' = queue \o x
        /\ pending' = <<>> /\ flushTimer' = FALSE
    BY <1>8, <2>0 DEF Emit, Stop, Hand, LastLines
  <2>2. PICK u : u = Append(v, Note)
    OBVIOUS
  <2>3. Transcript' = u
    <3>1. Transcript' = file \o (queue \o x) \o <<>>
      BY <2>1 DEF Transcript
    <3> QED BY <1>4, <2>0, <2>2, <3>1 DEF Transcript, LastLines
  <2>4. Begun(u, ends) /\ ~Unnoted(u)
    <3>1. Note.is \notin Directions
      BY DEF Note, Directions
    <3> QED BY <1>5, <1>7, <2>2, <3>1, AppendBegun
  <2>5. Begun(Transcript, ends)' /\ ~Unnoted(Transcript)'
    BY <2>3, <2>4 DEF Begun, Follow, Reaches, Unnoted
  <2>6. RecorderTypes'
    <3>1. queue \o x \in Seq(Lines)
      BY <1>7, <2>0, ConcatProperties DEF LastLines
    <3>2. <<>> \in Seq(Lines)
      OBVIOUS
    <3>3. pending' \in Seq(Lines) /\ queue' \in Seq(Lines) /\ file' \in Seq(Lines)
      BY <1>7, <2>1, <3>1, <3>2
    <3>4. ends' \in [Directions -> Texts] /\ stopped' \in BOOLEAN /\ flushTimer' \in BOOLEAN
      BY <1>1, <2>1 DEF RecorderTypes
    <3> QED BY <1>2, <3>3, <3>4 DEF RecorderTypes
  <2> QED BY <2>1, <2>5, <2>6 DEF RecorderInv
<1>9. CASE ~(written' >= MaxSize)
  <2>1. /\ pending' = Append(pending, l) /\ flushTimer' = TRUE
        /\ UNCHANGED <<stopped, queue>>
    BY <1>9 DEF Emit
  <2>2. Transcript' = v
    <3>1. Transcript' = file \o queue \o Append(pending, l)
      BY <2>1 DEF Transcript
    <3> QED BY <1>4, <1>7, <3>1, Pieces DEF Transcript
  <2>3. Begun(Transcript, ends)' /\ Unnoted(Transcript)'
    BY <1>5, <2>2 DEF Begun, Follow, Reaches, Unnoted
  <2>4. \A d \in Directions : Reaches(Transcript, d, Len(Transcript), Complete(d))'
    BY <1>6, <2>2 DEF Reaches
  <2>5. RecorderTypes'
    <3>1. Append(pending, l) \in Seq(Lines)
      BY <1>7, Pieces
    <3> QED BY <1>1, <1>2, <2>1, <3>1 DEF RecorderTypes
  <2>6. written' < MaxSize
    BY <1>0, <1>2, <1>9
  <2> QED BY <1>0, <1>1, <1>2, <1>9, <2>1, <2>3, <2>4, <2>5, <2>6 DEF RecorderInv
<1> QED BY <1>8, <1>9

\* Lines that are handed on, or land, are the same lines.
LEMMA SameTranscript ==
    ASSUME RecorderInv, RecorderTypes', Transcript' = Transcript,
           UNCHANGED <<ends, heard, written>>,
           pending' = pending \/ pending' = <<>>, pending' # <<>> => flushTimer',
           stopped' = stopped \/ (stopped' = TRUE /\ pending' = <<>>)
    PROVE  RecorderInv'
<1>1. Begun(Transcript, ends)' /\ (Unnoted(Transcript)' <=> Unnoted(Transcript))
  BY DEF RecorderInv, Begun, Follow, Reaches, Unnoted
<1>2. ~stopped' => \A d \in Directions : Reaches(Transcript, d, Len(Transcript), Complete(d))'
  BY DEF RecorderInv, Reaches, Complete
<1> QED BY <1>1, <1>2 DEF RecorderInv, RecorderTypes

LEMMA HearKeeps ==
    ASSUME RecorderInv, NEW d \in Directions, NEW n \in 1..MaxSaid, Hear(d, n)
    PROVE  RecorderInv'
<1> DEFINE from == Max({e \in ends[d] : e <= heard[d]})
           to == Max({e \in ends[d] : e <= n})
<1>1. /\ RecorderTypes /\ MaxSaid \in Nat
      /\ heard[d] < n /\ heard' = [heard EXCEPT ![d] = n]
      /\ UNCHANGED <<recordInput, ends, resizes, opened, file, server>>
      /\ IF stopped \/ from = to THEN Ignored ELSE Emit(Text(d, from, to))
  BY SaidAssumption DEF RecorderInv, Hear, Decoded
<1>2. /\ heard' \in [Directions -> 0..MaxSaid] /\ heard'[d] = n
      /\ \A x \in Directions : x # d => heard'[x] = heard[x]
  BY <1>1 DEF RecorderTypes
<1>3. /\ ends[d] \in Texts /\ heard[d] \in 0..MaxSaid /\ n \in 0..MaxSaid /\ heard[d] \in Nat
  BY <1>1 DEF RecorderTypes
<1>4. /\ from \in ends[d] /\ from \in Nat /\ from <= heard[d]
      /\ to \in ends[d] /\ to \in Nat /\ \A e \in ends[d] : e <= n => e <= to
  BY <1>3, CompleteFacts
<1>5. from = Complete(d) /\ to = Complete(d)'
  BY <1>1, <1>2 DEF Complete
<1>6. \A x \in Directions : x # d => Complete(x)' = Complete(x)
  BY <1>1, <1>2 DEF Complete
<1> HIDE DEF from, to
<1>7. from <= to
  <2>1. from <= n
    BY <1>1, <1>3, <1>4
  <2> QED BY <1>4, <2>1
<1>8. CASE stopped \/ from = to
  <2>1. UNCHANGED <<ends, file, written, stopped, pending, flushTimer, queue>>
    BY <1>1, <1>8 DEF Ignored
  <2>2. RecorderTypes' /\ Transcript' = Transcript
    BY <1>1, <1>2, <2>1 DEF RecorderTypes, Transcript
  <2>3. Begun(Transcript, ends)' /\ (Unnoted(Transcript)' <=> Unnoted(Transcript))
    BY <2>1, <2>2 DEF RecorderInv, Begun, Follow, Reaches, Unnoted
  <2>4. ~stopped => \A x \in Directions : Complete(x)' = Complete(x)
    BY <1>5, <1>6, <1>8
  <2>5. ~stopped => \A x \in Directions :
                        Reaches(Transcript, x, Len(Transcript), Complete(x))'
    <3> SUFFICES ASSUME ~stopped, NEW x \in Directions
                 PROVE  Reaches(Transcript, x, Len(Transcript), Complete(x))'
      OBVIOUS
    <3>1. Reaches(Transcript, x, Len(Transcript), Complete(x))
      BY DEF RecorderInv
    <3>2. Complete(x)' = Complete(x)
      BY <2>4
    <3> QED BY <2>2, <3>1, <3>2 DEF Reaches
  <2> QED BY <2>1, <2>2, <2>3, <2>5 DEF RecorderInv
<1>9. CASE ~(stopped \/ from = to)
  <2> DEFINE l == Text(d, from, to)
  <2>1. l \in Lines /\ l # Note /\ l.is = d /\ l.from = from /\ l.to = to /\ l.is # "header"
    BY <1>4 DEF Lines, Text, Note, Directions
  <2>2. Emit(l) /\ from < to
    BY <1>1, <1>4, <1>7, <1>9
  <2> HIDE DEF l
  <2> QED BY <1>1, <1>2, <1>4, <1>5, <1>6, <2>1, <2>2, EmitKeeps
<1> QED BY <1>8, <1>9

LEMMA ResizeKeeps == ASSUME RecorderInv, ResizeTo PROVE RecorderInv'
<1>1. /\ UNCHANGED <<recordInput, ends, heard, opened, file, server>> /\ RecorderTypes
      /\ IF stopped THEN Ignored ELSE Emit(Resize)
  BY DEF ResizeTo, RecorderInv
<1>2. CASE stopped
  <2>1. UNCHANGED <<ends, heard, file, written, stopped, pending, flushTimer, queue>>
    BY <1>1, <1>2 DEF Ignored
  <2>2. RecorderTypes' /\ Transcript' = Transcript
    BY <1>1, <2>1 DEF RecorderTypes, Transcript
  <2> QED BY <1>2, <2>1, <2>2, SameTranscript DEF RecorderInv
<1>3. CASE ~stopped
  <2>1. Resize \in Lines /\ Resize # Note /\ Resize.is \notin Directions /\ Resize.is # "header"
    BY DEF Lines, Resize, Note, Directions
  <2>2. \A d \in Directions : Complete(d)' = Complete(d)
    BY <1>1 DEF Complete
  <2>3. heard' \in [Directions -> 0..MaxSaid]
    BY <1>1 DEF RecorderTypes
  <2> QED BY <1>1, <1>3, <2>1, <2>2, <2>3, EmitKeeps
<1> QED BY <1>2, <1>3

\* The close and the timer hand on all that waits.
LEMMA HandKeeps ==
    ASSUME RecorderInv, Hand(pending), UNCHANGED <<ends, heard, written, file>>,
           stopped' = stopped \/ stopped' = TRUE
    PROVE  RecorderInv'
<1>1. queue' = queue \o pending /\ pending' = <<>> /\ flushTimer' = FALSE /\ RecorderTypes
  BY DEF Hand, RecorderInv
<1>2. file \in Seq(Lines) /\ queue \in Seq(Lines) /\ pending \in Seq(Lines)
  BY <1>1 DEF RecorderTypes
<1>3. Transcript' = Transcript
  <2>1. file \o (queue \o pending) \o <<>> = file \o queue \o pending
    BY <1>2, Pieces
  <2> QED BY <1>1, <2>1 DEF Transcript
<1>4. RecorderTypes'
  <2>1. queue \o pending \in Seq(Lines) /\ <<>> \in Seq(Lines)
    BY <1>2, ConcatProperties
  <2> QED BY <1>1, <2>1 DEF RecorderTypes
<1> QED BY <1>1, <1>3, <1>4, SameTranscript

LEMMA LandsKeeps == ASSUME RecorderInv, Lands PROVE RecorderInv'
<1>1. /\ file' = Append(file, Head(queue)) /\ queue' = Tail(queue) /\ queue # <<>>
      /\ UNCHANGED <<ends, heard, written, stopped, pending, flushTimer>> /\ RecorderTypes
  BY DEF Lands, RecorderInv
<1>2. file \in Seq(Lines) /\ queue \in Seq(Lines) /\ pending \in Seq(Lines)
  BY <1>1 DEF RecorderTypes
<1>3. /\ Append(file, Head(queue)) \o Tail(queue) \o pending = file \o queue \o pending
      /\ Append(file, Head(queue)) \in Seq(Lines) /\ Tail(queue) \in Seq(Lines)
  BY <1>1, <1>2, Pieces
<1>4. Transcript' = Transcript
  BY <1>1, <1>3 DEF Transcript
<1>5. RecorderTypes'
  BY <1>1, <1>3 DEF RecorderTypes
<1> QED BY <1>1, <1>4, <1>5, SameTranscript DEF RecorderInv

LEMMA RecorderStep == RecorderInv /\ [RecorderNext]_recorderVars => RecorderInv'
<1> SUFFICES ASSUME RecorderInv, [RecorderNext]_recorderVars PROVE RecorderInv'
  OBVIOUS
<1>1. ASSUME UNCHANGED <<ends, heard, written, stopped, pending, flushTimer, queue, file>>
      PROVE  RecorderInv'
  <2>1. RecorderTypes' /\ Transcript' = Transcript
    BY <1>1 DEF RecorderInv, RecorderTypes, Transcript
  <2> QED BY <1>1, <2>1, SameTranscript DEF RecorderInv
<1>2. ASSUME NEW d \in Directions, NEW n \in 1..MaxSaid, Hear(d, n) PROVE RecorderInv'
  BY <1>2, HearKeeps
<1>3. CASE ResizeTo
  BY <1>3, ResizeKeeps
<1>4. CASE CloseRecorder
  BY <1>4, HandKeeps DEF CloseRecorder, Stop
<1>5. CASE FlushTimer
  BY <1>5, HandKeeps DEF FlushTimer
<1>6. CASE Lands
  BY <1>6, LandsKeeps
<1>7. CASE Opens \/ StreamFails \/ Exits
  BY <1>1, <1>7 DEF Opens, StreamFails, Exits
<1>8. CASE UNCHANGED recorderVars
  BY <1>1, <1>8 DEF recorderVars
<1> QED BY <1>2, <1>3, <1>4, <1>5, <1>6, <1>7, <1>8 DEF RecorderNext

LEMMA RecorderStart == RecorderInit => RecorderInv
<1> SUFFICES ASSUME RecorderInit PROVE RecorderInv
  OBVIOUS
<1>0. MaxSaid \in Nat /\ MaxSize \in Nat /\ 0 < MaxSize
  BY SaidAssumption, SizeAssumption
<1>1. /\ ends \in [Directions -> Texts] /\ heard = [d \in Directions |-> 0]
      /\ written = 0 /\ stopped = FALSE /\ pending = <<>> /\ flushTimer = FALSE
      /\ queue = <<Header>> /\ file = <<>>
  BY DEF RecorderInit
<1>2. Header \in Lines /\ Header # Note /\ Header.is \notin Directions
  BY DEF Lines, Header, Note, Directions
<1>3. RecorderTypes
  <2>1. <<>> \in Seq(Lines) /\ <<Header>> \in Seq(Lines)
    BY <1>2
  <2>2. heard \in [Directions -> 0..MaxSaid]
    BY <1>0, <1>1
  <2> QED BY <1>1, <2>1, <2>2 DEF RecorderTypes
<1>4. Transcript = <<Header>>
  <2>1. <<Header>> \in Seq(Lines)
    BY <1>2
  <2>2. <<>> \o <<Header>> = <<Header>> /\ <<Header>> \o <<>> = <<Header>>
    BY <2>1, ConcatEmptySeq
  <2> QED BY <1>1, <2>2 DEF Transcript
<1>5. /\ <<Header>> \in Seq(Lines) /\ Len(<<Header>>) = 1 /\ <<Header>>[1] = Header
      /\ <<Header>> # <<>> /\ \A i \in 1..1 : i = 1
  BY <1>2
<1>6. Begun(Transcript, ends) /\ Unnoted(Transcript)
  BY <1>2, <1>4, <1>5 DEF Begun, Unnoted, Follow
<1>7. ASSUME NEW d \in Directions PROVE Reaches(Transcript, d, Len(Transcript), Complete(d))
  <2>1. ends[d] \in Texts /\ 0 \in 0..MaxSaid /\ heard[d] = 0
    BY <1>0, <1>1
  <2>2. Complete(d) \in Nat /\ Complete(d) <= 0
    BY <2>1, CompleteFacts DEF Complete
  <2>3. Complete(d) = 0
    BY <2>2
  <2> QED BY <1>2, <1>4, <1>5, <2>3 DEF Reaches
<1> QED BY <1>0, <1>1, <1>3, <1>6, <1>7 DEF RecorderInv

\* What the lines reach is the greatest place they name.
LEMMA SaidIsReached ==
    ASSUME Transcript \in Seq(Lines), NEW d \in Directions, NEW i \in 0..Len(Transcript),
           NEW m \in Nat, Reaches(Transcript, d, i, m)
    PROVE  Said(d, i) = m
<1> DEFINE S == {0} \cup {Transcript[j].to : j \in {j \in 1..i : Transcript[j].is = d}}
<1>1. \A j \in 1..i : Transcript[j].is = d => Transcript[j].to \in Nat
  <2>1. \A x \in Lines : x.is = d => x.to \in Nat
    BY DEF Lines, Resize, Header, Note, Directions
  <2>2. \A j \in 1..i : j \in 1..Len(Transcript)
    BY LenProperties
  <2> QED BY <2>1, <2>2, ElementOfSeq
<1>2. S \in SUBSET Nat
  BY <1>1
<1>3. m \in S /\ \A k \in S : k <= m
  BY DEF Reaches
<1>4. Max(S) = m
  BY <1>2, <1>3, GreatestIs
<1> QED BY <1>4 DEF Said

(* The transcript is what was said, whatever reads cut it, whenever the    *)
(* timer, the limit and the close come, and however much of it has landed. *)
THEOREM TranscriptsAreOutput == RecorderSpec => []TranscriptIsOutput
<1>1. RecorderInv => TranscriptIsOutput
  <2> SUFFICES ASSUME RecorderInv PROVE TranscriptIsOutput
    OBVIOUS
  <2>1. /\ Transcript \in Seq(Lines) /\ Transcript # <<>> /\ Transcript[1] = Header
        /\ Follow(Transcript, ends) /\ \A i \in 1..Len(Transcript) :
                                          Transcript[i] = Note => i = Len(Transcript)
    BY DEF RecorderInv, Begun
  <2>2. DOMAIN Transcript = 1..Len(Transcript) /\ Len(Transcript) \in Nat
    BY <2>1, LenProperties
  <2>3. ASSUME NEW i \in DOMAIN Transcript, NEW d \in Directions, Transcript[i].is = d
        PROVE  /\ Transcript[i].from = Said(d, i - 1)
               /\ Transcript[i].from < Transcript[i].to /\ Transcript[i].to \in ends[d]
    <3>1. /\ Reaches(Transcript, d, i - 1, Transcript[i].from)
          /\ Transcript[i].from < Transcript[i].to /\ Transcript[i].to \in ends[d]
      BY <2>1, <2>2, <2>3 DEF Follow
    <3>2. Transcript[i].from \in Nat
      <4>1. \A x \in Lines : x.is = d => x.from \in Nat
        BY DEF Lines, Resize, Header, Note, Directions
      <4> QED BY <2>1, <2>2, <2>3, <4>1, ElementOfSeq
    <3>3. i - 1 \in 0..Len(Transcript)
      BY <2>2
    <3> QED BY <2>1, <3>1, <3>2, <3>3, SaidIsReached
  <2>4. ASSUME ~stopped, NEW d \in Directions
        PROVE  Said(d, Len(Transcript)) = Max({e \in ends[d] : e <= heard[d]})
    <3>1. Reaches(Transcript, d, Len(Transcript), Complete(d))
      BY <2>4 DEF RecorderInv
    <3>2. Complete(d) \in Nat
      BY CompleteFacts DEF RecorderInv, RecorderTypes, Complete
    <3>3. Len(Transcript) \in 0..Len(Transcript)
      BY <2>2
    <3> QED BY <2>1, <3>1, <3>2, <3>3, SaidIsReached DEF Complete
  <2>5. /\ pending # <<>> => flushTimer /\ ~stopped
        /\ \A i \in DOMAIN Transcript :
              Transcript[i] = Note => i = Len(Transcript) /\ stopped
        /\ written >= MaxSize => \E i \in DOMAIN Transcript : Transcript[i] = Note
    BY <2>1, <2>2 DEF RecorderInv, Unnoted
  <2> QED BY <2>1, <2>3, <2>4, <2>5 DEF TranscriptIsOutput
<1> QED BY <1>1, RecorderStart, RecorderStep, PTL DEF RecorderSpec
=============================================================================
