------------------------------ MODULE S3Scans ------------------------------
(***************************************************************************)
(* A recursive search.  The page opens a socket for every scan; the server *)
(* walks the prefix page by page, gathers the hits and sends them in       *)
(* batches; a new search, the stop button, leaving the page and a lost     *)
(* connection all end a walk that is paid for by the request.              *)
(*   apps/web/src/features/s3/components/ObjectSearch.tsx                  *)
(*   apps/web/src/lib/s3-scan.ts                                           *)
(*   apps/server/src/api/s3/scan.service.ts                                *)
(*   packages/core/src/fetchers/s3/scan.ts                                 *)
(*                                                                         *)
(* A page of the listing holds one key that the pattern may match, so hits *)
(* are page numbers.  A socket of socket.io keeps the order of messages.   *)
(***************************************************************************)
EXTENDS Naturals, Sequences, Functions

CONSTANTS
    Pages,          \* bound: pages under the prefix
    MaxObjects,     \* the ceiling of a scan, in pages
    FlushHits,      \* FLUSH_EVERY_HITS
    MaxScans        \* bound: searches started

ASSUME ScanAssumption ==
    {Pages, MaxObjects, FlushHits, MaxScans} \subseteq Nat \ {0}

VARIABLES
    listing,        \* how many pages there are, and which have a hit
    scan,           \* the scan `running` holds, 0: none
    scans,          \* scans started
    shown,          \* ScanState: running, the hits, how it ended and where
    link,           \* of each scan's socket
    wire,           \* what the server has sent on it
    walk,           \* of each scan at the server
    scanned,        \* pages read
    buffer          \* hits not sent yet

scanVars == <<listing, scan, scans, shown, link, wire, walk, scanned, buffer>>

Scans == 1..MaxScans
Blank(running) == [running |-> running, hits |-> <<>>, end |-> "none", upto |-> 0]

ScanInit ==
    /\ listing \in [pages : 1..Pages, matches : SUBSET (1..Pages)]
    /\ listing.matches \subseteq 1..listing.pages
    /\ scan = 0 /\ scans = 0 /\ shown = Blank(FALSE)
    /\ link = [s \in Scans |-> "none"]
    /\ wire = [s \in Scans |-> <<>>]
    /\ walk = [s \in Scans |-> "none"]
    /\ scanned = [s \in Scans |-> 0]
    /\ buffer = [s \in Scans |-> <<>>]

-----------------------------------------------------------------------------
(* Told, then dropped: nothing that is still on the wire is heard.         *)
Dropped == IF scan = 0 THEN link ELSE [link EXCEPT ![scan] = "dropped"]

StartSearch ==
    /\ scans < MaxScans /\ scans' = scans + 1
    /\ scan' = scans + 1 /\ shown' = Blank(TRUE)
    /\ link' = [Dropped EXCEPT ![scans + 1] = "connecting"]
    /\ UNCHANGED <<listing, wire, walk, scanned, buffer>>

(* The button, the header that restores the listing, or leaving the page.  *)
StopSearch ==
    /\ scan # 0 /\ scan' = 0
    /\ shown' \in {[shown EXCEPT !.running = FALSE], Blank(FALSE)}
    /\ link' = Dropped
    /\ UNCHANGED <<listing, scans, wire, walk, scanned, buffer>>

Connect(s) ==
    /\ link[s] = "connecting" /\ link' = [link EXCEPT ![s] = "up"]
    /\ walk' = [walk EXCEPT ![s] = "reading"]
    /\ UNCHANGED <<listing, scan, scans, shown, wire, scanned, buffer>>

(* connect_error; the socket does not try again. *)
Unreachable(s) ==
    /\ link[s] = "connecting" /\ link' = [link EXCEPT ![s] = "dropped"]
    /\ scan' = 0
    /\ shown' = [shown EXCEPT !.running = FALSE, !.end = "error"]
    /\ UNCHANGED <<listing, scans, wire, walk, scanned, buffer>>

\* Mutated form: the last page's hits are sent only if a batch is due.
FlushedWhenDue(hits, last, due) == due \/ Len(hits) >= FlushHits

(* Batched by count and by age; nothing is kept back at the end. *)
Flushed(hits, last, due) == last \/ due \/ Len(hits) >= FlushHits

\* Mutated form: a scan that hit its ceiling ends without a word.
EndingUnlessCut(n, last, cut) ==
    IF last /\ ~cut THEN <<[kind |-> "done", hits |-> <<>>, upto |-> n]>> ELSE <<>>

Ending(n, last, cut) ==
    IF last THEN <<[kind |-> IF cut THEN "cut" ELSE "done", hits |-> <<>>, upto |-> n]>>
    ELSE <<>>

(* A page of the listing arrives; a ceiling of either kind makes it the    *)
(* last one.                                                               *)
ReadPage(s) ==
    /\ walk[s] = "reading"
    /\ \E due, late \in BOOLEAN :
       LET n    == scanned[s] + 1
           hits == buffer[s] \o (IF n \in listing.matches THEN <<n>> ELSE <<>>)
           cut  == late \/ n >= MaxObjects
           last == cut \/ n = listing.pages
           send == Flushed(hits, last, due)
       IN
       /\ scanned' = [scanned EXCEPT ![s] = n]
       /\ buffer' = [buffer EXCEPT ![s] = IF send THEN <<>> ELSE hits]
       /\ wire' = [wire EXCEPT ![s] = @
             \o (IF send /\ hits # <<>>
                 THEN <<[kind |-> "chunk", hits |-> hits, upto |-> n]>> ELSE <<>>)
             \o Ending(n, last, cut)]
       /\ walk' = [walk EXCEPT ![s] = IF last THEN "ended" ELSE "reading"]
    /\ UNCHANGED <<listing, scan, scans, shown, link>>

ReadFails(s) ==
    /\ walk[s] = "reading"
    /\ walk' = [walk EXCEPT ![s] = "ended"]
    /\ wire' = [wire EXCEPT ![s] = Append(@, [kind |-> "error", hits |-> <<>>, upto |-> 0])]
    /\ UNCHANGED <<listing, scan, scans, shown, link, scanned, buffer>>

\* Mutated form: only the message stops the walk, and a lost one does not.
NoticeIfTold(s) ==
    /\ link[s] = "dropped" /\ walk[s] = "reading"
    /\ walk' = [walk EXCEPT ![s] = "ended"]
    /\ UNCHANGED <<listing, scan, scans, shown, link, wire, scanned, buffer>>

(* The cancel, or the disconnect, arrives: the request under way is        *)
(* aborted, and nothing is reported.                                       *)
Notice(s) ==
    /\ link[s] \in {"dropped", "lost"} /\ walk[s] = "reading"
    /\ walk' = [walk EXCEPT ![s] = "ended"]
    /\ UNCHANGED <<listing, scan, scans, shown, link, wire, scanned, buffer>>

(* The connection is lost; the page has no handler for that.               *)
Lose(s) ==
    /\ link[s] = "up" /\ link' = [link EXCEPT ![s] = "lost"]
    /\ wire' = [wire EXCEPT ![s] = <<>>]
    /\ UNCHANGED <<listing, scan, scans, shown, walk, scanned, buffer>>

(* A message of the current scan: the handlers replace the whole state.    *)
Hear(s) ==
    /\ link[s] = "up" /\ wire[s] # <<>>
    /\ LET m == Head(wire[s]) IN
       IF m.kind = "chunk"
       THEN /\ shown' = [Blank(TRUE) EXCEPT !.hits = shown.hits \o m.hits]
            /\ UNCHANGED <<scan, link>>
       ELSE /\ shown' = [shown EXCEPT !.running = FALSE, !.end = m.kind, !.upto = m.upto]
            /\ scan' = 0 /\ link' = Dropped
    /\ wire' = [wire EXCEPT ![s] = Tail(@)]
    /\ UNCHANGED <<listing, scans, walk, scanned, buffer>>

ScanNext ==
    \/ StartSearch \/ StopSearch
    \/ \E s \in Scans :
          \/ Connect(s) \/ Unreachable(s) \/ ReadPage(s) \/ ReadFails(s)
          \/ Notice(s) \/ Lose(s) \/ Hear(s)

(* A socket connects or does not, messages arrive unless the connection is *)
(* lost, and S3 answers who waits for it or does not: how long it takes    *)
(* for a walk that nobody waits for must not matter.                       *)
ScanFairness ==
    \A s \in Scans :
        /\ WF_scanVars(Connect(s) \/ Unreachable(s)) /\ WF_scanVars(Hear(s))
        /\ WF_scanVars(link[s] = "up" /\ (ReadPage(s) \/ ReadFails(s)))
        /\ WF_scanVars(Notice(s))

ScanSpec == ScanInit /\ [][ScanNext]_scanVars /\ ScanFairness

-----------------------------------------------------------------------------
(* The hits of the first n pages, once each and in the listing's order.    *)
ListUpTo(hits, n) ==
    /\ \A i, j \in 1..Len(hits) : i < j => hits[i] < hits[j]
    /\ Range(hits) = listing.matches \cap 1..n

(* A search that says it has ended shows every hit up to where it stopped, *)
(* once and in order, though they came in batches; and one that goes on    *)
(* shows a beginning of them, of this search and of no earlier one         *)
(* (scan.service.ts:106-125).                                              *)
HitsAreTheListing ==
    /\ \E n \in 0..listing.pages : ListUpTo(shown.hits, n)
    /\ shown.end \in {"done", "cut"} => ListUpTo(shown.hits, shown.upto)
    /\ shown.end = "done" => shown.upto = listing.pages

(* A walk that nobody listens to any more, and that is billed for, ends,   *)
(* at the latest in the page that is being read.                           *)
UnheardWalkStops ==
    \A s \in Scans : (link[s] # "up" /\ walk[s] = "reading") ~> walk[s] = "ended"

(* The spinner ends by itself, unless the connection was lost.             *)
SpinnerEnds ==
    \A s \in Scans : (scan = s) ~> (scan # s \/ link[s] = "lost")
=============================================================================
