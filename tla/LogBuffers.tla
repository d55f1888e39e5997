------------------------------ MODULE LogBuffers ------------------------------
(* The console, network and dialog logs: page events push entries into ring    *)
(* buffers, flushBuffers appends what is new to a file per log, commands clear *)
(* them, and responses find their request's entry by its URL.                  *)
EXTENDS Naturals, Sequences, FiniteSets, RingBuffer, SequencesExt

CONSTANTS Logs,       \* 1..n, in the order in which they are flushed; 1 is the network
          Urls, NoUrl,
          LogCapacity, \* HIGH_WATER_MARK
          MaxEntries  \* bound: entries ever pushed, to all the logs

ASSUME LogAssumption ==
  /\ LogCapacity \in Nat \ {0} /\ MaxEntries \in Nat /\ NoUrl \notin Urls
  /\ IsFiniteSet(Logs) /\ Logs \subseteq Nat /\ 1 \in Logs

VARIABLES
  ring,     \* log -> its buffer; an entry has its number, URL, and the answer it shows
  flushed,  \* lastConsoleFlushed, lastNetworkFlushed, lastDialogFlushed
  logFile,  \* log -> numbers of the entries appended, 0 for an empty line
  requests, \* what the browser has asked for, one per network entry
  lost,     \* history: entries cleared or overwritten before they were flushed
  mixed     \* history: URLs with two requests under way at once

logVars == <<ring, flushed, logFile, requests, lost, mixed>>

States == {"sent", "answered", "over"}

LogTypeOK ==
  /\ \A l \in Logs :
       /\ ring[l].total \in 0..MaxEntries
       /\ ring[l].size \in 0..LogCapacity /\ ring[l].head \in 0..(LogCapacity - 1)
       /\ flushed[l] \in 0..ring[l].total
       /\ logFile[l] \in Seq(0..ring[l].total) /\ lost[l] \subseteq 1..ring[l].total
  /\ requests \in Seq([url : Urls, is : States]) /\ Len(requests) = ring[1].total
  /\ mixed \subseteq Urls

LogInit ==
  /\ ring = [l \in Logs |-> EmptyRing] /\ flushed = [l \in Logs |-> 0]
  /\ logFile = [l \in Logs |-> <<>>] /\ requests = <<>>
  /\ lost = [l \in Logs |-> {}] /\ mixed = {}

-----------------------------------------------------------------------------
Retained(l) == Range(ToArray(ring[l], LogCapacity))
Unflushed(l) == {e.n : e \in Retained(l)} \ 1..flushed[l]

\* The history of a ring that becomes r: what was in it, unflushed, and is not in r.
Loses(l, r) ==
  lost' = [lost EXCEPT ![l] = @ \cup (Unflushed(l) \ {e.n : e \in Range(ToArray(r, LogCapacity))})]

\* What was ever pushed.
Pushes == {p \in Logs \X (1..MaxEntries) : p[2] <= ring[p[1]].total}

Add(l, url) ==
  LET r == Push(ring[l], LogCapacity, [n |-> ring[l].total + 1, url |-> url, status |-> 0, size |-> 0])
  IN /\ Cardinality(Pushes) < MaxEntries
     /\ ring' = [ring EXCEPT ![l] = r]
     /\ Loses(l, r)

\* page.on('console') and page.on('dialog').
PageLogs(l) ==
  /\ l # 1
  /\ Add(l, NoUrl)
  /\ UNCHANGED <<flushed, logFile, requests, mixed>>

UnderWay(u) == {n \in DOMAIN requests : requests[n].url = u /\ requests[n].is # "over"}

\* page.on('request').
Requested(u) ==
  /\ Add(1, u)
  /\ requests' = Append(requests, [url |-> u, is |-> "sent"])
  /\ mixed' = IF UnderWay(u) # {} THEN mixed \cup {u} ELSE mixed
  /\ UNCHANGED <<flushed, logFile>>

\* Mutant: the scan is forward.
MutFirstFound(open) == CHOOSE i \in open : \A j \in open : i <= j

FirstFound(open) == CHOOSE i \in open : \A j \in open : j <= i

\* The backward scan: the newest entry of this URL whose field is falsy shows the value.
Show(url, field, value) ==
  LET r == ring[1]
      open == {i \in 0..(r.size - 1) : LET e == EntryAt(r, LogCapacity, i)
                                       IN e.url = url /\ e[field] = 0}
      i == FirstFound(open)
  IN ring' = IF open = {} THEN ring
             ELSE [ring EXCEPT ![1] = SetEntry(r, LogCapacity, i,
                                               [EntryAt(r, LogCapacity, i) EXCEPT ![field] = value])]

\* page.on('response'): status and duration.
Responded(n) ==
  /\ requests[n].is = "sent"
  /\ Show(requests[n].url, "status", n)
  /\ requests' = [requests EXCEPT ![n].is = "answered"]
  /\ UNCHANGED <<flushed, logFile, lost, mixed>>

\* page.on('requestfinished') with its body; an empty or missing one has size 0, as
\* an entry has that waits for its size.
Finished(n) ==
  /\ requests[n].is = "answered"
  /\ \E size \in {0, n} : Show(requests[n].url, "size", size)
  /\ requests' = [requests EXCEPT ![n].is = "over"]
  /\ UNCHANGED <<flushed, logFile, lost, mixed>>

\* A request fails, or its page closes: no event finds its entry any more.
Fails(n) ==
  /\ requests[n].is # "over"
  /\ requests' = [requests EXCEPT ![n].is = "over"]
  /\ UNCHANGED <<ring, flushed, logFile, lost, mixed>>

\* `console --clear`, `network --clear`, `dialog --clear`.
ClearLog(l) ==
  /\ ring' = [ring EXCEPT ![l] = Clear(@)]
  /\ Loses(l, Clear(ring[l]))
  /\ UNCHANGED <<flushed, logFile, requests, mixed>>

\* Mutant: what the ring holds is taken for what was ever pushed.
MutNew(l) == ring[l].size - flushed[l]

\* flushBuffers: one log after the other; an append that throws ends the flush, with
\* the cursor of its log and of those after it unmoved.  Nothing in it is awaited, so
\* flushInProgress is never found set.
New(l) == ring[l].total - flushed[l]
Written(l) ==
  LET entries == LastN(ring[l], LogCapacity, New(l))
  IN IF entries = <<>> THEN <<0>> ELSE [i \in DOMAIN entries |-> entries[i].n]
FlushBuffers(failsAt) ==
  LET Done(l) == New(l) > 0 /\ l < failsAt
  IN /\ logFile' = [l \in Logs |-> IF Done(l) THEN logFile[l] \o Written(l) ELSE logFile[l]]
     /\ flushed' = [l \in Logs |-> IF Done(l) THEN ring[l].total ELSE flushed[l]]
     /\ UNCHANGED <<ring, requests, lost, mixed>>

LogNext ==
  \/ \E l \in Logs : PageLogs(l) \/ ClearLog(l)
  \/ \E u \in Urls : Requested(u)
  \/ \E n \in DOMAIN requests : Responded(n) \/ Finished(n) \/ Fails(n)
  \/ \E k \in Logs \cup {Cardinality(Logs) + 1} : FlushBuffers(k)

LogSpec == LogInit /\ [][LogNext]_logVars

-----------------------------------------------------------------------------
(* Properties.                                                               *)

\* Whatever is cleared, overwritten or fails to be appended in between, a file has
\* every entry at most once and in order, and of the entries the cursor has passed
\* only those are missing that had left the ring before their flush (buffers.ts:
\* "totalAdded keeps incrementing past capacity (flush cursor)").
LogsWrittenOnce ==
  \A l \in Logs :
     LET shown == {i \in DOMAIN logFile[l] : logFile[l][i] # 0}
     IN /\ \A i, j \in shown : i < j => logFile[l][i] < logFile[l][j]
        /\ {logFile[l][i] : i \in shown} = (1..flushed[l]) \ lost[l]
        /\ {e.n : e \in Retained(l)} = (ring[l].total - ring[l].size + 1)..ring[l].total

\* A network entry shows the status and the size of its own request, unless requests
\* for its URL have overlapped; and no answer is ever shown by two entries.
AnswersAreOwn ==
  \A e \in Retained(1) : \A field \in {"status", "size"} :
     e[field] # 0 =>
        /\ e.url = requests[e[field]].url
        /\ e.url \notin mixed => e[field] = e.n
        /\ \A f \in Retained(1) : f[field] = e[field] => f = e
=============================================================================
