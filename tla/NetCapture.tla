----------------------------- MODULE NetCapture -----------------------------
(* `network --capture`: a listener on the page that is active when the capture *)
(* starts, taken off the page that is active when it stops, and the buffer that *)
(* response bodies enter in the order they arrive, capped by their total size.  *)
EXTENDS Naturals, Sequences, FiniteSets, SequencesExt

CONSTANTS CapturePages,
          BodySizes, MaxSize,  \* sizes of a body, and MAX_BUFFER_SIZE in the same unit
          MaxResponses, MaxCaptures  \* bounds of a behaviour

ASSUME CaptureAssumption ==
  BodySizes \subseteq Nat /\ {MaxSize, MaxResponses, MaxCaptures} \subseteq Nat

VARIABLES
  activePage,
  captureActive, captureListener,  \* captureListener: number of the capture, 0 for null
  attached,   \* page -> listeners it has
  captured,   \* entries of captureBuffer
  totalSize,
  awaited,    \* responses whose body is awaited, each with its listener
  responses, captures,  \* counters
  strayed   \* history: captures that were stopped on another page than they started on

captureVars == <<activePage, captureActive, captureListener, attached, captured, totalSize, awaited,
                 responses, captures, strayed>>

CaptureTypeOK ==
  /\ activePage \in CapturePages /\ captureActive \in BOOLEAN /\ responses \in 0..MaxResponses
  /\ captures \in 0..MaxCaptures /\ captureListener \in 0..captures /\ strayed \subseteq 1..captures
  /\ attached \in [CapturePages -> SUBSET (1..captures)] /\ totalSize \in Nat
  /\ awaited \subseteq [response : 1..responses, by : 1..captures, size : BodySizes]
  /\ \A e \in ToSet(captured) : e \in [response : 1..responses, by : 1..captures, size : BodySizes \cup {0}]

CaptureInit ==
  /\ activePage \in CapturePages
  /\ captureActive = FALSE /\ captureListener = 0
  /\ attached = [t \in CapturePages |-> {}]
  /\ captured = <<>> /\ totalSize = 0 /\ awaited = {}
  /\ responses = 0 /\ captures = 0 /\ strayed = {}

Buffered == <<captured, totalSize>>

\* A second start is refused; the buffer of an earlier capture is not cleared.
StartCapture ==
  /\ ~captureActive /\ captures < MaxCaptures
  /\ captures' = captures + 1 /\ captureActive' = TRUE /\ captureListener' = captures + 1
  /\ attached' = [attached EXCEPT ![activePage] = @ \cup {captures + 1}]
  /\ UNCHANGED <<activePage, Buffered, awaited, responses, strayed>>

\* Mutant: the listener is forgotten before it is taken off the page.
MutStopCapture ==
  /\ captureActive' = FALSE /\ captureListener' = 0
  /\ strayed' = strayed \cup {l \in {captureListener} \ {0} : \E t \in CapturePages \ {activePage} : l \in attached[t]}
  /\ UNCHANGED <<activePage, attached, Buffered, awaited, responses, captures>>

\* `--capture stop`, whether or not one is active.
StopCapture ==
  /\ attached' = [attached EXCEPT ![activePage] = @ \ {captureListener}]
  /\ captureActive' = FALSE /\ captureListener' = 0
  /\ strayed' = strayed \cup {l \in {captureListener} \ {0} : \E t \in CapturePages \ {activePage} : l \in attached[t]}
  /\ UNCHANGED <<activePage, Buffered, awaited, responses, captures>>

\* A response with content that passes the filter: every listener of the page asks for
\* its body, also one whose capture has stopped.
Response(t) ==
  /\ attached[t] # {} /\ responses < MaxResponses
  /\ responses' = responses + 1
  /\ \E s \in BodySizes :
       awaited' = awaited \cup [response : {responses + 1}, by : attached[t], size : {s}]
  /\ UNCHANGED <<activePage, captureActive, captureListener, attached, Buffered, captures, strayed>>

\* What the first n entries hold, for every n.
Sizes(entries) ==
  LET upto[n \in 0..Len(entries)] == IF n = 0 THEN 0 ELSE upto[n - 1] + entries[n].size
  IN upto
SizeOf(entries) == Sizes(entries)[Len(entries)]

\* push: the oldest entries go until there is room, or none is left.
Evicted(size) ==
  LET Fits(n) == n = Len(captured) \/ totalSize - Sizes(captured)[n] + size <= MaxSize
  IN CHOOSE n \in 0..Len(captured) : Fits(n) /\ \A j \in 0..n - 1 : ~Fits(j)

\* A body arrives, or is unavailable and stored as truncated with size 0.
BodyArrives(b) ==
  /\ \E s \in {b.size, 0} :
       LET n == Evicted(s)
       IN /\ captured' = Append(SubSeq(captured, n + 1, Len(captured)), [b EXCEPT !.size = s])
          /\ totalSize' = totalSize - Sizes(captured)[n] + s
  /\ awaited' = awaited \ {b}
  /\ UNCHANGED <<activePage, captureActive, captureListener, attached, responses, captures, strayed>>

\* `tab`, and a page that is closed or replaced, its listeners with it.
CaptureElsewhere(t) ==
  /\ activePage' = t
  /\ UNCHANGED <<captureActive, captureListener, attached, Buffered, awaited, responses, captures, strayed>>
PageReplaced(t) ==
  /\ attached' = [attached EXCEPT ![t] = {}]
  /\ UNCHANGED <<activePage, captureActive, captureListener, Buffered, awaited, responses, captures, strayed>>

CaptureNext ==
  \/ StartCapture \/ StopCapture
  \/ \E t \in CapturePages : Response(t) \/ CaptureElsewhere(t) \/ PageReplaced(t)
  \/ \E b \in awaited : BodyArrives(b)

CaptureSpec == CaptureInit /\ [][CaptureNext]_captureVars

-----------------------------------------------------------------------------
(* Property.                                                                 *)

\* In whatever order bodies arrive, before or after the stop, totalSize is what the buffer
\* holds and exceeds the cap only with a single entry; and unless a capture was stopped
\* while another tab was active, a page keeps no listener of a capture that has stopped
\* and no response is captured twice.
CaptureIsExact ==
  /\ totalSize = SizeOf(captured) /\ (totalSize > MaxSize => Len(captured) = 1)
  /\ \A t \in CapturePages : attached[t] \subseteq {captureListener} \cup strayed
  /\ \A i, j \in 1..Len(captured) :
       (i # j /\ captured[i].response = captured[j].response) => {captured[i].by, captured[j].by} \cap strayed # {}
=============================================================================
