---------------------------- MODULE ActivityFeed ----------------------------
(* The activity stream: emitActivity numbers an event, keeps it in a ring and  *)
(* notifies the subscribers; /activity/stream?after=ID replays what is newer,  *)
(* announces a gap if the ring has lost some of it, and then follows live.     *)
(* A reader is outside: it reconnects after the last id it has received, over  *)
(* connections that may break with events in flight, and across restarts.      *)
EXTENDS Naturals, Sequences, FiniteSets, RingBuffer, FiniteSetsExt, SequencesExt

CONSTANTS FeedCapacity, \* BUFFER_CAPACITY
          MaxActivity   \* bound: ids a daemon gives out

ASSUME FeedAssumption == FeedCapacity \in Nat \ {0} /\ MaxActivity \in Nat

VARIABLES
  feed,       \* activityBuffer, of ids
  nextId,
  subscribed, \* the reader's stream is in subscribers
  inFlight,   \* what was enqueued on the stream and not received
  cursor,     \* the last id received, 0 before any, whichever daemon gave it
  got,        \* history: ids received from this daemon
  told,       \* history: ids of this daemon that a gap message has given up
  restarted   \* history: the daemon is a later one than the cursor may be of

feedVars == <<feed, nextId, subscribed, inFlight, cursor, got, told, restarted>>

Message == [event : {"activity"}, id : 1..MaxActivity]
           \cup [event : {"gap"}, from : 1..(MaxActivity + 1), to : 1..(MaxActivity + 1)]

FeedTypeOK ==
  /\ nextId \in 1..(MaxActivity + 1) /\ feed.total = nextId - 1 /\ feed.size \in 0..FeedCapacity
  /\ subscribed \in BOOLEAN /\ restarted \in BOOLEAN
  /\ inFlight \in Seq(Message) /\ got \in Seq(1..MaxActivity)
  /\ cursor \in 0..MaxActivity /\ told \subseteq 1..MaxActivity

FeedInit ==
  /\ feed = EmptyRing /\ nextId = 1
  /\ subscribed = FALSE /\ inFlight = <<>> /\ cursor = 0
  /\ got = <<>> /\ told = {} /\ restarted = FALSE

Events(ids) == [i \in DOMAIN ids |-> [event |-> "activity", id |-> ids[i]]]

\* emitActivity: pushed, and with the microtasks of this tick enqueued on every stream.
Emit ==
  /\ nextId <= MaxActivity
  /\ feed' = Push(feed, FeedCapacity, nextId)
  /\ nextId' = nextId + 1
  /\ inFlight' = IF subscribed THEN inFlight \o Events(<<nextId>>) ELSE inFlight
  /\ UNCHANGED <<subscribed, cursor, got, told, restarted>>

\* getActivityAfter; ids ascend along the ring, so what its filter keeps is the end.
OldestId == IF feed.size > 0 THEN EntryAt(feed, FeedCapacity, 0) ELSE nextId

\* Mutant: a gap of one event is not seen.
MutHasGap(after) == after # 0 /\ after < OldestId - 2

HasGap(after) == after # 0 /\ after < OldestId
ActivityAfter(after) ==
  LET all == ToArray(feed, FeedCapacity)
      newer == {i \in DOMAIN all : all[i] > after}
  IN IF after = 0 \/ HasGap(after) THEN all
     ELSE IF newer = {} THEN <<>> ELSE SubSeq(all, Min(newer), Len(all))

\* /activity/stream: gap, replay and subscription in one tick.
Connect ==
  /\ ~subscribed
  /\ subscribed' = TRUE
  /\ inFlight' = (IF HasGap(cursor)
                  THEN <<[event |-> "gap", from |-> cursor + 1, to |-> OldestId]>> ELSE <<>>)
                 \o Events(ActivityAfter(cursor))
  /\ UNCHANGED <<feed, nextId, cursor, got, told, restarted>>

\* The reader takes the next message.
Receive ==
  /\ inFlight # <<>>
  /\ LET m == Head(inFlight)
     IN IF m.event = "gap"
        THEN told' = told \cup m.from..(m.to - 1) /\ UNCHANGED <<cursor, got>>
        ELSE cursor' = m.id /\ got' = Append(got, m.id) /\ UNCHANGED told
  /\ inFlight' = Tail(inFlight)
  /\ UNCHANGED <<feed, nextId, subscribed, restarted>>

\* The connection breaks: 'abort', or an enqueue that throws, unsubscribes.
Disconnect ==
  /\ subscribed
  /\ subscribed' = FALSE /\ inFlight' = <<>>
  /\ UNCHANGED <<feed, nextId, cursor, got, told, restarted>>

\* Another daemon: its ids start at 1 again, and the reader does not know.
FeedRestarts ==
  /\ ~restarted
  /\ feed' = EmptyRing /\ nextId' = 1
  /\ subscribed' = FALSE /\ inFlight' = <<>>
  /\ got' = <<>> /\ told' = {} /\ restarted' = TRUE
  /\ UNCHANGED cursor

FeedNext == Emit \/ Connect \/ Receive \/ Disconnect \/ FeedRestarts

FeedSpec == FeedInit /\ [][FeedNext]_feedVars

-----------------------------------------------------------------------------
(* Properties.                                                               *)

\* Of one daemon a reader receives every event once and in order from its first to its
\* latest, across any number of broken connections: what it does not receive, a gap
\* message has told it before anything later came, and only that (activity.ts: "client
\* sends ?after=ID, server detects if ring buffer overflowed").
StreamIsComplete ==
  /\ \A i, j \in DOMAIN got : i < j => got[i] < got[j]
  /\ \A i \in DOMAIN got : \A id \in got[1]..got[i] : id \in Range(got) \cup told
  /\ \A id \in told : id \notin Range(got)
=============================================================================
