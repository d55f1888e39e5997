---------------------------- MODULE RequestLimits ----------------------------
(* The limits on requests: the fixed window per client of token-registry.ts    *)
(* (checkRate), the sliding window of /connect (checkConnectRateLimit), and    *)
(* the requests that run many commands -- chain, tab-each and POST /batch --   *)
(* of which the limits see one or none.                                        *)
EXTENDS Naturals, Sequences, FiniteSets, FiniteSetsExt

CONSTANTS RateClients,   \* scoped clients
          RateRequests,  \* requests in progress at once
          RateLimit,     \* rateLimit of a token, requests per window; 0 is unlimited
          RateWindow,    \* ticks in the second of a window, and in the minute of /connect
          ConnectLimit,  \* CONNECT_RATE_LIMIT
          MaxTicks,      \* bound: the clock
          MaxCommands    \* bound: commands of a batch, chain or tab-each

ASSUME RateAssumption ==
  {RateLimit, ConnectLimit, MaxTicks, MaxCommands} \subseteq Nat /\ RateWindow \in Nat \ {0}

VARIABLES
  ticks,    \* Date.now()
  buckets,  \* rateBuckets: client -> window start and count, or none
  attempts, \* connectAttempts: the times of the attempts that still count
  passed,   \* history: client -> the times of its requests that have passed
  probes,   \* history: the times of the requests to /connect that have passed
  under,    \* request -> its client and the commands it has left
  revoked   \* clients whose token has been revoked

limitVars == <<ticks, buckets, attempts, passed, probes, under, revoked>>

Clock == 0..MaxTicks
NoBucket == [count |-> 0, from |-> 0]
NoRequest == [by |-> "nobody", left |-> 0]

LimitTypeOK ==
  /\ ticks \in Clock
  /\ \A c \in RateClients : buckets[c].from \in Clock /\ buckets[c].count \in 0..RateLimit
  /\ \A i \in DOMAIN attempts : attempts[i] \in Clock
  /\ Len(attempts) <= ConnectLimit
  /\ \A r \in RateRequests : under[r].by \in RateClients \cup {"nobody"} /\ under[r].left \in 0..MaxCommands
  /\ revoked \subseteq RateClients

LimitInit ==
  /\ ticks = 0 /\ buckets = [c \in RateClients |-> NoBucket] /\ attempts = <<>>
  /\ passed = [c \in RateClients |-> <<>>] /\ probes = <<>>
  /\ under = [r \in RateRequests |-> NoRequest] /\ revoked = {}

Tick == ticks < MaxTicks /\ ticks' = ticks + 1
        /\ UNCHANGED <<buckets, attempts, passed, probes, under, revoked>>

\* Mutant: the window ends a tick early.
MutNewWindow(bucket) == bucket = NoBucket \/ ticks - bucket.from >= RateWindow - 1

\* checkRateLimit: whether a request passes, and the bucket it leaves.
NewWindow(bucket) == bucket = NoBucket \/ ticks - bucket.from >= RateWindow
RatePasses(bucket) == RateLimit = 0 \/ NewWindow(bucket) \/ bucket.count < RateLimit
RateCounted(bucket) ==
  CASE RateLimit = 0 -> bucket
    [] RateLimit > 0 /\ NewWindow(bucket) -> [count |-> 1, from |-> ticks]
    [] OTHER -> [bucket EXCEPT !.count = @ + 1]

\* POST /command with n commands: one, or those of a chain or a tab-each.  The token is
\* validated, the rate checked once; refused requests leave nothing.
CommandRequest(r, c, n) ==
  /\ under[r] = NoRequest /\ c \notin revoked
  /\ RatePasses(buckets[c])
  /\ buckets' = [buckets EXCEPT ![c] = RateCounted(@)]
  /\ passed' = [passed EXCEPT ![c] = Append(@, ticks)]
  /\ under' = [under EXCEPT ![r] = [by |-> c, left |-> n]]
  /\ UNCHANGED <<ticks, attempts, probes, revoked>>

\* POST /batch: the token is validated once and no rate is checked.
BatchRequest(r, c, n) ==
  /\ under[r] = NoRequest /\ c \notin revoked
  /\ under' = [under EXCEPT ![r] = [by |-> c, left |-> n]]
  /\ UNCHANGED <<ticks, buckets, attempts, passed, probes, revoked>>

\* The next command of the request runs with the TokenInfo of the start and skipRateCheck;
\* a command that is itself a tab-each, or a chain in a batch, adds its own.
RunsNext(r, n) ==
  /\ under[r].left > 0
  /\ under[r].left - 1 + n <= MaxCommands
  /\ under' = [under EXCEPT ![r] = IF @.left + n = 1 THEN NoRequest ELSE [by |-> @.by, left |-> @.left - 1 + n]]
  /\ UNCHANGED <<ticks, buckets, attempts, passed, probes, revoked>>

\* A thrown error ends a tab-each (a tab has been closed meanwhile).
RequestThrows(r) ==
  /\ under[r] # NoRequest
  /\ under' = [under EXCEPT ![r] = NoRequest]
  /\ UNCHANGED <<ticks, buckets, attempts, passed, probes, revoked>>

RevokeClient(c) ==
  /\ c \notin revoked
  /\ revoked' = revoked \cup {c}
  /\ UNCHANGED <<ticks, buckets, attempts, passed, probes, under>>

\* GET and POST /connect: old attempts are dropped, then the rest counted.  Attempts are
\* in the order of their times, so what the filter keeps is their end.
StillCounts ==
  LET recent == {i \in DOMAIN attempts : ticks - attempts[i] < RateWindow}
  IN IF recent = {} THEN <<>> ELSE SubSeq(attempts, Min(recent), Len(attempts))
ConnectRequest ==
  /\ IF Len(StillCounts) < ConnectLimit
     THEN attempts' = Append(StillCounts, ticks) /\ probes' = Append(probes, ticks)
     ELSE attempts' = StillCounts /\ UNCHANGED probes
  /\ UNCHANGED <<ticks, buckets, passed, under, revoked>>

LimitNext ==
  \/ Tick \/ ConnectRequest
  \/ \E c \in RateClients : RevokeClient(c)
  \/ \E r \in RateRequests :
       \/ RequestThrows(r)
       \/ \E n \in 0..MaxCommands : RunsNext(r, n)
       \/ \E c \in RateClients, n \in 1..MaxCommands : CommandRequest(r, c, n) \/ BatchRequest(r, c, n)

LimitSpec == LimitInit /\ [][LimitNext]_limitVars

-----------------------------------------------------------------------------
(* Properties.                                                               *)

\* Wherever an interval of the length of a window is laid, the fixed window of a client
\* lets through less than twice its limit -- the window opens with a request -- and the
\* sliding one of /connect never more than the limit: so many in a row take a window.
RateIsBounded ==
  /\ RateLimit > 0 => \A c \in RateClients : \A i, j \in DOMAIN passed[c] :
       j - i >= 2 * RateLimit - 1 => passed[c][j] - passed[c][i] >= RateWindow
  /\ \A i, j \in DOMAIN probes : j - i >= ConnectLimit => probes[j] - probes[i] >= RateWindow
=============================================================================
