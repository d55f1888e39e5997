----------------------------- MODULE SocksBridge -----------------------------
(* The local SOCKS5 bridge (socks-bridge.ts): one connection of the browser,   *)
(* from its greeting to the pipe with the upstream socket, and the pre-flight  *)
(* test of the upstream proxy.  The client's stream is cut into chunks at any  *)
(* place; bytes are positions in it: the greeting, the CONNECT request, and    *)
(* then the data to relay.                                                     *)
EXTENDS Naturals, Sequences, SequencesExt

CONSTANTS FrameSize,  \* bytes of the greeting and of the request; abstracts greetingSize and connectSize
          StreamSize, \* bound: bytes the client ever sends
          TestBudget, TestRetries, TestBackoff \* budgetMs, retries, backoffMs; in units of 500 ms

ASSUME SocksAssumption == /\ FrameSize \in Nat \ {0}
                          /\ StreamSize \in Nat /\ StreamSize >= 2 * FrameSize
                          /\ {TestBudget, TestRetries} \subseteq Nat \ {0} /\ TestBackoff \in Nat

VARIABLES
  relay,     \* state of the connection; "none" before it is accepted
  unread,    \* bytes the client has sent and the bridge has not been given
  sent,      \* bytes sent so far
  framing,   \* buf
  remainder, \* bytes behind the request in the chunk that completed it
  client,    \* the client socket: "open", "ended" (it has sent its FIN) or "destroyed"
  upstream,  \* "none", "connecting", "open", "destroyed"
  relayed,   \* history: bytes written to the upstream socket
  shaking,   \* handshakeTimeout is armed
  test       \* testUpstream: attempts begun, time spent, what it is doing

socksVars == <<relay, unread, sent, framing, remainder, client, upstream, relayed, shaking, test>>

Bytes(from, to) == [i \in 1..(to - from) |-> from + i]
PayloadFrom == 2 * FrameSize
Handshaking == {"greeting", "connect", "connecting"}

SocksTypeOK ==
  /\ relay \in {"none", "piped", "closed"} \cup Handshaking
  /\ sent \in 0..StreamSize
  /\ {unread, framing, remainder, relayed} \subseteq Seq(1..StreamSize)
  /\ client \in {"none", "open", "ended", "destroyed"}
  /\ upstream \in {"none", "connecting", "open", "destroyed"} /\ shaking \in BOOLEAN
  /\ test.attempts \in 0..TestRetries
  /\ test.spent \in 0..TestBudget   \* "Total time budget across all retries"
  /\ test.does \in {"attempt", "backoff", "ok", "failed"}

SocksInit ==
  /\ relay = "none" /\ unread = <<>> /\ sent = 0 /\ framing = <<>> /\ remainder = <<>>
  /\ client = "none" /\ upstream = "none" /\ relayed = <<>> /\ shaking = FALSE
  /\ test = [attempts |-> 0, spent |-> 0, does |-> "attempt"]

-----------------------------------------------------------------------------
(* testUpstream                                                              *)

\* Mutant: what is left of the budget is not looked at.
MutPerAttempt == IF TestBudget \div TestRetries > 1 THEN TestBudget \div TestRetries ELSE 1

PerAttempt == LET left == TestBudget - test.spent
                  share == IF TestBudget \div TestRetries > 1 THEN TestBudget \div TestRetries ELSE 1
              IN IF left < share THEN left ELSE share

\* One createConnection, which takes some time up to its timeout and succeeds or fails;
\* then the loop ends, or there is time for the backoff.
TestAttempt ==
  /\ test.does = "attempt"
  /\ IF test.attempts = TestRetries \/ test.spent >= TestBudget
     THEN test' = [test EXCEPT !.does = "failed"]
     ELSE \E took \in 0..PerAttempt, ok \in BOOLEAN :
            LET n == test.attempts + 1
                at == test.spent + took
            IN test' = [attempts |-> n, spent |-> at,
                        does |-> CASE ok -> "ok"
                                   [] ~ok /\ (n = TestRetries \/ at + TestBackoff >= TestBudget) -> "failed"
                                   [] OTHER -> "backoff"]
  /\ UNCHANGED <<relay, unread, sent, framing, remainder, client, upstream, relayed, shaking>>

BackoffEnds ==
  /\ test.does = "backoff"
  /\ test' = [test EXCEPT !.spent = @ + TestBackoff, !.does = "attempt"]
  /\ UNCHANGED <<relay, unread, sent, framing, remainder, client, upstream, relayed, shaking>>

-----------------------------------------------------------------------------
(* One connection                                                            *)

\* Chromium is launched only when the upstream has passed its test.
Accept ==
  /\ test.does = "ok" /\ relay = "none"
  /\ relay' = "greeting" /\ client' = "open" /\ shaking' = TRUE
  /\ UNCHANGED <<unread, sent, framing, remainder, upstream, relayed, test>>

\* The client sends without waiting for the replies.
ClientSends(n) ==
  /\ client = "open" /\ n > 0 /\ sent + n <= StreamSize
  /\ unread' = unread \o Bytes(sent, sent + n) /\ sent' = sent + n
  /\ UNCHANGED <<relay, framing, remainder, client, upstream, relayed, shaking, test>>

ClientEnds ==
  /\ client = "open" /\ client' = "ended"
  /\ UNCHANGED <<relay, unread, sent, framing, remainder, upstream, relayed, shaking, test>>

KillBoth ==
  /\ relay' = "closed" /\ client' = "destroyed" /\ shaking' = FALSE
  /\ upstream' = IF upstream = "open" THEN "destroyed" ELSE upstream
  /\ unread' = <<>>

Reading == relay \in {"greeting", "connect"} /\ client # "destroyed" /\ unread # <<>>

\* Mutant: what came with the greeting is dropped.
MutAfterGreeting(buf) == <<>>

\* What is left after a complete greeting is looked at as a request at once (coalesced).
AfterGreeting(buf) == SubSeq(buf, FrameSize + 1, Len(buf))

\* onData: too little for a frame stays in buf; a complete request pauses the client and
\* connects upstream.
OnData(n) ==
  LET buf == framing \o SubSeq(unread, 1, n)
      greeted == relay = "connect" \/ Len(buf) >= FrameSize
      rest == IF relay = "connect" \/ ~greeted THEN buf ELSE AfterGreeting(buf)
      complete == greeted /\ Len(rest) >= FrameSize
  IN /\ Reading /\ n \in 1..Len(unread)
     /\ unread' = SubSeq(unread, n + 1, Len(unread))
     /\ relay' = CASE complete -> "connecting" [] greeted /\ ~complete -> "connect" [] OTHER -> relay
     /\ framing' = rest
     /\ remainder' = IF complete THEN SubSeq(rest, FrameSize + 1, Len(rest)) ELSE remainder
     /\ upstream' = IF complete THEN "connecting" ELSE upstream
     /\ UNCHANGED <<sent, client, relayed, shaking, test>>

\* A wrong version, or a request parseConnectRequest rejects.
BadFrame ==
  /\ Reading /\ KillBoth
  /\ UNCHANGED <<sent, framing, remainder, relayed, test>>

\* createConnection resolves: the replay comes first, then the pipe.
Connected ==
  /\ upstream = "connecting"
  /\ IF relay = "closed"
     THEN upstream' = "destroyed" /\ UNCHANGED <<relay, relayed>>
     ELSE upstream' = "open" /\ relay' = "piped" /\ relayed' = remainder
  /\ UNCHANGED <<unread, sent, framing, remainder, client, shaking, test>>

ConnectFails ==
  /\ upstream = "connecting"
  /\ relay' = "closed" /\ client' = "destroyed" /\ shaking' = FALSE /\ unread' = <<>>
  /\ upstream' = "none"
  /\ UNCHANGED <<sent, framing, remainder, relayed, test>>

\* clientSocket.pipe(upstreamSocket), one chunk.
Piped(n) ==
  /\ relay = "piped" /\ upstream = "open" /\ client # "destroyed" /\ n \in 1..Len(unread)
  /\ relayed' = relayed \o SubSeq(unread, 1, n)
  /\ unread' = SubSeq(unread, n + 1, Len(unread))
  /\ UNCHANGED <<relay, sent, framing, remainder, client, upstream, shaking, test>>

\* The upstream socket closes: its handler destroys the client and leaves the state.
UpstreamCloses ==
  /\ upstream = "open"
  /\ upstream' = "destroyed" /\ client' = "destroyed" /\ unread' = <<>> /\ shaking' = FALSE
  /\ UNCHANGED <<relay, sent, framing, remainder, relayed, test>>

\* The client has gone before its request: the socket closes by itself, and the close
\* event stops the timer.
ClientGone ==
  /\ client = "ended" /\ relay \in {"greeting", "connect"} /\ unread = <<>>
  /\ client' = "destroyed" /\ shaking' = FALSE
  /\ UNCHANGED <<relay, unread, sent, framing, remainder, upstream, relayed, test>>

\* An error of either socket, at any time.
SocketError ==
  /\ client \in {"open", "ended"}
  /\ KillBoth
  /\ UNCHANGED <<sent, framing, remainder, relayed, test>>

HandshakeTimesOut ==
  /\ shaking /\ shaking' = FALSE
  /\ IF relay \in Handshaking
     THEN relay' = "closed" /\ client' = "destroyed" /\ unread' = <<>>
     ELSE UNCHANGED <<relay, client, unread>>
  /\ UNCHANGED <<sent, framing, remainder, upstream, relayed, test>>

SocksNext ==
  \/ TestAttempt \/ BackoffEnds \/ Accept \/ ClientEnds \/ ClientGone \/ BadFrame \/ Connected \/ ConnectFails
  \/ UpstreamCloses \/ SocketError \/ HandshakeTimesOut
  \/ \E n \in 1..StreamSize : ClientSends(n) \/ OnData(n) \/ Piped(n)

SocksSpec == SocksInit /\ [][SocksNext]_socksVars

-----------------------------------------------------------------------------
(* Properties.                                                               *)

\* However the client's stream is cut -- greeting, request and data in one chunk, or a
\* frame in many -- what goes upstream is that stream behind the request: every byte that
\* was handed over, in order, once.  An upstream connection that comes up after the
\* client was given up is not kept: a closed connection has no open upstream socket.
RelayIsExact ==
  /\ relayed = Bytes(PayloadFrom, PayloadFrom + Len(relayed))
  /\ relay = "piped" /\ client # "destroyed" => PayloadFrom + Len(relayed \o unread) = sent
  /\ relay = "closed" => upstream # "open"
=============================================================================
