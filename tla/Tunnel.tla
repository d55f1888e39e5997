------------------------------- MODULE Tunnel -------------------------------
(***************************************************************************)
(* The ngrok tunnel of server.ts: POST /tunnel/start, the start-up with    *)
(* BROWSE_TUNNEL=1, and the probe of POST /pair, which share four module   *)
(* variables and run concurrently.                                         *)
(*                                                                         *)
(* A request runs without interruption from one await to the next: the     *)
(* probe of the public URL, ngrok's close, ngrok's forward.  A start binds *)
(* a listener on a port of its own and points an ngrok session at it; the  *)
(* listener, the session and its URL share the number of that start.       *)
(***************************************************************************)
EXTENDS Naturals

CONSTANTS Requests,     \* requests that can be under way at a time
          MaxTunnels    \* bound: listeners bound in a behaviour

ASSUME MaxTunnelsIsNat == MaxTunnels \in Nat

VARIABLES tunnelActive,   \* the four module variables; 0 is null
          tunnelUrl,
          tunnelListener,
          tunnelServer,
          bound,          \* listeners that listen
          sessions,       \* ngrok sessions that forward
          made,           \* listeners bound so far
          req,            \* where each request stands
          overlapped      \* history: a request began while another was under way

registered == <<tunnelActive, tunnelUrl, tunnelListener, tunnelServer>>
tunnelVars == <<registered, bound, sessions, made, req, overlapped>>

Id == 1 .. MaxTunnels
IdOrNone == {0} \cup Id

\* A request: what it awaits, what it is for, the URL it probes, the listener
\* it bound, and the ngrok session it is closing.
Request == [at : {"idle", "probe", "close", "bind", "forward", "cleanup"},
            op : {"pair", "start"}, probed : IdOrNone, own : IdOrNone, closing : IdOrNone]
Idle == [at |-> "idle", op |-> "pair", probed |-> 0, own |-> 0, closing |-> 0]

\* With BROWSE_TUNNEL=1 the daemon starts a tunnel without looking for one.
TunnelInit ==
        /\ tunnelActive = FALSE
        /\ tunnelUrl = 0
        /\ tunnelListener = 0
        /\ tunnelServer = 0
        /\ bound = {}
        /\ sessions = {}
        /\ made = 0
        /\ \/ req = [r \in Requests |-> Idle]
           \/ \E boot \in Requests :
                req = [r \in Requests |-> IF r = boot THEN [Idle EXCEPT !.at = "bind", !.op = "start"]
                                                      ELSE Idle]
        /\ overlapped = FALSE

Begin(r) == /\ req[r] = Idle
            /\ overlapped' = (overlapped \/ \E q \in Requests \ {r} : req[q] # Idle)

\* /pair or /tunnel/start finds a tunnel and probes its URL.
Probe(r, op) ==
  /\ Begin(r)
  /\ tunnelActive /\ tunnelUrl # 0
  /\ op = "start" => tunnelServer # 0
  /\ req' = [req EXCEPT ![r] = [Idle EXCEPT !.at = "probe", !.op = op, !.probed = tunnelUrl]]
  /\ UNCHANGED <<registered, bound, sessions, made>>

\* /tunnel/start finds none.  (/pair then answers without a URL.)
FindsNone(r) ==
  /\ Begin(r)
  /\ ~(tunnelActive /\ tunnelUrl # 0 /\ tunnelServer # 0)
  /\ req' = [req EXCEPT ![r] = [Idle EXCEPT !.at = "bind", !.op = "start"]]
  /\ UNCHANGED <<registered, bound, sessions, made>>

Ends(r) == req' = [req EXCEPT ![r] = Idle]

\* The tunnel answers the probe: the request is answered with tunnelUrl as it
\* is now.
ProbeOk(r) ==
  /\ req[r].at = "probe"
  /\ req[r].probed \in sessions \cap bound
  /\ Ends(r)
  /\ UNCHANGED <<registered, bound, sessions, made, overlapped>>

\* The end of closeTunnel.
Cleared == /\ tunnelActive' = FALSE /\ tunnelUrl' = 0
           /\ tunnelListener' = 0 /\ tunnelServer' = 0

\* Where a request goes on after closeTunnel.
Closed(r) == req' = [req EXCEPT ![r] = IF @.op = "pair" THEN Idle
                                       ELSE [@ EXCEPT !.at = "bind", !.closing = 0]]

\* No answer in five seconds, an error, or the rate limit of GET /connect, also
\* for a tunnel that is well.  closeTunnel awaits the close of the session.
ProbeFails(r) ==
  /\ req[r].at = "probe"
  /\ tunnelListener # 0
  /\ req' = [req EXCEPT ![r].at = "close", ![r].closing = tunnelListener]
  /\ UNCHANGED <<registered, bound, sessions, made, overlapped>>

\* The same with no session registered: nothing to await.
ProbeFailsAtOnce(r) ==
  /\ req[r].at = "probe"
  /\ tunnelListener = 0
  /\ bound' = bound \ {tunnelServer}
  /\ Cleared
  /\ Closed(r)
  /\ UNCHANGED <<sessions, made, overlapped>>

\* Mutant: the listener is left listening.
MutSessionCloses(r) ==
  /\ req[r].at = "close"
  /\ sessions' = sessions \ {req[r].closing}
  /\ Cleared
  /\ Closed(r)
  /\ UNCHANGED <<bound, made, overlapped>>

\* Mutant: the variables are not cleared.
MutForgetful(r) ==
  /\ req[r].at = "close"
  /\ sessions' = sessions \ {req[r].closing}
  /\ bound' = bound \ {tunnelServer}
  /\ Closed(r)
  /\ UNCHANGED <<registered, made, overlapped>>

\* The session has closed: closeTunnel stops the listener that is registered
\* by now and clears the variables.
SessionCloses(r) ==
  /\ req[r].at = "close"
  /\ sessions' = sessions \ {req[r].closing}
  /\ bound' = bound \ {tunnelServer}
  /\ Cleared
  /\ Closed(r)
  /\ UNCHANGED <<made, overlapped>>

\* A start binds its listener and asks ngrok to forward to it.
Bind(r) ==
  /\ req[r].at = "bind"
  /\ made < MaxTunnels
  /\ made' = made + 1
  /\ bound' = bound \cup {made + 1}
  /\ req' = [req EXCEPT ![r].at = "forward", ![r].own = made + 1]
  /\ UNCHANGED <<registered, sessions, overlapped>>

\* There is no auth token, or no port to bind.
BindFails(r) ==
  /\ req[r].at = "bind"
  /\ Ends(r)
  /\ UNCHANGED <<registered, bound, sessions, made, overlapped>>

\* ngrok forwards: the session is registered.
Registers(r) ==
  LET s == req[r].own
  IN /\ req[r].at = "forward"
     /\ sessions' = sessions \cup {s}
     /\ tunnelListener' = s
     /\ tunnelUrl' = s /\ tunnelServer' = s /\ tunnelActive' = TRUE
     /\ UNCHANGED <<bound, made, overlapped>>

Forwarded(r) == Registers(r) /\ Ends(r)

\* Writing the state file throws: the catch awaits the close of the session,
\* the variables keep naming the tunnel.
StateFileFails(r) ==
  /\ Registers(r)
  /\ req' = [req EXCEPT ![r].at = "cleanup", ![r].closing = req[r].own]

\* listener.url() throws before anything but the session is registered.
UrlFails(r) ==
  /\ req[r].at = "forward"
  /\ sessions' = sessions \cup {req[r].own}
  /\ tunnelListener' = req[r].own
  /\ req' = [req EXCEPT ![r].at = "cleanup", ![r].closing = req[r].own]
  /\ UNCHANGED <<tunnelActive, tunnelUrl, tunnelServer, bound, made, overlapped>>

\* ngrok refuses, and the catch closes the session that is registered, if any.
ForwardFails(r) ==
  /\ req[r].at = "forward"
  /\ tunnelListener # 0
  /\ req' = [req EXCEPT ![r].at = "cleanup", ![r].closing = tunnelListener]
  /\ UNCHANGED <<registered, bound, sessions, made, overlapped>>

ForwardFailsAtOnce(r) ==
  /\ req[r].at = "forward"
  /\ tunnelListener = 0
  /\ bound' = bound \ {req[r].own}
  /\ Ends(r)
  /\ UNCHANGED <<registered, sessions, made, overlapped>>

\* Mutant: the session is not closed.
MutCleansUp(r) ==
  /\ req[r].at = "cleanup"
  /\ bound' = bound \ {req[r].own}
  /\ tunnelListener' = 0
  /\ Ends(r)
  /\ UNCHANGED <<tunnelActive, tunnelUrl, tunnelServer, sessions, made, overlapped>>

\* The rest of the catch.
CleansUp(r) ==
  /\ req[r].at = "cleanup"
  /\ sessions' = sessions \ {req[r].closing}
  /\ bound' = bound \ {req[r].own}
  /\ tunnelListener' = 0
  /\ Ends(r)
  /\ UNCHANGED <<tunnelActive, tunnelUrl, tunnelServer, made, overlapped>>

\* The session ends on ngrok's side.
TunnelDies(s) ==
  /\ s \in sessions
  /\ sessions' = sessions \ {s}
  /\ UNCHANGED <<registered, bound, made, req, overlapped>>

Step(r) ==
  \/ ProbeOk(r) \/ ProbeFails(r) \/ ProbeFailsAtOnce(r) \/ SessionCloses(r)
  \/ Bind(r) \/ BindFails(r) \/ Forwarded(r) \/ StateFileFails(r) \/ UrlFails(r)
  \/ ForwardFails(r) \/ ForwardFailsAtOnce(r) \/ CleansUp(r)

TunnelNext ==
  \/ \E r \in Requests : \/ \E op \in {"pair", "start"} : Probe(r, op)
                         \/ FindsNone(r)
                         \/ Step(r)
  \/ \E s \in Id : TunnelDies(s)

TunnelSpec == TunnelInit /\ [][TunnelNext]_tunnelVars

\* A probe has a deadline, and ngrok settles what it is asked.
TunnelFairSpec == TunnelSpec /\ \A r \in Requests : WF_tunnelVars(Step(r))

-----------------------------------------------------------------------------
(* Properties *)

\* The variables have their types; URL, server and flag are set and cleared
\* together.
TunnelTypeOK ==
  /\ tunnelActive \in BOOLEAN
  /\ tunnelUrl \in IdOrNone /\ tunnelListener \in IdOrNone /\ tunnelServer \in IdOrNone
  /\ bound \subseteq Id /\ sessions \subseteq Id
  /\ made \in {0} \cup Id
  /\ req \in [Requests -> Request]
  /\ overlapped \in BOOLEAN
  /\ tunnelUrl = tunnelServer /\ (tunnelActive <=> tunnelUrl # 0)

\* A session or listener is somebody's: registered, so that closeTunnel will
\* find it, or in the hands of a request that is under way.
Held(r, s) == req[r].own = s \/ req[r].closing = s
Kept == /\ \A s \in sessions : s = tunnelListener \/ \E r \in Requests : Held(r, s)
        /\ \A b \in bound : b = tunnelServer \/ \E r \in Requests : Held(r, b)

\* "we'd otherwise leak an active ngrok session on the user's account": while
\* requests come one at a time, none of their failures leaks a session or a
\* listener.
NoLeakAlone == ~overlapped => Kept

\* Nor does ngrok ever forward to a port on which the daemon has stopped
\* listening, and which another process may bind.
NoStrayForward == ~overlapped => sessions \subseteq bound

\* A tunnel that has died is found out: whoever probes it makes the daemon
\* forget it, whatever else is under way.
DeadTunnelIsForgotten ==
  \A r \in Requests, u \in Id :
    (req[r].at = "probe" /\ req[r].probed = u /\ u \notin sessions) ~> tunnelUrl # u
=============================================================================
