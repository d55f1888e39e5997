----------------------------- MODULE MCDaemons -----------------------------
(* The processes and listeners of the daemon: commands that find and start it *)
(* (EnsureServer: two commands, two daemons) and the requests that open its   *)
(* tunnel (Tunnel: two requests and four listeners, enough for a tunnel to be *)
(* replaced while a probe and a close of it are under way).  The two share no *)
(* variable: a behaviour is one of either.                                    *)
EXTENDS EnsureServer, Tunnel

VARIABLE part  \* whose behaviour this is

StartStep(action) == part = "start" /\ action /\ UNCHANGED <<part, tunnelVars>>
TunnelStep(action) == part = "tunnel" /\ action /\ UNCHANGED <<part, vars>>

MCInit == part \in {"start", "tunnel"} /\ Init /\ TunnelInit
          /\ (part = "start" => \A r \in Requests : req[r] = Idle)
          /\ (part = "tunnel" => stateFile = 0)
MCNext == StartStep(Next) \/ TunnelStep(TunnelNext)

\* The fairness of the two, each in its own behaviours.
MCSpec == /\ MCInit /\ [][MCNext]_<<part, vars, tunnelVars>>
          /\ \A c \in Clis : WF_vars(StartStep(CliStep(c)))
          /\ \A r \in Requests : WF_tunnelVars(TunnelStep(Step(r)))

\* EveryCommandEnds, in the behaviours that have commands: each comes to an
\* end, whoever crashes holding the lock (acquireServerLock, sendCommand).
CommandsEnd == \A c \in Clis : part = "start" ~> pc[c] \in Ended
=============================================================================
