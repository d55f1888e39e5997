----------------------------- MODULE PtySessions -----------------------------
(* The terminal of the side panel: POST /pty-session mints a token and grants  *)
(* it to the terminal agent over loopback, a WebSocket upgrade presents it,    *)
(* the first byte spawns claude in a PTY, and closing the socket disposes of   *)
(* both.  `connect` replaces the agent; agents and claudes die by themselves.  *)
EXTENDS Naturals, FiniteSets

CONSTANTS Sockets,    \* WebSocket connections of the panel
          MaxPtys,    \* bound: tokens minted
          MaxAgents   \* bound: terminal agents started

ASSUME PtyAssumption == MaxPtys \in Nat /\ MaxAgents \in Nat

VARIABLES
  agentState,  \* agent -> "booting", "up", "terminating" after SIGTERM, "dead"
  agentKilled, \* history: agents that SIGKILL or a crash ended
  portFile,    \* the agent that terminal-port names, 0 if there is no file
  tokenFile,   \* the agent whose secret terminal-internal-token holds
  validTokens, \* agent -> its validTokens
  ptyRegistry, \* tokens in the daemon's sessions map
  ptyExpired,  \* tokens older than TTL_MS
  grant,       \* token -> its /pty-session request: "sent", "added", "known" ...
  grantTo,     \* token -> the port and the secret that grantPtyToken read
  socket,      \* the WebSocket, its session and its process
  disposed     \* history: tokens whose session has been closed

ptyFiles == <<portFile, tokenFile>>
agentVars == <<agentState, agentKilled, ptyFiles, validTokens>>
grantVars == <<ptyRegistry, ptyExpired, grant, grantTo>>
ptyVars == <<agentVars, grantVars, socket, disposed>>

Made == DOMAIN grant
Started == DOMAIN agentState
NoSocket == [is |-> "none", token |-> 0, agent |-> 0, session |-> FALSE, spawned |-> FALSE, proc |-> "none",
             ref |-> FALSE, timer |-> FALSE]

PtyTypeOK ==
  /\ Made \in {1..n : n \in 0..MaxPtys} /\ Started \in {1..n : n \in 0..MaxAgents}
  /\ agentState \in [Started -> {"booting", "up", "terminating", "dead"}]
  /\ agentKilled \subseteq Started /\ portFile \in {0} \cup Started /\ tokenFile \in {0} \cup Started
  /\ validTokens \in [Started -> SUBSET Made]
  /\ ptyRegistry \subseteq Made /\ ptyExpired \subseteq Made /\ disposed \subseteq Made
  /\ grant \in [Made -> {"sent", "added", "known", "failed"}]
  /\ grantTo \in [Made -> [port : Started, secret : {0} \cup Started]]
  /\ \A w \in Sockets :
       /\ socket[w].is \in {"none", "open", "closing"}
       /\ socket[w].is # "none" => socket[w].token \in Made /\ socket[w].agent \in Started
       /\ socket[w].proc \in {"none", "running", "interrupted", "dead"}
       /\ socket[w].spawned => socket[w].session
       /\ socket[w].ref \in BOOLEAN /\ socket[w].timer \in BOOLEAN
       /\ socket[w].proc = "running" => socket[w].spawned

PtyInit ==
  /\ agentState = <<>> /\ agentKilled = {} /\ portFile = 0 /\ tokenFile = 0 /\ validTokens = <<>>
  /\ ptyRegistry = {} /\ ptyExpired = {} /\ grant = <<>> /\ grantTo = <<>>
  /\ socket = [w \in Sockets |-> NoSocket] /\ disposed = {}

With(f, x, y) == [z \in DOMAIN f \cup {x} |-> IF z = x THEN y ELSE f[z]]

-----------------------------------------------------------------------------
(* The agents.                                                               *)

\* pkill's SIGTERM; an agent that is still booting has no handler for it.
Terminated(state) == CASE state \in {"up", "terminating"} -> "terminating" [] OTHER -> "dead"

\* `connect`: the agents there are are terminated, and another is spawned.
ConnectSpawns ==
  /\ Cardinality(Started) < MaxAgents
  /\ LET a == Cardinality(Started) + 1
     IN /\ agentState' = With([b \in Started |-> Terminated(agentState[b])], a, "booting")
        /\ validTokens' = With(validTokens, a, {})
  /\ UNCHANGED <<agentKilled, ptyFiles, grantVars, socket, disposed>>

\* It writes its secret as the module loads, and its port from main().
AgentBoots(a) ==
  /\ agentState[a] = "booting"
  /\ agentState' = [agentState EXCEPT ![a] = "up"]
  /\ portFile' = a /\ tokenFile' = a
  /\ UNCHANGED <<agentKilled, validTokens, grantVars, socket, disposed>>

\* The sockets of an agent that is gone, and the PTYs behind them: the terminals hang up.
Orphans(a) ==
  socket' = [w \in Sockets |->
               IF socket[w].agent = a
               THEN [NoSocket EXCEPT !.proc = IF socket[w].proc = "none" THEN "none" ELSE "dead"]
               ELSE socket[w]]

\* The handler of SIGTERM unlinks the port file, whoever has written it by now.
AgentTerminates(a) ==
  /\ agentState[a] = "terminating"
  /\ agentState' = [agentState EXCEPT ![a] = "dead"]
  /\ portFile' = 0
  /\ validTokens' = [validTokens EXCEPT ![a] = {}]
  /\ Orphans(a)
  /\ UNCHANGED <<agentKilled, tokenFile, grantVars, disposed>>

AgentIsKilled(a) ==
  /\ agentState[a] # "dead"
  /\ agentState' = [agentState EXCEPT ![a] = "dead"]
  /\ agentKilled' = agentKilled \cup {a}
  /\ validTokens' = [validTokens EXCEPT ![a] = {}]
  /\ Orphans(a)
  /\ UNCHANGED <<ptyFiles, grantVars, disposed>>

\* The daemon's shutdown: SIGTERM, and both files go.
DaemonStops ==
  /\ Started # {}
  /\ agentState' = [b \in Started |-> Terminated(agentState[b])]
  /\ portFile' = 0 /\ tokenFile' = 0
  /\ UNCHANGED <<agentKilled, validTokens, grantVars, socket, disposed>>

-----------------------------------------------------------------------------
(* POST /pty-session.                                                        *)

\* A token is minted, expired ones are pruned, and the grant is posted to the port the
\* file names with the secret that the other file holds.
MintPty ==
  /\ portFile # 0 /\ Cardinality(Made) < MaxPtys
  /\ LET t == Cardinality(Made) + 1
     IN /\ ptyRegistry' = (ptyRegistry \ ptyExpired) \cup {t}
        /\ grant' = With(grant, t, IF tokenFile = 0 THEN "failed" ELSE "sent")
        /\ grantTo' = With(grantTo, t, [port |-> portFile, secret |-> tokenFile])
  /\ UNCHANGED <<agentVars, ptyExpired, socket, disposed>>

\* /internal/grant, with the secret of this agent.
GrantArrives(t) ==
  /\ grant[t] = "sent"
  /\ LET to == grantTo[t]
     IN /\ agentState[to.port] \in {"up", "terminating"} /\ to.secret = to.port
        /\ validTokens' = [validTokens EXCEPT ![to.port] = @ \cup {t}]
  /\ grant' = [grant EXCEPT ![t] = "added"]
  /\ UNCHANGED <<agentState, agentKilled, ptyFiles, ptyRegistry, ptyExpired, grantTo, socket, disposed>>

\* Its answer, and with it the answer to the panel.
GrantAnswered(t) ==
  /\ grant[t] = "added"
  /\ grant' = [grant EXCEPT ![t] = "known"]
  /\ UNCHANGED <<agentVars, ptyRegistry, ptyExpired, grantTo, socket, disposed>>

\* 403, no connection, or two seconds without an answer, also to a grant that has been
\* received: the daemon forgets the token, the agent is not told.
GrantFails(t) ==
  /\ grant[t] \in {"sent", "added"} \/ (grant[t] = "failed" /\ t \in ptyRegistry)
  /\ grant' = [grant EXCEPT ![t] = "failed"]
  /\ ptyRegistry' = ptyRegistry \ {t}
  /\ UNCHANGED <<agentVars, ptyExpired, grantTo, socket, disposed>>

PtyExpires(t) ==
  /\ t \notin ptyExpired
  /\ ptyExpired' = ptyExpired \cup {t}
  /\ UNCHANGED <<agentVars, ptyRegistry, grant, grantTo, socket, disposed>>

-----------------------------------------------------------------------------
(* The WebSocket.                                                            *)

\* /ws: any token of validTokens upgrades, once or more often, whatever its age.
Upgrade(w, t) ==
  /\ socket[w].is = "none" /\ socket[w].proc \in {"none", "dead"} /\ ~socket[w].timer
  /\ grant[t] = "known"
  /\ LET a == grantTo[t].port
     IN /\ agentState[a] \in {"up", "terminating"} /\ t \in validTokens[a]
        /\ socket' = [socket EXCEPT ![w] = [NoSocket EXCEPT !.is = "open", !.token = t, !.agent = a]]
  /\ UNCHANGED <<agentVars, grantVars, disposed>>

\* A text frame: resize, tabSwitch, tabState.  The session begins with the first frame.
TextFrame(w) ==
  /\ socket[w].is = "open"
  /\ socket' = [socket EXCEPT ![w].session = TRUE]
  /\ UNCHANGED <<agentVars, grantVars, disposed>>

\* The first binary frame spawns claude; without one on PATH the socket is closed.
BinaryFrame(w) ==
  /\ socket[w].is = "open" /\ ~socket[w].spawned
  /\ \E found \in BOOLEAN :
       socket' = [socket EXCEPT ![w].session = TRUE, ![w].spawned = TRUE,
                    ![w].proc = IF found THEN "running" ELSE "none", ![w].ref = found,
                    ![w].is = IF found THEN "open" ELSE "closing"]
  /\ UNCHANGED <<agentVars, grantVars, disposed>>

\* claude exits, and its socket is closed.
ClaudeExits(w) ==
  /\ socket[w].proc \in {"running", "interrupted"}
  /\ socket' = [socket EXCEPT ![w].proc = "dead",
                              ![w].is = IF socket[w].is = "open" THEN "closing" ELSE @]
  /\ UNCHANGED <<agentVars, grantVars, disposed>>

\* Mutants: claude is not interrupted; the token stays valid.
MutInterrupted(s) == s.proc
MutDropped(s) == validTokens

\* disposeSession's SIGINT, and the deletion of the session's token.
Interrupted(s) == IF s.proc = "running" THEN "interrupted" ELSE s.proc
Dropped(s) == IF s.session THEN [validTokens EXCEPT ![s.agent] = @ \ {s.token}] ELSE validTokens

\* close(ws), with disposeSession: the process is interrupted, the timer of three seconds
\* is set, session.proc becomes null, and the token of the session is dropped.
SocketCloses(w) ==
  /\ socket[w].is \in {"open", "closing"}
  /\ LET s == socket[w]
     IN /\ socket' = [socket EXCEPT ![w] =
                        [NoSocket EXCEPT !.proc = Interrupted(s), !.timer = s.ref]]
        /\ validTokens' = Dropped(s)
        /\ disposed' = IF s.session THEN disposed \cup {s.token} ELSE disposed
  /\ UNCHANGED <<agentState, agentKilled, ptyFiles, grantVars>>

\* The three seconds are over: SIGKILL to session.proc, if there is one.
KillTimer(w) ==
  /\ socket[w].timer
  /\ socket' = [socket EXCEPT ![w].timer = FALSE,
                              ![w].proc = IF socket[w].ref THEN "dead" ELSE @]
  /\ UNCHANGED <<agentVars, grantVars, disposed>>

PtyNext ==
  \/ ConnectSpawns \/ DaemonStops \/ MintPty
  \/ \E a \in Started : AgentBoots(a) \/ AgentTerminates(a) \/ AgentIsKilled(a)
  \/ \E t \in Made : GrantArrives(t) \/ GrantAnswered(t) \/ GrantFails(t) \/ PtyExpires(t)
  \/ \E w \in Sockets :
       \/ TextFrame(w) \/ BinaryFrame(w) \/ ClaudeExits(w) \/ SocketCloses(w) \/ KillTimer(w)
       \/ \E t \in Made : Upgrade(w, t)

\* A close that is under way completes and timers fire; claude need not exit.
PtyFairness == \A w \in Sockets :
                  WF_ptyVars(SocketCloses(w) /\ socket[w].is = "closing") /\ WF_ptyVars(KillTimer(w))

PtySpec == PtyInit /\ [][PtyNext]_ptyVars /\ PtyFairness

-----------------------------------------------------------------------------
(* Properties.                                                               *)

\* The token of a session that has been closed opens no socket again, at any agent and
\* however its grant and its sockets raced (terminal-agent.ts: "Drop the cookie so it
\* can't be replayed against a new PTY"); and the port file names no agent that has
\* left in order.
TokensAreNotReplayed ==
  /\ \A a \in Started : validTokens[a] \cap disposed = {}
  /\ portFile # 0 => (agentState[portFile] # "dead" \/ portFile \in agentKilled)

\* A process whose terminal was closed does not survive it (terminal-agent.ts:
\* "Cleanup a PTY session: SIGINT, then SIGKILL after 3s").
PtyIsKilled == \A w \in Sockets : (socket[w].proc = "interrupted") ~> (socket[w].proc = "dead")
=============================================================================
