----------------------------- MODULE BrowserProofs ----------------------------
(* Proofs about what commands do to pages and with what they download, and   *)
(* about the sessions of terminals.                                          *)
EXTENDS PtySessions, PageSessions, PageVisuals, TabEach, Downloads, Integers,
        FiniteSetTheorems, SequenceTheorems, WellFoundedInduction, TLAPS

-----------------------------------------------------------------------------
(* PtySessions: TokensAreNotReplayed for any number of sockets, tokens and   *)
(* agents.  A token could come back only by its grant, and a grant that has  *)
(* not arrived opens no socket: a token whose session has been closed has    *)
(* the grant "known" for ever, and only the agent it was granted to can hold *)
(* it.                                                                       *)

\* A socket as it can be.
Socket == [is : {"none", "open", "closing"}, token : Nat, agent : Nat, session : BOOLEAN,
           spawned : BOOLEAN, proc : {"none", "running", "interrupted", "dead"},
           ref : BOOLEAN, timer : BOOLEAN]

\* The kinds of the variables.
PtyKinds ==
  /\ \E n \in Nat : Made = 1..n
  /\ \E n \in Nat : Started = 1..n
  /\ agentState \in [Started -> {"booting", "up", "terminating", "dead"}]
  /\ portFile \in {0} \cup Started
  /\ validTokens \in [Started -> SUBSET Made]
  /\ grant \in [Made -> {"sent", "added", "known", "failed"}]
  /\ grantTo \in [Made -> [port : Started, secret : Nat]]
  /\ tokenFile \in Nat
  /\ socket \in [Sockets -> Socket]

\* A socket was opened with a token whose grant was answered, at the agent of the grant.
SocketsGranted ==
  \A w \in Sockets : socket[w].is # "none" =>
    /\ socket[w].token \in Made
    /\ grant[socket[w].token] = "known"
    /\ socket[w].agent = grantTo[socket[w].token].port

\* An agent holds the tokens that were granted to it.
HeldWhereGranted == \A a \in Started : \A t \in validTokens[a] : grantTo[t].port = a

\* A disposed token's grant was answered.
DisposedKnown == \A t \in disposed : t \in Made /\ grant[t] = "known"

\* The port file is written by an agent that has booted.
PortBooted == portFile # 0 => agentState[portFile] # "booting"

\* The inductive invariant.
PtyInv == /\ PtyKinds /\ SocketsGranted /\ HeldWhereGranted /\ DisposedKnown /\ PortBooted
       /\ TokensAreNotReplayed

\* No agent and no token at first.
LEMMA PtyInitInv == PtyInit => PtyInv
<1> SUFFICES ASSUME PtyInit PROVE PtyInv
  OBVIOUS
<1>1. Made = {} /\ Started = {} /\ 1..0 = {}
  BY DEF PtyInit, Made, Started
<1>2. socket \in [Sockets -> Socket] /\ \A w \in Sockets : socket[w].is = "none"
  BY DEF PtyInit, NoSocket, Socket
<1> QED
  BY <1>1, <1>2 DEF PtyInit, PtyInv, PtyKinds, Made, Started, SocketsGranted, HeldWhereGranted,
                    DisposedKnown, PortBooted, TokensAreNotReplayed

\* The next number is not in use yet.
LEMMA FreshNumber ==
  ASSUME NEW S, NEW n \in Nat, S = 1..n
  PROVE  /\ Cardinality(S) + 1 = n + 1
         /\ n + 1 \notin S
         /\ S \cup {n + 1} = 1..(n + 1)
<1>1. Cardinality(1..n) = n BY FS_Interval
<1> QED BY <1>1

\* The steps of the agents.
LEMMA SpawnKept == PtyInv /\ ConnectSpawns => PtyInv'
<1> SUFFICES ASSUME PtyInv, ConnectSpawns PROVE PtyInv'
  OBVIOUS
<1> DEFINE a == Cardinality(Started) + 1
<1>0. UNCHANGED <<agentKilled, portFile, tokenFile, ptyRegistry, ptyExpired, grant, grantTo,
                  socket, disposed>>
  BY DEF ConnectSpawns, ptyFiles, grantVars
<1>1. PICK n \in Nat : Started = 1..n BY DEF PtyInv, PtyKinds
<1>2. a = n + 1 /\ a \notin Started /\ Started \cup {a} = 1..(n + 1)
  BY <1>1, FreshNumber
<1> HIDE DEF a
<1>3. /\ agentState' = With([b \in Started |-> Terminated(agentState[b])], a, "booting")
      /\ validTokens' = With(validTokens, a, {})
  BY DEF ConnectSpawns, a
<1>4. DOMAIN validTokens = Started BY DEF PtyInv, PtyKinds
<1>5. /\ Started' = Started \cup {a}
      /\ \A b \in Started : agentState'[b] = Terminated(agentState[b])
      /\ agentState'[a] = "booting"
      /\ agentState' \in [Started' -> {"booting", "up", "terminating", "dead"}]
  BY <1>2, <1>3 DEF With, Started, Terminated
<1>6. /\ \A b \in Started : validTokens'[b] = validTokens[b]
      /\ validTokens'[a] = {}
      /\ validTokens' \in [Started' -> SUBSET Made]
  BY <1>2, <1>3, <1>4, <1>5 DEF With, PtyInv, PtyKinds
<1>7. Made' = Made BY <1>0 DEF Made
<1>8. PtyKinds'
  <2>1. \E m \in Nat : Started' = 1..m BY <1>1, <1>2, <1>5
  <2>2. grantTo' \in [Made' -> [port : Started', secret : Nat]]
    BY <1>0, <1>5, <1>7 DEF PtyInv, PtyKinds
  <2> QED BY <1>0, <1>5, <1>6, <1>7, <2>1, <2>2 DEF PtyInv, PtyKinds
<1>9. SocketsGranted' /\ DisposedKnown'
  BY <1>0, <1>7 DEF PtyInv, SocketsGranted, DisposedKnown
<1>10. HeldWhereGranted' BY <1>0, <1>5, <1>6 DEF PtyInv, HeldWhereGranted
<1>11. PortBooted' /\ TokensAreNotReplayed'
  <2>1. portFile \in {0} \cup Started /\ 0 \notin Started BY <1>1 DEF PtyInv, PtyKinds
  <2>2. \A b \in Started : agentState[b] \notin {"booting", "dead"} =>
                             agentState'[b] = "terminating"
    BY <1>5 DEF Terminated, PtyInv, PtyKinds
  <2>3. \A b \in Started : agentState[b] = "dead" => agentState'[b] = "dead"
    BY <1>5 DEF Terminated
  <2> QED BY <1>0, <1>5, <1>6, <2>1, <2>2, <2>3 DEF PtyInv, PortBooted, TokensAreNotReplayed
<1> QED BY <1>8, <1>9, <1>10, <1>11 DEF PtyInv

\* The steps of the agents keep it.
LEMMA AgentsKept ==
  ASSUME PtyInv, NEW a \in Started, AgentBoots(a) \/ AgentTerminates(a) \/ AgentIsKilled(a)
  PROVE  PtyInv'
<1> USE DEF PtyInv, PtyKinds, SocketsGranted, HeldWhereGranted, DisposedKnown, PortBooted,
            TokensAreNotReplayed
<1>0. 0 \notin Started OBVIOUS
<1>1. CASE AgentBoots(a)
  BY <1>0, <1>1 DEF AgentBoots, Made, Started, grantVars
<1>2. ASSUME Orphans(a)
      PROVE  /\ socket' \in [Sockets -> Socket]
             /\ \A w \in Sockets : socket'[w].is # "none" => socket'[w] = socket[w]
  BY <1>2 DEF Orphans, NoSocket, Socket
<1>3. ASSUME validTokens' = [validTokens EXCEPT ![a] = {}], UNCHANGED <<grant, grantTo, disposed>>,
             agentState' = [agentState EXCEPT ![a] = "dead"]
      PROVE  /\ Started' = Started /\ Made' = Made
             /\ validTokens' \in [Started -> SUBSET Made]
             /\ \A b \in Started : validTokens'[b] \subseteq validTokens[b]
             /\ agentState' \in [Started -> {"booting", "up", "terminating", "dead"}]
             /\ agentState'[a] = "dead"
             /\ \A b \in Started : b # a => agentState'[b] = agentState[b]
  BY <1>3 DEF Started, Made
<1>4. ASSUME socket' \in [Sockets -> Socket],
             \A w \in Sockets : socket'[w].is # "none" => socket'[w] = socket[w],
             validTokens' = [validTokens EXCEPT ![a] = {}], UNCHANGED <<grant, grantTo, disposed>>,
             agentState' = [agentState EXCEPT ![a] = "dead"], UNCHANGED tokenFile,
             \/ portFile' = 0 /\ UNCHANGED agentKilled
             \/ UNCHANGED portFile /\ agentKilled' = agentKilled \cup {a}
      PROVE  PtyInv'
  <2> HIDE DEF Socket
  <2>0. /\ Started' = Started /\ Made' = Made
        /\ validTokens' \in [Started -> SUBSET Made]
        /\ \A b \in Started : validTokens'[b] \subseteq validTokens[b]
        /\ agentState' \in [Started -> {"booting", "up", "terminating", "dead"}]
        /\ agentState'[a] = "dead"
        /\ \A b \in Started : b # a => agentState'[b] = agentState[b]
    BY <1>3, <1>4
  <2>1. portFile' \in {0} \cup Started BY <1>4
  <2>2. PtyKinds' BY <1>4, <2>0, <2>1
  <2>3. SocketsGranted' BY <1>4, <2>0
  <2>4. HeldWhereGranted' /\ DisposedKnown' BY <1>4, <2>0
  <2>5. PortBooted' BY <1>4, <2>0, <2>1, <1>0
  <2>6. TokensAreNotReplayed'
    <3>1. \A b \in Started : validTokens'[b] \cap disposed' = {} BY <1>4, <2>0
    <3>2. portFile' # 0 => (agentState'[portFile'] # "dead" \/ portFile' \in agentKilled')
      BY <1>4, <2>0, <1>0
    <3> QED BY <2>0, <3>1, <3>2
  <2> QED BY <2>2, <2>3, <2>4, <2>5, <2>6
<1>5. CASE AgentTerminates(a)
  BY <1>2, <1>4, <1>5 DEF AgentTerminates, grantVars
<1>6. CASE AgentIsKilled(a)
  BY <1>2, <1>4, <1>6 DEF AgentIsKilled, grantVars, ptyFiles
<1> QED BY <1>1, <1>5, <1>6

\* So does the end of the daemon.
LEMMA DaemonStopKept == PtyInv /\ DaemonStops => PtyInv'
<1> SUFFICES ASSUME PtyInv, DaemonStops PROVE PtyInv'
  OBVIOUS
<1>1. /\ Started' = Started /\ Made' = Made
      /\ agentState' \in [Started -> {"booting", "up", "terminating", "dead"}]
  BY DEF DaemonStops, PtyInv, PtyKinds, Started, Made, Terminated, grantVars
<1> QED
  BY <1>1 DEF DaemonStops, PtyInv, PtyKinds, SocketsGranted, HeldWhereGranted, DisposedKnown,
              PortBooted, TokensAreNotReplayed, grantVars

\* The steps of POST /pty-session.
LEMMA MintKept == PtyInv /\ MintPty => PtyInv'
<1> SUFFICES ASSUME PtyInv, MintPty PROVE PtyInv'
  OBVIOUS
<1> DEFINE t == Cardinality(Made) + 1
<1>0. UNCHANGED <<agentState, agentKilled, portFile, tokenFile, validTokens, socket, disposed>>
  BY DEF MintPty, agentVars, ptyFiles
<1>1. PICK n \in Nat : Made = 1..n BY DEF PtyInv, PtyKinds
<1>2. t = n + 1 /\ t \notin Made /\ Made \cup {t} = 1..(n + 1)
  BY <1>1, FreshNumber
<1> HIDE DEF t
<1>3. /\ grant' = With(grant, t, IF tokenFile = 0 THEN "failed" ELSE "sent")
      /\ grantTo' = With(grantTo, t, [port |-> portFile, secret |-> tokenFile])
      /\ portFile # 0
  BY DEF MintPty, t
<1>4. DOMAIN grantTo = Made /\ Started' = Started BY <1>0 DEF PtyInv, PtyKinds, Started
<1>5. /\ Made' = Made \cup {t}
      /\ \A u \in Made : grant'[u] = grant[u]
      /\ grant' \in [Made' -> {"sent", "added", "known", "failed"}]
  BY <1>2, <1>3 DEF With, Made, PtyInv, PtyKinds
<1>6. /\ \A u \in Made : grantTo'[u] = grantTo[u]
      /\ grantTo' \in [Made' -> [port : Started, secret : Nat]]
  BY <1>2, <1>3, <1>4, <1>5 DEF With, PtyInv, PtyKinds
<1>7. PtyKinds'
  <2>1. \E m \in Nat : Made' = 1..m BY <1>1, <1>2, <1>5
  <2>2. validTokens' \in [Started' -> SUBSET Made'] BY <1>0, <1>4, <1>5 DEF PtyInv, PtyKinds
  <2> QED BY <1>0, <1>4, <1>5, <1>6, <2>1, <2>2 DEF PtyInv, PtyKinds
<1>8. SocketsGranted' BY <1>0, <1>5, <1>6 DEF PtyInv, SocketsGranted
<1>9. HeldWhereGranted'
  BY <1>0, <1>4, <1>6 DEF PtyInv, PtyKinds, HeldWhereGranted
<1>10. DisposedKnown' BY <1>0, <1>5 DEF PtyInv, DisposedKnown
<1>11. PortBooted' /\ TokensAreNotReplayed'
  BY <1>0, <1>4 DEF PtyInv, PortBooted, TokensAreNotReplayed
<1> QED BY <1>7, <1>8, <1>9, <1>10, <1>11 DEF PtyInv

\* And the grants on their way.
LEMMA GrantsKept ==
  ASSUME PtyInv, NEW t \in Made,
         GrantArrives(t) \/ GrantAnswered(t) \/ GrantFails(t) \/ PtyExpires(t)
  PROVE  PtyInv'
<1> USE DEF PtyInv, PtyKinds, SocketsGranted, HeldWhereGranted, DisposedKnown, PortBooted,
            TokensAreNotReplayed, Made, Started
<1>1. CASE GrantArrives(t)
  BY <1>1 DEF GrantArrives, ptyFiles
<1>2. CASE GrantAnswered(t)
  BY <1>2 DEF GrantAnswered, agentVars, ptyFiles
<1>3. CASE GrantFails(t)
  BY <1>3 DEF GrantFails, agentVars, ptyFiles
<1>4. CASE PtyExpires(t)
  BY <1>4 DEF PtyExpires, agentVars, ptyFiles
<1> QED BY <1>1, <1>2, <1>3, <1>4

\* The steps of the sockets.
LEMMA SocketsKept ==
  ASSUME PtyInv, NEW w \in Sockets,
         \/ TextFrame(w) \/ BinaryFrame(w) \/ ClaudeExits(w) \/ SocketCloses(w) \/ KillTimer(w)
         \/ \E t \in Made : Upgrade(w, t)
  PROVE  PtyInv'
<1> USE DEF PtyInv, PtyKinds, Socket, SocketsGranted
<1>1. ASSUME UNCHANGED agentVars, UNCHANGED grantVars, UNCHANGED disposed,
             socket' \in [Sockets -> Socket], SocketsGranted'
      PROVE  PtyInv'
  BY <1>1 DEF agentVars, grantVars, ptyFiles, Made, Started, HeldWhereGranted, DisposedKnown,
              PortBooted, TokensAreNotReplayed
<1>0. ASSUME NEW s \in Socket, socket' = [socket EXCEPT ![w] = s]
      PROVE  socket' \in [Sockets -> Socket]
  <2> HIDE DEF Socket
  <2> QED BY <1>0
<1>00. socket[w] \in Socket
  <2> HIDE DEF Socket
  <2> QED OBVIOUS
<1>2. CASE TextFrame(w)
  <2>1. [socket[w] EXCEPT !.session = TRUE] \in Socket BY <1>00
  <2>2. socket' = [socket EXCEPT ![w] = [socket[w] EXCEPT !.session = TRUE]]
    BY <1>2 DEF TextFrame
  <2>3. socket' \in [Sockets -> Socket] BY <1>0, <2>1, <2>2
  <2>4. SocketsGranted' BY <1>2 DEF TextFrame, Made, grantVars
  <2> QED BY <1>1, <1>2, <2>3, <2>4 DEF TextFrame
<1>3. CASE BinaryFrame(w)
  <2>1. PICK found \in BOOLEAN :
          socket' = [socket EXCEPT ![w] =
            [socket[w] EXCEPT !.session = TRUE, !.spawned = TRUE,
               !.proc = IF found THEN "running" ELSE "none", !.ref = found,
               !.is = IF found THEN "open" ELSE "closing"]]
    BY <1>3, ZenonT(30) DEF BinaryFrame
  <2> DEFINE s == [socket[w] EXCEPT !.session = TRUE, !.spawned = TRUE,
                     !.proc = IF found THEN "running" ELSE "none", !.ref = found,
                     !.is = IF found THEN "open" ELSE "closing"]
  <2>2. s \in Socket /\ s.token = socket[w].token /\ s.agent = socket[w].agent BY <1>00
  <2>3. socket[w].is = "open" BY <1>3 DEF BinaryFrame
  <2> HIDE DEF s, Socket
  <2>4. socket' \in [Sockets -> Socket] BY <1>0, <2>1, <2>2 DEF s
  <2>5. socket' = [socket EXCEPT ![w] = s] BY <2>1 DEF s
  <2>6. SocketsGranted' BY <1>3, <2>2, <2>3, <2>5 DEF BinaryFrame, Made, grantVars
  <2> QED BY <1>1, <1>3, <2>4, <2>6 DEF BinaryFrame
<1>4. CASE ClaudeExits(w)
  <2> DEFINE s == [socket[w] EXCEPT !.proc = "dead",
                     !.is = IF socket[w].is = "open" THEN "closing" ELSE socket[w].is]
  <2>1. s \in Socket BY <1>00
  <2>2. socket' = [socket EXCEPT ![w] = s] BY <1>4 DEF ClaudeExits
  <2>3. socket' \in [Sockets -> Socket] BY <1>0, <2>1, <2>2
  <2>4. SocketsGranted' BY <1>4 DEF ClaudeExits, Made, grantVars
  <2> QED BY <1>1, <1>4, <2>3, <2>4 DEF ClaudeExits
<1>5. CASE KillTimer(w)
  <2> DEFINE s == [socket[w] EXCEPT !.timer = FALSE,
                     !.proc = IF socket[w].ref THEN "dead" ELSE socket[w].proc]
  <2>1. s \in Socket BY <1>00
  <2>2. socket' = [socket EXCEPT ![w] = s] BY <1>5 DEF KillTimer
  <2>3. socket' \in [Sockets -> Socket] BY <1>0, <2>1, <2>2
  <2>4. SocketsGranted' BY <1>5 DEF KillTimer, Made, grantVars
  <2> QED BY <1>1, <1>5, <2>3, <2>4 DEF KillTimer
<1>6. ASSUME NEW t \in Made, Upgrade(w, t) PROVE PtyInv'
  <2> DEFINE s == [NoSocket EXCEPT !.is = "open", !.token = t, !.agent = grantTo[t].port]
  <2>1. t \in Nat /\ grantTo[t].port \in Nat OBVIOUS
  <2>2. NoSocket \in Socket BY DEF NoSocket
  <2>3. s \in Socket BY <2>1, <2>2, Zenon
  <2>4. s.token = t /\ s.agent = grantTo[t].port BY DEF NoSocket
  <2>5. socket' = [socket EXCEPT ![w] = s] BY <1>6 DEF Upgrade
  <2> HIDE DEF s, Socket
  <2>6. socket' \in [Sockets -> Socket] BY <1>0, <2>3, <2>5
  <2>7. grant[t] = "known" /\ grant' = grant /\ grantTo' = grantTo /\ Made' = Made
    BY <1>6 DEF Upgrade, Made, grantVars
  <2>8. SocketsGranted' BY <2>4, <2>5, <2>7
  <2> QED BY <1>1, <1>6, <2>6, <2>8 DEF Upgrade
<1>7. CASE SocketCloses(w)
  <2> DEFINE s == socket[w]
  <2>0. /\ s \in Socket /\ s.token \in Made /\ grant[s.token] = "known"
        /\ s.agent = grantTo[s.token].port /\ s.agent \in Started
        /\ UNCHANGED <<agentState, agentKilled, portFile, tokenFile, grant, grantTo>>
        /\ Made' = Made /\ Started' = Started
    BY <1>7 DEF SocketCloses, Made, Started, grantVars, ptyFiles
  <2>1. socket' = [socket EXCEPT ![w] = [NoSocket EXCEPT !.proc = Interrupted(s), !.timer = s.ref]]
    BY <1>7 DEF SocketCloses
  <2>2. socket' \in [Sockets -> Socket] /\ socket'[w].is = "none"
    BY <2>0, <2>1 DEF NoSocket, Interrupted
  <2>3. SocketsGranted' BY <2>0, <2>1, <2>2
  <2>4. /\ validTokens' \in [Started -> SUBSET Made]
        /\ \A a \in Started : validTokens'[a] \subseteq validTokens[a]
        /\ s.session => s.token \notin validTokens'[s.agent]
    BY <1>7, <2>0 DEF SocketCloses, Dropped
  <2>5. disposed' = IF s.session THEN disposed \cup {s.token} ELSE disposed
    BY <1>7 DEF SocketCloses
  <2>6. DisposedKnown' BY <2>0, <2>5 DEF DisposedKnown
  <2>7. HeldWhereGranted' BY <2>0, <2>4 DEF HeldWhereGranted
  <2>8. PortBooted' BY <2>0 DEF PortBooted
  <2>9. TokensAreNotReplayed'
    <3>1. \A a \in Started : s.token \in validTokens[a] => a = s.agent
      BY <2>0 DEF HeldWhereGranted
    <3>2. \A a \in Started : validTokens'[a] \cap disposed' = {}
      BY <2>4, <2>5, <3>1 DEF TokensAreNotReplayed
    <3> QED BY <2>0, <3>2 DEF TokensAreNotReplayed
  <2> QED BY <2>0, <2>2, <2>3, <2>4, <2>6, <2>7, <2>8, <2>9
<1> QED BY <1>2, <1>3, <1>4, <1>5, <1>6, <1>7

\* Every step keeps the invariant.
LEMMA PtyStepKept == PtyInv /\ [PtyNext]_ptyVars => PtyInv'
<1> SUFFICES ASSUME PtyInv, [PtyNext]_ptyVars PROVE PtyInv'
  OBVIOUS
<1>1. CASE UNCHANGED ptyVars
  BY <1>1 DEF ptyVars, agentVars, grantVars, ptyFiles, PtyInv, PtyKinds, Made, Started,
              SocketsGranted, HeldWhereGranted, DisposedKnown, PortBooted, TokensAreNotReplayed
<1> QED BY <1>1, SpawnKept, AgentsKept, DaemonStopKept, MintKept, GrantsKept, SocketsKept DEF PtyNext

\* The invariant holds in every behaviour.
THEOREM PtyInvariance == PtySpec => []PtyInv
BY PtyInitInv, PtyStepKept, PTL DEF PtySpec

\* A token whose session has been closed opens no socket again (disposeSession and its
\* caller), and the port file names no agent that has left in order (its SIGTERM handler),
\* for any number of agents, tokens and sockets.
THEOREM NoReplay == PtySpec => []TokensAreNotReplayed
<1>1. PtyInv => TokensAreNotReplayed BY DEF PtyInv
<1> QED BY <1>1, PtyInvariance, PTL

\* What there is of agents and tokens, within the bounds.
PtyBounds ==
  /\ Cardinality(Made) <= MaxPtys /\ Cardinality(Started) <= MaxAgents
  /\ agentKilled \subseteq Started /\ tokenFile \in {0} \cup Started
  /\ ptyRegistry \subseteq Made /\ ptyExpired \subseteq Made
  /\ \A t \in Made : grantTo[t].secret \in {0} \cup Started

\* Only an open session spawns, and only what was spawned runs.
Processes ==
  \A w \in Sockets : /\ socket[w].spawned => socket[w].session
                     /\ socket[w].proc = "running" => socket[w].spawned

\* The numbers up to n are n.
LEMMA CountIs == \A n \in Nat : Cardinality(1..n) = n
<1> TAKE n \in Nat
<1>1. n \in Int /\ 1 \in Int
  OBVIOUS
<1>2. Cardinality(1..n) = IF 1 > n THEN 0 ELSE n - 1 + 1
  BY <1>1, FS_Interval
<1> QED BY <1>2

\* What mints no token and starts no agent stays within the bounds.
LEMMA BoundsBySame ==
  ASSUME PtyBounds, Made' = Made, Started' = Started, UNCHANGED <<agentKilled, grantTo>>,
         tokenFile' \in {0, tokenFile}, ptyRegistry' \subseteq Made, ptyExpired' \subseteq Made
  PROVE  PtyBounds'
<1>1. PICK m, n : m = Made /\ n = Started
  OBVIOUS
<1>2. Cardinality(Made') <= MaxPtys /\ Cardinality(Started') <= MaxAgents
  BY Zenon DEF PtyBounds
<1> QED BY <1>2 DEF PtyBounds

\* No step exceeds them.
LEMMA PtyBoundsKept == PtyInv /\ PtyBounds /\ [PtyNext]_ptyVars => PtyBounds'
<1> SUFFICES ASSUME PtyInv, PtyBounds, [PtyNext]_ptyVars PROVE PtyBounds'
  OBVIOUS
<1>1. CASE UNCHANGED ptyVars
  BY <1>1, BoundsBySame DEF ptyVars, agentVars, grantVars, ptyFiles, Made, Started, PtyBounds
<1>2. CASE ConnectSpawns
  <2>1. PICK n \in Nat : Started = 1..n
    BY DEF PtyInv, PtyKinds
  <2>2. PICK a : a = Cardinality(Started) + 1
    OBVIOUS
  <2>3. Cardinality(Started) = n /\ a = n + 1 /\ Started \cup {a} = 1..(n + 1)
    BY <2>1, <2>2, FreshNumber, CountIs
  <2>4. Started' = Started \cup {a}
    BY <1>2, <2>2 DEF ConnectSpawns, With, Started
  <2>5. Cardinality(1..(n + 1)) = n + 1
    BY CountIs
  <2>6. Cardinality(Started') <= MaxAgents
    <3>1. Cardinality(Started) < MaxAgents
      BY <1>2 DEF ConnectSpawns
    <3>2. Cardinality(Started') = n + 1
      BY <2>3, <2>4, <2>5
    <3>3. n + 1 <= MaxAgents
      BY <2>3, <3>1, PtyAssumption
    <3> QED BY <3>2, <3>3
  <2>7. UNCHANGED <<agentKilled, tokenFile, ptyRegistry, ptyExpired, grantTo, grant>> /\ Made' = Made
    BY <1>2 DEF ConnectSpawns, ptyFiles, grantVars, Made
  <2> QED BY <2>4, <2>6, <2>7 DEF PtyBounds
<1>3. CASE MintPty
  <2>1. PICK n \in Nat : Made = 1..n
    BY DEF PtyInv, PtyKinds
  <2>2. PICK t : t = Cardinality(Made) + 1
    OBVIOUS
  <2>3. Cardinality(Made) = n /\ t = n + 1 /\ Made \cup {t} = 1..(n + 1)
    BY <2>1, <2>2, FreshNumber, CountIs
  <2>4. Made' = Made \cup {t} /\ Started' = Started
    BY <1>3, <2>2 DEF MintPty, With, Made, Started, agentVars
  <2>5. Cardinality(1..(n + 1)) = n + 1
    BY CountIs
  <2>6. Cardinality(Made') <= MaxPtys
    <3>1. Cardinality(Made) < MaxPtys
      BY <1>3 DEF MintPty
    <3>2. Cardinality(Made') = n + 1
      BY <2>3, <2>4, <2>5
    <3>3. n + 1 <= MaxPtys
      BY <2>3, <3>1, PtyAssumption
    <3> QED BY <3>2, <3>3
  <2>7. /\ UNCHANGED <<agentKilled, tokenFile, ptyExpired>>
        /\ ptyRegistry' = (ptyRegistry \ ptyExpired) \cup {t}
        /\ grantTo' = With(grantTo, t, [port |-> portFile, secret |-> tokenFile])
    BY <1>3, <2>2 DEF MintPty, agentVars, ptyFiles
  <2>8. DOMAIN grantTo = Made
    BY DEF PtyInv, PtyKinds
  <2>9. \A u \in Made' : grantTo'[u].secret \in {0} \cup Started
    BY <2>4, <2>7, <2>8 DEF With, PtyBounds
  <2> QED BY <2>4, <2>6, <2>7, <2>9 DEF PtyBounds
<1>4. ASSUME NEW a \in Started, AgentBoots(a) PROVE PtyBounds'
  <2>1. /\ UNCHANGED <<agentKilled, grantTo, ptyRegistry, ptyExpired>> /\ tokenFile' = a
        /\ Made' = Made /\ Started' = Started
    BY <1>4 DEF AgentBoots, Made, Started, grantVars
  <2>2. Cardinality(Made') <= MaxPtys /\ Cardinality(Started') <= MaxAgents
    BY <2>1, Zenon DEF PtyBounds
  <2> QED BY <2>1, <2>2 DEF PtyBounds
<1>5. ASSUME NEW a \in Started, AgentIsKilled(a) PROVE PtyBounds'
  <2>1. /\ UNCHANGED <<tokenFile, grantTo, ptyRegistry, ptyExpired>> /\ agentKilled' = agentKilled \cup {a}
        /\ Made' = Made /\ Started' = Started
    BY <1>5 DEF AgentIsKilled, Made, Started, grantVars, ptyFiles
  <2>2. Cardinality(Made') <= MaxPtys /\ Cardinality(Started') <= MaxAgents
    BY <2>1, Zenon DEF PtyBounds
  <2> QED BY <2>1, <2>2 DEF PtyBounds
<1>6. CASE DaemonStops \/ \E a \in Started : AgentTerminates(a)
  <2>1. /\ UNCHANGED <<agentKilled, grantTo, ptyRegistry, ptyExpired>> /\ tokenFile' \in {0, tokenFile}
        /\ Made' = Made /\ Started' = Started
    BY <1>6 DEF DaemonStops, AgentTerminates, Made, Started, grantVars
  <2> QED BY <2>1, BoundsBySame DEF PtyBounds
<1>7. ASSUME NEW t \in Made, GrantArrives(t) \/ GrantAnswered(t) \/ GrantFails(t) \/ PtyExpires(t)
      PROVE  PtyBounds'
  <2>1. /\ UNCHANGED <<agentKilled, grantTo, tokenFile>>
        /\ ptyRegistry' \subseteq ptyRegistry /\ ptyExpired' \subseteq ptyExpired \cup {t}
    BY <1>7 DEF GrantArrives, GrantAnswered, GrantFails, PtyExpires, agentVars, ptyFiles
  <2>2. Made' = Made /\ Started' = Started
    BY <1>7 DEF GrantArrives, GrantAnswered, GrantFails, PtyExpires, agentVars, Made, Started
  <2> QED BY <2>1, <2>2, BoundsBySame DEF PtyBounds
<1>8. ASSUME NEW w \in Sockets,
             \/ TextFrame(w) \/ BinaryFrame(w) \/ ClaudeExits(w) \/ SocketCloses(w) \/ KillTimer(w)
             \/ \E t \in Made : Upgrade(w, t)
      PROVE  PtyBounds'
  <2>1. UNCHANGED <<agentState, agentKilled, tokenFile, grantVars>>
    BY <1>8 DEF TextFrame, BinaryFrame, ClaudeExits, SocketCloses, KillTimer, Upgrade, agentVars, ptyFiles
  <2> QED BY <2>1, BoundsBySame DEF grantVars, Made, Started, PtyBounds
<1> QED BY <1>1, <1>2, <1>3, <1>4, <1>5, <1>6, <1>7, <1>8 DEF PtyNext

\* No step leaves a process without its spawn.
LEMMA ProcessesKept == PtyInv /\ Processes /\ [PtyNext]_ptyVars => Processes'
<1> SUFFICES ASSUME PtyInv, Processes, [PtyNext]_ptyVars PROVE Processes'
  OBVIOUS
<1>1. CASE UNCHANGED socket
  BY <1>1 DEF Processes
<1>2. /\ NoSocket.session = FALSE /\ NoSocket.spawned = FALSE /\ NoSocket.proc = "none"
      /\ \A w \in Sockets : socket[w] \in Socket
  BY DEF NoSocket, PtyInv, PtyKinds
<1>3. ASSUME NEW a, Orphans(a) PROVE Processes'
  BY <1>2, <1>3 DEF Orphans, Processes, NoSocket
<1>4. ASSUME NEW w \in Sockets, NEW s, socket' = [socket EXCEPT ![w] = s],
             s.spawned => s.session, s.proc = "running" => s.spawned
      PROVE  Processes'
  BY <1>4 DEF Processes, PtyInv, PtyKinds
<1>5. ASSUME NEW w \in Sockets, TextFrame(w) PROVE Processes'
  BY <1>5 DEF TextFrame, Processes, PtyInv, PtyKinds, Socket
<1>6. ASSUME NEW w \in Sockets, BinaryFrame(w) PROVE Processes'
  BY <1>6 DEF BinaryFrame, Processes, PtyInv, PtyKinds, Socket
<1>7. ASSUME NEW w \in Sockets, ClaudeExits(w) PROVE Processes'
  BY <1>7 DEF ClaudeExits, Processes, PtyInv, PtyKinds, Socket
<1>8. ASSUME NEW w \in Sockets, KillTimer(w) PROVE Processes'
  BY <1>8 DEF KillTimer, Processes, PtyInv, PtyKinds, Socket
<1>9. ASSUME NEW w \in Sockets, SocketCloses(w) PROVE Processes'
  <2>1. PICK s : s = [NoSocket EXCEPT !.proc = Interrupted(socket[w]), !.timer = socket[w].ref]
    OBVIOUS
  <2>2. socket' = [socket EXCEPT ![w] = s]
    BY <1>9, <2>1 DEF SocketCloses
  <2>3. s.spawned = FALSE /\ s.proc # "running"
    BY <1>2, <2>1 DEF NoSocket, Interrupted, Socket
  <2> QED BY <1>4, <2>2, <2>3
<1>10. ASSUME NEW w \in Sockets, NEW t \in Made, Upgrade(w, t) PROVE Processes'
  BY <1>4, <1>10 DEF Upgrade, NoSocket
<1>11. CASE ConnectSpawns \/ DaemonStops \/ MintPty
  BY <1>1, <1>11 DEF ConnectSpawns, DaemonStops, MintPty
<1>12. ASSUME NEW a \in Started, AgentBoots(a) \/ AgentTerminates(a) \/ AgentIsKilled(a) PROVE Processes'
  BY <1>1, <1>3, <1>12 DEF AgentBoots, AgentTerminates, AgentIsKilled
<1>13. ASSUME NEW t \in Made, GrantArrives(t) \/ GrantAnswered(t) \/ GrantFails(t) \/ PtyExpires(t)
       PROVE  Processes'
  BY <1>1, <1>13 DEF GrantArrives, GrantAnswered, GrantFails, PtyExpires
<1> QED BY <1>1, <1>5, <1>6, <1>7, <1>8, <1>9, <1>10, <1>11, <1>12, <1>13 DEF PtyNext, ptyVars

\* The types follow.
LEMMA PtyTypesFollow == PtyInv /\ PtyBounds /\ Processes => PtyTypeOK
<1> SUFFICES ASSUME PtyInv, PtyBounds, Processes PROVE PtyTypeOK
  OBVIOUS
<1>1. PICK m \in Nat, n \in Nat : Made = 1..m /\ Started = 1..n
  BY DEF PtyInv, PtyKinds
<1>2. Cardinality(Made) = m /\ Cardinality(Started) = n
  BY <1>1, CountIs
<1>3. m \in 0..MaxPtys /\ n \in 0..MaxAgents
  BY <1>2, PtyAssumption DEF PtyBounds
<1>4. Made \in {1..k : k \in 0..MaxPtys} /\ Started \in {1..k : k \in 0..MaxAgents}
  BY <1>1, <1>3
<1>5. grantTo \in [Made -> [port : Started, secret : {0} \cup Started]]
  <2>1. \A t \in Made : grantTo[t] \in [port : Started, secret : Nat] /\ grantTo[t].secret \in {0} \cup Started
    BY DEF PtyInv, PtyKinds, PtyBounds
  <2>2. \A t \in Made : grantTo[t] \in [port : Started, secret : {0} \cup Started]
    BY <2>1
  <2> QED BY <2>2 DEF PtyInv, PtyKinds
<1>6. /\ agentState \in [Started -> {"booting", "up", "terminating", "dead"}]
      /\ portFile \in {0} \cup Started /\ validTokens \in [Started -> SUBSET Made]
      /\ grant \in [Made -> {"sent", "added", "known", "failed"}] /\ disposed \subseteq Made
  BY DEF PtyInv, PtyKinds, DisposedKnown
<1>7. ASSUME NEW w \in Sockets
      PROVE  /\ socket[w].is \in {"none", "open", "closing"}
             /\ socket[w].is # "none" => socket[w].token \in Made /\ socket[w].agent \in Started
             /\ socket[w].proc \in {"none", "running", "interrupted", "dead"}
             /\ socket[w].spawned => socket[w].session
             /\ socket[w].ref \in BOOLEAN /\ socket[w].timer \in BOOLEAN
             /\ socket[w].proc = "running" => socket[w].spawned
  <2>1. socket[w] \in Socket
    BY DEF PtyInv, PtyKinds
  <2>2. socket[w].is # "none" => socket[w].token \in Made /\ socket[w].agent \in Started
    BY <1>5 DEF PtyInv, SocketsGranted
  <2> QED BY <2>1, <2>2 DEF Socket, Processes
<1> QED BY <1>4, <1>5, <1>6, <1>7 DEF PtyBounds, PtyTypeOK

\* Both invariants hold of every order of the steps, fair or not.
LEMMA PtySafe == PtyInit /\ [][PtyNext]_ptyVars => [](PtyTypeOK /\ TokensAreNotReplayed)
<1>1. PtyInit => PtyBounds /\ Processes
  <2> SUFFICES ASSUME PtyInit PROVE PtyBounds /\ Processes
    OBVIOUS
  <2>1. Made = {} /\ Started = {}
    BY DEF PtyInit, Made, Started
  <2>2. Cardinality({}) = 0
    BY FS_EmptySet
  <2> QED BY <2>1, <2>2, PtyAssumption DEF PtyInit, PtyBounds, Processes, NoSocket
<1>2. PtyInv => TokensAreNotReplayed
  BY DEF PtyInv
<1> QED BY <1>1, <1>2, PtyInitInv, PtyStepKept, PtyBoundsKept, ProcessesKept, PtyTypesFollow, PTL

\* Agents, tokens, grants, sockets and their processes keep their types: a PTY runs only for a
\* socket that was given one, and every token known was minted by the daemon's agents.
THEOREM PtyTypes == PtySpec => []PtyTypeOK
BY PtySafe, PTL DEF PtySpec

-----------------------------------------------------------------------------
(* PageSessions: SessionIsOfThePage.  A command writes what it has read      *)
(* before its awaits, so what it waits with has to fit its page until the    *)
(* page moves.                                                               *)

\* Frames and refs of what has been loaded.
Frames == [tab : PageTabs, id : 1..loads] \cup {NoFrame}
RefMaps == [doc : 0..loads, frame : Frames] \cup {NoRefs}
Jobs == [does : {"nothing", "aria", "scan", "goto", "content", "record", "frame"},
         tab : PageTabs \cup {NoFrame}, of : RefMaps, html : 0..loads]

\* The kinds of the variables; a command at work has its page.
PageKinds ==
  /\ front \in PageTabs /\ loads \in 0..MaxDocuments
  /\ moved \subseteq PageCommands /\ raced \subseteq PageTabs \X Parts
  /\ document \in [PageTabs -> 0..loads] /\ iframe \in [PageTabs -> 0..loads]
  /\ loadedInto \in [PageTabs -> 0..loads] /\ loadedHtml \in [PageTabs -> 0..loads]
  /\ refs \in [PageTabs -> RefMaps] /\ frame \in [PageTabs -> Frames]
  /\ job \in [PageCommands -> Jobs]
  /\ \A p \in PageCommands : job[p].does # "nothing" => job[p].tab \in PageTabs

\* What a command that waits has read, or set, or found, is still so until it has moved.
Fits(p) ==
  /\ job[p].does = "scan" => job[p].of = [doc |-> document[job[p].tab], frame |-> frame[job[p].tab]]
  /\ job[p].does = "record" => loadedInto[job[p].tab] = job[p].html
  /\ job[p].does = "frame" => job[p].tab = front
\* So it is with every command whose page has not moved under it.
Unmoved == \A p \in PageCommands : p \notin moved => Fits(p)

\* The inductive invariant.
PageInv == PageKinds /\ Unmoved /\ SessionIsOfThePage

\* It holds at first.
LEMMA PageInitInv == PageInit => PageInv
<1> SUFFICES ASSUME PageInit PROVE PageInv
  OBVIOUS
<1>1. /\ 0 \in 0..loads /\ loads \in 0..MaxDocuments /\ NoFrame \in Frames /\ NoRefs \in RefMaps
  BY PageAssumption DEF PageInit, Frames, RefMaps
<1>2. Resting \in Jobs /\ Resting.does = "nothing"
  BY <1>1 DEF Resting, Jobs
<1>3. PageKinds
  BY <1>1, <1>2 DEF PageInit, PageKinds
<1>4. Unmoved /\ SessionIsOfThePage
  BY <1>2 DEF PageInit, Unmoved, Fits, SessionIsOfThePage
<1> QED BY <1>3, <1>4 DEF PageInv

\* What one step may do to the session of a tab: leave it with its page, clear it, or
\* write what a command has waited with.
RefsStep(t) ==
  \/ refs'[t] = refs[t] /\ document'[t] = document[t] /\ frame'[t] = frame[t]
  \/ refs'[t] = NoRefs
  \/ \E p \in PageCommands : /\ job[p].does = "scan" /\ job[p].tab = t /\ job'[p] = Resting
                             /\ refs'[t] = job[p].of /\ document'[t] = document[t] /\ frame'[t] = frame[t]
\* The same of the frame in which commands run.
FrameStep(t) ==
  \/ frame'[t] = frame[t]
  \/ frame'[t] = NoFrame
  \/ \E p \in PageCommands : /\ job[p].does = "frame" /\ job'[p] = Resting
                             /\ t = front /\ frame'[t].tab = job[p].tab
\* The same of the HTML that a context would be recreated with.
HtmlStep(t) ==
  \/ loadedHtml'[t] = loadedHtml[t]
  \/ loadedHtml'[t] = 0
  \/ \E p \in PageCommands : /\ job[p].does = "record" /\ job[p].tab = t /\ job'[p] = Resting
                             /\ loadedHtml'[t] = job[p].html /\ loadedInto'[t] = loadedInto[t]
\* What a command is given to wait with fits its page.
NewJobs == \A p \in PageCommands : job'[p] # job[p] => Fits(p)'

\* Such a step keeps the promise, and what the waiting commands rely on.
LEMMA SessionStep ==
  ASSUME PageInv, History, PageKinds', NewJobs,
         \A t \in PageTabs : RefsStep(t) /\ FrameStep(t) /\ HtmlStep(t)
  PROVE  PageInv'
<1>1. Unmoved'
  <2> SUFFICES ASSUME NEW p \in PageCommands, p \notin moved' PROVE Fits(p)'
    BY DEF Unmoved
  <2>1. CASE job'[p] # job[p]
    BY <2>1 DEF NewJobs
  <2>2. CASE job'[p] = job[p]
    <3>1. p \notin moved /\ ~Moves(p)
      BY <2>2 DEF History
    <3>2. Fits(p)
      BY <3>1 DEF PageInv, Unmoved
    <3> QED BY <2>2, <3>1, <3>2 DEF Fits, Moves
  <2> QED BY <2>1, <2>2
<1>2. ASSUME NEW t \in PageTabs, NEW part \in Parts, <<t, part>> \notin raced'
      PROVE  ~Racing(t, part) /\ (<<t, part>> \notin raced \/ Rewritten(t, part))
  BY <1>2 DEF History
<1>3. "refs" \in Parts /\ "frame" \in Parts /\ "html" \in Parts
  BY DEF Parts
<1>4. ASSUME NEW t \in PageTabs, refs'[t] # NoRefs, <<t, "refs">> \notin raced'
      PROVE  refs'[t].doc = document'[t] /\ refs'[t].frame = frame'[t]
  <2>1. ~Racing(t, "refs") /\ (<<t, "refs">> \notin raced \/ refs'[t] # refs[t])
    BY <1>2, <1>3, <1>4 DEF Rewritten
  <2>2. CASE refs'[t] = refs[t] /\ document'[t] = document[t] /\ frame'[t] = frame[t]
    BY <1>4, <2>1, <2>2 DEF PageInv, SessionIsOfThePage
  <2>3. ASSUME NEW p \in PageCommands, job[p].does = "scan", job[p].tab = t, job'[p] = Resting,
               refs'[t] = job[p].of, document'[t] = document[t], frame'[t] = frame[t]
        PROVE  refs'[t].doc = document'[t] /\ refs'[t].frame = frame'[t]
    <3>1. CASE p \in moved
      <4>1. refs'[t] = refs[t]
        BY <1>4, <2>1, <2>3, <3>1 DEF Racing
      <4> QED BY <1>4, <2>1, <2>3, <4>1 DEF PageInv, SessionIsOfThePage
    <3>2. CASE p \notin moved
      <4>1. refs'[t] = [doc |-> document[t], frame |-> frame[t]]
        BY <2>3, <3>2 DEF PageInv, Unmoved, Fits
      <4> QED BY <2>3, <4>1
    <3> QED BY <3>1, <3>2
  <2> QED BY <1>4, <2>2, <2>3 DEF RefsStep
<1>5. ASSUME NEW t \in PageTabs, frame'[t] # NoFrame, <<t, "frame">> \notin raced'
      PROVE  frame'[t].tab = t
  <2>1. ~Racing(t, "frame") /\ (<<t, "frame">> \notin raced \/ frame'[t] # frame[t])
    BY <1>2, <1>3, <1>5 DEF Rewritten
  <2>2. CASE frame'[t] = frame[t]
    BY <1>5, <2>1, <2>2 DEF PageInv, SessionIsOfThePage
  <2>3. ASSUME NEW p \in PageCommands, job[p].does = "frame", job'[p] = Resting,
               t = front, frame'[t].tab = job[p].tab, frame'[t] # frame[t]
        PROVE  frame'[t].tab = t
    BY <2>1, <2>3 DEF PageInv, Unmoved, Fits, Racing
  <2> QED BY <1>5, <2>2, <2>3 DEF FrameStep
<1>6. ASSUME NEW t \in PageTabs, loadedHtml'[t] # 0, <<t, "html">> \notin raced'
      PROVE  loadedInto'[t] = loadedHtml'[t]
  <2>1. ~Racing(t, "html") /\ (<<t, "html">> \notin raced \/ loadedHtml'[t] # loadedHtml[t])
    BY <1>2, <1>3, <1>6 DEF Rewritten
  <2>2. loadedInto'[t] = loadedInto[t]
    BY <1>6, <2>1 DEF Racing
  <2>3. CASE loadedHtml'[t] = loadedHtml[t]
    BY <1>6, <2>1, <2>2, <2>3 DEF PageInv, SessionIsOfThePage
  <2>4. ASSUME NEW p \in PageCommands, job[p].does = "record", job[p].tab = t, job'[p] = Resting,
               loadedHtml'[t] = job[p].html, loadedHtml'[t] # loadedHtml[t]
        PROVE  loadedInto'[t] = loadedHtml'[t]
    BY <2>1, <2>2, <2>4 DEF PageInv, Unmoved, Fits, Racing
  <2> QED BY <1>6, <2>3, <2>4 DEF HtmlStep
<1>7. SessionIsOfThePage'
  BY <1>4, <1>5, <1>6 DEF SessionIsOfThePage
<1> QED BY <1>1, <1>7 DEF PageInv

\* The numbers only grow, and the history stays among the commands and tabs.
LEMMA Growing ==
  ASSUME PageKinds, History, loads' \in {loads, loads + 1}
  PROVE  /\ 0..loads \subseteq 0..loads' /\ Frames \subseteq Frames' /\ RefMaps \subseteq RefMaps'
         /\ Jobs \subseteq Jobs' /\ (loads' = loads => Frames' = Frames /\ RefMaps' = RefMaps /\ Jobs' = Jobs)
         /\ moved' \subseteq PageCommands /\ raced' \subseteq PageTabs \X Parts
         /\ NoFrame \in Frames' /\ NoRefs \in RefMaps'
<1>1. 0..loads \subseteq 0..loads' /\ 1..loads \subseteq 1..loads'
  BY DEF PageKinds
<1>2. Frames \subseteq Frames'
  BY <1>1 DEF Frames
<1>3. RefMaps \subseteq RefMaps'
  BY <1>1, <1>2 DEF RefMaps
<1>4. Jobs \subseteq Jobs'
  BY <1>1, <1>3 DEF Jobs
<1>5. loads' = loads => Frames' = Frames /\ RefMaps' = RefMaps /\ Jobs' = Jobs
  BY DEF Frames, RefMaps, Jobs
<1>6. moved' \subseteq PageCommands /\ raced' \subseteq PageTabs \X Parts
  BY DEF History
<1> QED BY <1>1, <1>2, <1>3, <1>4, <1>5, <1>6 DEF Frames, RefMaps

\* A command is given work, or rests: the others go on as they were.
LEMMA JobStep ==
  ASSUME PageKinds, NEW p \in PageCommands, NEW j \in Jobs', Jobs \subseteq Jobs',
         job' = [job EXCEPT ![p] = j], j.does # "nothing" => j.tab \in PageTabs
  PROVE  /\ job' \in [PageCommands -> Jobs'] /\ job'[p] = j
         /\ \A q \in PageCommands : job'[q].does # "nothing" => job'[q].tab \in PageTabs
         /\ \A q \in PageCommands : q # p => job'[q] = job[q]
BY DEF PageKinds

\* What Do and Done leave.
LEMMA DoStep ==
  ASSUME PageKinds, History, loads' = loads, NEW p \in PageCommands,
         NEW does \in {"aria", "goto", "frame"}, NEW t \in PageTabs, Do(p, does, t)
  PROVE  /\ job' \in [PageCommands -> Jobs'] /\ job'[p].does = does /\ job'[p].tab = t
         /\ \A q \in PageCommands : job'[q].does # "nothing" => job'[q].tab \in PageTabs
         /\ \A q \in PageCommands : q # p => job'[q] = job[q]
<1> DEFINE j == [Resting EXCEPT !.does = does, !.tab = t]
<1>1. j \in Jobs' /\ j.does = does /\ j.tab = t
  <2>1. NoRefs \in RefMaps' /\ 0 \in 0..loads'
    BY Growing DEF PageKinds
  <2>2. Resting \in Jobs'
    BY <2>1 DEF Jobs, Resting
  <2> QED BY <2>2 DEF Jobs
<1>2. job' = [job EXCEPT ![p] = j]
  BY DEF Do
<1> HIDE DEF j
<1> QED BY <1>1, <1>2, Growing, JobStep

\* The same of a command that ends.
LEMMA DoneStep ==
  ASSUME PageKinds, History, loads' = loads, NEW p \in PageCommands, Done(p)
  PROVE  /\ job' \in [PageCommands -> Jobs'] /\ job'[p] = Resting /\ job'[p].does = "nothing"
         /\ \A q \in PageCommands : job'[q].does # "nothing" => job'[q].tab \in PageTabs
         /\ \A q \in PageCommands : q # p => job'[q] = job[q]
<1>1. Resting \in Jobs' /\ Resting.does = "nothing"
  BY Growing DEF Jobs, RefMaps, Resting, PageKinds
<1> QED BY <1>1, Growing, JobStep DEF Done

\* The steps that begin or end a command on the session of the active tab.
LEMMA PageCommandKept ==
  ASSUME PageInv, History, NEW p \in PageCommands,
         \/ Snapshot(p) \/ AriaArrives(p) \/ StoreRefs(p) \/ Goto(p) \/ GotoEnds(p)
         \/ LoadHtml(p) \/ ContentSet(p) \/ RecordHtml(p) \/ FindFrame(p) \/ SetFrame(p) \/ Resume(p)
  PROVE  PageInv'
<1>0. PageKinds
  BY DEF PageInv
<1>1. CASE Snapshot(p)
  <2>1. loads' = loads /\ Do(p, "aria", front) /\ Recover(front) /\ front \in PageTabs
        /\ UNCHANGED <<front, document, iframe, loadedInto, loadedHtml>>
    BY <1>0, <1>1 DEF Snapshot, PageKinds
  <2>2. PageKinds'
    BY <1>0, <2>1, Growing, DoStep DEF PageKinds, Recover, Target
  <2>3. NewJobs
    BY <1>0, <2>1, DoStep DEF NewJobs, Fits
  <2>4. \A t \in PageTabs : RefsStep(t) /\ FrameStep(t) /\ HtmlStep(t)
    BY <1>0, <2>1 DEF RefsStep, FrameStep, HtmlStep, Recover, Target, PageKinds
  <2> QED BY <2>2, <2>3, <2>4, SessionStep
<1>2. CASE AriaArrives(p)
  <2> DEFINE t == job[p].tab
             taken == [doc |-> document[t], frame |-> frame[t]]
  <2>1. loads' = loads /\ t \in PageTabs /\ job[p].does = "aria"
        /\ UNCHANGED <<front, document, iframe, loadedInto, frame, loadedHtml>>
    BY <1>0, <1>2 DEF AriaArrives, PageKinds
  <2>2. CASE refs' = [refs EXCEPT ![t] = NoRefs] /\ Done(p)
    <3>1. PageKinds'
      BY <1>0, <2>1, <2>2, Growing, DoneStep DEF PageKinds
    <3>2. NewJobs
      BY <1>0, <2>1, <2>2, DoneStep DEF NewJobs, Fits
    <3>3. \A u \in PageTabs : RefsStep(u) /\ FrameStep(u) /\ HtmlStep(u)
      BY <1>0, <2>1, <2>2 DEF RefsStep, FrameStep, HtmlStep, PageKinds
    <3> QED BY <3>1, <3>2, <3>3, SessionStep
  <2>3. CASE job' = [job EXCEPT ![p].does = "scan", ![p].of = taken] /\ refs' = refs
    <3>a. taken \in RefMaps' /\ job[p] \in Jobs' /\ taken.doc = document[t] /\ taken.frame = frame[t]
      BY <1>0, <2>1, Growing DEF RefMaps, PageKinds
    <3> DEFINE j == [job[p] EXCEPT !.does = "scan", !.of = taken]
    <3>b. taken = [doc |-> document'[t], frame |-> frame'[t]]
      BY <2>1
    <3> HIDE DEF taken
    <3>c. j \in Jobs' /\ j.does = "scan" /\ j.of = taken /\ j.tab = t /\ job' = [job EXCEPT ![p] = j]
      BY <1>0, <2>3, <3>a DEF Jobs, PageKinds
    <3> HIDE DEF j
    <3>d. /\ job' \in [PageCommands -> Jobs'] /\ job'[p] = j
          /\ \A q \in PageCommands : job'[q].does # "nothing" => job'[q].tab \in PageTabs
          /\ \A q \in PageCommands : q # p => job'[q] = job[q]
      BY <1>0, <2>1, <3>c, Growing, JobStep
    <3>1. PageKinds'
      BY <1>0, <2>1, <2>3, <3>d, Growing DEF PageKinds
    <3>2. NewJobs
      BY <2>1, <3>b, <3>c, <3>d DEF NewJobs, Fits
    <3>3. \A u \in PageTabs : RefsStep(u) /\ FrameStep(u) /\ HtmlStep(u)
      BY <2>1, <2>3 DEF RefsStep, FrameStep, HtmlStep
    <3> QED BY <3>1, <3>2, <3>3, SessionStep
  <2> QED BY <1>2, <2>2, <2>3 DEF AriaArrives
<1>3. CASE StoreRefs(p)
  <2>1. loads' = loads /\ job[p].does = "scan" /\ job[p].tab \in PageTabs /\ job[p].of \in RefMaps
        /\ refs' = [refs EXCEPT ![job[p].tab] = job[p].of] /\ Done(p)
        /\ UNCHANGED <<front, document, iframe, loadedInto, frame, loadedHtml>>
    BY <1>0, <1>3 DEF StoreRefs, PageKinds, Jobs
  <2>2. PageKinds'
    BY <1>0, <2>1, Growing, DoneStep DEF PageKinds
  <2>3. NewJobs
    BY <1>0, <2>1, DoneStep DEF NewJobs, Fits
  <2>4. \A t \in PageTabs : RefsStep(t) /\ FrameStep(t) /\ HtmlStep(t)
    BY <1>0, <2>1, DoneStep DEF RefsStep, FrameStep, HtmlStep, PageKinds
  <2> QED BY <2>2, <2>3, <2>4, SessionStep
<1>4. CASE Goto(p)
  <2>1. loads' = loads /\ Recover(front) /\ front \in PageTabs
        /\ UNCHANGED <<front, document, iframe, loadedInto>>
        /\ \/ UNCHANGED <<job, loadedHtml>>
           \/ Do(p, "goto", front) /\ loadedHtml' = [loadedHtml EXCEPT ![front] = 0]
    BY <1>0, <1>4 DEF Goto, PageKinds
  <2>2. PageKinds'
    BY <1>0, <2>1, Growing, DoStep DEF PageKinds, Recover, Target
  <2>3. NewJobs
    BY <1>0, <2>1, DoStep DEF NewJobs, Fits
  <2>4. \A t \in PageTabs : RefsStep(t) /\ FrameStep(t) /\ HtmlStep(t)
    BY <1>0, <2>1 DEF RefsStep, FrameStep, HtmlStep, Recover, Target, PageKinds
  <2> QED BY <2>2, <2>3, <2>4, SessionStep
<1>5. CASE GotoEnds(p)
  <2>1. loads' = loads /\ Done(p) /\ UNCHANGED <<front, document, iframe, loadedInto, refs, frame, loadedHtml>>
    BY <1>5 DEF GotoEnds, sessionVars
  <2>2. PageKinds' /\ NewJobs
    BY <1>0, <2>1, Growing, DoneStep DEF PageKinds, NewJobs, Fits
  <2>3. \A t \in PageTabs : RefsStep(t) /\ FrameStep(t) /\ HtmlStep(t)
    BY <2>1 DEF RefsStep, FrameStep, HtmlStep
  <2> QED BY <2>2, <2>3, SessionStep
<1>6. CASE LoadHtml(p)
  <2>1. Recover(front) /\ front \in PageTabs /\ loads < MaxDocuments
        /\ UNCHANGED <<front, document, iframe, loadedInto, loadedHtml>>
    BY <1>0, <1>6 DEF LoadHtml, PageKinds
  <2>2. \A t \in PageTabs : RefsStep(t) /\ FrameStep(t) /\ HtmlStep(t)
    BY <1>0, <2>1 DEF RefsStep, FrameStep, HtmlStep, Recover, Target, PageKinds
  <2>3. CASE loads' = loads /\ job' = job
    <3>1. PageKinds' /\ NewJobs
      BY <1>0, <2>1, <2>3, Growing DEF PageKinds, Recover, Target, NewJobs
    <3> QED BY <2>2, <3>1, SessionStep
  <2>4. CASE loads' = loads + 1 /\ Target(front) = NoFrame
    <3> DEFINE j == [Resting EXCEPT !.does = "content", !.tab = front, !.html = loads + 1]
    <3>1. loads' \in 0..MaxDocuments /\ loads + 1 \in 0..loads'
      BY <1>0, <2>1, <2>4, PageAssumption DEF PageKinds
    <3>2. j \in Jobs' /\ j.does = "content" /\ j.tab = front
      BY <2>1, <3>1 DEF Jobs, RefMaps, Resting
    <3>3. job' = [job EXCEPT ![p] = j]
      BY <1>6, <2>4 DEF LoadHtml
    <3> HIDE DEF j
    <3>4. /\ job' \in [PageCommands -> Jobs'] /\ job'[p] = j
          /\ \A q \in PageCommands : job'[q].does # "nothing" => job'[q].tab \in PageTabs
          /\ \A q \in PageCommands : q # p => job'[q] = job[q]
      BY <1>0, <2>1, <2>4, <3>2, <3>3, Growing, JobStep
    <3>5. PageKinds'
      <4>1. refs' \in [PageTabs -> RefMaps'] /\ frame' \in [PageTabs -> Frames']
        BY <1>0, <2>1, <2>4, Growing DEF PageKinds, Recover, Target
      <4> QED BY <1>0, <2>1, <2>4, <3>1, <3>4, <4>1, Growing DEF PageKinds
    <3>6. NewJobs
      BY <3>2, <3>4 DEF NewJobs, Fits
    <3> QED BY <2>2, <3>5, <3>6, SessionStep
  <2> QED BY <1>6, <2>3, <2>4 DEF LoadHtml
<1>7. CASE ContentSet(p)
  <2>1. loads' = loads /\ job[p].does = "content" /\ job[p].tab \in PageTabs /\ job[p].html \in 0..loads
        /\ loadedInto' = [loadedInto EXCEPT ![job[p].tab] = job[p].html]
        /\ iframe' = [iframe EXCEPT ![job[p].tab] = 0]
        /\ job' = [job EXCEPT ![p].does = "record"]
        /\ UNCHANGED <<front, document, refs, frame, loadedHtml>>
    BY <1>0, <1>7 DEF ContentSet, PageKinds, Jobs, sessionVars
  <2> DEFINE j == [job[p] EXCEPT !.does = "record"]
  <2>2. j \in Jobs' /\ j.does = "record" /\ j.tab = job[p].tab /\ j.html = job[p].html
        /\ job' = [job EXCEPT ![p] = j]
    BY <1>0, <2>1, Growing DEF Jobs, PageKinds
  <2> HIDE DEF j
  <2>3. /\ job' \in [PageCommands -> Jobs'] /\ job'[p] = j
        /\ \A q \in PageCommands : job'[q].does # "nothing" => job'[q].tab \in PageTabs
        /\ \A q \in PageCommands : q # p => job'[q] = job[q]
    BY <1>0, <2>1, <2>2, Growing, JobStep
  <2>4. PageKinds'
    BY <1>0, <2>1, <2>3, Growing DEF PageKinds
  <2>5. NewJobs
    BY <1>0, <2>1, <2>2, <2>3 DEF NewJobs, Fits, PageKinds
  <2>6. \A t \in PageTabs : RefsStep(t) /\ FrameStep(t) /\ HtmlStep(t)
    BY <2>1 DEF RefsStep, FrameStep, HtmlStep
  <2> QED BY <2>4, <2>5, <2>6, SessionStep
<1>8. CASE RecordHtml(p)
  <2>1. loads' = loads /\ Done(p) /\ UNCHANGED <<front, document, iframe, loadedInto, refs, frame>>
        /\ \/ loadedHtml' = loadedHtml
           \/ job[p].does = "record" /\ loadedHtml' = [loadedHtml EXCEPT ![job[p].tab] = job[p].html]
    BY <1>8 DEF RecordHtml
  <2>2. job[p].html \in 0..loads
    BY <1>0 DEF PageKinds, Jobs
  <2>3. PageKinds' /\ NewJobs
    BY <1>0, <2>1, <2>2, Growing, DoneStep DEF PageKinds, NewJobs, Fits
  <2>4. \A t \in PageTabs : RefsStep(t) /\ FrameStep(t) /\ HtmlStep(t)
    BY <1>0, <2>1, DoneStep DEF RefsStep, FrameStep, HtmlStep, PageKinds
  <2> QED BY <2>3, <2>4, SessionStep
<1>9. CASE FindFrame(p)
  <2>1. loads' = loads /\ Do(p, "frame", front) /\ front \in PageTabs
        /\ UNCHANGED <<front, document, iframe, loadedInto, refs, frame, loadedHtml>>
    BY <1>0, <1>9 DEF FindFrame, sessionVars, PageKinds
  <2>2. PageKinds' /\ NewJobs
    BY <1>0, <2>1, Growing, DoStep DEF PageKinds, NewJobs, Fits
  <2>3. \A t \in PageTabs : RefsStep(t) /\ FrameStep(t) /\ HtmlStep(t)
    BY <2>1 DEF RefsStep, FrameStep, HtmlStep
  <2> QED BY <2>2, <2>3, SessionStep
<1>10. CASE SetFrame(p)
  <2>1. loads' = loads /\ job[p].does = "frame" /\ job[p].tab \in PageTabs /\ Done(p) /\ front \in PageTabs
        /\ UNCHANGED <<front, document, iframe, loadedInto, loadedHtml>>
    BY <1>0, <1>10 DEF SetFrame, PageKinds
  <2>2. CASE frame' = frame /\ refs' = refs
    <3>1. PageKinds' /\ NewJobs
      BY <1>0, <2>1, <2>2, Growing, DoneStep DEF PageKinds, NewJobs, Fits
    <3>2. \A t \in PageTabs : RefsStep(t) /\ FrameStep(t) /\ HtmlStep(t)
      BY <2>1, <2>2 DEF RefsStep, FrameStep, HtmlStep
    <3> QED BY <3>1, <3>2, SessionStep
  <2>3. CASE iframe[job[p].tab] # 0
    <3> DEFINE f == [tab |-> job[p].tab, id |-> iframe[job[p].tab]]
    <3>1. f \in Frames /\ f.tab = job[p].tab
      BY <1>0, <2>1, <2>3 DEF Frames, PageKinds
    <3>2. frame' = [frame EXCEPT ![front] = f] /\ refs' = [refs EXCEPT ![front] = NoRefs]
      BY <1>10, <2>3 DEF SetFrame
    <3> HIDE DEF f
    <3>3. PageKinds' /\ NewJobs
      BY <1>0, <2>1, <3>1, <3>2, Growing, DoneStep DEF PageKinds, NewJobs, Fits
    <3>4. \A t \in PageTabs : RefsStep(t) /\ FrameStep(t) /\ HtmlStep(t)
      BY <1>0, <2>1, <3>1, <3>2, DoneStep DEF RefsStep, FrameStep, HtmlStep, PageKinds
    <3> QED BY <3>3, <3>4, SessionStep
  <2> QED BY <1>10, <2>2, <2>3 DEF SetFrame
<1>11. CASE Resume(p)
  <2>1. loads' = loads /\ Do(p, "aria", front) /\ front \in PageTabs
        /\ frame' = [frame EXCEPT ![front] = NoFrame] /\ refs' = [refs EXCEPT ![front] = NoRefs]
        /\ UNCHANGED <<front, document, iframe, loadedInto, loadedHtml>>
    BY <1>0, <1>11 DEF Resume, PageKinds
  <2>2. PageKinds' /\ NewJobs
    BY <1>0, <2>1, Growing, DoStep DEF PageKinds, NewJobs, Fits
  <2>3. \A t \in PageTabs : RefsStep(t) /\ FrameStep(t) /\ HtmlStep(t)
    BY <1>0, <2>1 DEF RefsStep, FrameStep, HtmlStep, PageKinds
  <2> QED BY <2>2, <2>3, SessionStep
<1> QED BY <1>1, <1>2, <1>3, <1>4, <1>5, <1>6, <1>7, <1>8, <1>9, <1>10, <1>11

\* Every step keeps it.
LEMMA PageStepKept == PageInv /\ [PageNext]_pageVars => PageInv'
<1> SUFFICES ASSUME PageInv, [PageNext]_pageVars PROVE PageInv'
  OBVIOUS
<1>0. PageKinds
  BY DEF PageInv
<1>1. CASE UNCHANGED pageVars
  BY <1>1 DEF pageVars, PageInv, PageKinds, Frames, RefMaps, Jobs, Unmoved, Fits, SessionIsOfThePage
<1>2. CASE (MainFrame \/ OtherCommand) /\ History
  <2>1. loads' = loads /\ job' = job /\ front \in PageTabs
        /\ UNCHANGED <<front, document, iframe, loadedInto, loadedHtml>>
        /\ \/ frame' = [frame EXCEPT ![front] = NoFrame] /\ refs' = [refs EXCEPT ![front] = NoRefs]
           \/ Recover(front)
    BY <1>0, <1>2 DEF MainFrame, OtherCommand, PageKinds
  <2>2. PageKinds' /\ NewJobs
    BY <1>0, <1>2, <2>1, Growing DEF PageKinds, NewJobs, Recover, Target
  <2>3. \A t \in PageTabs : RefsStep(t) /\ FrameStep(t) /\ HtmlStep(t)
    BY <1>0, <2>1 DEF RefsStep, FrameStep, HtmlStep, Recover, Target, PageKinds
  <2> QED BY <1>2, <2>2, <2>3, SessionStep
<1>3. ASSUME NEW t \in PageTabs, History,
             SwitchTo(t) \/ Navigates(t) \/ IframeAttaches(t) \/ IframeDetaches(t)
      PROVE  PageInv'
  <2>1. loads' \in {loads, loads + 1} /\ loads' \in 0..MaxDocuments /\ job' = job
    BY <1>0, <1>3, PageAssumption DEF SwitchTo, Navigates, IframeAttaches, IframeDetaches, PageKinds
  <2>2. NewJobs
    BY <2>1 DEF NewJobs
  <2>3. PageKinds'
    <3>1. CASE SwitchTo(t) \/ IframeDetaches(t)
      BY <1>0, <1>3, <2>1, <3>1, Growing DEF PageKinds, SwitchTo, IframeDetaches, sessionVars
    <3>2. CASE Navigates(t)
      BY <1>0, <1>3, <2>1, <3>2, Growing DEF PageKinds, Navigates
    <3>3. CASE IframeAttaches(t)
      BY <1>0, <1>3, <2>1, <3>3, Growing DEF PageKinds, IframeAttaches, sessionVars
    <3> QED BY <1>3, <3>1, <3>2, <3>3
  <2>4. \A u \in PageTabs : RefsStep(u) /\ FrameStep(u) /\ HtmlStep(u)
    BY <1>0, <1>3 DEF RefsStep, FrameStep, HtmlStep, SwitchTo, Navigates, IframeAttaches, IframeDetaches,
       sessionVars, PageKinds
  <2> QED BY <1>3, <2>2, <2>3, <2>4, SessionStep
<1> QED BY <1>1, <1>2, <1>3, PageCommandKept DEF PageNext

\* The invariant holds throughout.
THEOREM PageInvariance == PageSpec => []PageInv
BY PageInitInv, PageStepKept, PTL DEF PageSpec

\* Documents, frames, refs and commands keep their types.
THEOREM PageTypes == PageSpec => []PageTypeOK
<1>1. PageInv => PageTypeOK
  BY DEF PageInv, PageKinds, PageTypeOK, Frames, RefMaps, Jobs
<1> QED BY <1>1, PageInvariance, PTL

\* The session of a page that no race has reached is of the page: refs, frame and HTML
\* are those of the document it shows, however its commands and navigations interleave.
THEOREM SessionsOfPages == PageSpec => []SessionIsOfThePage
<1>1. PageInv => SessionIsOfThePage BY DEF PageInv
<1> QED BY <1>1, PageInvariance, PTL

-----------------------------------------------------------------------------
(* PageVisuals: LeavesNoTrace.  An overlay always has a command that will    *)
(* remove it; a page that counts has the tracked size, or the one command    *)
(* that resizes it will give that size back.                                 *)

\* The elements of the lists that commands work through.
VisualSteps == Marks \cup {Widths[i] : i \in 1..3} \cup {Passes[i] : i \in 1..5}

\* A command as it can be.
VisualCommand ==
  [does : Resizing \cup {"nothing", "picture", "marked", "cleanup"},
   at : {"idle", "resize", "prepare", "scroll", "shot", "restore", "mark", "unmark", "pass"},
   tab : VisualTabs \cup {NoSize}, asked : Sizes \cup {NoSize},
   original : Sizes \cup {NoSize} \cup {Widths[i] : i \in 1..3},
   todo : Seq(VisualSteps), crossed : BOOLEAN]

\* The kinds of the variables.
VisualKinds ==
  /\ size \in [VisualTabs -> Sizes \cup {NoSize} \cup {Widths[i] : i \in 1..3}] /\ tracked \in Sizes
  /\ marks \in [VisualTabs -> SUBSET Marks] /\ kept \subseteq VisualTabs
  /\ hidden \in [VisualTabs -> BOOLEAN]
  /\ visual \in [Visuals -> VisualCommand]

\* Where a command can be, by what it does, and that it has its page and its next step.
Staged(c) ==
  /\ c.does = "nothing" <=> c.at = "idle"
  /\ c.does # "nothing" => c.tab \in VisualTabs
  /\ c.does = "viewport" => c.at = "resize" /\ c.asked \in Sizes
  /\ c.does = "pretty" =>
       c.at \in {"resize", "prepare", "scroll", "shot", "restore"} /\ c.todo = <<>>
  /\ (c.does = "pretty" /\ c.at \in {"resize", "restore"}) => c.asked # NoSize /\ c.original # NoSize
  /\ c.does = "responsive" =>
       /\ c.at \in {"resize", "shot", "restore"} /\ c.todo \in Seq({Widths[i] : i \in 1..3})
       /\ c.at = "resize" => c.todo # <<>>
  /\ c.does = "picture" => c.at = "shot"
  /\ c.does = "marked" => c.at \in {"mark", "shot", "unmark"} /\ c.todo # <<>>
  /\ c.does = "cleanup" => c.at = "pass" /\ c.todo # <<>>
\* Every command is where it can be.
VisualStages == \A v \in Visuals : Staged(visual[v])

\* An overlay is on its way out: a command on the page has still to remove it.
Covered ==
  \A t \in VisualTabs, m \in Marks :
    m \in marks[t] =>
      \E v \in Visuals : /\ visual[v].tab = t /\ visual[v].does = "marked"
                         /\ visual[v].at \in {"shot", "unmark"} /\ Head(visual[v].todo) = m

\* A command that has crossed no other is the only one to resize its page.
Resizes(v) == visual[v].does \in Resizing
\* It has its page for itself.
Solitary ==
  \A v \in Visuals : (Resizes(v) /\ ~visual[v].crossed) =>
    \A u \in Visuals : (Resizes(u) /\ visual[u].tab = visual[v].tab) => u = v

\* What is kept has the tracked size, or a command that will give it back or report failure.
WillRestore(v) ==
  /\ ~visual[v].crossed
  /\ visual[v].does = "viewport" => visual[v].asked = tracked
  /\ visual[v].does # "viewport" => visual[v].original = tracked
  /\ (visual[v].does = "pretty" /\ visual[v].asked = NoSize) => size[visual[v].tab] = tracked
\* Every page that is kept will have the tracked size again.
Tidy ==
  \A t \in kept :
    /\ \A v \in Visuals : (Resizes(v) /\ visual[v].tab = t) => WillRestore(v)
    /\ (\A v \in Visuals : ~(Resizes(v) /\ visual[v].tab = t)) => size[t] = tracked

\* The inductive invariant.
VisualInv == VisualKinds /\ VisualStages /\ Covered /\ Solitary /\ Tidy

\* It holds at first.
LEMMA VisualInitInv == VisualInit => VisualInv
<1> SUFFICES ASSUME VisualInit PROVE VisualInv
  OBVIOUS
<1>1. Still \in VisualCommand
  BY EmptySeq DEF Still, VisualCommand
<1>2. VisualKinds
  BY <1>1, VisualAssumption DEF VisualInit, VisualKinds
<1>3. VisualStages
  BY DEF VisualInit, VisualStages, Staged, Still
<1>4. Covered /\ Solitary /\ Tidy
  BY DEF VisualInit, Covered, Solitary, Tidy, Resizes, Resizing, Still
<1> QED BY <1>2, <1>3, <1>4 DEF VisualInv

\* A sequence that is not its last step goes on.
LEMMA TailGoesOn ==
  ASSUME NEW S, NEW s \in Seq(S), s # <<>>, Len(s) # 1
  PROVE  Tail(s) \in Seq(S) /\ Tail(s) # <<>>
<1>1. Tail(s) \in Seq(S) /\ Len(Tail(s)) = Len(s) - 1
  BY HeadTailProperties
<1>2. Len(s) \in Nat \ {0} /\ Len(<<>>) = 0
  BY EmptySeq
<1>3. Len(Tail(s)) # Len(<<>>)
  BY <1>1, <1>2
<1> QED BY <1>1, <1>3

\* What a crossing changes of a command.
LEMMA Crossing ==
  ASSUME NEW c \in VisualCommand, NEW b \in BOOLEAN, NEW d, d = [c EXCEPT !.crossed = b]
  PROVE  /\ d \in VisualCommand /\ d.does = c.does /\ d.at = c.at /\ d.tab = c.tab /\ d.asked = c.asked
         /\ d.original = c.original /\ d.todo = c.todo /\ d.crossed = b
BY DEF VisualCommand

\* A command that begins keeps the invariant.
LEMMA VisualBeginKept ==
  ASSUME VisualInv, NEW v \in Visuals, NEW t \in VisualTabs, NEW locals, NEW keeps \in SUBSET kept,
         VisualBegins(v, t, locals, keeps), tracked' \in Sizes,
         locals \in VisualCommand, locals.does # "nothing", locals.at # "idle",
         locals.does = "viewport" => locals.at = "resize" /\ locals.asked = tracked' /\ keeps \subseteq {t},
         locals.does # "viewport" => tracked' = tracked,
         locals.does \in {"pretty", "responsive"} => locals.original = size[t],
         locals.does = "pretty" => locals.todo = <<>> /\
           locals.at = IF locals.asked # NoSize /\ size[t] # NoSize THEN "resize" ELSE "prepare",
         locals.does = "responsive" =>
           locals.at = "resize" /\ locals.todo # <<>> /\ locals.todo \in Seq({Widths[i] : i \in 1..3}),
         locals.does = "picture" => locals.at = "shot",
         locals.does = "marked" => locals.at = "mark" /\ locals.todo # <<>>,
         locals.does = "cleanup" => locals.at = "pass" /\ locals.todo # <<>>
  PROVE  VisualInv'
<1> DEFINE hit == IF locals.does \in Resizing THEN Resizers(t) ELSE {}
<1>1. /\ visual[v] = Still /\ kept' \subseteq keeps /\ (hit # {} => t \notin kept')
      /\ size' = size /\ marks' = marks /\ hidden' = hidden
  BY DEF VisualBegins
<1>2. /\ visual'[v] = [locals EXCEPT !.tab = t, !.crossed = hit # {}]
      /\ \A u \in Visuals \ {v} : visual'[u] = [visual[u] EXCEPT !.crossed = @ \/ u \in hit]
  BY DEF VisualBegins
<1> HIDE DEF hit
<1>3. /\ visual'[v].does = locals.does /\ visual'[v].at = locals.at /\ visual'[v].tab = t
      /\ visual'[v].asked = locals.asked /\ visual'[v].original = locals.original
      /\ visual'[v].todo = locals.todo /\ (visual'[v].crossed <=> hit # {})
  <2> DEFINE b == hit # {}
  <2>1. b \in BOOLEAN /\ (b <=> hit # {}) /\ visual'[v] = [[locals EXCEPT !.tab = t] EXCEPT !.crossed = b]
    BY <1>2
  <2> HIDE DEF b
  <2>2. [locals EXCEPT !.tab = t] \in VisualCommand
    BY DEF VisualCommand
  <2>3. /\ visual'[v].does = [locals EXCEPT !.tab = t].does /\ visual'[v].at = [locals EXCEPT !.tab = t].at
        /\ visual'[v].tab = [locals EXCEPT !.tab = t].tab /\ visual'[v].asked = [locals EXCEPT !.tab = t].asked
        /\ visual'[v].original = [locals EXCEPT !.tab = t].original
        /\ visual'[v].todo = [locals EXCEPT !.tab = t].todo /\ visual'[v].crossed = b
    BY <2>1, <2>2, Crossing
  <2> QED BY <2>1, <2>3 DEF VisualCommand
<1>a. visual'[v] \in VisualCommand
  BY <1>2 DEF VisualCommand
<1>b. ASSUME NEW u \in Visuals \ {v}
      PROVE  visual[u] \in VisualCommand /\ (visual[u].crossed \/ u \in hit) \in BOOLEAN
  BY DEF VisualInv, VisualKinds, VisualCommand
<1>4. ASSUME NEW u \in Visuals \ {v}
      PROVE  /\ visual'[u].does = visual[u].does /\ visual'[u].at = visual[u].at
             /\ visual'[u].tab = visual[u].tab /\ visual'[u].asked = visual[u].asked
             /\ visual'[u].original = visual[u].original /\ visual'[u].todo = visual[u].todo
             /\ visual'[u].crossed <=> (visual[u].crossed \/ u \in hit)
             /\ visual'[u] \in VisualCommand
  <2> DEFINE b == visual[u].crossed \/ u \in hit
  <2>1. visual'[u] = [visual[u] EXCEPT !.crossed = b] /\ b \in BOOLEAN /\ visual[u] \in VisualCommand
    BY <1>2, <1>b
  <2>2. b <=> (visual[u].crossed \/ u \in hit)
    OBVIOUS
  <2> HIDE DEF b
  <2> QED BY <2>1, <2>2, Crossing
<1>5. VisualKinds'
  <2>1. visual' \in [Visuals -> VisualCommand]
    BY <1>a, <1>4 DEF VisualBegins
  <2> QED BY <2>1, <1>1 DEF VisualInv, VisualKinds
<1>6. VisualStages'
  <2> SUFFICES ASSUME NEW u \in Visuals PROVE Staged(visual'[u])
    BY DEF VisualStages
  <2>1. CASE u = v
    BY <1>3, <2>1 DEF VisualCommand, Resizing, Staged
  <2>2. CASE u # v
    <3>1. Staged(visual[u])
      BY DEF VisualInv, VisualStages
    <3> QED BY <1>4, <2>2, <3>1 DEF Staged
  <2> QED BY <2>1, <2>2
<1>7. Covered'
  BY <1>1, <1>3, <1>4 DEF VisualInv, Covered, Still
<1>8. Solitary'
  <2>1. \A u \in Visuals \ {v} : (Resizes(v)' /\ visual[u].tab = t /\ Resizes(u)) => u \in hit
    BY <1>3 DEF Resizes, Resizers, On, hit
  <2>2. \A u \in Visuals \ {v} : Resizes(u)' <=> Resizes(u)
    BY <1>4 DEF Resizes
  <2>3. ASSUME NEW u \in Visuals, NEW w \in Visuals, Resizes(u)', ~visual'[u].crossed, Resizes(w)',
               visual'[w].tab = visual'[u].tab
        PROVE  w = u
    <3>1. CASE u = v
      BY <1>3, <1>4, <2>1, <2>2, <2>3, <3>1
    <3>2. CASE u # v /\ w = v
      BY <1>3, <1>4, <2>1, <2>2, <2>3, <3>2
    <3>3. CASE u # v /\ w # v
      BY <1>4, <2>2, <2>3, <3>3 DEF VisualInv, Solitary
    <3> QED BY <3>1, <3>2, <3>3
  <2> QED BY <2>3 DEF Solitary, Resizes
<1>9. Tidy'
  <2> SUFFICES ASSUME NEW k \in kept'
               PROVE  /\ \A u \in Visuals : (Resizes(u)' /\ visual'[u].tab = k) => WillRestore(u)'
                      /\ (\A u \in Visuals : ~(Resizes(u)' /\ visual'[u].tab = k)) => size'[k] = tracked'
    BY DEF Tidy, Resizes
  <2>0. k \in kept /\ k \in keeps /\ size' = size
    BY <1>1
  <2>1. \A u \in Visuals \ {v} : Resizes(u)' <=> Resizes(u)
    BY <1>4 DEF Resizes
  <2>2. CASE k # t
    <3>1. tracked' = tracked
      BY <2>0, <2>2
    <3>2. ASSUME NEW u \in Visuals \ {v}, Resizes(u), visual[u].tab = k PROVE u \notin hit
      BY <2>2, <3>2 DEF hit, Resizers, On
    <3>3. ASSUME NEW u \in Visuals \ {v}, Resizes(u), visual[u].tab = k PROVE WillRestore(u)'
      BY <1>4, <2>0, <3>1, <3>2, <3>3 DEF VisualInv, Tidy, WillRestore
    <3> QED BY <1>1, <1>3, <1>4, <2>0, <2>1, <2>2, <3>1, <3>3 DEF VisualInv, Tidy, Resizes, Still, Resizing
  <2>3. CASE k = t
    <3>1. hit = {}
      BY <1>1, <2>3
    <3>2. CASE locals.does \notin Resizing
      BY <1>1, <1>3, <1>4, <2>0, <2>1, <2>3, <3>1, <3>2
      DEF VisualInv, Tidy, WillRestore, Resizes, Still, Resizing
    <3>3. CASE locals.does \in Resizing
      <4>1. \A u \in Visuals : ~(Resizes(u) /\ visual[u].tab = t)
        BY <3>1, <3>3 DEF hit, Resizers, On, Resizes
      <4>2. size[t] = tracked
        BY <4>1, <2>0, <2>3 DEF VisualInv, Tidy
      <4>3. WillRestore(v)'
        BY <4>2, <1>3, <2>0, <3>1, <3>3 DEF WillRestore, Resizing
      <4> QED BY <4>1, <4>3, <1>3, <1>4, <2>1, <2>3, <3>3 DEF Resizes
    <3> QED BY <3>2, <3>3
  <2> QED BY <2>2, <2>3
<1> QED BY <1>5, <1>6, <1>7, <1>8, <1>9 DEF VisualInv
\* A command that ends is still, and the others are as they were.
LEMMA EndFacts ==
  ASSUME VisualInv, NEW v \in Visuals, VisualEnds(v)
  PROVE  /\ visual' \in [Visuals -> VisualCommand] /\ VisualStages'
         /\ visual'[v].does = "nothing" /\ \A u \in Visuals \ {v} : visual'[u] = visual[u]
<1>1. Still \in VisualCommand /\ Staged(Still) /\ Still.does = "nothing"
  BY EmptySeq DEF Still, VisualCommand, Staged
<1> QED BY <1>1 DEF VisualEnds, VisualInv, VisualKinds, VisualStages

\* One that goes on is elsewhere.
LEMMA GoFacts ==
  ASSUME VisualInv, NEW v \in Visuals, NEW at \in {"prepare", "shot", "scroll", "restore", "unmark", "mark"},
         VisualGoes(v, at)
  PROVE  /\ visual' \in [Visuals -> VisualCommand] /\ visual'[v].at = at
         /\ visual'[v].does = visual[v].does /\ visual'[v].tab = visual[v].tab
         /\ visual'[v].asked = visual[v].asked /\ visual'[v].original = visual[v].original
         /\ visual'[v].todo = visual[v].todo /\ visual'[v].crossed = visual[v].crossed
         /\ \A u \in Visuals \ {v} : visual'[u] = visual[u]
         /\ visual[v] \in VisualCommand /\ Staged(visual[v])
BY DEF VisualGoes, VisualInv, VisualKinds, VisualStages, VisualCommand

\* A step of a command that resizes, from which its page is restored or still will be.
LEMMA ResizerStep ==
  ASSUME VisualInv, NEW v \in Visuals, Resizes(v), UNCHANGED <<tracked, marks>>, kept' \subseteq kept,
         hidden' \in [VisualTabs -> BOOLEAN],
         visual' \in [Visuals -> VisualCommand], Staged(visual'[v]),
         \A u \in Visuals \ {v} : visual'[u] = visual[u],
         Resizes(v)' => /\ visual'[v].tab = visual[v].tab
                        /\ visual'[v].crossed = visual[v].crossed,
         visual'[v].does # "marked",
         size' \in [VisualTabs -> Sizes \cup {NoSize} \cup {Widths[i] : i \in 1..3}],
         \A t \in VisualTabs : t # visual[v].tab => size'[t] = size[t],
         (visual[v].tab \in kept' /\ WillRestore(v)) =>
            IF Resizes(v)' THEN WillRestore(v)' ELSE size'[visual[v].tab] = tracked
  PROVE  VisualInv'
<1>1. VisualKinds'
  BY DEF VisualInv, VisualKinds
<1>2. VisualStages'
  BY DEF VisualInv, VisualStages
<1>3. Covered'
  BY DEF VisualInv, Covered, Resizes, Resizing
<1>4. \A u \in Visuals \ {v} : Resizes(u)' <=> Resizes(u)
  BY DEF Resizes
<1>5. Solitary'
  BY <1>4 DEF VisualInv, Solitary, Resizes
<1>6. Tidy'
  <2> SUFFICES ASSUME NEW k \in kept'
               PROVE  /\ \A u \in Visuals : (Resizes(u)' /\ visual'[u].tab = k) => WillRestore(u)'
                      /\ (\A u \in Visuals : ~(Resizes(u)' /\ visual'[u].tab = k)) => size'[k] = tracked'
    BY DEF Tidy, Resizes
  <2>1. k \in kept /\ k \in VisualTabs
    BY DEF VisualInv, VisualKinds
  <2>2. CASE k = visual[v].tab
    <3>1. WillRestore(v)
      BY <2>1, <2>2 DEF VisualInv, Tidy
    <3>2. \A u \in Visuals \ {v} : ~(Resizes(u) /\ visual[u].tab = k)
      BY <2>2, <3>1 DEF VisualInv, Solitary, WillRestore
    <3> QED BY <2>2, <3>1, <3>2, <1>4
  <2>3. CASE k # visual[v].tab
    <3>1. \A u \in Visuals : (Resizes(u)' /\ visual'[u].tab = k) <=> (Resizes(u) /\ visual[u].tab = k)
      BY <1>4, <2>3
    <3>2. ASSUME NEW u \in Visuals, Resizes(u), visual[u].tab = k PROVE WillRestore(u)'
      BY <2>1, <2>3, <3>2 DEF VisualInv, Tidy, WillRestore
    <3> QED BY <2>1, <2>3, <3>1, <3>2 DEF VisualInv, Tidy
  <2> QED BY <2>2, <2>3
<1> QED BY <1>1, <1>2, <1>3, <1>5, <1>6 DEF VisualInv

\* The steps of the commands that resize keep the invariant.
LEMMA ResizersKept ==
  ASSUME VisualInv, NEW v \in Visuals,
         \/ ViewportSet(v) \/ Resize(v) \/ Prepare(v) \/ ScrollFound(v) \/ ScrollMisses(v)
         \/ Shot(v) \/ Restore(v) \/ VisualFails(v)
  PROVE  VisualInv'
<1>0. visual[v] \in VisualCommand /\ Staged(visual[v])
  BY DEF VisualInv, VisualKinds, VisualStages
<1>1. CASE ViewportSet(v)
  <2>1. /\ visual[v].does = "viewport" /\ VisualEnds(v) /\ Sets(v, visual[v].asked)
        /\ tracked' = tracked /\ marks' = marks /\ hidden' = hidden
        /\ kept' = IF visual[v].crossed \/ visual[v].asked # tracked THEN kept
                   ELSE kept \cup {visual[v].tab}
    BY <1>1 DEF ViewportSet
  <2>2. VisualKinds'
    BY <1>0, <2>1, EndFacts DEF VisualInv, VisualKinds, Sets, Staged
  <2>3. Covered' /\ Solitary'
    BY <2>1, EndFacts DEF VisualInv, Covered, Solitary, Resizes, Resizing
  <2>4. Tidy'
    BY <1>0, <2>1, EndFacts DEF VisualInv, Tidy, WillRestore, Sets, Solitary, Resizes, Resizing, Staged,
       VisualKinds
  <2> QED BY <2>1, <2>2, <2>3, <2>4, EndFacts DEF VisualInv
<1>2. CASE Resize(v)
  <2>1. /\ visual[v].at = "resize" /\ visual[v].does \in {"pretty", "responsive"}
        /\ VisualGoes(v, IF visual[v].does = "pretty" THEN "prepare" ELSE "shot")
        /\ Sets(v, IF visual[v].does = "pretty" THEN visual[v].asked ELSE Head(visual[v].todo))
        /\ tracked' = tracked /\ marks' = marks /\ hidden' = hidden /\ kept' = kept
    BY <1>0, <1>2 DEF Resize, Staged, VisualCommand, Resizing
  <2>2. VisualKinds'
    <3>1. CASE visual[v].does = "pretty"
      BY <1>0, <2>1, <3>1, GoFacts DEF VisualInv, VisualKinds, Sets, Staged, VisualCommand
    <3>2. CASE visual[v].does = "responsive"
      <4>1. Head(visual[v].todo) \in {Widths[i] : i \in 1..3}
        BY <1>0, <2>1, <3>2, HeadTailProperties DEF Staged
      <4> QED BY <1>0, <2>1, <3>2, <4>1, GoFacts DEF VisualInv, VisualKinds, Sets, Staged, VisualCommand
    <3> QED BY <2>1, <3>1, <3>2
  <2>3. Resizes(v) /\ Resizes(v)' /\ Staged(visual'[v]) /\ (WillRestore(v) => WillRestore(v)')
    BY <1>0, <2>1, GoFacts DEF Resizes, Resizing, Staged, WillRestore
  <2> QED BY <2>1, <2>2, <2>3, GoFacts, ResizerStep DEF VisualKinds, Sets, VisualInv
<1>3. CASE Prepare(v)
  <2>1. PICK at \in {"scroll", "shot"} : VisualGoes(v, at)
    BY <1>3 DEF Prepare
  <2>2. /\ visual[v].at = "prepare" /\ visual[v].does = "pretty"
        /\ hidden' \in [VisualTabs -> BOOLEAN]
        /\ size' = size /\ tracked' = tracked /\ marks' = marks /\ kept' = kept
    BY <1>0, <1>3 DEF Prepare, Staged, VisualCommand, Resizing, VisualInv, VisualKinds
  <2>3. Resizes(v) /\ Resizes(v)' /\ Staged(visual'[v]) /\ (WillRestore(v) => WillRestore(v)')
    BY <1>0, <2>1, <2>2, GoFacts DEF Resizes, Resizing, Staged, WillRestore
  <2> QED BY <2>1, <2>2, <2>3, GoFacts, ResizerStep DEF VisualInv, VisualKinds
<1>4. CASE ScrollFound(v)
  <2>1. /\ visual[v].at = "scroll" /\ visual[v].does = "pretty" /\ VisualGoes(v, "shot")
        /\ UNCHANGED <<size, tracked, marks, hidden, kept>>
    BY <1>0, <1>4 DEF ScrollFound, Staged, VisualCommand, Resizing, Looks
  <2>3. Resizes(v) /\ Resizes(v)' /\ Staged(visual'[v]) /\ (WillRestore(v) => WillRestore(v)')
    BY <1>0, <2>1, GoFacts DEF Resizes, Resizing, Staged, WillRestore
  <2> QED BY <2>1, <2>3, GoFacts, ResizerStep DEF VisualInv, VisualKinds
<1>5. CASE ScrollMisses(v)
  <2>1. /\ visual[v].at = "scroll" /\ visual[v].does = "pretty" /\ VisualEnds(v)
        /\ UNCHANGED <<tracked, marks, hidden, kept>>
        /\ IF Resized(v) THEN Sets(v, visual[v].original) ELSE UNCHANGED size
    BY <1>0, <1>5 DEF ScrollMisses, Staged, VisualCommand, Resizing
  <2>2. /\ size' \in [VisualTabs -> Sizes \cup {NoSize} \cup {Widths[i] : i \in 1..3}]
        /\ \A t \in VisualTabs : t # visual[v].tab => size'[t] = size[t]
    BY <1>0, <2>1 DEF Sets, VisualInv, VisualKinds, VisualCommand
  <2>3. WillRestore(v) => size'[visual[v].tab] = tracked
    BY <1>0, <2>1, VisualAssumption DEF WillRestore, Resized, Sets, VisualInv, VisualKinds, Staged
  <2>4. Resizes(v) /\ ~Resizes(v)' /\ visual'[v].does # "marked" /\ Staged(visual'[v])
    BY <2>1, EndFacts DEF Resizes, Resizing, VisualStages
  <2> QED BY <2>1, <2>2, <2>3, <2>4, EndFacts, ResizerStep DEF VisualInv, VisualKinds
<1>6. CASE Shot(v)
  <2> DEFINE rest == IF visual[v].todo = <<>> THEN <<>> ELSE Tail(visual[v].todo)
  <2>1. /\ visual[v].at = "shot" /\ visual[v].does \in {"pretty", "responsive"}
        /\ UNCHANGED <<size, tracked, marks, hidden>>
        /\ kept' = IF Resized(v) /\ visual[v].original = NoSize THEN kept \ {visual[v].tab} ELSE kept
        /\ IF rest # <<>> THEN visual' = [visual EXCEPT ![v].todo = rest, ![v].at = "resize"]
           ELSE IF Resized(v) /\ visual[v].original # NoSize THEN VisualGoes(v, "restore") ELSE VisualEnds(v)
    BY <1>0, <1>6 DEF Shot, Staged, VisualCommand, Resizing, Looks
  <2>2. CASE rest # <<>>
    <3>1. /\ visual[v].todo # <<>> /\ rest = Tail(visual[v].todo) /\ visual[v].does = "responsive"
          /\ rest \in Seq({Widths[i] : i \in 1..3}) /\ rest \in Seq(VisualSteps)
      BY <1>0, <2>1, <2>2, HeadTailProperties DEF Staged, VisualCommand
    <3> HIDE DEF rest
    <3>2. /\ visual' \in [Visuals -> VisualCommand] /\ visual'[v].does = "responsive" /\ visual'[v].at = "resize"
          /\ visual'[v].todo = rest /\ visual'[v].tab = visual[v].tab
          /\ visual'[v].crossed = visual[v].crossed /\ visual'[v].original = visual[v].original
          /\ \A u \in Visuals \ {v} : visual'[u] = visual[u]
      BY <1>0, <2>1, <2>2, <3>1 DEF VisualInv, VisualKinds, VisualCommand
    <3>3. Resizes(v) /\ Resizes(v)' /\ Staged(visual'[v]) /\ (WillRestore(v) => WillRestore(v)')
      BY <1>0, <2>1, <2>2, <3>1, <3>2 DEF Resizes, Resizing, Staged, WillRestore
    <3> QED BY <2>1, <3>2, <3>3, ResizerStep DEF VisualInv, VisualKinds
  <2>3. CASE rest = <<>> /\ Resized(v) /\ visual[v].original # NoSize
    <3>1. VisualGoes(v, "restore")
      BY <2>1, <2>3
    <3>2. Resizes(v) /\ Resizes(v)' /\ Staged(visual'[v]) /\ (WillRestore(v) => WillRestore(v)')
      BY <1>0, <2>1, <2>3, <3>1, GoFacts DEF Resizes, Resizing, Staged, WillRestore, Resized
    <3> QED BY <2>1, <3>1, <3>2, GoFacts, ResizerStep DEF VisualInv, VisualKinds
  <2>4. CASE rest = <<>> /\ ~(Resized(v) /\ visual[v].original # NoSize)
    <3>1. VisualEnds(v)
      BY <2>1, <2>4
    <3>2. (visual[v].tab \in kept' /\ WillRestore(v)) => size'[visual[v].tab] = tracked
      BY <1>0, <2>1, <2>4, VisualAssumption DEF WillRestore, Resized, VisualInv, VisualKinds
    <3>3. Resizes(v) /\ ~Resizes(v)' /\ visual'[v].does # "marked" /\ Staged(visual'[v])
      BY <2>1, <3>1, EndFacts DEF Resizes, Resizing, VisualStages
    <3> QED BY <2>1, <3>1, <3>2, <3>3, EndFacts, ResizerStep DEF VisualInv, VisualKinds
  <2> QED BY <2>2, <2>3, <2>4
<1>7. CASE Restore(v)
  <2>1. /\ visual[v].at = "restore" /\ visual[v].does \in {"pretty", "responsive"} /\ VisualEnds(v)
        /\ UNCHANGED <<tracked, marks, hidden, kept>> /\ Sets(v, visual[v].original)
    BY <1>0, <1>7 DEF Restore, Staged, VisualCommand, Resizing
  <2>2. /\ size' \in [VisualTabs -> Sizes \cup {NoSize} \cup {Widths[i] : i \in 1..3}]
        /\ \A t \in VisualTabs : t # visual[v].tab => size'[t] = size[t]
    BY <1>0, <2>1 DEF Sets, VisualInv, VisualKinds, VisualCommand
  <2>3. WillRestore(v) => size'[visual[v].tab] = tracked
    BY <1>0, <2>1 DEF WillRestore, Sets, VisualInv, VisualKinds, Staged
  <2>4. Resizes(v) /\ ~Resizes(v)' /\ visual'[v].does # "marked" /\ Staged(visual'[v])
    BY <2>1, EndFacts DEF Resizes, Resizing, VisualStages
  <2> QED BY <2>1, <2>2, <2>3, <2>4, EndFacts, ResizerStep DEF VisualInv, VisualKinds
<1>8. CASE VisualFails(v)
  <2>1. /\ visual[v].does \in Resizing /\ VisualEnds(v) /\ UNCHANGED <<size, tracked, marks, hidden>>
        /\ kept' = IF Resized(v) \/ visual[v].does = "viewport" THEN kept \ {visual[v].tab} ELSE kept
    BY <1>8 DEF VisualFails, Looks
  <2>3. (visual[v].tab \in kept' /\ WillRestore(v)) => size'[visual[v].tab] = tracked
    BY <1>0, <2>1, VisualAssumption DEF WillRestore, Resized, Resizing, VisualInv, VisualKinds
  <2>4. Resizes(v) /\ ~Resizes(v)' /\ visual'[v].does # "marked" /\ Staged(visual'[v])
    BY <2>1, EndFacts DEF Resizes, Resizing, VisualStages
  <2> QED BY <2>1, <2>3, <2>4, EndFacts, ResizerStep DEF VisualInv, VisualKinds
<1> QED BY <1>1, <1>2, <1>3, <1>4, <1>5, <1>6, <1>7, <1>8

\* A step of a command that does not resize, after which every overlay is still covered.
LEMMA BystanderStep ==
  ASSUME VisualInv, NEW v \in Visuals, ~Resizes(v), UNCHANGED <<size, tracked, kept>>,
         hidden' \in [VisualTabs -> BOOLEAN], marks' \in [VisualTabs -> SUBSET Marks],
         visual' \in [Visuals -> VisualCommand], Staged(visual'[v]), ~Resizes(v)',
         \A u \in Visuals \ {v} : visual'[u] = visual[u],
         Covered'
  PROVE  VisualInv'
<1>1. \A u \in Visuals : Resizes(u)' <=> Resizes(u)
  BY DEF Resizes
<1>2. \A u \in Visuals : Resizes(u) => visual'[u] = visual[u]
  OBVIOUS
<1>3. VisualKinds' /\ VisualStages' /\ Solitary'
  BY <1>1, <1>2 DEF VisualInv, VisualKinds, VisualStages, Solitary
<1>4. Tidy'
  BY <1>1, <1>2 DEF VisualInv, VisualKinds, Tidy, WillRestore
<1> QED BY <1>3, <1>4 DEF VisualInv

\* The steps of the commands that take a picture, mark or clean up the page keep it.
LEMMA BystandersKept ==
  ASSUME VisualInv, NEW v \in Visuals,
         \/ PictureEnds(v) \/ Mark(v) \/ HeatMark(v) \/ MarkedShot(v) \/ Unmark(v) \/ CleanupPass(v)
  PROVE  VisualInv'
<1>0. visual[v] \in VisualCommand /\ Staged(visual[v])
  BY DEF VisualInv, VisualKinds, VisualStages
<1>1. CASE PictureEnds(v)
  <2>1. /\ visual[v].does = "picture" /\ VisualEnds(v) /\ UNCHANGED <<size, tracked, marks, hidden, kept>>
    BY <1>1 DEF PictureEnds, Looks
  <2>2. Covered' /\ ~Resizes(v) /\ ~Resizes(v)' /\ Staged(visual'[v])
    BY <2>1, EndFacts DEF VisualInv, Covered, Resizes, Resizing, VisualStages
  <2> QED BY <2>1, <2>2, EndFacts, BystanderStep DEF VisualInv, VisualKinds
<1>2. ASSUME NEW kind \in Marks, Injects(v, kind) PROVE VisualInv'
  <2>1. /\ visual[v].does = "marked" /\ visual[v].at = "mark" /\ Head(visual[v].todo) = kind
        /\ marks' = [marks EXCEPT ![visual[v].tab] = @ \cup {kind}] /\ VisualGoes(v, "shot")
        /\ UNCHANGED <<size, tracked, hidden, kept>>
    BY <1>0, <1>2 DEF Injects, Staged, VisualCommand, Resizing
  <2>2. ~Resizes(v) /\ ~Resizes(v)' /\ Staged(visual'[v]) /\ marks' \in [VisualTabs -> SUBSET Marks]
    BY <2>1, GoFacts, ZenonT(30) DEF Resizes, Resizing, Staged, VisualInv, VisualKinds
  <2>3. Covered'
    <3>1. /\ visual'[v].tab = visual[v].tab /\ visual'[v].does = "marked" /\ visual'[v].at = "shot"
          /\ visual'[v].todo = visual[v].todo /\ \A u \in Visuals \ {v} : visual'[u] = visual[u]
      BY <2>1, GoFacts
    <3>2. ASSUME NEW t \in VisualTabs, NEW m \in marks'[t]
          PROVE  m \in marks[t] \/ (t = visual[v].tab /\ m = kind)
      BY <2>1 DEF VisualInv, VisualKinds
    <3>3. \A u \in Visuals : (visual[u].does = "marked" /\ visual[u].at \in {"shot", "unmark"}) =>
            visual'[u] = visual[u]
      BY <2>1, <3>1
    <3> QED BY <2>1, <3>1, <3>2, <3>3 DEF VisualInv, Covered
  <2> QED BY <2>1, <2>2, <2>3, GoFacts, BystanderStep DEF VisualInv, VisualKinds
<1>3. ASSUME NEW kind \in Marks, InjectsNone(v, kind), VisualGoes(v, "unmark") \/ VisualEnds(v)
      PROVE  VisualInv'
  <2>1. /\ visual[v].does = "marked" /\ visual[v].at = "mark"
        /\ UNCHANGED <<size, tracked, marks, hidden, kept>>
    BY <1>0, <1>3 DEF InjectsNone, Staged, VisualCommand, Resizing, Looks
  <2>2. CASE VisualGoes(v, "unmark")
    <3>0. ~Resizes(v) /\ ~Resizes(v)' /\ Staged(visual'[v])
      BY <2>1, <2>2, GoFacts, ZenonT(30) DEF Resizes, Resizing, Staged
    <3>1. Covered'
      <4>1. \A u \in Visuals : (visual[u].does = "marked" /\ visual[u].at \in {"shot", "unmark"}) =>
              visual'[u] = visual[u]
        BY <2>1, <2>2, GoFacts
      <4> QED BY <2>1, <4>1 DEF VisualInv, Covered
    <3> QED BY <2>1, <2>2, <3>0, <3>1, GoFacts, BystanderStep DEF VisualInv, VisualKinds
  <2>3. CASE VisualEnds(v)
    <3>1. ~Resizes(v) /\ ~Resizes(v)' /\ Staged(visual'[v]) /\ Covered'
      BY <2>1, <2>3, EndFacts DEF Resizes, Resizing, VisualStages, VisualInv, Covered
    <3> QED BY <2>1, <2>3, <3>1, EndFacts, BystanderStep DEF VisualInv, VisualKinds
  <2> QED BY <1>3, <2>2, <2>3
<1>4. CASE MarkedShot(v)
  <2>1. /\ visual[v].does = "marked" /\ visual[v].at = "shot" /\ VisualGoes(v, "unmark")
        /\ UNCHANGED <<size, tracked, marks, hidden, kept>>
    BY <1>4 DEF MarkedShot, Looks
  <2>2. ~Resizes(v) /\ ~Resizes(v)' /\ Staged(visual'[v])
    BY <2>1, GoFacts, ZenonT(30) DEF Resizes, Resizing, Staged
  <2>3. Covered'
    <3>1. \A u \in Visuals : (visual[u].does = "marked" /\ visual[u].at \in {"shot", "unmark"}) =>
            /\ visual'[u].does = "marked" /\ visual'[u].at \in {"shot", "unmark"}
            /\ visual'[u].tab = visual[u].tab /\ visual'[u].todo = visual[u].todo
      BY <2>1, GoFacts
    <3> QED BY <2>1, <3>1 DEF VisualInv, Covered
  <2> QED BY <2>1, <2>2, <2>3, GoFacts, BystanderStep DEF VisualInv, VisualKinds
<1>5. CASE Unmark(v)
  <2>1. /\ visual[v].does = "marked" /\ visual[v].at = "unmark"
        /\ marks' = [marks EXCEPT ![visual[v].tab] = @ \ {Head(visual[v].todo)}]
        /\ UNCHANGED <<size, tracked, hidden, kept>>
    BY <1>0, <1>5 DEF Unmark, Staged, VisualCommand, Resizing
  <2>2. visual' \in [Visuals -> VisualCommand] /\ Staged(visual'[v]) /\ ~Resizes(v)'
        /\ \A u \in Visuals \ {v} : visual'[u] = visual[u]
    <3>1. CASE Len(visual[v].todo) = 1
      BY <1>5, <3>1, EndFacts DEF Unmark, VisualStages, Resizes, Resizing
    <3>2. CASE Len(visual[v].todo) # 1
      <4>1. Tail(visual[v].todo) \in Seq(VisualSteps) /\ Tail(visual[v].todo) # <<>>
        BY <1>0, <2>1, <3>2, TailGoesOn DEF Staged, VisualCommand
      <4>2. visual' = [visual EXCEPT ![v].todo = Tail(@), ![v].at = "mark"]
        BY <1>5, <3>2 DEF Unmark
      <4> QED BY <1>0, <2>1, <4>1, <4>2 DEF VisualCommand, Staged, Resizes, Resizing, VisualInv, VisualKinds
    <3> QED BY <3>1, <3>2
  <2>3. Covered' /\ marks' \in [VisualTabs -> SUBSET Marks]
    BY <1>0, <2>1, <2>2 DEF VisualInv, VisualKinds, Covered, Staged
  <2> QED BY <2>1, <2>2, <2>3, BystanderStep DEF Resizes, Resizing, VisualInv, VisualKinds
<1>6. CASE CleanupPass(v)
  <2>1. /\ visual[v].does = "cleanup" /\ hidden' \in [VisualTabs -> BOOLEAN]
        /\ UNCHANGED <<size, tracked, marks, kept>>
    BY <1>0, <1>6 DEF CleanupPass, Staged, VisualCommand, Resizing, VisualInv, VisualKinds
  <2>2. visual' \in [Visuals -> VisualCommand] /\ Staged(visual'[v]) /\ ~Resizes(v)'
        /\ \A u \in Visuals \ {v} : visual'[u] = visual[u]
    <3>1. CASE VisualEnds(v)
      BY <3>1, EndFacts DEF VisualStages, Resizes, Resizing
    <3>2. CASE visual' = [visual EXCEPT ![v].todo = Tail(@)] /\ Len(visual[v].todo) # 1
      <4>1. Tail(visual[v].todo) \in Seq(VisualSteps) /\ Tail(visual[v].todo) # <<>>
        BY <1>0, <2>1, <3>2, TailGoesOn DEF Staged, VisualCommand
      <4> QED BY <1>0, <2>1, <3>2, <4>1 DEF VisualCommand, Staged, Resizes, Resizing, VisualInv, VisualKinds
    <3> QED BY <1>6, <3>1, <3>2 DEF CleanupPass
  <2>3. Covered'
    BY <2>1, <2>2 DEF VisualInv, Covered
  <2> QED BY <2>1, <2>2, <2>3, BystanderStep DEF Resizes, Resizing, VisualInv, VisualKinds
<1>7. CASE Mark(v)
  <2>1. "annotation" \in Marks
    BY DEF Marks
  <2>2. CASE Injects(v, "annotation")
    BY <1>2, <2>1, <2>2
  <2>3. CASE InjectsNone(v, "annotation") /\ (VisualGoes(v, "unmark") \/ VisualEnds(v))
    BY <1>3, <2>1, <2>3
  <2> QED BY <1>7, <2>2, <2>3 DEF Mark
<1>8. CASE HeatMark(v)
  <2>1. "heatmap" \in Marks
    BY DEF Marks
  <2>2. CASE Injects(v, "heatmap")
    BY <1>2, <2>1, <2>2
  <2>3. CASE InjectsNone(v, "heatmap") /\ VisualGoes(v, "unmark")
    BY <1>3, <2>1, <2>3
  <2> QED BY <1>8, <2>2, <2>3 DEF HeatMark
<1> QED BY <1>1, <1>4, <1>5, <1>6, <1>7, <1>8

\* Every step keeps it: a command begins, goes on, or a page navigates.
LEMMA VisualStepKept == VisualInv /\ [VisualNext]_visualVars => VisualInv'
<1> SUFFICES ASSUME VisualInv, [VisualNext]_visualVars PROVE VisualInv'
  OBVIOUS
<1>0. tracked \in Sizes /\ size \in [VisualTabs -> Sizes \cup {NoSize} \cup {Widths[i] : i \in 1..3}]
  BY DEF VisualInv, VisualKinds
<1>a. Still.does = "nothing" /\ Still.at = "idle"
  BY DEF Still
<1> DEFINE Plain(does, at) == [Still EXCEPT !.does = does, !.at = at]
<1>1. ASSUME NEW v \in Visuals, NEW t \in VisualTabs, NEW s \in Sizes, Viewport(v, t, s) PROVE VisualInv'
  <2> DEFINE locals == [Still EXCEPT !.does = "viewport", !.at = "resize", !.asked = s]
  <2>1. /\ locals \in VisualCommand /\ locals.does = "viewport" /\ locals.at = "resize" /\ locals.asked = s
    BY EmptySeq DEF Still, VisualCommand, Resizing
  <2>2. VisualBegins(v, t, locals, kept \cap {t}) /\ tracked' = s
    BY <1>1 DEF Viewport
  <2> HIDE DEF locals
  <2> QED BY <2>1, <2>2, VisualBeginKept
<1>2. ASSUME NEW v \in Visuals, NEW t \in VisualTabs, NEW s \in Sizes \cup {NoSize}, Pretty(v, t, s)
      PROVE  VisualInv'
  <2> DEFINE locals == [Still EXCEPT !.does = "pretty", !.asked = s, !.original = size[t],
                          !.at = IF s # NoSize /\ size[t] # NoSize THEN "resize" ELSE "prepare"]
  <2>1. /\ locals \in VisualCommand /\ locals.does = "pretty" /\ locals.asked = s /\ locals.original = size[t]
        /\ locals.at = (IF s # NoSize /\ size[t] # NoSize THEN "resize" ELSE "prepare") /\ locals.todo = <<>>
    BY <1>0, EmptySeq DEF Still, VisualCommand, Resizing
  <2>2. VisualBegins(v, t, locals, kept) /\ tracked' = tracked
    BY <1>2 DEF Pretty
  <2> HIDE DEF locals
  <2> QED BY <1>0, <2>1, <2>2, VisualBeginKept
<1>3. ASSUME NEW v \in Visuals, NEW t \in VisualTabs, Responsive(v, t) PROVE VisualInv'
  <2> DEFINE locals == [Still EXCEPT !.does = "responsive", !.at = "resize", !.original = size[t], !.todo = Widths]
  <2>1. Widths \in Seq(VisualSteps) /\ Widths \in Seq({Widths[i] : i \in 1..3}) /\ Widths # <<>>
    BY DEF Widths, VisualSteps
  <2>2. /\ locals \in VisualCommand /\ locals.does = "responsive" /\ locals.original = size[t]
        /\ locals.at = "resize" /\ locals.todo = Widths
    BY <1>0, <2>1 DEF Still, VisualCommand, Resizing
  <2>3. VisualBegins(v, t, locals, kept) /\ tracked' = tracked
    BY <1>3 DEF Responsive
  <2> HIDE DEF locals
  <2> QED BY <1>0, <2>1, <2>2, <2>3, VisualBeginKept
<1>4. ASSUME NEW v \in Visuals, NEW t \in VisualTabs, Picture(v, t) PROVE VisualInv'
  <2> DEFINE locals == [Still EXCEPT !.does = "picture", !.at = "shot"]
  <2>1. locals \in VisualCommand /\ locals.does = "picture" /\ locals.at = "shot"
    BY EmptySeq DEF Still, VisualCommand
  <2>2. VisualBegins(v, t, locals, kept) /\ tracked' = tracked
    BY <1>4 DEF Picture
  <2> HIDE DEF locals
  <2> QED BY <1>0, <2>1, <2>2, VisualBeginKept
<1>5. ASSUME NEW v \in Visuals, NEW t \in VisualTabs,
             NEW kinds \in {<<"annotation">>, <<"heatmap">>, <<"annotation", "heatmap">>},
             Snapshots(v, t, kinds)
      PROVE  VisualInv'
  <2> DEFINE locals == [Still EXCEPT !.does = "marked", !.at = "mark", !.todo = kinds]
  <2>1. kinds \in Seq(VisualSteps) /\ kinds # <<>>
    <3>1. "annotation" \in VisualSteps /\ "heatmap" \in VisualSteps
      BY DEF VisualSteps, Marks
    <3>2. CASE kinds = <<"annotation">>
      BY <3>1, <3>2
    <3>3. CASE kinds = <<"heatmap">>
      BY <3>1, <3>3
    <3>4. CASE kinds = <<"annotation", "heatmap">>
      BY <3>1, <3>4
    <3> QED BY <3>2, <3>3, <3>4
  <2>2. locals \in VisualCommand /\ locals.does = "marked" /\ locals.at = "mark" /\ locals.todo = kinds
    BY <2>1 DEF Still, VisualCommand
  <2>3. VisualBegins(v, t, locals, kept) /\ tracked' = tracked
    BY <1>5 DEF Snapshots
  <2> HIDE DEF locals
  <2> QED BY <1>0, <2>1, <2>2, <2>3, VisualBeginKept
<1>6. ASSUME NEW v \in Visuals, NEW t \in VisualTabs, NEW first \in 1..3, Cleanup(v, t, first)
      PROVE  VisualInv'
  <2> DEFINE passes == SubSeq(Passes, first, 5)
             locals == [Still EXCEPT !.does = "cleanup", !.at = "pass", !.todo = passes]
  <2>1. passes \in Seq(VisualSteps) /\ passes # <<>>
    <3>1. \A i \in first..5 : Passes[i] \in VisualSteps
      BY DEF VisualSteps
    <3>2. passes \in Seq(VisualSteps) /\ Len(passes) = 6 - first
      BY <3>1, SubSeqProperties
    <3>3. Len(passes) # Len(<<>>)
      BY <3>2, EmptySeq
    <3> QED BY <3>2, <3>3
  <2> HIDE DEF passes
  <2>2. locals \in VisualCommand /\ locals.does = "cleanup" /\ locals.at = "pass" /\ locals.todo = passes
    BY <2>1 DEF Still, VisualCommand
  <2>3. VisualBegins(v, t, locals, kept) /\ tracked' = tracked
    BY <1>6 DEF Cleanup, passes
  <2> HIDE DEF locals
  <2> QED BY <1>0, <2>1, <2>2, <2>3, VisualBeginKept
<1>7. ASSUME NEW t \in VisualTabs, VisualNavigates(t) PROVE VisualInv'
  BY <1>7 DEF VisualNavigates, VisualInv, VisualKinds, VisualStages, Covered, Solitary, Tidy, Resizes,
     WillRestore
<1>8. CASE UNCHANGED visualVars
  BY <1>8 DEF visualVars, VisualInv, VisualKinds, VisualStages, Covered, Solitary, Tidy, Resizes, WillRestore
<1> QED BY <1>1, <1>2, <1>3, <1>4, <1>5, <1>6, <1>7, <1>8, ResizersKept, BystandersKept DEF VisualNext

\* The invariant holds throughout.
THEOREM VisualInvariance == VisualSpec => []VisualInv
BY VisualInitInv, VisualStepKept, PTL DEF VisualSpec

\* Sizes, marks and commands keep their types.
THEOREM VisualTypes == VisualSpec => []VisualTypeOK
<1>1. VisualInv => VisualTypeOK
  BY DEF VisualInv, VisualKinds, VisualTypeOK, VisualCommand
<1> QED BY <1>1, VisualInvariance, PTL

\* When the commands have ended no overlay is left on any page, and every page whose
\* commands neither failed nor crossed has the size that is tracked, for any number of
\* pages and commands.
THEOREM NoTrace == VisualSpec => []LeavesNoTrace
<1>1. VisualInv => LeavesNoTrace
  <2> SUFFICES ASSUME VisualInv, NEW t \in VisualTabs
               PROVE  /\ On(t) = {} => marks[t] = {}
                      /\ (Resizers(t) = {} /\ t \in kept) => size[t] = tracked
    BY DEF LeavesNoTrace
  <2>1. On(t) = {} => marks[t] = {}
    BY DEF VisualInv, VisualKinds, Covered, On
  <2>2. (Resizers(t) = {} /\ t \in kept) => size[t] = tracked
    BY DEF VisualInv, Tidy, On, Resizers, Resizes
  <2> QED BY <2>1, <2>2
<1> QED BY <1>1, VisualInvariance, PTL

-----------------------------------------------------------------------------
(* TabEach: FanOutIsTrue.  The results so far are of the tabs listed, in     *)
(* order; and a command that runs alone has its way back to the tab that was *)
(* active.                                                                   *)

\* A tab, or none.
TabsOrNone == EachTabs \cup {NoTab}
\* A command as it can be.
Fanning == [at : {"idle", "titles", "next", "inner", "closing", "opening"},
            does : {"chain", "tab-each"}, pin : TabsOrNone, prog : Seq(Subcommands),
            listed : Seq(EachTabs), reading : TabsOrNone, original : TabsOrNone,
            saved : TabsOrNone, ran : Seq(TabsOrNone)]

\* The kinds of the variables; tabs are numbered up to the next one.
EachKinds ==
  /\ opened \subseteq EachTabs /\ shown \in TabsOrNone /\ home \in TabsOrNone
  /\ nextId \in 2..Cardinality(EachTabs) + 1 /\ \A t \in opened : t < nextId
  /\ fan \in [Fans -> Fanning]

\* The results of one command so far are of the tabs it has listed, in their order.
InOrder(r) ==
  /\ r.does = "chain" => Len(r.ran) <= Len(r.prog) /\ r.at # "titles"
  /\ r.does = "tab-each" =>
       /\ r.at = "titles" => r.ran = <<>>
       /\ r.at # "idle" => Len(r.prog) = 1
       /\ Len(r.ran) <= Len(r.listed)
       /\ \A i \in 1..Len(r.ran) :
            r.ran[i] = IF r.listed[i] \in Internal THEN NoTab ELSE r.listed[i]

\* The command that is alone will restore the tab that was active: it is pinned, or has not
\* left the tab yet, or remembers it as the original one.
Returns(r) ==
  \/ r.pin = home
  \/ /\ r.pin = NoTab /\ r.does = "chain" /\ shown = home
     /\ r.at \in {"next", "inner"} /\ r.saved = NoTab
  \/ /\ r.pin = NoTab /\ r.does = "tab-each" /\ r.at = "titles" /\ shown = home
     /\ r.original \in {NoTab, home}
  \/ r.pin = NoTab /\ r.does = "tab-each" /\ r.at # "titles" /\ r.original = home

\* While one command runs alone it has its way back; before and after it the tab is shown.
WayHome ==
  home # NoTab =>
    /\ Running = {} /\ home \in opened => shown = home
    /\ \A f \in Running : Running = {f} /\ Returns(fan[f])

\* So it is with every command.
Ordered == \A f \in Fans : InOrder(fan[f])
\* The inductive invariant.
EachInv == EachKinds /\ Ordered /\ WayHome

\* Tabs are the numbers up to their count.
LEMMA TabNumbers ==
  /\ Cardinality(EachTabs) \in Nat /\ NoTab \notin EachTabs
  /\ \A t \in EachTabs : t \in Nat /\ 1 <= t /\ t <= Cardinality(EachTabs)
  /\ \A t \in Nat : 1 <= t /\ t <= Cardinality(EachTabs) => t \in EachTabs
<1>1. Cardinality(EachTabs) \in Nat
  BY EachAssumption, FS_CardinalityType
<1> QED BY <1>1, EachAssumption DEF NoTab

\* A set of tabs that is not empty has a first and a last one.
LEMMA FirstTab ==
  ASSUME NEW S \in SUBSET EachTabs, S # {}
  PROVE  Min(S) \in S
<1>1. S \subseteq Nat
  BY TabNumbers
<1>2. PICK m \in S : \A n \in S : <<n, m>> \notin OpToRel(<, Nat)
  BY <1>1, WFMin, NatLessThanWellFounded
<1>3. \A n \in S : m <= n
  <2> TAKE n \in S
  <2>1. ~(n < m)
    BY <1>1, <1>2 DEF OpToRel
  <2> QED BY <1>1, <2>1
<1> QED BY <1>3 DEF Min

\* The same of the last one.
LEMMA LastTab ==
  ASSUME NEW S \in SUBSET EachTabs, S # {}
  PROVE  Max(S) \in S /\ \A t \in S : t <= Max(S)
<1> DEFINE Below == {Cardinality(EachTabs) - t : t \in S}
<1>1. \A t \in S : t \in Nat /\ Cardinality(EachTabs) - t \in Nat
  BY TabNumbers
<1>2. Below \subseteq Nat /\ Below # {}
  BY <1>1
<1>3. PICK m \in Below : \A n \in Below : <<n, m>> \notin OpToRel(<, Nat)
  <2> HIDE DEF Below
  <2> QED BY <1>2, WFMin, NatLessThanWellFounded
<1>4. PICK t \in S : m = Cardinality(EachTabs) - t
  BY <1>3
<1>5. \A u \in S : t >= u
  <2> TAKE u \in S
  <2>1. Cardinality(EachTabs) - u \in Below
    OBVIOUS
  <2>2. ~(Cardinality(EachTabs) - u < m)
    BY <1>2, <1>3, <2>1 DEF OpToRel
  <2> QED BY <1>1, <1>4, <2>2, TabNumbers
<1>6. Max(S) \in S /\ \A u \in S : Max(S) >= u
  BY <1>5 DEF Max
<1> QED BY <1>1, <1>6

\* The tab that becomes active when one closes is one of the open ones, or none.
LEMMA FollowingTab ==
  ASSUME opened \subseteq EachTabs, NEW t
  PROVE  Following(t) \in TabsOrNone
BY FirstTab DEF Following, TabsOrNone

\* A command that has not begun.
LEMMA FreeFans == Free \in Fanning /\ InOrder(Free) /\ Free.at = "idle"
<1>1. NoTab \in TabsOrNone
  BY DEF TabsOrNone
<1>2. Free \in Fanning /\ Free.at = "idle"
  BY <1>1 DEF Free, Fanning
<1>3. Free.does = "chain" /\ Len(Free.ran) = 0 /\ Len(Free.prog) = 0
  BY DEF Free
<1> QED BY <1>2, <1>3 DEF InOrder

\* The invariant holds at first.
LEMMA EachInitInv == EachInit => EachInv
<1> SUFFICES ASSUME EachInit PROVE EachInv
  OBVIOUS
<1>1. opened \in SUBSET EachTabs /\ opened # {} /\ shown \in EachTabs /\ NoTab \in TabsOrNone
  BY DEF EachInit, TabsOrNone
<1>2. Max(opened) \in opened /\ \A t \in opened : t <= Max(opened)
  BY <1>1, LastTab
<1>3. nextId \in 2..Cardinality(EachTabs) + 1 /\ \A t \in opened : t < nextId
  BY <1>1, <1>2, TabNumbers DEF EachInit
<1>4. EachKinds
  BY <1>1, <1>3, FreeFans DEF EachInit, EachKinds, TabsOrNone
<1>5. Ordered /\ WayHome
  BY FreeFans DEF EachInit, Ordered, WayHome
<1> QED BY <1>4, <1>5 DEF EachInv

\* A command goes on, or ends, as r: the others stay.
LEMMA FanStep ==
  ASSUME EachKinds, Ordered, NEW f \in Fans, NEW r \in Fanning, InOrder(r),
         fan' = [fan EXCEPT ![f] = r]
  PROVE  /\ fan' \in [Fans -> Fanning] /\ fan'[f] = r /\ Ordered'
         /\ \A g \in Fans \ {f} : fan'[g] = fan[g]
<1>1. /\ fan' \in [Fans -> Fanning] /\ fan'[f] = r /\ DOMAIN fan = Fans
      /\ \A g \in Fans \ {f} : fan'[g] = fan[g]
  BY DEF EachKinds
<1>2. \A g \in Fans : InOrder(fan'[g])
  BY <1>1 DEF Ordered
<1> QED BY <1>1, <1>2 DEF Ordered, InOrder

\* If it was under way and still is, or has ended, with the way home kept.
LEMMA HomeStep ==
  ASSUME EachInv, NEW f \in Running, NEW r \in Fanning, fan' = [fan EXCEPT ![f] = r],
         home' \in {home, NoTab},
         home' # NoTab /\ Running = {f} /\ Returns(fan[f]) =>
           IF r.at = "idle" THEN home \in opened' => shown' = home
           ELSE \/ r.pin = home
                \/ /\ r.pin = NoTab /\ r.does = "chain" /\ shown' = home
                   /\ r.at \in {"next", "inner"} /\ r.saved = NoTab
                \/ /\ r.pin = NoTab /\ r.does = "tab-each" /\ r.at = "titles" /\ shown' = home
                   /\ r.original \in {NoTab, home}
                \/ r.pin = NoTab /\ r.does = "tab-each" /\ r.at # "titles" /\ r.original = home
  PROVE  WayHome'
<1> SUFFICES ASSUME home' # NoTab PROVE WayHome'
  BY DEF WayHome
<1>1. home' = home /\ Running = {f} /\ Returns(fan[f])
  BY DEF EachInv, WayHome
<1>2. /\ f \in Fans /\ fan'[f] = r /\ \A g \in Fans \ {f} : fan'[g] = fan[g]
  BY DEF Running, EachInv, EachKinds
<1>3. Running' = IF r.at = "idle" THEN {} ELSE {f}
  BY <1>1, <1>2 DEF Running
<1>4. CASE r.at = "idle"
  BY <1>1, <1>3, <1>4 DEF WayHome
<1>5. CASE r.at # "idle"
  <2>1. Running' = {f} /\ Returns(fan[f])'
    BY <1>1, <1>2, <1>3, <1>5 DEF Returns
  <2> QED BY <2>1 DEF WayHome
<1> QED BY <1>4, <1>5

\* A chain or a tab-each begins.
LEMMA FanBeginKept ==
  ASSUME EachInv, NEW f \in Fans, NEW t \in {NoTab} \cup opened, NEW prog \in Seq(Subcommands),
         NEW does \in {"chain", "tab-each"}, does = "tab-each" => Len(prog) = 1,
         Begin(f, does, t, prog)
  PROVE  EachInv'
<1> DEFINE r == [Free EXCEPT !.does = does, !.prog = prog, !.pin = IF t = NoTab THEN NoTab ELSE shown,
                    !.at = IF does = "chain" THEN "next" ELSE "titles",
                    !.reading = IF does = "chain" THEN NoTab ELSE Following(NoTab)]
<1>1. /\ fan[f].at = "idle" /\ fan' = [fan EXCEPT ![f] = r] /\ UNCHANGED <<opened, nextId>>
      /\ home' = IF Running = {} THEN shown ELSE NoTab
      /\ shown' = IF t = NoTab THEN shown ELSE Switched(t)
  BY DEF Begin
<1>2. EachKinds /\ Ordered
  BY DEF EachInv
<1>3. Following(NoTab) \in TabsOrNone /\ shown \in TabsOrNone /\ NoTab \in TabsOrNone
      /\ shown' \in TabsOrNone /\ home' \in TabsOrNone
  BY <1>1, <1>2, FollowingTab DEF EachKinds, TabsOrNone, Switched
<1>4. r \in Fanning
  BY <1>3, FreeFans DEF Fanning
<1>5. /\ r.does = does /\ r.prog = prog /\ r.pin = IF t = NoTab THEN NoTab ELSE shown
      /\ r.at = IF does = "chain" THEN "next" ELSE "titles"
      /\ r.saved = NoTab /\ r.original = NoTab /\ r.ran = <<>> /\ r.listed = <<>> /\ Len(r.ran) = 0
      /\ r.at # "idle" /\ Len(r.listed) = 0
  BY DEF Free
<1> HIDE DEF r
<1>6. InOrder(r)
  BY <1>5 DEF InOrder
<1>7. /\ fan' \in [Fans -> Fanning] /\ fan'[f] = r /\ Ordered'
      /\ \A g \in Fans \ {f} : fan'[g] = fan[g]
  BY <1>1, <1>2, <1>4, <1>6, FanStep
<1>8. EachKinds'
  BY <1>1, <1>2, <1>3, <1>7 DEF EachKinds
<1>9. WayHome'
  <2> SUFFICES ASSUME home' # NoTab PROVE WayHome'
    BY DEF WayHome
  <2>1. Running = {} /\ home' = shown
    BY <1>1
  <2>2. Running' = {f}
    BY <1>5, <1>7, <2>1 DEF Running
  <2>3. Returns(fan[f])'
    BY <1>1, <1>5, <1>7, <2>1 DEF Returns
  <2> QED BY <2>2, <2>3 DEF WayHome
<1> QED BY <1>7, <1>8, <1>9 DEF EachInv

\* A command that ends.
LEMMA FanEndKept ==
  ASSUME EachInv, NEW f \in Running, fan[f].at = "next",
         \/ fan[f].does = "tab-each" /\ FanEnds(f)
         \/ fan[f].does = "chain" /\ ChainEnds(f)
  PROVE  EachInv'
<1>1. EachKinds /\ Ordered /\ f \in Fans /\ fan[f] \in Fanning
  BY DEF EachInv, EachKinds, Running
<1>2. fan' = [fan EXCEPT ![f] = Free] /\ UNCHANGED <<opened, nextId, home>>
  BY DEF FanEnds, ChainEnds, FanAnswered
<1>3. shown' \in TabsOrNone
  BY <1>1 DEF FanEnds, ChainEnds, Unpinned, Switched, EachKinds, TabsOrNone, Fanning
<1>4. EachKinds' /\ Ordered'
  BY <1>1, <1>2, <1>3, FreeFans, FanStep DEF EachKinds
<1>5. home # NoTab /\ Returns(fan[f]) => (home \in opened' => shown' = home)
  BY <1>2 DEF Returns, FanEnds, ChainEnds, Unpinned, Switched
<1>6. WayHome'
  BY <1>2, <1>5, FreeFans, HomeStep
<1> QED BY <1>4, <1>6 DEF EachInv

\* A step of a command that goes on, as r.
LEMMA FanGoesOn ==
  ASSUME EachInv, NEW f \in Running, NEW r \in Fanning, InOrder(r), fan' = [fan EXCEPT ![f] = r],
         r.does = fan[f].does, r.pin = fan[f].pin, r.at # "idle",
         home' \in {home, NoTab}, shown' \in TabsOrNone,
         opened' \subseteq EachTabs, nextId' \in 2..Cardinality(EachTabs) + 1,
         \A t \in opened' : t < nextId',
         home' # NoTab /\ r.pin = NoTab /\ r.does = "chain" /\ shown = home /\ fan[f].saved = NoTab
           /\ fan[f].at \in {"next", "inner"} =>
             shown' = home /\ r.saved = NoTab /\ r.at \in {"next", "inner"},
         home' # NoTab /\ r.pin = NoTab /\ r.does = "tab-each" /\ fan[f].at = "titles" /\ shown = home
           /\ fan[f].original \in {NoTab, home} =>
             IF r.at = "titles" THEN shown' = home /\ r.original \in {NoTab, home}
             ELSE r.original = home,
         fan[f].at # "titles" => r.original = fan[f].original /\ r.at # "titles"
  PROVE  EachInv'
<1>1. EachKinds /\ Ordered /\ f \in Fans
  BY DEF EachInv, Running
<1>2. EachKinds' /\ Ordered'
  BY <1>1, FanStep DEF EachKinds, TabsOrNone
<1>3. WayHome'
  BY HomeStep DEF Returns
<1> QED BY <1>2, <1>3 DEF EachInv

\* The titles of the tabs are read, one by one.
LEMMA TitleKept ==
  ASSUME EachInv, NEW f \in Fans, Title(f)
  PROVE  EachInv'
<1> DEFINE id == fan[f].reading
           rest == Following(id)
           original == IF fan[f].original = NoTab /\ shown = id THEN id ELSE fan[f].original
           r == IF id = NoTab THEN [fan[f] EXCEPT !.at = "next", !.original = shown]
                ELSE [fan[f] EXCEPT !.listed = Append(@, id), !.reading = rest,
                                    !.at = IF rest = NoTab THEN "next" ELSE "titles",
                                    !.original = IF rest = NoTab /\ original = NoTab THEN shown
                                                 ELSE original]
<1>1. EachKinds /\ Ordered /\ fan[f] \in Fanning /\ fan[f].at = "titles" /\ f \in Running
  BY DEF EachInv, EachKinds, Title, Running
<1>2. fan' = [fan EXCEPT ![f] = r] /\ UNCHANGED <<opened, shown, nextId, home>>
  <2>1. CASE id = NoTab
    BY <1>1, <2>1 DEF Title, EachKinds
  <2>2. CASE id # NoTab
    BY <1>1, <2>2 DEF Title, EachKinds
  <2> QED BY <2>1, <2>2
<1>3. rest \in TabsOrNone /\ shown \in TabsOrNone /\ id \in TabsOrNone /\ fan[f].original \in TabsOrNone
  BY <1>1, FollowingTab DEF EachKinds, TabsOrNone, Fanning
<1>4. fan[f].does = "tab-each" /\ fan[f].ran = <<>> /\ Len(fan[f].prog) = 1
  BY <1>1 DEF Ordered, InOrder, Fanning
<1>5. r \in Fanning /\ r.does = "tab-each" /\ r.ran = <<>> /\ r.prog = fan[f].prog /\ r.pin = fan[f].pin
      /\ r.at \in {"next", "titles"} /\ r.listed \in Seq(EachTabs)
  <2>1. CASE id = NoTab
    BY <1>1, <1>3, <1>4, <2>1 DEF Fanning
  <2>2. CASE id # NoTab
    <3>1. Append(fan[f].listed, id) \in Seq(EachTabs)
      BY <1>1, <1>3, <2>2 DEF Fanning, TabsOrNone
    <3> QED BY <1>1, <1>3, <1>4, <2>2, <3>1 DEF Fanning
  <2> QED BY <2>1, <2>2
<1>6. /\ r.at = "titles" => r.original \in {fan[f].original, shown}
      /\ r.at = "next" => r.original = shown \/ (r.original = fan[f].original /\ fan[f].original # NoTab)
  <2>1. CASE id = NoTab
    <3>1. r.original = shown /\ r.at = "next"
      BY <1>1, <2>1 DEF Fanning
    <3> HIDE DEF r
    <3> QED BY <3>1
  <2>2. CASE id # NoTab
    <3>1. r.original = IF rest = NoTab /\ original = NoTab THEN shown ELSE original
      BY <1>1, <2>2 DEF Fanning
    <3>2. r.at = IF rest = NoTab THEN "next" ELSE "titles"
      BY <1>1, <2>2 DEF Fanning
    <3>3. original \in {fan[f].original, shown} /\ (original # shown => original = fan[f].original)
      OBVIOUS
    <3> HIDE DEF r, rest, original
    <3>4. CASE rest = NoTab
      BY <3>1, <3>2, <3>3, <3>4
    <3>5. CASE rest # NoTab
      BY <3>1, <3>2, <3>3, <3>5
    <3> QED BY <3>4, <3>5
  <2> QED BY <2>1, <2>2
<1> HIDE DEF r, id, rest, original
<1>7. InOrder(r)
  BY <1>4, <1>5 DEF InOrder
<1>8. /\ home' \in {home, NoTab} /\ shown' \in TabsOrNone /\ opened' \subseteq EachTabs
      /\ nextId' \in 2..Cardinality(EachTabs) + 1 /\ \A t \in opened' : t < nextId'
  BY <1>1, <1>2 DEF EachKinds
<1>9. shown = home /\ fan[f].original \in {NoTab, home} =>
        IF r.at = "titles" THEN shown' = home /\ r.original \in {NoTab, home} ELSE r.original = home
  BY <1>2, <1>5, <1>6
<1> QED BY <1>1, <1>2, <1>4, <1>5, <1>7, <1>8, <1>9, FanGoesOn

\* What a subcommand begins with.
LEMMA SubcommandKept ==
  ASSUME EachInv, NEW f \in Running, NEW t \in TabsOrNone, NEW cmd \in Subcommands,
         NEW saved \in TabsOrNone, fan[f].at = "next", Starts(f, t, cmd, saved),
         fan[f].does = "chain" => Len(fan[f].ran) < Len(fan[f].prog) /\ t = shown /\ saved = NoTab,
         fan[f].does = "tab-each" => /\ Len(fan[f].ran) < Len(fan[f].listed)
                                     /\ t = fan[f].listed[Len(fan[f].ran) + 1] /\ t \notin Internal
  PROVE  EachInv'
<1> DEFINE at == CASE cmd.op = "newtab" -> "opening"
                   [] cmd.op = "closetab" -> "closing"
                   [] OTHER -> "inner"
           reading == IF cmd.op = "closetab" THEN IF cmd.of = NoTab THEN t ELSE cmd.of ELSE NoTab
           r == [fan[f] EXCEPT !.ran = Append(@, t), !.saved = saved, !.reading = reading, !.at = at]
<1>1. EachKinds /\ Ordered /\ fan[f] \in Fanning /\ f \in Fans
  BY DEF EachInv, EachKinds, Running
<1>2. at \in {"opening", "closing", "inner"} /\ (cmd.op = "read" => at = "inner")
      /\ NoTab \in TabsOrNone /\ reading \in TabsOrNone
  BY DEF Subcommands, TabsOrNone, NoTab
<1>3. fan' = [fan EXCEPT ![f] = r] /\ UNCHANGED <<opened, nextId>> /\ home' \in {home, NoTab}
      /\ (fan[f].does = "chain" /\ fan[f].pin = NoTab /\ home' # NoTab => cmd.op = "read")
      /\ shown' = IF cmd.op = "tab" /\ cmd.of \in opened THEN cmd.of ELSE t
  BY <1>1 DEF Starts, EachKinds
<1> HIDE DEF at, reading
<1>4. fan[f].ran \in Seq(TabsOrNone) /\ fan[f].listed \in Seq(EachTabs) /\ fan[f].prog \in Seq(Subcommands)
  BY <1>1 DEF Fanning
<1>5. Append(fan[f].ran, t) \in Seq(TabsOrNone)
  BY <1>4
<1>6. /\ r \in Fanning /\ r.does = fan[f].does /\ r.pin = fan[f].pin /\ r.at = at /\ r.saved = saved
      /\ r.original = fan[f].original /\ r.prog = fan[f].prog /\ r.listed = fan[f].listed
      /\ r.ran = Append(fan[f].ran, t)
  BY <1>1, <1>2, <1>5 DEF Fanning
<1> HIDE DEF r
<1>7. /\ Len(r.ran) = Len(fan[f].ran) + 1
      /\ \A i \in 1..Len(fan[f].ran) : r.ran[i] = fan[f].ran[i]
      /\ r.ran[Len(fan[f].ran) + 1] = t
  BY <1>4, <1>6
<1>8. InOrder(r)
  <2>1. CASE fan[f].does = "chain"
    BY <1>1, <1>2, <1>4, <1>6, <1>7, <2>1 DEF Ordered, InOrder
  <2>2. CASE fan[f].does = "tab-each"
    <3>1. InOrder(fan[f])
      BY <1>1 DEF Ordered
    <3>2. Len(r.ran) <= Len(r.listed) /\ Len(r.prog) = 1
      BY <1>4, <1>6, <1>7, <2>2, <3>1 DEF InOrder
    <3>3. ASSUME NEW i \in 1..Len(r.ran)
          PROVE  r.ran[i] = IF r.listed[i] \in Internal THEN NoTab ELSE r.listed[i]
      <4>1. i \in 1..Len(fan[f].ran) \/ i = Len(fan[f].ran) + 1
        BY <1>4, <1>7
      <4> QED BY <1>4, <1>6, <1>7, <2>2, <3>1, <4>1 DEF InOrder
    <3> QED BY <1>2, <1>6, <2>2, <3>2, <3>3 DEF InOrder
  <2> QED BY <1>1, <2>1, <2>2 DEF Fanning
<1>9. shown' \in TabsOrNone
  BY <1>1, <1>3 DEF EachKinds, TabsOrNone
<1> QED BY <1>1, <1>2, <1>3, <1>6, <1>8, <1>9, FanGoesOn DEF EachKinds, Subcommands

\* An internal page is skipped.
LEMMA SkipKept ==
  ASSUME EachInv, NEW f \in Running, fan[f].at = "next", fan[f].does = "tab-each",
         Len(fan[f].ran) < Len(fan[f].listed), fan[f].listed[Len(fan[f].ran) + 1] \in Internal,
         fan' = [fan EXCEPT ![f].ran = Append(@, NoTab)], UNCHANGED <<opened, shown, nextId, home>>
  PROVE  EachInv'
<1> DEFINE r == [fan[f] EXCEPT !.ran = Append(@, NoTab)]
<1>1. EachKinds /\ Ordered /\ fan[f] \in Fanning /\ f \in Fans /\ fan' = [fan EXCEPT ![f] = r]
  BY DEF EachInv, EachKinds, Running
<1>2. fan[f].ran \in Seq(TabsOrNone) /\ fan[f].listed \in Seq(EachTabs) /\ NoTab \in TabsOrNone
  BY <1>1 DEF Fanning, TabsOrNone
<1>3. Append(fan[f].ran, NoTab) \in Seq(TabsOrNone)
  BY <1>2
<1>4. /\ r \in Fanning /\ r.does = fan[f].does /\ r.pin = fan[f].pin /\ r.at = "next" /\ r.saved = fan[f].saved
      /\ r.original = fan[f].original /\ r.prog = fan[f].prog /\ r.listed = fan[f].listed
      /\ r.ran = Append(fan[f].ran, NoTab)
  BY <1>1, <1>3 DEF Fanning
<1> HIDE DEF r
<1>5. /\ Len(r.ran) = Len(fan[f].ran) + 1
      /\ \A i \in 1..Len(fan[f].ran) : r.ran[i] = fan[f].ran[i]
      /\ r.ran[Len(fan[f].ran) + 1] = NoTab
  BY <1>2, <1>4
<1>6. InOrder(r)
  <2>1. InOrder(fan[f])
    BY <1>1 DEF Ordered
  <2>2. Len(r.ran) <= Len(r.listed) /\ Len(r.prog) = 1
    BY <1>2, <1>4, <1>5, <2>1 DEF InOrder
  <2>3. ASSUME NEW i \in 1..Len(r.ran)
        PROVE  r.ran[i] = IF r.listed[i] \in Internal THEN NoTab ELSE r.listed[i]
    <3>1. i \in 1..Len(fan[f].ran) \/ i = Len(fan[f].ran) + 1
      BY <1>2, <1>5
    <3> QED BY <1>2, <1>4, <1>5, <2>1, <3>1 DEF InOrder
  <2> QED BY <1>4, <2>2, <2>3 DEF InOrder
<1> QED BY <1>1, <1>4, <1>6, FanGoesOn DEF EachKinds

\* The end of a subcommand, which restores the tab of its pin.
LEMMA ResumeKept ==
  ASSUME EachInv, NEW f \in Running, NEW pages, NEW tab \in TabsOrNone, Resumes(f, pages, tab),
         pages \subseteq EachTabs, opened' = pages, home' = home,
         nextId' \in 2..Cardinality(EachTabs) + 1, \A t \in pages : t < nextId',
         fan[f].at \in {"inner", "closing", "opening"},
         fan[f].at = "inner" => tab = shown
  PROVE  EachInv'
<1> DEFINE r == [fan[f] EXCEPT !.at = "next", !.saved = NoTab, !.reading = NoTab]
<1>1. EachKinds /\ Ordered /\ fan[f] \in Fanning /\ f \in Fans /\ NoTab \in TabsOrNone
  BY DEF EachInv, EachKinds, Running, TabsOrNone
<1>2. fan' = [fan EXCEPT ![f] = r]
  BY <1>1 DEF Resumes, EachKinds
<1>3. /\ r \in Fanning /\ r.does = fan[f].does /\ r.pin = fan[f].pin /\ r.at = "next" /\ r.saved = NoTab
      /\ r.original = fan[f].original /\ r.prog = fan[f].prog /\ r.listed = fan[f].listed
      /\ r.ran = fan[f].ran
  BY <1>1 DEF Fanning
<1> HIDE DEF r
<1>4. InOrder(r)
  BY <1>1, <1>3 DEF Ordered, InOrder, Fanning
<1>5. shown' \in TabsOrNone
  BY <1>1 DEF Resumes, Unpinned, TabsOrNone
<1>6. fan[f].saved = NoTab /\ fan[f].at = "inner" => shown' = shown
  BY DEF Resumes, Unpinned
<1> QED BY <1>1, <1>2, <1>3, <1>4, <1>5, <1>6, FanGoesOn

\* A subcommand ends, closes a tab or opens one.
LEMMA InnerKept ==
  ASSUME EachInv, NEW f \in Fans, InnerEnds(f) \/ InnerCloses(f) \/ InnerOpens(f)
  PROVE  EachInv'
<1>1. EachKinds /\ Ordered /\ f \in Running /\ fan[f] \in Fanning
  BY DEF EachInv, EachKinds, Running, InnerEnds, InnerCloses, InnerOpens
<1>2. CASE InnerEnds(f)
  BY <1>1, <1>2, ResumeKept DEF InnerEnds, EachKinds
<1>3. CASE InnerCloses(f)
  <2> DEFINE t == fan[f].reading
             rest == opened \ {t}
  <2>1. /\ fan[f].at = "closing" /\ opened' = rest /\ UNCHANGED <<nextId, home>>
        /\ IF t = shown /\ rest = {} /\ t \in opened
           THEN shown' = shown /\ fan' = [fan EXCEPT ![f].at = "opening"]
           ELSE Resumes(f, rest, IF t = shown /\ rest # {} THEN Max(rest) ELSE shown)
    BY <1>3 DEF InnerCloses
  <2>2. rest \subseteq EachTabs /\ \A u \in rest : u < nextId'
    BY <1>1, <2>1 DEF EachKinds
  <2>3. CASE t = shown /\ rest = {} /\ t \in opened
    <3> DEFINE r == [fan[f] EXCEPT !.at = "opening"]
    <3>1. fan' = [fan EXCEPT ![f] = r] /\ shown' = shown
      BY <1>1, <2>1, <2>3 DEF EachKinds
    <3>2. /\ r \in Fanning /\ r.does = fan[f].does /\ r.pin = fan[f].pin /\ r.at = "opening"
          /\ r.original = fan[f].original /\ r.prog = fan[f].prog /\ r.listed = fan[f].listed
          /\ r.ran = fan[f].ran
      BY <1>1 DEF Fanning
    <3> HIDE DEF r
    <3>3. InOrder(r)
      BY <1>1, <2>1, <3>2 DEF Ordered, InOrder, Fanning, Running
    <3> QED BY <1>1, <2>1, <2>2, <3>1, <3>2, <3>3, FanGoesOn DEF EachKinds
  <2>4. CASE ~(t = shown /\ rest = {} /\ t \in opened)
    <3> DEFINE tab == IF t = shown /\ rest # {} THEN Max(rest) ELSE shown
    <3>1. tab \in TabsOrNone
      BY <1>1, <2>2, LastTab DEF EachKinds, TabsOrNone
    <3> HIDE DEF rest, t
    <3>2. Resumes(f, rest, tab)
      BY <2>1, <2>4
    <3> HIDE DEF tab
    <3> QED BY <1>1, <2>1, <2>2, <3>1, <3>2, ResumeKept DEF EachKinds
  <2> QED BY <2>3, <2>4
<1>4. CASE InnerOpens(f)
  <2>1. /\ fan[f].at = "opening" /\ nextId \in EachTabs /\ home' = home
        /\ opened' = opened \cup {nextId} /\ nextId' = nextId + 1 /\ Resumes(f, opened', nextId)
    BY <1>4 DEF InnerOpens
  <2>2. opened' \subseteq EachTabs /\ nextId \in TabsOrNone
    BY <1>1, <2>1 DEF EachKinds, TabsOrNone
  <2>3. nextId' \in 2..Cardinality(EachTabs) + 1 /\ \A u \in opened' : u < nextId'
    BY <1>1, <2>1, <2>2, TabNumbers DEF EachKinds
  <2> QED BY <1>1, <2>1, <2>2, <2>3, ResumeKept
<1> QED BY <1>2, <1>3, <1>4

\* A command comes to its next subcommand, or to its end.
LEMMA NextKept ==
  ASSUME EachInv, NEW f \in Fans, EachNext(f) \/ ChainNext(f)
  PROVE  EachInv'
<1>1. EachKinds /\ Ordered /\ f \in Running /\ fan[f] \in Fanning /\ fan[f].at = "next"
  BY DEF EachInv, EachKinds, Running, EachNext, ChainNext
<1>2. /\ fan[f].ran \in Seq(TabsOrNone) /\ fan[f].listed \in Seq(EachTabs)
      /\ fan[f].prog \in Seq(Subcommands) /\ InOrder(fan[f])
  BY <1>1 DEF Fanning, Ordered, Running
<1>3. Len(fan[f].ran) \in Nat /\ Len(fan[f].listed) \in Nat /\ Len(fan[f].prog) \in Nat
  BY <1>2
<1>4. CASE EachNext(f)
  <2>1. fan[f].does = "tab-each" /\ Len(fan[f].prog) = 1 /\ Len(fan[f].ran) <= Len(fan[f].listed)
    BY <1>1, <1>2, <1>4 DEF EachNext, InOrder
  <2>2. CASE Len(fan[f].ran) = Len(fan[f].listed) \/ FanEnds(f)
    <3>1. FanEnds(f)
      BY <1>4, <2>2 DEF EachNext, Results
    <3> QED BY <1>1, <2>1, <3>1, FanEndKept
  <2>3. CASE Len(fan[f].ran) # Len(fan[f].listed) /\ ~FanEnds(f)
    <3> DEFINE t == fan[f].listed[Len(fan[f].ran) + 1]
    <3>1. Len(fan[f].ran) < Len(fan[f].listed) /\ t \in EachTabs /\ t \in TabsOrNone
          /\ fan[f].prog[1] \in Subcommands
      BY <1>2, <1>3, <2>1, <2>3 DEF TabsOrNone
    <3>2. CASE t \in Internal
      <4>1. fan' = [fan EXCEPT ![f].ran = Append(@, NoTab)] /\ UNCHANGED <<opened, shown, nextId, home>>
        BY <1>4, <2>3, <3>2 DEF EachNext, Results
      <4> QED BY <1>1, <2>1, <3>1, <3>2, <4>1, SkipKept
    <3>3. CASE t \notin Internal
      <4>1. Starts(f, t, fan[f].prog[1], t)
        BY <1>4, <2>3, <3>3 DEF EachNext, Results
      <4> QED BY <1>1, <2>1, <3>1, <3>3, <4>1, SubcommandKept
    <3> QED BY <3>2, <3>3
  <2> QED BY <2>2, <2>3
<1>5. CASE ChainNext(f)
  <2>1. fan[f].does = "chain" /\ Len(fan[f].ran) <= Len(fan[f].prog)
    BY <1>1, <1>2, <1>5 DEF ChainNext, InOrder
  <2>2. CASE Len(fan[f].ran) = Len(fan[f].prog)
    <3>1. ChainEnds(f)
      BY <1>5, <2>2 DEF ChainNext, Results
    <3> QED BY <1>1, <2>1, <3>1, FanEndKept
  <2>3. CASE Len(fan[f].ran) # Len(fan[f].prog)
    <3>1. Len(fan[f].ran) < Len(fan[f].prog) /\ fan[f].prog[Len(fan[f].ran) + 1] \in Subcommands
          /\ shown \in TabsOrNone /\ NoTab \in TabsOrNone
      BY <1>1, <1>2, <1>3, <2>1, <2>3 DEF EachKinds, TabsOrNone
    <3>2. Starts(f, shown, fan[f].prog[Len(fan[f].ran) + 1], NoTab)
      BY <1>5, <2>3 DEF ChainNext, Results
    <3> QED BY <1>1, <2>1, <3>1, <3>2, SubcommandKept
  <2> QED BY <2>2, <2>3
<1> QED BY <1>4, <1>5

\* Every step keeps the invariant.
LEMMA EachStepKept == EachInv /\ [EachNextState]_eachVars => EachInv'
<1> SUFFICES ASSUME EachInv, [EachNextState]_eachVars PROVE EachInv'
  OBVIOUS
<1>1. EachKinds /\ Ordered
  BY DEF EachInv
<1>2. ASSUME NEW f \in Fans, NEW t \in {NoTab} \cup opened, NEW c \in Subcommands,
             \/ Begin(f, "tab-each", t, <<c>>)
             \/ Begin(f, "chain", t, <<[op |-> "read", of |-> NoTab]>>)
             \/ Begin(f, "chain", t, <<c, [op |-> "read", of |-> NoTab]>>)
      PROVE  EachInv'
  <2> DEFINE look == [op |-> "read", of |-> NoTab]
  <2>1. look \in Subcommands
    BY DEF Subcommands, NoTab
  <2>2. <<c>> \in Seq(Subcommands) /\ Len(<<c>>) = 1 /\ <<look>> \in Seq(Subcommands)
        /\ <<c, look>> \in Seq(Subcommands)
    <3> HIDE DEF look
    <3> QED BY <2>1
  <2> HIDE DEF look
  <2>3. Begin(f, "tab-each", t, <<c>>) \/ Begin(f, "chain", t, <<look>>) \/ Begin(f, "chain", t, <<c, look>>)
    BY <1>2 DEF look
  <2> QED BY <2>2, <2>3, FanBeginKept
<1>3. ASSUME NEW f \in Fans, Title(f) \/ EachNext(f) \/ ChainNext(f)
                              \/ InnerEnds(f) \/ InnerCloses(f) \/ InnerOpens(f)
      PROVE  EachInv'
  BY <1>3, TitleKept, NextKept, InnerKept
<1>4. ASSUME NEW t \in EachTabs, OthersChoose(t) \/ OthersClose(t)
      PROVE  EachInv'
  <2>1. opened' \subseteq opened /\ UNCHANGED <<nextId, fan>> /\ home' = NoTab
    BY <1>4 DEF OthersChoose, OthersClose
  <2>2. shown' \in TabsOrNone
    BY <1>1, <1>4, <2>1, LastTab DEF OthersChoose, OthersClose, EachKinds, TabsOrNone
  <2>3. EachKinds'
    BY <1>1, <2>1, <2>2 DEF EachKinds, TabsOrNone
  <2> QED BY <1>1, <2>1, <2>3 DEF EachInv, Ordered, WayHome
<1>5. CASE OthersOpen
  <2>1. nextId \in EachTabs /\ opened' = opened \cup {nextId} /\ nextId' = nextId + 1
        /\ shown' = nextId /\ home' = NoTab /\ fan' = fan
    BY <1>5 DEF OthersOpen
  <2>2. nextId' \in 2..Cardinality(EachTabs) + 1 /\ \A u \in opened' : u < nextId'
    BY <1>1, <2>1, TabNumbers DEF EachKinds
  <2>3. EachKinds'
    BY <1>1, <2>1, <2>2 DEF EachKinds, TabsOrNone
  <2> QED BY <1>1, <2>1, <2>3 DEF EachInv, Ordered, WayHome
<1>6. CASE UNCHANGED eachVars
  BY <1>6 DEF EachInv, EachKinds, Ordered, WayHome, Returns, Running, eachVars
<1> QED BY <1>2, <1>3, <1>4, <1>5, <1>6 DEF EachNextState

\* The invariant holds throughout.
THEOREM EachInvariance == EachSpec => []EachInv
<1>1. EachInit => EachInv
  BY EachInitInv
<1>2. EachInv /\ [EachNextState]_eachVars => EachInv'
  BY EachStepKept
<1> QED BY <1>1, <1>2, PTL DEF EachSpec

\* Tabs and commands keep their types.
THEOREM EachTypes == EachSpec => []EachTypeOK
<1>1. EachInv => EachTypeOK
  <2> SUFFICES ASSUME EachInv, NEW f \in Fans
               PROVE  Len(fan[f].ran) <= Len(fan[f].listed) + Len(fan[f].prog)
    BY DEF EachInv, EachKinds, EachTypeOK, TabsOrNone, Fanning
  <2>1. fan[f] \in Fanning /\ InOrder(fan[f])
    BY DEF EachInv, EachKinds, Ordered
  <2>2. Len(fan[f].ran) \in Nat /\ Len(fan[f].listed) \in Nat /\ Len(fan[f].prog) \in Nat
    BY <2>1 DEF Fanning
  <2>3. fan[f].does \in {"chain", "tab-each"}
    BY <2>1 DEF Fanning
  <2>4. Len(fan[f].ran) <= Len(fan[f].prog) \/ Len(fan[f].ran) <= Len(fan[f].listed)
    BY <2>1, <2>3 DEF InOrder
  <2>5. \A m, n, k \in Nat : k <= m \/ k <= n => k <= n + m
    OBVIOUS
  <2> QED BY <2>2, <2>4, <2>5
<1> QED BY <1>1, EachInvariance, PTL

\* The results of a command name the tabs they ran on, and a command that ran alone has
\* put the active tab back, for any tabs and whatever the subcommands open and close.
THEOREM FanOut == EachSpec => []FanOutIsTrue
<1>1. EachInv => FanOutIsTrue
  <2> SUFFICES ASSUME EachInv PROVE FanOutIsTrue
    OBVIOUS
  <2>1. Running = {} /\ home \in opened => shown = home
    BY TabNumbers DEF EachInv, EachKinds, WayHome
  <2>2. ASSUME NEW f \in Running, fan[f].does = "tab-each", NEW i \in 1..Results(f)
        PROVE  fan[f].ran[i] = IF fan[f].listed[i] \in Internal THEN NoTab ELSE fan[f].listed[i]
    BY <2>2 DEF EachInv, Ordered, InOrder, Running, Results
  <2> QED BY <2>1, <2>2 DEF FanOutIsTrue
<1> QED BY <1>1, EachInvariance, PTL

-----------------------------------------------------------------------------
(* Downloads: DownloadsAreOwn, for any number of commands, paths and URLs.   *)
(* A command answers with a path whose content others could change; so paths *)
(* are told apart, a command that has met no other shares none with one, and *)
(* what it has saved or written so far is there still.                       *)

\* The paths that a command makes up for a download that a navigation started.
Temps == Stamped({"browse-nav-download"})
\* Those it makes up for a file it answers with.
Finals == Stamped({"browse-download"})
\* All the paths that a command may name, its own or made up.
Named == Temps \cup Finals \cup ScrapeDirs

\* The numbers of the files of a scrape.
Indices == 1..Limit
\* The files that a scrape writes into its directory.
ItemFiles == {ItemFile(d, i) : d \in ScrapeDirs, i \in Indices}
\* And the lists of them.
Manifests == {Manifest(d) : d \in ScrapeDirs}

\* What is assumed of the constants.
LEMMA DownloadNumbers == Limit \in Nat /\ MaxMillis \in Nat /\ NoPath \notin OutPaths
BY DownloadAssumption

\* Made up for different ends, two paths differ, and from what callers name.
LEMMA MadeUp ==
  /\ Temps \cap Finals = {} /\ Temps \cap ScrapeDirs = {} /\ Finals \cap ScrapeDirs = {}
  /\ NoPath \notin Named
  /\ OutPaths \subseteq ScrapeDirs
<1>1. \A p \in OutPaths \cup {NoPath} : p \notin Temps /\ p \notin Finals /\ p \notin Stamped({"browse-scrape"})
  BY PathAssumption DEF Temps, Finals, Stamped
<1>2. /\ Temps \cap Finals = {} /\ Temps \cap Stamped({"browse-scrape"}) = {}
      /\ Finals \cap Stamped({"browse-scrape"}) = {}
  BY DEF Temps, Finals, Stamped
<1> QED BY <1>1, <1>2, DownloadNumbers DEF ScrapeDirs, Named

\* The files of a scrape are told apart by directory and number; nothing else is named so.
LEMMA FilesApart ==
  /\ \A d, e \in ScrapeDirs, i, j \in Indices : ItemFile(d, i) = ItemFile(e, j) => d = e /\ i = j
  /\ \A d, e \in ScrapeDirs : Manifest(d) = Manifest(e) => d = e
  /\ ItemFiles \cap Manifests = {}
  /\ (ItemFiles \cup Manifests) \cap Named = {}
  /\ NoPath \notin ItemFiles \cup Manifests
<1>1. \A d, e, i, j : ItemFile(d, i) = ItemFile(e, j) => d = e /\ i = j
  BY DEF ItemFile
<1>2. \A d, e : Manifest(d) = Manifest(e) => d = e
  BY DEF Manifest
<1>3. \A d, e, i : ItemFile(d, i) # Manifest(e)
  BY DEF ItemFile, Manifest
<1>4. ASSUME NEW d \in ScrapeDirs, NEW p \in OutPaths \cup {NoPath}
      PROVE  Manifest(d) # p /\ \A i \in Indices : ItemFile(d, i) # p
  <2>1. p \notin {"item", "manifest.json"} \X ScrapeDirs \X (0..Limit)
    BY PathAssumption
  <2>2. 0 \in 0..Limit /\ \A i \in Indices : i \in 0..Limit
    BY DownloadNumbers DEF Indices
  <2> QED BY <2>1, <2>2 DEF ItemFile, Manifest
<1>5. \A d, i, m, k : ItemFile(d, i) # <<k, m>> /\ Manifest(d) # <<k, m>>
  BY DEF ItemFile, Manifest
<1>6. \A P : \A p \in Stamped(P) : \E k, m : p = <<k, m>>
  BY DEF Stamped
<1>7. (ItemFiles \cup Manifests) \cap Named = {}
  <2> SUFFICES ASSUME NEW p \in ItemFiles \cup Manifests, p \in Named PROVE FALSE
    OBVIOUS
  <2>1. \/ \E d \in ScrapeDirs, i \in Indices : p = ItemFile(d, i)
        \/ \E d \in ScrapeDirs : p = Manifest(d)
    BY DEF ItemFiles, Manifests
  <2>2. p \in OutPaths \/ \E k, m : p = <<k, m>>
    <3>1. p \in OutPaths \/ \E P : p \in Stamped(P)
      BY DEF Named, Temps, Finals, ScrapeDirs
    <3> QED BY <1>6, <3>1
  <2>3. \A k, m : p # <<k, m>>
    BY <1>5, <2>1
  <2>4. p \notin OutPaths
    BY <1>4, <2>1
  <2> QED BY <2>2, <2>3, <2>4
<1>8. ItemFiles \cap Manifests = {}
  BY <1>3 DEF ItemFiles, Manifests
<1>9. NoPath \notin ItemFiles \cup Manifests
  <2>1. NoPath \notin ItemFiles
    BY <1>4 DEF ItemFiles
  <2>2. \A d \in ScrapeDirs : Manifest(d) # NoPath
    BY <1>4
  <2> QED BY <2>1, <2>2 DEF Manifests
<1> QED BY <1>1, <1>2, <1>7, <1>8, <1>9

\* A set of numbers has a least one.
LEMMA LeastNumber ==
  ASSUME NEW S \in SUBSET Nat, S # {}
  PROVE  \E m \in S : \A n \in S : m <= n
<1>1. PICK m \in S : \A n \in S : <<n, m>> \notin OpToRel(<, Nat)
  BY WFMin, NatLessThanWellFounded
<1>2. \A n \in S : m <= n
  <2> TAKE n \in S
  <2>1. m \in Nat /\ n \in Nat
    OBVIOUS
  <2>2. ~(n < m)
    BY <1>1, <2>1 DEF OpToRel
  <2> QED BY <2>1, <2>2
<1> QED BY <1>2

\* Lists without repetitions.
Distinct == {urls \in Seq(Sources) : IsInjective(urls)}

\* A URL is added to such a list only if it is new.
LEMMA SeenDistinct ==
  ASSUME NEW urls \in Distinct, NEW u \in Sources
  PROVE  Seen(urls, u) \in Distinct
<1>1. urls \in Seq(Sources) /\ \A a, b \in DOMAIN urls : urls[a] = urls[b] => a = b
  BY DEF Distinct, IsInjective
<1>2. CASE u \in ToSet(urls)
  BY <1>2 DEF Seen
<1>3. CASE u \notin ToSet(urls)
  <2>1. PICK more : more = Append(urls, u)
    OBVIOUS
  <2>2. PICK n \in Nat : n = Len(urls) /\ DOMAIN urls = 1..n
    BY <1>1
  <2>3. /\ more \in Seq(Sources) /\ DOMAIN more = 1..(n + 1) /\ more[n + 1] = u
        /\ \A i \in 1..n : more[i] = urls[i]
    BY <1>1, <2>1, <2>2
  <2>4. \A i \in 1..n : urls[i] # u
    BY <1>3, <2>2 DEF ToSet
  <2>5. ASSUME NEW a \in 1..(n + 1), NEW b \in 1..(n + 1), more[a] = more[b] PROVE a = b
    <3>1. CASE a \in 1..n /\ b \in 1..n
      BY <1>1, <2>2, <2>3, <2>5, <3>1
    <3>2. CASE a = n + 1 /\ b \in 1..n
      BY <2>3, <2>4, <2>5, <3>2
    <3>3. CASE b = n + 1 /\ a \in 1..n
      BY <2>3, <2>4, <2>5, <3>3
    <3> QED BY <3>1, <3>2, <3>3
  <2>6. IsInjective(more)
    BY <2>3, <2>5 DEF IsInjective
  <2>7. Seen(urls, u) = more
    BY <1>3, <2>1 DEF Seen
  <2> QED BY <2>3, <2>6, <2>7 DEF Distinct
<1> QED BY <1>2, <1>3

\* s lists what is first found among the first k.
FirstsUpto(s, k, found) ==
  /\ s \in [0..k -> Distinct] /\ s[0] = <<>>
  /\ \A n \in 1..k : s[n] = Seen(s[n - 1], found[n])

\* There are such lists for any URLs.
LEMMA FirstsExist ==
  ASSUME NEW found \in Seq(Sources), NEW N \in Nat, N = Len(found)
  PROVE  \E s : FirstsUpto(s, N, found)
<1>1. PICK bad : bad = {k \in 0..N : ~\E s : FirstsUpto(s, k, found)}
  OBVIOUS
<1>2. CASE bad # {}
  <2>1. PICK k \in bad : \A n \in bad : k <= n
    <3>1. bad \in SUBSET Nat
      BY <1>1
    <3> QED BY <1>2, <3>1, LeastNumber
  <2>2. k \in 0..N /\ ~\E s : FirstsUpto(s, k, found)
    BY <1>1, <2>1
  <2>3. k # 0
    <3>1. PICK s : s = [n \in 0..0 |-> <<>>]
      OBVIOUS
    <3>2. <<>> \in Distinct
      <4>1. <<>> \in Seq(Sources) /\ \A a \in DOMAIN <<>> : FALSE
        OBVIOUS
      <4> QED BY <4>1 DEF Distinct, IsInjective
    <3>3. s \in [0..0 -> Distinct] /\ s[0] = <<>> /\ \A n \in 1..0 : FALSE
      BY <3>1, <3>2
    <3>4. FirstsUpto(s, 0, found)
      BY <3>3 DEF FirstsUpto
    <3> QED BY <2>2, <3>4
  <2>4. PICK j \in 0..N : j = k - 1 /\ j < k
    BY <2>2, <2>3
  <2>5. PICK s : FirstsUpto(s, j, found)
    <3>1. j \notin bad
      BY <2>1, <2>2, <2>4
    <3> QED BY <1>1, <2>4, <3>1
  <2>6. found[k] \in Sources
    BY <2>2, <2>3
  <2>7. PICK t : t = [n \in 0..k |-> IF n = k THEN Seen(s[j], found[k]) ELSE s[n]]
    OBVIOUS
  <2>8. s \in [0..j -> Distinct] /\ s[0] = <<>> /\ \A n \in 1..j : s[n] = Seen(s[n - 1], found[n])
    BY <2>5 DEF FirstsUpto
  <2>9. \A n \in 0..k : n # k => n \in 0..j
    BY <2>2, <2>4
  <2>10. t \in [0..k -> Distinct]
    <3>1. ASSUME NEW n \in 0..k PROVE (IF n = k THEN Seen(s[j], found[k]) ELSE s[n]) \in Distinct
      <4>1. Seen(s[j], found[k]) \in Distinct
        <5>1. s[j] \in Distinct
          BY <2>4, <2>8
        <5> QED BY <2>6, <5>1, SeenDistinct
      <4>2. n # k => s[n] \in Distinct
        BY <2>8, <2>9
      <4> QED BY <4>1, <4>2
    <3> QED BY <2>7, <3>1
  <2>11. t[0] = <<>>
    BY <2>2, <2>3, <2>7, <2>8
  <2>12. ASSUME NEW n \in 1..k PROVE t[n] = Seen(t[n - 1], found[n])
    <3>1. n - 1 \in 0..j /\ n - 1 # k /\ n - 1 \in 0..k
      BY <2>2, <2>4
    <3>2. t[n - 1] = s[n - 1]
      BY <2>7, <3>1
    <3>3. CASE n = k
      BY <2>2, <2>4, <2>7, <3>2, <3>3
    <3>4. CASE n # k
      <4>1. n \in 1..j
        BY <2>2, <2>4, <3>4
      <4> QED BY <2>2, <2>7, <2>8, <3>2, <3>4, <4>1
    <3> QED BY <3>3, <3>4
  <2>13. FirstsUpto(t, k, found)
    BY <2>10, <2>11, <2>12 DEF FirstsUpto
  <2> QED BY <2>2, <2>13
<1>3. CASE bad = {}
  <2>1. N \in 0..N /\ N \notin bad
    BY <1>3
  <2> QED BY <1>1, <2>1
<1> QED BY <1>2, <1>3

\* So Firsts is one.
LEMMA FirstsDistinct ==
  ASSUME NEW found \in Seq(Sources), NEW N \in Nat, N = Len(found)
  PROVE  Firsts(found)[N] \in Distinct
<1>1. PICK s : FirstsUpto(s, N, found)
  BY FirstsExist
<1>2. s \in [0..N -> Distinct] /\ s[0] = <<>> /\ \A n \in 1..N : s[n] = Seen(s[n - 1], found[n])
  BY <1>1 DEF FirstsUpto
<1>3. s = [n \in 0..N |-> IF n = 0 THEN <<>> ELSE Seen(s[n - 1], found[n])]
  <2>1. \A n \in 0..N : s[n] = IF n = 0 THEN <<>> ELSE Seen(s[n - 1], found[n])
    BY <1>2
  <2> QED BY <1>2, <2>1
<1>4. PICK g : g = Firsts(found)
  OBVIOUS
<1>5. g = [n \in 0..N |-> IF n = 0 THEN <<>> ELSE Seen(g[n - 1], found[n])]
  BY <1>3, <1>4, Zenon DEF Firsts
<1>6. g[0] = <<>> /\ \A n \in 1..N : g[n] = Seen(g[n - 1], found[n])
  <2>1. \A n \in 0..N : g[n] = IF n = 0 THEN <<>> ELSE Seen(g[n - 1], found[n])
    BY <1>5
  <2> QED BY <2>1
<1>7. PICK bad : bad = {n \in 0..N : g[n] # s[n]}
  OBVIOUS
<1>8. CASE bad # {}
  <2>1. PICK k \in bad : \A n \in bad : k <= n
    <3>1. bad \in SUBSET Nat
      BY <1>7
    <3> QED BY <1>8, <3>1, LeastNumber
  <2>2. k \in 0..N /\ g[k] # s[k] /\ k # 0
    BY <1>2, <1>6, <1>7, <2>1
  <2>3. PICK j \in 0..N : j = k - 1 /\ j < k
    BY <2>2
  <2>4. g[j] = s[j]
    BY <1>7, <2>1, <2>2, <2>3
  <2>5. k \in 1..N
    BY <2>2
  <2> QED BY <1>2, <1>6, <2>2, <2>3, <2>4, <2>5
<1>9. N \notin bad => g[N] = s[N]
  BY <1>7
<1> QED BY <1>2, <1>4, <1>8, <1>9

\* So ToDownload is a list without repetitions, within the limit.
LEMMA ListIs ==
  ASSUME NEW found \in Seq(Sources), NEW list, list = ToDownload(found)
  PROVE  list \in Distinct /\ Len(list) <= Limit
<1>1. PICK N \in Nat : N = Len(found)
  OBVIOUS
<1>2. PICK once \in Distinct : once = Firsts(found)[N]
  BY <1>1, FirstsDistinct
<1>3. once \in Seq(Sources) /\ \A a, b \in DOMAIN once : once[a] = once[b] => a = b
  BY DEF Distinct, IsInjective
<1>4. PICK n \in Nat : n = (IF Len(once) < Limit THEN Len(once) ELSE Limit) /\ n <= Len(once) /\ n <= Limit
  BY <1>3, DownloadNumbers
<1>5. list = SubSeq(once, 1, n)
  BY <1>1, <1>2, <1>4 DEF ToDownload
<1>6. list \in Seq(Sources) /\ Len(list) = n /\ \A i \in 1..n : list[i] = once[i] /\ i \in DOMAIN once
  BY <1>3, <1>4, <1>5
<1>7. IsInjective(list)
  BY <1>3, <1>6 DEF IsInjective
<1> QED BY <1>4, <1>6, <1>7 DEF Distinct

\* A line of a manifest as it can be.
Entry == [file : ItemFiles \cup {NoPath}, src : Sources]
\* Where a command can be.
Places == {"idle", "fetch", "await", "failure", "save", "saved", "media", "item"}
\* A command as it can be.
Transfer == [at : Places, source : Sources \cup {Unasked}, out : ScrapeDirs \cup {NoPath},
             inline : BOOLEAN, got : Sources \cup {Unasked}, temp : Temps \cup {NoPath},
             list : Seq(Sources), files : Seq(Entry)]

\* The lines so far of a scrape into dir.
Entries(dir, lines, list) ==
  /\ lines \in Seq(Entry) /\ list \in Distinct /\ Len(list) <= Limit
  /\ \A i \in 1..Len(lines) : lines[i].src = list[i] /\ lines[i].file \in {NoPath, ItemFile(dir, i)}

\* What a command and its answer are.
Shape(t, r) ==
  /\ r.file \in ScrapeDirs \cup Finals \cup {NoPath}
  /\ t.at # "idle" => r = NoAnswer
  /\ t.at \in {"save", "saved"} => t.temp \in Temps
  /\ t.at \in {"media", "item"} => t.out \in ScrapeDirs
  /\ t.at = "item" => Entries(t.out, t.files, t.list) /\ Len(t.files) < Len(t.list)
  /\ r.list # <<>> =>
       r.file \in ScrapeDirs /\ Entries(r.file, r.manifest, r.list) /\ Len(r.manifest) = Len(r.list)

\* A path has this content.
Stored(d, path, content) == path \in DOMAIN d /\ d[path] = content
\* The files of a manifest have what their lines say.
Fetches(lines, d) == \A i \in 1..Len(lines) : lines[i].file # NoPath => Stored(d, lines[i].file, lines[i].src)

\* What a command has got and has answered is what it was asked for, on disk too.
Right(t, r, d) ==
  /\ t.at \in {"failure", "save", "saved"} => t.got = t.source
  /\ t.at = "saved" => Stored(d, t.temp, t.got)
  /\ t.at = "item" => Fetches(t.files, d)
  /\ r.asked # Unasked => IF r.file = NoPath THEN r.inline = r.asked ELSE Stored(d, r.file, r.asked)
  /\ r.list # <<>> => Stored(d, Manifest(r.file), r.manifest) /\ Fetches(r.manifest, d)

\* The paths that a command holds or has answered with.
Used(t, r) == {t.temp, t.out, r.file} \ {NoPath}

\* The kinds of the variables.
DownloadKinds ==
  /\ millis \in 0..MaxMillis /\ transfer \in [DownloadOps -> Transfer] /\ DOMAIN result = DownloadOps
  /\ \A o \in DownloadOps : Shape(transfer[o], result[o])

\* A command that has met no other shares no path with one.
NoneShared == \A o \in DownloadOps \ met : \A q \in DownloadOps \ {o} :
           Used(transfer[o], result[o]) \cap Used(transfer[q], result[q]) = {}

\* Nor does it wait for a download while another does.
WaitAlone == \A o \in DownloadOps \ met : \A q \in DownloadOps \ {o} :
               ~(transfer[o].at = "await" /\ transfer[q].at = "await")

\* What it has is right.
AllRight == \A o \in DownloadOps \ met : Right(transfer[o], result[o], disk)

\* A temporary file is that of a command which has yet to read it.
TempsHeld == \A p \in Temps : p \in DOMAIN disk =>
               \E o \in DownloadOps : transfer[o].at = "saved" /\ transfer[o].temp = p

\* The inductive invariant.
DownloadInv == DownloadKinds /\ NoneShared /\ WaitAlone /\ AllRight /\ TempsHeld

\* Paths, and the files in those that are directories of scrapes.
Reach(U) == U \cup {ItemFile(d, i) : d \in U \cap ScrapeDirs, i \in Indices}
              \cup {Manifest(d) : d \in U \cap ScrapeDirs}

\* What is reached from disjoint sets of paths is disjoint.
LEMMA ReachApart ==
  ASSUME NEW U, NEW V, U \subseteq Named, V \subseteq Named, U \cap V = {}
  PROVE  Reach(U) \cap Reach(V) = {}
<1> DEFINE IU == {ItemFile(d, i) : d \in U \cap ScrapeDirs, i \in Indices}
           IV == {ItemFile(d, i) : d \in V \cap ScrapeDirs, i \in Indices}
           MU == {Manifest(d) : d \in U \cap ScrapeDirs}
           MV == {Manifest(d) : d \in V \cap ScrapeDirs}
<1>1. IU \subseteq ItemFiles /\ IV \subseteq ItemFiles /\ MU \subseteq Manifests /\ MV \subseteq Manifests
  BY DEF ItemFiles, Manifests
<1>2. IU \cap IV = {}
  BY FilesApart
<1>3. MU \cap MV = {}
  BY FilesApart
<1>4. Reach(U) = U \cup IU \cup MU /\ Reach(V) = V \cup IV \cup MV
  BY DEF Reach
<1>5. ItemFiles \cap Manifests = {} /\ (ItemFiles \cup Manifests) \cap Named = {}
  BY FilesApart
<1> HIDE DEF IU, IV, MU, MV
<1> QED BY <1>1, <1>2, <1>3, <1>4, <1>5

\* A command uses no other paths than these.
LEMMA UsedNamed ==
  ASSUME NEW t \in Transfer, NEW r, Shape(t, r)
  PROVE  Used(t, r) \subseteq Named
<1>1. t.temp \in Temps \cup {NoPath} /\ t.out \in ScrapeDirs \cup {NoPath}
  BY DEF Transfer
<1>2. r.file \in ScrapeDirs \cup Finals \cup {NoPath}
  BY DEF Shape
<1> QED BY <1>1, <1>2 DEF Used, Named

\* Files that are named, and those of a directory that is.
LEMMA Reached ==
  /\ \A U : U \subseteq Reach(U)
  /\ \A U : \A d \in U \cap ScrapeDirs, i \in Indices : ItemFile(d, i) \in Reach(U)
  /\ \A U : \A d \in U \cap ScrapeDirs : Manifest(d) \in Reach(U)
BY DEF Reach

\* On these paths nothing has changed.
Same(d, e, S) == \A p \in S : p \in DOMAIN d => p \in DOMAIN e /\ e[p] = d[p]

\* So the files of a manifest are there still.
LEMMA FetchesSame ==
  ASSUME NEW d, NEW e, NEW U, NEW dir \in U, dir \in ScrapeDirs, Same(d, e, Reach(U)), NEW lines, NEW list,
         Entries(dir, lines, list), Len(lines) <= Len(list), Fetches(lines, d)
  PROVE  Fetches(lines, e)
<1> SUFFICES ASSUME NEW i \in 1..Len(lines), lines[i].file # NoPath
             PROVE  Stored(e, lines[i].file, lines[i].src)
  BY DEF Fetches
<1>1. Stored(d, lines[i].file, lines[i].src)
  BY DEF Fetches
<1>2. lines[i].file = ItemFile(dir, i)
  BY DEF Entries
<1>3. i \in Indices
  <2>1. lines \in Seq(Entry) /\ list \in Seq(Sources) /\ Len(list) <= Limit
    BY DEF Entries, Distinct
  <2> QED BY <2>1, DownloadNumbers DEF Indices
<1>4. lines[i].file \in Reach(U)
  BY <1>2, <1>3, Reached
<1> QED BY <1>1, <1>4 DEF Same, Stored

\* What was right stays so when the files that it is about do not change.
LEMMA StillRight ==
  ASSUME NEW t \in Transfer, NEW r, Shape(t, r), NEW d, NEW e, Right(t, r, d), Same(d, e, Reach(Used(t, r)))
  PROVE  Right(t, r, e)
<1>1. t.at = "saved" => Stored(e, t.temp, t.got)
  <2> SUFFICES ASSUME t.at = "saved" PROVE Stored(e, t.temp, t.got)
    OBVIOUS
  <2>1. t.temp \in Temps /\ Stored(d, t.temp, t.got)
    BY DEF Shape, Right
  <2>2. t.temp \in Reach(Used(t, r))
    BY <2>1, MadeUp, Reached DEF Used, Named
  <2> QED BY <2>1, <2>2 DEF Same, Stored
<1>2. t.at = "item" => Fetches(t.files, e)
  <2> SUFFICES ASSUME t.at = "item" PROVE Fetches(t.files, e)
    OBVIOUS
  <2>1. t.out \in ScrapeDirs /\ Entries(t.out, t.files, t.list) /\ Len(t.files) < Len(t.list)
        /\ Fetches(t.files, d)
    BY DEF Shape, Right
  <2>2. t.out \in Used(t, r)
    BY <2>1, MadeUp DEF Used, Named
  <2>3. Len(t.files) <= Len(t.list)
    BY <2>1 DEF Entries, Distinct
  <2> QED BY <2>1, <2>2, <2>3, FetchesSame
<1>3. r.asked # Unasked => IF r.file = NoPath THEN r.inline = r.asked ELSE Stored(e, r.file, r.asked)
  <2>1. r.file # NoPath => r.file \in Reach(Used(t, r))
    BY Reached DEF Used
  <2>2. r.asked # Unasked => IF r.file = NoPath THEN r.inline = r.asked ELSE Stored(d, r.file, r.asked)
    BY DEF Right
  <2> QED BY <2>1, <2>2 DEF Same, Stored
<1>4. r.list # <<>> => Stored(e, Manifest(r.file), r.manifest) /\ Fetches(r.manifest, e)
  <2> SUFFICES ASSUME r.list # <<>> PROVE Stored(e, Manifest(r.file), r.manifest) /\ Fetches(r.manifest, e)
    OBVIOUS
  <2>1. r.file \in ScrapeDirs /\ Entries(r.file, r.manifest, r.list) /\ Len(r.manifest) = Len(r.list)
        /\ Stored(d, Manifest(r.file), r.manifest) /\ Fetches(r.manifest, d)
    BY DEF Shape, Right
  <2>2. r.file \in Used(t, r)
    BY <2>1, MadeUp DEF Used, Named
  <2>3. Len(r.manifest) <= Len(r.list)
    BY <2>1 DEF Entries, Distinct
  <2>4. Fetches(r.manifest, e)
    BY <2>1, <2>2, <2>3, FetchesSame
  <2>5. Manifest(r.file) \in Reach(Used(t, r))
    BY <2>1, <2>2, Reached
  <2> QED BY <2>1, <2>4, <2>5 DEF Same, Stored
<1>5. t.at \in {"failure", "save", "saved"} => t.got = t.source
  BY DEF Right
<1> QED BY <1>1, <1>2, <1>3, <1>4, <1>5 DEF Right

\* A command has this to do now, and has answered this.
TransferMoves(o, t, r) ==
  /\ transfer' \in [DownloadOps -> Transfer] /\ DOMAIN result' = DownloadOps
  /\ transfer'[o] = t /\ result'[o] = r
  /\ \A q \in DownloadOps \ {o} : transfer'[q] = transfer[q] /\ result'[q] = result[q]

\* No path beyond those reached from U has changed.
Outside(d, e, U) == \A p : p \in DOMAIN d /\ p \notin Reach(U) => p \in DOMAIN e /\ e[p] = d[p]

\* A command goes on, from what it has to do and has answered to what it has then.
LEMMA GoesOn ==
  ASSUME DownloadInv, NEW o \in DownloadOps, NEW t \in Transfer, NEW r, TransferMoves(o, t, r), Shape(t, r),
         \A q \in DownloadOps \ {o} : q \notin met' => q \notin met,
         \A q \in DownloadOps \ {o} :
           q \notin met' \/ o \notin met' => Used(t, r) \cap Used(transfer[q], result[q]) = {},
         \A q \in DownloadOps \ {o} :
           t.at = "await" /\ transfer[q].at = "await" => o \in met' /\ q \in met',
         Outside(disk, disk', Used(transfer[o], result[o]) \cup Used(t, r)),
         o \notin met' => Right(t, r, disk'),
         TempsHeld', millis' \in 0..MaxMillis
  PROVE  DownloadInv'
<1>1. \A q \in DownloadOps : transfer[q] \in Transfer /\ Shape(transfer[q], result[q])
  BY DEF DownloadInv, DownloadKinds
<1>2. \A q \in DownloadOps \ {o} : transfer'[q] = transfer[q] /\ result'[q] = result[q]
  BY DEF TransferMoves
<1>3. transfer'[o] = t /\ result'[o] = r
  BY DEF TransferMoves
<1>4. DownloadKinds'
  BY <1>1, <1>2, <1>3 DEF DownloadKinds, TransferMoves
<1>5. NoneShared'
  <2> SUFFICES ASSUME NEW p \in DownloadOps \ met', NEW q \in DownloadOps \ {p}
               PROVE  Used(transfer'[p], result'[p]) \cap Used(transfer'[q], result'[q]) = {}
    BY DEF NoneShared
  <2>1. CASE p = o
    BY <1>2, <1>3, <2>1
  <2>2. CASE q = o
    BY <1>2, <1>3, <2>2
  <2>3. CASE p # o /\ q # o
    BY <1>2, <2>3 DEF DownloadInv, NoneShared
  <2> QED BY <2>1, <2>2, <2>3
<1>6. WaitAlone'
  <2> SUFFICES ASSUME NEW p \in DownloadOps \ met', NEW q \in DownloadOps \ {p}
               PROVE  ~(transfer'[p].at = "await" /\ transfer'[q].at = "await")
    BY DEF WaitAlone
  <2>1. CASE p = o
    BY <1>2, <1>3, <2>1
  <2>2. CASE q = o
    BY <1>2, <1>3, <2>2
  <2>3. CASE p # o /\ q # o
    BY <1>2, <2>3 DEF DownloadInv, WaitAlone
  <2> QED BY <2>1, <2>2, <2>3
<1>7. AllRight'
  <2> SUFFICES ASSUME NEW q \in DownloadOps \ met' PROVE Right(transfer'[q], result'[q], disk')
    BY DEF AllRight
  <2>1. CASE q = o
    BY <1>3, <2>1
  <2>2. CASE q # o
    <3>1. PICK U : U = Used(transfer[q], result[q])
      OBVIOUS
    <3>2. PICK W : W = Used(transfer[o], result[o]) \cup Used(t, r)
      OBVIOUS
    <3>3. U \subseteq Named /\ W \subseteq Named
      BY <1>1, <3>1, <3>2, UsedNamed
    <3>4. U \cap W = {}
      <4>1. U \cap Used(t, r) = {}
        BY <2>2, <3>1
      <4>2. U \cap Used(transfer[o], result[o]) = {}
        BY <2>2, <3>1 DEF DownloadInv, NoneShared
      <4> QED BY <3>2, <4>1, <4>2
    <3>5. Reach(U) \cap Reach(W) = {}
      BY <3>3, <3>4, ReachApart
    <3>6. Same(disk, disk', Reach(U))
      BY <3>2, <3>5 DEF Same, Outside
    <3>7. Right(transfer[q], result[q], disk)
      BY <2>2 DEF DownloadInv, AllRight
    <3>8. Right(transfer[q], result[q], disk')
      BY <1>1, <3>1, <3>6, <3>7, StillRight
    <3> QED BY <1>2, <2>2, <3>8
  <2> QED BY <2>1, <2>2
<1> QED BY <1>4, <1>5, <1>6, <1>7 DEF DownloadInv

\* A command that is somewhere has nothing yet.
LEMMA AtIs ==
  ASSUME NEW at \in Places
  PROVE  /\ At(at) \in Transfer /\ At(at).at = at /\ At(at).source = Unasked
         /\ At(at).out = NoPath /\ At(at).temp = NoPath
<1>1. <<>> \in Seq(Sources) /\ <<>> \in Seq(Entry) /\ FALSE \in BOOLEAN
  OBVIOUS
<1> QED BY <1>1, Zenon DEF At, Transfer

\* A command that has only begun.
Begun(t, at, out) == t \in Transfer /\ t.at = at /\ t.out = out /\ t.temp = NoPath

\* So one that has been asked for a URL is.
LEMMA AskedIs ==
  ASSUME NEW at \in Places, NEW u \in Sources, NEW out \in ScrapeDirs \cup {NoPath}, NEW inline \in BOOLEAN,
         NEW t, t = [At(at) EXCEPT !.source = u, !.out = out, !.inline = inline]
  PROVE  Begun(t, at, out)
<1>1. t = [at |-> at, source |-> u, out |-> out, inline |-> inline, got |-> Unasked,
           temp |-> NoPath, list |-> <<>>, files |-> <<>>]
  BY DEF At
<1>2. <<>> \in Seq(Sources) /\ <<>> \in Seq(Entry)
  OBVIOUS
<1>3. t \in Transfer
  <2>1. u \in Sources \cup {Unasked} /\ Unasked \in Sources \cup {Unasked}
        /\ NoPath \in Temps \cup {NoPath}
    OBVIOUS
  <2>2. [at |-> at, source |-> u, out |-> out, inline |-> inline, got |-> Unasked,
         temp |-> NoPath, list |-> <<>>, files |-> <<>>] \in Transfer
    BY <1>2, <2>1, Zenon DEF Transfer
  <2> QED BY <1>1, <2>2, Zenon
<1>4. t.at = at /\ t.out = out /\ t.temp = NoPath
  BY DEF At
<1> QED BY <1>3, <1>4 DEF Begun

\* A command with something changed is one still.
LEMMA TransferWith ==
  ASSUME NEW t \in Transfer, NEW at \in Places, NEW u
  PROVE  /\ [t EXCEPT !.at = at] \in Transfer
         /\ u \in Sources \cup {Unasked} => [t EXCEPT !.at = at, !.got = u] \in Transfer
         /\ u \in Temps => [t EXCEPT !.at = at, !.temp = u] \in Transfer
BY Zenon DEF Transfer

\* And one that goes through a list.
LEMMA ListedWith ==
  ASSUME NEW t \in Transfer, NEW at \in Places, NEW list \in Seq(Sources), NEW lines \in Seq(Entry)
  PROVE  [t EXCEPT !.at = at, !.list = list, !.files = lines] \in Transfer
BY Zenon DEF Transfer

\* What a write leaves.
LEMMA PutIs ==
  ASSUME NEW d, NEW path, NEW content
  PROVE  /\ Stored(Put1(d, path, content), path, content)
         /\ DOMAIN Put1(d, path, content) = DOMAIN d \cup {path}
         /\ \A p \in DOMAIN d : p # path => Put1(d, path, content)[p] = d[p]
BY DEF Put1, Stored

\* What a removal leaves.
LEMMA UnlinkIs ==
  ASSUME NEW d, NEW path
  PROVE  /\ DOMAIN Unlink(d, path) = DOMAIN d \ {path}
         /\ \A p \in DOMAIN d : p # path => Unlink(d, path)[p] = d[p]
BY DEF Unlink, Restrict

\* An update of one command moves it.
LEMMA MovesBy ==
  ASSUME DownloadInv, NEW o \in DownloadOps, NEW t \in Transfer, NEW r,
         transfer' = [transfer EXCEPT ![o] = t],
         result' = [result EXCEPT ![o] = r] \/ (result' = result /\ r = result[o])
  PROVE  TransferMoves(o, t, r)
<1>1. transfer \in [DownloadOps -> Transfer] /\ DOMAIN result = DownloadOps
  BY DEF DownloadInv, DownloadKinds
<1>2. /\ transfer' \in [DownloadOps -> Transfer] /\ transfer'[o] = t
      /\ \A q \in DownloadOps \ {o} : transfer'[q] = transfer[q]
  BY <1>1
<1>3. /\ DOMAIN result' = DownloadOps /\ result'[o] = r
      /\ \A q \in DownloadOps \ {o} : result'[q] = result[q]
  BY <1>1
<1> QED BY <1>2, <1>3 DEF TransferMoves

\* No temporary file appears.
LEMMA TempsStay ==
  ASSUME DownloadInv, NEW o \in DownloadOps, NEW t, NEW r, TransferMoves(o, t, r),
         \A p \in Temps : p \in DOMAIN disk' => p \in DOMAIN disk \/ (t.at = "saved" /\ t.temp = p),
         transfer[o].at = "saved" => transfer[o].temp \notin DOMAIN disk'
  PROVE  TempsHeld'
<1> SUFFICES ASSUME NEW p \in Temps, p \in DOMAIN disk'
             PROVE  \E q \in DownloadOps : transfer'[q].at = "saved" /\ transfer'[q].temp = p
  BY DEF TempsHeld
<1>1. CASE t.at = "saved" /\ t.temp = p
  BY <1>1 DEF TransferMoves
<1>2. CASE p \in DOMAIN disk
  <2>1. PICK q \in DownloadOps : transfer[q].at = "saved" /\ transfer[q].temp = p
    BY <1>2 DEF DownloadInv, TempsHeld
  <2>2. q # o
    BY <2>1
  <2> QED BY <2>1, <2>2 DEF TransferMoves
<1> QED BY <1>1, <1>2

\* Who takes a path.
LEMMA TakersAre ==
  ASSUME NEW q \in DownloadOps, NEW p \in Used(transfer[q], result[q])
  PROVE  q \in Takers(p)
BY DEF Used, Takers

\* Taking a path meets everyone who uses it.
LEMMA TakeClears ==
  ASSUME NEW o \in DownloadOps, NEW path, Take(o, path)
  PROVE  /\ met \subseteq met'
         /\ \A q \in DownloadOps \ {o} :
              q \notin met' \/ o \notin met' => path \notin Used(transfer[q], result[q])
<1>1. met' = met \cup (IF Takers(path) \subseteq {o} THEN {} ELSE {o} \cup Takers(path))
  BY DEF Take
<1>2. \A q \in DownloadOps : path \in Used(transfer[q], result[q]) => q \in Takers(path)
  BY TakersAre
<1> QED BY <1>1, <1>2

\* Of two commands, one of them not met, neither has a path of the other.
LEMMA Clear ==
  ASSUME DownloadInv, NEW o \in DownloadOps, NEW q \in DownloadOps \ {o}, met \subseteq met',
         q \notin met' \/ o \notin met'
  PROVE  Used(transfer[o], result[o]) \cap Used(transfer[q], result[q]) = {}
BY DEF DownloadInv, NoneShared

\* A command at rest.
LEMMA AtRest ==
  /\ NoAnswer.file = NoPath /\ NoAnswer.inline = Unasked /\ NoAnswer.asked = Unasked
  /\ NoAnswer.manifest = <<>> /\ NoAnswer.list = <<>>
  /\ \A t, d : Right(t, NoAnswer, d) <=>
       /\ t.at \in {"failure", "save", "saved"} => t.got = t.source
       /\ t.at = "saved" => Stored(d, t.temp, t.got)
       /\ t.at = "item" => Fetches(t.files, d)
BY DEF NoAnswer, Right

\* A command begins.
LEMMA DownloadBegun ==
  ASSUME DownloadInv, NEW o \in DownloadOps, transfer[o].at = "idle", NEW t \in Transfer,
         t.at \in {"fetch", "await", "media"}, t.temp = NoPath, t.at = "media" => t.out \in ScrapeDirs,
         Becomes(o, t), result' = [result EXCEPT ![o] = NoAnswer], UNCHANGED <<disk, millis>>,
         \A q \in DownloadOps \ {o} : q \notin met' => q \notin met,
         t.out # NoPath => \A q \in Takers(t.out) \ {o} : o \in met' /\ q \in met',
         \A q \in DownloadOps \ {o} :
           t.at = "await" /\ transfer[q].at = "await" => o \in met' /\ q \in met'
  PROVE  DownloadInv'
<1>1. TransferMoves(o, t, NoAnswer)
  BY MovesBy DEF Becomes
<1>2. Shape(t, NoAnswer)
  BY AtRest DEF Shape
<1>3. Used(t, NoAnswer) = {t.out} \ {NoPath}
  BY AtRest DEF Used
<1>4. \A q \in DownloadOps \ {o} :
        q \notin met' \/ o \notin met' => Used(t, NoAnswer) \cap Used(transfer[q], result[q]) = {}
  BY <1>3, TakersAre
<1>5. Outside(disk, disk', Used(transfer[o], result[o]) \cup Used(t, NoAnswer))
  BY DEF Outside
<1>6. Right(t, NoAnswer, disk')
  BY AtRest
<1>7. TempsHeld'
  BY <1>1, TempsStay
<1>8. millis' \in 0..MaxMillis
  BY DEF DownloadInv, DownloadKinds
<1> QED BY <1>1, <1>2, <1>4, <1>5, <1>6, <1>7, <1>8, GoesOn

\* A command answers.
LEMMA TransferAnswerKept ==
  ASSUME DownloadInv, NEW o \in DownloadOps, NEW r, Answer(o, r), Shape(At("idle"), r),
         met \subseteq met', millis' = millis,
         \A q \in DownloadOps \ {o} :
           q \notin met' \/ o \notin met' =>
             {r.file} \ {NoPath} \subseteq Used(transfer[o], result[o]) \/ r.file \notin Used(transfer[q], result[q]),
         Outside(disk, disk', Used(transfer[o], result[o]) \cup ({r.file} \ {NoPath})),
         o \notin met' => Right(At("idle"), r, disk'),
         \A p \in Temps : p \in DOMAIN disk' => p \in DOMAIN disk,
         transfer[o].at = "saved" => transfer[o].temp \notin DOMAIN disk'
  PROVE  DownloadInv'
<1> DEFINE t == At("idle")
<1>1. t \in Transfer /\ t.at = "idle" /\ t.out = NoPath /\ t.temp = NoPath
  BY AtIs DEF Places
<1> HIDE DEF t
<1>2. TransferMoves(o, t, r)
  BY <1>1, MovesBy DEF Answer, Becomes, t
<1>3. Used(t, r) = {r.file} \ {NoPath}
  BY <1>1 DEF Used
<1>4. \A q \in DownloadOps \ {o} :
        q \notin met' \/ o \notin met' => Used(t, r) \cap Used(transfer[q], result[q]) = {}
  <2> SUFFICES ASSUME NEW q \in DownloadOps \ {o}, q \notin met' \/ o \notin met'
               PROVE  Used(t, r) \cap Used(transfer[q], result[q]) = {}
    OBVIOUS
  <2>1. Used(transfer[o], result[o]) \cap Used(transfer[q], result[q]) = {}
    BY Clear
  <2> QED BY <1>3, <2>1
<1>5. Outside(disk, disk', Used(transfer[o], result[o]) \cup Used(t, r))
  BY <1>3
<1>6. TempsHeld'
  BY <1>2, TempsStay
<1>7. millis' \in 0..MaxMillis
  BY DEF DownloadInv, DownloadKinds
<1>8. Shape(t, r) /\ (o \notin met' => Right(t, r, disk'))
  BY DEF t
<1> QED BY <1>1, <1>2, <1>4, <1>5, <1>6, <1>7, <1>8, GoesOn

\* A command fails.
LEMMA ErrsKept ==
  ASSUME DownloadInv, NEW o \in DownloadOps, Errs(o), disk' = disk,
         transfer[o].at = "saved" => transfer[o].temp \notin DOMAIN disk
  PROVE  DownloadInv'
<1>1. Answer(o, NoAnswer) /\ met \subseteq met' /\ millis' = millis
  BY DEF Errs
<1>2. At("idle").at = "idle"
  BY DEF At
<1>3. Shape(At("idle"), NoAnswer) /\ Right(At("idle"), NoAnswer, disk')
  BY <1>2, AtRest DEF Shape
<1>4. NoAnswer.file = NoPath
  BY AtRest
<1>5. \A U : Outside(disk, disk', U)
  BY DEF Outside
<1> QED BY <1>1, <1>3, <1>4, <1>5, TransferAnswerKept

\* The files a command leaves of its own before it answers.
Leaves(o, left) ==
  /\ DOMAIN left \subseteq DOMAIN disk
  /\ \A p \in DOMAIN disk : p \notin Reach(Used(transfer[o], result[o])) => p \in DOMAIN left /\ left[p] = disk[p]
  /\ transfer[o].at = "saved" => transfer[o].temp \in Temps /\ transfer[o].temp \notin DOMAIN left

\* The content a command that was met by none has of its source.
HasItsOwn(o, content) == o \notin met => content = transfer[o].source

\* A path that a command takes now.
LEMMA Delivered ==
  ASSUME DownloadInv, NEW o \in DownloadOps, NEW path \in ScrapeDirs \cup Finals, NEW content, NEW left, NEW r,
         r = [NoAnswer EXCEPT !.file = path, !.asked = transfer[o].source],
         Answer(o, r), disk' = Put1(left, path, content), Take(o, path), millis' = millis,
         HasItsOwn(o, content), Leaves(o, left)
  PROVE  DownloadInv'
<1>1. r.file = path /\ r.asked = transfer[o].source /\ r.list = <<>>
  BY DEF NoAnswer
<1>2. At("idle").at = "idle"
  BY DEF At
<1>3. Shape(At("idle"), r)
  BY <1>1, <1>2 DEF Shape
<1>4. /\ met \subseteq met'
      /\ \A q \in DownloadOps \ {o} :
           q \notin met' \/ o \notin met' => path \notin Used(transfer[q], result[q])
  BY TakeClears
<1>5. /\ Stored(disk', path, content) /\ DOMAIN disk' = DOMAIN left \cup {path}
      /\ \A p \in DOMAIN left : p # path => disk'[p] = left[p]
  BY DEF Put1, Stored
<1>6. path # NoPath /\ path \notin Temps
  BY MadeUp DEF Named
<1>7. Outside(disk, disk', Used(transfer[o], result[o]) \cup ({r.file} \ {NoPath}))
  <2>1. PICK U : U = Used(transfer[o], result[o])
    OBVIOUS
  <2>2. PICK V : V = U \cup ({r.file} \ {NoPath})
    OBVIOUS
  <2>3. path \in V
    BY <1>1, <1>6, <2>2
  <2>4. \A p : p \notin Reach(V) => p \notin Reach(U) /\ p # path
    BY <2>2, <2>3 DEF Reach
  <2>5. Outside(disk, disk', V)
    BY <1>5, <2>1, <2>4 DEF Outside, Leaves
  <2> QED BY <2>1, <2>2, <2>5
<1>8. o \notin met' => Right(At("idle"), r, disk')
  BY <1>1, <1>2, <1>4, <1>5, <1>6 DEF Right, HasItsOwn
<1>9. \A p \in Temps : p \in DOMAIN disk' => p \in DOMAIN disk
  BY <1>5, <1>6 DEF Leaves
<1>10. transfer[o].at = "saved" => transfer[o].temp \notin DOMAIN disk'
  BY <1>5, <1>6 DEF Leaves
<1>11. \A q \in DownloadOps \ {o} :
         q \notin met' \/ o \notin met' =>
           {r.file} \ {NoPath} \subseteq Used(transfer[o], result[o]) \/ r.file \notin Used(transfer[q], result[q])
  BY <1>1, <1>4
<1> QED BY <1>3, <1>4, <1>7, <1>8, <1>9, <1>10, <1>11, TransferAnswerKept

\* What is made up is of its kind.
LEMMA FinalIs == DownloadInv => Final \in Finals /\ Temp \in Temps
<1> SUFFICES ASSUME DownloadInv PROVE Final \in Finals /\ Temp \in Temps
  OBVIOUS
<1>1. millis \in 0..MaxMillis
  BY DEF DownloadInv, DownloadKinds
<1> QED BY <1>1 DEF Final, Temp, Finals, Temps, Stamped

\* A command hands over what it has, as a file or inline.
LEMMA DeliverKept ==
  ASSUME DownloadInv, NEW o \in DownloadOps, NEW content, NEW left,
         Deliver(o, content, left), millis' = millis,
         HasItsOwn(o, content), Leaves(o, left)
  PROVE  DownloadInv'
<1>1. PICK path : path = IF transfer[o].out = NoPath THEN Final ELSE transfer[o].out
  OBVIOUS
<1>2. path \in ScrapeDirs \cup Finals
  <2>1. transfer[o] \in Transfer
    BY DEF DownloadInv, DownloadKinds
  <2>2. transfer[o].out \in ScrapeDirs \cup {NoPath}
    BY <2>1 DEF Transfer
  <2> QED BY <1>1, <2>2, FinalIs
<1>3. CASE ~transfer[o].inline
  <2>1. /\ Answer(o, [NoAnswer EXCEPT !.file = path, !.asked = transfer[o].source])
        /\ disk' = Put1(left, path, content) /\ Take(o, path)
    BY <1>1, <1>3 DEF Deliver
  <2> QED BY <1>2, <2>1, Delivered
<1>4. CASE transfer[o].inline
  <2>1. PICK r : r = [NoAnswer EXCEPT !.inline = content, !.asked = transfer[o].source]
    OBVIOUS
  <2>2. Answer(o, r) /\ disk' = left /\ met' = met
    BY <1>4, <2>1 DEF Deliver
  <2>3. r.file = NoPath /\ r.inline = content /\ r.asked = transfer[o].source /\ r.list = <<>>
    BY <2>1 DEF NoAnswer
  <2>4. At("idle").at = "idle"
    BY DEF At
  <2>5. Shape(At("idle"), r)
    BY <2>3, <2>4 DEF Shape
  <2>6. o \notin met' => Right(At("idle"), r, disk')
    BY <2>2, <2>3, <2>4 DEF Right, HasItsOwn
  <2>7. Outside(disk, disk', Used(transfer[o], result[o]) \cup ({r.file} \ {NoPath}))
    <3>1. PICK V : V = Used(transfer[o], result[o]) \cup ({r.file} \ {NoPath})
      OBVIOUS
    <3>2. V = Used(transfer[o], result[o])
      BY <2>3, <3>1
    <3>3. Outside(disk, disk', Used(transfer[o], result[o]))
      BY <2>2 DEF Outside, Leaves
    <3> QED BY <3>1, <3>2, <3>3
  <2>8. /\ \A p \in Temps : p \in DOMAIN disk' => p \in DOMAIN disk
        /\ transfer[o].at = "saved" => transfer[o].temp \notin DOMAIN disk'
    BY <2>2 DEF Leaves
  <2>9. r.file = NoPath
    BY <2>3
  <2> QED BY <2>2, <2>5, <2>6, <2>7, <2>8, <2>9, TransferAnswerKept
<1> QED BY <1>3, <1>4

\* What a command has fetched, and what it has saved.
LEMMA FetchedKept == ASSUME DownloadInv, NEW o \in DownloadOps, Fetched(o) PROVE DownloadInv'
<1>1. transfer[o].at = "fetch" /\ Deliver(o, transfer[o].source, disk) /\ millis' = millis
  BY DEF Fetched
<1>2. HasItsOwn(o, transfer[o].source)
  BY DEF HasItsOwn
<1>3. Leaves(o, disk)
  BY <1>1 DEF Leaves
<1> QED BY <1>1, <1>2, <1>3, DeliverKept

\* A saved download is read, and its file removed or moved.
LEMMA ReadKept == ASSUME DownloadInv, NEW o \in DownloadOps, SavedIsRead(o) PROVE DownloadInv'
<1>1. transfer[o].at = "saved" /\ millis' = millis
  BY DEF SavedIsRead
<1>2. PICK temp \in Temps : temp = transfer[o].temp
  BY <1>1 DEF DownloadInv, DownloadKinds, Shape
<1>3. o \notin met => Stored(disk, temp, transfer[o].source)
  BY <1>1, <1>2 DEF DownloadInv, AllRight, Right
<1>4. PICK left : left = Unlink(disk, temp)
  OBVIOUS
<1>5. DOMAIN left = DOMAIN disk \ {temp} /\ \A p \in DOMAIN disk : p # temp => left[p] = disk[p]
  BY <1>4, UnlinkIs
<1>6. \A p : p \notin Reach(Used(transfer[o], result[o])) => p # temp
  BY <1>2, MadeUp DEF Reach, Used, Named
<1>7. Leaves(o, left)
  <2>1. DOMAIN left \subseteq DOMAIN disk
    BY <1>5
  <2>2. \A p \in DOMAIN disk : p # temp => p \in DOMAIN left /\ left[p] = disk[p]
    BY <1>5
  <2>3. transfer[o].temp \in Temps /\ transfer[o].temp \notin DOMAIN left
    BY <1>2, <1>5
  <2> QED BY <1>6, <2>1, <2>2, <2>3 DEF Leaves
<1>8. CASE temp \notin DOMAIN disk
  BY <1>2, <1>8, ErrsKept DEF SavedIsRead
<1>9. CASE temp \in DOMAIN disk /\ Deliver(o, disk[temp], left)
  <2>1. HasItsOwn(o, disk[temp])
    BY <1>3 DEF Stored, HasItsOwn
  <2> QED BY <1>1, <1>9, <1>7, <2>1, DeliverKept
<1>10. CASE temp \in DOMAIN disk /\ MovesFile(o, Final)
  <2>1. HasItsOwn(o, disk[temp])
    BY <1>3 DEF Stored, HasItsOwn
  <2>2. /\ Answer(o, [NoAnswer EXCEPT !.file = Final, !.asked = transfer[o].source])
        /\ disk' = Put1(left, Final, disk[temp]) /\ Take(o, Final)
    BY <1>2, <1>4, <1>10 DEF MovesFile
  <2>3. Final \in ScrapeDirs \cup Finals
    BY FinalIs
  <2>4. PICK r : r = [NoAnswer EXCEPT !.file = Final, !.asked = transfer[o].source]
    OBVIOUS
  <2>5. PICK path \in ScrapeDirs \cup Finals : path = Final
    BY <2>3
  <2>6. PICK content : content = disk[temp]
    OBVIOUS
  <2>7. /\ r = [NoAnswer EXCEPT !.file = path, !.asked = transfer[o].source]
        /\ Answer(o, r) /\ disk' = Put1(left, path, content) /\ Take(o, path) /\ millis' = millis
        /\ HasItsOwn(o, content)
    BY <1>1, <2>1, <2>2, <2>4, <2>5, <2>6
  <2> QED BY <1>7, <2>7, Delivered
<1> QED BY <1>1, <1>2, <1>4, <1>8, <1>9, <1>10 DEF SavedIsRead

\* Fetches and waits, and what ends them.
LEMMA FailsKept == ASSUME DownloadInv, NEW o \in DownloadOps, TransferFails(o) PROVE DownloadInv'
<1>1. transfer[o].at # "saved" /\ Errs(o) /\ disk' = disk
  BY DEF TransferFails
<1> QED BY <1>1, ErrsKept

\* download begins.
LEMMA BeginsKept ==
  ASSUME DownloadInv, NEW o \in DownloadOps, NEW u \in Sources, NEW out \in OutPaths \cup {NoPath},
         NEW inline \in BOOLEAN, Download(o, u, out, inline) \/ DownloadByNavigation(o, u, out, inline)
  PROVE  DownloadInv'
<1>1. out \in ScrapeDirs \cup {NoPath}
  BY MadeUp
<1>2. UNCHANGED <<disk, millis>> /\ transfer[o].at = "idle" /\ result' = [result EXCEPT ![o] = NoAnswer]
  BY DEF Download, DownloadByNavigation, DownloadBegins
<1>3. CASE Download(o, u, out, inline)
  <2>1. PICK t : t = [At("fetch") EXCEPT !.source = u, !.out = out, !.inline = inline]
    OBVIOUS
  <2>2. t \in Transfer /\ t.at = "fetch" /\ t.out = out /\ t.temp = NoPath
    <3>1. "fetch" \in Places
      BY DEF Places
    <3>2. Begun(t, "fetch", out)
      BY <1>1, <2>1, <3>1, AskedIs
    <3> QED BY <3>2 DEF Begun
  <2>3. Becomes(o, t)
    BY <1>3, <2>1 DEF Download
  <2>4. met' = (met \ {o}) \cup
               (IF out = NoPath \/ Takers(out) \subseteq {o} THEN {} ELSE {o} \cup Takers(out))
    BY <1>3 DEF Download
  <2>5. \A q \in DownloadOps \ {o} : q \notin met' => q \notin met
    BY <2>4
  <2>6. t.out # NoPath => \A q \in Takers(t.out) \ {o} : o \in met' /\ q \in met'
    BY <2>2, <2>4
  <2> QED BY <1>2, <2>2, <2>3, <2>5, <2>6, DownloadBegun
<1>4. CASE DownloadByNavigation(o, u, out, inline)
  <2>1. PICK t : t = [At("await") EXCEPT !.source = u, !.out = out, !.inline = inline]
    OBVIOUS
  <2>2. t \in Transfer /\ t.at = "await" /\ t.out = out /\ t.temp = NoPath
    <3>1. "await" \in Places
      BY DEF Places
    <3>2. Begun(t, "await", out)
      BY <1>1, <2>1, <3>1, AskedIs
    <3> QED BY <3>2 DEF Begun
  <2>3. Becomes(o, t)
    BY <1>4, <2>1 DEF DownloadByNavigation
  <2>4. PICK others : others = {q \in DownloadOps \ {o} : transfer[q].at = "await"}
    OBVIOUS
  <2>5. PICK takers : takers = IF out = NoPath THEN {} ELSE Takers(out) \ {o}
    OBVIOUS
  <2>6. met' = (met \ {o}) \cup others \cup takers \cup (IF others \cup takers = {} THEN {} ELSE {o})
    BY <1>4, <2>4, <2>5 DEF DownloadByNavigation
  <2>7. \A q \in DownloadOps \ {o} : q \notin met' => q \notin met
    BY <2>6
  <2>8. t.out # NoPath => \A q \in Takers(t.out) \ {o} : o \in met' /\ q \in met'
    BY <2>2, <2>5, <2>6
  <2>9. \A q \in DownloadOps \ {o} : transfer[q].at = "await" => o \in met' /\ q \in met'
    BY <2>4, <2>6
  <2> QED BY <1>2, <2>2, <2>3, <2>7, <2>8, <2>9, DownloadBegun
<1> QED BY <1>3, <1>4

\* scrape begins.
LEMMA ScrapeBegins ==
  ASSUME DownloadInv, NEW o \in DownloadOps, NEW dir \in OutPaths \cup {NoPath}, Scrape(o, dir)
  PROVE  DownloadInv'
<1>1. PICK d : d = IF dir = NoPath THEN ScrapeDir ELSE dir
  OBVIOUS
<1>2. d \in ScrapeDirs
  <2>1. millis \in 0..MaxMillis
    BY DEF DownloadInv, DownloadKinds
  <2> QED BY <1>1, <2>1 DEF ScrapeDir, ScrapeDirs, Stamped
<1>3. PICK t : t = [At("media") EXCEPT !.out = d]
  OBVIOUS
<1>4. t \in Transfer /\ t.at = "media" /\ t.out = d /\ t.temp = NoPath
  <2>1. At("media") \in Transfer
    BY AtIs DEF Places
  <2>2. t \in Transfer
    BY <1>2, <1>3, <2>1, Zenon DEF Transfer
  <2> QED BY <1>3, <2>2 DEF At
<1>5. /\ transfer[o].at = "idle" /\ Becomes(o, t) /\ UNCHANGED <<disk, millis>>
      /\ result' = [result EXCEPT ![o] = NoAnswer]
      /\ met' = (met \ {o}) \cup (IF Takers(d) \subseteq {o} THEN {} ELSE {o} \cup Takers(d))
  BY <1>1, <1>3 DEF Scrape, DownloadBegins
<1>6. \A q \in DownloadOps \ {o} : q \notin met' => q \notin met
  BY <1>5
<1>7. \A q \in Takers(t.out) \ {o} : o \in met' /\ q \in met'
  BY <1>4, <1>5
<1> QED BY <1>2, <1>4, <1>5, <1>6, <1>7, DownloadBegun

\* A download event ends every wait.
LEMMA EventKept ==
  ASSUME DownloadInv, NEW u \in Sources \cup {Unasked}, DownloadEvent(u)
  PROVE  DownloadInv'
<1>1. PICK waiting : waiting = {o \in DownloadOps : transfer[o].at = "await"}
  OBVIOUS
<1>2. /\ u \in {transfer[o].source : o \in waiting} \cup {Unasked}
      /\ transfer' = [o \in DownloadOps |-> IF o \in waiting THEN [transfer[o] EXCEPT !.at = "failure", !.got = u]
                                           ELSE transfer[o]]
      /\ met' = met \cup (IF u = Unasked THEN waiting ELSE {})
      /\ UNCHANGED <<result, disk, millis>>
  BY <1>1 DEF DownloadEvent
<1>3. \A o \in DownloadOps : transfer[o] \in Transfer /\ Shape(transfer[o], result[o])
  BY DEF DownloadInv, DownloadKinds
<1>4. ASSUME NEW o \in waiting
      PROVE  /\ transfer'[o] \in Transfer /\ transfer'[o].at = "failure" /\ transfer'[o].got = u
             /\ transfer'[o].source = transfer[o].source /\ transfer'[o].out = transfer[o].out
             /\ transfer'[o].temp = transfer[o].temp
  <2>1. PICK t \in Transfer : t = transfer[o] /\ t.at = "await"
    BY <1>1, <1>3
  <2>2. PICK e : e = [t EXCEPT !.at = "failure", !.got = u]
    OBVIOUS
  <2>3. e \in Transfer
    BY <2>2, TransferWith DEF Places
  <2>4. e.at = "failure" /\ e.got = u /\ e.source = t.source /\ e.out = t.out /\ e.temp = t.temp
    BY <2>2 DEF Transfer
  <2>5. transfer'[o] = e
    BY <1>1, <1>2, <2>1, <2>2
  <2> QED BY <2>1, <2>3, <2>4, <2>5
<1>5. \A o \in DownloadOps \ waiting : transfer'[o] = transfer[o]
  BY <1>2
<1>6. ASSUME NEW o \in DownloadOps PROVE Used(transfer'[o], result'[o]) = Used(transfer[o], result[o])
  <2>1. transfer'[o].temp = transfer[o].temp /\ transfer'[o].out = transfer[o].out
    BY <1>4, <1>5
  <2> QED BY <1>2, <2>1 DEF Used
<1>7. ASSUME NEW o \in DownloadOps PROVE Shape(transfer'[o], result'[o])
  <2>1. CASE o \in waiting
    <3>1. result[o] = NoAnswer
      BY <1>1, <1>3, <2>1 DEF Shape
    <3> QED BY <1>2, <1>4, <2>1, <3>1, AtRest DEF Shape
  <2> QED BY <1>2, <1>3, <1>5, <2>1
<1>8. DownloadKinds'
  <2>1. transfer' \in [DownloadOps -> Transfer]
    <3>1. \A o \in DownloadOps : transfer'[o] \in Transfer
      BY <1>3, <1>4, <1>5
    <3>2. transfer' = [o \in DownloadOps |-> transfer'[o]]
      BY <1>2
    <3> QED BY <3>1, <3>2
  <2> QED BY <1>2, <1>7, <2>1 DEF DownloadInv, DownloadKinds
<1>9. NoneShared'
  BY <1>2, <1>6 DEF DownloadInv, NoneShared
<1>10. \A o \in DownloadOps : transfer'[o].at # "await"
  BY <1>1, <1>4, <1>5
<1>11. WaitAlone'
  BY <1>10 DEF WaitAlone
<1>12. AllRight'
  <2> SUFFICES ASSUME NEW o \in DownloadOps \ met' PROVE Right(transfer'[o], result'[o], disk')
    BY DEF AllRight
  <2>1. o \notin met
    BY <1>2
  <2>2. CASE o \in waiting
    <3>1. u # Unasked
      BY <1>2, <2>2
    <3>2. PICK q \in waiting : u = transfer[q].source
      BY <1>2, <3>1
    <3>3. q = o
      BY <1>1, <2>1, <2>2 DEF DownloadInv, WaitAlone
    <3>4. result[o] = NoAnswer
      BY <1>1, <1>3, <2>2 DEF Shape
    <3>5. transfer'[o].at = "failure" /\ transfer'[o].got = transfer'[o].source
      BY <1>4, <2>2, <3>2, <3>3
    <3>6. Right(transfer'[o], NoAnswer, disk')
      BY <3>5, AtRest
    <3> QED BY <1>2, <3>4, <3>6
  <2>3. CASE o \notin waiting
    BY <1>2, <1>5, <2>1, <2>3 DEF DownloadInv, AllRight
  <2> QED BY <2>2, <2>3
<1>13. TempsHeld'
  <2> SUFFICES ASSUME NEW p \in Temps, p \in DOMAIN disk'
               PROVE  \E o \in DownloadOps : transfer'[o].at = "saved" /\ transfer'[o].temp = p
    BY DEF TempsHeld
  <2>1. PICK o \in DownloadOps : transfer[o].at = "saved" /\ transfer[o].temp = p
    BY <1>2 DEF DownloadInv, TempsHeld
  <2>2. o \notin waiting
    BY <1>1, <2>1
  <2> QED BY <1>5, <2>1, <2>2
<1> QED BY <1>8, <1>9, <1>11, <1>12, <1>13 DEF DownloadInv

\* A download that has completed without a failure has a path to be saved to.
LEMMA CompletesKept == ASSUME DownloadInv, NEW o \in DownloadOps, Completes(o) PROVE DownloadInv'
<1>1. PICK was \in Transfer : was = transfer[o] /\ was.at = "failure"
  BY DEF DownloadInv, DownloadKinds, Completes
<1>2. PICK temp \in Temps : temp = Temp
  BY FinalIs
<1>3. PICK t : t = [was EXCEPT !.at = "save", !.temp = temp]
  OBVIOUS
<1>4. t \in Transfer
  BY <1>3, TransferWith DEF Places
<1>5. t.at = "save" /\ t.temp = temp /\ t.out = was.out /\ t.got = was.got /\ t.source = was.source
  BY <1>3 DEF Transfer
<1>6. Becomes(o, t) /\ Take(o, temp) /\ UNCHANGED <<result, disk, millis>>
  BY <1>1, <1>2, <1>3 DEF Completes
<1>7. TransferMoves(o, t, result[o])
  BY <1>4, <1>6, MovesBy DEF Becomes
<1>8. result[o] = NoAnswer
  BY <1>1 DEF DownloadInv, DownloadKinds, Shape
<1>9. Shape(t, result[o])
  BY <1>5, <1>8, AtRest DEF Shape
<1>10. /\ met \subseteq met'
       /\ \A q \in DownloadOps \ {o} :
            q \notin met' \/ o \notin met' => temp \notin Used(transfer[q], result[q])
  BY <1>6, TakeClears
<1>11. \A q \in DownloadOps \ {o} :
         q \notin met' \/ o \notin met' => Used(t, result[o]) \cap Used(transfer[q], result[q]) = {}
  <2> SUFFICES ASSUME NEW q \in DownloadOps \ {o}, q \notin met' \/ o \notin met'
               PROVE  Used(t, result[o]) \cap Used(transfer[q], result[q]) = {}
    OBVIOUS
  <2>1. Used(transfer[o], result[o]) \cap Used(transfer[q], result[q]) = {}
    BY <1>10, Clear
  <2>2. Used(t, result[o]) \subseteq {temp} \cup Used(transfer[o], result[o])
    BY <1>1, <1>5 DEF Used
  <2> QED BY <1>10, <2>1, <2>2
<1>12. \A U : Outside(disk, disk', U)
  BY <1>6 DEF Outside
<1>13. o \notin met' => Right(t, result[o], disk')
  <2>1. o \notin met => was.got = was.source
    BY <1>1 DEF DownloadInv, AllRight, Right
  <2> QED BY <1>5, <1>8, <1>10, <2>1, AtRest
<1>14. TempsHeld'
  BY <1>1, <1>6, <1>7, TempsStay
<1>15. millis' \in 0..MaxMillis
  BY <1>6 DEF DownloadInv, DownloadKinds
<1> QED BY <1>4, <1>5, <1>7, <1>9, <1>10, <1>11, <1>12, <1>13, <1>14, <1>15, GoesOn

\* A download is saved to its temporary path.
LEMMA SavesKept == ASSUME DownloadInv, NEW o \in DownloadOps, Saves(o) PROVE DownloadInv'
<1>1. PICK was \in Transfer : was = transfer[o] /\ was.at = "save"
  BY DEF DownloadInv, DownloadKinds, Saves
<1>2. PICK temp \in Temps : temp = was.temp
  BY <1>1 DEF DownloadInv, DownloadKinds, Shape
<1>3. PICK t : t = [was EXCEPT !.at = "saved"]
  OBVIOUS
<1>4. t \in Transfer
  BY <1>3, TransferWith DEF Places
<1>5. t.at = "saved" /\ t.temp = temp /\ t.out = was.out /\ t.got = was.got /\ t.source = was.source
  BY <1>2, <1>3 DEF Transfer
<1>6. Becomes(o, t) /\ disk' = Put1(disk, temp, was.got) /\ UNCHANGED <<result, millis, met>>
  BY <1>1, <1>2, <1>3 DEF Saves
<1>7. TransferMoves(o, t, result[o])
  BY <1>4, <1>6, MovesBy DEF Becomes
<1>8. result[o] = NoAnswer
  BY <1>1 DEF DownloadInv, DownloadKinds, Shape
<1>9. Shape(t, result[o])
  BY <1>5, <1>8, AtRest DEF Shape
<1>10. Used(t, result[o]) = Used(transfer[o], result[o]) /\ temp \in Used(t, result[o])
  BY <1>1, <1>2, <1>5, MadeUp DEF Used, Named
<1>11. \A q \in DownloadOps \ {o} :
         q \notin met' \/ o \notin met' => Used(t, result[o]) \cap Used(transfer[q], result[q]) = {}
  BY <1>6, <1>10, Clear
<1>12. /\ Stored(disk', temp, was.got) /\ DOMAIN disk' = DOMAIN disk \cup {temp}
       /\ \A p \in DOMAIN disk : p # temp => disk'[p] = disk[p]
  BY <1>6 DEF Put1, Stored
<1>13. Outside(disk, disk', Used(transfer[o], result[o]) \cup Used(t, result[o]))
  BY <1>10, <1>12 DEF Outside, Reach
<1>14. o \notin met' => Right(t, result[o], disk')
  <2>1. o \notin met => was.got = was.source
    BY <1>1 DEF DownloadInv, AllRight, Right
  <2> QED BY <1>5, <1>6, <1>8, <1>12, <2>1, AtRest
<1>15. TempsHeld'
  BY <1>1, <1>5, <1>7, <1>12, TempsStay
<1>16. millis' \in 0..MaxMillis
  BY <1>6 DEF DownloadInv, DownloadKinds
<1> QED BY <1>4, <1>5, <1>6, <1>7, <1>9, <1>11, <1>13, <1>14, <1>15, <1>16, GoesOn

\* A scrape goes on, or has come to its end.
LEMMA ScrapeOn ==
  ASSUME DownloadInv, NEW o \in DownloadOps, transfer[o].at \in {"media", "item"}, NEW list, NEW lines, NEW d,
         Entries(transfer[o].out, lines, list), Len(lines) <= Len(list), ScrapeGoesOn(o, list, lines, d),
         o \notin met => Fetches(lines, d),
         Outside(disk, d, Used(transfer[o], result[o])), DOMAIN d \subseteq DOMAIN disk \cup ItemFiles,
         UNCHANGED <<millis, met>>
  PROVE  DownloadInv'
<1>1. PICK was \in Transfer : was = transfer[o] /\ was.at \in {"media", "item"}
  BY DEF DownloadInv, DownloadKinds
<1>2. PICK dir \in ScrapeDirs : dir = was.out
  BY <1>1 DEF DownloadInv, DownloadKinds, Shape
<1>3. PICK U : U = Used(transfer[o], result[o])
  OBVIOUS
<1>4. dir \in U /\ dir # NoPath
  BY <1>1, <1>2, <1>3, MadeUp DEF Used, Named
<1>5. ItemFiles \cap Temps = {} /\ Manifest(dir) \notin Temps
  BY <1>2, FilesApart DEF Manifests, Named
<1>6. result[o] = NoAnswer
  BY <1>1 DEF DownloadInv, DownloadKinds, Shape
<1>7. list \in Seq(Sources) /\ lines \in Seq(Entry) /\ Len(list) \in Nat /\ Len(lines) \in Nat
  <2>1. list \in Seq(Sources) /\ lines \in Seq(Entry)
    BY DEF Entries, Distinct
  <2> QED BY <2>1
<1>8. millis' \in 0..MaxMillis
  BY DEF DownloadInv, DownloadKinds
<1>9. CASE Len(lines) = Len(list)
  <2>1. PICK r : r = [NoAnswer EXCEPT !.file = dir, !.manifest = lines, !.list = list]
    OBVIOUS
  <2>2. Answer(o, r) /\ disk' = Put1(d, Manifest(dir), lines)
    BY <1>1, <1>2, <1>9, <2>1 DEF ScrapeGoesOn
  <2>3. r.file = dir /\ r.manifest = lines /\ r.list = list /\ r.asked = Unasked
    BY <2>1 DEF NoAnswer
  <2>4. At("idle").at = "idle"
    BY DEF At
  <2>5. Shape(At("idle"), r)
    BY <1>1, <1>2, <1>9, <2>3, <2>4 DEF Shape
  <2>6. /\ Stored(disk', Manifest(dir), lines) /\ DOMAIN disk' = DOMAIN d \cup {Manifest(dir)}
        /\ \A p \in DOMAIN d : p # Manifest(dir) => disk'[p] = d[p]
    BY <2>2 DEF Put1, Stored
  <2>7. o \notin met' => Right(At("idle"), r, disk')
    <3>1. ASSUME o \notin met PROVE Fetches(lines, disk')
      <4> SUFFICES ASSUME NEW i \in 1..Len(lines), lines[i].file # NoPath
                   PROVE  Stored(disk', lines[i].file, lines[i].src)
        BY DEF Fetches
      <4>1. Stored(d, lines[i].file, lines[i].src)
        BY <3>1 DEF Fetches
      <4>2. lines[i].file \in ItemFiles
        <5>1. lines[i] \in Entry
          BY <1>7
        <5> QED BY <5>1 DEF Entry
      <4>3. lines[i].file # Manifest(dir)
        BY <1>2, <4>2, FilesApart DEF Manifests
      <4> QED BY <2>6, <4>1, <4>3 DEF Stored
    <3> QED BY <2>3, <2>4, <2>6, <3>1 DEF Right
  <2>8. Outside(disk, disk', U \cup ({r.file} \ {NoPath}))
    <3>1. U \cup ({r.file} \ {NoPath}) = U
      BY <1>4, <2>3
    <3>2. Manifest(dir) \in Reach(U)
      BY <1>2, <1>4, Reached
    <3>3. Outside(disk, disk', U)
      BY <1>3, <2>6, <3>2 DEF Outside
    <3> QED BY <3>1, <3>3
  <2>9. \A p \in Temps : p \in DOMAIN disk' => p \in DOMAIN disk
    BY <1>5, <2>6
  <2>10. {r.file} \ {NoPath} \subseteq Used(transfer[o], result[o])
    BY <1>3, <1>4, <2>3
  <2> QED BY <1>1, <1>3, <2>2, <2>5, <2>7, <2>8, <2>9, <2>10, TransferAnswerKept
<1>10. CASE Len(lines) # Len(list)
  <2>1. PICK t : t = [was EXCEPT !.at = "item", !.list = list, !.files = lines]
    OBVIOUS
  <2>2. disk' = d /\ result' = result /\ Becomes(o, t)
    BY <1>1, <1>10, <2>1 DEF ScrapeGoesOn
  <2>3. t \in Transfer
    BY <1>7, <2>1, ListedWith DEF Places
  <2>4. /\ t.at = "item" /\ t.list = list /\ t.files = lines /\ t.out = dir /\ t.temp = was.temp
    BY <1>2, <2>1 DEF Transfer
  <2>5. TransferMoves(o, t, result[o])
    BY <2>2, <2>3, MovesBy DEF Becomes
  <2>6. Len(lines) < Len(list)
    BY <1>7, <1>10
  <2>7. Shape(t, result[o])
    BY <1>1, <1>2, <1>6, <2>4, <2>6, AtRest DEF Shape
  <2>8. Used(t, result[o]) = U
    BY <1>1, <1>2, <1>3, <2>4 DEF Used
  <2>9. \A q \in DownloadOps \ {o} :
          q \notin met' \/ o \notin met' => Used(t, result[o]) \cap Used(transfer[q], result[q]) = {}
    BY <1>3, <2>8, Clear
  <2>10. Outside(disk, disk', Used(transfer[o], result[o]) \cup Used(t, result[o]))
    BY <1>3, <2>2, <2>8
  <2>11. o \notin met' => Right(t, result[o], disk')
    BY <1>6, <2>2, <2>4, AtRest
  <2>12. TempsHeld'
    BY <1>1, <1>5, <2>2, <2>5, TempsStay
  <2> QED BY <1>8, <2>3, <2>4, <2>5, <2>7, <2>9, <2>10, <2>11, <2>12, GoesOn
<1> QED BY <1>9, <1>10

\* A scrape has found what there is.
LEMMA MediaKept ==
  ASSUME DownloadInv, NEW o \in DownloadOps, NEW found \in Seq(Sources), MediaFound(o, found)
  PROVE  DownloadInv'
<1>1. transfer[o].at = "media" /\ ScrapeGoesOn(o, ToDownload(found), <<>>, disk) /\ UNCHANGED <<millis, met>>
  BY DEF MediaFound
<1>2. PICK list : list = ToDownload(found)
  OBVIOUS
<1>3. list \in Distinct /\ Len(list) <= Limit
  BY <1>2, ListIs
<1>4. <<>> \in Seq(Entry) /\ Len(<<>>) = 0 /\ \A i \in 1..Len(<<>>) : FALSE
  OBVIOUS
<1>5. Entries(transfer[o].out, <<>>, list)
  BY <1>3, <1>4 DEF Entries
<1>6. Len(<<>>) <= Len(list)
  <2>1. list \in Seq(Sources)
    BY <1>3 DEF Distinct
  <2> QED BY <1>4, <2>1
<1>7. Fetches(<<>>, disk)
  BY <1>4 DEF Fetches
<1>8. Outside(disk, disk, Used(transfer[o], result[o]))
  BY DEF Outside
<1> QED BY <1>1, <1>2, <1>5, <1>6, <1>7, <1>8, ScrapeOn

\* A scrape fetches the next of its list.
LEMMA ItemKept ==
  ASSUME DownloadInv, NEW o \in DownloadOps, NEW succeeds \in BOOLEAN, ScrapeItem(o, succeeds)
  PROVE  DownloadInv'
<1>1. PICK t \in Transfer : t = transfer[o] /\ t.at = "item"
  BY DEF DownloadInv, DownloadKinds, ScrapeItem
<1>2. /\ t.out \in ScrapeDirs /\ Entries(t.out, t.files, t.list) /\ Len(t.files) < Len(t.list)
  BY <1>1 DEF DownloadInv, DownloadKinds, Shape
<1>3. PICK lines \in Seq(Entry), list \in Seq(Sources), dir \in ScrapeDirs :
        lines = t.files /\ list = t.list /\ dir = t.out
  BY <1>2 DEF Entries, Distinct
<1>4. PICK n \in Nat, i \in Nat : n = Len(lines) /\ i = n + 1 /\ i <= Len(list)
  BY <1>2, <1>3
<1>5. i \in Indices /\ list[i] \in Sources
  <2>1. Len(list) <= Limit
    BY <1>2, <1>3 DEF Entries
  <2>2. i \in 1..Len(list) /\ i \in 1..Limit
    BY <1>4, <2>1, DownloadNumbers
  <2> QED BY <2>2 DEF Indices
<1>6. PICK file : file = ItemFile(dir, i)
  OBVIOUS
<1>7. file \in ItemFiles /\ file # NoPath
  BY <1>5, <1>6, FilesApart DEF ItemFiles
<1>8. PICK entry : entry = [file |-> IF succeeds THEN file ELSE NoPath, src |-> list[i]]
  OBVIOUS
<1>9. entry \in Entry /\ entry.src = list[i] /\ entry.file \in {NoPath, file}
  <2>1. CASE succeeds
    BY <1>5, <1>7, <1>8, <2>1 DEF Entry
  <2>2. CASE ~succeeds
    BY <1>5, <1>8, <2>2 DEF Entry
  <2> QED BY <2>1, <2>2
<1>10. PICK more : more = Append(lines, entry)
  OBVIOUS
<1>11. /\ more \in Seq(Entry) /\ Len(more) = i /\ more[i] = entry
       /\ \A j \in 1..n : more[j] = lines[j]
  BY <1>4, <1>9, <1>10
<1>12. PICK d : d = IF succeeds THEN Put1(disk, file, list[i]) ELSE disk
  OBVIOUS
<1>13. ScrapeGoesOn(o, list, more, d) /\ UNCHANGED <<millis, met>>
  BY <1>1, <1>3, <1>4, <1>6, <1>8, <1>10, <1>12 DEF ScrapeItem
<1>14. Entries(dir, more, list)
  <2>1. ASSUME NEW j \in 1..i PROVE more[j].src = list[j] /\ more[j].file \in {NoPath, ItemFile(dir, j)}
    <3>1. CASE j = i
      BY <1>6, <1>9, <1>11, <3>1
    <3>2. CASE j # i
      <4>1. j \in 1..n
        BY <1>4, <3>2
      <4> QED BY <1>2, <1>3, <1>4, <1>11, <4>1 DEF Entries
    <3> QED BY <3>1, <3>2
  <2> QED BY <1>2, <1>3, <1>11, <2>1 DEF Entries
<1>15. /\ DOMAIN d \subseteq DOMAIN disk \cup {file} /\ DOMAIN disk \subseteq DOMAIN d
       /\ \A p \in DOMAIN disk : p # file => d[p] = disk[p]
       /\ succeeds => Stored(d, file, list[i])
  BY <1>12 DEF Put1, Stored
<1>16. ASSUME o \notin met PROVE Fetches(more, d)
  <2> SUFFICES ASSUME NEW j \in 1..i, more[j].file # NoPath PROVE Stored(d, more[j].file, more[j].src)
    BY <1>11 DEF Fetches
  <2>1. CASE j = i
    <3>1. succeeds /\ more[j].file = file /\ more[j].src = list[i]
      BY <1>8, <1>9, <1>11, <2>1
    <3> QED BY <1>15, <3>1
  <2>2. CASE j # i
    <3>1. j \in 1..n
      BY <1>4, <2>2
    <3>2. more[j] = lines[j] /\ lines[j].file = ItemFile(dir, j)
      BY <1>2, <1>3, <1>4, <1>11, <3>1 DEF Entries
    <3>3. Stored(disk, lines[j].file, lines[j].src)
      BY <1>1, <1>3, <1>4, <1>16, <3>1, <3>2 DEF DownloadInv, AllRight, Right, Fetches
    <3>4. j \in Indices
      BY <1>4, <1>5, <3>1, DownloadNumbers DEF Indices
    <3>5. ItemFile(dir, j) # file
      BY <1>5, <1>6, <2>2, <3>4, FilesApart
    <3> QED BY <1>15, <3>2, <3>3, <3>5 DEF Stored
  <2> QED BY <2>1, <2>2
<1>17. Outside(disk, d, Used(transfer[o], result[o]))
  <2>1. dir \in Used(transfer[o], result[o])
    BY <1>1, <1>3, MadeUp DEF Used, Named
  <2>2. file \in Reach(Used(transfer[o], result[o]))
    BY <1>5, <1>6, <2>1, Reached
  <2> QED BY <1>15, <2>2 DEF Outside
<1>18. Len(more) <= Len(list)
  BY <1>4, <1>11
<1>19. Entries(transfer[o].out, more, list) /\ transfer[o].at \in {"media", "item"}
  BY <1>1, <1>3, <1>14
<1>20. DOMAIN d \subseteq DOMAIN disk \cup ItemFiles
  BY <1>7, <1>15
<1> QED BY <1>13, <1>16, <1>17, <1>18, <1>19, <1>20, ScrapeOn

\* It holds at first.
LEMMA DownloadInitInv == DownloadInit => DownloadInv
<1> SUFFICES ASSUME DownloadInit PROVE DownloadInv
  OBVIOUS
<1>1. /\ transfer = [o \in DownloadOps |-> At("idle")] /\ result = [o \in DownloadOps |-> NoAnswer]
      /\ disk = <<>> /\ millis = 0
  BY DEF DownloadInit
<1>2. At("idle") \in Transfer /\ At("idle").at = "idle" /\ At("idle").out = NoPath /\ At("idle").temp = NoPath
  BY AtIs DEF Places
<1>3. \A o \in DownloadOps : transfer[o] = At("idle") /\ result[o] = NoAnswer
  BY <1>1
<1>4. DownloadKinds
  <2>1. transfer \in [DownloadOps -> Transfer] /\ DOMAIN result = DownloadOps
    BY <1>1, <1>2
  <2>2. millis \in 0..MaxMillis
    BY <1>1, DownloadNumbers
  <2>3. Shape(At("idle"), NoAnswer)
    BY <1>2, AtRest DEF Shape
  <2> QED BY <1>3, <2>1, <2>2, <2>3 DEF DownloadKinds
<1>5. NoneShared
  BY <1>2, <1>3, AtRest DEF NoneShared, Used
<1>6. WaitAlone
  BY <1>2, <1>3 DEF WaitAlone
<1>7. AllRight
  BY <1>2, <1>3, AtRest DEF AllRight
<1>8. TempsHeld
  BY <1>1 DEF TempsHeld
<1> QED BY <1>4, <1>5, <1>6, <1>7, <1>8 DEF DownloadInv

\* Time alone does not disturb it.
LEMMA StandsStill ==
  ASSUME DownloadInv, UNCHANGED <<transfer, result, disk, met>>, millis' \in 0..MaxMillis
  PROVE  DownloadInv'
BY DEF DownloadInv, DownloadKinds, NoneShared, WaitAlone, AllRight, TempsHeld

\* The invariant holds throughout.
THEOREM DownloadInvariance == DownloadSpec => []DownloadInv
<1>1. DownloadInv /\ [DownloadNext]_downloadVars => DownloadInv'
  <2> SUFFICES ASSUME DownloadInv, [DownloadNext]_downloadVars PROVE DownloadInv'
    OBVIOUS
  <2>1. millis \in 0..MaxMillis
    BY DEF DownloadInv, DownloadKinds
  <2>2. CASE UNCHANGED downloadVars
    BY <2>1, <2>2, StandsStill DEF downloadVars
  <2>3. CASE Millisecond
    <3>1. millis' \in 0..MaxMillis
      BY <2>1, <2>3, DownloadNumbers DEF Millisecond
    <3> QED BY <2>3, <3>1, StandsStill DEF Millisecond
  <2>4. ASSUME NEW o \in DownloadOps, NEW found \in BoundedSeq(Sources, Limit + 1), MediaFound(o, found)
        PROVE  DownloadInv'
    <3>1. found \in Seq(Sources)
      <4>1. Limit + 1 \in Nat
        BY DownloadNumbers
      <4>2. PICK m \in 0..(Limit + 1) : found \in [1..m -> Sources]
        BY DEF BoundedSeq, SeqOf
      <4> QED BY <4>1, <4>2
    <3> QED BY <2>4, <3>1, MediaKept
  <2> QED BY <2>2, <2>3, <2>4, FetchedKept, FailsKept, CompletesKept, SavesKept, ReadKept, BeginsKept,
             ScrapeBegins, ItemKept, EventKept DEF DownloadNext
<1> QED BY <1>1, DownloadInitInv, PTL DEF DownloadSpec

\* For any number of commands, paths and URLs, and whatever fails: the answer of a command that
\* has met no other is what it was asked for, the manifest of a scrape is the list of its files
\* without repetition, and no temporary file stays behind.
THEOREM DownloadsOwn == DownloadSpec => []DownloadsAreOwn
<1>1. DownloadInv => DownloadsAreOwn
  <2> SUFFICES ASSUME DownloadInv PROVE DownloadsAreOwn
    OBVIOUS
  <2>1. ASSUME NEW o \in DownloadOps \ met, result[o].asked # Unasked
        PROVE  IF result[o].file = NoPath THEN result[o].inline = result[o].asked
               ELSE result[o].file \in DOMAIN disk /\ disk[result[o].file] = result[o].asked
    BY <2>1 DEF DownloadInv, AllRight, Right, Stored
  <2>2. ASSUME NEW o \in DownloadOps \ met, NEW r, r = result[o], r.list # <<>>
        PROVE  /\ disk[Manifest(r.file)] = r.manifest
               /\ [i \in DOMAIN r.manifest |-> r.manifest[i].src] = r.list /\ IsInjective(r.list)
               /\ \A e \in ToSet(r.manifest) : e.file # NoPath => disk[e.file] = e.src
    <3>1. Entries(r.file, r.manifest, r.list) /\ Len(r.manifest) = Len(r.list)
      BY <2>2 DEF DownloadInv, DownloadKinds, Shape
    <3>2. Stored(disk, Manifest(r.file), r.manifest) /\ Fetches(r.manifest, disk)
      BY <2>2 DEF DownloadInv, AllRight, Right
    <3>3. PICK lines \in Seq(Entry), list \in Seq(Sources) : lines = r.manifest /\ list = r.list
      BY <3>1 DEF Entries, Distinct
    <3>4. PICK n \in Nat : n = Len(lines) /\ n = Len(list) /\ DOMAIN lines = 1..n /\ DOMAIN list = 1..n
      BY <3>1, <3>3
    <3>5. \A i \in 1..n : lines[i].src = list[i] /\ (lines[i].file # NoPath => disk[lines[i].file] = lines[i].src)
      BY <3>1, <3>2, <3>3, <3>4 DEF Entries, Fetches, Stored
    <3>6. [i \in DOMAIN lines |-> lines[i].src] = list
      <4>1. list = [i \in 1..n |-> list[i]]
        BY <3>4
      <4> QED BY <3>4, <3>5, <4>1
    <3>7. \A e \in ToSet(lines) : e.file # NoPath => disk[e.file] = e.src
      BY <3>4, <3>5 DEF ToSet
    <3>8. IsInjective(r.list)
      BY <3>1 DEF Entries, Distinct
    <3> QED BY <3>2, <3>3, <3>6, <3>7, <3>8 DEF Stored
  <2>3. ASSUME NEW m \in 0..millis, <<"browse-nav-download", m>> \in DOMAIN disk
        PROVE  \E o \in DownloadOps : transfer[o].temp = <<"browse-nav-download", m>>
    <3>1. m \in 0..MaxMillis
      <4>1. millis \in 0..MaxMillis
        BY DEF DownloadInv, DownloadKinds
      <4> QED BY <4>1, DownloadNumbers
    <3>2. <<"browse-nav-download", m>> \in Temps
      BY <3>1 DEF Temps, Stamped
    <3> QED BY <2>3, <3>2 DEF DownloadInv, TempsHeld
  <2> QED BY <2>1, <2>2, <2>3 DEF DownloadsAreOwn
<1> QED BY <1>1, DownloadInvariance, PTL

\* Neither a list to go through nor files.
Nothing(t) == t.list = << >> /\ t.files = << >>

\* What the bound on downloads adds to the kinds; only a scrape that fetches has a list.
DownloadBounds ==
  /\ downloads \in 0..MaxDownloads /\ met \subseteq DownloadOps
  /\ \A o \in DownloadOps : transfer[o].at # "item" => Nothing(transfer[o])

\* A command that is only somewhere has neither.
LEMMA NothingYet == \A at : Nothing(At(at))
BY DEF At, Nothing

\* A step of one command that keeps to it.
LEMMA BecomesBound ==
  ASSUME DownloadInv, DownloadBounds, NEW o \in DownloadOps, NEW t, Becomes(o, t),
         t.at # "item" => Nothing(t), downloads' \in 0..MaxDownloads, met' \subseteq DownloadOps
  PROVE  DownloadBounds'
<1>1. DOMAIN transfer = DownloadOps
  BY DEF DownloadInv, DownloadKinds
<1>2. \A q \in DownloadOps : transfer'[q] = IF q = o THEN t ELSE transfer[q]
  BY <1>1 DEF Becomes
<1> QED BY <1>2 DEF DownloadBounds

\* Whom a command meets is a command.
LEMMA TakesKnown ==
  \A o \in DownloadOps : \A path : Take(o, path) /\ met \subseteq DownloadOps => met' \subseteq DownloadOps
BY DEF Take, Takers

\* A command that hands over.
LEMMA DeliverBounds ==
  ASSUME DownloadInv, DownloadBounds, NEW o \in DownloadOps, NEW content, NEW files,
         Deliver(o, content, files), UNCHANGED downloads
  PROVE  DownloadBounds'
<1>1. met' \subseteq DownloadOps
  BY TakesKnown DEF Deliver, DownloadBounds
<1>2. Becomes(o, At("idle"))
  BY DEF Deliver, Answer
<1> QED BY <1>1, <1>2, NothingYet, BecomesBound DEF DownloadBounds

\* A command that fails.
LEMMA ErrsBounds == ASSUME DownloadInv, DownloadBounds, NEW o \in DownloadOps, Errs(o) PROVE DownloadBounds'
<1>1. Becomes(o, At("idle")) /\ met' = met /\ downloads' = downloads
  BY DEF Errs, Answer
<1> QED BY <1>1, NothingYet, BecomesBound DEF DownloadBounds

\* A scrape that goes on.
LEMMA GoesOnBounds ==
  ASSUME DownloadInv, DownloadBounds, NEW o \in DownloadOps, NEW list, NEW files, NEW d,
         ScrapeGoesOn(o, list, files, d), UNCHANGED <<downloads, met>>
  PROVE  DownloadBounds'
<1>1. transfer[o] \in Transfer
  BY DEF DownloadInv, DownloadKinds
<1>2. CASE Becomes(o, At("idle"))
  BY <1>2, NothingYet, BecomesBound DEF DownloadBounds
<1>3. CASE Becomes(o, [transfer[o] EXCEPT !.at = "item", !.list = list, !.files = files])
  <2>1. PICK t : t = [transfer[o] EXCEPT !.at = "item", !.list = list, !.files = files]
    OBVIOUS
  <2>2. t.at = "item"
    BY <1>1, <2>1 DEF Transfer
  <2>3. Becomes(o, t)
    BY <1>3, <2>1
  <2> QED BY <2>2, <2>3, BecomesBound DEF DownloadBounds
<1> QED BY <1>2, <1>3 DEF ScrapeGoesOn, Answer

\* A command that begins.
LEMMA BeginsBounds ==
  ASSUME DownloadInv, DownloadBounds, NEW o \in DownloadOps,
         \/ \E u \in Sources, out \in OutPaths \cup {NoPath}, inline \in BOOLEAN :
              Download(o, u, out, inline) \/ DownloadByNavigation(o, u, out, inline)
         \/ \E dir \in OutPaths \cup {NoPath} : Scrape(o, dir)
  PROVE  DownloadBounds'
<1>1. DownloadBegins(o) => downloads' \in 0..MaxDownloads
  <2>1. MaxDownloads \in Nat
    BY DownloadAssumption
  <2> QED BY <2>1 DEF DownloadBegins, DownloadBounds
<1>2. ASSUME NEW u, NEW out, NEW inline, Download(o, u, out, inline) PROVE DownloadBounds'
  <2>1. PICK t : t = [At("fetch") EXCEPT !.source = u, !.out = out, !.inline = inline]
    OBVIOUS
  <2>2. Nothing(t) /\ Becomes(o, t)
    BY <1>2, <2>1 DEF Nothing, At, Download
  <2>3. met' \subseteq DownloadOps
    BY <1>2 DEF Download, Takers, DownloadBounds
  <2> QED BY <1>1, <1>2, <2>2, <2>3, BecomesBound DEF Download
<1>3. ASSUME NEW u, NEW out, NEW inline, DownloadByNavigation(o, u, out, inline) PROVE DownloadBounds'
  <2>1. PICK t : t = [At("await") EXCEPT !.source = u, !.out = out, !.inline = inline]
    OBVIOUS
  <2>2. Nothing(t) /\ Becomes(o, t)
    BY <1>3, <2>1 DEF Nothing, At, DownloadByNavigation
  <2>3. met' \subseteq DownloadOps
    BY <1>3 DEF DownloadByNavigation, Takers, DownloadBounds
  <2> QED BY <1>1, <1>3, <2>2, <2>3, BecomesBound DEF DownloadByNavigation
<1>4. ASSUME NEW dir, Scrape(o, dir) PROVE DownloadBounds'
  <2>1. PICK t : t = [At("media") EXCEPT !.out = IF dir = NoPath THEN ScrapeDir ELSE dir]
    OBVIOUS
  <2>2. Nothing(t) /\ Becomes(o, t)
    BY <1>4, <2>1 DEF Nothing, At, Scrape
  <2>3. met' \subseteq DownloadOps
    BY <1>4 DEF Scrape, Takers, DownloadBounds
  <2> QED BY <1>1, <1>4, <2>2, <2>3, BecomesBound DEF Scrape
<1> QED BY <1>2, <1>3, <1>4

\* A transfer that completes, and is saved.
LEMMA MovesOnBounds ==
  ASSUME DownloadInv, DownloadBounds, NEW o \in DownloadOps, Completes(o) \/ Saves(o)
  PROVE  DownloadBounds'
<1>1. transfer[o] \in Transfer /\ transfer[o].at # "item" /\ Nothing(transfer[o])
  BY DEF DownloadInv, DownloadKinds, DownloadBounds, Completes, Saves
<1>2. PICK t : Becomes(o, t) /\ t \in {[transfer[o] EXCEPT !.at = "save", !.temp = Temp],
                                       [transfer[o] EXCEPT !.at = "saved"]}
  BY DEF Completes, Saves
<1>3. Nothing(t)
  BY <1>1, <1>2 DEF Nothing, Transfer
<1>4. met' \subseteq DownloadOps /\ downloads' = downloads
  BY TakesKnown DEF Completes, Saves, DownloadBounds
<1> QED BY <1>2, <1>3, <1>4, BecomesBound DEF DownloadBounds

\* A saved download that is read.
LEMMA ReadBounds == ASSUME DownloadInv, DownloadBounds, NEW o \in DownloadOps, SavedIsRead(o) PROVE DownloadBounds'
<1>1. CASE Errs(o)
  BY <1>1, ErrsBounds
<1>2. ASSUME NEW content, NEW files, Deliver(o, content, files) PROVE DownloadBounds'
  BY <1>2, DeliverBounds DEF SavedIsRead
<1>3. CASE MovesFile(o, Final)
  <2>1. Becomes(o, At("idle")) /\ met' \subseteq DownloadOps /\ downloads' = downloads
    BY <1>3, TakesKnown DEF MovesFile, Answer, SavedIsRead, DownloadBounds
  <2> QED BY <2>1, NothingYet, BecomesBound DEF DownloadBounds
<1> QED BY <1>1, <1>2, <1>3 DEF SavedIsRead

\* A download event of the page.
LEMMA EventBounds == ASSUME DownloadInv, DownloadBounds, NEW u, DownloadEvent(u) PROVE DownloadBounds'
<1>1. met' \subseteq DownloadOps /\ downloads' = downloads
  BY DEF DownloadEvent, DownloadBounds
<1>2. ASSUME NEW o \in DownloadOps, transfer'[o].at # "item" PROVE Nothing(transfer'[o])
  <2>1. transfer[o] \in Transfer
    BY DEF DownloadInv, DownloadKinds
  <2>2. CASE transfer[o].at = "await"
    <3>1. transfer'[o] = [transfer[o] EXCEPT !.at = "failure", !.got = u]
      BY <2>2 DEF DownloadEvent
    <3> QED BY <2>1, <2>2, <3>1 DEF DownloadBounds, Nothing, Transfer
  <2>3. CASE transfer[o].at # "await"
    <3>1. transfer'[o] = transfer[o]
      BY <2>3 DEF DownloadEvent
    <3> QED BY <1>2, <3>1 DEF DownloadBounds
  <2> QED BY <2>2, <2>3
<1> QED BY <1>1, <1>2 DEF DownloadBounds

\* So no step exceeds them.
LEMMA DownloadBoundsKept ==
  ASSUME DownloadInv, DownloadBounds, [DownloadNext]_downloadVars
  PROVE  DownloadBounds'
<1>1. CASE UNCHANGED downloadVars
  BY <1>1 DEF downloadVars, DownloadBounds
<1>2. CASE Millisecond
  BY <1>2 DEF Millisecond, DownloadBounds
<1>3. ASSUME NEW o \in DownloadOps, Fetched(o) PROVE DownloadBounds'
  BY <1>3, DeliverBounds DEF Fetched
<1>4. ASSUME NEW o \in DownloadOps, TransferFails(o) PROVE DownloadBounds'
  BY <1>4, ErrsBounds DEF TransferFails
<1>5. ASSUME NEW o \in DownloadOps, NEW found, MediaFound(o, found) PROVE DownloadBounds'
  BY <1>5, GoesOnBounds DEF MediaFound
<1>6. ASSUME NEW o \in DownloadOps, NEW succeeds, ScrapeItem(o, succeeds) PROVE DownloadBounds'
  BY <1>6, GoesOnBounds DEF ScrapeItem
<1> QED BY <1>1, <1>2, <1>3, <1>4, <1>5, <1>6, BeginsBounds, MovesOnBounds, ReadBounds, EventBounds DEF DownloadNext

\* Commands, files, temporary paths and the download a page waits with keep their types; only a
\* scrape in the middle of its list has one.
THEOREM DownloadTypes == DownloadSpec => []DownloadTypeOK
<1>1. DownloadInit => DownloadBounds
  <2> SUFFICES ASSUME DownloadInit PROVE DownloadBounds
    OBVIOUS
  <2>1. MaxDownloads \in Nat
    BY DownloadAssumption
  <2>2. \A o \in DownloadOps : Nothing(transfer[o])
    BY NothingYet DEF DownloadInit
  <2> QED BY <2>1, <2>2 DEF DownloadInit, DownloadBounds
<1>2. DownloadInv /\ DownloadBounds /\ [DownloadNext]_downloadVars => DownloadBounds'
  BY DownloadBoundsKept
<1>3. DownloadInv /\ DownloadBounds => DownloadTypeOK
  <2> SUFFICES ASSUME DownloadInv, DownloadBounds PROVE DownloadTypeOK
    OBVIOUS
  <2>1. ASSUME NEW o \in DownloadOps
        PROVE  /\ transfer[o].at \in Places
               /\ Len(transfer[o].files) <= Len(transfer[o].list) /\ Len(transfer[o].list) <= Limit
    <3>1. transfer[o] \in Transfer /\ Shape(transfer[o], result[o])
      BY DEF DownloadInv, DownloadKinds
    <3>2. PICK lines \in Seq(Entry), list \in Seq(Sources) : lines = transfer[o].files /\ list = transfer[o].list
      BY <3>1 DEF Transfer
    <3>3. Len(lines) \in Nat /\ Len(list) \in Nat
      BY <3>2
    <3>4. CASE transfer[o].at = "item"
      BY <3>1, <3>2, <3>3, <3>4 DEF Shape, Entries, Transfer
    <3>5. CASE transfer[o].at # "item"
      <4>1. Len(lines) = 0 /\ Len(list) = 0
        BY <3>2, <3>5 DEF DownloadBounds, Nothing
      <4> QED BY <3>1, <3>2, <4>1, DownloadNumbers DEF Transfer
    <3> QED BY <3>4, <3>5
  <2> QED BY <2>1 DEF DownloadInv, DownloadKinds, DownloadBounds, DownloadTypeOK, Places
<1> QED BY <1>1, <1>2, <1>3, DownloadInvariance, PTL DEF DownloadSpec
=============================================================================
