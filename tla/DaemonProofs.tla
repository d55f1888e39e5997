----------------------------- MODULE DaemonProofs -----------------------------
(* Proofs about the start of the daemon and about its tunnel.                *)
EXTENDS EnsureServer, Tunnel, Integers, SequenceTheorems, TLAPS

-----------------------------------------------------------------------------
(* EnsureServer, for any number of commands and daemons: the lock is         *)
(* exclusive until one of its files is taken from a live command, and a      *)
(* command that ends by itself leaves no lock file behind.                   *)

\* What the invariant needs of the types.
LockTypes == /\ lockFile \in [by : Clis \cup {"nobody"}, written : BOOLEAN]
             /\ pc \in [Clis -> Ended \cup Inside \cup {"start", "check", "lock", "writing",
                                                       "inspect", "unlink", "wait", "connected"}]
             /\ holds \in [Clis -> BOOLEAN]
             /\ robbed \in BOOLEAN

\* Until a lock is robbed, a holder's file is there with its pid, and so is the
\* empty file of a command that is about to write its pid.
FileIsTheLock ==
  ~robbed => \A c \in Clis : holds[c] \/ pc[c] = "writing" => lockFile.by = c

\* Only commands inside hold the lock.
HoldersAreInside == \A c \in Clis : holds[c] => pc[c] \in Inside

\* The creator of the lock file is about to write its pid, holds it, or was killed.
CreatorHolds ==
  \A c \in Clis : lockFile.by = c => pc[c] \in {"writing", "crashed"} \/ holds[c]

\* Nobody creates a file with a pid in it.
NobodyIsNoLock == lockFile.by = "nobody" => lockFile = NoLock

\* The inductive invariant.
LockInv == /\ LockTypes /\ FileIsTheLock /\ HoldersAreInside
           /\ CreatorHolds /\ NobodyIsNoLock

\* The invariant holds initially.
LEMMA LockInitInv == Init => LockInv
<1> SUFFICES ASSUME Init PROVE LockInv
  OBVIOUS
<1>1. /\ lockFile = NoLock /\ robbed = FALSE
      /\ pc = [c \in Clis |-> "start"] /\ holds = [c \in Clis |-> FALSE]
  BY DEF Init
<1>2. LockTypes
  BY <1>1 DEF LockTypes, NoLock
<1>3. HoldersAreInside
  BY <1>1 DEF HoldersAreInside
<1>4. FileIsTheLock
  BY <1>1 DEF FileIsTheLock
<1>5. CreatorHolds /\ NobodyIsNoLock
  BY <1>1, NobodyIsNoCli DEF CreatorHolds, NobodyIsNoLock, NoLock
<1> QED  BY <1>2, <1>3, <1>4, <1>5 DEF LockInv

\* A step of c between places outside, or between places inside, that leaves the
\* lock alone.
LEMMA LockMoveInv ==
  ASSUME LockInv, NEW c \in Clis, NEW from, NEW to,
         Goto(c, from, to), UNCHANGED <<lockFile, holds, robbed>>,
         \/ from \in Inside /\ to \in Inside
         \/ /\ from \notin Inside \cup {"writing", "crashed"}
            /\ to \in Ended \cup Inside \cup {"check", "lock", "inspect", "unlink", "wait",
                                              "connected"}
  PROVE  LockInv'
<1>1. pc' = [pc EXCEPT ![c] = to] /\ pc[c] = from
  BY DEF Goto
<1>2. to # "writing" /\ pc[c] # "writing" /\ pc[c] # "crashed"
  BY <1>1 DEF Inside, Ended
<1>3. LockTypes'
  BY <1>1 DEF LockInv, LockTypes
<1>4. holds[c] => to \in Inside
  BY <1>1 DEF LockInv, HoldersAreInside
<1> QED
  BY <1>1, <1>2, <1>3, <1>4
     DEF LockInv, LockTypes, FileIsTheLock, HoldersAreInside, CreatorHolds, NobodyIsNoLock

\* A step of c by which it leaves the inside, or stops to wait.
LEMMA LockLeaveInv ==
  ASSUME LockInv, NEW c \in Clis, NEW from \in Inside \cup {"wait"},
         NEW to \in {"connected", "failed"}, Goto(c, from, to), Leave(c)
  PROVE  LockInv'
<1>1. /\ pc' = [pc EXCEPT ![c] = to] /\ pc[c] = from
      /\ pc[c] # "writing" /\ pc[c] # "crashed" /\ to # "writing"
  BY DEF Goto, Inside
<1>2. /\ holds' = [holds EXCEPT ![c] = FALSE]
      /\ lockFile' = IF holds[c] THEN NoLock ELSE lockFile
      /\ robbed' = (robbed \/ (holds[c] /\ lockFile # NoLock /\ lockFile.by # c))
  BY DEF Leave
<1>3. LockTypes'
  BY <1>1, <1>2 DEF LockInv, LockTypes, NoLock, Ended
<1>4. HoldersAreInside' /\ NobodyIsNoLock'
  BY <1>1, <1>2, NobodyIsNoCli DEF LockInv, LockTypes, HoldersAreInside, NobodyIsNoLock, NoLock
<1>5. CreatorHolds'
  BY <1>1, <1>2, NobodyIsNoCli DEF LockInv, LockTypes, CreatorHolds, NoLock
<1>6. FileIsTheLock'
  <2> SUFFICES ASSUME ~robbed', NEW d \in Clis, holds'[d] \/ pc'[d] = "writing"
               PROVE  lockFile'.by = d
    BY DEF FileIsTheLock
  <2>1. d # c /\ (holds[d] \/ pc[d] = "writing")
    BY <1>1, <1>2 DEF LockInv, LockTypes
  <2>2. ~robbed /\ lockFile.by = d
    BY <1>2, <2>1 DEF LockInv, FileIsTheLock
  <2>3. ~holds[c]
    BY <2>1, <2>2 DEF LockInv, FileIsTheLock
  <2> QED  BY <1>2, <2>2, <2>3
<1> QED  BY <1>3, <1>4, <1>5, <1>6 DEF LockInv

\* Every step preserves the invariant.
LEMMA LockStepInv == LockInv /\ [Next]_vars => LockInv'
<1> SUFFICES ASSUME LockInv, [Next]_vars PROVE LockInv'
  OBVIOUS
<1> USE DEF files, daemons, local
<1>1. ASSUME NEW c \in Clis, ReadState(c) \/ UseRunning(c) \/ BinaryUpdated(c) \/ NotHealthy(c)
      PROVE  LockInv'
  BY <1>1, LockMoveInv DEF ReadState, UseRunning, BinaryUpdated, NotHealthy, Inside, Ended
<1>2. ASSUME NEW c \in Clis, LockExists(c) \/ FoundHeld(c) \/ FoundStale(c) \/ Restart(c)
      PROVE  LockInv'
  BY <1>2, LockMoveInv DEF LockExists, FoundHeld, FoundStale, Restart, Inside, Ended
<1>3. ASSUME NEW c \in Clis, Refuses(c) \/ Answered(c) \/ CommandFails(c)
      PROVE  LockInv'
  BY <1>3, LockMoveInv DEF Refuses, Answered, CommandFails, End, Inside, Ended
<1>4. ASSUME NEW c \in Clis, StillDown(c) \/ KillOld(c) \/ Launch(c)
      PROVE  LockInv'
  BY <1>4, LockMoveInv DEF StillDown, KillOld, Launch, Inside
<1>5. ASSUME NEW c \in Clis, StartedMeanwhile(c) \/ Polled(c) \/ PollTimesOut(c)
      PROVE  LockInv'
  BY <1>5, LockLeaveInv DEF StartedMeanwhile, Polled, PollTimesOut, End, Inside
<1>6. ASSUME NEW c \in Clis, CreateLock(c)
      PROVE  LockInv'
  <2>1. /\ pc[c] = "lock" /\ pc' = [pc EXCEPT ![c] = "writing"]
        /\ lockFile = NoLock /\ lockFile' = [by |-> c, written |-> FALSE]
        /\ UNCHANGED <<holds, robbed>>
    BY <1>6 DEF CreateLock, Goto
  <2>2. LockTypes' /\ NobodyIsNoLock'
    BY <2>1, NobodyIsNoCli DEF LockInv, LockTypes, NobodyIsNoLock
  <2>3. ~holds[c]
    BY <2>1 DEF LockInv, HoldersAreInside, Inside
  <2>4. HoldersAreInside' /\ CreatorHolds'
    BY <2>1, <2>3 DEF LockInv, LockTypes, HoldersAreInside, CreatorHolds
  <2>5. FileIsTheLock'
    <3>1. ~robbed => \A d \in Clis : ~holds[d] /\ pc[d] # "writing"
      BY <2>1, NobodyIsNoCli DEF LockInv, FileIsTheLock, NoLock
    <3> QED  BY <2>1, <3>1 DEF LockInv, LockTypes, FileIsTheLock
  <2> QED  BY <2>2, <2>4, <2>5 DEF LockInv
<1>7. ASSUME NEW c \in Clis, WritePid(c)
      PROVE  LockInv'
  <2>1. /\ pc[c] = "writing" /\ pc' = [pc EXCEPT ![c] = "recheck"]
        /\ lockFile' = IF lockFile.by = c THEN [by |-> c, written |-> TRUE] ELSE lockFile
        /\ holds' = [holds EXCEPT ![c] = TRUE]
        /\ UNCHANGED robbed
    BY <1>7 DEF WritePid, Goto
  <2>2. LockTypes' /\ NobodyIsNoLock' /\ lockFile'.by = lockFile.by
    BY <2>1, NobodyIsNoCli DEF LockInv, LockTypes, NobodyIsNoLock, Inside
  <2>3. HoldersAreInside' /\ CreatorHolds'
    BY <2>1, <2>2 DEF LockInv, LockTypes, HoldersAreInside, CreatorHolds, Inside
  <2>4. FileIsTheLock'
    BY <2>1, <2>2 DEF LockInv, LockTypes, FileIsTheLock
  <2> QED  BY <2>2, <2>3, <2>4 DEF LockInv
<1>8. ASSUME NEW c \in Clis, RemoveStale(c)
      PROVE  LockInv'
  <2>1. PICK to \in {"wait", "lock"} : pc[c] = "unlink" /\ pc' = [pc EXCEPT ![c] = to]
    BY <1>8 DEF RemoveStale, Goto
  <2>2. /\ lockFile' = NoLock
        /\ robbed' = (robbed \/ (lockFile # NoLock /\ pc[lockFile.by] # "crashed"))
        /\ UNCHANGED holds
    BY <1>8 DEF RemoveStale
  <2>3. LockTypes' /\ NobodyIsNoLock'
    BY <2>1, <2>2 DEF LockInv, LockTypes, NobodyIsNoLock, NoLock
  <2>4. HoldersAreInside' /\ CreatorHolds'
    BY <2>1, <2>2, NobodyIsNoCli
       DEF LockInv, LockTypes, HoldersAreInside, CreatorHolds, Inside, NoLock
  <2>5. FileIsTheLock'
    <3> SUFFICES ASSUME ~robbed', NEW d \in Clis, holds'[d] \/ pc'[d] = "writing"
                 PROVE  FALSE
      BY DEF FileIsTheLock
    <3>1. holds[d] \/ pc[d] = "writing"
      BY <2>1, <2>2 DEF LockInv, LockTypes
    <3>2. ~robbed /\ lockFile.by = d
      BY <2>2, <3>1 DEF LockInv, FileIsTheLock
    <3>3. lockFile # NoLock
      BY <3>2, NobodyIsNoCli DEF NoLock
    <3>4. pc[d] # "crashed"
      BY <3>1 DEF LockInv, HoldersAreInside, Inside
    <3> QED  BY <2>2, <3>2, <3>3, <3>4
  <2> QED  BY <2>3, <2>4, <2>5 DEF LockInv
<1>9. ASSUME NEW c \in Clis, CliCrashes(c)
      PROVE  LockInv'
  <2>1. /\ pc' = [pc EXCEPT ![c] = "crashed"]
        /\ holds' = [holds EXCEPT ![c] = FALSE]
        /\ UNCHANGED <<lockFile, robbed>>
    BY <1>9 DEF CliCrashes, End, Goto
  <2> QED
    BY <2>1 DEF LockInv, LockTypes, FileIsTheLock, HoldersAreInside, CreatorHolds,
                NobodyIsNoLock, Ended
<1>10. CASE UNCHANGED <<pc, lockFile, holds, robbed>>
  BY <1>10 DEF LockInv, LockTypes, FileIsTheLock, HoldersAreInside, CreatorHolds, NobodyIsNoLock
<1>11. ASSUME NEW s \in Server, Publish(s) \/ Close(s) \/ Die(s)
       PROVE  UNCHANGED <<pc, lockFile, holds, robbed>>
  BY <1>11 DEF Publish, Close, Die
<1>12. Update => UNCHANGED <<pc, lockFile, holds, robbed>>
  BY DEF Update
<1>13. UNCHANGED vars => UNCHANGED <<pc, lockFile, holds, robbed>>
  BY DEF vars
<1> QED
  BY <1>1, <1>2, <1>3, <1>4, <1>5, <1>6, <1>7, <1>8, <1>9, <1>10, <1>11, <1>12, <1>13
     DEF Next, CliStep

\* The invariant of the lock.
THEOREM LockInvariance == Spec => []LockInv
<1> QED  BY LockInitInv, LockStepInv, PTL DEF Spec

\* Two commands are under the lock only after the lock file of a live one was
\* removed, whatever crashes and however their system calls interleave.
THEOREM Exclusion == Spec => []ExclusiveUntilRobbed
<1>1. LockInv => ExclusiveUntilRobbed
  BY DEF LockInv, FileIsTheLock, ExclusiveUntilRobbed, LockExcludes
<1> QED  BY <1>1, LockInvariance, PTL

\* Only a command that was killed leaves its lock file behind.
THEOREM LockIsReleased == Spec => []NoLockLeftBehind
<1>1. LockInv => NoLockLeftBehind
  <2> SUFFICES ASSUME LockInv, lockFile # NoLock
               PROVE  pc[lockFile.by] \in Inside \cup {"writing", "crashed"}
    BY DEF NoLockLeftBehind
  <2>1. lockFile.by \in Clis
    BY DEF LockInv, LockTypes, NobodyIsNoLock
  <2> QED  BY <2>1 DEF LockInv, CreatorHolds, HoldersAreInside
<1> QED  BY <1>1, LockInvariance, PTL

-----------------------------------------------------------------------------

\* The rest of the types: what commands know, and the daemons.
DaemonTypes == /\ stateFile \in ServerOrNone
               /\ servers \in [Server -> {"off", "starting", "up", "closing"}]
               /\ outdated \subseteq Server
               /\ seen \in [Clis -> ServerOrNone] /\ conn \in [Clis -> ServerOrNone]
               /\ retries \in [Clis -> 0 .. 1]
               /\ \A c \in Clis : pc[c] = "connected" => conn[c] # 0

\* Every step keeps them: a command connects only to a daemon that a file named.
LEMMA DaemonStep == LockTypes /\ DaemonTypes /\ [Next]_vars => DaemonTypes'
<1> SUFFICES ASSUME LockTypes, DaemonTypes, [Next]_vars PROVE DaemonTypes'
  OBVIOUS
<1> USE DEF files, daemons, local
<1>0. 0 \in ServerOrNone /\ Server \subseteq ServerOrNone /\ 0 \notin Server
  BY MaxServersIsPos DEF Server, ServerOrNone
<1>1. ASSUME NEW c \in Clis,
             \/ BinaryUpdated(c) \/ NotHealthy(c) \/ CreateLock(c) \/ LockExists(c)
             \/ WritePid(c) \/ FoundHeld(c) \/ FoundStale(c) \/ RemoveStale(c) \/ StillDown(c)
      PROVE  DaemonTypes'
  <2>1. UNCHANGED <<stateFile, servers, outdated, seen, conn, retries>>
    BY <1>1 DEF BinaryUpdated, NotHealthy, CreateLock, LockExists, WritePid, FoundHeld,
                FoundStale, RemoveStale, StillDown
  <2>2. PICK to : to # "connected" /\ pc' = [pc EXCEPT ![c] = to]
    BY <1>1 DEF BinaryUpdated, NotHealthy, CreateLock, LockExists, WritePid, FoundHeld,
                FoundStale, RemoveStale, StillDown, Goto
  <2> QED  BY <2>1, <2>2 DEF DaemonTypes, LockTypes
<1>2. ASSUME NEW c \in Clis, ReadState(c) \/ Restart(c)
      PROVE  DaemonTypes'
  BY <1>0, <1>2 DEF ReadState, Restart, Goto, DaemonTypes, LockTypes
<1>3. ASSUME NEW c \in Clis, UseRunning(c) \/ StartedMeanwhile(c) \/ Polled(c)
      PROVE  DaemonTypes'
  <2>1. PICK s \in Server : conn' = [conn EXCEPT ![c] = s]
    BY <1>3 DEF UseRunning, StartedMeanwhile, Polled, MayBeHealthy
  <2>2. /\ pc' = [pc EXCEPT ![c] = "connected"]
        /\ UNCHANGED <<stateFile, servers, outdated, seen, retries>>
    BY <1>3 DEF UseRunning, StartedMeanwhile, Polled, Goto
  <2> QED  BY <1>0, <2>1, <2>2 DEF DaemonTypes, LockTypes
<1>4. ASSUME NEW c \in Clis, \/ Refuses(c) \/ PollTimesOut(c) \/ Answered(c)
                             \/ CommandFails(c) \/ CliCrashes(c)
      PROVE  DaemonTypes'
  <2>1. PICK how \in Ended : /\ pc' = [pc EXCEPT ![c] = how]
                             /\ seen' = [seen EXCEPT ![c] = 0]
                             /\ conn' = [conn EXCEPT ![c] = 0]
                             /\ retries' = [retries EXCEPT ![c] = 0]
    BY <1>4 DEF Refuses, PollTimesOut, Answered, CommandFails, CliCrashes, End, Goto, Ended
  <2>2. UNCHANGED <<stateFile, servers, outdated>>
    BY <1>4 DEF Refuses, PollTimesOut, Answered, CommandFails, CliCrashes
  <2> QED  BY <1>0, <2>1, <2>2 DEF DaemonTypes, LockTypes, Ended
<1>5. ASSUME NEW c \in Clis, KillOld(c) \/ Launch(c)
      PROVE  DaemonTypes'
  <2>1. stateFile' \in {stateFile, 0}
    BY <1>5 DEF KillOld, Launch
  <2>2. /\ servers' \in [Server -> {"off", "starting", "up", "closing"}]
        /\ seen' \in [Clis -> ServerOrNone]
        /\ UNCHANGED <<outdated, conn, retries>>
    BY <1>0, <1>5 DEF KillOld, Launch, DaemonTypes
  <2>3. PICK to \in {"launch", "poll"} : pc' = [pc EXCEPT ![c] = to]
    BY <1>5 DEF KillOld, Launch, Goto
  <2> QED  BY <1>0, <2>1, <2>2, <2>3 DEF DaemonTypes, LockTypes
<1>6. ASSUME NEW s \in Server, Publish(s) \/ Close(s) \/ Die(s)
      PROVE  DaemonTypes'
  BY <1>0, <1>6 DEF Publish, Close, Die, DaemonTypes
<1>7. CASE Update
  BY <1>7 DEF Update, DaemonTypes
<1>8. CASE UNCHANGED vars
  BY <1>8 DEF vars, DaemonTypes
<1> QED
  BY <1>1, <1>2, <1>3, <1>4, <1>5, <1>6, <1>7, <1>8 DEF Next, CliStep

\* Every variable keeps its type, and a connected command knows its daemon.
THEOREM EnsureTypes == Spec => []TypeOK
<1>1. Init => DaemonTypes
  BY MaxServersIsPos DEF Init, DaemonTypes, Server, ServerOrNone
<1>2. LockInv => LockTypes
  BY DEF LockInv
<1>3. LockTypes /\ DaemonTypes => TypeOK
  BY DEF LockTypes, DaemonTypes, TypeOK
<1> QED  BY <1>1, <1>2, <1>3, DaemonStep, LockInvariance, PTL DEF Spec

-----------------------------------------------------------------------------
(* Tunnel: the invariant behind NoLeakAlone and NoStrayForward.  Neither is  *)
(* inductive: what a request may do next depends on which of the module      *)
(* variables can still be set while it awaits, which is what Stage says of   *)
(* the one request that is under way.                                        *)

\* Two requests are under way only after an overlap.
OneAtATime == \A q, r \in Requests : q = r \/ req[q] = Idle \/ req[r] = Idle

\* What a request that runs alone may find in the variables when it goes on.
Stage(r) ==
  /\ req[r].at = "idle" => req[r] = Idle
  /\ req[r].at \in {"probe", "close", "bind"} => req[r].own = 0
  /\ req[r].at \in {"probe", "bind", "forward"} => req[r].closing = 0
  /\ req[r].at = "close" => req[r].closing = tunnelListener
  /\ req[r].at \in {"bind", "forward"} => tunnelListener = 0 /\ tunnelServer = 0
  /\ req[r].at = "forward" => req[r].own \in bound
  /\ req[r].at = "cleanup" => /\ req[r].closing = req[r].own
                              /\ tunnelListener = req[r].own
                              /\ tunnelServer \in {0, req[r].own}

\* Without a request in its cleanup, a session is registered with its listener.
Paired == tunnelListener \in {0, tunnelServer} \/ \E r \in Requests : req[r].at = "cleanup"

\* The daemon knows what it has open.
Owned == /\ sessions \subseteq {tunnelListener}
         /\ sessions \subseteq bound
         /\ \A b \in bound : b = tunnelServer \/ \E r \in Requests : req[r].own = b

\* Until requests overlap, all of it holds.
Alone == ~overlapped => /\ OneAtATime
                        /\ \A r \in Requests : Stage(r)
                        /\ Paired
                        /\ Owned

\* A start that asks ngrok to forward has bound its listener.
Bound == \A r \in Requests : req[r].at = "forward" => req[r].own \in Id

\* The inductive invariant.
TunnelInv == TunnelTypeOK /\ Bound /\ Alone

\* The invariant holds initially.
LEMMA TunnelInitInv == TunnelInit => TunnelInv
<1> SUFFICES ASSUME TunnelInit PROVE TunnelInv
  OBVIOUS
<1> USE DEF TunnelInit, Idle, Request, IdOrNone, Id
<1>1. /\ req \in [Requests -> Request]
      /\ \A r \in Requests : /\ req[r].at \in {"idle", "bind"}
                             /\ req[r].own = 0 /\ req[r].closing = 0
                             /\ req[r].at = "idle" => req[r] = Idle
  <2>1. CASE req = [r \in Requests |-> Idle] BY <2>1
  <2>2. ASSUME NEW boot \in Requests,
               req = [r \in Requests |-> IF r = boot THEN [Idle EXCEPT !.at = "bind", !.op = "start"]
                                                     ELSE Idle]
        PROVE /\ req \in [Requests -> Request]
              /\ \A r \in Requests : /\ req[r].at \in {"idle", "bind"}
                                     /\ req[r].own = 0 /\ req[r].closing = 0
                                     /\ req[r].at = "idle" => req[r] = Idle
    BY <2>2
  <2> QED BY <2>1, <2>2
<1>2. TunnelTypeOK BY <1>1 DEF TunnelTypeOK
<1>3. OneAtATime
  <2>1. CASE req = [r \in Requests |-> Idle] BY <2>1 DEF OneAtATime
  <2>2. ASSUME NEW boot \in Requests,
               req = [r \in Requests |-> IF r = boot THEN [Idle EXCEPT !.at = "bind", !.op = "start"]
                                                     ELSE Idle]
        PROVE OneAtATime
    BY <2>2 DEF OneAtATime
  <2> QED BY <2>1, <2>2
<1> QED BY <1>1, <1>2, <1>3 DEF TunnelInv, Bound, Alone, Stage, Paired, Owned

\* Every step keeps the types.
LEMMA TypesKept ==
  TunnelTypeOK /\ Bound /\ [TunnelNext]_tunnelVars => TunnelTypeOK' /\ Bound'
<1> SUFFICES ASSUME TunnelTypeOK, Bound, [TunnelNext]_tunnelVars
             PROVE  TunnelTypeOK' /\ Bound'
  OBVIOUS
<1>0. 0 \notin Id BY DEF Id
<1> USE <1>0 DEF TunnelTypeOK, Bound, IdOrNone, registered
<1>1. ASSUME NEW r \in Requests, NEW op \in {"pair", "start"}, Probe(r, op)
      PROVE TunnelTypeOK' /\ Bound'
  BY <1>1 DEF Probe, Begin, Idle, Request
<1>2. ASSUME NEW r \in Requests, FindsNone(r) PROVE TunnelTypeOK' /\ Bound'
  BY <1>2 DEF FindsNone, Begin, Idle, Request
<1>3. ASSUME NEW r \in Requests, Step(r) PROVE TunnelTypeOK' /\ Bound'
  <2>1. CASE ProbeOk(r) BY <2>1 DEF ProbeOk, Ends, Idle, Request
  <2>2. CASE ProbeFails(r) BY <2>2, ZenonT(30) DEF ProbeFails, Request
  <2>3. CASE ProbeFailsAtOnce(r)
    BY <2>3, ZenonT(30) DEF ProbeFailsAtOnce, Cleared, Closed, Idle, Request
  <2>4. CASE SessionCloses(r) BY <2>4, ZenonT(30) DEF SessionCloses, Cleared, Closed, Idle, Request
  <2>5. CASE Bind(r)
    <3>1. made' = made + 1 /\ made + 1 \in Id BY <2>5, MaxTunnelsIsNat DEF Bind, Id
    <3>2. [req[r] EXCEPT !.at = "forward", !.own = made + 1] \in Request
      BY <3>1 DEF Request
    <3>3. req' = [req EXCEPT ![r] = [req[r] EXCEPT !.at = "forward", !.own = made + 1]]
      BY <2>5 DEF Bind
    <3>4. req' \in [Requests -> Request] BY <3>2, <3>3
    <3>5. Bound' BY <2>5, <3>1, <3>4 DEF Bind
    <3> QED BY <2>5, <3>1, <3>4, <3>5 DEF Bind
  <2>6. CASE BindFails(r) BY <2>6 DEF BindFails, Ends, Idle, Request
  <2>7. CASE Forwarded(r)
    <3>1. req' \in [Requests -> Request] /\ Bound'
      BY <2>7 DEF Forwarded, Ends, Idle, Request
    <3>2. req[r].own \in Id BY <2>7 DEF Forwarded, Registers
    <3> QED BY <2>7, <3>1, <3>2 DEF Forwarded, Registers
  <2>8. CASE StateFileFails(r)
    <3>1. req[r].own \in Id BY <2>8 DEF StateFileFails, Registers
    <3>2. req' \in [Requests -> Request] /\ Bound'
      BY <2>8, <3>1, ZenonT(30) DEF StateFileFails, Request
    <3> QED BY <2>8, <3>1, <3>2 DEF StateFileFails, Registers
  <2>9. CASE UrlFails(r) BY <2>9, ZenonT(30) DEF UrlFails, Request
  <2>10. CASE ForwardFails(r) BY <2>10, ZenonT(30) DEF ForwardFails, Request
  <2>11. CASE ForwardFailsAtOnce(r) BY <2>11 DEF ForwardFailsAtOnce, Ends, Idle, Request
  <2>12. CASE CleansUp(r) BY <2>12 DEF CleansUp, Ends, Idle, Request
  <2> QED
    BY <1>3, <2>1, <2>2, <2>3, <2>4, <2>5, <2>6, <2>7, <2>8, <2>9, <2>10, <2>11, <2>12 DEF Step
<1>4. ASSUME NEW s \in Id, TunnelDies(s) PROVE TunnelTypeOK' /\ Bound'
  BY <1>4 DEF TunnelDies
<1>5. CASE UNCHANGED tunnelVars BY <1>5 DEF tunnelVars
<1> QED BY <1>1, <1>2, <1>3, <1>4, <1>5 DEF TunnelNext

\* The step of the one request that is under way changes its own record only.
LEMMA OthersIdle ==
  ASSUME TunnelTypeOK, OneAtATime, NEW r \in Requests, req[r] # Idle,
         NEW x, req' = [req EXCEPT ![r] = x]
  PROVE  /\ OneAtATime'
         /\ req'[r] = x
         /\ \A q \in Requests \ {r} : req'[q] = Idle /\ req[q] = Idle
BY DEF TunnelTypeOK, OneAtATime

\* Every step keeps the invariant of requests that run alone.
LEMMA AloneKept == TunnelInv /\ [TunnelNext]_tunnelVars => Alone'
<1> SUFFICES ASSUME TunnelInv, [TunnelNext]_tunnelVars, ~overlapped' PROVE Alone'
  BY DEF Alone
<1>0. TunnelTypeOK /\ Bound /\ TunnelTypeOK'
  BY TypesKept DEF TunnelInv
<1>1. ~overlapped
  BY DEF TunnelNext, tunnelVars, Probe, FindsNone, Begin, Step, ProbeOk, ProbeFails, ProbeFailsAtOnce,
         SessionCloses, Bind, BindFails, Forwarded, StateFileFails, Registers, UrlFails,
         ForwardFails, ForwardFailsAtOnce, CleansUp, TunnelDies
<1>2. OneAtATime /\ (\A r \in Requests : Stage(r)) /\ Paired /\ Owned
  BY <1>1 DEF TunnelInv, Alone
<1> DEFINE Starts(r, x) ==
             /\ Begin(r)
             /\ x.at \in {"probe", "bind"} /\ x.own = 0 /\ x.closing = 0
             /\ req' = [req EXCEPT ![r] = x]
             /\ x.at = "bind" => ~(tunnelActive /\ tunnelUrl # 0 /\ tunnelServer # 0)
             /\ UNCHANGED <<registered, bound, sessions>>
<1>3. ASSUME NEW r \in Requests, NEW x, Starts(r, x)
      PROVE Alone'
  <2>1. \A q \in Requests : req[q] = Idle
    BY <1>3 DEF Begin
  <2>2. \A q \in Requests \ {r} : req'[q] = Idle
    BY <1>0, <1>3, <2>1 DEF TunnelTypeOK
  <2>3. req'[r] = x
    BY <1>0, <1>3 DEF TunnelTypeOK
  <2>4. x.at = "bind" => tunnelServer = 0 /\ tunnelListener = 0
    BY <1>0, <1>2, <1>3, <2>1 DEF TunnelTypeOK, Paired, Idle
  <2>5. OneAtATime' BY <2>2 DEF OneAtATime
  <2>6. \A q \in Requests : Stage(q)'
    BY <1>3, <2>2, <2>3, <2>4 DEF Stage, Idle, registered
  <2>7. Paired' BY <1>2, <1>3, <2>1 DEF Paired, Idle, registered
  <2>8. Owned' BY <1>0, <1>2, <1>3, <2>1, <2>2, <2>3 DEF TunnelTypeOK, Owned, Idle, registered, Id
  <2> QED BY <2>5, <2>6, <2>7, <2>8 DEF Alone
<1>4. ASSUME NEW r \in Requests, NEW op \in {"pair", "start"}, Probe(r, op) PROVE Alone'
  <2>1. PICK x : /\ x = [Idle EXCEPT !.at = "probe", !.op = op, !.probed = tunnelUrl]
                 /\ req' = [req EXCEPT ![r] = x]
    BY <1>4 DEF Probe
  <2>2. /\ x.at \in {"probe", "bind"} /\ x.own = 0 /\ x.closing = 0
        /\ x.at = "bind" => ~(tunnelActive /\ tunnelUrl # 0 /\ tunnelServer # 0)
    BY <2>1 DEF Idle
  <2>3. Begin(r) /\ UNCHANGED <<registered, bound, sessions>>
    BY <1>4 DEF Probe
  <2>4. Starts(r, x) BY <2>1, <2>2, <2>3
  <2> HIDE DEF Starts
  <2> QED BY <1>3, <2>4
<1>5. ASSUME NEW r \in Requests, FindsNone(r) PROVE Alone'
  <2>1. PICK x : /\ x = [Idle EXCEPT !.at = "bind", !.op = "start"]
                 /\ req' = [req EXCEPT ![r] = x]
    BY <1>5 DEF FindsNone
  <2>2. /\ x.at \in {"probe", "bind"} /\ x.own = 0 /\ x.closing = 0
        /\ x.at = "bind" => ~(tunnelActive /\ tunnelUrl # 0 /\ tunnelServer # 0)
    BY <1>5, <2>1 DEF Idle, FindsNone
  <2>3. Begin(r) /\ UNCHANGED <<registered, bound, sessions>>
    BY <1>5 DEF FindsNone
  <2>4. Starts(r, x) BY <2>1, <2>2, <2>3
  <2> HIDE DEF Starts
  <2> QED BY <1>3, <2>4
<1>6. ASSUME NEW r \in Requests, Step(r) PROVE Alone'
  <2>0. req[r] # Idle
    BY <1>6 DEF Step, ProbeOk, ProbeFails, ProbeFailsAtOnce, SessionCloses, Bind, BindFails,
                Forwarded, StateFileFails, Registers, UrlFails, ForwardFails,
                ForwardFailsAtOnce, CleansUp, Idle
  <2>1. PICK x : req' = [req EXCEPT ![r] = x]
    BY <1>6 DEF Step, ProbeOk, ProbeFails, ProbeFailsAtOnce, SessionCloses, Bind, BindFails,
                Forwarded, StateFileFails, Registers, UrlFails, ForwardFails,
                ForwardFailsAtOnce, CleansUp, Ends, Closed
  <2>2. /\ OneAtATime'
        /\ req'[r] = x
        /\ \A q \in Requests \ {r} : req'[q] = Idle /\ req[q] = Idle
    BY <1>0, <1>2, <2>0, <2>1, OthersIdle
  <2>3. Stage(r) BY <1>2
  <2>4. /\ \A q \in Requests \ {r} : req[q].at = "idle" /\ req[q].own = 0
        /\ \A q \in Requests \ {r} : req'[q].at = "idle" /\ req'[q].own = 0
    BY <2>2 DEF Idle
  <2>5. /\ tunnelListener \in {0, tunnelServer} \/ req[r].at = "cleanup"
        /\ \A b \in bound : b = tunnelServer \/ req[r].own = b \/ b = 0
        /\ sessions \subseteq {tunnelListener} /\ sessions \subseteq bound
        /\ bound \subseteq Id /\ sessions \subseteq Id /\ 0 \notin Id
        /\ req[r] \in Request
    BY <1>0, <1>2, <2>4 DEF Paired, Owned, TunnelTypeOK, Id
  <2>6. SUFFICES /\ Stage(r)'
                 /\ tunnelListener' \in {0, tunnelServer'} \/ req'[r].at = "cleanup"
                 /\ \A b \in bound' : b = tunnelServer' \/ req'[r].own = b
                 /\ sessions' \subseteq {tunnelListener'} /\ sessions' \subseteq bound'
    <3>1. \A q \in Requests \ {r} : Stage(q)'
      BY <2>2, <2>4 DEF Stage, Idle
    <3> QED BY <2>2, <2>6, <3>1 DEF Alone, Paired, Owned
  <2> USE <2>2, <2>3, <2>5, <1>0 DEF Stage, registered, Request
  <2>7. CASE ProbeOk(r) BY <2>7 DEF ProbeOk, Ends, Idle, TunnelTypeOK
  <2>8. CASE ProbeFails(r) BY <2>8 DEF ProbeFails, TunnelTypeOK
  <2>9. CASE ProbeFailsAtOnce(r)
    <3>1. sessions' = {} /\ tunnelListener' = 0 /\ tunnelServer' = 0 /\ bound' = {}
      BY <2>9 DEF ProbeFailsAtOnce, Cleared
    <3>2. req'[r] = IF req[r].op = "pair" THEN Idle ELSE [req[r] EXCEPT !.at = "bind", !.closing = 0]
      BY <2>9 DEF ProbeFailsAtOnce, Closed, TunnelTypeOK
    <3>3. req[r].own = 0 BY <2>9 DEF ProbeFailsAtOnce
    <3> HIDE <2>2
    <3> QED BY <3>1, <3>2, <3>3 DEF Idle
  <2>10. CASE SessionCloses(r) BY <2>10 DEF SessionCloses, Cleared, Closed, Idle, TunnelTypeOK
  <2>11. CASE Bind(r) BY <2>11 DEF Bind, TunnelTypeOK
  <2>12. CASE BindFails(r) BY <2>12 DEF BindFails, Ends, Idle, TunnelTypeOK
  <2>13. CASE Forwarded(r)
    <3>1. req'[r] = Idle BY <2>13 DEF Forwarded, Ends, TunnelTypeOK
    <3>2. bound \subseteq {req[r].own} /\ sessions = {}
      BY <2>13 DEF Forwarded, Registers
    <3> QED BY <2>13, <3>1, <3>2 DEF Forwarded, Registers, Idle
  <2>14. CASE StateFileFails(r) BY <2>14 DEF StateFileFails, Registers, TunnelTypeOK, Bound
  <2>15. CASE UrlFails(r) BY <2>15 DEF UrlFails, TunnelTypeOK, Bound
  <2>16. CASE ForwardFails(r) BY <2>16 DEF ForwardFails
  <2>17. CASE ForwardFailsAtOnce(r) BY <2>17 DEF ForwardFailsAtOnce, Ends, Idle, TunnelTypeOK
  <2>18. CASE CleansUp(r) BY <2>18 DEF CleansUp, Ends, Idle, TunnelTypeOK
  <2> QED
    BY <1>6, <2>7, <2>8, <2>9, <2>10, <2>11, <2>12, <2>13, <2>14, <2>15, <2>16, <2>17, <2>18
    DEF Step
<1>7. ASSUME NEW s \in Id, TunnelDies(s) PROVE Alone'
  BY <1>2, <1>7 DEF TunnelDies, Alone, OneAtATime, Stage, Paired, Owned, registered
<1>8. CASE UNCHANGED tunnelVars
  BY <1>2, <1>8 DEF tunnelVars, registered, Alone, OneAtATime, Stage, Paired, Owned
<1> QED BY <1>4, <1>5, <1>6, <1>7, <1>8 DEF TunnelNext

\* The invariant holds in every behaviour.
THEOREM TunnelInvariance == TunnelSpec => []TunnelInv
<1>1. TunnelInv /\ [TunnelNext]_tunnelVars => TunnelInv'
  BY TypesKept, AloneKept DEF TunnelInv
<1> QED BY TunnelInitInv, <1>1, PTL DEF TunnelSpec

\* The four module variables keep their types, and URL, server and flag are
\* set and cleared together, whatever requests overlap.
THEOREM TunnelTypes == TunnelSpec => []TunnelTypeOK
<1>1. TunnelInv => TunnelTypeOK BY DEF TunnelInv
<1> QED BY <1>1, TunnelInvariance, PTL

\* Requests that come one at a time leak neither sessions nor listeners,
\* wherever they fail.
THEOREM NoLeaks == TunnelSpec => []NoLeakAlone
<1>1. TunnelInv => NoLeakAlone
  BY DEF TunnelInv, Alone, Owned, NoLeakAlone, Kept, Held
<1> QED BY <1>1, TunnelInvariance, PTL

\* And ngrok never forwards to a port that the daemon has closed.
THEOREM NoStrays == TunnelSpec => []NoStrayForward
<1>1. TunnelInv => NoStrayForward
  BY DEF TunnelInv, Alone, Owned, NoStrayForward
<1> QED BY <1>1, TunnelInvariance, PTL
=============================================================================
