----------------------------- MODULE ServiceProofs ----------------------------
(* Proofs about components that share no state: the runs of scripts, the     *)
(* life of the daemon process, the headed browser, the SOCKS bridge, the     *)
(* logs, and the activity stream.                                            *)
EXTENDS SkillRuns, DaemonLife, HeadedConnect, SocksBridge, LogBuffers, ActivityFeed,
        Integers, FiniteSetTheorems, SequenceTheorems, WellFoundedInduction, TLAPS

-----------------------------------------------------------------------------
(* SkillRuns: TokenGoesWithRun for any number of commands.  It is not        *)
(* inductive: that an answered run leaves no token needs to know that a run  *)
(* which drains has no timer any more, and that a command is back in hand    *)
(* exactly when its script is forgotten.                                     *)

\* Where a command stands tells what its script and its timer may do.
SpawnPhases ==
  \A s \in Spawns :
    /\ script[s] = "runs" => spawn[s] = "runs"
    /\ script[s] = "exited" => spawn[s] \in {"runs", "drains"}
    /\ spawn[s] \in {"runs", "drains"} => script[s] # "none"
    /\ s \in armed => spawn[s] = "runs"

SpawnInv == SpawnTypeOK /\ SpawnPhases /\ TokenGoesWithRun

\* Nothing runs and nothing is staged at first.
LEMMA SpawnInitInv == SpawnInit => SpawnInv
BY DEF SpawnInit, SpawnInv, SpawnTypeOK, SpawnPhases, TokenGoesWithRun, Tiers

\* The steps of the scripts, their pipes, timers and tokens keep the invariant.
LEMMA RunsKept ==
  ASSUME SpawnInv, NEW s \in Spawns,
         \/ Run(s) \/ ScriptExits(s) \/ PipeCloses(s) \/ RunTimesOut(s) \/ TtlEnds(s)
         \/ ExitSeen(s) \/ RunAnswers(s)
  PROVE  SpawnInv'
<1> USE DEF SpawnInv, SpawnTypeOK, SpawnPhases, TokenGoesWithRun, Storage
<1>1. CASE Run(s)
  BY <1>1 DEF Run, Becomes
<1>2. CASE ScriptExits(s)
  BY <1>2 DEF ScriptExits
<1>3. CASE PipeCloses(s)
  BY <1>3 DEF PipeCloses
<1>4. CASE RunTimesOut(s)
  BY <1>4 DEF RunTimesOut
<1>5. CASE TtlEnds(s)
  BY <1>5 DEF TtlEnds
<1>6. CASE ExitSeen(s)
  BY <1>6 DEF ExitSeen, Becomes
<1>7. CASE RunAnswers(s)
  BY <1>7 DEF RunAnswers, Becomes
<1> QED BY <1>1, <1>2, <1>3, <1>4, <1>5, <1>6, <1>7

\* So do staging, committing and removing a skill, which touch no run.
LEMMA StorageKept ==
  ASSUME SpawnInv, NEW s \in Spawns,
         \/ StageSkill(s) \/ StagedWhole(s) \/ DiscardStaged(s) \/ SessionGone(s)
         \/ \E t \in WritableTiers : CommitSkill(s, t)
         \/ \E to \in {"skill", "malformed"} : Renames(s, to)
  PROVE  SpawnInv'
<1> USE SkillRunAssumption
    DEF SpawnInv, SpawnTypeOK, SpawnPhases, TokenGoesWithRun, Storage, Running, Becomes
<1>1. CASE StageSkill(s)
  BY <1>1 DEF StageSkill
<1>2. CASE StagedWhole(s)
  BY <1>2 DEF StagedWhole
<1>3. CASE DiscardStaged(s)
  BY <1>3 DEF DiscardStaged
<1>4. CASE SessionGone(s)
  BY <1>4 DEF SessionGone
<1>5. ASSUME NEW t \in WritableTiers, CommitSkill(s, t) PROVE SpawnInv'
  BY <1>5 DEF CommitSkill
<1>6. ASSUME NEW to \in {"skill", "malformed"}, Renames(s, to) PROVE SpawnInv'
  BY <1>6 DEF Renames, Tiers
<1> QED BY <1>1, <1>2, <1>3, <1>4, <1>5, <1>6

\* Every step keeps the invariant.
LEMMA SpawnStepKept == SpawnInv /\ [SpawnNext]_spawnVars => SpawnInv'
<1> SUFFICES ASSUME SpawnInv, [SpawnNext]_spawnVars PROVE SpawnInv'
  OBVIOUS
<1>1. ASSUME NEW t \in WritableTiers, TombstoneBrowserSkill(t) PROVE SpawnInv'
  BY <1>1, SkillRunAssumption
  DEF SpawnInv, SpawnTypeOK, SpawnPhases, TokenGoesWithRun, TombstoneBrowserSkill, Running, Tiers
<1>2. ASSUME NEW ss \in SUBSET Spawns, RootRevokes(ss) PROVE SpawnInv'
  BY <1>2 DEF SpawnInv, SpawnTypeOK, SpawnPhases, TokenGoesWithRun, RootRevokes, Storage
<1>3. CASE UNCHANGED spawnVars
  BY <1>3 DEF spawnVars, SpawnInv, SpawnTypeOK, SpawnPhases, TokenGoesWithRun
<1> QED BY <1>1, <1>2, <1>3, RunsKept, StorageKept DEF SpawnNext

\* The invariant holds in every behaviour.
THEOREM SpawnInvariance == SpawnSpec => []SpawnInv
BY SpawnInitInv, SpawnStepKept, PTL DEF SpawnSpec

\* The token of a run is valid while its script runs in its time, and is gone when the run
\* has been answered (spawnSkill's finally), however many runs there are at once.
THEOREM TokenGoes == SpawnSpec => []TokenGoesWithRun
<1>1. SpawnInv => TokenGoesWithRun BY DEF SpawnInv
<1> QED BY <1>1, SpawnInvariance, PTL

\* Scripts, tiers and tokens of runs keep their types.
THEOREM SpawnTypes == SpawnSpec => []SpawnTypeOK
<1>1. SpawnInv => SpawnTypeOK BY DEF SpawnInv
<1> QED BY <1>1, SpawnInvariance, PTL

-----------------------------------------------------------------------------
(* DaemonLife: what the process leaves behind depends on the stage at which  *)
(* it ends, so the invariant says what there is at each stage; and a stopped *)
(* watch leaves no interval since watchInterval is set exactly while it      *)
(* watches.                                                                  *)

\* What is there at each stage of the process: before it ends no way out is recorded; the
\* Xvfb comes with its own two stages of the start; the state file is there from "up"
\* until "exiting" and says whether there is one.
LifeStages ==
  /\ life # "gone" => ended = <<"no", "port">>
  /\ life \in {"port", "upstream", "bridge", "display"} => xvfb = "none"
  /\ life = "probe" => xvfb = "probing"
  /\ life \in {"launch", "up", "closing", "exiting"} => xvfb \in {"none", "up"}
  /\ life \in Starting \cup {"exiting"} => published = "no"
  /\ life \in Starting => ~handedOff
  /\ life \in {"up", "closing"} => published = IF xvfb = "up" THEN "xvfb" ELSE "plain"
  /\ life \in {"closing", "exiting"} => ~termFiles /\ (unwritten => flushFailed)

\* watchInterval names an interval exactly while the daemon watches.
LifeWatches == watching <=> watchInterval # 0

\* The inductive invariant.
LifeInv == LifeTypeOK /\ LifeStages /\ LifeWatches /\ CleanExit /\ StopEndsTimers

\* It holds when the process starts.
LEMMA LifeInitInv == LifeInit => LifeInv
<1> SUFFICES ASSUME LifeInit PROVE LifeInv
  OBVIOUS
<1>1. LifeTypeOK
  <2>1. asked \in [headed : BOOLEAN, xvfb : BOOLEAN, socks : BOOLEAN, watched : BOOLEAN]
    BY DEF LifeInit
  <2>2. LifeFlags
    BY DEF LifeInit, LifeFlags
  <2>3. ended \in (Ways \cup {"no"}) \X (Starting \cup {"up", "closing", "exiting"})
    BY DEF LifeInit, Ways, Starting
  <2>4. watches \in 0..MaxWatches /\ watchInterval \in 0..watches
    BY LifeAssumption DEF LifeInit
  <2> QED BY <2>1, <2>2, <2>3, <2>4 DEF LifeInit, LifeTypeOK, Starting
<1>2. LifeStages /\ LifeWatches /\ CleanExit /\ StopEndsTimers
  BY DEF LifeInit, LifeStages, LifeWatches, CleanExit, StopEndsTimers, Starting
<1> QED BY <1>1, <1>2 DEF LifeInv

\* The steps of start() keep it.
LEMMA LifeStartKept ==
  ASSUME LifeInv,
         \/ PortFound \/ UpstreamTested \/ BridgeListens \/ XvfbSpawned \/ XvfbReady \/ Launched
         \/ StartFails
  PROVE  LifeInv'
<1> USE LifeAssumption
    DEF LifeInv, LifeTypeOK, LifeStages, LifeWatches, CleanExit, StopEndsTimers, Starting, Ways,
        envVars, watchVars
<1>1. CASE PortFound
  BY <1>1 DEF LifeFlags, PortFound, StartStep, AfterProxy
<1>2. CASE UpstreamTested
  BY <1>2 DEF LifeFlags, UpstreamTested, StartStep
<1>3. CASE BridgeListens
  BY <1>3 DEF LifeFlags, BridgeListens, StartStep, AfterProxy
<1>4. CASE XvfbSpawned
  BY <1>4 DEF LifeFlags, XvfbSpawned
<1>5. CASE XvfbReady
  BY <1>5 DEF LifeFlags, XvfbReady
<1>6. CASE Launched
  <2>a. asked.headed \in BOOLEAN
    OBVIOUS
  <2>b. headedMode' \in BOOLEAN
    BY <2>a, <1>6 DEF Launched
  <2>0. LifeFlags'
    BY <2>b, <1>6 DEF Launched, LifeFlags
  <2>1. LifeTypeOK'
    BY <2>0, <1>6 DEF Launched
  <2>2. LifeStages'
    BY <1>6 DEF Launched
  <2>3. LifeWatches'
    BY <1>6 DEF Launched
  <2>4. CleanExit'
    BY <1>6 DEF Launched
  <2>5. StopEndsTimers'
    BY <1>6 DEF Launched
  <2> QED BY <2>1, <2>2, <2>3, <2>4, <2>5
<1>7. CASE StartFails
  BY <1>7 DEF LifeFlags, StartFails
<1> QED BY <1>1, <1>2, <1>3, <1>4, <1>5, <1>6, <1>7

\* The ways out keep it.
LEMMA LifeEndKept ==
  ASSUME LifeInv,
         \/ Shutdown \/ CloseRaceEnds \/ ShutdownExits \/ BrowserCrashes \/ UncaughtError \/ Sigkill
  PROVE  LifeInv'
<1> USE LifeAssumption
    DEF LifeInv, LifeTypeOK, LifeStages, LifeWatches, CleanExit, StopEndsTimers, Starting, Ways,
        envVars, watchVars, Exits
<1>1. CASE Shutdown
  <2>0. LifeFlags'
    BY <1>1 DEF Shutdown, LifeFlags
  <2>1. LifeTypeOK'
    BY <2>0, <1>1 DEF Shutdown
  <2>2. LifeStages'
    BY <1>1 DEF Shutdown
  <2>3. LifeWatches'
    BY <1>1 DEF Shutdown
  <2>4. CleanExit'
    BY <1>1 DEF Shutdown
  <2>5. StopEndsTimers'
    BY <1>1 DEF Shutdown
  <2> QED BY <2>1, <2>2, <2>3, <2>4, <2>5
<1>2. CASE CloseRaceEnds
  BY <1>2 DEF LifeFlags, CloseRaceEnds
<1>3. CASE ShutdownExits
  BY <1>3 DEF LifeFlags, ShutdownExits
<1>4. CASE BrowserCrashes
  BY <1>4 DEF LifeFlags, BrowserCrashes
<1>5. CASE UncaughtError
  BY <1>5 DEF LifeFlags, UncaughtError
<1>6. CASE Sigkill
  BY <1>6 DEF LifeFlags, Sigkill
<1> QED BY <1>1, <1>2, <1>3, <1>4, <1>5, <1>6

\* What goes on in service keeps it.
LEMMA LifeServiceKept ==
  ASSUME LifeInv,
         \/ Activity \/ FlushTick \/ HandOff \/ World \/ Watch \/ WatchStop
         \/ \E t \in timers : WatchTick(t)
  PROVE  LifeInv'
<1> USE LifeAssumption
    DEF LifeInv, LifeTypeOK, LifeStages, LifeWatches, CleanExit, StopEndsTimers, Starting, Ways,
        watchVars, InService
<1>1. CASE Activity
  <2>1. LifeFlags'
    BY <1>1 DEF Activity, LifeFlags
  <2> QED BY <2>1, <1>1 DEF Activity
<1>2. CASE FlushTick
  <2>0. LifeFlags'
    BY <1>2 DEF FlushTick, LifeFlags
  <2>1. LifeTypeOK'
    BY <2>0, <1>2 DEF FlushTick
  <2>2. LifeStages'
    BY <1>2 DEF FlushTick
  <2>3. LifeWatches'
    BY <1>2 DEF FlushTick
  <2>4. CleanExit'
    BY <1>2 DEF FlushTick
  <2>5. StopEndsTimers'
    BY <1>2 DEF FlushTick
  <2> QED BY <2>1, <2>2, <2>3, <2>4, <2>5
<1>3. CASE HandOff
  BY <1>3 DEF LifeFlags, HandOff
<1>4. CASE World
  <2>0. LifeFlags'
    BY <1>4, ZenonT(30) DEF World, LifeFlags
  <2>1. LifeTypeOK'
    BY <2>0, <1>4 DEF World
  <2>2. LifeStages'
    BY <1>4 DEF World
  <2>3. LifeWatches'
    BY <1>4 DEF World
  <2>4. CleanExit'
    BY <1>4 DEF World
  <2>5. StopEndsTimers'
    BY <1>4 DEF World
  <2> QED BY <2>1, <2>2, <2>3, <2>4, <2>5
<1>5. CASE Watch
  <2>0. LifeFlags'
    BY <1>5 DEF Watch, LifeFlags
  <2>a. watches' \in 0..MaxWatches /\ watchInterval' \in 0..watches' /\ 1..watches \subseteq 1..watches'
    BY <1>5 DEF Watch
  <2>b. timers' \subseteq 1..watches' /\ orphaned' \subseteq 1..watches'
    BY <2>a, <1>5 DEF Watch
  <2>1. LifeTypeOK'
    BY <2>0, <2>a, <2>b, <1>5 DEF Watch
  <2>2. LifeStages'
    BY <1>5 DEF Watch
  <2>3. LifeWatches'
    BY <1>5 DEF Watch
  <2>4. CleanExit'
    BY <1>5 DEF Watch
  <2>5. StopEndsTimers'
    BY <1>5 DEF Watch
  <2> QED BY <2>1, <2>2, <2>3, <2>4, <2>5
<1>6. CASE WatchStop
  <2>0. LifeFlags'
    BY <1>6 DEF WatchStop, LifeFlags
  <2>1. LifeTypeOK'
    BY <2>0, <1>6 DEF WatchStop
  <2>2. LifeStages'
    BY <1>6 DEF WatchStop
  <2>3. LifeWatches'
    BY <1>6 DEF WatchStop
  <2>4. CleanExit'
    BY <1>6 DEF WatchStop
  <2>5. StopEndsTimers'
    BY <1>6 DEF WatchStop
  <2> QED BY <2>1, <2>2, <2>3, <2>4, <2>5
<1>7. ASSUME NEW t \in timers, WatchTick(t) PROVE LifeInv'
  BY <1>7 DEF LifeFlags, WatchTick
<1> QED BY <1>1, <1>2, <1>3, <1>4, <1>5, <1>6, <1>7

\* Every step keeps it.
LEMMA LifeStepKept == LifeInv /\ [LifeNext]_lifeVars => LifeInv'
<1> SUFFICES ASSUME LifeInv, [LifeNext]_lifeVars PROVE LifeInv'
  OBVIOUS
<1>1. CASE UNCHANGED lifeVars
  BY <1>1 DEF lifeVars, LifeFlags, envVars, watchVars, LifeInv, LifeTypeOK, LifeStages, LifeWatches,
              CleanExit, StopEndsTimers
<1>2. StopCommand \/ Sigterm \/ IdleCheck \/ Watchdog \/ HeadedDisconnects => Shutdown
  BY DEF StopCommand, Sigterm, IdleCheck, Watchdog, HeadedDisconnects
<1> QED BY <1>1, <1>2, LifeStartKept, LifeEndKept, LifeServiceKept DEF LifeNext

\* It holds of every order of the steps, fair or not.
LEMMA LifeSafe == LifeInit /\ [][LifeNext]_lifeVars => []LifeInv
BY LifeInitInv, LifeStepKept, PTL

\* The invariant holds throughout.
THEOREM LifeInvariance == LifeSpec => []LifeInv
BY LifeSafe, PTL DEF LifeSpec

\* Whatever order idle checks, disconnects, watches and signals come in, the stage of the process,
\* its timers, Chromium, Xvfb and the files keep their types.
THEOREM LifeTypes == LifeSpec => []LifeTypeOK
<1>1. LifeInv => LifeTypeOK BY DEF LifeInv
<1> QED BY <1>1, LifeInvariance, PTL

\* However the process ends, on whichever way out and at whichever await of its start or
\* of its shutdown: what it leaves behind is what that way out may leave.
THEOREM ExitIsClean == LifeSpec => []CleanExit
<1>1. LifeInv => CleanExit BY DEF LifeInv
<1> QED BY <1>1, LifeInvariance, PTL

\* No watch interval runs on behind a stopped watch, however often watching was started.
THEOREM WatchEnds == LifeSpec => []StopEndsTimers
<1>1. LifeInv => StopEndsTimers BY DEF LifeInv
<1> QED BY <1>1, LifeInvariance, PTL

-----------------------------------------------------------------------------
(* HeadedConnect: OneBrowserAlone for any number of CLI processes and        *)
(* daemons. A start looks for an orphan long before its Chromium takes the   *)
(* profile; that nothing is left by then is what Guarded says.               *)

\* The kinds of the variables; a daemon not yet spawned is none, and only `connect` looks
\* for an orphan and spawns.
ConnectKinds ==
  /\ running \in [Daemons -> StartingUp \cup {"none", "up", "closing", "dead"}]
  /\ headless \subseteq {1} /\ chromes \subseteq Daemons /\ bared \subseteq Daemons
  /\ overlapped \in BOOLEAN
  /\ singleton \in Daemons \cup {None} /\ stateFile \in Daemons \cup {None}
  /\ port \in Daemons \cup {None}
  /\ cli \in [Connects -> [at : {"idle", "health", "term", "kill", "orphan", "unlink", "spawn", "poll", "asked"},
                           does : {"nothing", "connect", "disconnect"}, read : Daemons \cup {None}]]
  /\ spawned \in 0..MaxDaemons /\ kills \in 0..MaxKills
  /\ port # None => running[port] \in {"up", "closing"}
  /\ \A d \in Daemons : d > spawned => running[d] = "none"
  /\ \A c \in Connects : cli[c].at \in {"orphan", "spawn"} => cli[c].does = "connect"
  /\ \A c \in Connects : cli[c].does = "nothing" => cli[c].at = "idle"

\* A start that has looked for an orphan and has not started its Chromium.
CliOpens(c) == cli[c].does = "connect" /\ cli[c].at \in {"unlink", "spawn"}
\* One is opening: by its CLI process, or already as a daemon.
Opening ==
  \/ \E c \in Connects : CliOpens(c)
  \/ \E d \in Daemons : running[d] \in {"spawned", "checked", "cleaned"}

\* Until two starts overlap, every Chromium that runs is bared or is the one that the lock
\* names, and while a start is opening it is bared.
Guarded ==
  ~overlapped =>
    /\ chromes \subseteq bared \cup {singleton}
    /\ Opening => chromes \subseteq bared

\* The inductive invariant.
ConnectInv == ConnectKinds /\ Guarded

\* It holds at first.
LEMMA ConnectInitInv == ConnectInit => ConnectInv
<1> SUFFICES ASSUME ConnectInit PROVE ConnectInv
  OBVIOUS
<1>1. headless \in {{}, {1}} /\ spawned = Cardinality(headless) /\ 1 \in Daemons
  BY ConnectAssumption DEF ConnectInit, Daemons
<1>2. spawned \in 0..MaxDaemons /\ \A d \in Daemons : d > spawned => d \notin headless
  BY <1>1, FS_EmptySet, FS_Singleton, ConnectAssumption DEF Daemons
<1>3. cli \in [Connects -> [at : {"idle", "health", "term", "kill", "orphan", "unlink", "spawn", "poll", "asked"},
                         does : {"nothing", "connect", "disconnect"}, read : Daemons \cup {None}]]
  BY DEF ConnectInit, Outside
<1>4. \A c \in Connects : cli[c].at = "idle" /\ cli[c].does = "nothing"
  BY DEF ConnectInit, Outside
<1>a. running \in [Daemons -> StartingUp \cup {"none", "up", "closing", "dead"}]
  BY <1>1 DEF ConnectInit, StartingUp
<1>b. \A d \in Daemons : d > spawned => running[d] = "none"
  BY <1>2 DEF ConnectInit
<1>c. headless \subseteq {1} /\ stateFile \in Daemons \cup {None} /\ None \notin Daemons
  BY <1>1 DEF ConnectInit, None, Daemons
<1>5. ConnectKinds
  <2>1. chromes = {} /\ bared = {} /\ overlapped = FALSE /\ singleton = None /\ port = None
    BY DEF ConnectInit
  <2>2. kills \in 0..MaxKills
    BY ConnectAssumption DEF ConnectInit
  <2>3. \A c \in Connects : cli[c].at \notin {"orphan", "spawn"}
    BY <1>4
  <2> HIDE DEF Daemons
  <2> QED BY <1>a, <1>b, <1>c, <1>2, <1>3, <1>4, <2>1, <2>2, <2>3 DEF ConnectKinds
<1>6. Guarded
  BY DEF ConnectInit, Guarded
<1> QED BY <1>5, <1>6 DEF ConnectInv

\* Sets that hold one element between them: where it is, there is nothing else.
LEMMA OneBetweenTwo ==
  ASSUME NEW A, NEW B, IsFiniteSet(A), IsFiniteSet(B), ~(Cardinality(A) + Cardinality(B) > 1),
         NEW d \in B
  PROVE  A = {} /\ B = {d}
<1>1. {d} \in SUBSET B /\ IsFiniteSet({d}) /\ Cardinality({d}) = 1
  BY FS_Singleton
<1>2. Cardinality(A) \in Nat /\ Cardinality(B) \in Nat /\ 1 <= Cardinality(B)
  BY <1>1, FS_CardinalityType, FS_Subset
<1>3. Cardinality(A) = 0 /\ Cardinality(B) = 1
  BY <1>2
<1> QED BY <1>1, <1>3, FS_EmptySet, FS_Subset

\* The steps of a CLI process keep the invariant.
LEMMA ConnectCliKept ==
  ASSUME ConnectInv, NEW c \in Connects, ConnectNext,
         \/ ReadState(c, "connect") \/ ReadState(c, "disconnect")
         \/ AlreadyConnected(c) \/ HealthFails(c) \/ AskShutdown(c)
         \/ SendTerm(c) \/ SendKill(c) \/ KillOrphan(c) \/ Unlink(c) \/ SpawnDaemon(c)
         \/ ConnectEnds(c) \/ Interrupted(c)
  PROVE  ConnectInv'
<1> USE ConnectAssumption
    DEF ConnectInv, ConnectKinds, Guarded, Opening, CliOpens, Host, Profile, At, Exit, Outside, None,
        Gone, Terminated, Alive, StartingUp
<1>0. overlapped' \in BOOLEAN /\ (~overlapped' => ~overlapped)
  BY DEF ConnectNext
<1>1. ASSUME NEW does \in {"connect", "disconnect"}, ReadState(c, does) PROVE ConnectInv'
  BY <1>0, <1>1 DEF ReadState
<1>2. CASE AlreadyConnected(c)
  BY <1>0, <1>2 DEF AlreadyConnected
<1>3. CASE HealthFails(c)
  BY <1>0, <1>3 DEF HealthFails
<1>4. CASE AskShutdown(c)
  BY <1>0, <1>4 DEF AskShutdown
<1>5. CASE SendTerm(c)
  BY <1>0, <1>5 DEF SendTerm
<1>6. CASE SendKill(c)
  BY <1>0, <1>6 DEF SendKill
<1>7. CASE KillOrphan(c)
  BY <1>0, <1>7 DEF KillOrphan
<1>8. CASE Unlink(c)
  <2>1. ConnectKinds'
    BY <1>0, <1>8 DEF Unlink
  <2>2. Guarded'
    <3> SUFFICES ASSUME ~overlapped'
                 PROVE  /\ chromes' \subseteq bared' \cup {singleton'}
                        /\ Opening' => chromes' \subseteq bared'
      OBVIOUS
    <3>1. CASE cli[c].does = "connect"
      BY <1>0, <1>8, <3>1 DEF Unlink
    <3>2. CASE cli[c].does # "connect"
      <4>1. chromes' \subseteq bared'
        BY <1>0, <1>8, <3>2 DEF Unlink
      <4> QED BY <4>1
    <3> QED BY <3>1, <3>2
  <2> QED BY <2>1, <2>2
<1>9. CASE SpawnDaemon(c)
  <2>1. spawned + 1 \in Daemons /\ spawned' \in 0..MaxDaemons /\ running[spawned + 1] = "none"
    BY <1>9 DEF SpawnDaemon, Daemons
  <2>2. ConnectKinds'
    <3>1. port' # None => running'[port'] \in {"up", "closing"}
      BY <2>1, <1>9 DEF SpawnDaemon
    <3>2. \A e \in Daemons : e > spawned' => running'[e] = "none"
      BY <2>1, <1>9 DEF SpawnDaemon, Daemons
    <3>3. running' \in [Daemons -> StartingUp \cup {"none", "up", "closing", "dead"}]
      BY <2>1, <1>9 DEF SpawnDaemon
    <3> QED BY <1>0, <2>1, <3>1, <3>2, <3>3, <1>9 DEF SpawnDaemon
  <2>3. Guarded'
    <3>1. CliOpens(c)
      BY <1>9 DEF SpawnDaemon
    <3> QED BY <1>0, <3>1, <1>9 DEF SpawnDaemon
  <2> QED BY <2>2, <2>3
<1>10. CASE ConnectEnds(c)
  BY <1>0, <1>10 DEF ConnectEnds
<1>11. CASE Interrupted(c)
  BY <1>0, <1>11 DEF Interrupted
<1> QED BY <1>1, <1>2, <1>3, <1>4, <1>5, <1>6, <1>7, <1>8, <1>9, <1>10, <1>11

\* So do those of a daemon and its Chromium.
LEMMA ConnectDaemonKept ==
  ASSUME ConnectInv, NEW d \in Daemons, ConnectNext,
         \/ CheckPort(d) \/ CleanLocks(d) \/ LaunchChromium(d) \/ Serve(d)
         \/ WindowCloses(d) \/ CloseEnds(d) \/ Crash(d) \/ OrphanExits(d)
  PROVE  ConnectInv'
<1> USE ConnectAssumption
    DEF ConnectInv, ConnectKinds, Guarded, Opening, CliOpens, Host, Profile, None, Gone, Alive,
        StartingUp
<1>0. overlapped' \in BOOLEAN /\ (~overlapped' => ~overlapped)
  BY DEF ConnectNext
<1>1. CASE CheckPort(d)
  BY <1>0, <1>1 DEF CheckPort
<1>2. CASE CleanLocks(d)
  BY <1>0, <1>2 DEF CleanLocks
<1>3. CASE LaunchChromium(d)
  <2>1. ConnectKinds'
    BY <1>0, <1>3 DEF LaunchChromium
  <2>2. CASE singleton \in chromes
    BY <1>0, <1>3, <2>1, <2>2 DEF LaunchChromium
  <2>3. CASE singleton \notin chromes
    <3>1. Opening /\ running'[d] = "launched" /\ chromes' = chromes \cup {d} /\ singleton' = d
          /\ bared' = bared
      BY <1>3, <2>3 DEF LaunchChromium
    <3> DEFINE A == {c \in Connects : cli[c].does = "connect" /\ cli[c].at \in {"unlink", "spawn"}}
               B == {e \in Daemons : running[e] \in StartingUp}
    <3>2. IsFiniteSet(A') /\ IsFiniteSet(B') /\ d \in B'
      <4>1. IsFiniteSet(Daemons)
        BY FS_Interval DEF Daemons
      <4>2. A' \in SUBSET Connects /\ B' \in SUBSET Daemons /\ d \in B'
        BY <3>1
      <4> QED BY <4>1, <4>2, FS_Subset
    <3>3. ASSUME ~overlapped' PROVE ~Opening'
      <4>1. ~(Cardinality(A') + Cardinality(B') > 1)
        BY <3>3 DEF ConnectNext, StartsUnderWay
      <4> HIDE DEF A, B
      <4>2. A' = {} /\ B' = {d}
        BY <3>2, <4>1, OneBetweenTwo
      <4> QED BY <3>1, <4>2 DEF A, B
    <3> QED BY <1>0, <2>1, <3>1, <3>2, <3>3
  <2> QED BY <2>2, <2>3
<1>4. CASE Serve(d)
  BY <1>0, <1>4 DEF Serve
<1>5. CASE WindowCloses(d)
  BY <1>0, <1>5 DEF WindowCloses
<1>6. CASE CloseEnds(d)
  BY <1>0, <1>6 DEF CloseEnds
<1>7. CASE Crash(d)
  BY <1>0, <1>7 DEF Crash
<1>8. CASE OrphanExits(d)
  BY <1>0, <1>8 DEF OrphanExits
<1> QED BY <1>1, <1>2, <1>3, <1>4, <1>5, <1>6, <1>7, <1>8

\* Every step keeps it.
LEMMA ConnectStepKept == ConnectInv /\ [ConnectNext]_connectVars => ConnectInv'
<1> SUFFICES ASSUME ConnectInv, [ConnectNext]_connectVars PROVE ConnectInv'
  OBVIOUS
<1>1. CASE UNCHANGED connectVars
  BY <1>1 DEF connectVars, ConnectInv, ConnectKinds, Guarded, Opening, CliOpens
<1>2. CASE ConnectNext
  <2>1. ASSUME NEW c \in Connects,
               \/ ReadState(c, "connect") \/ ReadState(c, "disconnect")
               \/ AlreadyConnected(c) \/ HealthFails(c) \/ AskShutdown(c)
               \/ SendTerm(c) \/ SendKill(c) \/ KillOrphan(c) \/ Unlink(c) \/ SpawnDaemon(c)
               \/ ConnectEnds(c) \/ Interrupted(c)
        PROVE ConnectInv'
    BY <1>2, <2>1, ConnectCliKept
  <2>2. ASSUME NEW d \in Daemons,
               \/ CheckPort(d) \/ CleanLocks(d) \/ LaunchChromium(d) \/ Serve(d)
               \/ WindowCloses(d) \/ CloseEnds(d) \/ Crash(d) \/ OrphanExits(d)
        PROVE ConnectInv'
    BY <1>2, <2>2, ConnectDaemonKept
  <2> QED BY <1>2, <2>1, <2>2 DEF ConnectNext
<1> QED BY <1>1, <1>2

\* The invariant holds throughout.
THEOREM ConnectInvariance == ConnectSpec => []ConnectInv
BY ConnectInitInv, ConnectStepKept, PTL DEF ConnectSpec

\* Daemons, lock, state file and CLI processes keep their types.
THEOREM ConnectTypes == ConnectSpec => []ConnectTypeOK
<1>1. ConnectInv => ConnectTypeOK BY DEF ConnectInv, ConnectKinds, ConnectTypeOK
<1> QED BY <1>1, ConnectInvariance, PTL

\* Until two starts overlap, two Chromiums that are not bared never run on the profile,
\* whatever is killed, disconnected or answered late.
THEOREM OneBrowser == ConnectSpec => []OneBrowserAlone
<1>1. ConnectInv => OneBrowserAlone
  <2> SUFFICES ASSUME ConnectInv, ~overlapped, chromes \cap bared = {}
               PROVE  ~(Cardinality(chromes) > 1)
    BY DEF OneBrowserAlone
  <2>1. chromes \subseteq {singleton}
    BY DEF ConnectInv, Guarded
  <2>2. IsFiniteSet({singleton}) /\ Cardinality({singleton}) = 1
    BY FS_Singleton
  <2>3. Cardinality(chromes) <= 1 /\ Cardinality(chromes) \in Nat
    BY <2>1, <2>2, FS_Subset, FS_CardinalityType
  <2> QED BY <2>3
<1> QED BY <1>1, ConnectInvariance, PTL

-----------------------------------------------------------------------------
(* SocksBridge: RelayIsExact for streams and frames of any size.  Where the  *)
(* bytes that the bridge has been given are depends on the stage of the      *)
(* handshake: together they are always a first part of the client's stream.  *)

\* The client can still be answered.
Going == client \in {"open", "ended"}

\* The kinds of the variables; the test of the upstream proxy waits only within its budget.
SocksKinds ==
  /\ relay \in {"none", "piped", "closed"} \cup Handshaking
  /\ client \in {"none", "open", "ended", "destroyed"}
  /\ upstream \in {"none", "connecting", "open", "destroyed"} /\ shaking \in BOOLEAN
  /\ sent \in 0..StreamSize
  /\ test \in [attempts : 0..TestRetries, spent : 0..TestBudget,
               does : {"attempt", "backoff", "ok", "failed"}]
  /\ test.does = "backoff" => test.spent + TestBackoff < TestBudget

\* Stretches of the client's stream.
Stretch(s) == \E a, b \in 0..StreamSize : a <= b /\ s = Bytes(a, b)

\* The bridge has been given the first g bytes of the stream: while its client lives they
\* are in the buffer of the frame that is awaited, behind the request, or upstream.
Given(g) ==
  /\ g \in 0..sent /\ unread = Bytes(g, sent)
  /\ relay = "none" => sent = 0 /\ framing = <<>> /\ client = "none"
  /\ Going => /\ relay = "greeting" => g < FrameSize /\ framing = Bytes(0, g)
              /\ relay = "connect" => /\ FrameSize <= g /\ g < PayloadFrom
                                      /\ framing = Bytes(FrameSize, g)
              /\ relay = "connecting" => PayloadFrom <= g /\ remainder = Bytes(PayloadFrom, g)
              /\ relay = "piped" => PayloadFrom <= g /\ relayed = Bytes(PayloadFrom, g)

\* How the ends of the connection agree with the stage of the relay.
EndsAgree ==
  /\ relay # "none" => client # "none"
  /\ relay = "connecting" => Going
  /\ upstream = "connecting" => relay \in {"connecting", "closed"}
  /\ upstream = "open" => relay = "piped"

\* The inductive invariant: however the stream is cut, some first part of it was given.
SocksInv ==
  /\ SocksKinds /\ EndsAgree
  /\ \E g \in Nat : Given(g)
  /\ Stretch(framing) /\ Stretch(remainder)
  /\ \E b \in PayloadFrom..StreamSize : relayed = Bytes(PayloadFrom, b)

\* The sizes of the frames.
LEMMA FrameSizes ==
  /\ FrameSize \in Nat /\ FrameSize > 0 /\ StreamSize \in Nat
  /\ PayloadFrom = FrameSize + FrameSize /\ PayloadFrom <= StreamSize
BY SocksAssumption DEF PayloadFrom

\* What Bytes denotes.
LEMMA BytesFacts ==
  ASSUME NEW a \in Nat, NEW b \in Nat, a <= b
  PROVE  /\ Bytes(a, b) \in Seq(Nat) /\ Len(Bytes(a, b)) = b - a
         /\ \A i \in 1..(b - a) : Bytes(a, b)[i] = a + i
         /\ b <= StreamSize => Bytes(a, b) \in Seq(1..StreamSize)
<1> DEFINE n == b - a
<1>1. n \in Nat
  OBVIOUS
<1>2. Bytes(a, b) = [i \in 1..n |-> a + i]
  BY DEF Bytes
<1>3. Bytes(a, b) \in [1..n -> Nat] /\ \A i \in 1..n : Bytes(a, b)[i] = a + i
  BY <1>1, <1>2
<1>4. b <= StreamSize => Bytes(a, b) \in [1..n -> 1..StreamSize]
  BY <1>2, FrameSizes
<1>5. \A S : \A f \in [1..n -> S] : f \in Seq(S) /\ Len(f) = n
  BY <1>1
<1> QED BY <1>3, <1>4, <1>5

\* How many bytes there are.
LEMMA BytesLen ==
  ASSUME NEW a \in Nat, NEW b \in Nat, a <= b
  PROVE  Len(Bytes(a, b)) = b - a
BY BytesFacts

\* There are none between a place and itself.
LEMMA NoBytes == ASSUME NEW a \in Nat PROVE Bytes(a, a) = <<>>
BY DEF Bytes

\* Two adjacent stretches make one.
LEMMA BytesJoin ==
  ASSUME NEW a \in Nat, NEW b \in Nat, NEW c \in Nat, a <= b, b <= c
  PROVE  Bytes(a, b) \o Bytes(b, c) = Bytes(a, c)
<1> DEFINE s == Bytes(a, b)
           t == Bytes(b, c)
           u == Bytes(a, c)
<1>0. a <= c
  OBVIOUS
<1>1. /\ s \in Seq(Nat) /\ Len(s) = b - a /\ \A i \in 1..(b - a) : s[i] = a + i
      /\ t \in Seq(Nat) /\ Len(t) = c - b /\ \A i \in 1..(c - b) : t[i] = b + i
      /\ u \in Seq(Nat) /\ Len(u) = c - a /\ \A i \in 1..(c - a) : u[i] = a + i
  BY <1>0, BytesFacts
<1> HIDE DEF s, t, u
<1>2. /\ s \o t \in Seq(Nat) /\ Len(s \o t) = Len(s) + Len(t)
      /\ \A i \in 1..(Len(s) + Len(t)) : (s \o t)[i] = IF i <= Len(s) THEN s[i] ELSE t[i - Len(s)]
  BY <1>1, ConcatProperties
<1>3. \A i \in 1..(c - a) : (s \o t)[i] = u[i]
  <2> TAKE i \in 1..(c - a)
  <2>1. CASE i <= b - a
    BY <1>1, <1>2, <2>1
  <2>2. CASE ~(i <= b - a)
    <3>1. i - (b - a) \in 1..(c - b)
      BY <2>2
    <3>2. (s \o t)[i] = t[i - (b - a)]
      BY <1>1, <1>2, <2>2, SMTT(30)
    <3>3. \A k \in 1..(c - b) : k = i - (b - a) => t[k] = a + i
      BY <1>1
    <3>4. t[i - (b - a)] = a + i /\ u[i] = a + i
      BY <1>1, <3>1, <3>3
    <3> QED BY <3>2, <3>4
  <2> QED BY <2>1, <2>2
<1>4. Len(s \o t) = c - a
  BY <1>1, <1>2
<1>5. s \o t = u
  BY <1>1, <1>2, <1>3, <1>4, SeqEqual
<1> QED BY <1>5 DEF s, t, u

\* The first n of some bytes, and the others.
Taken(s, n) == SubSeq(s, 1, n)
Dropped(s, n) == SubSeq(s, n + 1, Len(s))

\* A stretch is cut in two.
LEMMA BytesCutAt ==
  ASSUME NEW a \in Nat, NEW b \in Nat, NEW n \in Nat, NEW c \in Nat, c <= a + n, a + n <= c, c <= b
  PROVE  /\ Len(Bytes(a, b)) = b - a
         /\ Taken(Bytes(a, b), n) = Bytes(a, c)
         /\ Dropped(Bytes(a, b), n) = Bytes(c, b)
<1> DEFINE s == Bytes(a, b)
           t == Bytes(a, c)
           u == Bytes(c, b)
<1>0. a <= b /\ a <= c /\ b - a = n + (b - c) /\ c - a = n /\ b - c \in Nat /\ b - a \in Nat
  OBVIOUS
<1>1. /\ s \in Seq(Nat) /\ Len(s) = b - a /\ \A i \in 1..(b - a) : s[i] = a + i
      /\ t \in Seq(Nat) /\ Len(t) = c - a /\ \A i \in 1..(c - a) : t[i] = a + i
      /\ u \in Seq(Nat) /\ Len(u) = b - c /\ \A i \in 1..(b - c) : u[i] = c + i
  BY <1>0, BytesFacts
<1> HIDE DEF s, t, u
<1>2. SubSeq(s, 1, n) = t
  <2> DEFINE p == SubSeq(s, 1, n)
  <2>1. \A i \in 1..n : s[i] \in Nat /\ s[i] = t[i]
    <3> TAKE i \in 1..n
    <3>1. i \in 1..(b - a) /\ i \in 1..(c - a)
      BY <1>0
    <3>2. s[i] = a + i /\ t[i] = a + i
      BY <1>1, <3>1
    <3> QED BY <3>2
  <2>2. /\ p \in Seq(Nat) /\ Len(p) = IF 1 <= n THEN n - 1 + 1 ELSE 0
        /\ \A i \in 1..(n - 1 + 1) : p[i] = s[1 + i - 1]
    <3>1. 1 \in Int /\ n \in Int /\ \A i \in 1..n : s[i] \in Nat
      BY <2>1
    <3> QED BY <3>1, SubSeqProperties
  <2> HIDE DEF p
  <2>3. \A i \in 1..n : p[i] = t[i]
    BY <2>1, <2>2
  <2>4. Len(p) = n
    BY <2>2
  <2>5. p = t
    BY <1>0, <1>1, <2>2, <2>3, <2>4, SeqEqual
  <2> QED BY <2>5 DEF p
<1>3. SubSeq(s, n + 1, Len(s)) = u
  <2> DEFINE p == SubSeq(s, n + 1, b - a)
  <2>1. \A i \in (n + 1)..(b - a) : s[i] \in Nat
    <3> TAKE i \in (n + 1)..(b - a)
    <3>1. i \in 1..(b - a) /\ a + i \in Nat
      BY <1>0
    <3>2. s[i] = a + i
      BY <1>1, <3>1
    <3> QED BY <3>1, <3>2
  <2>2. /\ p \in Seq(Nat) /\ Len(p) = IF n + 1 <= b - a THEN (b - a) - (n + 1) + 1 ELSE 0
        /\ \A i \in 1..((b - a) - (n + 1) + 1) : p[i] = s[(n + 1) + i - 1]
    <3> DEFINE m == n + 1
               w == b - a
    <3>1. m \in Int /\ w \in Int /\ \A i \in m..w : s[i] \in Nat
      BY <1>0, <2>1
    <3> HIDE DEF m, w
    <3>2. /\ SubSeq(s, m, w) \in Seq(Nat) /\ Len(SubSeq(s, m, w)) = IF m <= w THEN w - m + 1 ELSE 0
          /\ \A i \in 1..(w - m + 1) : SubSeq(s, m, w)[i] = s[m + i - 1]
      BY <3>1, SubSeqProperties
    <3> QED BY <3>2 DEF m, w
  <2> HIDE DEF p
  <2>3. \A i \in 1..(b - c) : p[i] = u[i]
    <3> TAKE i \in 1..(b - c)
    <3>1. n + i \in 1..(b - a) /\ (n + 1) + i - 1 = n + i /\ a + (n + i) = c + i
          /\ i \in 1..((b - a) - (n + 1) + 1)
      OBVIOUS
    <3>2. p[i] = s[n + i]
      BY <2>2, <3>1
    <3>3. s[n + i] = a + (n + i) /\ u[i] = c + i
      BY <1>1, <3>1
    <3> QED BY <3>1, <3>2, <3>3
  <2>4. Len(p) = b - c
    BY <1>0, <2>2, SMTT(30)
  <2>5. p = u
    BY <1>0, <1>1, <2>2, <2>3, <2>4, SeqEqual
  <2> QED BY <1>1, <2>5 DEF p
<1> QED BY <1>1, <1>2, <1>3 DEF s, t, u, Taken, Dropped

\* The same, after a number of bytes.
LEMMA BytesCut ==
  ASSUME NEW a \in Nat, NEW b \in Nat, NEW n \in Nat, a + n <= b
  PROVE  /\ Len(Bytes(a, b)) = b - a
         /\ Taken(Bytes(a, b), n) = Bytes(a, a + n)
         /\ Dropped(Bytes(a, b), n) = Bytes(a + n, b)
<1> DEFINE c == a + n
<1>1. c \in Nat /\ c <= a + n /\ a + n <= c /\ c <= b
  OBVIOUS
<1> HIDE DEF c
<1>2. /\ Len(Bytes(a, b)) = b - a
      /\ Taken(Bytes(a, b), n) = Bytes(a, c)
      /\ Dropped(Bytes(a, b), n) = Bytes(c, b)
  BY <1>1, BytesCutAt
<1> QED BY <1>2 DEF c

\* The invariant holds at first.
LEMMA SocksInitInv == SocksInit => SocksInv
<1> SUFFICES ASSUME SocksInit PROVE SocksInv
  OBVIOUS
<1>1. Bytes(0, 0) = <<>> /\ Bytes(PayloadFrom, PayloadFrom) = <<>>
  BY NoBytes, FrameSizes
<1>2. SocksKinds
  <2>1. 0 \in 0..TestRetries /\ 0 \in 0..TestBudget /\ 0 \in 0..StreamSize
    BY SocksAssumption
  <2> QED BY <2>1 DEF SocksInit, SocksKinds
<1>3. EndsAgree
  BY DEF SocksInit, EndsAgree
<1>4. Given(0)
  BY <1>1 DEF SocksInit, Given, Going
<1>5. Stretch(<<>>)
  BY <1>1, FrameSizes DEF Stretch
<1>6. relayed = Bytes(PayloadFrom, PayloadFrom) /\ PayloadFrom \in PayloadFrom..StreamSize
  BY <1>1, FrameSizes DEF SocksInit
<1>7. Stretch(framing) /\ Stretch(remainder)
  BY <1>5 DEF SocksInit
<1> QED BY <1>2, <1>3, <1>4, <1>6, <1>7 DEF SocksInv

\* The test of the upstream proxy keeps to its budget.
LEMMA SocksTestKept ==
  ASSUME SocksKinds, TestAttempt \/ BackoffEnds
  PROVE  SocksKinds'
<1>1. TestBudget \in Nat /\ TestRetries \in Nat \ {0} /\ TestBackoff \in Nat
  BY SocksAssumption
<1>2. test.attempts \in 0..TestRetries /\ test.spent \in 0..TestBudget
      /\ test.does \in {"attempt", "backoff", "ok", "failed"}
  BY DEF SocksKinds
<1>3. UNCHANGED <<relay, client, upstream, shaking, sent>>
  BY DEF TestAttempt, BackoffEnds
<1>4. CASE TestAttempt
  <2>1. CASE test.attempts = TestRetries \/ test.spent >= TestBudget
    BY <1>2, <1>3, <1>4, <2>1 DEF TestAttempt, SocksKinds
  <2>2. CASE ~(test.attempts = TestRetries \/ test.spent >= TestBudget)
    <3> DEFINE n == test.attempts + 1
    <3>1. PICK took \in 0..PerAttempt, ok \in BOOLEAN :
            test' = [attempts |-> n, spent |-> test.spent + took,
                     does |-> CASE ok -> "ok"
                                [] ~ok /\ (n = TestRetries \/ (test.spent + took) + TestBackoff >= TestBudget) -> "failed"
                                [] OTHER -> "backoff"]
      BY <1>4, <2>2 DEF TestAttempt
    <3>2. TestBudget \div TestRetries \in Nat
      BY <1>1
    <3>3. PerAttempt \in Nat /\ PerAttempt <= TestBudget - test.spent
      BY <1>1, <1>2, <2>2, <3>2 DEF PerAttempt
    <3>4. took \in Nat /\ test.spent + took \in 0..TestBudget /\ n \in 0..TestRetries
      BY <1>1, <1>2, <2>2, <3>3
    <3>5. test'.attempts = n /\ test'.spent = test.spent + took
          /\ test'.does \in {"ok", "failed", "backoff"}
          /\ (test'.does = "backoff" => ~((test.spent + took) + TestBackoff >= TestBudget))
      <4>1. CASE ok
        BY <3>1, <4>1
      <4>2. CASE ~ok /\ (n = TestRetries \/ (test.spent + took) + TestBackoff >= TestBudget)
        BY <3>1, <4>2
      <4>3. CASE ~ok /\ ~(n = TestRetries \/ (test.spent + took) + TestBackoff >= TestBudget)
        BY <3>1, <4>3
      <4> QED BY <4>1, <4>2, <4>3
    <3>6. test' \in [attempts : 0..TestRetries, spent : 0..TestBudget,
                     does : {"attempt", "backoff", "ok", "failed"}]
      <4>1. test' = [attempts |-> test'.attempts, spent |-> test'.spent, does |-> test'.does]
        BY <3>1
      <4> QED BY <3>4, <3>5, <4>1
    <3>7. test'.does = "backoff" => test'.spent + TestBackoff < TestBudget
      BY <1>1, <1>2, <3>4, <3>5
    <3> QED BY <1>3, <3>6, <3>7 DEF SocksKinds
  <2> QED BY <2>1, <2>2
<1>5. CASE BackoffEnds
  <2>1. test.does = "backoff" /\ test' = [test EXCEPT !.spent = @ + TestBackoff, !.does = "attempt"]
    BY <1>5 DEF BackoffEnds
  <2>2. test.spent + TestBackoff < TestBudget
    BY <2>1 DEF SocksKinds
  <2>3. test.spent + TestBackoff \in 0..TestBudget
    BY <1>1, <1>2, <2>2
  <2>4. test' \in [attempts : 0..TestRetries, spent : 0..TestBudget,
                   does : {"attempt", "backoff", "ok", "failed"}] /\ test'.does = "attempt"
    BY <2>1, <2>3 DEF SocksKinds
  <2> QED BY <1>3, <2>4 DEF SocksKinds
<1> QED BY <1>4, <1>5

\* The steps that leave the stream alone, or give its client up.
LEMMA SocksEndingKept ==
  ASSUME SocksInv,
         \/ TestAttempt \/ BackoffEnds \/ Accept \/ ClientEnds \/ BadFrame \/ ConnectFails
         \/ UpstreamCloses \/ ClientGone \/ SocketError \/ HandshakeTimesOut
  PROVE  SocksInv'
<1>1. PICK g \in Nat : Given(g)
  BY DEF SocksInv
<1>2. SocksKinds /\ EndsAgree /\ sent \in Nat /\ sent <= StreamSize
  BY FrameSizes DEF SocksInv, SocksKinds
<1>3. UNCHANGED <<sent, framing, remainder, relayed>>
  BY DEF TestAttempt, BackoffEnds, Accept, ClientEnds, BadFrame, ConnectFails, UpstreamCloses,
         ClientGone, SocketError, HandshakeTimesOut, KillBoth
<1>4. ~Going' => (relay' # "none" /\ client' = "destroyed") \/ UNCHANGED <<relay, client, unread>>
  <2>1. CASE TestAttempt \/ BackoffEnds
    BY <2>1 DEF TestAttempt, BackoffEnds
  <2>2. CASE Accept \/ ClientEnds
    BY <2>2 DEF Accept, ClientEnds, Going
  <2>3. CASE BadFrame \/ ConnectFails \/ SocketError
    BY <2>3 DEF BadFrame, ConnectFails, SocketError, KillBoth
  <2>4. CASE UpstreamCloses \/ ClientGone
    BY <1>2, <2>4 DEF UpstreamCloses, ClientGone, EndsAgree
  <2>5. CASE HandshakeTimesOut
    BY <2>5 DEF HandshakeTimesOut
  <2> QED BY <2>1, <2>2, <2>3, <2>4, <2>5
<1>5. unread' = unread \/ (unread' = <<>> /\ ~Going')
  BY DEF TestAttempt, BackoffEnds, Accept, ClientEnds, BadFrame, ConnectFails, UpstreamCloses,
         ClientGone, SocketError, HandshakeTimesOut, KillBoth, Going
<1>6. Going' => (relay' = relay /\ Going) \/ (relay' = "greeting" /\ relay = "none")
  BY DEF TestAttempt, BackoffEnds, Accept, ClientEnds, BadFrame, ConnectFails, UpstreamCloses,
         ClientGone, SocketError, HandshakeTimesOut, KillBoth, Going
<1>7. SocksKinds'
  <2>1. CASE TestAttempt \/ BackoffEnds
    BY <1>2, <2>1, SocksTestKept
  <2>2. CASE ~(TestAttempt \/ BackoffEnds)
    BY <1>2, <1>3, <2>2 DEF Accept, ClientEnds, BadFrame, ConnectFails, UpstreamCloses, ClientGone,
                            SocketError, HandshakeTimesOut, KillBoth, SocksKinds, Handshaking
  <2> QED BY <2>1, <2>2
<1>8. EndsAgree'
  <2>1. CASE TestAttempt \/ BackoffEnds \/ Accept \/ ClientEnds \/ ClientGone
    BY <1>2, <2>1 DEF TestAttempt, BackoffEnds, Accept, ClientEnds, ClientGone, EndsAgree, Going
  <2>2. CASE BadFrame \/ SocketError \/ ConnectFails
    BY <1>2, <2>2 DEF BadFrame, SocketError, ConnectFails, Reading, KillBoth, EndsAgree, Going, SocksKinds
  <2>3. CASE UpstreamCloses \/ HandshakeTimesOut
    BY <1>2, <2>3 DEF UpstreamCloses, HandshakeTimesOut, Handshaking, EndsAgree, Going
  <2> QED BY <2>1, <2>2, <2>3
<1>9. \E h \in Nat : Given(h)'
  <2>1. CASE unread' = unread
    <3>1. Given(g)'
      <4>1. g \in 0..sent' /\ unread' = Bytes(g, sent)'
        BY <1>1, <1>3, <2>1 DEF Given
      <4>2. relay' = "none" => sent' = 0 /\ framing' = <<>> /\ client' = "none"
        BY <1>1, <1>3, <1>4, <1>6 DEF Given, Going
      <4>3. CASE Going' /\ relay' = relay /\ Going
        BY <1>1, <1>3, <4>1, <4>2, <4>3 DEF Given, Going
      <4>4. CASE Going' /\ relay' = "greeting" /\ relay = "none"
        <5>1. g = 0 /\ framing' = Bytes(0, g) /\ g < FrameSize
          BY <1>1, <1>3, <4>4, FrameSizes, NoBytes DEF Given
        <5> QED BY <4>1, <4>4, <5>1 DEF Given
      <4>5. CASE ~Going'
        BY <4>1, <4>2, <4>5 DEF Given
      <4> QED BY <1>6, <4>3, <4>4, <4>5
    <3> QED BY <3>1
  <2>2. CASE unread' = <<>> /\ ~Going' /\ unread' # unread
    <3>1. relay' # "none"
      BY <1>4, <2>2
    <3>2. unread' = Bytes(sent, sent)'
      BY <1>2, <1>3, <2>2, NoBytes
    <3>3. Given(sent)'
      BY <1>2, <1>3, <2>2, <3>1, <3>2 DEF Given
    <3>4. \E h \in Nat : h = sent' /\ Given(sent)'
      BY <1>2, <1>3, <3>3
    <3> QED BY <1>2, <1>3, <3>3 DEF Given
  <2> QED BY <1>5, <2>1, <2>2
<1> QED BY <1>3, <1>7, <1>8, <1>9 DEF SocksInv, Stretch

\* The client's stream grows, or a chunk of it goes upstream.
LEMMA RelayKept ==
  ASSUME SocksInv, NEW n \in 1..StreamSize, ClientSends(n) \/ Piped(n)
  PROVE  SocksInv'
<1>1. PICK g \in Nat : Given(g)
  BY DEF SocksInv
<1>2. /\ SocksKinds /\ EndsAgree /\ sent \in Nat /\ sent <= StreamSize /\ g <= sent /\ n \in Nat
      /\ unread = Bytes(g, sent) /\ PayloadFrom \in Nat
  BY <1>1, FrameSizes DEF SocksInv, SocksKinds, Given
<1>3. CASE ClientSends(n)
  <2>1. /\ client = "open" /\ sent + n <= StreamSize /\ unread' = unread \o Bytes(sent, sent + n)
        /\ sent' = sent + n
        /\ UNCHANGED <<relay, framing, remainder, client, upstream, relayed, shaking, test>>
    BY <1>3 DEF ClientSends
  <2>2. unread' = Bytes(g, sent')
    <3>1. sent + n \in Nat /\ sent <= sent + n
      BY <1>2
    <3> QED BY <1>2, <2>1, <3>1, BytesJoin
  <2>3. SocksKinds' /\ EndsAgree'
    BY <1>2, <2>1 DEF SocksKinds, EndsAgree, Going
  <2>4. Given(g)'
    BY <1>1, <1>2, <2>1, <2>2 DEF Given, Going
  <2> QED BY <2>1, <2>3, <2>4 DEF SocksInv, Stretch
<1>4. CASE Piped(n)
  <2>1. /\ relay = "piped" /\ client # "destroyed" /\ n <= Len(unread)
        /\ relayed' = relayed \o Taken(unread, n)
        /\ unread' = Dropped(unread, n)
        /\ UNCHANGED <<relay, sent, framing, remainder, client, upstream, shaking, test>>
    <3>1. n \in 1..Len(unread) => n <= Len(unread)
      BY <1>2, BytesLen
    <3> QED BY <1>4, <3>1, Zenon DEF Piped, Taken, Dropped
  <2>2. Len(unread) = sent - g /\ g + n <= sent
    <3>1. Len(unread) = sent - g
      BY <1>2, BytesFacts
    <3> QED BY <1>2, <2>1, <3>1
  <2>3. Going
    BY <1>2, <2>1 DEF SocksKinds, EndsAgree, Going
  <2>4. PayloadFrom <= g /\ relayed = Bytes(PayloadFrom, g)
    BY <1>1, <2>1, <2>3 DEF Given
  <2>5. Taken(unread, n) = Bytes(g, g + n)
    BY <1>2, <2>2, BytesCut
  <2>6. unread' = Bytes(g + n, sent)
    BY <1>2, <2>1, <2>2, BytesCut
  <2>7. g + n \in Nat /\ g + n <= sent /\ PayloadFrom <= g + n /\ g <= g + n
    BY <1>2, <2>1, <2>2, <2>4
  <2>8. relayed' = Bytes(PayloadFrom, g + n)
    <3>1. Bytes(PayloadFrom, g) \o Bytes(g, g + n) = Bytes(PayloadFrom, g + n)
      BY <1>2, <2>4, <2>7, BytesJoin
    <3> QED BY <2>1, <2>4, <2>5, <3>1
  <2>9. SocksKinds' /\ EndsAgree'
    BY <1>2, <2>1 DEF SocksKinds, EndsAgree, Going
  <2>10. Given(g + n)'
    BY <1>2, <2>1, <2>6, <2>7, <2>8 DEF Given, Going
  <2>11. \E h \in Nat : Given(h)'
    BY <2>7, <2>10
  <2>12. \E b \in PayloadFrom..StreamSize : relayed' = Bytes(PayloadFrom, b)
    BY <1>2, <2>7, <2>8, FrameSizes
  <2> QED BY <2>1, <2>9, <2>11, <2>12 DEF SocksInv, Stretch
<1> QED BY <1>3, <1>4

\* The upstream socket opens: what came behind the request goes first.
LEMMA ConnectedKept ==
  ASSUME SocksInv, Connected
  PROVE  SocksInv'
<1>1. PICK g \in Nat : Given(g)
  BY DEF SocksInv
<1>2. SocksKinds /\ EndsAgree /\ sent \in Nat /\ sent <= StreamSize /\ g <= sent /\ PayloadFrom \in Nat
  BY <1>1, FrameSizes DEF SocksInv, SocksKinds, Given
<1>3. upstream = "connecting" /\ UNCHANGED <<unread, sent, framing, remainder, client, shaking, test>>
  BY DEF Connected
<1>4. CASE relay = "closed"
  <2>1. upstream' = "destroyed" /\ UNCHANGED <<relay, relayed>>
    BY <1>4 DEF Connected
  <2>2. SocksKinds' /\ EndsAgree'
    BY <1>2, <1>3, <2>1 DEF SocksKinds, EndsAgree, Going
  <2>3. Given(g)'
    BY <1>1, <1>3, <2>1 DEF Given, Going
  <2> QED BY <1>3, <2>1, <2>2, <2>3 DEF SocksInv, Stretch
<1>5. CASE relay # "closed"
  <2>1. upstream' = "open" /\ relay' = "piped" /\ relayed' = remainder
    BY <1>5 DEF Connected
  <2>2. relay = "connecting" /\ Going
    BY <1>2, <1>3, <1>5 DEF EndsAgree
  <2>3. PayloadFrom <= g /\ remainder = Bytes(PayloadFrom, g)
    BY <1>1, <2>2 DEF Given
  <2>4. SocksKinds' /\ EndsAgree'
    BY <1>2, <1>3, <2>1, <2>2 DEF SocksKinds, EndsAgree, Going
  <2>5. Given(g)'
    BY <1>1, <1>3, <2>1, <2>3 DEF Given, Going
  <2>6. \E b \in PayloadFrom..StreamSize : relayed' = Bytes(PayloadFrom, b)
    BY <1>2, <2>1, <2>3, FrameSizes
  <2> QED BY <1>3, <2>4, <2>5, <2>6 DEF SocksInv, Stretch
<1> QED BY <1>4, <1>5

\* A chunk arrives while a frame is awaited.
LEMMA DataKept ==
  ASSUME SocksInv, NEW n \in 1..StreamSize, OnData(n)
  PROVE  SocksInv'
<1> DEFINE buf == framing \o Taken(unread, n)
           greeted == relay = "connect" \/ Len(buf) >= FrameSize
           rest == IF relay = "connect" \/ ~greeted THEN buf ELSE AfterGreeting(buf)
           complete == greeted /\ Len(rest) >= FrameSize
           start == IF relay = "greeting" THEN 0 ELSE FrameSize
<1>1. PICK g \in Nat : Given(g)
  BY DEF SocksInv
<1>2. /\ SocksKinds /\ EndsAgree /\ sent \in Nat /\ sent <= StreamSize /\ g <= sent /\ n \in Nat /\ 1 <= n
      /\ unread = Bytes(g, sent) /\ PayloadFrom = FrameSize + FrameSize /\ FrameSize \in Nat
      /\ FrameSize > 0 /\ PayloadFrom \in Nat
  BY <1>1, FrameSizes DEF SocksInv, SocksKinds, Given
<1>3. /\ Reading /\ n \in 1..Len(unread)
      /\ unread' = Dropped(unread, n)
      /\ relay' = CASE complete -> "connecting" [] greeted /\ ~complete -> "connect" [] OTHER -> relay
      /\ framing' = rest
      /\ remainder' = IF complete THEN Dropped(rest, FrameSize) ELSE remainder
      /\ upstream' = IF complete THEN "connecting" ELSE upstream
      /\ UNCHANGED <<sent, client, relayed, shaking, test>>
  BY Zenon DEF OnData, Taken, Dropped
<1>4. Going /\ relay \in {"greeting", "connect"} /\ Len(unread) = sent - g /\ g + n <= sent
  <2>1. Len(unread) = sent - g
    BY <1>2, BytesFacts
  <2>2. g + n <= sent
    BY <1>2, <1>3, <2>1
  <2> QED BY <1>2, <1>3, <2>1, <2>2 DEF Reading, SocksKinds, EndsAgree, Going
<1>5. start \in Nat /\ start <= g /\ framing = Bytes(start, g)
      /\ (relay = "connect" => g < PayloadFrom)
  BY <1>1, <1>2, <1>4 DEF Given
<1>6. g + n \in Nat /\ g <= g + n /\ g + n <= sent
  BY <1>2, <1>4
<1>7. buf = Bytes(start, g + n) /\ Len(buf) = g + n - start
  <2>1. Taken(unread, n) = Bytes(g, g + n)
    BY <1>2, <1>4, BytesCut
  <2>2. Bytes(start, g) \o Bytes(g, g + n) = Bytes(start, g + n)
    BY <1>5, <1>6, BytesJoin
  <2>3. start <= g + n
    BY <1>2, <1>5
  <2>4. Len(Bytes(start, g + n)) = g + n - start
    <3> DEFINE d == g + n
    <3>1. d \in Nat /\ start <= d
      BY <1>6, <2>3
    <3> HIDE DEF d, start
    <3>2. Len(Bytes(start, d)) = d - start
      BY <1>5, <3>1, BytesLen
    <3>3. d - start = g + n - start
      BY <1>5, <1>6 DEF d
    <3> QED BY <3>2, <3>3 DEF d
  <2> QED BY <1>5, <2>1, <2>2, <2>4
<1>8. unread' = Bytes(g + n, sent)
  BY <1>2, <1>3, <1>4, BytesCut
<1>9. ~greeted => relay = "greeting" /\ g + n < FrameSize /\ rest = Bytes(0, g + n)
  BY <1>2, <1>4, <1>5, <1>7
<1>10. greeted => FrameSize <= g + n /\ rest = Bytes(FrameSize, g + n)
  <2>1. CASE relay = "connect"
    BY <1>5, <1>7, <2>1, SMTT(20)
  <2>2. CASE relay = "greeting" /\ greeted
    <3>1. start = 0 /\ Len(buf) = g + n /\ FrameSize <= g + n /\ buf = Bytes(0, g + n)
      BY <1>2, <1>7, <2>2
    <3>2. 0 + FrameSize <= g + n /\ 0 + FrameSize = FrameSize /\ 0 \in Nat /\ 0 <= g + n
      BY <1>2, <1>6, <3>1
    <3>3. Dropped(Bytes(0, g + n), FrameSize) = Bytes(FrameSize, g + n)
      <4> DEFINE d == g + n
                 z == 0
      <4>1. d \in Nat /\ z \in Nat /\ FrameSize <= z + FrameSize /\ z + FrameSize <= FrameSize /\ FrameSize <= d
        BY <1>2, <1>6, <3>2
      <4> HIDE DEF d, z
      <4>2. Dropped(Bytes(z, d), FrameSize) = Bytes(FrameSize, d)
        BY <1>2, <4>1, BytesCutAt
      <4> QED BY <4>2 DEF d, z
    <3>4. AfterGreeting(buf) = Bytes(FrameSize, g + n)
      BY <3>1, <3>2, <3>3, Zenon DEF AfterGreeting, Dropped
    <3> QED BY <2>2, <3>1, <3>4
  <2> QED BY <1>4, <2>1, <2>2
<1>11. greeted => Len(rest) = g + n - FrameSize
  <2>1. FrameSize <= g + n => Len(Bytes(FrameSize, g + n)) = g + n - FrameSize
    BY <1>2, <1>6, BytesFacts
  <2> QED BY <1>10, <2>1
<1>12. complete => /\ PayloadFrom <= g + n
                   /\ Dropped(rest, FrameSize) = Bytes(PayloadFrom, g + n)
  <2> SUFFICES ASSUME complete
               PROVE  /\ PayloadFrom <= g + n
                      /\ Dropped(rest, FrameSize) = Bytes(PayloadFrom, g + n)
    OBVIOUS
  <2>1. greeted /\ Len(rest) = g + n - FrameSize /\ FrameSize <= Len(rest)
        /\ rest = Bytes(FrameSize, g + n) /\ FrameSize <= g + n
    BY <1>2, <1>10, <1>11
  <2> HIDE DEF complete, rest, buf, greeted
  <2>2. PayloadFrom <= g + n
    BY <1>2, <1>6, <2>1
  <2>3. Dropped(Bytes(FrameSize, g + n), FrameSize)
          = Bytes(FrameSize + FrameSize, g + n)
    BY <1>2, <1>6, <2>1, <2>2, BytesCut
  <2> QED BY <1>2, <2>1, <2>2, <2>3
<1>13. complete => greeted
  OBVIOUS
<1> HIDE DEF buf, greeted, rest, complete, start
<1>14. SocksKinds'
  BY <1>2, <1>3, <1>4 DEF SocksKinds, Handshaking
<1>15. EndsAgree'
  BY <1>2, <1>3, <1>4 DEF EndsAgree, Going
<1>16. Given(g + n)'
  <2>1. CASE complete
    <3>1. relay' = "connecting" /\ remainder' = Bytes(PayloadFrom, g + n)
      BY <1>3, <1>12, <2>1
    <3> QED BY <1>3, <1>6, <1>8, <1>12, <2>1, <3>1 DEF Given
  <2>2. CASE greeted /\ ~complete
    <3>1. relay' = "connect" /\ framing' = Bytes(FrameSize, g + n) /\ FrameSize <= g + n
      BY <1>3, <1>10, <2>2
    <3>2. g + n < PayloadFrom
      BY <1>2, <1>6, <1>11, <2>2 DEF complete
    <3> QED BY <1>3, <1>6, <1>8, <3>1, <3>2 DEF Given
  <2>3. CASE ~greeted
    <3>1. relay' = "greeting" /\ framing' = Bytes(0, g + n) /\ g + n < FrameSize
      BY <1>3, <1>4, <1>9, <1>13, <2>3
    <3> QED BY <1>3, <1>6, <1>8, <3>1 DEF Given
  <2> QED BY <2>1, <2>2, <2>3
<1>17. Stretch(framing')
  <2>1. framing' = Bytes(0, g + n) \/ (FrameSize <= g + n /\ framing' = Bytes(FrameSize, g + n))
    BY <1>3, <1>9, <1>10
  <2>2. g + n \in 0..StreamSize /\ 0 \in 0..StreamSize /\ FrameSize \in 0..StreamSize /\ 0 <= g + n
    BY <1>2, <1>6, FrameSizes
  <2> QED BY <2>1, <2>2 DEF Stretch
<1>18. Stretch(remainder')
  <2>1. remainder' = remainder \/ (PayloadFrom <= g + n /\ remainder' = Bytes(PayloadFrom, g + n))
    BY <1>3, <1>12
  <2>2. Stretch(remainder)
    BY DEF SocksInv
  <2>3. g + n \in 0..StreamSize /\ (PayloadFrom <= g + n => PayloadFrom \in 0..StreamSize)
    BY <1>2, <1>6, FrameSizes
  <2> QED BY <2>1, <2>2, <2>3 DEF Stretch
<1> QED BY <1>3, <1>6, <1>14, <1>15, <1>16, <1>17, <1>18 DEF SocksInv, Stretch

\* Every step keeps the invariant.
LEMMA SocksStepKept == SocksInv /\ [SocksNext]_socksVars => SocksInv'
<1> SUFFICES ASSUME SocksInv, [SocksNext]_socksVars PROVE SocksInv'
  OBVIOUS
<1>1. CASE UNCHANGED socksVars
  BY <1>1 DEF SocksInv, SocksKinds, EndsAgree, Given, Stretch, Going, socksVars
<1>2. CASE SocksNext
  BY <1>2, SocksEndingKept, RelayKept, ConnectedKept, DataKept DEF SocksNext
<1> QED BY <1>1, <1>2

\* The invariant holds throughout.
THEOREM SocksInvariance == SocksSpec => []SocksInv
<1>1. SocksInit => SocksInv
  BY SocksInitInv
<1>2. SocksInv /\ [SocksNext]_socksVars => SocksInv'
  BY SocksStepKept
<1> QED BY <1>1, <1>2, PTL DEF SocksSpec

\* The relay, its buffers and the test keep their types.
THEOREM SocksTypes == SocksSpec => []SocksTypeOK
<1>1. SocksInv => SocksTypeOK
  <2> SUFFICES ASSUME SocksInv PROVE SocksTypeOK
    OBVIOUS
  <2>1. \A s : Stretch(s) => s \in Seq(1..StreamSize)
    BY BytesFacts DEF Stretch
  <2>2. PICK g \in Nat : Given(g)
    BY DEF SocksInv
  <2>3. Stretch(unread) /\ Stretch(relayed) /\ Stretch(framing) /\ Stretch(remainder)
    BY <2>2, FrameSizes DEF SocksInv, SocksKinds, Given, Stretch
  <2>4. {unread, framing, remainder, relayed} \subseteq Seq(1..StreamSize)
    BY <2>1, <2>3
  <2> QED BY <2>4 DEF SocksInv, SocksKinds, SocksTypeOK
<1> QED BY <1>1, SocksInvariance, PTL

\* What goes upstream is a first part of what the client sent behind its handshake, in
\* its order and nothing twice, whatever the chunks it arrived in: for streams and frames
\* of any size.
THEOREM RelayExact == SocksSpec => []RelayIsExact
<1>1. SocksInv => RelayIsExact
  <2> SUFFICES ASSUME SocksInv PROVE RelayIsExact
    OBVIOUS
  <2>1. PICK g \in Nat : Given(g)
    BY DEF SocksInv
  <2>2. PICK b \in PayloadFrom..StreamSize : relayed = Bytes(PayloadFrom, b)
    BY DEF SocksInv
  <2>3. PayloadFrom \in Nat /\ StreamSize \in Nat /\ b \in Nat /\ PayloadFrom <= b /\ sent \in Nat /\ g <= sent
    BY <2>1, <2>2, FrameSizes DEF SocksInv, SocksKinds, Given
  <2>4. Len(relayed) = b - PayloadFrom /\ PayloadFrom + (b - PayloadFrom) = b
    <3>1. Len(Bytes(PayloadFrom, b)) = b - PayloadFrom
      BY <2>3, BytesFacts
    <3> QED BY <2>2, <2>3, <3>1
  <2>5. relayed = Bytes(PayloadFrom, PayloadFrom + Len(relayed))
    BY <2>2, <2>4
  <2>6. ASSUME relay = "piped", client # "destroyed"
        PROVE  PayloadFrom + Len(relayed \o unread) = sent
    <3>1. Going
      BY <2>6 DEF SocksInv, SocksKinds, EndsAgree, Going
    <3>2. relayed = Bytes(PayloadFrom, g) /\ PayloadFrom <= g /\ unread = Bytes(g, sent)
      BY <2>1, <2>6, <3>1 DEF Given
    <3>3. relayed \o unread = Bytes(PayloadFrom, sent)
      BY <2>3, <3>2, BytesJoin
    <3>4. PayloadFrom <= sent /\ PayloadFrom + (sent - PayloadFrom) = sent
      BY <2>3, <3>2
    <3>5. Len(Bytes(PayloadFrom, sent)) = sent - PayloadFrom
      BY <2>3, <3>4, BytesFacts
    <3> QED BY <3>3, <3>4, <3>5
  <2>7. relay = "closed" => upstream # "open"
    BY DEF SocksInv, EndsAgree
  <2> QED BY <2>5, <2>6, <2>7 DEF RelayIsExact
<1> QED BY <1>1, SocksInvariance, PTL

-----------------------------------------------------------------------------
(* RingBuffer: what a push, a clear and a change of one entry leave in a     *)
(* ring, whatever is in it, and which entries its newest n are.              *)

\* The slot of the entry i places behind the head h.
Place(h, i, cap) == (h + i) % cap

\* A ring as it can be: its entries are in its slots.
IsRing(r, cap) ==
  /\ r \in [slots : {r.slots}, head : 0..(cap - 1), size : 0..cap, total : Nat] /\ r.size <= r.total
  /\ \A i \in 0..(r.size - 1) : Place(r.head, i, cap) \in DOMAIN r.slots

\* Places go round at most once.
LEMMA Places ==
  ASSUME NEW cap \in Nat \ {0}, NEW h \in 0..(cap - 1), NEW i \in 0..cap
  PROVE  /\ Place(h, i, cap) = IF h + i < cap THEN h + i ELSE h + i - cap
         /\ Place(h, i, cap) \in 0..(cap - 1)
<1>1. PICK x \in Nat : x = h + i
  OBVIOUS
<1>2. x < 2 * cap
  BY <1>1
<1>3. x % cap = IF x < cap THEN x ELSE x - cap
  BY <1>2
<1>4. x % cap \in 0..(cap - 1)
  BY <1>2, <1>3
<1> QED BY <1>1, <1>3, <1>4 DEF Place

\* An entry is what is in its slot.
LEMMA EntryIs == \A r, cap, i : EntryAt(r, cap, i) = r.slots[Place(r.head, i, cap)]
BY DEF EntryAt, Place

\* A push: the entry comes last, and a full ring loses its first.
Pushed(to, r, cap, e) ==
  /\ IsRing(to, cap) /\ to.total = r.total + 1 /\ to.size > 0
  /\ to.size = IF r.size < cap THEN r.size + 1 ELSE r.size
  /\ EntryAt(to, cap, to.size - 1) = e
  /\ \A i \in 0..(to.size - 2) :
       EntryAt(to, cap, i) = EntryAt(r, cap, IF r.size < cap THEN i ELSE i + 1)

\* It does so.
LEMMA PushIs ==
  ASSUME NEW cap \in Nat \ {0}, NEW r, IsRing(r, cap), NEW e, NEW to, to = Push(r, cap, e)
  PROVE  Pushed(to, r, cap, e)
<1>1. /\ r.head \in 0..(cap - 1) /\ r.size \in 0..cap /\ r.total \in Nat /\ r.size <= r.total
      /\ \A i \in 0..(r.size - 1) : Place(r.head, i, cap) \in DOMAIN r.slots
  BY DEF IsRing
<1>2. PICK at : at = Place(r.head, r.size, cap)
  OBVIOUS
<1>3. /\ to.slots = Put(r.slots, at, e) /\ to.total = r.total + 1
      /\ to.head = IF r.size < cap THEN r.head ELSE Place(r.head, 1, cap)
      /\ to.size = IF r.size < cap THEN r.size + 1 ELSE r.size
      /\ to = [slots |-> to.slots, head |-> to.head, size |-> to.size, total |-> to.total]
  BY <1>2 DEF Push, Place
<1>4. /\ DOMAIN to.slots = DOMAIN r.slots \cup {at} /\ to.slots[at] = e
      /\ \A j \in DOMAIN r.slots : j # at => to.slots[j] = r.slots[j]
  BY <1>3 DEF Put
<1>5. /\ at = IF r.head + r.size < cap THEN r.head + r.size ELSE r.head + r.size - cap
      /\ \A i \in 0..(cap - 1) : Place(r.head, i, cap) = IF r.head + i < cap THEN r.head + i ELSE r.head + i - cap
  <2>1. r.size \in 0..cap /\ \A i \in 0..(cap - 1) : i \in 0..cap
    BY <1>1
  <2> QED BY <1>1, <1>2, <2>1, Places
<1>6. to.head = IF r.size < cap THEN r.head ELSE IF r.head + 1 < cap THEN r.head + 1 ELSE 0
  BY <1>1, <1>3, Places
<1>7. to.head \in 0..(cap - 1) /\ to.size \in 1..cap /\ to.total \in Nat /\ to.size <= to.total
  BY <1>1, <1>3, <1>6
<1>8. \A i \in 0..(cap - 1) : Place(to.head, i, cap) = IF to.head + i < cap THEN to.head + i ELSE to.head + i - cap
  <2>1. to.head \in 0..(cap - 1) /\ \A i \in 0..(cap - 1) : i \in 0..cap
    BY <1>7
  <2> QED BY <2>1, Places
<1>9. Place(to.head, to.size - 1, cap) = at
  BY <1>1, <1>3, <1>5, <1>6, <1>7, <1>8
<1>10. ASSUME NEW i \in 0..(to.size - 2)
       PROVE  LET j == IF r.size < cap THEN i ELSE i + 1
              IN /\ j \in 0..(r.size - 1) /\ Place(to.head, i, cap) = Place(r.head, j, cap)
                 /\ Place(to.head, i, cap) # at
  <2>1. i \in 0..(cap - 1) /\ (r.size >= cap => i + 1 \in 0..(cap - 1))
    BY <1>1, <1>3
  <2>2. Place(to.head, i, cap) = IF to.head + i < cap THEN to.head + i ELSE to.head + i - cap
    BY <1>8, <2>1
  <2>3. CASE r.size < cap
    <3>1. i \in 0..(r.size - 1)
      BY <1>1, <1>3, <2>3
    <3>2. Place(r.head, i, cap) = IF r.head + i < cap THEN r.head + i ELSE r.head + i - cap
      BY <1>5, <2>1
    <3> QED BY <1>1, <1>5, <1>6, <2>2, <2>3, <3>1, <3>2
  <2>4. CASE r.size = cap
    <3>1. PICK j \in 0..(cap - 1) : j = i + 1
      BY <2>1, <2>4
    <3>2. Place(r.head, j, cap) = IF r.head + j < cap THEN r.head + j ELSE r.head + j - cap
      BY <1>5
    <3>3. j \in 1..(r.size - 1)
      BY <1>1, <1>3, <2>4, <3>1
    <3>4. /\ Place(to.head, i, cap) = Place(r.head, j, cap)
          /\ Place(to.head, i, cap) # at
      BY <1>1, <1>5, <1>6, <2>2, <2>4, <3>1, <3>2, <3>3
    <3> QED BY <2>4, <3>1, <3>3, <3>4
  <2> QED BY <1>1, <2>3, <2>4
<1>11. ASSUME NEW i \in 0..(to.size - 1) PROVE Place(to.head, i, cap) \in DOMAIN to.slots
  <2>1. CASE i = to.size - 1
    BY <1>4, <1>9, <2>1
  <2>2. CASE i # to.size - 1
    <3>1. i \in 0..(to.size - 2)
      BY <1>7, <2>2
    <3> QED BY <1>1, <1>4, <1>10, <3>1
  <2> QED BY <2>1, <2>2
<1>12. EntryAt(to, cap, to.size - 1) = e
  BY <1>4, <1>9, EntryIs
<1>13. ASSUME NEW i \in 0..(to.size - 2)
       PROVE  EntryAt(to, cap, i) = EntryAt(r, cap, IF r.size < cap THEN i ELSE i + 1)
  BY <1>1, <1>4, <1>10, EntryIs
<1>14. IsRing(to, cap)
  BY <1>3, <1>7, <1>11 DEF IsRing
<1> QED BY <1>3, <1>7, <1>12, <1>13, <1>14 DEF Pushed

\* A clear: no entry is left, and the total goes on.
LEMMA ClearIs ==
  ASSUME NEW cap \in Nat \ {0}, NEW r, IsRing(r, cap)
  PROVE  IsRing(Clear(r), cap) /\ Clear(r).total = r.total /\ Clear(r).size = 0
<1>1. r \in [slots : {r.slots}, head : 0..(cap - 1), size : 0..cap, total : Nat]
  BY DEF IsRing
<1>2. PICK to : to = Clear(r)
  OBVIOUS
<1>3. /\ to \in [slots : {r.slots}, head : 0..(cap - 1), size : 0..cap, total : Nat]
      /\ to.slots = r.slots /\ to.total = r.total /\ to.size = 0 /\ to.head = 0
  <2>1. 0 \in 0..(cap - 1) /\ 0 \in 0..cap
    OBVIOUS
  <2>2. to \in [slots : {r.slots}, head : 0..(cap - 1), size : 0..cap, total : Nat]
    BY <1>1, <1>2, <2>1, Zenon DEF Clear
  <2> QED BY <1>1, <1>2, <2>2 DEF Clear
<1>4. \A i \in 0..(to.size - 1) : FALSE
  BY <1>3
<1> QED BY <1>1, <1>2, <1>3, <1>4 DEF IsRing

\* A change of an entry leaves the others as they are.
LEMMA SetEntryIs ==
  ASSUME NEW cap \in Nat \ {0}, NEW r, IsRing(r, cap), NEW i \in 0..(r.size - 1), NEW e,
         NEW to, to = SetEntry(r, cap, i, e)
  PROVE  /\ IsRing(to, cap) /\ to.total = r.total /\ to.size = r.size
         /\ \A j \in 0..(r.size - 1) : EntryAt(to, cap, j) = IF j = i THEN e ELSE EntryAt(r, cap, j)
<1>1. /\ r.head \in 0..(cap - 1) /\ r.size \in 0..cap /\ r.total \in Nat /\ r.size <= r.total
      /\ \A j \in 0..(r.size - 1) : Place(r.head, j, cap) \in DOMAIN r.slots
      /\ r = [slots |-> r.slots, head |-> r.head, size |-> r.size, total |-> r.total]
  BY DEF IsRing
<1>2. PICK at : at = Place(r.head, i, cap)
  OBVIOUS
<1>3. /\ to.slots = Put(r.slots, at, e) /\ to.total = r.total /\ to.head = r.head /\ to.size = r.size
      /\ to = [slots |-> to.slots, head |-> to.head, size |-> to.size, total |-> to.total]
  BY <1>1, <1>2 DEF SetEntry, Place
<1>4. /\ DOMAIN to.slots = DOMAIN r.slots \cup {at} /\ to.slots[at] = e
      /\ \A j \in DOMAIN r.slots : j # at => to.slots[j] = r.slots[j]
  BY <1>3 DEF Put
<1>5. \A j \in 0..(r.size - 1) : Place(r.head, j, cap) = IF r.head + j < cap THEN r.head + j ELSE r.head + j - cap
  BY <1>1, Places
<1>6. \A j \in 0..(r.size - 1) : j # i => Place(r.head, j, cap) # at
  BY <1>1, <1>2, <1>5
<1>7. IsRing(to, cap)
  BY <1>1, <1>3, <1>4 DEF IsRing
<1>8. ASSUME NEW j \in 0..(r.size - 1)
      PROVE  EntryAt(to, cap, j) = IF j = i THEN e ELSE EntryAt(r, cap, j)
  BY <1>1, <1>2, <1>3, <1>4, <1>6, EntryIs
<1> QED BY <1>3, <1>7, <1>8

\* The newest n entries are the last n places, or all of them.
LEMMA LastIs ==
  ASSUME NEW cap \in Nat \ {0}, NEW r, IsRing(r, cap), NEW n \in Nat,
         NEW size \in Nat, size = r.size,
         NEW count \in Nat, count <= n, count <= size, count = n \/ count = size
  PROVE  /\ DOMAIN LastN(r, cap, n) = 1..count
         /\ \A i \in 1..count : LastN(r, cap, n)[i] = EntryAt(r, cap, size - count + i - 1)
<1>1. r.head \in 0..(cap - 1) /\ r.size \in 0..cap
  BY DEF IsRing
<1>2. count \in 0..r.size
  BY <1>1
<1>3. PICK start : start = Place(r.head, r.size - count, cap)
  OBVIOUS
<1>4. PICK skip \in 0..cap : skip = r.size - count
  BY <1>1, <1>2
<1>5. start = IF r.head + skip < cap THEN r.head + skip ELSE r.head + skip - cap
  BY <1>1, <1>3, <1>4, Places
<1>6. ASSUME NEW i \in 1..count
      PROVE  Place(start, i - 1, cap) = Place(r.head, r.size - count + i - 1, cap)
  <2>1. PICK k \in 0..cap : k = i - 1
    BY <1>1, <1>2
  <2>2. PICK s \in 0..(cap - 1) : s = start
    BY <1>1, <1>4, <1>5
  <2>3. PICK m \in 0..cap : m = skip + k
    BY <1>1, <1>2, <1>4, <2>1
  <2>4. Place(s, k, cap) = IF s + k < cap THEN s + k ELSE s + k - cap
    BY Places
  <2>5. Place(r.head, m, cap) = IF r.head + m < cap THEN r.head + m ELSE r.head + m - cap
    BY <1>1, Places
  <2>6. i - 1 = k /\ r.size - count + i - 1 = m
    BY <1>1, <1>2, <1>4, <2>1, <2>2, <2>3
  <2>7. m < cap
    BY <1>1, <1>2, <1>4, <2>1, <2>3
  <2>8. Place(s, k, cap) = Place(r.head, m, cap)
    BY <1>1, <1>4, <1>5, <2>1, <2>2, <2>3, <2>4, <2>5, <2>7
  <2>9. start = s /\ i - 1 = k /\ r.size - count + i - 1 = m
    BY <2>2, <2>6
  <2> QED BY <2>8, <2>9, Zenon
<1>7. LastN(r, cap, n) = [i \in 1..count |-> r.slots[Place(start, i - 1, cap)]]
  <2>1. (r.head + r.size - count) % cap = start
    <3>1. r.head + r.size - count = r.head + (r.size - count)
      BY <1>1, <1>2
    <3> QED BY <1>3, <3>1 DEF Place
  <2>2. \A i \in 1..count : (start + i - 1) % cap = Place(start, i - 1, cap)
    <3> SUFFICES ASSUME NEW i \in 1..count PROVE (start + i - 1) % cap = Place(start, i - 1, cap)
      OBVIOUS
    <3>1. start \in Nat /\ start + i - 1 = start + (i - 1)
      BY <1>1, <1>2, <1>4, <1>5
    <3> QED BY <3>1 DEF Place
  <2>3. count = IF n < r.size THEN n ELSE r.size
    BY <1>1
  <2>4. LastN(r, cap, n) = [i \in 1..count |-> r.slots[(start + i - 1) % cap]]
    BY <2>1, <2>3 DEF LastN
  <2> QED BY <2>2, <2>4
<1> QED BY <1>2, <1>6, <1>7, EntryIs

-----------------------------------------------------------------------------
(* LogBuffers: LogsWrittenOnce and AnswersAreOwn, for any number of logs,    *)
(* URLs and entries.  A ring holds the latest numbers in order, so what a    *)
(* flush finds new is an interval; what that interval lacks of the numbers   *)
(* since the last flush is exactly what is lost.  An answer goes to the      *)
(* newest entry of its URL that waits for it: until two requests to one URL  *)
(* overlap, that is its own, or its own is no longer there.                  *)

\* An entry as it can be.
Entry == [n : Nat, url : Urls \cup {NoUrl}, status : Nat, size : Nat]

\* An entry of a log.
EntryOf(l, i) == EntryAt(ring[l], LogCapacity, i)

\* The entries of a ring have the latest numbers, in order.
Numbered(r) ==
  \A i \in 0..(r.size - 1) : /\ EntryAt(r, LogCapacity, i) \in Entry
                             /\ EntryAt(r, LogCapacity, i).n = r.total - r.size + i + 1

\* The kinds of the variables.
LogKinds ==
  /\ ring = [l \in Logs |-> ring[l]] /\ flushed \in [Logs -> Nat]
  /\ logFile \in [Logs -> Seq(Nat)] /\ lost \in [Logs -> SUBSET Nat]
  /\ \A l \in Logs : IsRing(ring[l], LogCapacity) /\ Numbered(ring[l]) /\ flushed[l] <= ring[l].total

\* A file's lines that are not empty.
Positions(f) == {k \in 1..Len(f) : f[k] # 0}
\* Their numbers ascend.
Rising(f) == \A i, j \in Positions(f) : i < j => f[i] < f[j]
\* The numbers in a file.
Numbers(f) == {f[i] : i \in Positions(f)}
\* A file has, in order, every number up to n that is not gone.
Holds(f, n, gone) == Rising(f) /\ Numbers(f) = (1..n) \ gone

\* Of the numbers that no flush has passed, those gone are those the ring lacks.
GoneSince(gone, passed, total, size) ==
  \A n \in (passed + 1)..total : n \in gone <=> n <= total - size

\* What a flush finds to append.
Newest(w, passed, total, size) ==
  \/ size = 0 /\ w = << 0 >>
  \/ \E count \in 1..size : /\ count <= total - passed /\ (count = total - passed \/ count = size)
                            /\ w = [i \in 1..count |-> total - count + i]

\* What a log has lost is all that its file and its ring lack.
Complete(l) ==
  /\ Holds(logFile[l], flushed[l], lost[l]) /\ lost[l] \subseteq 1..ring[l].total
  /\ GoneSince(lost[l], flushed[l], ring[l].total, ring[l].size)

\* The constants.
LEMMA LogNumbers == LogCapacity \in Nat \ {0} /\ MaxEntries \in Nat /\ Logs \subseteq Nat /\ 1 \in Logs /\ NoUrl \notin Urls
BY LogAssumption

\* What a ring retains.
LEMMA RetainedAre ==
  ASSUME NEW r, IsRing(r, LogCapacity)
  PROVE  Range(ToArray(r, LogCapacity)) = {EntryAt(r, LogCapacity, i) : i \in 0..(r.size - 1)}
<1>1. r.size \in Nat
  BY LogNumbers DEF IsRing
<1>2. \A i \in 1..r.size : i - 1 \in 0..(r.size - 1)
  BY <1>1
<1>3. \A i \in 0..(r.size - 1) : i + 1 \in 1..r.size /\ (i + 1) - 1 = i
  BY <1>1
<1>4. Range(ToArray(r, LogCapacity)) = {EntryAt(r, LogCapacity, i - 1) : i \in 1..r.size}
  BY DEF Range, ToArray
<1> QED BY <1>2, <1>3, <1>4, Zenon

\* The numbers that it retains are an interval.
LEMMA NumbersAre ==
  ASSUME NEW r, IsRing(r, LogCapacity), Numbered(r)
  PROVE  {e.n : e \in Range(ToArray(r, LogCapacity))} = (r.total - r.size + 1)..r.total
<1>1. r.size \in Nat /\ r.total \in Nat /\ r.size <= r.total
  BY LogNumbers DEF IsRing
<1>2. \A n : n \in {e.n : e \in Range(ToArray(r, LogCapacity))}
            <=> \E i \in 0..(r.size - 1) : n = EntryAt(r, LogCapacity, i).n
  <2>1. Range(ToArray(r, LogCapacity)) = {EntryAt(r, LogCapacity, i) : i \in 0..(r.size - 1)}
    BY RetainedAre
  <2>2. ASSUME NEW n PROVE n \in {e.n : e \in {EntryAt(r, LogCapacity, i) : i \in 0..(r.size - 1)}}
            <=> \E i \in 0..(r.size - 1) : n = EntryAt(r, LogCapacity, i).n
    OBVIOUS
  <2> QED BY <2>1, <2>2
<1>3. \A i \in 0..(r.size - 1) : EntryAt(r, LogCapacity, i).n = r.total - r.size + i + 1
  BY DEF Numbered
<1>4. \A n \in (r.total - r.size + 1)..r.total :
        \E i \in 0..(r.size - 1) : n = r.total - r.size + i + 1
  <2> SUFFICES ASSUME NEW n \in (r.total - r.size + 1)..r.total
               PROVE  \E i \in 0..(r.size - 1) : n = r.total - r.size + i + 1
    OBVIOUS
  <2>1. n - (r.total - r.size + 1) \in 0..(r.size - 1)
    BY <1>1
  <2>2. n = r.total - r.size + (n - (r.total - r.size + 1)) + 1
    BY <1>1
  <2> QED BY <2>1, <2>2
<1>5. \A i \in 0..(r.size - 1) : r.total - r.size + i + 1 \in (r.total - r.size + 1)..r.total
  BY <1>1
<1>6. ASSUME NEW n \in {e.n : e \in Range(ToArray(r, LogCapacity))}
      PROVE  n \in (r.total - r.size + 1)..r.total
  <2>1. PICK i \in 0..(r.size - 1) : n = EntryAt(r, LogCapacity, i).n
    BY <1>2, <1>6, Zenon
  <2>2. n = r.total - r.size + i + 1
    BY <1>3, <2>1, Zenon
  <2> QED BY <1>5, <2>2, Zenon
<1>7. ASSUME NEW n \in (r.total - r.size + 1)..r.total
      PROVE  n \in {e.n : e \in Range(ToArray(r, LogCapacity))}
  BY <1>2, <1>3, <1>4, <1>7, ZenonT(40)
<1> QED BY <1>6, <1>7, Zenon

\* What is lost when a ring changes.
LEMMA LosesIs ==
  ASSUME LogKinds, NEW l \in Logs, NEW to, IsRing(to, LogCapacity), Numbered(to), Loses(l, to),
         ring[l].total - ring[l].size <= to.total - to.size,
         to.total - to.size <= ring[l].total, ring[l].total <= to.total
  PROVE  /\ lost' \in [Logs -> SUBSET Nat]
         /\ \A k \in Logs : k # l => lost'[k] = lost[k]
         /\ \A n : n \in lost'[l] <=>
                     \/ n \in lost[l]
                     \/ n \in (flushed[l] + 1)..(to.total - to.size) /\ n > ring[l].total - ring[l].size
<1>1. /\ ring[l].size \in Nat /\ ring[l].total \in Nat /\ to.size \in Nat /\ to.total \in Nat
      /\ ring[l].size <= ring[l].total /\ to.size <= to.total
      /\ flushed[l] \in Nat /\ lost \in [Logs -> SUBSET Nat]
  BY LogNumbers, SMTT(20) DEF LogKinds, IsRing
<1>2. Unflushed(l) = ((ring[l].total - ring[l].size + 1)..ring[l].total) \ 1..flushed[l]
  BY NumbersAre DEF Unflushed, Retained, LogKinds
<1>3. {e.n : e \in Range(ToArray(to, LogCapacity))} = (to.total - to.size + 1)..to.total
  BY NumbersAre
<1>4. PICK gone : gone = (((ring[l].total - ring[l].size + 1)..ring[l].total) \ 1..flushed[l])
                           \ ((to.total - to.size + 1)..to.total)
  OBVIOUS
<1>5. lost' = [lost EXCEPT ![l] = lost[l] \cup gone]
  BY <1>2, <1>3, <1>4, Zenon DEF Loses
<1>6. gone \subseteq Nat
  BY <1>1, <1>4
<1>7. \A n : n \in gone <=>
               n \in (flushed[l] + 1)..(to.total - to.size) /\ n > ring[l].total - ring[l].size
  BY <1>1, <1>4
<1> QED BY <1>1, <1>5, <1>6, <1>7

\* A ring that changes, and the history of it.
LEMMA RingKept ==
  ASSUME LogKinds, \A k \in Logs : Complete(k), NEW l \in Logs, NEW to,
         IsRing(to, LogCapacity), Numbered(to), Loses(l, to),
         ring[l].total - ring[l].size <= to.total - to.size,
         to.total - to.size <= ring[l].total, ring[l].total <= to.total,
         ring' = [ring EXCEPT ![l] = to], UNCHANGED <<flushed, logFile>>
  PROVE  LogKinds' /\ \A k \in Logs : Complete(k)'
<1>1. /\ ring[l].size \in Nat /\ ring[l].total \in Nat /\ to.size \in Nat /\ to.total \in Nat
      /\ flushed[l] \in Nat /\ flushed[l] <= ring[l].total
  BY LogNumbers DEF LogKinds, IsRing
<1>2. /\ lost' \in [Logs -> SUBSET Nat]
      /\ \A k \in Logs : k # l => lost'[k] = lost[k]
      /\ \A n : n \in lost'[l] <=>
                  \/ n \in lost[l]
                  \/ n \in (flushed[l] + 1)..(to.total - to.size) /\ n > ring[l].total - ring[l].size
  BY LosesIs
<1>3. /\ ring' = [k \in Logs |-> ring'[k]] /\ ring'[l] = to
      /\ \A k \in Logs : k # l => ring'[k] = ring[k]
  BY DEF LogKinds
<1>4. LogKinds'
  BY <1>1, <1>2, <1>3 DEF LogKinds
<1>5. Complete(l)'
  <2>1. /\ lost[l] \subseteq 1..ring[l].total
        /\ \A n \in (flushed[l] + 1)..ring[l].total : n \in lost[l] <=> n <= ring[l].total - ring[l].size
    BY DEF Complete, GoneSince
  <2>2. lost'[l] \subseteq 1..to.total
    BY <1>1, <1>2, <2>1
  <2>3. (1..flushed[l]) \ lost'[l] = (1..flushed[l]) \ lost[l]
    BY <1>1, <1>2
  <2>4. ASSUME NEW n \in (flushed[l] + 1)..to.total
        PROVE  n \in lost'[l] <=> n <= to.total - to.size
    <3>1. CASE n <= ring[l].total
      <4>1. n \in lost[l] <=> n <= ring[l].total - ring[l].size
        BY <1>1, <2>1, <3>1
      <4> QED BY <1>1, <1>2, <4>1
    <3>2. CASE ~(n <= ring[l].total)
      <4>1. n \notin lost[l] /\ ~(n <= to.total - to.size)
        BY <1>1, <2>1, <3>2
      <4> QED BY <1>1, <1>2, <4>1
    <3> QED BY <3>1, <3>2
  <2>5. GoneSince(lost'[l], flushed[l], to.total, to.size)
    BY <2>4 DEF GoneSince
  <2>6. /\ Holds(logFile[l], flushed[l], lost'[l])
        /\ ring'[l] = to /\ flushed' = flushed /\ logFile' = logFile
    BY <1>3, <2>3 DEF Complete, Holds
  <2> QED BY <2>2, <2>5, <2>6 DEF Complete
<1>6. ASSUME NEW k \in Logs, k # l PROVE Complete(k)'
  BY <1>2, <1>3, <1>6 DEF Complete
<1> QED BY <1>4, <1>5, <1>6

\* A log's ring takes one entry more.
LEMMA AddKept ==
  ASSUME LogKinds, \A k \in Logs : Complete(k), NEW l \in Logs, NEW u \in Urls \cup {NoUrl},
         Add(l, u), UNCHANGED <<flushed, logFile>>
  PROVE  LogKinds' /\ \A k \in Logs : Complete(k)'
<1>1. PICK e : e = [n |-> ring[l].total + 1, url |-> u, status |-> 0, size |-> 0]
  OBVIOUS
<1>2. PICK to : to = Push(ring[l], LogCapacity, e)
  OBVIOUS
<1>3. ring' = [ring EXCEPT ![l] = to] /\ Loses(l, to)
  BY <1>1, <1>2, Zenon DEF Add
<1>4. /\ LogCapacity \in Nat \ {0} /\ IsRing(ring[l], LogCapacity) /\ Numbered(ring[l])
      /\ ring[l].size \in 0..LogCapacity /\ ring[l].total \in Nat /\ ring[l].size <= ring[l].total
  BY LogNumbers DEF LogKinds, IsRing
<1>5. e \in Entry /\ e.n = ring[l].total + 1
  BY <1>1, <1>4 DEF Entry
<1>6. /\ IsRing(to, LogCapacity) /\ to.total = ring[l].total + 1
      /\ to.size = IF ring[l].size < LogCapacity THEN ring[l].size + 1 ELSE ring[l].size
      /\ EntryAt(to, LogCapacity, to.size - 1) = e
      /\ \A i \in 0..(to.size - 2) :
           EntryAt(to, LogCapacity, i)
             = EntryAt(ring[l], LogCapacity, IF ring[l].size < LogCapacity THEN i ELSE i + 1)
  <2>1. Pushed(to, ring[l], LogCapacity, e)
    BY <1>2, <1>4, PushIs
  <2> QED BY <2>1 DEF Pushed
<1>7. Numbered(to)
  <2>1. ASSUME NEW i \in 0..(to.size - 1)
        PROVE  /\ EntryAt(to, LogCapacity, i) \in Entry
               /\ EntryAt(to, LogCapacity, i).n = to.total - to.size + i + 1
    <3>1. CASE i = to.size - 1
      <4>1. EntryAt(to, LogCapacity, i) = e
        BY <1>6, <3>1
      <4>2. to.total = to.total - to.size + i + 1
        BY <1>4, <1>6, <3>1
      <4> QED BY <1>5, <1>6, <4>1, <4>2
    <3>2. CASE i # to.size - 1
      <4>1. i \in 0..(to.size - 2)
        BY <1>4, <1>6, <3>2
      <4>2. PICK j : j = IF ring[l].size < LogCapacity THEN i ELSE i + 1
        OBVIOUS
      <4>3. j \in 0..(ring[l].size - 1) /\ EntryAt(to, LogCapacity, i) = EntryAt(ring[l], LogCapacity, j)
        <5>1. j \in 0..(ring[l].size - 1)
          BY <1>4, <1>6, <4>1, <4>2
        <5> QED BY <1>6, <4>1, <4>2, <5>1
      <4>4. /\ EntryAt(ring[l], LogCapacity, j) \in Entry
            /\ EntryAt(ring[l], LogCapacity, j).n = ring[l].total - ring[l].size + j + 1
        BY <1>4, <4>3 DEF Numbered
      <4>5. ring[l].total - ring[l].size + j + 1 = to.total - to.size + i + 1
        BY <1>4, <1>6, <4>1, <4>2
      <4> QED BY <4>3, <4>4, <4>5
    <3> QED BY <3>1, <3>2
  <2> QED BY <2>1 DEF Numbered
<1>8. /\ ring[l].total - ring[l].size <= to.total - to.size
      /\ to.total - to.size <= ring[l].total /\ ring[l].total <= to.total
  BY <1>4, <1>6
<1> QED BY <1>3, <1>6, <1>7, <1>8, RingKept

\* A log is cleared.
LEMMA ClearKept ==
  ASSUME LogKinds, \A k \in Logs : Complete(k), NEW l \in Logs, ClearLog(l)
  PROVE  LogKinds' /\ \A k \in Logs : Complete(k)'
<1>1. PICK to : to = Clear(ring[l])
  OBVIOUS
<1>2. ring' = [ring EXCEPT ![l] = to] /\ Loses(l, to) /\ UNCHANGED <<flushed, logFile>>
  BY <1>1 DEF ClearLog
<1>3. /\ LogCapacity \in Nat \ {0} /\ IsRing(ring[l], LogCapacity)
      /\ ring[l].size \in Nat /\ ring[l].total \in Nat /\ ring[l].size <= ring[l].total
  BY LogNumbers DEF LogKinds, IsRing
<1>4. IsRing(to, LogCapacity) /\ to.total = ring[l].total /\ to.size = 0
  BY <1>1, <1>3, ClearIs
<1>5. Numbered(to)
  BY <1>4 DEF Numbered
<1>6. ring[l].total - ring[l].size <= to.total - to.size /\ to.total - to.size <= ring[l].total /\ ring[l].total <= to.total
  BY <1>3, <1>4
<1> QED BY <1>2, <1>4, <1>5, <1>6, RingKept

\* An entry changes what it shows, and keeps its number.
LEMMA SetKept ==
  ASSUME LogKinds, \A k \in Logs : Complete(k), NEW i \in 0..(ring[1].size - 1), NEW e \in Entry,
         e.n = EntryOf(1, i).n, ring' = [ring EXCEPT ![1] = SetEntry(ring[1], LogCapacity, i, e)],
         UNCHANGED <<flushed, logFile, lost>>
  PROVE  LogKinds' /\ \A k \in Logs : Complete(k)'
<1>1. PICK to : to = SetEntry(ring[1], LogCapacity, i, e)
  OBVIOUS
<1>2. 1 \in Logs /\ LogCapacity \in Nat \ {0} /\ IsRing(ring[1], LogCapacity) /\ Numbered(ring[1])
  BY LogNumbers DEF LogKinds
<1>3. /\ IsRing(to, LogCapacity) /\ to.total = ring[1].total /\ to.size = ring[1].size
      /\ \A j \in 0..(ring[1].size - 1) :
           EntryAt(to, LogCapacity, j) = IF j = i THEN e ELSE EntryAt(ring[1], LogCapacity, j)
  BY <1>1, <1>2, SetEntryIs
<1>4. Numbered(to)
  BY <1>2, <1>3 DEF Numbered, EntryOf
<1>5. /\ ring' = [k \in Logs |-> ring'[k]] /\ ring'[1] = to
      /\ \A k \in Logs : k # 1 => ring'[k] = ring[k]
  BY <1>1, <1>2 DEF LogKinds
<1>6. LogKinds'
  BY <1>3, <1>4, <1>5 DEF LogKinds
<1>7. ASSUME NEW k \in Logs PROVE Complete(k)'
  <2>1. ring'[k].total = ring[k].total /\ ring'[k].size = ring[k].size
    BY <1>3, <1>5
  <2> QED BY <2>1 DEF Complete
<1> QED BY <1>6, <1>7

\* What a flush appends for one log.
LEMMA WrittenIs ==
  ASSUME LogKinds, NEW l \in Logs, New(l) > 0
  PROVE  /\ Written(l) \in Seq(Nat)
         /\ \/ ring[l].size = 0 /\ Written(l) = << 0 >>
            \/ \E count \in 1..ring[l].size :
                 /\ count = IF New(l) < ring[l].size THEN New(l) ELSE ring[l].size
                 /\ Written(l) = [i \in 1..count |-> ring[l].total - count + i]
<1>1. /\ LogCapacity \in Nat \ {0} /\ IsRing(ring[l], LogCapacity) /\ Numbered(ring[l])
      /\ ring[l].size \in Nat /\ ring[l].total \in Nat /\ ring[l].size <= ring[l].total
      /\ flushed[l] \in Nat /\ flushed[l] <= ring[l].total
  BY LogNumbers DEF LogKinds, IsRing
<1>2. New(l) \in Nat /\ New(l) > 0
  BY <1>1 DEF New
<1>3. PICK count : count = IF New(l) < ring[l].size THEN New(l) ELSE ring[l].size
  OBVIOUS
<1>4. PICK entries : entries = LastN(ring[l], LogCapacity, New(l))
  OBVIOUS
<1>5. /\ count \in 0..ring[l].size /\ DOMAIN entries = 1..count
      /\ \A i \in 1..count : entries[i] = EntryAt(ring[l], LogCapacity, ring[l].size - count + i - 1)
  <2>1. /\ count \in Nat /\ count <= ring[l].size /\ count <= New(l)
        /\ count = New(l) \/ count = ring[l].size
    BY <1>1, <1>2, <1>3
  <2>2. PICK n \in Nat, size \in Nat : n = New(l) /\ size = ring[l].size
    BY <1>1, <1>2
  <2>3. /\ DOMAIN LastN(ring[l], LogCapacity, n) = 1..count
        /\ \A i \in 1..count : LastN(ring[l], LogCapacity, n)[i] = EntryAt(ring[l], LogCapacity, size - count + i - 1)
    <3>1. /\ LogCapacity \in Nat \ {0} /\ IsRing(ring[l], LogCapacity)
          /\ n \in Nat /\ size \in Nat /\ size = ring[l].size
          /\ count \in Nat /\ count <= n /\ count <= size /\ (count = n \/ count = size)
      BY <1>1, <2>1, <2>2
    <3>2. DOMAIN LastN(ring[l], LogCapacity, n) = 1..count
      BY <3>1, LastIs
    <3>3. \A i \in 1..count : LastN(ring[l], LogCapacity, n)[i] = EntryAt(ring[l], LogCapacity, size - count + i - 1)
      BY <3>1, LastIs, SMTT(20)
    <3> QED BY <3>2, <3>3
  <2> QED BY <1>4, <2>1, <2>2, <2>3
<1>6. Written(l) = IF entries = <<>> THEN << 0 >> ELSE [i \in DOMAIN entries |-> entries[i].n]
  BY <1>4 DEF Written
<1>7. CASE count = 0
  <2>0. entries = [i \in DOMAIN entries |-> entries[i]]
    BY <1>4 DEF LastN
  <2>1. entries = <<>> /\ ring[l].size = 0
    BY <1>1, <1>2, <1>3, <1>5, <1>7, <2>0
  <2> QED BY <1>6, <2>1
<1>8. CASE count # 0
  <2>1. count \in 1..ring[l].size /\ DOMAIN entries = 1..count
    BY <1>1, <1>5, <1>8
  <2>2. entries # <<>>
    BY <2>1
  <2>3. ASSUME NEW i \in 1..count PROVE entries[i].n = ring[l].total - count + i
    <3>1. PICK j \in 0..(ring[l].size - 1) : j = ring[l].size - count + i - 1
      BY <1>1, <2>1
    <3>2. EntryAt(ring[l], LogCapacity, j).n = ring[l].total - ring[l].size + j + 1
      BY <1>1 DEF Numbered
    <3>3. ring[l].total - ring[l].size + j + 1 = ring[l].total - count + i
      BY <1>1, <2>1, <3>1, SMTT(20)
    <3> QED BY <1>5, <3>1, <3>2, <3>3
  <2>4. Written(l) = [i \in 1..count |-> ring[l].total - count + i]
    BY <1>6, <2>1, <2>2, <2>3, Zenon
  <2>5. \A i \in 1..count : ring[l].total - count + i \in Nat
    BY <1>1, <2>1
  <2>6. Written(l) \in Seq(Nat)
    BY <2>1, <2>4, <2>5
  <2> QED BY <1>3, <2>1, <2>4, <2>6
<1> QED BY <1>7, <1>8

\* A file f of the entries up to passed, less what is gone, goes on with the entries of
\* w, the newest ones up to total: it has those up to total, less what is gone.
LEMMA AppendsNew ==
  ASSUME NEW f \in Seq(Nat), NEW w \in Seq(Nat), NEW file \in Seq(Nat), file = f \o w,
         NEW passed \in Nat, NEW total \in Nat, NEW size \in Nat, passed < total, size <= total,
         NEW gone \in SUBSET Nat, gone \subseteq 1..total,
         Holds(f, passed, gone), GoneSince(gone, passed, total, size), Newest(w, passed, total, size)
  PROVE  Holds(file, total, gone)
<1>1. PICK m \in Nat : m = Len(f)
  OBVIOUS
<1>5. /\ Len(w) \in Nat /\ Len(file) = m + Len(w)
      /\ \A k \in 1..m : file[k] = f[k]
      /\ \A k \in (m + 1)..(m + Len(w)) : file[k] = w[k - m]
  BY <1>1
<1>6. PICK shown : shown = Positions(file) /\ shown = {k \in 1..Len(file) : file[k] # 0}
  BY DEF Positions
<1>7. PICK old : old = Positions(f) /\ old = {k \in 1..m : f[k] # 0}
  BY <1>1 DEF Positions
<1>8. /\ \A i, j \in old : i < j => f[i] < f[j]
      /\ {f[i] : i \in old} = (1..passed) \ gone
      /\ gone \subseteq 1..total
      /\ \A n \in (passed + 1)..total : n \in gone <=> n <= total - size
  BY <1>7 DEF Holds, Rising, Numbers, GoneSince
<1>9. \A n : n \in (1..passed) \ gone <=> \E i \in old : n = f[i]
  BY <1>8
<1>10. old \subseteq shown /\ \A k \in old : k \in 1..m /\ file[k] = f[k] /\ f[k] \in 1..passed
  BY <1>5, <1>6, <1>7, <1>9
<1>11. ASSUME size = 0, w = << 0 >>
       PROVE  /\ \A i, j \in shown : i < j => file[i] < file[j]
              /\ {file[i] : i \in shown} = (1..total) \ gone
  <2>1. Len(w) = 1 /\ w[1] = 0
    BY <1>11
  <2>2. shown = old
    <3>1. Len(file) = m + 1 /\ file[m + 1] = 0
      BY <1>5, <2>1
    <3>2. ASSUME NEW k PROVE k \in shown <=> k \in old
      <4>1. k \in shown <=> k \in 1..(m + 1) /\ file[k] # 0
        BY <1>6, <3>1
      <4>2. k \in old <=> k \in 1..m /\ f[k] # 0
        BY <1>7
      <4>3. k \in 1..(m + 1) <=> (k \in 1..m \/ k = m + 1)
        OBVIOUS
      <4> QED BY <1>5, <3>1, <4>1, <4>2, <4>3
    <3> QED BY <3>2
  <2>3. \A i, j \in shown : i < j => file[i] < file[j]
    BY <1>8, <1>10, <2>2
  <2>4. \A n : n \in (1..total) \ gone <=> n \in (1..passed) \ gone
    BY <1>8, <1>11
  <2>5. \A n : n \in (1..total) \ gone <=> \E i \in shown : n = file[i]
    <3>1. \A n : n \in (1..total) \ gone <=> \E i \in old : n = f[i]
      BY <1>9, <2>4, Zenon
    <3>2. \A i \in old : file[i] = f[i]
      BY <1>10
    <3>3. ASSUME NEW n PROVE (\E i \in old : n = f[i]) <=> (\E i \in shown : n = file[i])
      BY <2>2, <3>2
    <3> QED BY <3>1, <3>3, ZenonT(40)
  <2>6. {file[i] : i \in shown} = (1..total) \ gone
    BY <2>5
  <2> QED BY <2>3, <2>6
<1>12. ASSUME NEW count \in 1..size,
              count <= total - passed, count = total - passed \/ count = size,
              w = [i \in 1..count |-> total - count + i]
       PROVE  /\ \A i, j \in shown : i < j => file[i] < file[j]
              /\ {file[i] : i \in shown} = (1..total) \ gone
  <2>1. count \in Nat /\ count > 0 /\ count <= size /\ count <= total - passed
    BY <1>12
  <2>2. count = size \/ count = total - passed
    BY <1>12
  <2>3. Len(w) = count /\ \A i \in 1..count : w[i] = total - count + i
    BY <1>12, <2>1
  <2>4. \A k \in (m + 1)..(m + count) :
          k - m \in 1..count /\ file[k] = total - count + (k - m)
    BY <1>5, <2>1, <2>3
  <2>5. \A k \in (m + 1)..(m + count) : k \in shown /\ file[k] > passed
    BY <1>5, <1>6, <2>1, <2>3, <2>4, SMTT(20)
  <2>6. \A k \in shown : k \in old \/ k \in (m + 1)..(m + count)
    BY <1>5, <1>6, <1>7, <2>1, <2>3
  <2>7. ASSUME NEW i \in shown, NEW j \in shown, i < j PROVE file[i] < file[j]
    <3>1. CASE i \in old /\ j \in old
      BY <1>8, <1>10, <2>7, <3>1
    <3>2. CASE i \in old /\ j \in (m + 1)..(m + count)
      <4>1. file[i] \in 1..passed
        BY <1>10, <3>2
      <4>2. file[j] = total - count + (j - m) /\ j - m \in 1..count
        BY <2>4, <3>2
      <4>3. PICK k \in 1..count : k = j - m
        BY <4>2
      <4>4. file[j] > passed
        BY <2>5, <3>2
      <4>5. file[j] = total - count + k
        BY <4>2, <4>3
      <4>6. PICK a \in 1..passed : a = file[i]
        BY <4>1
      <4>7. PICK b \in Nat : b = total - count + k
        BY <2>1
      <4>8. b = file[j]
        BY <4>5, <4>7, Zenon
      <4>9. b > passed
        BY <4>4, <4>8, Zenon
      <4>10. a < b
        BY <4>9
      <4> QED BY <4>6, <4>8, <4>10, Zenon
    <3>3. CASE i \in (m + 1)..(m + count) /\ j \in (m + 1)..(m + count)
      <4>1. /\ file[i] = total - count + (i - m) /\ file[j] = total - count + (j - m)
            /\ i \in Nat /\ j \in Nat
        <5>1. i \in Nat /\ j \in Nat
          BY <2>1, <3>3
        <5> QED BY <2>4, <3>3, <5>1
      <4> QED BY <2>1, <2>7, <4>1
    <3>4. CASE i \in (m + 1)..(m + count) /\ j \in old
      BY <1>5, <1>10, <2>1, <2>7, <3>4
    <3> QED BY <2>6, <3>1, <3>2, <3>3, <3>4
  <2>8. ASSUME NEW n PROVE n \in (1..total) \ gone <=> \E i \in shown : n = file[i]
    <3>1. ASSUME NEW i \in shown, n = file[i] PROVE n \in (1..total) \ gone
      <4>1. CASE i \in old
        <5>1. n \in (1..passed) \ gone
          BY <1>9, <1>10, <3>1, <4>1
        <5> QED BY <5>1
      <4>2. CASE i \in (m + 1)..(m + count)
        <5>1. n \in (total - count + 1)..total /\ n > passed
          <6>1. i - m \in 1..count /\ n = total - count + (i - m)
            BY <2>4, <3>1, <4>2
          <6>2. n > passed
            BY <2>5, <3>1, <4>2
          <6>3. PICK k \in 1..count : k = i - m
            BY <6>1
          <6>4. n = total - count + k
            BY <6>1, <6>3
          <6> QED BY <2>1, <6>2, <6>4
        <5>2. n \in (passed + 1)..total /\ n > total - size
          BY <2>1, <5>1
        <5>3. n \notin gone
          BY <1>8, <5>2
        <5> QED BY <5>2, <5>3
      <4> QED BY <2>6, <4>1, <4>2
    <3>2. ASSUME n \in (1..total) \ gone PROVE \E i \in shown : n = file[i]
      <4>1. CASE n <= passed
        <5>1. n \in (1..passed) \ gone
          BY <3>2, <4>1
        <5>2. PICK i \in old : n = f[i]
          BY <1>9, <5>1
        <5> QED BY <1>10, <5>2
      <4>2. CASE ~(n <= passed)
        <5>1. n \in (passed + 1)..total
          BY <3>2, <4>2
        <5>2. n > total - size
          BY <1>8, <3>2, <5>1
        <5>3. n \in (total - count + 1)..total
          BY <2>1, <2>2, <5>1, <5>2
        <5>4. PICK k \in (m + 1)..(m + count) : k = m + (n - (total - count))
          BY <1>5, <2>1, <5>3
        <5>5. file[k] = total - count + (k - m)
          BY <2>4
        <5>6. file[k] = n
          BY <1>5, <2>1, <5>3, <5>4, <5>5
        <5> QED BY <2>5, <5>6
      <4> QED BY <4>1, <4>2
    <3> QED BY <3>1, <3>2
  <2>9. {file[i] : i \in shown} = (1..total) \ gone
    BY <2>8
  <2> QED BY <2>7, <2>9
<1>13. /\ \A i, j \in shown : i < j => file[i] < file[j]
       /\ {file[i] : i \in shown} = (1..total) \ gone
  BY <1>11, <1>12 DEF Newest
<1> QED BY <1>6, <1>13 DEF Holds, Rising, Numbers

\* One log's part of a flush that reaches it.
LEMMA FlushOne ==
  ASSUME LogKinds, NEW l \in Logs, Complete(l), New(l) > 0
  PROVE  /\ logFile[l] \o Written(l) \in Seq(Nat)
         /\ Holds(logFile[l] \o Written(l), ring[l].total, lost[l])
<1>1. PICK f \in Seq(Nat) : f = logFile[l]
  BY DEF LogKinds
<1>2. PICK w \in Seq(Nat) : w = Written(l)
  BY WrittenIs
<1>3. PICK passed \in Nat, total \in Nat, size \in Nat, gone \in SUBSET Nat :
         passed = flushed[l] /\ total = ring[l].total /\ size = ring[l].size /\ gone = lost[l]
  BY LogNumbers, SMTT(20) DEF LogKinds, IsRing
<1>4. passed < total /\ size <= total /\ New(l) = total - passed
  BY <1>3, LogNumbers, SMTT(20) DEF LogKinds, IsRing, New
<1>5. Holds(f, passed, gone) /\ gone \subseteq 1..total /\ GoneSince(gone, passed, total, size)
  BY <1>1, <1>3, Zenon DEF Complete
<1>6. \/ size = 0 /\ w = << 0 >>
      \/ \E count \in 1..size : /\ count = IF New(l) < size THEN New(l) ELSE size
                                /\ w = [i \in 1..count |-> total - count + i]
  BY <1>2, <1>3, WrittenIs, ZenonT(40)
<1>7. Newest(w, passed, total, size)
  BY <1>4, <1>6 DEF Newest
<1>8. PICK file \in Seq(Nat) : file = f \o w
  <2>1. f \o w \in Seq(Nat)
    BY ConcatProperties
  <2> QED BY <2>1
<1>9. Holds(file, total, gone)
  <2>1. passed < total /\ size <= total /\ gone \subseteq 1..total
    BY <1>4, <1>5
  <2> QED BY <1>5, <1>7, <1>8, <2>1, AppendsNew
<1> QED BY <1>1, <1>2, <1>3, <1>8, <1>9, Zenon

\* A flush, of the logs that it reaches.
LEMMA FlushKept ==
  ASSUME LogKinds, \A l \in Logs : Complete(l), NEW failsAt, FlushBuffers(failsAt)
  PROVE  LogKinds' /\ \A l \in Logs : Complete(l)'
<1>1. PICK done \in SUBSET Logs : done = {l \in Logs : New(l) > 0 /\ l < failsAt}
  OBVIOUS
<1>2. /\ logFile' = [l \in Logs |-> IF l \in done THEN logFile[l] \o Written(l) ELSE logFile[l]]
      /\ flushed' = [l \in Logs |-> IF l \in done THEN ring[l].total ELSE flushed[l]]
      /\ ring' = ring /\ lost' = lost
  BY <1>1 DEF FlushBuffers
<1>3. \A l \in Logs : /\ IsRing(ring[l], LogCapacity) /\ Numbered(ring[l]) /\ flushed[l] <= ring[l].total
                       /\ ring[l].total \in Nat /\ ring[l].size \in Nat
                       /\ flushed[l] \in Nat /\ logFile[l] \in Seq(Nat) /\ lost[l] \in SUBSET Nat
  BY LogNumbers DEF LogKinds, IsRing
<1>4. ASSUME NEW l \in done
      PROVE  /\ logFile'[l] \in Seq(Nat) /\ flushed'[l] = ring[l].total
             /\ Holds(logFile'[l], flushed'[l], lost[l])
  <2>1. logFile'[l] = logFile[l] \o Written(l) /\ flushed'[l] = ring[l].total /\ New(l) > 0
    BY <1>1, <1>2
  <2> QED BY <2>1, FlushOne
<1>5. ASSUME NEW l \in Logs, l \notin done PROVE logFile'[l] = logFile[l] /\ flushed'[l] = flushed[l]
  BY <1>2, <1>5
<1>6. LogKinds'
  <2>1. \A l \in Logs : logFile'[l] \in Seq(Nat) /\ flushed'[l] \in Nat /\ flushed'[l] <= ring[l].total
    BY <1>3, <1>4, <1>5
  <2>2. logFile' \in [Logs -> Seq(Nat)] /\ flushed' \in [Logs -> Nat]
    BY <1>2, <2>1
  <2> QED BY <1>2, <1>3, <2>1, <2>2 DEF LogKinds
<1>7. ASSUME NEW l \in Logs PROVE Complete(l)'
  <2>1. CASE l \in done
    <3>1. GoneSince(lost[l], ring[l].total, ring[l].total, ring[l].size)
      BY <1>3 DEF GoneSince
    <3>2. lost[l] \subseteq 1..ring[l].total
      BY DEF Complete
    <3> QED BY <1>2, <1>4, <2>1, <3>1, <3>2 DEF Complete
  <2>2. CASE l \notin done
    BY <1>2, <1>5, <2>2 DEF Complete
  <2> QED BY <2>1, <2>2
<1> QED BY <1>6, <1>7

\* The places of the network's entries.
Places1 == 0..(ring[1].size - 1)
\* The fields that an answer fills.
Fields == {"status", "size"}
\* What an entry shows in a field.
Value(e, field) == e[field]
\* The request has had the event that fills the field.
Over(q, field) == IF field = "status" THEN q.is # "sent" ELSE q.is = "over"
\* A request as it can be.
Request == [url : Urls, is : States]

\* Every entry of the network's ring has the URL of the request of its number.
NetKinds ==
  /\ requests \in Seq(Request) /\ Len(requests) = ring[1].total /\ mixed \subseteq Urls
  /\ \A i \in Places1 : EntryOf(1, i).url = requests[EntryOf(1, i).n].url

\* What an entry shows is of a request to its URL that has had the event; no other entry
\* shows it; and it is the entry's own request until requests to the URL overlapped.
Answered(i, field, n) ==
  /\ n \in 1..Len(requests) /\ requests[n].url = EntryOf(1, i).url /\ Over(requests[n], field)
  /\ requests[n].url \notin mixed => n = EntryOf(1, i).n
  /\ \A j \in Places1 : Value(EntryOf(1, j), field) = n => j = i

\* That holds of all that is shown.
AnswersFound ==
  \A i \in Places1, field \in Fields :
     Value(EntryOf(1, i), field) # 0 => Answered(i, field, Value(EntryOf(1, i), field))

\* Of a URL whose requests never overlapped only the latest may be under way.
OneAtATime ==
  \A a, b \in 1..Len(requests) :
     a < b /\ requests[a].url = requests[b].url /\ requests[a].url \notin mixed
        => requests[a].is = "over"

\* The network.
NetInv == NetKinds /\ AnswersFound /\ OneAtATime

\* The network's ring, its entries and its requests.
LEMMA NetNumbers ==
  ASSUME LogKinds, NetInv
  PROVE  /\ 1 \in Logs /\ LogCapacity \in Nat \ {0} /\ IsRing(ring[1], LogCapacity) /\ Numbered(ring[1])
         /\ ring[1].size \in Nat /\ ring[1].total \in Nat /\ ring[1].size <= ring[1].total
         /\ Len(requests) = ring[1].total
         /\ \A n \in 1..Len(requests) : requests[n] \in Request
         /\ \A i \in Places1 : /\ EntryOf(1, i) \in Entry /\ i \in Nat
                               /\ EntryOf(1, i).n = ring[1].total - ring[1].size + i + 1
                               /\ EntryOf(1, i).n \in 1..Len(requests)
                               /\ EntryOf(1, i).url = requests[EntryOf(1, i).n].url
<1>1. /\ 1 \in Logs /\ LogCapacity \in Nat \ {0} /\ IsRing(ring[1], LogCapacity) /\ Numbered(ring[1])
      /\ ring[1].size \in Nat /\ ring[1].total \in Nat /\ ring[1].size <= ring[1].total
  BY LogNumbers DEF LogKinds, IsRing
<1>2. /\ Len(requests) = ring[1].total /\ requests \in Seq(Request)
      /\ \A i \in Places1 : EntryOf(1, i).url = requests[EntryOf(1, i).n].url
  BY DEF NetInv, NetKinds
<1>3. ASSUME NEW i \in Places1
      PROVE  /\ EntryOf(1, i) \in Entry /\ i \in Nat
             /\ EntryOf(1, i).n = ring[1].total - ring[1].size + i + 1
             /\ EntryOf(1, i).n \in 1..Len(requests)
  <2>1. i \in 0..(ring[1].size - 1) /\ i \in Nat
    BY <1>1 DEF Places1
  <2>2. EntryOf(1, i) \in Entry /\ EntryOf(1, i).n = ring[1].total - ring[1].size + i + 1
    BY <1>1, <2>1 DEF Numbered, EntryOf
  <2>3. ring[1].total - ring[1].size + i + 1 \in 1..ring[1].total
    BY <1>1, <2>1
  <2> QED BY <1>2, <2>1, <2>2, <2>3
<1>4. \A n \in 1..Len(requests) : requests[n] \in Request
  BY <1>2
<1> QED BY <1>1, <1>2, <1>3, <1>4

\* Nothing of the network changes.
LEMMA NetSame ==
  ASSUME NetInv, ring'[1] = ring[1], UNCHANGED <<requests, mixed>>
  PROVE  NetInv'
<1>1. Places1' = Places1 /\ \A i : EntryOf(1, i)' = EntryOf(1, i)
  BY DEF Places1, EntryOf
<1>2. NetKinds'
  BY <1>1 DEF NetInv, NetKinds
<1>3. \A i, field, n : Answered(i, field, n)' <=> Answered(i, field, n)
  BY <1>1 DEF Answered
<1>4. AnswersFound'
  BY <1>1, <1>3 DEF NetInv, AnswersFound
<1>5. OneAtATime'
  BY DEF NetInv, OneAtATime
<1> QED BY <1>2, <1>4, <1>5 DEF NetInv

\* The network's log is empty.
LEMMA NetCleared ==
  ASSUME NetInv, ring'[1].size = 0, ring'[1].total = ring[1].total, UNCHANGED <<requests, mixed>>
  PROVE  NetInv'
<1>1. Places1' = {}
  BY DEF Places1
<1> QED BY <1>1 DEF NetInv, NetKinds, AnswersFound, OneAtATime

\* A request that is answered, or is over.
Moves(n, to) ==
  /\ n \in DOMAIN requests /\ to \in {"answered", "over"} /\ requests[n].is # "over"
  /\ to = "answered" => requests[n].is = "sent"
  /\ requests' = [requests EXCEPT ![n].is = to]

\* What such a request leaves.
LEMMA Moved ==
  ASSUME LogKinds, NetInv, NEW n, NEW to, Moves(n, to)
  PROVE  /\ requests' \in Seq(Request) /\ Len(requests') = Len(requests) /\ n \in 1..Len(requests)
         /\ \A k \in 1..Len(requests) : /\ requests'[k].url = requests[k].url
                                        /\ k # n => requests'[k] = requests[k]
                                        /\ requests[k].is = "over" => requests'[k].is = "over"
                                        /\ \A field \in Fields : Over(requests[k], field) => Over(requests'[k], field)
         /\ requests'[n].is = to
<1>1. requests \in Seq(Request) /\ n \in 1..Len(requests) /\ requests[n] \in Request
  BY DEF NetInv, NetKinds, Moves
<1>2. PICK q : q = [requests[n] EXCEPT !.is = to]
  OBVIOUS
<1>3. requests' = [requests EXCEPT ![n] = q]
  BY <1>2, Zenon DEF Moves
<1>4. to \in States
  BY DEF Moves, States
<1>5. q \in Request
  BY <1>1, <1>2, <1>4, Zenon DEF Request
<1>6. q.url = requests[n].url /\ q.is = to
  BY <1>1, <1>2 DEF Request
<1>7. /\ requests' \in Seq(Request) /\ Len(requests') = Len(requests) /\ requests'[n] = q
      /\ \A k \in 1..Len(requests) : k # n => requests'[k] = requests[k]
  BY <1>1, <1>3, <1>5
<1>8. \A field \in Fields : Over(requests[n], field) => Over(q, field)
  BY <1>6 DEF Over, Fields, Moves
<1>9. requests[n].is = "over" => q.is = "over"
  BY DEF Moves
<1> QED BY <1>1, <1>6, <1>7, <1>8, <1>9

\* A request moves, and no entry changes.
LEMMA NetMoves ==
  ASSUME LogKinds, NetInv, NEW n, NEW to, Moves(n, to), mixed' = mixed, ring'[1].size = ring[1].size,
         ring'[1].total = ring[1].total, \A i \in Places1 : EntryOf(1, i)' = EntryOf(1, i)
  PROVE  NetInv'
<1>1. Places1' = Places1 /\ \A i \in Places1 : EntryOf(1, i)' = EntryOf(1, i)
  BY DEF Places1
<1>2. /\ requests' \in Seq(Request) /\ Len(requests') = Len(requests)
      /\ \A k \in 1..Len(requests) : /\ requests'[k].url = requests[k].url
                                     /\ requests[k].is = "over" => requests'[k].is = "over"
                                     /\ \A field \in Fields : Over(requests[k], field) => Over(requests'[k], field)
  BY Moved
<1>3. NetKinds'
  <2>1. \A i \in Places1 : requests'[EntryOf(1, i).n].url = EntryOf(1, i).url
    BY <1>2, NetNumbers
  <2> QED BY <1>1, <1>2, <2>1 DEF NetInv, NetKinds
<1>4. ASSUME NEW i \in Places1, NEW field \in Fields, NEW v, Answered(i, field, v) PROVE Answered(i, field, v)'
  BY <1>1, <1>2, <1>4 DEF Answered
<1>5. AnswersFound'
  BY <1>1, <1>4 DEF NetInv, AnswersFound
<1>6. OneAtATime'
  BY <1>2 DEF NetInv, OneAtATime
<1> QED BY <1>3, <1>5, <1>6 DEF NetInv

\* An entry that shows a value in one of its fields.
LEMMA ShownEntry ==
  ASSUME NEW e \in Entry, NEW field \in Fields, NEW v \in Nat, NEW g, g = [e EXCEPT ![field] = v]
  PROVE  /\ g \in Entry /\ g.n = e.n /\ g.url = e.url /\ Value(g, field) = v
         /\ \A other \in Fields : other # field => Value(g, other) = Value(e, other)
<1>1. CASE field = "status"
  <2>1. g = [e EXCEPT !["status"] = v]
    BY <1>1
  <2>2. g \in Entry
    BY <2>1, Zenon DEF Entry
  <2> QED BY <1>1, <2>1, <2>2 DEF Entry, Value, Fields
<1>2. CASE field = "size"
  <2>1. g = [e EXCEPT !["size"] = v]
    BY <1>2
  <2>2. g \in Entry
    BY <2>1, Zenon DEF Entry
  <2> QED BY <1>2, <2>1, <2>2 DEF Entry, Value, Fields
<1> QED BY <1>1, <1>2 DEF Fields

\* The newest entry that waits, of those that do.
LEMMA NewestOpen ==
  ASSUME NEW size \in Nat, NEW open \in SUBSET (0..(size - 1)), open # {}
  PROVE  FirstFound(open) \in open /\ \A j \in open : j <= FirstFound(open)
<1> DEFINE Below == {size - i : i \in open}
<1>1. Below \subseteq Nat /\ Below # {}
  OBVIOUS
<1>2. PICK m \in Below : \A n \in Below : <<n, m>> \notin OpToRel(<, Nat)
  <2> HIDE DEF Below
  <2> QED BY <1>1, WFMin, NatLessThanWellFounded
<1>3. PICK i \in open : m = size - i
  OBVIOUS
<1>4. ASSUME NEW j \in open PROVE j <= i
  <2>1. size - j \in Below
    OBVIOUS
  <2>2. ~(size - j < m)
    BY <1>1, <1>2, <2>1 DEF OpToRel
  <2> QED BY <1>3, <2>2
<1> QED BY <1>4 DEF FirstFound

\* What an answer changes: nothing, or the newest entry of its URL that waits for it.
LEMMA ShowIs ==
  ASSUME LogKinds, NetInv, NEW url, NEW field, NEW v, Show(url, field, v)
  PROVE  \/ ring' = ring
         \/ \E i \in Places1 :
              /\ EntryOf(1, i).url = url /\ Value(EntryOf(1, i), field) = 0
              /\ \A j \in Places1 : EntryOf(1, j).url = url /\ Value(EntryOf(1, j), field) = 0 => j <= i
              /\ ring' = [ring EXCEPT ![1] = SetEntry(ring[1], LogCapacity, i, [EntryOf(1, i) EXCEPT ![field] = v])]
<1>1. PICK size \in Nat : size = ring[1].size
  BY NetNumbers
<1>2. PICK open : open = {i \in 0..(size - 1) : EntryOf(1, i).url = url /\ Value(EntryOf(1, i), field) = 0}
  OBVIOUS
<1>3. ring' = IF open = {} THEN ring
              ELSE [ring EXCEPT ![1] = SetEntry(ring[1], LogCapacity, FirstFound(open),
                                                [EntryOf(1, FirstFound(open)) EXCEPT ![field] = v])]
  BY <1>1, <1>2 DEF Show, EntryOf, Value
<1>4. CASE open # {}
  <2>1. FirstFound(open) \in open /\ \A j \in open : j <= FirstFound(open)
    BY <1>2, <1>4, NewestOpen
  <2>2. PICK i : i = FirstFound(open)
    OBVIOUS
  <2>3. ring' = [ring EXCEPT ![1] = SetEntry(ring[1], LogCapacity, i, [EntryOf(1, i) EXCEPT ![field] = v])]
    BY <1>3, <1>4, <2>2
  <2>4. i \in Places1 /\ EntryOf(1, i).url = url /\ Value(EntryOf(1, i), field) = 0
    BY <1>1, <1>2, <2>1, <2>2 DEF Places1
  <2>5. \A j \in Places1 : EntryOf(1, j).url = url /\ Value(EntryOf(1, j), field) = 0 => j <= i
    BY <1>1, <1>2, <2>1, <2>2 DEF Places1
  <2> QED BY <2>3, <2>4, <2>5
<1> QED BY <1>3, <1>4

\* A request's answer, shown by the newest entry of its URL that waits for it.
LEMMA AnswerKept ==
  ASSUME LogKinds, NetInv, NEW n, NEW to, NEW field \in Fields, Moves(n, to), mixed' = mixed,
         ~Over(requests[n], field), Over(requests'[n], field), NEW i \in Places1,
         EntryOf(1, i).url = requests[n].url, Value(EntryOf(1, i), field) = 0,
         \A j \in Places1 : EntryOf(1, j).url = requests[n].url /\ Value(EntryOf(1, j), field) = 0 => j <= i,
         ring' = [ring EXCEPT ![1] = SetEntry(ring[1], LogCapacity, i, [EntryOf(1, i) EXCEPT ![field] = n])]
  PROVE  NetInv'
<1>1. /\ requests' \in Seq(Request) /\ Len(requests') = Len(requests) /\ n \in 1..Len(requests)
      /\ \A k \in 1..Len(requests) : /\ requests'[k].url = requests[k].url
                                     /\ requests[k].is = "over" => requests'[k].is = "over"
                                     /\ \A f \in Fields : Over(requests[k], f) => Over(requests'[k], f)
  BY Moved
<1>2. PICK g : g = [EntryOf(1, i) EXCEPT ![field] = n]
  OBVIOUS
<1>3. n \in Nat /\ n # 0 /\ requests[n].is # "over"
  BY <1>1 DEF Moves
<1>4. /\ g \in Entry /\ g.n = EntryOf(1, i).n /\ g.url = EntryOf(1, i).url /\ Value(g, field) = n
      /\ \A other \in Fields : other # field => Value(g, other) = Value(EntryOf(1, i), other)
  <2>1. EntryOf(1, i) \in Entry
    BY NetNumbers
  <2> QED BY <1>2, <1>3, <2>1, ShownEntry
<1>5. PICK r : r = SetEntry(ring[1], LogCapacity, i, g)
  OBVIOUS
<1>6. ring'[1] = r
  <2>1. 1 \in DOMAIN ring
    BY NetNumbers DEF LogKinds
  <2> QED BY <1>2, <1>5, <2>1
<1>7. /\ r.total = ring[1].total /\ r.size = ring[1].size
      /\ \A j \in Places1 : EntryAt(r, LogCapacity, j) = IF j = i THEN g ELSE EntryOf(1, j)
  <2>1. i \in 0..(ring[1].size - 1) /\ LogCapacity \in Nat \ {0} /\ IsRing(ring[1], LogCapacity)
    BY NetNumbers DEF Places1
  <2> QED BY <1>5, <2>1, SetEntryIs DEF Places1, EntryOf
<1>8. /\ Places1' = Places1 /\ ring'[1].total = ring[1].total
      /\ \A j \in Places1 : EntryOf(1, j)' = IF j = i THEN g ELSE EntryOf(1, j)
  BY <1>6, <1>7 DEF Places1, EntryOf
<1>9. \A j \in Places1 : EntryOf(1, j)'.n = EntryOf(1, j).n /\ EntryOf(1, j)'.url = EntryOf(1, j).url
  BY <1>4, <1>8
<1>10. \A j \in Places1, f \in Fields :
         Value(EntryOf(1, j)', f) = IF j = i /\ f = field THEN n ELSE Value(EntryOf(1, j), f)
  BY <1>4, <1>8
<1>11. NetKinds'
  <2>1. \A j \in Places1 : requests'[EntryOf(1, j).n].url = EntryOf(1, j).url
    BY <1>1, NetNumbers
  <2>2. Len(requests') = ring'[1].total /\ mixed' \subseteq Urls
    BY <1>1, <1>8 DEF NetInv, NetKinds
  <2> QED BY <1>1, <1>8, <1>9, <2>1, <2>2 DEF NetKinds
<1>12. OneAtATime'
  BY <1>1 DEF NetInv, OneAtATime
<1>13. \A j \in Places1, f \in Fields : Value(EntryOf(1, j), f) # 0 => Answered(j, f, Value(EntryOf(1, j), f))
  BY DEF NetInv, AnswersFound
<1>14. \A j \in Places1 : Value(EntryOf(1, j), field) # n
  BY <1>3, <1>13 DEF Answered
<1>15. ASSUME requests[n].url \notin mixed PROVE n = EntryOf(1, i).n
  <2>1. PICK m \in 1..Len(requests) : m = EntryOf(1, i).n
    BY NetNumbers
  <2>2. requests[m].url = requests[n].url
    BY <2>1, NetNumbers
  <2>3. CASE m < n
    <3>1. PICK size \in Nat, total \in Nat :
            size = ring[1].size /\ total = ring[1].total /\ size <= total /\ Len(requests) = total
      BY NetNumbers
    <3>2. m = total - size + i + 1 /\ i \in 0..(size - 1) /\ n <= total
      BY <1>1, <2>1, <3>1, NetNumbers DEF Places1
    <3>3. PICK x \in Nat, y \in Nat : x = n /\ y = i
      BY <1>3, <3>1, <3>2
    <3>4. size <= total /\ total - size + y + 1 < x /\ x <= total
      BY <2>3, <3>1, <3>2, <3>3
    <3>5. PICK j \in 0..(size - 1) : j = x - (total - size + 1)
      BY <3>4
    <3>6. j > y /\ total - size + j + 1 = x
      BY <3>4, <3>5
    <3>7. j \in Places1
      BY <3>1, <3>5 DEF Places1
    <3>8. EntryOf(1, j).n = n
      BY <3>1, <3>3, <3>7, <3>6, NetNumbers
    <3>9. EntryOf(1, j).url = requests[n].url
      BY <3>7, <3>8, NetNumbers
    <3>10. Value(EntryOf(1, j), field) = 0
      BY <1>13, <1>14, <1>15, <3>7, <3>8, <3>9 DEF Answered
    <3>11. j <= i
      BY <3>7, <3>9, <3>10
    <3> QED BY <3>3, <3>11, <3>5, <3>6
  <2>4. CASE n < m
    BY <1>1, <1>3, <1>15, <2>2, <2>4 DEF NetInv, OneAtATime
  <2> QED BY <1>3, <2>1, <2>3, <2>4
<1>16. ASSUME NEW j \in Places1, NEW f \in Fields, NEW v, v = Value(EntryOf(1, j)', f), v # 0
       PROVE  Answered(j, f, v)'
  <2>1. v = Value(EntryOf(1, j)', f)
    BY <1>16
  <2>2. /\ v \in 1..Len(requests) /\ requests'[v].url = EntryOf(1, j).url /\ Over(requests'[v], f)
        /\ requests[v].url \notin mixed => v = EntryOf(1, j).n
    <3>1. CASE j = i /\ f = field
      BY <1>1, <1>10, <1>15, <2>1, <3>1
    <3>2. CASE ~(j = i /\ f = field)
      <4>1. v = Value(EntryOf(1, j), f) /\ v # 0
        BY <1>10, <1>16, <2>1, <3>2
      <4>2. Answered(j, f, v)
        BY <1>13, <4>1
      <4> QED BY <1>1, <4>2 DEF Answered
    <3> QED BY <3>1, <3>2
  <2>3. ASSUME NEW k \in Places1, Value(EntryOf(1, k)', f) = v PROVE k = j
    <3>1. CASE f = field
      BY <1>10, <1>13, <1>14, <1>16, <2>1, <2>3, <3>1 DEF Answered
    <3>2. CASE f # field
      BY <1>10, <1>13, <1>16, <2>1, <2>3, <3>2 DEF Answered
    <3> QED BY <3>1, <3>2
  <2> QED BY <1>1, <1>8, <1>9, <2>1, <2>2, <2>3 DEF Answered
<1>17. AnswersFound'
  BY <1>8, <1>16 DEF AnswersFound
<1> QED BY <1>11, <1>12, <1>17 DEF NetInv

\* A request, with an entry of its own that shows no answer.
LEMMA RequestKept ==
  ASSUME LogKinds, NetInv, NEW u \in Urls, Requested(u)
  PROVE  NetInv'
<1>1. PICK size \in Nat, total \in Nat :
         /\ size = ring[1].size /\ total = ring[1].total /\ size <= total /\ Len(requests) = total
         /\ size <= LogCapacity
  BY NetNumbers DEF IsRing
<1>2. PICK e : e = [n |-> total + 1, url |-> u, status |-> 0, size |-> 0]
  OBVIOUS
<1>3. PICK to : to = Push(ring[1], LogCapacity, e)
  OBVIOUS
<1>4. ring' = [ring EXCEPT ![1] = to]
  BY <1>1, <1>2, <1>3, Zenon DEF Requested, Add
<1>5. ring'[1] = to
  <2>1. 1 \in DOMAIN ring
    BY NetNumbers DEF LogKinds
  <2> QED BY <1>4, <2>1
<1>6. /\ to.total = ring[1].total + 1 /\ to.size > 0
      /\ to.size = IF ring[1].size < LogCapacity THEN ring[1].size + 1 ELSE ring[1].size
      /\ EntryAt(to, LogCapacity, to.size - 1) = e
      /\ \A i \in 0..(to.size - 2) :
           EntryAt(to, LogCapacity, i)
             = EntryAt(ring[1], LogCapacity, IF ring[1].size < LogCapacity THEN i ELSE i + 1)
  <2>1. LogCapacity \in Nat \ {0} /\ IsRing(ring[1], LogCapacity)
    BY NetNumbers
  <2>2. Pushed(to, ring[1], LogCapacity, e)
    BY <1>3, <2>1, PushIs
  <2> QED BY <2>2 DEF Pushed
<1>7. PICK k \in Nat, last \in Nat :
         /\ k = (IF size < LogCapacity THEN 0 ELSE 1) /\ to.size = last + 1 /\ last + k = size /\ to.total = total + 1
  <2>1. LogCapacity \in Nat \ {0}
    BY NetNumbers
  <2>2. PICK k \in Nat : k = IF size < LogCapacity THEN 0 ELSE 1
    OBVIOUS
  <2>3. to.size = (IF size < LogCapacity THEN size + 1 ELSE size) /\ to.total = total + 1
    BY <1>1, <1>6
  <2>4. size - k \in Nat /\ to.size = (size - k) + 1 /\ (size - k) + k = size
    BY <1>1, <2>1, <2>2, <2>3
  <2> QED BY <2>2, <2>3, <2>4
<1>8. Places1 = 0..(size - 1) /\ Places1' = 0..last
  BY <1>1, <1>5, <1>7 DEF Places1
<1>9. EntryOf(1, last)' = e
  BY <1>5, <1>6, <1>7 DEF EntryOf
<1>10. ASSUME NEW i \in 0..last, i # last
       PROVE  i + k \in Places1 /\ EntryOf(1, i)' = EntryOf(1, i + k)
  <2>1. i + k \in 0..(size - 1) /\ i \in 0..(last - 1)
    BY <1>7, <1>10
  <2>2. i \in 0..(to.size - 2)
    BY <1>7, <2>1
  <2>3. EntryAt(to, LogCapacity, i)
          = EntryAt(ring[1], LogCapacity, IF ring[1].size < LogCapacity THEN i ELSE i + 1)
    BY <1>6, <2>2
  <2>4. (IF ring[1].size < LogCapacity THEN i ELSE i + 1) = i + k
    BY <1>1, <1>7, <2>1
  <2>5. EntryOf(1, i)' = EntryOf(1, i + k)
    BY <1>5, <2>3, <2>4, Zenon DEF EntryOf
  <2> QED BY <1>8, <2>1, <2>5
<1>11. PICK q : q = [url |-> u, is |-> "sent"]
  OBVIOUS
<1>12. requests' = Append(requests, q) /\ mixed' = IF UnderWay(u) # {} THEN mixed \cup {u} ELSE mixed
  BY <1>11 DEF Requested
<1>13. q \in Request /\ q.url = u /\ requests \in Seq(Request)
  BY <1>11 DEF Request, States, NetInv, NetKinds
<1>14. /\ requests' \in Seq(Request) /\ Len(requests') = total + 1 /\ requests'[total + 1] = q
       /\ \A n \in 1..total : requests'[n] = requests[n]
  BY <1>1, <1>12, <1>13
<1>15. mixed \subseteq mixed' /\ mixed' \subseteq Urls
  BY <1>12 DEF NetInv, NetKinds
<1>16. e.n = total + 1 /\ e.url = u /\ \A field \in Fields : Value(e, field) = 0
  BY <1>2 DEF Fields, Value
<1>17. NetKinds'
  <2>1. ASSUME NEW i \in 0..last PROVE EntryOf(1, i)'.url = requests'[EntryOf(1, i)'.n].url
    <3>1. CASE i = last
      BY <1>9, <1>13, <1>14, <1>16, <3>1
    <3>2. CASE i # last
      <4>1. /\ EntryOf(1, i + k).n \in 1..total
            /\ EntryOf(1, i + k).url = requests[EntryOf(1, i + k).n].url
        BY <1>1, <1>10, <3>2, NetNumbers
      <4> QED BY <1>10, <1>14, <3>2, <4>1
    <3> QED BY <3>1, <3>2
  <2> QED BY <1>5, <1>7, <1>8, <1>14, <1>15, <2>1 DEF NetKinds
<1>18. ASSUME NEW i \in 0..last, NEW field \in Fields, NEW v, v = Value(EntryOf(1, i)', field), v # 0
       PROVE  Answered(i, field, v)'
  <2>1. i # last
    BY <1>9, <1>16, <1>18
  <2>2. i + k \in Places1 /\ EntryOf(1, i)' = EntryOf(1, i + k)
    BY <1>10, <2>1
  <2>3. Answered(i + k, field, v)
    BY <1>18, <2>2 DEF NetInv, AnswersFound
  <2>4. /\ v \in 1..total /\ requests[v].url = EntryOf(1, i + k).url /\ Over(requests[v], field)
        /\ requests[v].url \notin mixed => v = EntryOf(1, i + k).n
        /\ \A j \in Places1 : Value(EntryOf(1, j), field) = v => j = i + k
    BY <1>1, <2>3 DEF Answered
  <2>5. ASSUME NEW j \in 0..last, Value(EntryOf(1, j)', field) = v PROVE j = i
    <3>1. j # last
      BY <1>9, <1>16, <1>18, <2>5
    <3>2. j + k \in Places1 /\ EntryOf(1, j)' = EntryOf(1, j + k)
      BY <1>10, <3>1
    <3>3. j + k = i + k
      BY <2>4, <2>5, <3>2
    <3> QED BY <3>3
  <2>6. v \in 1..Len(requests') /\ requests'[v] = requests[v]
    BY <1>14, <2>4
  <2> QED BY <1>8, <1>15, <2>2, <2>4, <2>5, <2>6 DEF Answered
<1>19. AnswersFound'
  BY <1>8, <1>18 DEF AnswersFound
<1>20. ASSUME NEW a \in 1..(total + 1), NEW b \in 1..(total + 1), a < b,
              requests'[a].url = requests'[b].url, requests'[a].url \notin mixed'
       PROVE  requests'[a].is = "over"
  <2>1. a \in 1..total /\ requests'[a] = requests[a]
    BY <1>14, <1>20
  <2>2. CASE b = total + 1
    <3>1. requests[a].url = u /\ u \notin mixed'
      BY <1>13, <1>14, <1>20, <2>1, <2>2
    <3>2. UnderWay(u) = {}
      BY <1>12, <3>1
    <3>3. a \in DOMAIN requests
      BY <1>1, <1>13, <2>1
    <3> QED BY <2>1, <3>1, <3>2, <3>3 DEF UnderWay
  <2>3. CASE b # total + 1
    <3>1. b \in 1..total /\ requests'[b] = requests[b]
      BY <1>14, <2>3
    <3> QED BY <1>1, <1>15, <1>20, <2>1, <3>1 DEF NetInv, OneAtATime
  <2> QED BY <2>2, <2>3
<1>21. OneAtATime'
  BY <1>14, <1>20 DEF OneAtATime
<1> QED BY <1>17, <1>19, <1>21 DEF NetInv

-----------------------------------------------------------------------------
\* The inductive invariant.
LogInv == LogKinds /\ (\A l \in Logs : Complete(l)) /\ NetInv

\* Nothing is logged, and nothing requested.
LEMMA LogInitInv == LogInit => LogInv
<1> SUFFICES ASSUME LogInit PROVE LogInv
  OBVIOUS
<1>1. /\ ring = [l \in Logs |-> EmptyRing] /\ flushed = [l \in Logs |-> 0]
      /\ logFile = [l \in Logs |-> <<>>] /\ requests = <<>>
      /\ lost = [l \in Logs |-> {}] /\ mixed = {}
  BY DEF LogInit
<1>2. IsRing(EmptyRing, LogCapacity) /\ Numbered(EmptyRing) /\ EmptyRing.size = 0 /\ EmptyRing.total = 0
  <2>1. /\ EmptyRing.size = 0 /\ EmptyRing.total = 0
        /\ EmptyRing \in [slots : {EmptyRing.slots}, head : 0..(LogCapacity - 1), size : 0..LogCapacity, total : Nat]
    <3>1. 0 \in 0..(LogCapacity - 1) /\ 0 \in 0..LogCapacity
      BY LogNumbers
    <3> QED BY <3>1 DEF EmptyRing
  <2>2. \A i \in 0..(0 - 1) : FALSE
    OBVIOUS
  <2> QED BY <2>1, <2>2 DEF IsRing, Numbered
<1>3. LogKinds
  <2>1. /\ flushed \in [Logs -> Nat] /\ logFile \in [Logs -> Seq(Nat)] /\ lost \in [Logs -> SUBSET Nat]
        /\ ring = [l \in Logs |-> ring[l]]
    BY <1>1
  <2>2. ASSUME NEW l \in Logs
        PROVE  IsRing(ring[l], LogCapacity) /\ Numbered(ring[l]) /\ flushed[l] <= ring[l].total
    <3>1. ring[l] = EmptyRing /\ flushed[l] = 0
      BY <1>1
    <3> QED BY <1>2, <3>1
  <2> QED BY <2>1, <2>2 DEF LogKinds
<1>4. ASSUME NEW l \in Logs PROVE Complete(l)
  <2>1. ring[l] = EmptyRing /\ flushed[l] = 0 /\ logFile[l] = <<>> /\ lost[l] = {}
    BY <1>1
  <2>2. Positions(<<>>) = {}
    BY DEF Positions
  <2>3. Holds(<<>>, 0, {})
    BY <2>2 DEF Holds, Rising, Numbers
  <2>4. GoneSince({}, 0, 0, 0)
    BY DEF GoneSince
  <2> QED BY <1>2, <2>1, <2>3, <2>4 DEF Complete
<1>5. NetInv
  <2>1. ring[1].size = 0 /\ ring[1].total = 0
    BY <1>1, <1>2, LogNumbers
  <2>2. Places1 = {} /\ 1..Len(requests) = {} /\ requests \in Seq(Request) /\ Len(requests) = 0
    BY <1>1, <2>1 DEF Places1
  <2> QED BY <1>1, <2>1, <2>2 DEF NetInv, NetKinds, AnswersFound, OneAtATime
<1> QED BY <1>3, <1>4, <1>5 DEF LogInv

\* An answer: the entry that shows it, and the request.
LEMMA ShowKept ==
  ASSUME LogInv, NEW n, NEW to, NEW field \in Fields, NEW v \in {0, n}, Moves(n, to), Show(requests[n].url, field, v),
         ~Over(requests[n], field), Over(requests'[n], field), UNCHANGED <<flushed, logFile, lost, mixed>>
  PROVE  LogInv'
<1>1. LogKinds /\ (\A l \in Logs : Complete(l)) /\ NetInv
  BY DEF LogInv
<1>2. n \in 1..Len(requests) /\ n \in Nat
  <2>1. n \in 1..Len(requests)
    BY <1>1, Moved
  <2> QED BY <2>1, <1>1, NetNumbers
<1>3. CASE ring' = ring
  <2>1. LogKinds' /\ \A l \in Logs : Complete(l)'
    BY <1>1, <1>3 DEF LogKinds, Complete
  <2>2. \A i \in Places1 : EntryOf(1, i)' = EntryOf(1, i)
    BY <1>3 DEF EntryOf
  <2>3. NetInv'
    BY <1>1, <1>3, <2>2, NetMoves
  <2> QED BY <2>1, <2>3 DEF LogInv
<1>4. ASSUME NEW i \in Places1, EntryOf(1, i).url = requests[n].url, Value(EntryOf(1, i), field) = 0,
             \A j \in Places1 : EntryOf(1, j).url = requests[n].url /\ Value(EntryOf(1, j), field) = 0 => j <= i,
             ring' = [ring EXCEPT ![1] = SetEntry(ring[1], LogCapacity, i, [EntryOf(1, i) EXCEPT ![field] = v])]
      PROVE  LogInv'
  <2>1. PICK g : g = [EntryOf(1, i) EXCEPT ![field] = v]
    OBVIOUS
  <2>2. EntryOf(1, i) \in Entry /\ v \in Nat
    BY <1>1, <1>2, NetNumbers
  <2>3. /\ g \in Entry /\ g.n = EntryOf(1, i).n /\ g.url = EntryOf(1, i).url /\ Value(g, field) = v
        /\ \A other \in Fields : other # field => Value(g, other) = Value(EntryOf(1, i), other)
    BY <2>1, <2>2, ShownEntry
  <2>4. LogKinds' /\ \A l \in Logs : Complete(l)'
    <3>1. i \in 0..(ring[1].size - 1)
      BY DEF Places1
    <3>2. ring' = [ring EXCEPT ![1] = SetEntry(ring[1], LogCapacity, i, g)]
      BY <1>4, <2>1
    <3> QED BY <1>1, <2>3, <3>1, <3>2, SetKept
  <2>5. CASE v = n
    <3>1. ring' = [ring EXCEPT ![1] = SetEntry(ring[1], LogCapacity, i, [EntryOf(1, i) EXCEPT ![field] = n])]
      BY <1>4, <2>5
    <3>2. NetInv'
      BY <1>1, <1>4, <3>1, AnswerKept
    <3> QED BY <2>4, <3>2 DEF LogInv
  <2>6. CASE v = 0
    <3>1. g = EntryOf(1, i)
      BY <1>4, <2>1, <2>2, <2>6 DEF Value, Entry, Fields
    <3>2. PICK r : r = SetEntry(ring[1], LogCapacity, i, g)
      OBVIOUS
    <3>3. ring'[1] = r
      <4>1. 1 \in DOMAIN ring
        BY <1>1, NetNumbers DEF LogKinds
      <4> QED BY <1>4, <2>1, <3>2, <4>1
    <3>4. /\ r.total = ring[1].total /\ r.size = ring[1].size
          /\ \A j \in Places1 : EntryAt(r, LogCapacity, j) = IF j = i THEN g ELSE EntryOf(1, j)
      <4>1. i \in 0..(ring[1].size - 1) /\ LogCapacity \in Nat \ {0} /\ IsRing(ring[1], LogCapacity)
        BY <1>1, NetNumbers DEF Places1
      <4> QED BY <3>2, <4>1, SetEntryIs DEF Places1, EntryOf
    <3>5. \A j \in Places1 : EntryOf(1, j)' = EntryOf(1, j)
      BY <3>1, <3>3, <3>4 DEF EntryOf
    <3>6. NetInv'
      BY <1>1, <3>3, <3>4, <3>5, NetMoves
    <3> QED BY <2>4, <3>6 DEF LogInv
  <2> QED BY <2>5, <2>6
<1>5. PICK url : url = requests[n].url
  OBVIOUS
<1>6. \/ ring' = ring
      \/ \E i \in Places1 :
           /\ EntryOf(1, i).url = url /\ Value(EntryOf(1, i), field) = 0
           /\ \A j \in Places1 : EntryOf(1, j).url = url /\ Value(EntryOf(1, j), field) = 0 => j <= i
           /\ ring' = [ring EXCEPT ![1] = SetEntry(ring[1], LogCapacity, i, [EntryOf(1, i) EXCEPT ![field] = v])]
  <2>1. Show(url, field, v)
    BY <1>5
  <2> QED BY <1>1, <2>1, ShowIs
<1> QED BY <1>3, <1>4, <1>5, <1>6

\* Every step keeps the invariant.
LEMMA LogStepKept == LogInv /\ [LogNext]_logVars => LogInv'
<1> SUFFICES ASSUME LogInv, [LogNext]_logVars PROVE LogInv'
  OBVIOUS
<1>1. LogKinds /\ (\A l \in Logs : Complete(l)) /\ NetInv /\ 1 \in DOMAIN ring
  BY LogNumbers DEF LogInv, LogKinds
<1>2. ASSUME NEW l \in Logs, PageLogs(l) PROVE LogInv'
  <2>1. LogKinds' /\ \A k \in Logs : Complete(k)'
    BY <1>1, <1>2, AddKept DEF PageLogs
  <2>2. ring'[1] = ring[1] /\ UNCHANGED <<requests, mixed>>
    BY <1>1, <1>2 DEF PageLogs, Add
  <2>3. NetInv'
    BY <1>1, <2>2, NetSame
  <2> QED BY <2>1, <2>3 DEF LogInv
<1>3. ASSUME NEW l \in Logs, ClearLog(l) PROVE LogInv'
  <2>1. LogKinds' /\ \A k \in Logs : Complete(k)'
    BY <1>1, <1>3, ClearKept
  <2>2. /\ ring' = [ring EXCEPT ![l] = Clear(ring[l])] /\ UNCHANGED <<requests, mixed>>
    BY <1>3 DEF ClearLog
  <2>3. CASE l = 1
    <3>1. Clear(ring[1]).size = 0 /\ Clear(ring[1]).total = ring[1].total
      BY <1>1, NetNumbers, ClearIs
    <3>2. NetInv'
      BY <1>1, <2>2, <2>3, <3>1, NetCleared
    <3> QED BY <2>1, <3>2 DEF LogInv
  <2>4. CASE l # 1
    <3>1. NetInv'
      BY <1>1, <2>2, <2>4, NetSame
    <3> QED BY <2>1, <3>1 DEF LogInv
  <2> QED BY <2>3, <2>4
<1>4. ASSUME NEW u \in Urls, Requested(u) PROVE LogInv'
  <2>1. LogKinds' /\ \A k \in Logs : Complete(k)'
    BY <1>1, <1>4, LogNumbers, AddKept DEF Requested
  <2>2. NetInv'
    BY <1>1, <1>4, RequestKept
  <2> QED BY <2>1, <2>2 DEF LogInv
<1>5. ASSUME NEW n \in DOMAIN requests, Responded(n) PROVE LogInv'
  <2>1. Moves(n, "answered") /\ Show(requests[n].url, "status", n)
    BY <1>5 DEF Responded, Moves
  <2>2. ~Over(requests[n], "status") /\ Over(requests'[n], "status") /\ "status" \in Fields
    <3>1. requests[n].is = "sent" /\ requests'[n].is = "answered"
      BY <1>1, <1>5, <2>1, Moved DEF Responded
    <3> QED BY <3>1 DEF Over, Fields
  <2> QED BY <1>5, <2>1, <2>2, ShowKept DEF Responded
<1>6. ASSUME NEW n \in DOMAIN requests, Finished(n) PROVE LogInv'
  <2>1. Moves(n, "over") /\ \E size \in {0, n} : Show(requests[n].url, "size", size)
    BY <1>6 DEF Finished, Moves
  <2>2. ~Over(requests[n], "size") /\ Over(requests'[n], "size") /\ "size" \in Fields
    <3>1. requests[n].is = "answered" /\ requests'[n].is = "over"
      BY <1>1, <1>6, <2>1, Moved DEF Finished
    <3> QED BY <3>1 DEF Over, Fields
  <2> QED BY <1>6, <2>1, <2>2, ShowKept DEF Finished
<1>7. ASSUME NEW n \in DOMAIN requests, Fails(n) PROVE LogInv'
  <2>1. Moves(n, "over")
    BY <1>7 DEF Fails, Moves
  <2>2. \A i \in Places1 : EntryOf(1, i)' = EntryOf(1, i)
    BY <1>7 DEF EntryOf, Fails
  <2>3. NetInv'
    BY <1>1, <1>7, <2>1, <2>2, NetMoves DEF Fails
  <2> QED BY <1>1, <1>7, <2>3 DEF Fails, LogInv, LogKinds, Complete
<1>8. ASSUME NEW k, FlushBuffers(k) PROVE LogInv'
  <2>1. LogKinds' /\ \A l \in Logs : Complete(l)'
    BY <1>1, <1>8, FlushKept
  <2>2. NetInv'
    BY <1>1, <1>8, NetSame DEF FlushBuffers
  <2> QED BY <2>1, <2>2 DEF LogInv
<1>9. CASE UNCHANGED logVars
  <2>1. NetInv'
    BY <1>1, <1>9, NetSame DEF logVars
  <2> QED BY <1>1, <1>9, <2>1 DEF logVars, LogInv, LogKinds, Complete
<1> QED BY <1>2, <1>3, <1>4, <1>5, <1>6, <1>7, <1>8, <1>9 DEF LogNext

\* The invariant holds throughout.
THEOREM LogInvariance == LogSpec => []LogInv
BY LogInitInv, LogStepKept, PTL DEF LogSpec

\* Whatever is cleared, overwritten or fails to be appended, a file has every entry at
\* most once and in order, and all those the cursor has passed but the lost ones.
THEOREM LogsOnce == LogSpec => []LogsWrittenOnce
<1>1. LogInv => LogsWrittenOnce
  <2> SUFFICES ASSUME LogInv, NEW l \in Logs, NEW shown, shown = {i \in DOMAIN logFile[l] : logFile[l][i] # 0}
               PROVE  /\ \A i, j \in shown : i < j => logFile[l][i] < logFile[l][j]
                      /\ {logFile[l][i] : i \in shown} = (1..flushed[l]) \ lost[l]
                      /\ {e.n : e \in Retained(l)} = (ring[l].total - ring[l].size + 1)..ring[l].total
    BY DEF LogsWrittenOnce
  <2>1. LogKinds /\ Complete(l) /\ logFile[l] \in Seq(Nat) /\ IsRing(ring[l], LogCapacity) /\ Numbered(ring[l])
    BY DEF LogInv, LogKinds
  <2>2. shown = Positions(logFile[l])
    BY <2>1 DEF Positions
  <2>3. Rising(logFile[l]) /\ Numbers(logFile[l]) = (1..flushed[l]) \ lost[l]
    BY <2>1 DEF Complete, Holds
  <2>4. {e.n : e \in Retained(l)} = (ring[l].total - ring[l].size + 1)..ring[l].total
    BY <2>1, NumbersAre DEF Retained
  <2> QED BY <2>2, <2>3, <2>4 DEF Rising, Numbers
<1> QED BY <1>1, LogInvariance, PTL

\* Until two requests to a URL overlap, its entries show their own answers only.
THEOREM AnswersOwn == LogSpec => []AnswersAreOwn
<1>1. LogInv => AnswersAreOwn
  <2> SUFFICES ASSUME LogInv, NEW e \in Retained(1), NEW field \in Fields, e[field] # 0
               PROVE  /\ e.url = requests[e[field]].url
                      /\ e.url \notin mixed => e[field] = e.n
                      /\ \A f \in Retained(1) : f[field] = e[field] => f = e
    BY DEF AnswersAreOwn, Fields
  <2>1. LogKinds /\ NetInv
    BY DEF LogInv
  <2>2. \A x : x \in Retained(1) <=> \E i \in Places1 : x = EntryOf(1, i)
    <3>1. Retained(1) = {EntryAt(ring[1], LogCapacity, i) : i \in 0..(ring[1].size - 1)}
      BY <2>1, NetNumbers, RetainedAre DEF Retained
    <3> QED BY <3>1 DEF Places1, EntryOf
  <2>3. PICK i \in Places1 : e = EntryOf(1, i)
    BY <2>2
  <2>4. Answered(i, field, e[field])
    BY <2>1, <2>3 DEF NetInv, AnswersFound, Value
  <2>5. ASSUME NEW f \in Retained(1), f[field] = e[field] PROVE f = e
    <3>1. PICK j \in Places1 : f = EntryOf(1, j)
      BY <2>2
    <3>2. j = i
      BY <2>4, <2>5, <3>1 DEF Answered, Value
    <3> QED BY <2>3, <3>1, <3>2
  <2> QED BY <2>3, <2>4, <2>5 DEF Answered
<1> QED BY <1>1, LogInvariance, PTL

\* No ring has been pushed to more often than entries are allowed.
LogBounds == \A l \in Logs : ring[l].total <= MaxEntries

\* Totals and sizes are numbers.
LEMMA TotalsAre == ASSUME LogKinds, NEW l \in Logs PROVE ring[l].total \in Nat /\ ring[l].size \in Nat
BY LogNumbers DEF LogKinds, IsRing

\* A ring alone has been pushed to no more often than all of them together.
LEMMA PushesCount ==
  ASSUME LogKinds, LogBounds, NEW l \in Logs
  PROVE  ring[l].total <= Cardinality(Pushes) /\ Cardinality(Pushes) \in Nat
<1>1. PICK n \in Nat : n = ring[l].total /\ n <= MaxEntries
  BY TotalsAre DEF LogBounds
<1>2. MaxEntries \in Nat /\ MaxEntries \in Int /\ 1 \in Int /\ n \in Int
  BY LogNumbers
<1>3. IsFiniteSet(Pushes)
  <2>1. IsFiniteSet(1..MaxEntries) /\ IsFiniteSet(Logs)
    BY <1>2, FS_Interval, LogAssumption
  <2>2. IsFiniteSet(Logs \X (1..MaxEntries))
    BY <2>1, FS_Product
  <2>3. Pushes \subseteq Logs \X (1..MaxEntries)
    BY DEF Pushes
  <2> QED BY <2>2, <2>3, FS_Subset
<1>4. PICK f : f = [i \in 1..n |-> <<l, i>>]
  OBVIOUS
<1>5. f \in [1..n -> Pushes]
  <2>1. \A i \in 1..n : <<l, i>> \in Pushes
    BY <1>1, <1>2 DEF Pushes
  <2> QED BY <1>4, <2>1
<1>6. \A i, j \in 1..n : f[i] = f[j] => i = j
  BY <1>4
<1>7. f \in Injection(1..n, Pushes)
  BY <1>5, <1>6 DEF Injection, IsInjective
<1>8. Cardinality(1..n) <= Cardinality(Pushes)
  BY <1>3, <1>7, FS_Injection
<1>9. Cardinality(1..n) = n
  <2>1. Cardinality(1..n) = IF 1 > n THEN 0 ELSE n - 1 + 1
    BY <1>2, FS_Interval
  <2> QED BY <2>1
<1>10. Cardinality(Pushes) \in Nat
  BY <1>3, FS_CardinalityType
<1> QED BY <1>1, <1>8, <1>9, <1>10

\* An entry is added only while fewer than the bound have been pushed.
LEMMA AddBounds ==
  ASSUME LogKinds, LogBounds, NEW l \in Logs, NEW u, Add(l, u)
  PROVE  LogBounds'
<1>1. PICK to : to = Push(ring[l], LogCapacity, [n |-> ring[l].total + 1, url |-> u, status |-> 0, size |-> 0])
  OBVIOUS
<1>2. to.total = ring[l].total + 1
  BY <1>1 DEF Push
<1>3. ring' = [ring EXCEPT ![l] = to] /\ Cardinality(Pushes) < MaxEntries
  BY <1>1, Zenon DEF Add
<1>4. \A k \in Logs : ring'[k] = IF k = l THEN to ELSE ring[k]
  BY <1>3 DEF LogKinds
<1>5. ring[l].total + 1 <= MaxEntries
  BY <1>3, PushesCount, TotalsAre, LogNumbers
<1> QED BY <1>2, <1>4, <1>5 DEF LogBounds

\* An answer changes an entry, and no total.
LEMMA ShowBounds ==
  ASSUME LogInv, LogBounds, NEW url, NEW field, NEW v, Show(url, field, v)
  PROVE  LogBounds'
<1>1. LogKinds /\ NetInv
  BY DEF LogInv
<1>2. CASE ring' = ring
  BY <1>2 DEF LogBounds
<1>3. ASSUME NEW i \in Places1, NEW e, ring' = [ring EXCEPT ![1] = SetEntry(ring[1], LogCapacity, i, e)]
      PROVE  LogBounds'
  <2>1. PICK to : to = SetEntry(ring[1], LogCapacity, i, e)
    OBVIOUS
  <2>2. i \in 0..(ring[1].size - 1) /\ 1 \in Logs /\ LogCapacity \in Nat \ {0} /\ IsRing(ring[1], LogCapacity)
    BY <1>1, LogNumbers DEF Places1, LogKinds
  <2>3. to.total = ring[1].total
    BY <2>1, <2>2, SetEntryIs
  <2>4. ring' = [ring EXCEPT ![1] = to]
    BY <1>3, <2>1
  <2>5. \A k \in Logs : ring'[k] = IF k = 1 THEN to ELSE ring[k]
    BY <1>1, <2>4 DEF LogKinds
  <2> QED BY <2>2, <2>3, <2>5 DEF LogBounds
<1> QED BY <1>1, <1>2, <1>3, ShowIs

\* So no step exceeds the bound.
LEMMA LogBoundsKept == ASSUME LogInv, LogBounds, [LogNext]_logVars PROVE LogBounds'
<1>1. LogKinds
  BY DEF LogInv
<1>2. CASE UNCHANGED ring
  BY <1>2 DEF LogBounds
<1>3. ASSUME NEW l \in Logs, PageLogs(l) PROVE LogBounds'
  BY <1>1, <1>3, AddBounds DEF PageLogs
<1>4. ASSUME NEW l \in Logs, ClearLog(l) PROVE LogBounds'
  <2>1. PICK to : to = Clear(ring[l])
    OBVIOUS
  <2>2. to.total = ring[l].total
    BY <1>1, <2>1, ClearIs, LogNumbers DEF LogKinds
  <2>3. ring' = [ring EXCEPT ![l] = to]
    BY <1>4, <2>1 DEF ClearLog
  <2>4. \A k \in Logs : ring'[k] = IF k = l THEN to ELSE ring[k]
    BY <1>1, <2>3 DEF LogKinds
  <2> QED BY <2>2, <2>4 DEF LogBounds
<1>5. ASSUME NEW u \in Urls, Requested(u) PROVE LogBounds'
  BY <1>1, <1>5, AddBounds, LogNumbers DEF Requested
<1>6. ASSUME NEW n \in DOMAIN requests, Responded(n) \/ Finished(n) PROVE LogBounds'
  BY <1>6, ShowBounds DEF Responded, Finished
<1>7. ASSUME NEW n \in DOMAIN requests, Fails(n) PROVE LogBounds'
  BY <1>2, <1>7 DEF Fails
<1>8. ASSUME NEW k, FlushBuffers(k) PROVE LogBounds'
  BY <1>2, <1>8 DEF FlushBuffers
<1> QED BY <1>2, <1>3, <1>4, <1>5, <1>6, <1>7, <1>8 DEF LogNext, logVars

\* Rings, cursors, files and requests keep their types, and over all the logs together the
\* entries stay within their bound, however pushes, clears, flushes and answers interleave.
THEOREM LogTypes == LogSpec => []LogTypeOK
<1>1. LogInit => LogBounds
  <2> SUFFICES ASSUME LogInit, NEW l \in Logs PROVE ring[l].total <= MaxEntries
    BY DEF LogBounds
  <2>1. ring[l].total = 0
    BY DEF LogInit, EmptyRing
  <2> QED BY <2>1, LogNumbers
<1>2. LogInv /\ LogBounds /\ [LogNext]_logVars => LogBounds'
  BY LogBoundsKept
<1>3. LogInv /\ LogBounds => LogTypeOK
  <2> SUFFICES ASSUME LogInv, LogBounds PROVE LogTypeOK
    OBVIOUS
  <2>1. LogKinds /\ NetInv /\ \A l \in Logs : Complete(l)
    BY DEF LogInv
  <2>2. ASSUME NEW l \in Logs
        PROVE  /\ ring[l].total \in 0..MaxEntries
               /\ ring[l].size \in 0..LogCapacity /\ ring[l].head \in 0..(LogCapacity - 1)
               /\ flushed[l] \in 0..ring[l].total
               /\ logFile[l] \in Seq(0..ring[l].total) /\ lost[l] \subseteq 1..ring[l].total
    <3>1. PICK n \in Nat, m \in Nat : n = ring[l].total /\ m = flushed[l] /\ m <= n /\ n <= MaxEntries
      BY <2>1, TotalsAre DEF LogKinds, LogBounds
    <3>2. PICK f \in Seq(Nat) : f = logFile[l]
      BY <2>1 DEF LogKinds
    <3>3. ASSUME NEW i \in 1..Len(f) PROVE f[i] \in 0..n
      <4>1. f[i] \in Nat
        BY <3>2
      <4>2. CASE f[i] # 0
        <5>1. f[i] \in Numbers(f)
          BY <4>2 DEF Numbers, Positions
        <5>2. Numbers(f) = (1..m) \ lost[l]
          BY <2>1, <3>1, <3>2 DEF Complete, Holds
        <5> QED BY <3>1, <5>1, <5>2
      <4> QED BY <3>1, <4>1, <4>2
    <3>4. f \in Seq(0..n)
      <4>1. PICK k \in Nat : k = Len(f) /\ f \in [1..k -> Nat]
        BY <3>2
      <4>2. f \in [1..k -> 0..n]
        BY <3>3, <4>1
      <4> QED BY <4>2
    <3>5. ring[l].size \in 0..LogCapacity /\ ring[l].head \in 0..(LogCapacity - 1)
      BY <2>1 DEF LogKinds, IsRing
    <3>6. lost[l] \subseteq 1..ring[l].total
      BY <2>1 DEF Complete
    <3>7. n \in 0..MaxEntries /\ m \in 0..n
      BY <3>1, LogNumbers
    <3> QED BY <3>1, <3>2, <3>4, <3>5, <3>6, <3>7
  <2> QED BY <2>1, <2>2 DEF NetInv, NetKinds, Request, LogTypeOK
<1> QED BY <1>1, <1>2, <1>3, LogInvariance, PTL DEF LogSpec

-----------------------------------------------------------------------------
(* ActivityFeed: StreamIsComplete, for any ring and any number of events.    *)
(* What is in flight is a run of consecutive ids up to the latest, behind a  *)
(* gap or not; it starts where the cursor or the gap says, since the ring    *)
(* keeps consecutive ids too.                                                *)

\* A message as it can be.
Sent == [event : {"activity"}, id : Nat] \cup [event : {"gap"}, from : Nat, to : Nat]

\* The messages: an event,
Emitted(id) == [event |-> "activity", id |-> id]
\* or a gap that gives up ids.
Gap(from, to) == [event |-> "gap", from |-> from, to |-> to]

\* The kinds of the variables; the ring keeps the latest ids, in order.
FeedKinds ==
  /\ nextId \in Nat /\ nextId > 0 /\ feed.total = nextId - 1
  /\ IsRing(feed, FeedCapacity)
  /\ \A i \in 0..(feed.size - 1) : EntryAt(feed, FeedCapacity, i) = nextId - feed.size + i
  /\ subscribed \in BOOLEAN /\ inFlight \in Seq(Sent)
  /\ cursor \in Nat /\ got \in Seq(Nat \ {0}) /\ told \in SUBSET Nat

\* The reader has received the id.
Had(id) == \E i \in 1..Len(got) : got[i] = id

\* What was received ascends up to the cursor; what it lacks was told.
GotInOrder ==
  /\ \A i, j \in 1..Len(got) : i < j => got[i] < got[j]
  /\ Len(got) > 0 => got[Len(got)] = cursor /\ cursor < nextId
  /\ Len(got) > 0 => \A id \in got[1]..cursor : Had(id) \/ id \in told
  /\ \A id \in told : ~Had(id) /\ id < nextId - feed.size

\* In flight, behind g messages, are the ids from a to the latest.
Runs(a, g) ==
  /\ Len(inFlight) = g + (nextId - a)
  /\ \A i \in 1..(nextId - a) : inFlight[g + i] = Emitted(a + i - 1)

\* They follow on the cursor, on a gap that was told, or on a gap in front of them.
FollowsFrom(a) ==
  /\ \A id \in told : id < a
  /\ Len(got) > 0 => cursor < a
  /\ \/ Runs(a, 0) /\ (Len(got) > 0 => \A id \in (cursor + 1)..(a - 1) : id \in told)
     \/ Runs(a, 1) /\ inFlight[1] = Gap(cursor + 1, a) /\ cursor < a /\ a <= nextId - feed.size

\* A stream that is subscribed does so from somewhere; one that is not has nothing.
Follows == IF subscribed THEN \E a \in 1..nextId : FollowsFrom(a) ELSE Len(inFlight) = 0

\* The inductive invariant.
FeedInv == FeedKinds /\ GotInOrder /\ Follows

\* The empty ring.
LEMMA EmptyIs ==
  ASSUME NEW cap \in Nat \ {0}
  PROVE  IsRing(EmptyRing, cap) /\ EmptyRing.size = 0 /\ EmptyRing.total = 0
<1>1. 0 \in 0..(cap - 1) /\ 0 \in 0..cap
  OBVIOUS
<1>2. /\ EmptyRing.size = 0 /\ EmptyRing.total = 0
      /\ EmptyRing \in [slots : {EmptyRing.slots}, head : 0..(cap - 1), size : 0..cap, total : Nat]
  BY <1>1 DEF EmptyRing
<1>3. \A i \in 0..(0 - 1) : FALSE
  OBVIOUS
<1> QED BY <1>2, <1>3 DEF IsRing

\* The sizes, as numbers.
LEMMA FeedNumbers ==
  ASSUME FeedKinds
  PROVE  /\ FeedCapacity \in Nat \ {0} /\ feed.size \in Nat /\ feed.size <= nextId - 1 /\ nextId \in Nat
         /\ feed.size <= FeedCapacity /\ nextId - feed.size \in 1..nextId
BY FeedAssumption DEF FeedKinds, IsRing

\* The oldest id that is kept.
LEMMA OldestIs ==
  ASSUME FeedKinds
  PROVE  OldestId = nextId - feed.size
<1>1. CASE feed.size > 0
  <2>1. 0 \in 0..(feed.size - 1)
    BY <1>1, FeedNumbers
  <2>2. EntryAt(feed, FeedCapacity, 0) = nextId - feed.size + 0
    BY <2>1 DEF FeedKinds
  <2> QED BY <1>1, <2>2, FeedNumbers DEF OldestId
<1>2. CASE feed.size = 0
  BY <1>2, FeedNumbers DEF OldestId
<1> QED BY <1>1, <1>2, FeedNumbers

\* A daemon that has just started.
Fresh ==
  /\ feed = EmptyRing /\ nextId = 1 /\ subscribed = FALSE /\ inFlight = <<>>
  /\ got = <<>> /\ told = {}

\* It has the invariant, whatever cursor a reader comes with.
LEMMA FreshIs == Fresh /\ cursor \in Nat => FeedInv
<1> SUFFICES ASSUME Fresh, cursor \in Nat PROVE FeedInv
  OBVIOUS
<1>1. FeedCapacity \in Nat \ {0}
  BY FeedAssumption
<1>2. IsRing(feed, FeedCapacity) /\ feed.size = 0 /\ feed.total = 0
  BY <1>1, EmptyIs DEF Fresh
<1>3. inFlight \in Seq(Sent) /\ Len(inFlight) = 0 /\ got \in Seq(Nat \ {0}) /\ Len(got) = 0
  BY DEF Fresh
<1>4. \A i \in 0..(feed.size - 1) : FALSE
  BY <1>2
<1>5. FeedKinds
  <2>1. nextId \in Nat /\ nextId > 0 /\ feed.total = nextId - 1
    BY <1>2 DEF Fresh
  <2>2. subscribed \in BOOLEAN /\ told \in SUBSET Nat
    BY DEF Fresh
  <2>3. \A i \in 0..(feed.size - 1) : EntryAt(feed, FeedCapacity, i) = nextId - feed.size + i
    BY <1>4
  <2> QED BY <1>2, <1>3, <2>1, <2>2, <2>3 DEF FeedKinds
<1>6. \A i \in 1..Len(got) : FALSE
  BY <1>3
<1>7. GotInOrder
  BY <1>3, <1>6 DEF GotInOrder, Fresh
<1> QED BY <1>3, <1>5, <1>7 DEF FeedInv, Follows, Fresh

\* What a stream begins with.
LEMMA ReplayIs ==
  ASSUME FeedKinds, NEW after \in Nat
  PROVE  \E a \in 1..nextId :
           /\ ActivityAfter(after) = [i \in 1..(nextId - a) |-> a + i - 1]
           /\ IF after = 0 \/ HasGap(after) THEN a = nextId - feed.size
              ELSE \/ a = after + 1 /\ nextId - feed.size <= after
                   \/ a = nextId /\ nextId <= after + 1
<1>1. PICK size \in Nat, next \in Nat : size = feed.size /\ next = nextId /\ size <= next - 1
  BY FeedNumbers
<1>2. PICK all : all = ToArray(feed, FeedCapacity)
  OBVIOUS
<1>3. all = [i \in 1..size |-> next - size + i - 1]
  <2>1. all = [i \in 1..size |-> EntryAt(feed, FeedCapacity, i - 1)]
    BY <1>1, <1>2 DEF ToArray
  <2>2. ASSUME NEW i \in 1..size PROVE EntryAt(feed, FeedCapacity, i - 1) = next - size + i - 1
    <3>1. PICK j \in 0..(size - 1) : j = i - 1
      BY <1>1
    <3>2. EntryAt(feed, FeedCapacity, j) = next - size + j
      BY <1>1 DEF FeedKinds
    <3>3. next - size + j = next - size + i - 1
      BY <1>1, <3>1
    <3> QED BY <3>1, <3>2, <3>3
  <2> QED BY <2>1, <2>2
<1>4. PICK newer : newer = {i \in 1..size : all[i] > after}
  OBVIOUS
<1>5. ActivityAfter(after) = IF after = 0 \/ HasGap(after) THEN all
                             ELSE IF newer = {} THEN <<>> ELSE SubSeq(all, Min(newer), Len(all))
  <2>1. DOMAIN all = 1..size
    BY <1>3
  <2> QED BY <1>2, <1>4, <2>1 DEF ActivityAfter
<1>6. HasGap(after) <=> after # 0 /\ after < next - size
  BY <1>1, OldestIs DEF HasGap
<1>7. CASE after = 0 \/ HasGap(after)
  <2>1. PICK a \in 1..next : a = next - size
    BY <1>1
  <2>2. all = [i \in 1..(next - a) |-> a + i - 1]
    BY <1>1, <1>3, <2>1
  <2> QED BY <1>1, <1>5, <1>7, <2>1, <2>2
<1>8. CASE ~(after = 0 \/ HasGap(after)) /\ next <= after + 1
  <2>1. newer = {}
    BY <1>1, <1>3, <1>4, <1>8
  <2>2. next \in 1..next
    BY <1>1
  <2>3. <<>> = [i \in 1..(next - next) |-> next + i - 1]
    BY <1>1
  <2> QED BY <1>1, <1>5, <1>8, <2>1, <2>2, <2>3
<1>9. CASE ~(after = 0 \/ HasGap(after)) /\ after + 1 < next
  <2>1. after >= next - size
    BY <1>1, <1>6, <1>9
  <2>2. PICK k \in 1..size : k = after + 1 - (next - size) + 1
    BY <1>1, <1>9, <2>1
  <2>3. newer = k..size
    <3>1. ASSUME NEW i \in 1..size PROVE all[i] > after <=> i >= k
      <4>1. all[i] = next - size + i - 1
        BY <1>3
      <4> QED BY <1>1, <2>1, <2>2, <4>1
    <3>2. \A i : i \in newer <=> i \in 1..size /\ i >= k
      BY <1>4, <3>1
    <3>3. \A i : i \in k..size <=> i \in 1..size /\ i >= k
      BY <2>2
    <3> QED BY <3>2, <3>3
  <2>4. Min(newer) = k
    BY <1>1, <2>2, <2>3 DEF Min
  <2>5. Len(all) = size /\ newer # {}
    <3>1. k \in k..size
      BY <2>2
    <3>2. Len(all) = size
      BY <1>1, <1>3
    <3> QED BY <2>3, <3>1, <3>2
  <2>6. SubSeq(all, k, size) = [i \in 1..(size - k + 1) |-> all[k + i - 1]]
    BY <1>3, <2>2
  <2>7. PICK a \in 1..next : a = after + 1
    BY <1>9
  <2>8. size - k + 1 = next - a /\ \A i \in 1..(next - a) : k + i - 1 \in 1..size /\ next - size + (k + i - 1) - 1 = a + i - 1
    BY <1>1, <2>1, <2>2, <2>7
  <2>9. \A i \in 1..(next - a) : all[k + i - 1] = a + i - 1
    BY <1>3, <2>8
  <2>10. SubSeq(all, k, size) = [i \in 1..(next - a) |-> a + i - 1]
    BY <2>6, <2>8, <2>9
  <2>11. ActivityAfter(after) = [i \in 1..(next - a) |-> a + i - 1]
    BY <1>5, <1>9, <2>4, <2>5, <2>10
  <2> QED BY <1>1, <1>9, <2>1, <2>7, <2>11
<1> QED BY <1>1, <1>7, <1>8, <1>9

\* An event is emitted.
LEMMA EmitKept == FeedInv /\ Emit => FeedInv'
<1> SUFFICES ASSUME FeedInv, Emit PROVE FeedInv'
  OBVIOUS
<1>1. PICK size \in Nat, next \in Nat : size = feed.size /\ next = nextId /\ size <= next - 1 /\ next > 0
  BY FeedNumbers DEF FeedInv
<1>2. /\ feed' = Push(feed, FeedCapacity, next) /\ nextId' = next + 1
      /\ inFlight' = IF subscribed THEN inFlight \o Events(<<next>>) ELSE inFlight
      /\ UNCHANGED <<subscribed, cursor, got, told>>
  BY <1>1 DEF Emit
<1>3. PICK to : to = Push(feed, FeedCapacity, next)
  OBVIOUS
<1>4. /\ IsRing(to, FeedCapacity) /\ to.total = feed.total + 1
      /\ to.size = IF feed.size < FeedCapacity THEN feed.size + 1 ELSE feed.size
      /\ EntryAt(to, FeedCapacity, to.size - 1) = next
      /\ \A i \in 0..(to.size - 2) :
           EntryAt(to, FeedCapacity, i)
             = EntryAt(feed, FeedCapacity, IF feed.size < FeedCapacity THEN i ELSE i + 1)
  <2>1. FeedCapacity \in Nat \ {0} /\ IsRing(feed, FeedCapacity)
    BY FeedNumbers DEF FeedInv, FeedKinds
  <2>2. Pushed(to, feed, FeedCapacity, next)
    BY <1>3, <2>1, PushIs
  <2> QED BY <2>2 DEF Pushed
<1>5. PICK k \in Nat, last \in Nat :
         /\ k = (IF size < FeedCapacity THEN 0 ELSE 1) /\ to.size = last + 1 /\ last + k = size
  <2>1. FeedCapacity \in Nat \ {0} /\ size <= FeedCapacity
    BY <1>1, FeedNumbers DEF FeedInv
  <2>2. PICK k \in Nat : k = IF size < FeedCapacity THEN 0 ELSE 1
    OBVIOUS
  <2>3. to.size = IF size < FeedCapacity THEN size + 1 ELSE size
    BY <1>1, <1>4
  <2>4. size - k \in Nat /\ to.size = (size - k) + 1 /\ (size - k) + k = size
    BY <1>1, <2>1, <2>2, <2>3
  <2> QED BY <2>2, <2>3, <2>4
<1>6. ASSUME NEW i \in 0..last PROVE EntryAt(to, FeedCapacity, i) = next + 1 - (last + 1) + i
  <2>1. CASE i = last
    BY <1>1, <1>4, <1>5, <2>1
  <2>2. CASE i # last
    <3>1. i \in 0..(to.size - 2)
      BY <1>5, <2>2
    <3>2. EntryAt(to, FeedCapacity, i)
            = EntryAt(feed, FeedCapacity, IF feed.size < FeedCapacity THEN i ELSE i + 1)
      BY <1>4, <3>1
    <3>3. PICK j \in 0..(size - 1) : j = i + k
      BY <1>5, <2>2
    <3>4. (IF feed.size < FeedCapacity THEN i ELSE i + 1) = j
      BY <1>1, <1>5, <3>3
    <3>5. EntryAt(to, FeedCapacity, i) = EntryAt(feed, FeedCapacity, j)
      BY <3>2, <3>4, Zenon
    <3>6. EntryAt(feed, FeedCapacity, j) = next - size + j
      BY <1>1 DEF FeedInv, FeedKinds
    <3>7. next - size + j = next + 1 - (last + 1) + i
      BY <1>1, <1>5, <3>3
    <3> QED BY <3>5, <3>6, <3>7
  <2> QED BY <2>1, <2>2
<1>7. PICK message \in Sent : message = Emitted(next)
  BY <1>1 DEF Sent, Emitted
<1>8. Events(<<next>>) = <<message>>
  BY <1>7 DEF Events, Emitted
<1>9. PICK stream \in Seq(Sent), more \in Seq(Sent) : stream = inFlight /\ more = stream \o <<message>>
  <2>1. inFlight \in Seq(Sent)
    BY DEF FeedInv, FeedKinds
  <2>2. <<message>> \in Seq(Sent)
    OBVIOUS
  <2>3. inFlight \o <<message>> \in Seq(Sent)
    BY <2>1, <2>2, ConcatProperties
  <2> QED BY <2>1, <2>3
<1>10. inFlight' = IF subscribed THEN more ELSE stream
  BY <1>2, <1>8, <1>9
<1>11. /\ Len(more) = Len(inFlight) + 1 /\ more[Len(inFlight) + 1] = Emitted(next)
       /\ \A i \in 1..Len(inFlight) : more[i] = inFlight[i]
  BY <1>7, <1>9
<1>12. FeedKinds'
  <2>0. inFlight' \in Seq(Sent)
    BY <1>9, <1>10, Zenon
  <2>1. nextId' \in Nat /\ nextId' > 0
    BY <1>1, <1>2
  <2>2. feed'.total = nextId' - 1 /\ IsRing(feed', FeedCapacity)
    BY <1>1, <1>2, <1>3, <1>4 DEF FeedInv, FeedKinds
  <2>3. \A i \in 0..(feed'.size - 1) : EntryAt(feed', FeedCapacity, i) = nextId' - feed'.size + i
    BY <1>1, <1>2, <1>3, <1>5, <1>6
  <2> QED BY <1>2, <2>0, <2>1, <2>2, <2>3 DEF FeedInv, FeedKinds
<1>13. next - size <= nextId' - to.size
  BY <1>1, <1>2, <1>5
<1>14. \A id : Had(id)' <=> Had(id)
  BY <1>2 DEF Had
<1>15. GotInOrder'
  <2>1. \A id \in told : id \in Nat /\ id < next - size
    BY <1>1 DEF FeedInv, FeedKinds, GotInOrder
  <2>2. \A id \in told : id < nextId' - feed'.size
    BY <1>1, <1>2, <1>3, <1>5, <2>1
  <2>3. Len(got) > 0 => cursor < nextId'
    BY <1>1, <1>2 DEF FeedInv, FeedKinds, GotInOrder
  <2> QED BY <1>2, <1>14, <2>2, <2>3 DEF FeedInv, GotInOrder
<1>16. Follows'
  <2>1. CASE ~subscribed
    BY <1>2, <2>1 DEF FeedInv, Follows
  <2>2. CASE subscribed
    <3>1. PICK a \in 1..next : FollowsFrom(a)
      BY <1>1, <2>2 DEF FeedInv, Follows
    <3>2. ASSUME NEW g \in {0, 1}, Runs(a, g) PROVE Runs(a, g)'
      <4>1. Len(inFlight) = g + (next - a) /\ \A i \in 1..(next - a) : inFlight[g + i] = Emitted(a + i - 1)
        BY <1>1, <3>2 DEF Runs
      <4>2. Len(inFlight') = g + (next + 1 - a)
        BY <1>1, <1>10, <1>11, <2>2, <4>1
      <4>3. ASSUME NEW i \in 1..(next + 1 - a) PROVE inFlight'[g + i] = Emitted(a + i - 1)
        <5>1. CASE i = next + 1 - a
          <6>1. g + i = Len(inFlight) + 1 /\ a + i - 1 = next
            BY <1>1, <4>1, <5>1
          <6> QED BY <1>10, <1>11, <2>2, <6>1
        <5>2. CASE i # next + 1 - a
          <6>1. i \in 1..(next - a) /\ g + i \in 1..Len(inFlight)
            BY <1>1, <4>1, <5>2
          <6> QED BY <1>10, <1>11, <2>2, <4>1, <6>1
        <5> QED BY <5>1, <5>2
      <4>4. nextId' = next + 1
        BY <1>2
      <4>5. PICK n : n = next + 1 - a
        OBVIOUS
      <4>6. nextId' - a = n
        BY <4>4, <4>5
      <4>7. Len(inFlight') = g + n /\ \A i \in 1..n : inFlight'[g + i] = Emitted(a + i - 1)
        BY <4>2, <4>3, <4>5
      <4>8. Len(inFlight') = g + (nextId' - a)
        BY <4>6, <4>7, Zenon
      <4>9. \A i \in 1..(nextId' - a) : inFlight'[g + i] = Emitted(a + i - 1)
        BY <4>6, <4>7, Zenon
      <4> QED BY <4>8, <4>9 DEF Runs
    <3>3. Runs(a, 1) => inFlight'[1] = inFlight[1]
      <4>1. Runs(a, 1) => 1 \in 1..Len(inFlight)
        BY <1>1 DEF Runs
      <4> QED BY <1>10, <1>11, <2>2, <4>1
    <3>4. a <= next - size => a <= nextId' - feed'.size
      BY <1>1, <1>2, <1>3, <1>5
    <3>5. FollowsFrom(a)'
      BY <1>1, <1>2, <3>1, <3>2, <3>3, <3>4 DEF FollowsFrom
    <3>6. a \in 1..nextId'
      BY <1>1, <1>2
    <3> QED BY <1>2, <2>2, <3>5, <3>6 DEF Follows
  <2> QED BY <2>1, <2>2 DEF FeedInv, FeedKinds
<1> QED BY <1>12, <1>15, <1>16 DEF FeedInv

\* A stream begins: with a gap or without, what is newer, and nothing of it is told or had.
LEMMA FeedConnectKept == FeedInv /\ Connect => FeedInv'
<1> SUFFICES ASSUME FeedInv, Connect PROVE FeedInv'
  OBVIOUS
<1>1. PICK size \in Nat, next \in Nat : size = feed.size /\ next = nextId /\ size <= next - 1 /\ next > 0
  BY FeedNumbers DEF FeedInv
<1>2. FeedKinds /\ cursor \in Nat /\ OldestId = next - size
  BY <1>1, OldestIs DEF FeedInv, FeedKinds
<1>3. PICK a \in 1..next :
        /\ ActivityAfter(cursor) = [i \in 1..(next - a) |-> a + i - 1]
        /\ IF cursor = 0 \/ HasGap(cursor) THEN a = next - size
           ELSE \/ a = cursor + 1 /\ next - size <= cursor
                \/ a = next /\ next <= cursor + 1
  BY <1>1, <1>2, ReplayIs
<1>4. HasGap(cursor) <=> cursor # 0 /\ cursor < next - size
  BY <1>2 DEF HasGap
<1>5. PICK run : run = [i \in 1..(next - a) |-> Emitted(a + i - 1)]
  OBVIOUS
<1>6. Events(ActivityAfter(cursor)) = run
  <2>1. PICK ids : ids = ActivityAfter(cursor)
    OBVIOUS
  <2>2. DOMAIN ids = 1..(next - a) /\ \A i \in 1..(next - a) : ids[i] = a + i - 1
    BY <1>3, <2>1
  <2> QED BY <1>5, <2>1, <2>2 DEF Events, Emitted
<1>7. run \in Seq(Sent) /\ Len(run) = next - a /\ \A i \in 1..(next - a) : run[i] = Emitted(a + i - 1)
  <2>1. \A i \in 1..(next - a) : Emitted(a + i - 1) \in Sent
    BY <1>1 DEF Emitted, Sent
  <2>2. next - a \in Nat
    BY <1>1
  <2> QED BY <1>5, <2>1, <2>2
<1>8. UNCHANGED <<feed, nextId, cursor, got, told>> /\ subscribed' = TRUE
  BY DEF Connect
<1>9. \A id : Had(id)' <=> Had(id)
  BY <1>8 DEF Had
<1>10. GotInOrder'
  BY <1>8, <1>9 DEF FeedInv, GotInOrder
<1>11. (\A id \in told : id < a) /\ (Len(got) > 0 => cursor < a)
  <2>1. next - size <= a
    BY <1>1, <1>2, <1>3
  <2>2. \A id \in told : id \in Nat /\ id < next - size
    BY <1>1 DEF FeedInv, FeedKinds, GotInOrder
  <2>3. Len(got) > 0 => cursor < next
    BY <1>1 DEF FeedInv, GotInOrder
  <2>4. Len(got) > 0 => cursor < a
    BY <1>1, <1>2, <1>3, <1>4, <2>3
  <2> QED BY <1>1, <2>1, <2>2, <2>4
<1>12. CASE ~HasGap(cursor)
  <2>1. inFlight' = run
    BY <1>6, <1>7, <1>12 DEF Connect
  <2>2. FeedKinds'
    BY <1>7, <1>8, <2>1 DEF FeedInv, FeedKinds
  <2>3. Runs(a, 0)'
    BY <1>1, <1>7, <1>8, <2>1 DEF Runs
  <2>4. Len(got) > 0 => \A id \in (cursor + 1)..(a - 1) : id \in told
    <3>1. Len(got) > 0 => cursor < next /\ cursor # 0
      <4>1. got \in Seq(Nat \ {0})
        BY DEF FeedInv, FeedKinds
      <4>2. Len(got) > 0 => got[Len(got)] \in Nat \ {0}
        BY <4>1
      <4>3. Len(got) > 0 => got[Len(got)] = cursor /\ cursor < next
        BY <1>1 DEF FeedInv, GotInOrder
      <4> QED BY <4>2, <4>3
    <3>2. Len(got) > 0 => a = cursor + 1
      BY <1>1, <1>2, <1>3, <1>12, <3>1
    <3> QED BY <1>2, <3>2
  <2>5. FollowsFrom(a)'
    BY <1>8, <1>11, <2>3, <2>4 DEF FollowsFrom
  <2> QED BY <1>1, <1>8, <1>10, <2>2, <2>5 DEF FeedInv, Follows
<1>13. CASE HasGap(cursor)
  <2>1. PICK gap \in Sent : gap = Gap(cursor + 1, a)
    <3>1. PICK from \in Nat, to \in Nat : from = cursor + 1 /\ to = a
      BY <1>1, <1>2
    <3>2. Gap(from, to) \in Sent
      BY DEF Gap, Sent
    <3>3. Gap(cursor + 1, a) \in Sent
      BY <3>1, <3>2, Zenon
    <3> QED BY <3>3
  <2>2. a = next - size /\ cursor < a
    BY <1>1, <1>3, <1>4, <1>13
  <2>3. inFlight' = <<gap>> \o run
    BY <1>2, <1>6, <1>13, <2>1, <2>2 DEF Connect, Gap
  <2>4. /\ <<gap>> \o run \in Seq(Sent) /\ Len(<<gap>> \o run) = 1 + (next - a) /\ (<<gap>> \o run)[1] = gap
        /\ \A i \in 1..(next - a) : (<<gap>> \o run)[1 + i] = run[i]
    <3>1. <<gap>> \in Seq(Sent) /\ Len(<<gap>>) = 1 /\ <<gap>>[1] = gap
      OBVIOUS
    <3>2. <<gap>> \o run \in Seq(Sent) /\ Len(<<gap>> \o run) = 1 + (next - a)
      BY <1>7, <3>1, ConcatProperties
    <3>3. (<<gap>> \o run)[1] = gap /\ \A i \in 1..(next - a) : (<<gap>> \o run)[1 + i] = run[i]
      BY <1>1, <1>7, <3>1
    <3> QED BY <3>2, <3>3
  <2>5. FeedKinds'
    BY <1>8, <2>3, <2>4 DEF FeedInv, FeedKinds
  <2>6. Runs(a, 1)' /\ inFlight'[1] = Gap(cursor + 1, a)
    BY <1>1, <1>7, <1>8, <2>1, <2>3, <2>4 DEF Runs
  <2>7. FollowsFrom(a)'
    BY <1>1, <1>8, <1>11, <2>2, <2>6 DEF FollowsFrom
  <2> QED BY <1>1, <1>8, <1>10, <2>5, <2>7 DEF FeedInv, Follows
<1> QED BY <1>12, <1>13

\* The reader takes a gap, or the next event.
LEMMA ReceiveKept == FeedInv /\ Receive => FeedInv'
<1> SUFFICES ASSUME FeedInv, Receive PROVE FeedInv'
  OBVIOUS
<1>1. PICK size \in Nat, next \in Nat : size = feed.size /\ next = nextId /\ size <= next - 1 /\ next > 0
  BY FeedNumbers DEF FeedInv
<1>2. /\ FeedKinds /\ GotInOrder /\ cursor \in Nat /\ got \in Seq(Nat \ {0}) /\ Len(got) \in Nat
      /\ told \in SUBSET Nat /\ inFlight \in Seq(Sent) /\ inFlight # <<>>
  BY DEF FeedInv, FeedKinds, Receive
<1>3. /\ Head(inFlight) = inFlight[1] /\ Tail(inFlight) \in Seq(Sent) /\ Len(Tail(inFlight)) = Len(inFlight) - 1
      /\ \A i \in 1..(Len(inFlight) - 1) : Tail(inFlight)[i] = inFlight[i + 1]
      /\ Len(inFlight) \in Nat /\ Len(inFlight) > 0
  BY <1>2
<1>4. subscribed /\ \E a \in 1..next : FollowsFrom(a)
  BY <1>1, <1>3 DEF FeedInv, Follows
<1>5. PICK a \in 1..next : FollowsFrom(a)
  BY <1>4
<1>6. UNCHANGED <<feed, nextId, subscribed>> /\ inFlight' = Tail(inFlight)
  BY DEF Receive
<1>7. CASE Runs(a, 1) /\ inFlight[1] = Gap(cursor + 1, a) /\ cursor < a /\ a <= next - size
  <2>1. told' = told \cup (cursor + 1)..(a - 1) /\ UNCHANGED <<cursor, got>>
    BY <1>3, <1>7 DEF Receive, Gap
  <2>2. FeedKinds'
    BY <1>2, <1>3, <1>6, <2>1 DEF FeedKinds
  <2>3. \A id : Had(id)' <=> Had(id)
    BY <2>1 DEF Had
  <2>4. \A i \in 1..Len(got) : got[i] \in Nat /\ got[i] <= cursor
    BY <1>2 DEF GotInOrder
  <2>5. \A id : Had(id) => id \in Nat /\ id <= cursor
    BY <2>4 DEF Had
  <2>6. \A id \in told' : ~Had(id) /\ id < next - size
    BY <1>1, <1>2, <1>7, <2>1, <2>5 DEF GotInOrder
  <2>7. GotInOrder'
    BY <1>1, <1>2, <1>6, <2>1, <2>3, <2>6 DEF GotInOrder
  <2>8. Runs(a, 0)'
    <3>1. Len(inFlight) = 1 + (next - a) /\ \A i \in 1..(next - a) : inFlight[1 + i] = Emitted(a + i - 1)
      BY <1>1, <1>7 DEF Runs
    <3>2. Len(inFlight') = 0 + (next - a)
      BY <1>1, <1>3, <1>6, <3>1
    <3>3. ASSUME NEW i \in 1..(next - a) PROVE inFlight'[0 + i] = Emitted(a + i - 1)
      <4>1. i \in 1..(Len(inFlight) - 1) /\ 0 + i = i /\ 1 + i = i + 1
        BY <1>1, <3>1
      <4> QED BY <1>3, <1>6, <3>1, <4>1
    <3>4. nextId' = next
      BY <1>1, <1>6
    <3> QED BY <3>2, <3>3, <3>4 DEF Runs
  <2>9. \A id \in told' : id < a
    BY <1>1, <1>2, <1>5, <2>1 DEF FollowsFrom
  <2>10. FollowsFrom(a)'
    BY <1>7, <2>1, <2>8, <2>9 DEF FollowsFrom
  <2> QED BY <1>1, <1>4, <1>6, <2>2, <2>7, <2>10 DEF FeedInv, Follows
<1>8. CASE Runs(a, 0) /\ (Len(got) > 0 => \A id \in (cursor + 1)..(a - 1) : id \in told)
  <2>1. Len(inFlight) = next - a /\ \A i \in 1..(next - a) : inFlight[i] = Emitted(a + i - 1)
    BY <1>1, <1>8 DEF Runs
  <2>2. PICK b \in 1..next : b = a + 1
    BY <1>1, <1>3, <2>1
  <2>3. inFlight[1] = Emitted(a)
    <3>1. 1 \in 1..(next - a) /\ a + 1 - 1 = a
      BY <1>1, <1>3, <2>1
    <3> QED BY <2>1, <3>1
  <2>4. cursor' = a /\ got' = Append(got, a) /\ told' = told
    BY <1>3, <2>3 DEF Receive, Emitted
  <2>5. PICK m \in Nat : m = Len(got)
    BY <1>2
  <2>6. /\ got' \in Seq(Nat \ {0}) /\ Len(got') = m + 1 /\ got'[m + 1] = a
        /\ \A i \in 1..m : got'[i] = got[i]
    BY <1>2, <2>4, <2>5
  <2>7. FeedKinds'
    BY <1>2, <1>3, <1>6, <2>4, <2>6 DEF FeedKinds
  <2>8. \A id : Had(id)' <=> Had(id) \/ id = a
    <3> TAKE id
    <3>1. Had(id)' <=> \E i \in 1..(m + 1) : got'[i] = id
      BY <2>6 DEF Had
    <3>2. Had(id) <=> \E i \in 1..m : got[i] = id
      BY <2>5 DEF Had
    <3>3. \A i : i \in 1..(m + 1) <=> i \in 1..m \/ i = m + 1
      OBVIOUS
    <3> QED BY <2>6, <3>1, <3>2, <3>3
  <2>9. (m > 0 => cursor < a) /\ \A id \in told : id \in Nat /\ id < a
    BY <1>2, <1>5, <2>5 DEF FollowsFrom
  <2>10. \A i \in 1..m : got[i] \in Nat /\ got[i] <= cursor
    BY <1>2, <2>5 DEF GotInOrder
  <2>11. ASSUME NEW i \in 1..(m + 1), NEW j \in 1..(m + 1), i < j PROVE got'[i] < got'[j]
    <3>1. i \in 1..m
      BY <2>11
    <3>2. CASE j \in 1..m
      BY <1>2, <2>5, <2>6, <2>11, <3>1, <3>2 DEF GotInOrder
    <3>3. CASE j = m + 1
      <4>1. got[i] \in Nat /\ got[i] <= cursor /\ got'[i] = got[i]
        BY <2>6, <2>10, <3>1
      <4>2. cursor < a
        BY <2>5, <2>9, <3>1
      <4>3. got'[j] = a
        BY <2>6, <3>3
      <4>4. got[i] < a
        BY <1>2, <4>1, <4>2
      <4> QED BY <4>1, <4>3, <4>4
    <3> QED BY <3>2, <3>3
  <2>12. ASSUME NEW id \in got'[1]..a PROVE Had(id)' \/ id \in told
    <3>1. CASE m = 0
      BY <2>6, <2>8, <2>12, <3>1
    <3>2. CASE m > 0
      <4>1. got'[1] = got[1] /\ got[1] \in Nat
        BY <2>6, <2>10, <3>2
      <4>2. id \in got[1]..cursor \/ id \in (cursor + 1)..(a - 1) \/ id = a
        BY <1>2, <2>9, <2>12, <3>2, <4>1
      <4>3. \A x \in got[1]..cursor : Had(x) \/ x \in told
        BY <1>2, <2>5, <3>2 DEF GotInOrder
      <4> QED BY <1>8, <2>5, <2>8, <3>2, <4>2, <4>3
    <3> QED BY <3>1, <3>2
  <2>13. a < next
    BY <1>1, <1>3, <2>1
  <2>14. \A id \in told : ~Had(id)' /\ id < next - size
    BY <1>1, <1>2, <2>8, <2>9 DEF GotInOrder
  <2>15. GotInOrder'
    BY <1>1, <1>6, <2>4, <2>6, <2>11, <2>12, <2>13, <2>14 DEF GotInOrder
  <2>16. Runs(b, 0)'
    <3>1. Len(inFlight') = 0 + (next - b)
      BY <1>1, <1>3, <1>6, <2>1, <2>2
    <3>2. ASSUME NEW i \in 1..(next - b) PROVE inFlight'[0 + i] = Emitted(b + i - 1)
      <4>1. i \in 1..(Len(inFlight) - 1) /\ 0 + i = i /\ i + 1 \in 1..(next - a) /\ b + i - 1 = a + (i + 1) - 1
        BY <1>1, <2>1, <2>2
      <4> QED BY <1>3, <1>6, <2>1, <4>1
    <3>3. nextId' = next
      BY <1>1, <1>6
    <3> QED BY <3>1, <3>2, <3>3 DEF Runs
  <2>17. FollowsFrom(b)'
    <3>1. \A id \in told : id < b
      BY <2>2, <2>9
    <3>2. a < b /\ \A id \in (a + 1)..(b - 1) : FALSE
      BY <2>2
    <3> QED BY <2>4, <2>16, <3>1, <3>2 DEF FollowsFrom
  <2> QED BY <1>1, <1>4, <1>6, <2>7, <2>15, <2>17 DEF FeedInv, Follows
<1> QED BY <1>1, <1>5, <1>7, <1>8 DEF FollowsFrom

\* A stream breaks, or the daemon is another one.
LEMMA BreaksKept == FeedInv /\ (Disconnect \/ FeedRestarts) => FeedInv'
<1> SUFFICES ASSUME FeedInv, Disconnect \/ FeedRestarts PROVE FeedInv'
  OBVIOUS
<1>1. CASE Disconnect
  <2>1. UNCHANGED <<feed, nextId, cursor, got, told>> /\ subscribed' = FALSE /\ inFlight' = <<>>
    BY <1>1 DEF Disconnect
  <2>2. \A id : Had(id)' <=> Had(id)
    BY <2>1 DEF Had
  <2>3. inFlight' \in Seq(Sent) /\ Len(inFlight') = 0
    BY <2>1
  <2>4. FeedKinds'
    BY <2>1, <2>3 DEF FeedInv, FeedKinds
  <2>5. GotInOrder'
    BY <2>1, <2>2 DEF FeedInv, GotInOrder
  <2> QED BY <2>1, <2>3, <2>4, <2>5 DEF FeedInv, Follows
<1>2. CASE FeedRestarts
  <2>1. /\ feed' = EmptyRing /\ nextId' = 1 /\ subscribed' = FALSE /\ inFlight' = <<>>
        /\ got' = <<>> /\ told' = {} /\ cursor' = cursor
    BY <1>2 DEF FeedRestarts
  <2>2. cursor \in Nat
    BY DEF FeedInv, FeedKinds
  <2>3. (Fresh /\ cursor \in Nat)'
    BY <2>1, <2>2 DEF Fresh
  <2> QED BY <2>3, FreshIs, PTL
<1> QED BY <1>1, <1>2

\* The invariant holds throughout.
THEOREM FeedInvariance == FeedSpec => []FeedInv
<1>1. FeedInit => FeedInv
  BY FreshIs DEF FeedInit, Fresh
<1>2. FeedInv /\ [FeedNext]_feedVars => FeedInv'
  <2> SUFFICES ASSUME FeedInv, [FeedNext]_feedVars PROVE FeedInv'
    OBVIOUS
  <2>1. CASE UNCHANGED feedVars
    BY <2>1 DEF feedVars, FeedInv, FeedKinds, GotInOrder, Follows, FollowsFrom, Runs, Had
  <2> QED BY <2>1, EmitKept, FeedConnectKept, ReceiveKept, BreaksKept DEF FeedNext
<1> QED BY <1>1, <1>2, PTL DEF FeedSpec

\* Across broken connections and restarts a reader has every event of one daemon once and in
\* order, but those that a gap message told it, whatever the size of the ring.
THEOREM FeedComplete == FeedSpec => []StreamIsComplete
<1>1. FeedInv => StreamIsComplete
  <2> SUFFICES ASSUME FeedInv PROVE StreamIsComplete
    OBVIOUS
  <2>1. PICK m \in Nat : m = Len(got) /\ DOMAIN got = 1..m
    BY DEF FeedInv, FeedKinds
  <2>2. \A id : id \in Range(got) <=> Had(id)
    BY <2>1 DEF Range, Had
  <2>3. \A i, j \in 1..m : i < j => got[i] < got[j]
    BY <2>1 DEF FeedInv, GotInOrder
  <2>4. ASSUME NEW i \in 1..m, NEW id \in got[1]..got[i] PROVE id \in Range(got) \/ id \in told
    <3>1. got[m] = cursor /\ \A x \in got[1]..cursor : Had(x) \/ x \in told
      BY <2>1 DEF FeedInv, GotInOrder
    <3>2. got[1] \in Nat /\ got[i] \in Nat /\ cursor \in Nat
      BY <2>1 DEF FeedInv, FeedKinds
    <3>3. got[i] <= cursor
      BY <2>3, <3>1, <3>2
    <3>4. id \in got[1]..cursor
      BY <3>2, <3>3
    <3> QED BY <2>2, <3>1, <3>4
  <2>5. \A id \in told : id \notin Range(got)
    BY <2>2 DEF FeedInv, GotInOrder
  <2> QED BY <2>1, <2>3, <2>4, <2>5 DEF StreamIsComplete
<1> QED BY <1>1, FeedInvariance, PTL

\* What the bounds on events and connections add to the kinds.
FeedBounds ==
  /\ nextId <= MaxActivity + 1 /\ restarted \in BOOLEAN /\ cursor <= MaxActivity
  /\ inFlight \in Seq(Message) /\ got \in Seq(1..MaxActivity) /\ told \subseteq 1..MaxActivity

\* Events and gaps are messages.
LEMMA MessagesAre ==
  /\ \A id \in 1..MaxActivity : Emitted(id) \in Message
  /\ \A from, to \in 1..(MaxActivity + 1) : Gap(from, to) \in Message
BY DEF Message, Emitted, Gap

\* So are the events with these ids, in their order.
LEMMA EventsAre ==
  ASSUME NEW n \in Nat, NEW ids, DOMAIN ids = 1..n, \A i \in 1..n : ids[i] \in 1..MaxActivity
  PROVE  Events(ids) \in Seq(Message)
<1>1. \A i \in 1..n : Emitted(ids[i]) \in Message
  BY MessagesAre
<1>2. Events(ids) = [i \in 1..n |-> Emitted(ids[i])]
  BY DEF Events, Emitted
<1>3. Events(ids) \in [1..n -> Message]
  BY <1>1, <1>2
<1> QED BY <1>3

\* An event is emitted within the bound.
LEMMA EmitBounds == FeedInv /\ FeedBounds /\ Emit => FeedBounds'
<1> SUFFICES ASSUME FeedInv, FeedBounds, Emit PROVE FeedBounds'
  OBVIOUS
<1>1. nextId \in 1..MaxActivity /\ MaxActivity \in Nat
  BY FeedAssumption DEF FeedInv, FeedKinds, Emit
<1>2. PICK ids : ids = <<nextId>>
  OBVIOUS
<1>3. DOMAIN ids = 1..1 /\ \A i \in 1..1 : ids[i] \in 1..MaxActivity
  BY <1>1, <1>2
<1>4. PICK run : run = Events(ids)
  OBVIOUS
<1>5. run \in Seq(Message)
  BY <1>3, <1>4, EventsAre
<1>6. inFlight' = IF subscribed THEN inFlight \o run ELSE inFlight
  BY <1>2, <1>4 DEF Emit
<1>7. inFlight' \in Seq(Message)
  BY <1>5, <1>6 DEF FeedBounds
<1> QED BY <1>1, <1>7 DEF Emit, FeedBounds

\* What a connection replays is of the ring.
LEMMA ConnectBounds == FeedInv /\ FeedBounds /\ Connect => FeedBounds'
<1> SUFFICES ASSUME FeedInv, FeedBounds, Connect PROVE FeedBounds'
  OBVIOUS
<1>1. PICK next \in Nat, size \in Nat : /\ next = nextId /\ size = feed.size /\ next > 0
                                        /\ next - size \in 1..next /\ next <= MaxActivity + 1
  BY FeedNumbers DEF FeedInv, FeedKinds, FeedBounds
<1>2. FeedKinds /\ cursor \in Nat /\ cursor <= MaxActivity /\ MaxActivity \in Nat
  BY FeedAssumption DEF FeedInv, FeedKinds, FeedBounds
<1>3. PICK a \in 1..next : ActivityAfter(cursor) = [i \in 1..(next - a) |-> a + i - 1]
  BY <1>1, <1>2, ReplayIs
<1>0. PICK ids : ids = ActivityAfter(cursor)
  OBVIOUS
<1>4. PICK n \in Nat : n = next - a
  BY <1>1
<1>5. DOMAIN ids = 1..n /\ \A i \in 1..n : ids[i] = a + i - 1
  BY <1>0, <1>3, <1>4
<1>6. \A i \in 1..n : a + i - 1 \in 1..MaxActivity
  BY <1>1, <1>2, <1>4
<1>7. \A i \in 1..n : ids[i] \in 1..MaxActivity
  BY <1>5, <1>6
<1>8. Events(ids) \in Seq(Message)
  BY <1>5, <1>7, EventsAre
<1>9. OldestId = next - size
  BY <1>1, <1>2, OldestIs
<1>10. Gap(cursor + 1, OldestId) \in Message
  <2>1. PICK first, oldest : first = cursor + 1 /\ oldest = OldestId
    OBVIOUS
  <2>2. first \in 1..(MaxActivity + 1)
    BY <1>2, <2>1
  <2>3. oldest \in 1..(MaxActivity + 1)
    BY <1>1, <1>2, <1>9, <2>1
  <2> QED BY <2>1, <2>2, <2>3, MessagesAre
<1>11. PICK head, run : /\ head = IF HasGap(cursor) THEN <<Gap(cursor + 1, OldestId)>> ELSE <<>>
                        /\ run = Events(ids)
  OBVIOUS
<1>12. head \in Seq(Message)
  BY <1>10, <1>11
<1>13. inFlight' = head \o run
  BY <1>0, <1>11 DEF Connect, Gap
<1>14. inFlight' \in Seq(Message)
  BY <1>8, <1>11, <1>12, <1>13
<1> QED BY <1>14 DEF Connect, FeedBounds

\* What is received was in flight.
LEMMA ReceiveBounds == FeedInv /\ FeedBounds /\ Receive => FeedBounds'
<1> SUFFICES ASSUME FeedInv, FeedBounds, Receive PROVE FeedBounds'
  OBVIOUS
<1>1. inFlight \in Seq(Message) /\ inFlight # <<>> /\ MaxActivity \in Nat
  BY FeedAssumption DEF FeedBounds, Receive
<1>2. PICK m : m = Head(inFlight)
  OBVIOUS
<1>3. m \in Message /\ inFlight' \in Seq(Message)
  BY <1>1, <1>2 DEF Receive
<1>4. CASE m.event = "gap"
  <2>1. m.from \in 1..(MaxActivity + 1) /\ m.to \in 1..(MaxActivity + 1)
    BY <1>3, <1>4 DEF Message
  <2>2. told' = told \cup (m.from..(m.to - 1)) /\ cursor' = cursor /\ got' = got
    BY <1>2, <1>4 DEF Receive
  <2>3. m.from..(m.to - 1) \subseteq 1..MaxActivity
    BY <1>1, <2>1
  <2>4. told' \subseteq 1..MaxActivity
    BY <2>2, <2>3 DEF FeedBounds
  <2> QED BY <1>3, <2>2, <2>4 DEF FeedBounds, Receive
<1>5. CASE m.event # "gap"
  <2>1. m.id \in 1..MaxActivity
    BY <1>3, <1>5 DEF Message
  <2>2. told' = told /\ cursor' = m.id /\ got' = Append(got, m.id)
    BY <1>2, <1>5 DEF Receive
  <2>3. got' \in Seq(1..MaxActivity)
    BY <2>1, <2>2 DEF FeedBounds
  <2> QED BY <1>1, <1>3, <2>1, <2>2, <2>3 DEF FeedBounds, Receive
<1> QED BY <1>4, <1>5

\* Ring, subscription, messages in flight and what the reader has got keep their types, across
\* broken connections and restarts of the daemon.
THEOREM FeedTypes == FeedSpec => []FeedTypeOK
<1>1. FeedInit => FeedBounds
  <2>1. << >> \in Seq(Message) /\ << >> \in Seq(1..MaxActivity)
    OBVIOUS
  <2>2. 1 <= MaxActivity + 1 /\ 0 <= MaxActivity
    BY FeedAssumption
  <2> QED BY <2>1, <2>2 DEF FeedInit, FeedBounds
<1>2. FeedInv /\ FeedBounds /\ [FeedNext]_feedVars => FeedBounds'
  <2> SUFFICES ASSUME FeedInv, FeedBounds, [FeedNext]_feedVars PROVE FeedBounds'
    OBVIOUS
  <2>1. CASE UNCHANGED feedVars
    BY <2>1 DEF feedVars, FeedBounds
  <2>2. CASE Disconnect
    BY <2>2 DEF Disconnect, FeedBounds
  <2>3. CASE FeedRestarts
    BY <2>3, FeedAssumption DEF FeedRestarts, FeedBounds
  <2> QED BY <2>1, <2>2, <2>3, EmitBounds, ConnectBounds, ReceiveBounds DEF FeedNext
<1>3. FeedInv /\ FeedBounds => FeedTypeOK
  <2> SUFFICES ASSUME FeedInv, FeedBounds PROVE FeedTypeOK
    OBVIOUS
  <2>1. nextId \in 1..(MaxActivity + 1) /\ cursor \in 0..MaxActivity
    BY FeedAssumption DEF FeedInv, FeedKinds, FeedBounds
  <2>2. feed.total = nextId - 1 /\ feed.size \in 0..FeedCapacity
    BY FeedNumbers DEF FeedInv, FeedKinds, IsRing
  <2> QED BY <2>1, <2>2 DEF FeedInv, FeedKinds, FeedBounds, FeedTypeOK
<1> QED BY <1>1, <1>2, <1>3, FeedInvariance, PTL DEF FeedSpec
=============================================================================
