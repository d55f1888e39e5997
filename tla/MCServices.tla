------------------------------ MODULE MCServices ------------------------------
(* The services around the browser -- logs, lifetime, activity stream, notes   *)
(* and skills, style edits, captures, SOCKS bridge, limits, the  *)
(* processes of a headed session -- each with its own actors.                  *)
(* They share no variable, so a behaviour of this run follows one of them,     *)
(* chosen at the start: the state space is the sum of theirs, and every        *)
(* property is one of a single part.                                           *)
EXTENDS LogBuffers, DaemonLife, ActivityFeed, DomainSkills, StyleEdits, SocksBridge,
        RequestLimits, SkillRuns, NetCapture, HeadedConnect, TLC

VARIABLE part  \* the component this behaviour is of

noteVars == <<logVars, feedVars, skillVars, styleVars>>
hostVars == <<lifeVars, socksVars, limitVars, spawnVars>>
peerVars == <<captureVars, connectVars>>
allVars == <<part, noteVars, hostVars, peerVars>>

MCInit ==
  /\ part \in {"log", "life", "feed", "skill", "style", "socks", "limit", "spawn",
              "capture", "connect"}
  /\ LogInit /\ LifeInit /\ FeedInit /\ SkillInit /\ StyleInit /\ SocksInit /\ LimitInit /\ SpawnInit
  /\ CaptureInit /\ ConnectInit
  /\ part # "life" => ~asked.headed /\ ~asked.socks /\ ~asked.watched
  /\ \A p \in StylePages : part # "style" \/ p # 1 => inline[p] + sheet[p] = 0
  /\ part # "capture" => activePage = 1
  /\ part # "connect" => headless = {}
  /\ part # "spawn" => tiers["bundled"] = "absent"

LogStep == part = "log" /\ LogNext /\ UNCHANGED <<part, peerVars, hostVars, feedVars, skillVars, styleVars>>
FeedStep == part = "feed" /\ FeedNext /\ UNCHANGED <<part, peerVars, hostVars, logVars, skillVars, styleVars>>
SkillStep == part = "skill" /\ SkillNext /\ UNCHANGED <<part, peerVars, hostVars, logVars, feedVars, styleVars>>
StyleStep == part = "style" /\ StyleNext /\ UNCHANGED <<part, peerVars, hostVars, logVars, feedVars, skillVars>>
LifeStep == part = "life" /\ LifeNext /\ UNCHANGED <<part, peerVars, noteVars, socksVars, limitVars, spawnVars>>
SocksStep == part = "socks" /\ SocksNext /\ UNCHANGED <<part, peerVars, noteVars, lifeVars, limitVars, spawnVars>>
LimitStep == part = "limit" /\ LimitNext /\ UNCHANGED <<part, peerVars, noteVars, lifeVars, socksVars, spawnVars>>
SpawnStep == part = "spawn" /\ SpawnNext /\ UNCHANGED <<part, peerVars, noteVars, lifeVars, socksVars, limitVars>>

CaptureStep == part = "capture" /\ CaptureNext /\ UNCHANGED <<part, noteVars, hostVars, connectVars>>
\* OneBrowserAlone says nothing once two starts have overlapped.
ConnectStep ==
  /\ part = "connect" /\ ~overlapped /\ ConnectNext
  /\ UNCHANGED <<part, noteVars, hostVars, captureVars>>

MCNext == LogStep \/ FeedStep \/ SkillStep \/ StyleStep \/ LifeStep \/ SocksStep \/ LimitStep
          \/ SpawnStep \/ CaptureStep \/ ConnectStep

\* The fairness of DaemonLife, in the behaviours that are its own.
Lives(action) == part = "life" /\ action /\ UNCHANGED <<part, peerVars, noteVars, socksVars, limitVars, spawnVars>>
MCSpec ==
  /\ MCInit /\ [][MCNext]_allVars
  /\ WF_lifeVars(Lives(IdleCheck)) /\ WF_lifeVars(Lives(Watchdog))
  /\ WF_lifeVars(Lives(CloseRaceEnds)) /\ WF_lifeVars(Lives(ShutdownExits))

\* What the variables of a part hold in its behaviours (types, and bounds of the counters;
\* the time testUpstream has spent is within its "Total time budget across all retries").
ServicesTypeOK ==
  /\ part = "log" => LogTypeOK
  /\ part = "life" => LifeTypeOK
  /\ part = "feed" => FeedTypeOK
  /\ part = "skill" => SkillTypeOK
  /\ part = "style" => StyleTypeOK
  /\ part = "socks" => SocksTypeOK
  /\ part = "limit" => LimitTypeOK
  /\ part = "spawn" => SpawnTypeOK
  /\ part = "capture" => CaptureTypeOK
  /\ part = "connect" => ConnectTypeOK
=============================================================================
