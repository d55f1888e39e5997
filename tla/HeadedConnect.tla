--------------------------- MODULE HeadedConnect ---------------------------
(* `connect`, `disconnect` and the daemon they start and stop in headed mode:  *)
(* CLI processes without a lock between them, daemons on one well-known port,  *)
(* and Chromium processes on one profile, guarded by its SingletonLock.  The   *)
(* waits of the CLI are fixed times, so anything may happen during them.       *)
EXTENDS Naturals, FiniteSets

CONSTANTS Connects,    \* CLI processes under way at once
          MaxDaemons,  \* bound: daemons of a behaviour; 1 is there at the start or never was
          MaxKills     \* bound: SIGKILLs from outside

ASSUME ConnectAssumption ==
  IsFiniteSet(Connects) /\ MaxDaemons \in Nat \ {0} /\ MaxKills \in Nat

VARIABLES
  running,    \* daemon -> where its start or its shutdown is
  headless,   \* daemon 1 was started by another command, without the profile
  chromes,    \* daemons whose Chromium runs on the profile
  singleton,  \* whose Chromium SingletonLock names, 0 if there is no such link
  stateFile,  \* the daemon that the state file names, 0 if there is no file
  port,       \* the daemon that serves on port 34567
  cli,        \* CLI process -> where it is, and the daemon it has read
  spawned, kills,  \* counters
  overlapped,  \* history: two starts were under way at a time
  bared       \* history: living Chromiums whose lock a disconnect or another's shutdown has removed

connectVars == <<running, headless, chromes, singleton, stateFile, port, cli, spawned, kills, overlapped, bared>>

Daemons == 1..MaxDaemons
None == 0
Outside == [at |-> "idle", does |-> "nothing", read |-> None]
StartingUp == {"spawned", "checked", "cleaned", "launched"}
Alive(d) == running[d] \notin {"none", "dead"}

ConnectTypeOK ==
  /\ \A d \in Daemons : running[d] \in StartingUp \cup {"none", "up", "closing", "dead"}
  /\ headless \subseteq {1} /\ chromes \cup bared \subseteq Daemons /\ overlapped \in BOOLEAN
  /\ {singleton, stateFile, port} \subseteq Daemons \cup {None}
  /\ \A c \in Connects : cli[c].at \in {"idle", "health", "term", "kill", "orphan", "unlink", "spawn", "poll", "asked"}
  /\ spawned \in 0..MaxDaemons /\ kills \in 0..MaxKills
  /\ port # None => running[port] \in {"up", "closing"}

\* No daemon, or a headless one that an earlier command has left.
ConnectInit ==
  /\ headless \in {{}, {1}}
  /\ running = [d \in Daemons |-> IF d \in headless THEN "up" ELSE "none"]
  /\ stateFile = IF headless = {} THEN None ELSE 1
  /\ spawned = Cardinality(headless)
  /\ chromes = {} /\ singleton = None /\ port = None
  /\ cli = [c \in Connects |-> Outside] /\ kills = 0 /\ overlapped = FALSE /\ bared = {}

Profile == <<chromes, singleton>>
Host == <<running, Profile, stateFile, port, spawned, bared>>

At(c, at) == cli' = [cli EXCEPT ![c].at = at]
Exit(c) == cli' = [cli EXCEPT ![c] = Outside]

\* A daemon that is gone frees its port.  When its exit handlers ran, its Chromium goes
\* with it; after a SIGKILL the Chromium may go or stay.  Its lock stays in both cases.
Gone(d, browser) ==
  /\ running' = [running EXCEPT ![d] = "dead"]
  /\ port' = IF port = d THEN None ELSE port
  /\ chromes' = IF browser THEN chromes ELSE chromes \ {d}

\* SIGTERM: a headed daemon that is up shuts down, a headless one ignores it, and one
\* that starts has a handler that finds no shutdown to call.
Terminated(d) ==
  running' = IF running[d] = "up" /\ d \notin headless THEN [running EXCEPT ![d] = "closing"] ELSE running

-----------------------------------------------------------------------------
(* The CLI.                                                                  *)

ReadState(c, does) ==
  /\ cli[c] = Outside
  /\ LET d == stateFile
         headed == d # None /\ d \notin headless
     IN IF does = "disconnect" /\ ~headed THEN UNCHANGED cli
        ELSE cli' = [cli EXCEPT ![c] =
               [does |-> does, read |-> d,
                at |-> IF does = "disconnect" THEN "asked"
                       ELSE IF headed /\ Alive(d) THEN "health" ELSE "term"]]
  /\ UNCHANGED <<Host, headless, kills>>

\* `connect`: any answer of /health is enough, also from a daemon that shuts down or from
\* one that has taken the port since.
AlreadyConnected(c) ==
  /\ cli[c].at = "health" /\ port # None
  /\ Exit(c)
  /\ UNCHANGED <<Host, headless, kills>>
HealthFails(c) ==
  /\ cli[c].at = "health"
  /\ At(c, "term")
  /\ UNCHANGED <<Host, headless, kills>>

\* `disconnect`: the daemon shuts down and never answers, or does not get the request.
AskShutdown(c) ==
  /\ cli[c].at = "asked"
  /\ At(c, "term")
  /\ running' \in {running, IF port = cli[c].read /\ running[port] = "up"
                            THEN [running EXCEPT ![port] = "closing"] ELSE running}
  /\ UNCHANGED <<headless, Profile, stateFile, port, spawned, kills, bared>>

SendTerm(c) ==
  /\ cli[c].at = "term"
  /\ LET d == cli[c].read
         alive == d # None /\ Alive(d)
     IN /\ IF alive THEN Terminated(d) ELSE UNCHANGED running
        /\ At(c, IF alive THEN "kill" ELSE IF cli[c].does = "connect" THEN "orphan" ELSE "unlink")
  /\ UNCHANGED <<headless, Profile, stateFile, port, spawned, kills, bared>>

\* Two seconds later: SIGKILL if it is still there.
SendKill(c) ==
  /\ cli[c].at = "kill"
  /\ IF Alive(cli[c].read)
     THEN \E browser \in BOOLEAN : Gone(cli[c].read, browser)
     ELSE UNCHANGED <<running, port, chromes>>
  /\ At(c, IF cli[c].does = "connect" THEN "orphan" ELSE "unlink")
  /\ UNCHANGED <<headless, singleton, stateFile, spawned, kills, bared>>

\* Mutant: the orphan that SingletonLock names is left alone.
MutKillOrphan(c) ==
  /\ cli[c].at = "orphan"
  /\ At(c, "unlink")
  /\ UNCHANGED <<Host, headless, kills>>

\* `connect` kills the Chromium that SingletonLock names, if it lives; its daemon, if
\* that lives, sees the browser disconnect and shuts down.
KillOrphan(c) ==
  /\ cli[c].at = "orphan"
  /\ chromes' = chromes \ {singleton}
  /\ running' = IF singleton \in chromes /\ running[singleton] = "up"
                THEN [running EXCEPT ![singleton] = "closing"] ELSE running
  /\ At(c, "unlink")
  /\ UNCHANGED <<headless, singleton, stateFile, port, spawned, kills, bared>>

\* The locks of the profile and the state file go, whatever they name by now.
Unlink(c) ==
  /\ cli[c].at = "unlink"
  /\ singleton' = None /\ stateFile' = None
  /\ bared' = IF cli[c].does = "disconnect" THEN bared \cup ({singleton} \cap chromes) ELSE bared
  /\ IF cli[c].does = "connect" THEN At(c, "spawn") ELSE Exit(c)
  /\ UNCHANGED <<running, headless, chromes, port, spawned, kills>>

\* startServer: the state file goes once more, and a daemon is spawned.
SpawnDaemon(c) ==
  /\ cli[c].at = "spawn" /\ spawned < MaxDaemons
  /\ stateFile' = None
  /\ spawned' = spawned + 1
  /\ running' = [running EXCEPT ![spawned + 1] = "spawned"]
  /\ At(c, "poll")
  /\ UNCHANGED <<headless, Profile, port, kills, bared>>

\* It connects to the daemon that has published itself, which need not be its own; or
\* eight seconds pass, and what it has spawned goes on starting.
ConnectEnds(c) == cli[c].at = "poll" /\ Exit(c) /\ UNCHANGED <<Host, headless, kills>>

\* A CLI process is interrupted.
Interrupted(c) == cli[c] # Outside /\ Exit(c) /\ UNCHANGED <<Host, headless, kills>>

-----------------------------------------------------------------------------
(* The headed daemon, and Chromium.                                          *)

\* findPort binds the port and lets it go; a port in use ends the start.
CheckPort(d) ==
  /\ running[d] = "spawned"
  /\ running' = [running EXCEPT ![d] = IF port = None THEN "checked" ELSE "dead"]
  /\ UNCHANGED <<headless, Profile, stateFile, port, cli, spawned, kills, bared>>

\* launchHeaded: cleanSingletonLocks, before Chromium is started.
CleanLocks(d) ==
  /\ running[d] = "checked"
  /\ singleton' = None
  /\ running' = [running EXCEPT ![d] = "cleaned"]
  /\ UNCHANGED <<headless, chromes, stateFile, port, cli, spawned, kills, bared>>

\* Chromium starts on the profile unless a living one holds the lock; then the launch fails.
LaunchChromium(d) ==
  /\ running[d] = "cleaned"
  /\ IF singleton \in chromes
     THEN running' = [running EXCEPT ![d] = "dead"] /\ UNCHANGED Profile
     ELSE /\ running' = [running EXCEPT ![d] = "launched"]
          /\ chromes' = chromes \cup {d} /\ singleton' = d
  /\ UNCHANGED <<headless, stateFile, port, cli, spawned, kills, bared>>

\* Bun.serve, and the state file; a port taken meanwhile ends the start, and Chromium.
Serve(d) ==
  /\ running[d] = "launched"
  /\ IF port = None
     THEN /\ port' = d /\ stateFile' = d
          /\ running' = [running EXCEPT ![d] = "up"]
          /\ UNCHANGED chromes
     ELSE Gone(d, FALSE) /\ UNCHANGED stateFile
  /\ UNCHANGED <<headless, singleton, cli, spawned, kills, bared>>

\* The user closes the window: Chromium removes its lock, the daemon shuts down.
WindowCloses(d) ==
  /\ running[d] = "up" /\ d \in chromes
  /\ chromes' = chromes \ {d}
  /\ singleton' = IF singleton = d THEN None ELSE singleton
  /\ running' = [running EXCEPT ![d] = "closing"]
  /\ UNCHANGED <<headless, stateFile, port, cli, spawned, kills, bared>>

\* The end of shutdown: Chromium closed or dying with the process, the locks and the
\* state file removed.
CloseEnds(d) ==
  /\ running[d] = "closing"
  /\ Gone(d, FALSE)
  /\ singleton' = None /\ stateFile' = None
  /\ bared' = bared \cup ({singleton} \cap (chromes \ {d}))
  /\ UNCHANGED <<headless, cli, spawned, kills>>

Crash(d) ==
  /\ Alive(d) /\ kills < MaxKills
  /\ kills' = kills + 1
  /\ \E browser \in BOOLEAN : Gone(d, browser)
  /\ UNCHANGED <<headless, singleton, stateFile, cli, spawned, bared>>

\* An orphan ends by itself, and removes its lock.
OrphanExits(d) ==
  /\ d \in chromes /\ running[d] = "dead"
  /\ chromes' = chromes \ {d}
  /\ singleton' = IF singleton = d THEN None ELSE singleton
  /\ UNCHANGED <<running, headless, stateFile, port, cli, spawned, kills, bared>>

\* History.  A start is under way from the look for an orphan to the publication.
StartsUnderWay ==
  Cardinality({c \in Connects : cli[c].does = "connect" /\ cli[c].at \in {"unlink", "spawn"}})
  + Cardinality({d \in Daemons : running[d] \in StartingUp})

ConnectNext ==
  /\ \/ \E c \in Connects :
          \/ ReadState(c, "connect") \/ ReadState(c, "disconnect")
          \/ AlreadyConnected(c) \/ HealthFails(c) \/ AskShutdown(c)
          \/ SendTerm(c) \/ SendKill(c) \/ KillOrphan(c) \/ Unlink(c) \/ SpawnDaemon(c)
          \/ ConnectEnds(c) \/ Interrupted(c)
     \/ \E d \in Daemons :
          \/ CheckPort(d) \/ CleanLocks(d) \/ LaunchChromium(d) \/ Serve(d)
          \/ WindowCloses(d) \/ CloseEnds(d) \/ Crash(d) \/ OrphanExits(d)
  /\ overlapped' = (overlapped \/ StartsUnderWay' > 1)

ConnectSpec == ConnectInit /\ [][ConnectNext]_connectVars

-----------------------------------------------------------------------------
(* Property.                                                                 *)

\* No two Chromiums run on the profile, through crashes, orphans, interrupted and failed
\* connects, unless two starts were under way at a time, or a disconnect or the end of
\* another daemon has removed the lock of a living one (browser-manager.ts, of
\* cleanSingletonLocks: "Safe under external coordination: gbd.lock for gbrowser,
\* single-instance CLI check for gstack").
OneBrowserAlone ==
  Cardinality(chromes) > 1 => (overlapped \/ chromes \cap bared # {})
=============================================================================
