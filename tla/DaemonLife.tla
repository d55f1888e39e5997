----------------------------- MODULE DaemonLife -----------------------------
(* The life of one daemon process: start() with its SOCKS test and Xvfb, the   *)
(* timers and signals that may end it, shutdown(), emergencyCleanup(), the     *)
(* browser's own disconnects and the kills nobody can catch -- and what each   *)
(* way out leaves behind: the state file, the Xvfb, the unwritten logs.        *)
(* `watch` is here too: its intervals end with the daemon or with `watch stop`.*)
EXTENDS Naturals, FiniteSets

CONSTANT MaxWatches  \* bound: intervals that `watch` ever starts

ASSUME LifeAssumption == MaxWatches \in Nat

VARIABLES
  life,        \* what the process is doing; "up" from the state file on
  asked,       \* the environment it was started with
  headedMode,  \* connectionMode = "headed"
  handedOff,   \* it became headed by handoff, with handoff's disconnect handler
  xvfb,        \* "none", "probing" before its exit handler is registered, "up"
  published,   \* the state file: "no", "plain", "xvfb" when it names the Xvfb
  termFiles,   \* terminal-port and terminal-internal-token exist
  tunnelOn,    \* tunnelActive
  pickerOn,    \* hasActivePicker()
  parentGone,  \* the process BROWSE_PARENT_PID has exited
  idle,        \* no activity for IDLE_TIMEOUT_MS
  unwritten,   \* log entries since the last flush
  flushFailed, \* history: the last flush threw
  ended,       \* history: how and where it was ended
  watching, watchInterval,
  timers,      \* the intervals of `watch` that still fire
  orphaned,    \* history: those replaced in watchInterval by another
  watches      \* intervals started so far

envVars == <<asked, tunnelOn, pickerOn, parentGone, idle>>
watchVars == <<watching, watchInterval, timers, orphaned, watches>>
lifeVars == <<life, headedMode, handedOff, xvfb, published, termFiles, unwritten, flushFailed,
              ended, envVars, watchVars>>

Starting == {"port", "upstream", "bridge", "display", "probe", "launch"}
Ways == {"startup", "crash", "killed", "error", "shutdown"}

LifeFlags ==
  /\ headedMode \in BOOLEAN /\ handedOff \in BOOLEAN /\ termFiles \in BOOLEAN
  /\ tunnelOn \in BOOLEAN /\ pickerOn \in BOOLEAN /\ parentGone \in BOOLEAN /\ idle \in BOOLEAN
  /\ unwritten \in BOOLEAN /\ flushFailed \in BOOLEAN /\ watching \in BOOLEAN
  /\ handedOff => headedMode

LifeTypeOK ==
  /\ life \in Starting \cup {"up", "closing", "exiting", "gone"}
  /\ asked \in [headed : BOOLEAN, xvfb : BOOLEAN, socks : BOOLEAN, watched : BOOLEAN]
  /\ LifeFlags
  /\ xvfb \in {"none", "probing", "up"} /\ published \in {"no", "plain", "xvfb"}
  /\ ended \in (Ways \cup {"no"}) \X (Starting \cup {"up", "closing", "exiting"})
  /\ watches \in 0..MaxWatches /\ watchInterval \in 0..watches
  /\ timers \subseteq 1..watches /\ orphaned \subseteq 1..watches

\* Xvfb is for a headed daemon (shouldSpawnXvfb); the watchdog is registered for a
\* parent pid and not for BROWSE_HEADED=1.
LifeInit ==
  /\ life = "port"
  /\ asked \in {e \in [headed : BOOLEAN, xvfb : BOOLEAN, socks : BOOLEAN, watched : BOOLEAN] :
                  (e.xvfb => e.headed) /\ (e.watched => ~e.headed)}
  /\ headedMode = FALSE /\ handedOff = FALSE
  /\ xvfb = "none" /\ published = "no" /\ termFiles = FALSE
  /\ tunnelOn = FALSE /\ pickerOn = FALSE /\ parentGone = FALSE /\ idle = FALSE
  /\ unwritten = FALSE /\ flushFailed = FALSE /\ ended = <<"no", "port">>
  /\ watching = FALSE /\ watchInterval = 0 /\ timers = {} /\ orphaned = {} /\ watches = 0

\* Mutant: the exit of a shutdown does not close the Xvfb.
MutExits(way) ==
  /\ life' = "gone"
  /\ ended' = <<way, life>>
  /\ xvfb' = IF way = "error" /\ xvfb = "up" THEN "none" ELSE xvfb
  /\ timers' = {}

\* The process ends.  process.exit runs the 'exit' handlers, which close the Xvfb of a
\* spawn that has resolved; SIGKILL runs nothing.
Exits(way) ==
  /\ life' = "gone"
  /\ ended' = <<way, life>>
  /\ xvfb' = IF way # "killed" /\ xvfb = "up" THEN "none" ELSE xvfb
  /\ timers' = {}

-----------------------------------------------------------------------------
(* start().  activeShutdown is not set before "up": signals and timers find null. *)

AfterProxy == IF asked.xvfb THEN "display" ELSE "launch"

StartStep(from, to) ==
  /\ life = from
  /\ life' = to
  /\ UNCHANGED <<headedMode, handedOff, xvfb, published, termFiles, unwritten, flushFailed, ended,
                 envVars, watchVars>>

PortFound == StartStep("port", IF asked.socks THEN "upstream" ELSE AfterProxy)
UpstreamTested == StartStep("upstream", "bridge")
BridgeListens == StartStep("bridge", AfterProxy)

XvfbSpawned ==
  /\ life = "display"
  /\ life' = "probe" /\ xvfb' = "probing"
  /\ UNCHANGED <<headedMode, handedOff, published, termFiles, unwritten, flushFailed, ended,
                 envVars, watchVars>>

XvfbReady ==
  /\ life = "probe"
  /\ life' = "launch" /\ xvfb' = "up"
  /\ UNCHANGED <<headedMode, handedOff, published, termFiles, unwritten, flushFailed, ended,
                 envVars, watchVars>>

\* launch or launchHeaded resolves; buildFetchHandler, the listener and the state file
\* follow in the same tick.
Launched ==
  /\ life = "launch"
  /\ life' = "up"
  /\ headedMode' = asked.headed
  /\ published' = IF xvfb = "up" THEN "xvfb" ELSE "plain"
  /\ UNCHANGED <<handedOff, xvfb, termFiles, unwritten, flushFailed, ended, envVars, watchVars>>

\* Any await of start() fails: no port, no upstream, no display, an Xvfb that is not
\* reachable within 3 s (and is killed), no browser, no listener.
StartFails ==
  /\ life \in Starting
  /\ life' = "gone" /\ ended' = <<"startup", life>>
  /\ xvfb' = "none" /\ timers' = {}
  /\ UNCHANGED <<headedMode, handedOff, published, termFiles, unwritten, flushFailed, envVars,
                 watching, watchInterval, orphaned, watches>>

-----------------------------------------------------------------------------
(* The ways out.                                                             *)

\* shutdown() up to its await of the browser: the terminal agent is killed and its
\* files go, the watch is stopped, the logs are flushed, the disconnect handlers are
\* removed.  A second call finds isShuttingDown.
Shutdown ==
  /\ life = "up"
  /\ life' = "closing"
  /\ termFiles' = FALSE
  /\ watching' = FALSE
  /\ timers' = IF watching THEN timers \ {watchInterval} ELSE timers
  /\ watchInterval' = IF watching THEN 0 ELSE watchInterval
  /\ \E fails \in BOOLEAN : flushFailed' = (unwritten /\ fails) /\ unwritten' = (unwritten /\ fails)
  /\ UNCHANGED <<headedMode, handedOff, xvfb, published, ended, envVars, orphaned, watches>>

\* The browser has closed, or the five seconds of close()'s race have passed: the state
\* file goes first ...
CloseRaceEnds ==
  /\ life = "closing"
  /\ life' = "exiting"
  /\ published' = "no"
  /\ UNCHANGED <<headedMode, handedOff, xvfb, termFiles, unwritten, flushFailed, ended, envVars, watchVars>>

\* ... and the Xvfb with the exit handlers.
ShutdownExits ==
  /\ life = "exiting"
  /\ Exits("shutdown")
  /\ UNCHANGED <<headedMode, handedOff, published, termFiles, unwritten, flushFailed, envVars,
                 watching, watchInterval, orphaned, watches>>

\* `stop`, `restart`, `disconnect`, SIGINT.
StopCommand == Shutdown

\* SIGTERM stays without effect in headless mode and while the cookie picker is open.
Sigterm == ~pickerOn /\ (headedMode \/ tunnelOn) /\ Shutdown

\* Mutant: an open cookie picker keeps the daemon for ever.
MutIdleCheck == ~headedMode /\ ~tunnelOn /\ idle /\ ~pickerOn /\ Shutdown

IdleCheck == ~headedMode /\ ~tunnelOn /\ idle /\ Shutdown

Watchdog ==
  /\ asked.watched /\ parentGone
  /\ ~pickerOn /\ (headedMode \/ tunnelOn)
  /\ Shutdown

\* A headed browser that `connect` launched is closed: onDisconnect is shutdown(2).
HeadedDisconnects == headedMode /\ ~handedOff /\ Shutdown

\* A headless browser crashes, or the one of a handoff is closed: process.exit(1) at once.
BrowserCrashes ==
  /\ life = "up" /\ (~headedMode \/ handedOff)
  /\ Exits("crash")
  /\ UNCHANGED <<headedMode, handedOff, published, termFiles, unwritten, flushFailed, envVars,
                 watching, watchInterval, orphaned, watches>>

\* An uncaught exception or rejection.  emergencyCleanup kills the Xvfb that the state
\* file names and removes the file, except during a shutdown, where it returns at once.
UncaughtError ==
  /\ life \in Starting \cup {"up", "closing"}
  /\ Exits("error")
  /\ published' = IF life = "closing" THEN published ELSE "no"
  /\ UNCHANGED <<headedMode, handedOff, termFiles, unwritten, flushFailed, envVars,
                 watching, watchInterval, orphaned, watches>>

\* SIGKILL: killServer two seconds after its SIGTERM, or the kernel.
Sigkill ==
  /\ life # "gone"
  /\ Exits("killed")
  /\ UNCHANGED <<headedMode, handedOff, published, termFiles, unwritten, flushFailed, envVars,
                 watching, watchInterval, orphaned, watches>>

-----------------------------------------------------------------------------
(* What goes on while it lives.                                              *)

InService(changes) ==
  /\ life = "up"
  /\ changes
  /\ UNCHANGED <<life, xvfb, published, ended, asked>>

\* An authenticated request resets the idle timer; a page logs something.
Activity ==
  /\ idle' = FALSE /\ unwritten' = TRUE
  /\ InService(UNCHANGED <<headedMode, handedOff, termFiles, flushFailed, tunnelOn, pickerOn,
                           parentGone, watchVars>>)

\* The flush of every second.
FlushTick ==
  /\ unwritten
  /\ \E fails \in BOOLEAN : unwritten' = fails /\ flushFailed' = fails
  /\ InService(UNCHANGED <<headedMode, handedOff, termFiles, tunnelOn, pickerOn, parentGone, idle,
                           watchVars>>)

\* handoff: the browser becomes a headed one, with a disconnect handler of its own.
HandOff ==
  /\ ~headedMode
  /\ headedMode' = TRUE /\ handedOff' = TRUE
  /\ InService(UNCHANGED <<termFiles, unwritten, flushFailed, tunnelOn, pickerOn, parentGone, idle,
                           watchVars>>)

\* The world: time passes, the parent exits, the tunnel and the picker come and go, the
\* terminal agent writes its files.
World ==
  /\ \/ idle' = TRUE /\ UNCHANGED <<parentGone, tunnelOn, pickerOn, termFiles>>
     \/ parentGone' = TRUE /\ UNCHANGED <<idle, tunnelOn, pickerOn, termFiles>>
     \/ tunnelOn' = ~tunnelOn /\ UNCHANGED <<idle, parentGone, pickerOn, termFiles>>
     \/ pickerOn' = ~pickerOn /\ UNCHANGED <<idle, parentGone, tunnelOn, termFiles>>
     \/ termFiles' = TRUE /\ UNCHANGED <<idle, parentGone, tunnelOn, pickerOn>>
  /\ InService(UNCHANGED <<headedMode, handedOff, unwritten, flushFailed, watchVars>>)

\* `watch`, also when it answers "Already watching": a new interval takes watchInterval.
Watch ==
  /\ headedMode /\ watches < MaxWatches
  /\ watching' = TRUE
  /\ watches' = watches + 1
  /\ watchInterval' = watches + 1
  /\ timers' = timers \cup {watches + 1}
  /\ orphaned' = IF watching THEN orphaned \cup {watchInterval} ELSE orphaned
  /\ InService(UNCHANGED <<headedMode, handedOff, termFiles, unwritten, flushFailed, tunnelOn,
                           pickerOn, parentGone, idle>>)

\* Mutant: the interval is not cleared.
MutWatchStop ==
  /\ watching
  /\ watching' = FALSE
  /\ watchInterval' = 0
  /\ InService(UNCHANGED <<headedMode, handedOff, termFiles, unwritten, flushFailed, tunnelOn,
                           pickerOn, parentGone, idle, timers, orphaned, watches>>)

\* `watch stop` clears the interval that watchInterval names.
WatchStop ==
  /\ watching
  /\ watching' = FALSE
  /\ timers' = timers \ {watchInterval} /\ watchInterval' = 0
  /\ InService(UNCHANGED <<headedMode, handedOff, termFiles, unwritten, flushFailed, tunnelOn,
                           pickerOn, parentGone, idle, orphaned, watches>>)

\* An interval fires when nothing is watched any more, and clears itself.
WatchTick(t) ==
  /\ ~watching
  /\ timers' = timers \ {t}
  /\ InService(UNCHANGED <<headedMode, handedOff, termFiles, unwritten, flushFailed, tunnelOn,
                           pickerOn, parentGone, idle, watching, watchInterval, orphaned, watches>>)

LifeNext ==
  \/ PortFound \/ UpstreamTested \/ BridgeListens \/ XvfbSpawned \/ XvfbReady \/ Launched \/ StartFails
  \/ StopCommand \/ Sigterm \/ IdleCheck \/ Watchdog \/ HeadedDisconnects
  \/ CloseRaceEnds \/ ShutdownExits
  \/ BrowserCrashes \/ UncaughtError \/ Sigkill
  \/ Activity \/ FlushTick \/ HandOff \/ World
  \/ Watch \/ WatchStop \/ \E t \in timers : WatchTick(t)

\* The timers fire and synchronous code runs on; nothing makes the browser answer.
LifeFairness ==
  /\ WF_lifeVars(IdleCheck) /\ WF_lifeVars(Watchdog)
  /\ WF_lifeVars(CloseRaceEnds) /\ WF_lifeVars(ShutdownExits)

LifeSpec == LifeInit /\ [][LifeNext]_lifeVars /\ LifeFairness

-----------------------------------------------------------------------------
(* Properties.                                                               *)

\* Whichever of its exits the daemon takes, no Xvfb stays behind unless it was killed,
\* or died before the spawn had resolved; one that does is named by the state file, for
\* `disconnect` to clean up -- except between the unlink and the exit handlers of a
\* shutdown, and before the file is written.  A state file stays behind only where no
\* code of the daemon removes it, and a shutdown leaves no log unwritten that it could
\* write and no file of the terminal agent.
CleanExit ==
  /\ life = "gone" =>
       /\ xvfb # "none" => (ended[1] = "killed" \/ ended = <<"error", "probe">>)
       /\ published # "no" => (ended[1] \in {"killed", "crash"} \/ ended = <<"error", "closing">>)
       /\ ended[1] = "shutdown" => ~termFiles /\ (unwritten => flushFailed)
  /\ xvfb = "up" =>
       \/ published = "xvfb"
       \/ {life, ended[2]} \cap {"launch", "exiting"} # {}

\* A daemon that has begun to shut down ends, also when the browser never closes; and
\* none stays forever that is idle and headless without a tunnel, or that is headed or
\* tunnelled, has lost the parent it watches and has no cookie picker open
\* (server.ts: "the idle timeout handles eventual cleanup").
IdleDue == life = "up" /\ ~headedMode /\ ~tunnelOn /\ idle
OrphanDue == life = "up" /\ (headedMode \/ tunnelOn) /\ asked.watched /\ parentGone /\ ~pickerOn
LifeEnds == (life = "closing" ~> life = "gone") /\ []<>~IdleDue /\ []<>~OrphanDue

\* While it is not watching, the daemon has no interval but those that a repeated
\* `watch` had taken out of watchInterval before `watch stop` could clear them.
StopEndsTimers == timers \ {watchInterval} \subseteq orphaned
=============================================================================
