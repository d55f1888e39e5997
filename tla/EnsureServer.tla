---------------------------- MODULE EnsureServer ----------------------------
(***************************************************************************)
(* How browse commands find or start the daemon (cli.ts): ensureServer,    *)
(* acquireServerLock, startServer, killServer and the crash retry of       *)
(* sendCommand, with the part of server.ts that they rely on: a daemon     *)
(* publishes itself in the state file once it listens, and removes that    *)
(* file when it shuts down.                                                *)
(*                                                                         *)
(* Each command is a process of its own.  The processes share the state    *)
(* file and the lock file, and any of them may be killed between two       *)
(* system calls.  A health check has a time limit, so it may fail for a    *)
(* daemon that is up.                                                      *)
(***************************************************************************)
EXTENDS Naturals

CONSTANTS Clis,        \* command processes
          MaxServers   \* bound: daemons that run or are remembered at a time

ASSUME MaxServersIsPos == MaxServers \in Nat \ {0}
ASSUME NobodyIsNoCli == "nobody" \notin Clis

VARIABLES stateFile,   \* the daemon that the state file names, 0 if there is no file
          lockFile,    \* NoLock, or who created the lock file and if its pid is in it
          servers,     \* status of every daemon; its number stands for pid and port
          outdated,    \* daemons of a binary that has been updated since
          pc,          \* where each command is
          seen,        \* the state it read, and whose pid it kills
          holds,       \* it has a release function for the lock file
          conn,        \* the daemon it talks to
          retries,     \* restarts by sendCommand
          robbed       \* history: an unlink removed the lock of another command

files == <<stateFile, lockFile>>
daemons == <<servers, outdated>>
local == <<seen, holds, conn, retries>>
vars == <<files, daemons, pc, local, robbed>>

Server == 1 .. MaxServers
ServerOrNone == 0 .. MaxServers
NoLock == [by |-> "nobody", written |-> FALSE]
Ended == {"done", "failed", "crashed"}
Inside == {"recheck", "kill", "launch", "poll"}

Alive(s) == s \in Server /\ servers[s] # "off"

\* isServerHealthy may report that daemon s is healthy; it may always fail.
MayBeHealthy(s) == s \in Server /\ servers[s] \in {"up", "closing"}

\* No daemon yet, or one that an earlier command left running.
Init == /\ lockFile = NoLock
        /\ \/ stateFile = 0 /\ servers = [s \in Server |-> "off"]
           \/ stateFile = 1 /\ servers = [s \in Server |-> IF s = 1 THEN "up" ELSE "off"]
        /\ outdated = {}
        /\ pc = [c \in Clis |-> "start"]
        /\ seen = [c \in Clis |-> 0]
        /\ holds = [c \in Clis |-> FALSE]
        /\ conn = [c \in Clis |-> 0]
        /\ retries = [c \in Clis |-> 0]
        /\ robbed = FALSE

Goto(c, from, to) == pc[c] = from /\ pc' = [pc EXCEPT ![c] = to]

\* The process ends, and what it knew is gone.
End(c, from, how) == /\ Goto(c, from, how)
                     /\ seen' = [seen EXCEPT ![c] = 0]
                     /\ conn' = [conn EXCEPT ![c] = 0]
                     /\ retries' = [retries EXCEPT ![c] = 0]

\* A pid that no process knows, nor the state file.
Unknown(s) == /\ servers[s] = "off" /\ s # stateFile /\ s \notin outdated
              /\ \A c \in Clis : s \notin {seen[c], conn[c]}

-----------------------------------------------------------------------------
(* ensureServer, up to the lock. *)

ReadState(c) ==
  /\ Goto(c, "start", "check")
  /\ seen' = [seen EXCEPT ![c] = stateFile]
  /\ UNCHANGED <<files, daemons, holds, conn, retries, robbed>>

\* Healthy, of this binary and configuration.
UseRunning(c) ==
  /\ Goto(c, "check", "connected")
  /\ MayBeHealthy(seen[c]) /\ seen[c] \notin outdated
  /\ conn' = [conn EXCEPT ![c] = seen[c]]
  /\ UNCHANGED <<files, daemons, seen, holds, retries, robbed>>

\* Healthy, of an older binary: killed and started again, without the lock.
BinaryUpdated(c) ==
  /\ Goto(c, "check", "kill")
  /\ MayBeHealthy(seen[c]) /\ seen[c] \in outdated
  /\ UNCHANGED <<files, daemons, local, robbed>>

\* process.exit(1): another configuration, a headed daemon that does not
\* answer, or BROWSE_NO_AUTOSTART.
Refuses(c) ==
  /\ End(c, "check", "failed")
  /\ UNCHANGED <<files, daemons, holds, robbed>>

NotHealthy(c) ==
  /\ Goto(c, "check", "lock")
  /\ UNCHANGED <<files, daemons, local, robbed>>

-----------------------------------------------------------------------------
(* acquireServerLock. *)

\* Mutant: opened with 'w', which takes over a file that is there.
MutCreateLock(c) ==
  /\ Goto(c, "lock", "writing")
  /\ lockFile' = [by |-> c, written |-> FALSE]
  /\ UNCHANGED <<stateFile, daemons, local, robbed>>

\* openSync(lockPath, 'wx') creates an empty file, or fails because there is one.
CreateLock(c) ==
  /\ Goto(c, "lock", "writing")
  /\ lockFile = NoLock
  /\ lockFile' = [by |-> c, written |-> FALSE]
  /\ UNCHANGED <<stateFile, daemons, local, robbed>>

LockExists(c) ==
  /\ Goto(c, "lock", "inspect")
  /\ lockFile # NoLock
  /\ UNCHANGED <<files, daemons, local, robbed>>

\* The pid goes to the file it opened, which may have been unlinked meanwhile.
WritePid(c) ==
  /\ Goto(c, "writing", "recheck")
  /\ lockFile' = IF lockFile.by = c THEN [by |-> c, written |-> TRUE] ELSE lockFile
  /\ holds' = [holds EXCEPT ![c] = TRUE]
  /\ UNCHANGED <<stateFile, daemons, seen, conn, retries, robbed>>

\* An empty file has no pid in it, and counts as stale.
LooksStale == /\ lockFile # NoLock
              /\ lockFile.written => pc[lockFile.by] \in Ended

FoundHeld(c) ==
  /\ Goto(c, "inspect", "wait")
  /\ ~LooksStale
  /\ UNCHANGED <<files, daemons, local, robbed>>

FoundStale(c) ==
  /\ Goto(c, "inspect", "unlink")
  /\ LooksStale
  /\ UNCHANGED <<files, daemons, local, robbed>>

\* unlinkSync removes whatever lock file there is by now; without one it throws.
RemoveStale(c) ==
  /\ IF lockFile = NoLock THEN Goto(c, "unlink", "wait") ELSE Goto(c, "unlink", "lock")
  /\ lockFile' = NoLock
  /\ robbed' = (robbed \/ (lockFile # NoLock /\ pc[lockFile.by] # "crashed"))
  /\ UNCHANGED <<stateFile, daemons, local>>

-----------------------------------------------------------------------------
(* ensureServer with and without the lock, startServer and killServer. *)

\* Mutant: the lock file stays when the command is done with it.
MutLeave(c) == UNCHANGED <<lockFile, robbed>> /\ holds' = [holds EXCEPT ![c] = FALSE]

\* The finally block: the release function unlinks the lock file by its name.
Leave(c) ==
  /\ holds' = [holds EXCEPT ![c] = FALSE]
  /\ lockFile' = IF holds[c] THEN NoLock ELSE lockFile
  /\ robbed' = (robbed \/ (holds[c] /\ lockFile # NoLock /\ lockFile.by # c))

\* The state under the lock names a daemon that answers.
StartedMeanwhile(c) ==
  /\ Goto(c, "recheck", "connected")
  /\ MayBeHealthy(stateFile)
  /\ conn' = [conn EXCEPT ![c] = stateFile]
  /\ Leave(c)
  /\ UNCHANGED <<stateFile, daemons, seen, retries>>

StillDown(c) ==
  /\ Goto(c, "recheck", "kill")
  /\ UNCHANGED <<files, daemons, local, robbed>>

\* killServer, of the pid read before the lock: SIGKILL after SIGTERM, which a
\* headed or tunnelled daemon answers with a shutdown that removes the state file.
KillOld(c) ==
  /\ Goto(c, "kill", "launch")
  /\ IF Alive(seen[c])
       THEN /\ servers' = [servers EXCEPT ![seen[c]] = "off"]
            /\ stateFile' \in {stateFile, 0}
       ELSE UNCHANGED <<servers, stateFile>>
  /\ seen' = [seen EXCEPT ![c] = 0]
  /\ UNCHANGED <<lockFile, outdated, holds, conn, retries, robbed>>

\* startServer removes the state file and spawns a daemon, under a pid that
\* nobody knows yet; it may fail at once.
Launch(c) ==
  /\ Goto(c, "launch", "poll")
  /\ stateFile' = 0
  /\ \/ \E s \in Server : Unknown(s) /\ servers' = [servers EXCEPT ![s] = "starting"]
     \/ UNCHANGED servers
  /\ UNCHANGED <<lockFile, outdated, local, robbed>>

\* Mutant: only the process that starts a daemon gives up waiting for it.
MutPollTimesOut(c) ==
  /\ End(c, "poll", "failed")
  /\ Leave(c)
  /\ UNCHANGED <<stateFile, daemons>>

\* Both polls, of the process that starts a daemon and of those that wait for
\* it, take any daemon that the state file names and that answers.
Polled(c) ==
  /\ Goto(c, "poll", "connected") \/ Goto(c, "wait", "connected")
  /\ MayBeHealthy(stateFile)
  /\ conn' = [conn EXCEPT ![c] = stateFile]
  /\ Leave(c)
  /\ UNCHANGED <<stateFile, daemons, seen, retries>>

PollTimesOut(c) ==
  /\ End(c, "poll", "failed") \/ End(c, "wait", "failed")
  /\ Leave(c)
  /\ UNCHANGED <<stateFile, daemons>>

-----------------------------------------------------------------------------
(* sendCommand. *)

Answered(c) ==
  /\ End(c, "connected", "done")
  /\ MayBeHealthy(conn[c])
  /\ UNCHANGED <<files, daemons, holds, robbed>>

\* The connection is lost: one restart, of the daemon that the state file names
\* now, without the lock; then the command fails.
Restart(c) ==
  /\ Goto(c, "connected", "kill")
  /\ retries[c] = 0
  /\ servers[conn[c]] # "up"
  /\ seen' = [seen EXCEPT ![c] = stateFile]
  /\ retries' = [retries EXCEPT ![c] = 1]
  /\ conn' = [conn EXCEPT ![c] = 0]
  /\ UNCHANGED <<files, daemons, holds, robbed>>

CommandFails(c) ==
  /\ End(c, "connected", "failed")
  /\ UNCHANGED <<files, daemons, holds, robbed>>

-----------------------------------------------------------------------------
(* What commands do not decide. *)

\* A command is killed (Ctrl+C, the shell's time limit); finally does not run.
CliCrashes(c) ==
  /\ pc[c] \notin Ended
  /\ End(c, pc[c], "crashed")
  /\ holds' = [holds EXCEPT ![c] = FALSE]
  /\ UNCHANGED <<files, daemons, robbed>>

\* start(): the daemon listens and renames its state file into place.
Publish(s) ==
  /\ servers[s] = "starting"
  /\ servers' = [servers EXCEPT ![s] = "up"]
  /\ stateFile' = s
  /\ UNCHANGED <<lockFile, outdated, pc, local, robbed>>

\* shutdown(): idle, stop, SIGINT, or a closed window.
Close(s) ==
  /\ servers[s] = "up"
  /\ servers' = [servers EXCEPT ![s] = "closing"]
  /\ UNCHANGED <<files, outdated, pc, local, robbed>>

\* The end of shutdown() removes the state file, whoever it names.  A crash may
\* do so too (emergencyCleanup) or not (out of memory, SIGKILL).
Die(s) ==
  /\ Alive(s)
  /\ servers' = [servers EXCEPT ![s] = "off"]
  /\ \/ servers[s] # "starting" /\ stateFile' = 0
     \/ servers[s] # "closing" /\ UNCHANGED stateFile
  /\ UNCHANGED <<lockFile, outdated, pc, local, robbed>>

\* The binary is updated while daemons of the old one run, at most once.
Update ==
  /\ outdated = {}
  /\ outdated' = {s \in Server : Alive(s)}
  /\ outdated' # {}
  /\ UNCHANGED <<files, servers, pc, local, robbed>>

CliStep(c) ==
  \/ ReadState(c) \/ UseRunning(c) \/ BinaryUpdated(c) \/ Refuses(c) \/ NotHealthy(c)
  \/ CreateLock(c) \/ LockExists(c) \/ WritePid(c) \/ FoundHeld(c) \/ FoundStale(c)
  \/ RemoveStale(c) \/ StartedMeanwhile(c) \/ StillDown(c) \/ KillOld(c) \/ Launch(c)
  \/ Polled(c) \/ PollTimesOut(c) \/ Answered(c) \/ Restart(c) \/ CommandFails(c)

Next == \/ \E c \in Clis : CliStep(c) \/ CliCrashes(c)
        \/ \E s \in Server : Publish(s) \/ Close(s) \/ Die(s)
        \/ Update

Spec == Init /\ [][Next]_vars

\* A process that is not killed goes on; every poll has a deadline.
FairSpec == Spec /\ \A c \in Clis : WF_vars(CliStep(c))

-----------------------------------------------------------------------------
(* Properties *)

\* The variables have their types; a command connects to a daemon that exists.
TypeOK ==
  /\ stateFile \in ServerOrNone
  /\ lockFile \in [by : Clis \cup {"nobody"}, written : BOOLEAN]
  /\ servers \in [Server -> {"off", "starting", "up", "closing"}]
  /\ outdated \subseteq Server
  /\ pc \in [Clis -> Ended \cup Inside \cup {"start", "check", "lock", "writing", "inspect",
                                            "unlink", "wait", "connected"}]
  /\ seen \in [Clis -> ServerOrNone] /\ conn \in [Clis -> ServerOrNone]
  /\ holds \in [Clis -> BOOLEAN]
  /\ retries \in [Clis -> 0 .. 1]
  /\ robbed \in BOOLEAN
  /\ \A c \in Clis : pc[c] = "connected" => conn[c] # 0

\* "Acquire an exclusive lockfile to prevent concurrent ensureServer() races":
\* no two commands hold it at a time.
LockExcludes == \A c, d \in Clis : holds[c] /\ holds[d] => c = d

\* What the lock does give: two commands hold it only after a third call took
\* the file of a live command for stale, or released one that was not its own.
\* So every failure of the lock is a failure of its staleness test.
ExclusiveUntilRobbed == ~robbed => LockExcludes

\* A lock file is never left behind by a command that ended by itself: its
\* creator is at work or was killed, so a lock blocks nobody for ever.
NoLockLeftBehind ==
  lockFile # NoLock => pc[lockFile.by] \in Inside \cup {"writing", "crashed"}

\* "Kill the old server to avoid orphaned chromium processes": when no command
\* and no start is under way, every daemon that runs is the one of the state file.
NoOrphans ==
  (\A c \in Clis : pc[c] \in Ended) /\ (\A s \in Server : servers[s] # "starting")
    => \A s \in Server : servers[s] = "up" => stateFile = s

\* Every command comes to an end, whoever crashes holding the lock.
EveryCommandEnds == \A c \in Clis : <>(pc[c] \in Ended)
=============================================================================
