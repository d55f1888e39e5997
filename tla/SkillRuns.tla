------------------------------ MODULE SkillRuns ------------------------------
(* Browser skills: a script in one of three tiers (browser-skills.ts), written *)
(* there by staging and renaming (browser-skill-write.ts), is spawned with a   *)
(* token of its own that goes with the run (browser-skill-commands.ts,         *)
(* skill-token.ts).  One skill name.                                           *)
EXTENDS Naturals, Sequences, FiniteSets

CONSTANTS Spawns,     \* `skill run` and `skill test` commands, and /skillify sessions
          WritableTiers  \* the tiers a skill can be committed to: "project", "global"

ASSUME SkillRunAssumption == WritableTiers \subseteq {"project", "global"}

VARIABLES
  tiers,   \* tier -> what is there under the name: "absent", "skill", "malformed"
  staged,  \* spawn -> its staging directory: "absent", "partial", "whole"
  spawn,   \* spawn -> what it is doing
  script,  \* spawn -> its child: "none", "runs", "exited"
  pipes,   \* spawns whose stdout or stderr is held open, by the child or by a child of its own
  armed,   \* spawns whose kill timer runs
  skillTokens, \* spawns whose token is in the registry and within its TTL
  deposed  \* history: spawns whose token the root has revoked, or rotated away

spawnVars == <<tiers, staged, spawn, script, pipes, armed, skillTokens, deposed>>

Tiers == {"project", "global", "bundled"}
SpawnTypeOK ==
  /\ tiers \in [Tiers -> {"absent", "skill", "malformed"}]
  /\ staged \in [Spawns -> {"absent", "partial", "whole"}]
  /\ spawn \in [Spawns -> {"free", "runs", "drains", "staging"} \cup WritableTiers]
  /\ script \in [Spawns -> {"none", "runs", "exited"}]
  /\ {pipes, armed, skillTokens, deposed} \subseteq SUBSET Spawns

SpawnInit ==
  /\ tiers \in {[t \in Tiers |-> IF t = "bundled" THEN b ELSE "absent"] : b \in {"absent", "skill"}}
  /\ staged = [s \in Spawns |-> "absent"] /\ spawn = [s \in Spawns |-> "free"]
  /\ script = [s \in Spawns |-> "none"] /\ pipes = {} /\ armed = {} /\ skillTokens = {} /\ deposed = {}

Storage == <<tiers, staged>>
Running == <<script, pipes, armed, skillTokens, deposed>>
Becomes(s, what) == spawn' = [spawn EXCEPT ![s] = what]

-----------------------------------------------------------------------------
(* Runs                                                                      *)

\* readBrowserSkill: the first tier with a SKILL.md that parses.
Found == \E t \in Tiers : tiers[t] = "skill"

\* The token is minted first.  A skill without a script.ts throws, and so may the spawn:
\* the finally revokes.
Run(s) ==
  /\ spawn[s] = "free" /\ Found
  /\ deposed' = deposed \ {s}
  /\ \/ /\ Becomes(s, "runs")
        /\ script' = [script EXCEPT ![s] = "runs"]
        /\ pipes' = pipes \cup {s} /\ armed' = armed \cup {s} /\ skillTokens' = skillTokens \cup {s}
     \/ UNCHANGED <<spawn, script, pipes, armed, skillTokens>>
  /\ UNCHANGED Storage

\* It exits of itself, or of the SIGTERM of the timer; a process it has left may hold the pipe.
ScriptExits(s) ==
  /\ script[s] = "runs"
  /\ script' = [script EXCEPT ![s] = "exited"]
  /\ \E held \in SUBSET {s} : pipes' = (pipes \ {s}) \cup held
  /\ UNCHANGED Storage /\ UNCHANGED <<spawn, armed, skillTokens, deposed>>

\* The script closes its output, or readCapped cancels it beyond 1 MB.
PipeCloses(s) ==
  /\ s \in pipes /\ pipes' = pipes \ {s}
  /\ UNCHANGED Storage /\ UNCHANGED <<spawn, script, armed, skillTokens, deposed>>

\* timeoutSeconds have passed: one SIGTERM, which the script may ignore.
RunTimesOut(s) ==
  /\ s \in armed /\ armed' = armed \ {s}
  /\ UNCHANGED Storage /\ UNCHANGED <<spawn, script, pipes, skillTokens, deposed>>

\* The token expires 30 s after the timeout.
TtlEnds(s) ==
  /\ s \in skillTokens /\ s \notin armed
  /\ skillTokens' = skillTokens \ {s}
  /\ UNCHANGED Storage /\ UNCHANGED <<spawn, script, pipes, armed, deposed>>

\* proc.exited resolves: the timer is cleared, the rest of the output awaited.
ExitSeen(s) ==
  /\ spawn[s] = "runs" /\ script[s] = "exited"
  /\ Becomes(s, "drains") /\ armed' = armed \ {s}
  /\ UNCHANGED Storage /\ UNCHANGED <<script, pipes, skillTokens, deposed>>

\* Mutant: the token is left to its TTL.
MutRunAnswers(s) ==
  /\ spawn[s] = "drains" /\ s \notin pipes
  /\ Becomes(s, "free")
  /\ script' = [script EXCEPT ![s] = "none"]
  /\ UNCHANGED Storage /\ UNCHANGED <<pipes, armed, skillTokens, deposed>>

\* Both streams have ended: the command answers, and the finally revokes the token.
RunAnswers(s) ==
  /\ spawn[s] = "drains" /\ s \notin pipes
  /\ Becomes(s, "free")
  /\ script' = [script EXCEPT ![s] = "none"] /\ skillTokens' = skillTokens \ {s}
  /\ UNCHANGED Storage /\ UNCHANGED <<pipes, armed, deposed>>

\* DELETE /token/:clientId, or rotateRoot.
RootRevokes(ss) ==
  /\ ss \cap skillTokens # {}
  /\ skillTokens' = skillTokens \ ss /\ deposed' = deposed \cup ss
  /\ UNCHANGED Storage /\ UNCHANGED <<spawn, script, pipes, armed>>

-----------------------------------------------------------------------------
(* Writing and removing                                                      *)

\* stageSkill writes file after file outside the tiers.
StageSkill(s) ==
  /\ spawn[s] = "free" /\ staged[s] = "absent"
  /\ Becomes(s, "staging") /\ staged' = [staged EXCEPT ![s] = "partial"]
  /\ UNCHANGED tiers /\ UNCHANGED Running

StagedWhole(s) ==
  /\ spawn[s] = "staging" /\ staged[s] = "partial"
  /\ staged' = [staged EXCEPT ![s] = "whole"]
  /\ UNCHANGED <<tiers, spawn>> /\ UNCHANGED Running

\* commitSkill: refuses to clobber ...
CommitSkill(s, t) ==
  /\ spawn[s] = "staging" /\ staged[s] = "whole" /\ tiers[t] = "absent"
  /\ Becomes(s, t)
  /\ UNCHANGED Storage /\ UNCHANGED Running

\* ... and renames, which fails on a directory another process has put there meanwhile.
Renames(s, to) ==
  /\ spawn[s] \in WritableTiers
  /\ IF tiers[spawn[s]] = "absent"
     THEN tiers' = [tiers EXCEPT ![spawn[s]] = to] /\ staged' = [staged EXCEPT ![s] = "absent"]
     ELSE UNCHANGED Storage
  /\ Becomes(s, "free") /\ UNCHANGED Running

\* discardStaged, and a /skillify session that is gone.
DiscardStaged(s) ==
  /\ spawn[s] \in {"free", "staging"} /\ staged[s] # "absent"
  /\ staged' = [staged EXCEPT ![s] = "absent"] /\ Becomes(s, "free")
  /\ UNCHANGED tiers /\ UNCHANGED Running

SessionGone(s) ==
  /\ spawn[s] \in {"staging"} \cup WritableTiers /\ Becomes(s, "free")
  /\ UNCHANGED Storage /\ UNCHANGED Running

\* `skill rm`: tombstoneBrowserSkill renames the directory away.
TombstoneBrowserSkill(t) ==
  /\ tiers[t] # "absent"
  /\ tiers' = [tiers EXCEPT ![t] = "absent"]
  /\ UNCHANGED <<staged, spawn>> /\ UNCHANGED Running

SpawnNext ==
  \/ \E t \in WritableTiers : TombstoneBrowserSkill(t)
  \/ \E ss \in {Spawns} \cup {{s} : s \in Spawns} : RootRevokes(ss)
  \/ \E s \in Spawns :
       \/ Run(s) \/ ScriptExits(s) \/ PipeCloses(s) \/ RunTimesOut(s) \/ TtlEnds(s) \/ ExitSeen(s)
       \/ RunAnswers(s) \/ StageSkill(s) \/ StagedWhole(s) \/ DiscardStaged(s) \/ SessionGone(s)
       \/ \E t \in WritableTiers : CommitSkill(s, t)
       \/ \E to \in {"skill", "malformed"} : Renames(s, to)

SpawnSpec == SpawnInit /\ [][SpawnNext]_spawnVars

-----------------------------------------------------------------------------
(* Properties.                                                               *)

\* A skill's token goes with its run: while the script runs in its time it is not cut off,
\* unless the root revokes its token; and nothing a run leaves behind -- a process that
\* holds its output, a timer, a second run of the skill -- leaves a token in the registry
\* once the run has been answered.
TokenGoesWithRun ==
  \A s \in Spawns :
    /\ script[s] = "runs" /\ s \in armed /\ s \notin deposed => s \in skillTokens
    /\ s \in skillTokens => spawn[s] \in {"runs", "drains"} /\ script[s] # "none"
    /\ s \in armed => s \in skillTokens \cup deposed
=============================================================================
