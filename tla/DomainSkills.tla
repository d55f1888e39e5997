---------------------------- MODULE DomainSkills ----------------------------
(* The notes an agent keeps of a site (domain-skills.ts): append-only rows in  *)
(* a project file and a global one, the latest version winning, with saves,    *)
(* recorded uses, promotions, rollbacks and deletions.  Each of them reads the *)
(* rows and appends one after an await, without a lock: two of them overlap.   *)
(* One host; the rows of other hosts are independent.                          *)
EXTENDS Naturals, Sequences, FiniteSets, FiniteSetsExt

CONSTANTS SkillOps,  \* operations under way at once
          Threshold, \* PROMOTE_THRESHOLD
          MaxBodies, \* bound: saves
          MaxRows    \* bound: rows in both files

ASSUME SkillAssumption ==
  Threshold \in Nat /\ MaxBodies \in Nat /\ MaxRows \in Nat /\ IsFiniteSet(SkillOps)

VARIABLES
  rows,     \* scope -> the rows of its file, in append order
  pending,  \* operation -> the row it has worked out and not yet appended
  bodies,   \* bodies saved so far
  used,     \* history: body -> uses recorded without a flag
  tainted,  \* history: bodies of which a quarantined use was recorded with a flag
  exempt    \* history: bodies whose uses overlapped or that a rollback re-emitted

skillVars == <<rows, pending, bodies, used, tainted, exempt>>

Scopes2 == {"project", "global"}
Row == [version : Nat, body : Nat, state : {"quarantined", "active", "global"}, uses : Nat,
        flags : Nat, scored : BOOLEAN, tombstone : BOOLEAN]
NoRow == [version |-> 0, body |-> 0, state |-> "quarantined", uses |-> 0, flags |-> 0,
          scored |-> FALSE, tombstone |-> FALSE]
Free == [does |-> "nothing", scope |-> "project", row |-> NoRow, at |-> 0, flagged |-> FALSE]

SkillTypeOK ==
  /\ bodies \in 0..MaxBodies /\ rows \in [Scopes2 -> Seq(Row)]
  /\ \A s \in Scopes2 : \A i \in DOMAIN rows[s] : rows[s][i].body \in 1..bodies
  /\ \A p \in SkillOps : /\ pending[p].does \in {"nothing", "save", "use", "promote", "rollback", "rm"}
                         /\ pending[p].row.body \in 0..bodies /\ pending[p].at \in 0..MaxRows
  /\ used \in [1..bodies -> Nat] /\ tainted \subseteq 1..bodies /\ exempt \subseteq 1..bodies

SkillInit ==
  /\ rows = [s \in Scopes2 |-> <<>>] /\ pending = [p \in SkillOps |-> Free]
  /\ bodies = 0 /\ used = <<>> /\ tainted = {} /\ exempt = {}

-----------------------------------------------------------------------------
\* resolveLatest: the last row of the highest version; a tombstone hides the skill.
TopVersion(s) == Max({rows[s][i].version : i \in DOMAIN rows[s]})
Latest(s) ==
  IF rows[s] = <<>> THEN NoRow
  ELSE LET row == rows[s][Max({i \in DOMAIN rows[s] : rows[s][i].version = TopVersion(s)})]
       IN IF row.tombstone THEN NoRow ELSE row

\* readSkill: an active skill of the project, else the global one; quarantined ones never.
Fires == IF Latest("project").state = "active" THEN Latest("project")
         ELSE IF Latest("global").state = "global" THEN Latest("global") ELSE NoRow

\* The file has been read: the row that will be appended is settled.
Settles(p, does, s, row, flagged) ==
  /\ pending[p] = Free
  /\ Len(rows["project"]) + Len(rows["global"]) + Cardinality({q \in SkillOps : pending[q] # Free}) < MaxRows
  /\ pending' = [pending EXCEPT ![p] = [does |-> does, scope |-> s, row |-> row,
                                        at |-> Len(rows[s]), flagged |-> flagged]]

\* `save`, and `edit` with a changed body: always quarantined, counted from the visible
\* version.  The score is 0 in production; the tests pass others.
Save(p) ==
  /\ bodies < MaxBodies
  /\ \E scored \in BOOLEAN :
       Settles(p, "save", "project",
               [NoRow EXCEPT !.version = Latest("project").version + 1, !.body = bodies + 1,
                             !.scored = scored], FALSE)
  /\ bodies' = bodies + 1
  /\ used' = Append(used, 0)
  /\ UNCHANGED <<rows, tainted, exempt>>

\* Mutant: flags do not count.
MutPromotes(old, uses, flags) == old.state = "quarantined" /\ uses >= Threshold /\ old.scored

Promotes(old, uses, flags) == old.state = "quarantined" /\ uses >= Threshold /\ flags = 0 /\ old.scored

\* recordSkillUse: the third use without any flag of a scored body makes it active.
RecordUse(p, flagged) ==
  /\ Latest("project") # NoRow
  /\ LET old == Latest("project")
         uses == old.uses + 1
         flags == old.flags + (IF flagged THEN 1 ELSE 0)
     IN Settles(p, "use", "project",
                [old EXCEPT !.version = @ + 1, !.uses = uses, !.flags = flags,
                            !.state = IF Promotes(old, uses, flags) THEN "active" ELSE @], flagged)
  /\ UNCHANGED <<rows, bodies, used, tainted, exempt>>

\* promoteToGlobal: an active skill goes to the global file, as version 1.
PromoteToGlobal(p) ==
  /\ Latest("project").state = "active"
  /\ Settles(p, "promote", "global",
             [Latest("project") EXCEPT !.state = "global", !.version = 1, !.uses = 0, !.flags = 0], FALSE)
  /\ UNCHANGED <<rows, bodies, used, tainted, exempt>>

\* rollbackSkill: of the rows that are no tombstones, sorted by version with ties in
\* append order, the second is emitted again above the first.
Rollback(p, s) ==
  LET live == {i \in DOMAIN rows[s] : ~rows[s][i].tombstone}
      Before(i, j) == \/ rows[s][i].version > rows[s][j].version
                      \/ rows[s][i].version = rows[s][j].version /\ i < j
  IN /\ Cardinality(live) >= 2
     /\ \E first, second \in live :
          /\ \A k \in live \ {first} : Before(first, k)
          /\ second # first /\ \A k \in live \ {first, second} : Before(second, k)
          /\ Settles(p, "rollback", s,
                     [rows[s][second] EXCEPT !.version = rows[s][first].version + 1], FALSE)
     /\ UNCHANGED <<rows, bodies, used, tainted, exempt>>

\* deleteSkill: a tombstone above the visible version.
DeleteSkill(p, s) ==
  /\ Latest(s) # NoRow
  /\ Settles(p, "rm", s, [Latest(s) EXCEPT !.version = @ + 1, !.tombstone = TRUE], FALSE)
  /\ UNCHANGED <<rows, bodies, used, tainted, exempt>>

\* appendRow, whatever has been appended since the rows were read.
AppendRow(p) ==
  LET op == pending[p]
      body == op.row.body
  IN /\ op.does # "nothing"
     /\ rows' = [rows EXCEPT ![op.scope] = Append(@, op.row)]
     /\ pending' = [pending EXCEPT ![p] = Free]
     /\ used' = IF op.does = "use" /\ ~op.flagged THEN [used EXCEPT ![body] = @ + 1] ELSE used
     /\ tainted' = IF op.does = "use" /\ op.flagged /\ op.row.state = "quarantined"
                   THEN tainted \cup {body} ELSE tainted
     /\ exempt' = IF op.does = "rollback" \/ (op.does = "use" /\ op.at # Len(rows[op.scope]))
                  THEN exempt \cup {body} ELSE exempt
     /\ UNCHANGED bodies

\* The append fails: no directory, no space.
AppendFails(p) ==
  /\ pending[p] # Free
  /\ pending' = [pending EXCEPT ![p] = Free]
  /\ UNCHANGED <<rows, bodies, used, tainted, exempt>>

SkillNext ==
  \E p \in SkillOps :
     \/ Save(p) \/ PromoteToGlobal(p) \/ AppendRow(p) \/ AppendFails(p)
     \/ \E flagged \in BOOLEAN : RecordUse(p, flagged)
     \/ \E s \in Scopes2 : Rollback(p, s) \/ DeleteSkill(p, s)

SkillSpec == SkillInit /\ [][SkillNext]_skillVars

-----------------------------------------------------------------------------
(* Properties.                                                               *)

\* A skill that fires in prompts, of the project or promoted to all of them, had the
\* uses that promotion asks for -- however operations overlapped, and whatever was
\* rolled back, deleted or saved anew -- and none of them was flagged, unless one was
\* recorded over another or a rollback brought back the counts before it
\* (domain-skills.ts: "N=3 successful uses (no classifier flags)").
FiresProven ==
  Fires # NoRow =>
     /\ used[Fires.body] >= Threshold
     /\ Fires.body \in tainted => Fires.body \in exempt
=============================================================================
