--------------------------- MODULE ServicesRunProofs --------------------------
(* Proofs about the notes of domain skills, the style edits, the limits on   *)
(* requests and the network capture; and about the specification of the      *)
(* services as they run side by side, whose invariants those of its parts    *)
(* are.                                                                      *)
EXTENDS MCServices, ServiceProofs, Integers, FiniteSetTheorems, SequenceTheorems,
        WellFoundedInduction, TLAPS

-----------------------------------------------------------------------------
(* DomainSkills, for any number of operations, bodies and rows:              *)
(* FiresProven.  The top row alone does not tell what was recorded below     *)
(* it.  So: a use that nothing was appended over goes on from the top row;   *)
(* among the visible versions of a body whose uses did not overlap flags and *)
(* activity do not go back; one whose quarantined use was flagged has the    *)
(* flag in its rows, none of them active; and the global file has only       *)
(* bodies that were active.                                                  *)

\* The rows of the project.
Notes == rows["project"]
\* A pending row as it can be.
PendingRow == [does : {"nothing", "save", "use", "promote", "rollback", "rm"}, scope : Scopes2, row : Row,
         at : Nat, flagged : BOOLEAN]
\* The operation has settled its row and not yet appended it.
Waiting(p) == pending[p].does # "nothing"

\* The kinds of the variables; versions cannot run ahead of the rows.
SkillKinds ==
  /\ bodies \in 0..MaxBodies /\ rows \in [Scopes2 -> Seq(Row)]
  /\ \A s \in Scopes2 : \A i \in 1..Len(rows[s]) :
       rows[s][i].body \in 1..bodies /\ rows[s][i].version <= i
  /\ pending \in [SkillOps -> PendingRow]
  /\ \A p \in SkillOps :
       /\ ~Waiting(p) => pending[p] = Free
       /\ pending[p].at <= MaxRows
       /\ Waiting(p) => /\ pending[p].row.body \in 1..bodies
                        /\ pending[p].row.version <= Len(rows[pending[p].scope]) + 1
  /\ used \in Seq(Nat) /\ Len(used) = bodies
  /\ tainted \subseteq 1..bodies /\ exempt \subseteq 1..bodies

\* The counts of a row were earned by its body, and so was its state.
Counts(r, u) ==
  /\ r.flags = 0 => r.uses <= u
  /\ r.state # "quarantined" => Threshold <= u
\* The use that a pending row will record.
Earns(p) == IF pending[p].does = "use" /\ ~pending[p].flagged THEN 1 ELSE 0
\* So it is with the rows of the files, and with the pending ones.
Counted ==
  /\ \A s \in Scopes2 : \A i \in 1..Len(rows[s]) : Counts(rows[s][i], used[rows[s][i].body])
  /\ \A p \in SkillOps : Waiting(p) => Counts(pending[p].row, used[pending[p].row.body] + Earns(p))

\* A version of the body b that can be seen.
Shows(i, b) == i \in 1..Len(Notes) /\ Notes[i].body = b /\ ~Notes[i].tombstone
\* The body was made active in the project.
WasActive(b) == \E i \in 1..Len(Notes) : Shows(i, b) /\ Notes[i].state = "active"

\* What is in the global file was active in the project.
Promoted ==
  /\ \A i \in 1..Len(rows["global"]) : WasActive(rows["global"][i].body)
  /\ \A p \in SkillOps : Waiting(p) /\ pending[p].scope = "global" => WasActive(pending[p].row.body)

\* A saved body that is not in its file yet is nowhere else.
Unborn(p) ==
  /\ pending[p].scope = "project" /\ pending[p].row.flags = 0 /\ ~pending[p].row.tombstone
  /\ \A s \in Scopes2 : \A i \in 1..Len(rows[s]) : rows[s][i].body # pending[p].row.body
  /\ \A q \in SkillOps \ {p} : Waiting(q) => pending[q].row.body # pending[p].row.body

\* The row that is the latest of the project.
Tops(k) == /\ k \in 1..Len(Notes)
           /\ \A j \in 1..Len(Notes) : /\ Notes[j].version <= Notes[k].version
                                       /\ Notes[j].version = Notes[k].version => j <= k

\* A use that nothing has been appended over continues the latest row.
Continues(p) ==
  \E k \in 1..Len(Notes) :
     /\ Tops(k) /\ ~Notes[k].tombstone
     /\ pending[p].row.body = Notes[k].body /\ pending[p].row.version = Notes[k].version + 1
     /\ pending[p].row.flags = Notes[k].flags + (IF pending[p].flagged THEN 1 ELSE 0)
     /\ \/ pending[p].row.state = Notes[k].state
        \/ /\ Notes[k].state = "quarantined" /\ pending[p].row.state = "active"
           /\ pending[p].row.flags = 0

\* What each operation has settled.
Settled(p) ==
  /\ pending[p].does = "save" => Unborn(p)
  /\ pending[p].does = "use" => /\ pending[p].scope = "project" /\ ~pending[p].row.tombstone
                                /\ pending[p].at <= Len(Notes)
                                /\ pending[p].at = Len(Notes) => Continues(p)
  /\ pending[p].does = "promote" => pending[p].scope = "global"
  /\ pending[p].does = "rm" => pending[p].row.tombstone

\* The versions of a body whose uses did not overlap: flags and activity do not go back.
Chained == \A b \in 1..bodies \ exempt : \A i, j \in 1..Len(Notes) :
  i < j /\ Shows(i, b) /\ Shows(j, b) =>
    /\ Notes[i].version < Notes[j].version /\ Notes[i].flags <= Notes[j].flags
    /\ Notes[j].state = "quarantined" => Notes[i].state = "quarantined"

\* Such a body with a flagged use has not become active, and cannot.
Stopped == \A b \in tainted \ exempt :
  /\ \E i \in 1..Len(Notes) : Shows(i, b) /\ Notes[i].flags > 0
  /\ \A i \in 1..Len(Notes) : Shows(i, b) => Notes[i].state = "quarantined"

\* Every operation has.
AllSettled == \A p \in SkillOps : Settled(p)
\* The inductive invariant.
SkillInv == SkillKinds /\ Counted /\ Promoted /\ AllSettled /\ Chained /\ Stopped

\* The bounds and the count of pending operations are numbers.
LEMMA SkillNumbers ==
  /\ Threshold \in Nat /\ MaxBodies \in Nat /\ MaxRows \in Nat
  /\ Cardinality({q \in SkillOps : pending[q] # Free}) \in Nat
  /\ "project" \in Scopes2 /\ "global" \in Scopes2
<1>1. IsFiniteSet({q \in SkillOps : pending[q] # Free})
  BY SkillAssumption, FS_Subset
<1> QED BY <1>1, SkillAssumption, FS_CardinalityType DEF Scopes2

\* What is added up stays within the bound of the sum.
LEMMA Within == \A a, b, c, m \in Nat : a + b + c < m => a <= m /\ b <= m
OBVIOUS

\* A set of numbers that is bounded and not empty has a largest one.
LEMMA LargestNumber ==
  ASSUME NEW n \in Nat, NEW S \in SUBSET (0..n), S # {}
  PROVE  Max(S) \in S /\ \A x \in S : x <= Max(S)
<1> DEFINE Below == {n - t : t \in S}
<1>1. \A t \in S : t \in Nat /\ n - t \in Nat
  OBVIOUS
<1>2. Below \subseteq Nat /\ Below # {}
  BY <1>1
<1>3. PICK m \in Below : \A k \in Below : <<k, m>> \notin OpToRel(<, Nat)
  <2> HIDE DEF Below
  <2> QED BY <1>2, WFMin, NatLessThanWellFounded
<1>4. PICK t \in S : m = n - t
  BY <1>3
<1>5. \A u \in S : t >= u
  <2> TAKE u \in S
  <2>1. n - u \in Below
    OBVIOUS
  <2>2. ~(n - u < m)
    BY <1>2, <1>3, <2>1 DEF OpToRel
  <2> QED BY <1>1, <1>4, <2>2
<1>6. Max(S) \in S /\ \A u \in S : Max(S) >= u
  BY <1>5 DEF Max
<1> QED BY <1>1, <1>6

\* What resolveLatest finds.
LEMMA LatestRow ==
  ASSUME SkillKinds, NEW s \in Scopes2, Latest(s) # NoRow
  PROVE  \E k \in 1..Len(rows[s]) :
            /\ Latest(s) = rows[s][k] /\ ~rows[s][k].tombstone
            /\ \A j \in 1..Len(rows[s]) : /\ rows[s][j].version <= rows[s][k].version
                                          /\ rows[s][j].version = rows[s][k].version => j <= k
<1> DEFINE n == Len(rows[s])
           V == {rows[s][i].version : i \in DOMAIN rows[s]}
           I == {i \in DOMAIN rows[s] : rows[s][i].version = TopVersion(s)}
<1>1. rows[s] \in Seq(Row) /\ n \in Nat /\ DOMAIN rows[s] = 1..n /\ \A i \in 1..n : rows[s][i] \in Row
  BY DEF SkillKinds
<1>2. rows[s] # <<>> /\ Latest(s) = (IF rows[s][Max(I)].tombstone THEN NoRow ELSE rows[s][Max(I)])
  BY DEF Latest
<1>3. n # 0
  BY <1>1, <1>2, EmptySeq
<1>4. V \subseteq 0..n /\ V # {}
  <2>1. \A i \in 1..n : rows[s][i].version \in Nat
    BY <1>1 DEF Row
  <2>2. \A i \in 1..n : rows[s][i].version <= i
    BY DEF SkillKinds
  <2>3. \A i \in 1..n : rows[s][i].version \in 0..n
    BY <1>1, <2>1, <2>2
  <2>4. 1 \in 1..n
    BY <1>1, <1>3
  <2>5. V = {rows[s][i].version : i \in 1..n}
    BY <1>1
  <2> HIDE DEF V
  <2> QED BY <2>3, <2>4, <2>5
<1>5. TopVersion(s) \in V /\ \A v \in V : v <= TopVersion(s)
  BY <1>1, <1>4, LargestNumber DEF TopVersion
<1>6. I \subseteq 0..n /\ I # {}
  BY <1>1, <1>5
<1>7. Max(I) \in I /\ \A i \in I : i <= Max(I)
  <2> HIDE DEF I
  <2> QED BY <1>1, <1>6, LargestNumber
<1>8. /\ Max(I) \in 1..n /\ rows[s][Max(I)].version = TopVersion(s)
      /\ \A j \in 1..n : /\ rows[s][j].version <= TopVersion(s)
                         /\ rows[s][j].version = TopVersion(s) => j <= Max(I)
  BY <1>1, <1>5, <1>7
<1> HIDE DEF V, I
<1> QED BY <1>2, <1>8

\* The invariant holds at first.
LEMMA SkillInitInv == SkillInit => SkillInv
<1> SUFFICES ASSUME SkillInit PROVE SkillInv
  OBVIOUS
<1>1. NoRow \in Row /\ Free \in PendingRow /\ Free.does = "nothing" /\ Free.at = 0
  BY DEF NoRow, Row, Free, PendingRow, Scopes2
<1>2. /\ rows \in [Scopes2 -> Seq(Row)] /\ \A s \in Scopes2 : Len(rows[s]) = 0
      /\ used \in Seq(Nat) /\ Len(used) = 0 /\ Len(Notes) = 0 /\ Len(rows["global"]) = 0
  BY SkillNumbers DEF SkillInit, Notes
<1>3. \A p \in SkillOps : pending[p] = Free /\ ~Waiting(p)
  BY <1>1 DEF SkillInit, Waiting
<1>4. SkillKinds
  BY <1>1, <1>2, <1>3, SkillNumbers DEF SkillInit, SkillKinds
<1>5. Counted /\ Promoted
  BY <1>2, <1>3 DEF Counted, Promoted
<1>6. AllSettled
  BY <1>1, <1>3 DEF AllSettled, Settled
<1>7. Chained /\ Stopped
  BY <1>2 DEF SkillInit, Chained, Stopped
<1> QED BY <1>4, <1>5, <1>6, <1>7 DEF SkillInv

\* The fields of a row.
LEMMA RowFields ==
  ASSUME NEW r \in Row
  PROVE  /\ r.version \in Nat /\ r.body \in Nat /\ r.uses \in Nat /\ r.flags \in Nat
         /\ r.state \in {"quarantined", "active", "global"} /\ r.tombstone \in BOOLEAN
BY DEF Row

\* The files hold rows.
LEMMA RowsAreRows ==
  ASSUME SkillKinds, NEW s \in Scopes2
  PROVE  /\ Len(rows[s]) \in Nat /\ rows[s] \in Seq(Row)
         /\ \A i \in 1..Len(rows[s]) :
              /\ rows[s][i] \in Row /\ rows[s][i].body \in 1..bodies /\ rows[s][i].version <= i
              /\ rows[s][i].version \in Nat /\ rows[s][i].flags \in Nat /\ rows[s][i].uses \in Nat
              /\ used[rows[s][i].body] \in Nat
<1>1. rows[s] \in Seq(Row) /\ Len(rows[s]) \in Nat /\ \A i \in 1..Len(rows[s]) : rows[s][i] \in Row
  BY DEF SkillKinds
<1>2. \A i \in 1..Len(rows[s]) : rows[s][i].body \in 1..bodies /\ rows[s][i].version <= i
  BY DEF SkillKinds
<1>3. \A b \in 1..bodies : used[b] \in Nat
  BY DEF SkillKinds
<1> QED BY <1>1, <1>2, <1>3, RowFields

\* An operation has read the rows, and nothing else changes.
LEMMA SettleKept ==
  ASSUME SkillInv, NEW p \in SkillOps, NEW does \in {"use", "promote", "rollback", "rm"},
         NEW s \in Scopes2, NEW row \in Row, NEW flagged \in BOOLEAN,
         Settles(p, does, s, row, flagged), UNCHANGED <<rows, bodies, used, tainted, exempt>>,
         NEW k \in 1..Len(rows[s]) \cup 1..Len(Notes),
         \/ k \in 1..Len(rows[s]) /\ row.body = rows[s][k].body
         \/ k \in 1..Len(Notes) /\ row.body = Notes[k].body,
         row.version <= Len(rows[s]) + 1,
         Counts(row, used[row.body] + (IF does = "use" /\ ~flagged THEN 1 ELSE 0)),
         s = "global" => WasActive(row.body),
         does = "use" => s = "project" /\ ~row.tombstone,
         does = "promote" => s = "global", does = "rm" => row.tombstone,
         does = "use" => Tops(k) /\ ~Notes[k].tombstone /\ row.body = Notes[k].body
                         /\ row.version = Notes[k].version + 1
                         /\ row.flags = Notes[k].flags + (IF flagged THEN 1 ELSE 0)
                         /\ (\/ row.state = Notes[k].state
                             \/ /\ Notes[k].state = "quarantined" /\ row.state = "active"
                                /\ row.flags = 0)
  PROVE  SkillInv'
<1> DEFINE job == [does |-> does, scope |-> s, row |-> row, at |-> Len(rows[s]), flagged |-> flagged]
<1>1. SkillKinds /\ Counted /\ Promoted /\ AllSettled /\ Chained /\ Stopped
  BY DEF SkillInv
<1>2. /\ pending[p] = Free /\ pending' = [pending EXCEPT ![p] = job]
      /\ Len(rows["project"]) + Len(rows["global"])
           + Cardinality({q \in SkillOps : pending[q] # Free}) < MaxRows
  BY DEF Settles
<1>3. Len(rows["project"]) \in Nat /\ Len(rows["global"]) \in Nat /\ Len(rows[s]) \in Nat /\ s \in {"project", "global"}
  BY <1>1, RowsAreRows, SkillNumbers DEF Scopes2
<1>4. Len(rows[s]) <= MaxRows
  <2> DEFINE c == Cardinality({q \in SkillOps : pending[q] # Free})
  <2>0. c \in Nat /\ MaxRows \in Nat
    BY SkillNumbers
  <2>1. c \in Nat /\ MaxRows \in Nat /\ Len(rows["project"]) + Len(rows["global"]) + c < MaxRows
    BY <1>2, <2>0
  <2> HIDE DEF c
  <2>2. Len(rows["project"]) <= MaxRows /\ Len(rows["global"]) <= MaxRows
    BY <1>3, <2>1, Within, Zenon
  <2> QED BY <1>3, <2>2
<1>5. job \in PendingRow
  BY <1>3, Zenon DEF PendingRow
<1>6. /\ job.does = does /\ job.scope = s /\ job.row = row /\ job.at = Len(rows[s]) /\ job.flagged = flagged
  OBVIOUS
<1> HIDE DEF job
<1>7. pending' \in [SkillOps -> PendingRow] /\ pending'[p] = job /\ \A q \in SkillOps \ {p} : pending'[q] = pending[q]
  BY <1>1, <1>2, <1>5 DEF SkillKinds
<1>8. /\ \E t \in Scopes2 : \E i \in 1..Len(rows[t]) : row.body = rows[t][i].body
      /\ row.body \in 1..bodies
  BY <1>1, SkillNumbers, RowsAreRows DEF Notes
<1>9. Waiting(p)' /\ \A q \in SkillOps \ {p} : Waiting(q)' <=> Waiting(q)
  BY <1>6, <1>7 DEF Waiting
<1>10. SkillKinds'
  <2>1. \A q \in SkillOps : ~Waiting(q)' => pending'[q] = Free
    BY <1>1, <1>7, <1>9 DEF SkillKinds
  <2>2. \A q \in SkillOps : pending'[q].at <= MaxRows
    BY <1>1, <1>4, <1>6, <1>7 DEF SkillKinds
  <2>3. \A q \in SkillOps : Waiting(q)' =>
          pending'[q].row.body \in 1..bodies /\ pending'[q].row.version <= Len(rows[pending'[q].scope]) + 1
    BY <1>1, <1>6, <1>7, <1>8, <1>9 DEF SkillKinds
  <2> QED BY <1>1, <1>7, <2>1, <2>2, <2>3 DEF SkillKinds
<1>11. Counted'
  <2>1. ASSUME NEW q \in SkillOps, Waiting(q)'
        PROVE  Counts(pending'[q].row, used[pending'[q].row.body] + Earns(q)')
    <3>1. CASE q = p
      BY <1>6, <1>7, <3>1 DEF Earns
    <3>2. CASE q # p
      BY <1>1, <1>7, <1>9, <2>1, <3>2 DEF Counted, Earns
    <3> QED BY <3>1, <3>2
  <2> QED BY <1>1, <2>1 DEF Counted
<1>12. Promoted'
  <2>1. \A b : WasActive(b)' <=> WasActive(b)
    BY DEF WasActive, Shows, Notes
  <2> QED BY <1>1, <1>6, <1>7, <1>9, <2>1 DEF Promoted
<1>13. AllSettled'
  <2> SUFFICES ASSUME NEW q \in SkillOps PROVE Settled(q)'
    BY DEF AllSettled
  <2>1. Notes' = Notes /\ \A j : Tops(j)' <=> Tops(j)
    BY DEF Notes, Tops
  <2>2. CASE q = p
    <3>1. does = "use" => Continues(p)'
      <4> SUFFICES ASSUME does = "use" PROVE Continues(p)'
        OBVIOUS
      <4>1. k \in 1..Len(Notes)
        BY DEF Tops
      <4> QED BY <1>6, <1>7, <2>1, <4>1 DEF Continues
    <3>2. does = "use" => Len(rows[s]) = Len(Notes) /\ Len(Notes) \in Nat
      BY <1>3 DEF Notes
    <3> QED BY <1>6, <1>7, <2>1, <2>2, <3>1, <3>2 DEF Settled
  <2>3. CASE q # p
    <3>1. Settled(q) /\ pending'[q] = pending[q]
      BY <1>1, <1>7, <2>3 DEF AllSettled
    <3>2. pending[q].does = "save" => Unborn(q)'
      <4> SUFFICES ASSUME pending[q].does = "save" PROVE Unborn(q)'
        OBVIOUS
      <4>1. Unborn(q)
        BY <3>1 DEF Settled
      <4>2. row.body # pending[q].row.body
        BY <1>8, <4>1 DEF Unborn
      <4> QED BY <1>6, <1>7, <1>9, <3>1, <4>1, <4>2 DEF Unborn
    <3>3. Continues(q) => Continues(q)'
      BY <2>1, <3>1 DEF Continues
    <3> QED BY <2>1, <3>1, <3>2, <3>3 DEF Settled
  <2> QED BY <2>2, <2>3
<1>14. Chained'
  BY <1>1 DEF Chained, Shows, Notes
<1>15. Stopped'
  BY <1>1 DEF Stopped, Shows, Notes
<1> QED BY <1>10, <1>11, <1>12, <1>13, <1>14, <1>15 DEF SkillInv

\* recordSkillUse has read the rows.
LEMMA RecordKept ==
  ASSUME SkillInv, NEW p \in SkillOps, NEW flagged \in BOOLEAN, RecordUse(p, flagged)
  PROVE  SkillInv'
<1> DEFINE old == Latest("project")
           uses == old.uses + 1
           flags == old.flags + (IF flagged THEN 1 ELSE 0)
           state == IF Promotes(old, uses, flags) THEN "active" ELSE old.state
           row == [old EXCEPT !.version = old.version + 1, !.uses = uses, !.flags = flags, !.state = state]
<1>1. SkillKinds /\ Counted
  BY DEF SkillInv
<1>2. PICK k \in 1..Len(Notes) : old = Notes[k] /\ ~Notes[k].tombstone /\ Tops(k)
  BY <1>1, LatestRow, SkillNumbers DEF RecordUse, Notes, Tops
<1>3. old \in Row /\ old.version \in Nat /\ old.version <= k /\ old.body \in 1..bodies /\ old.flags \in Nat /\ old.uses \in Nat
      /\ used[old.body] \in Nat /\ Len(Notes) \in Nat /\ old.state \in {"quarantined", "active", "global"}
  BY <1>1, <1>2, RowsAreRows, RowFields, SkillNumbers DEF Notes
<1>4. Counts(old, used[old.body])
  BY <1>1, <1>2, SkillNumbers DEF Counted, Notes
<1>5. Settles(p, "use", "project", row, flagged) /\ UNCHANGED <<rows, bodies, used, tainted, exempt>>
  BY Zenon DEF RecordUse
<1>6. uses \in Nat /\ flags \in Nat /\ state \in {"quarantined", "active", "global"} /\ old.version + 1 \in Nat
  BY <1>3, SMTT(20)
<1> HIDE DEF old, uses, flags, state
<1>7. row \in Row
  BY <1>3, <1>6, Zenon DEF Row
<1>8. /\ row.version = old.version + 1 /\ row.uses = uses /\ row.flags = flags /\ row.state = state
      /\ row.body = old.body /\ row.tombstone = old.tombstone
  BY <1>3, Zenon DEF Row
<1> HIDE DEF row
<1>9. Promotes(old, uses, flags) => old.state = "quarantined" /\ uses >= Threshold /\ flags = 0
  BY DEF Promotes
<1>10. Counts(row, used[row.body] + (IF "use" = "use" /\ ~flagged THEN 1 ELSE 0))
  <2>1. flags = 0 => old.flags = 0 /\ ~flagged
    BY <1>3 DEF flags
  <2>2. uses = old.uses + 1
    BY DEF uses
  <2>3. row.flags = 0 => row.uses <= used[row.body] + 1 /\ ~flagged
    BY <1>3, <1>4, <1>8, <2>1, <2>2 DEF Counts
  <2>4. CASE Promotes(old, uses, flags)
    <3>1. row.uses <= used[row.body] + 1 /\ ~flagged /\ uses >= Threshold /\ row.uses = uses
      BY <1>8, <1>9, <2>3, <2>4
    <3> QED BY <1>3, <1>6, <1>8, <2>3, <3>1, SkillNumbers DEF Counts
  <2>5. CASE ~Promotes(old, uses, flags)
    <3>1. row.state = old.state
      BY <1>8, <2>5 DEF state
    <3>2. row.state # "quarantined" => Threshold <= used[row.body]
      BY <1>4, <1>8, <3>1 DEF Counts
    <3> QED BY <1>3, <1>8, <2>3, <3>2, SkillNumbers DEF Counts
  <2> QED BY <2>4, <2>5
<1>11. \/ row.state = Notes[k].state
       \/ Notes[k].state = "quarantined" /\ row.state = "active" /\ row.flags = 0
  BY <1>2, <1>8, <1>9 DEF state
<1>12. row.version <= Len(Notes) + 1
  BY <1>3, <1>8
<1>13. row.flags = Notes[k].flags + (IF flagged THEN 1 ELSE 0)
  BY <1>2, <1>8 DEF flags
<1> QED
  <2>1. k \in 1..Len(rows["project"]) \cup 1..Len(Notes) /\ row.body = Notes[k].body
        /\ row.version = Notes[k].version + 1 /\ ~row.tombstone
    BY <1>2, <1>8
  <2>2. row.version <= Len(rows["project"]) + 1
    BY <1>12 DEF Notes
  <2> QED BY <1>2, <1>5, <1>7, <1>10, <1>11, <1>13, <2>1, <2>2, SettleKept, SkillNumbers

\* promoteToGlobal has read the rows.
LEMMA PromoteKept ==
  ASSUME SkillInv, NEW p \in SkillOps, PromoteToGlobal(p)
  PROVE  SkillInv'
<1> DEFINE old == Latest("project")
           row == [old EXCEPT !.state = "global", !.version = 1, !.uses = 0, !.flags = 0]
<1>1. SkillKinds /\ Counted /\ old.state = "active"
  BY DEF SkillInv, PromoteToGlobal
<1>2. PICK k \in 1..Len(Notes) : old = Notes[k] /\ ~Notes[k].tombstone
  <2>1. old # NoRow
    BY <1>1 DEF NoRow
  <2> QED BY <1>1, <2>1, LatestRow, SkillNumbers DEF Notes
<1>3. old \in Row /\ used[old.body] \in Nat /\ Threshold <= used[old.body]
  BY <1>1, <1>2, RowsAreRows, SkillNumbers DEF Notes, Counted, Counts
<1>4. Settles(p, "promote", "global", row, FALSE) /\ UNCHANGED <<rows, bodies, used, tainted, exempt>>
  BY DEF PromoteToGlobal
<1>5. WasActive(old.body)
  BY <1>1, <1>2 DEF WasActive, Shows
<1> HIDE DEF old
<1>6. row \in Row /\ row.state = "global" /\ row.uses = 0 /\ row.flags = 0 /\ row.version = 1 /\ row.body = old.body
  <2>1. \A v, u, f \in Nat : \A st \in {"quarantined", "active", "global"} :
           [old EXCEPT !.state = st, !.version = v, !.uses = u, !.flags = f] \in Row
    BY <1>3, Zenon DEF Row
  <2>2. row \in Row
    BY <2>1
  <2> QED BY <1>3, <2>2, Zenon DEF Row
<1> HIDE DEF row
<1>7. Counts(row, used[row.body] + (IF "promote" = "use" /\ ~FALSE THEN 1 ELSE 0))
  BY <1>3, <1>6 DEF Counts
<1>8. row.version <= Len(rows["global"]) + 1
  BY <1>1, <1>6, RowsAreRows, SkillNumbers
<1>9. k \in 1..Len(rows["global"]) \cup 1..Len(Notes)
  OBVIOUS
<1> QED BY <1>2, <1>4, <1>5, <1>6, <1>7, <1>8, <1>9, SettleKept, SkillNumbers

\* rollbackSkill has read the rows.
LEMMA RollbackKept ==
  ASSUME SkillInv, NEW p \in SkillOps, NEW s \in Scopes2, Rollback(p, s)
  PROVE  SkillInv'
<1>1. SkillKinds /\ Counted /\ Promoted
  BY DEF SkillInv
<1>2. PICK first \in DOMAIN rows[s], k \in DOMAIN rows[s] :
        /\ Settles(p, "rollback", s, [rows[s][k] EXCEPT !.version = rows[s][first].version + 1], FALSE)
        /\ UNCHANGED <<rows, bodies, used, tainted, exempt>>
  BY DEF Rollback
<1> DEFINE row == [rows[s][k] EXCEPT !.version = rows[s][first].version + 1]
<1>3. /\ rows[s][k] \in Row /\ rows[s][first].version \in Nat /\ rows[s][first].version <= first
      /\ used[rows[s][k].body] \in Nat /\ Len(rows[s]) \in Nat /\ k \in 1..Len(rows[s])
      /\ first \in 1..Len(rows[s])
  BY <1>1, RowsAreRows
<1>4. Counts(rows[s][k], used[rows[s][k].body]) /\ (s = "global" => WasActive(rows[s][k].body))
  BY <1>1, <1>3 DEF Counted, Promoted
<1>5. rows[s][first].version + 1 \in Nat /\ rows[s][first].version + 1 <= Len(rows[s]) + 1
  BY <1>3
<1>6. /\ row \in Row /\ row.version = rows[s][first].version + 1 /\ row.body = rows[s][k].body
      /\ row.flags = rows[s][k].flags /\ row.uses = rows[s][k].uses /\ row.state = rows[s][k].state
  <2>1. \A v \in Nat : [rows[s][k] EXCEPT !.version = v] \in Row
    BY <1>3, Zenon DEF Row
  <2>2. row \in Row
    BY <1>5, <2>1
  <2> QED BY <1>3, <2>2, Zenon DEF Row
<1>7. Settles(p, "rollback", s, row, FALSE)
  BY <1>2
<1> HIDE DEF row
<1>8. Counts(row, used[row.body] + (IF "rollback" = "use" /\ ~FALSE THEN 1 ELSE 0))
  BY <1>3, <1>4, <1>6 DEF Counts
<1>9. k \in 1..Len(rows[s]) \cup 1..Len(Notes) /\ row.version <= Len(rows[s]) + 1
  BY <1>3, <1>5, <1>6
<1> QED BY <1>2, <1>3, <1>4, <1>6, <1>7, <1>8, <1>9, SettleKept

\* deleteSkill has read the rows.
LEMMA DeleteKept ==
  ASSUME SkillInv, NEW p \in SkillOps, NEW s \in Scopes2, DeleteSkill(p, s)
  PROVE  SkillInv'
<1> DEFINE old == Latest(s)
           row == [old EXCEPT !.version = old.version + 1, !.tombstone = TRUE]
<1>1. SkillKinds /\ Counted /\ Promoted
  BY DEF SkillInv
<1>2. PICK k \in 1..Len(rows[s]) : old = rows[s][k]
  BY <1>1, LatestRow DEF DeleteSkill
<1>3. /\ old \in Row /\ old.version \in Nat /\ old.version <= k
      /\ used[old.body] \in Nat /\ Len(rows[s]) \in Nat
  BY <1>1, <1>2, RowsAreRows
<1>4. Counts(old, used[old.body]) /\ (s = "global" => WasActive(old.body))
  BY <1>1, <1>2 DEF Counted, Promoted
<1>5. Settles(p, "rm", s, row, FALSE) /\ UNCHANGED <<rows, bodies, used, tainted, exempt>>
  BY Zenon DEF DeleteSkill
<1>6. old.version + 1 \in Nat /\ old.version + 1 <= Len(rows[s]) + 1
  BY <1>3
<1> HIDE DEF old
<1>7. /\ row \in Row /\ row.version = old.version + 1 /\ row.body = old.body /\ row.tombstone
      /\ row.flags = old.flags /\ row.uses = old.uses /\ row.state = old.state
  <2>1. \A v \in Nat : \A t \in BOOLEAN : [old EXCEPT !.version = v, !.tombstone = t] \in Row
    BY <1>3, Zenon DEF Row
  <2>2. TRUE \in BOOLEAN
    OBVIOUS
  <2>3. row \in Row
    BY <1>6, <2>1, <2>2, Zenon
  <2> QED BY <1>3, <2>3, Zenon DEF Row
<1> HIDE DEF row
<1>8. Counts(row, used[row.body] + (IF "rm" = "use" /\ ~FALSE THEN 1 ELSE 0))
  BY <1>3, <1>4, <1>7 DEF Counts
<1>9. k \in 1..Len(rows[s]) \cup 1..Len(Notes) /\ row.version <= Len(rows[s]) + 1
  BY <1>6, <1>7
<1> QED BY <1>2, <1>4, <1>5, <1>7, <1>8, <1>9, SettleKept

\* A save has read the rows: its body is new.
LEMMA SaveKept ==
  ASSUME SkillInv, NEW p \in SkillOps, Save(p)
  PROVE  SkillInv'
<1>1. SkillKinds /\ Counted /\ Promoted /\ AllSettled /\ Chained /\ Stopped
  BY DEF SkillInv
<1>2. PICK scored \in BOOLEAN :
        Settles(p, "save", "project",
                [NoRow EXCEPT !.version = Latest("project").version + 1, !.body = bodies + 1,
                              !.scored = scored], FALSE)
  BY DEF Save
<1>3. bodies < MaxBodies /\ bodies' = bodies + 1 /\ used' = Append(used, 0) /\ UNCHANGED <<rows, tainted, exempt>>
  BY DEF Save
<1> DEFINE v == Latest("project").version
           row == [NoRow EXCEPT !.version = v + 1, !.body = bodies + 1, !.scored = scored]
           job == [does |-> "save", scope |-> "project", row |-> row, at |-> Len(rows["project"]), flagged |-> FALSE]
<1>4. bodies \in Nat /\ Len(rows["project"]) \in Nat /\ bodies' \in 0..MaxBodies
  BY <1>1, <1>3, RowsAreRows, SkillNumbers DEF SkillKinds
<1>5. v \in Nat /\ v <= Len(rows["project"])
  <2>1. CASE Latest("project") = NoRow
    BY <1>4, <2>1 DEF NoRow
  <2>2. CASE Latest("project") # NoRow
    <3>1. PICK k \in 1..Len(rows["project"]) : Latest("project") = rows["project"][k]
      BY <1>1, <2>2, LatestRow, SkillNumbers
    <3> QED BY <1>1, <1>4, <3>1, RowsAreRows, SkillNumbers
  <2> QED BY <2>1, <2>2
<1> HIDE DEF v
<1>6. /\ row \in Row /\ row.version = v + 1 /\ row.body = bodies + 1 /\ ~row.tombstone
      /\ row.flags = 0 /\ row.uses = 0 /\ row.state = "quarantined"
  <2>1. \A x, y \in Nat : \A z \in BOOLEAN : [NoRow EXCEPT !.version = x, !.body = y, !.scored = z] \in Row
    <3>1. NoRow \in Row
      BY DEF NoRow, Row
    <3> QED BY <3>1, Zenon DEF Row
  <2>2. v + 1 \in Nat /\ bodies + 1 \in Nat
    BY <1>4, <1>5
  <2>3. row \in Row
    BY <2>1, <2>2
  <2> QED BY <2>3, Zenon DEF NoRow
<1>7. /\ pending[p] = Free /\ pending' = [pending EXCEPT ![p] = job]
      /\ Len(rows["project"]) + Len(rows["global"])
           + Cardinality({q \in SkillOps : pending[q] # Free}) < MaxRows
  BY <1>2 DEF Settles, v
<1> HIDE DEF row
<1>8. Len(rows["project"]) <= MaxRows
  <2> DEFINE c == Cardinality({q \in SkillOps : pending[q] # Free})
  <2>0. c \in Nat /\ MaxRows \in Nat
    BY SkillNumbers
  <2>1. c \in Nat /\ MaxRows \in Nat /\ Len(rows["project"]) + Len(rows["global"]) + c < MaxRows
    BY <1>7, <2>0
  <2> HIDE DEF c
  <2>2. Len(rows["global"]) \in Nat
    BY <1>1, RowsAreRows, SkillNumbers
  <2> QED BY <1>4, <2>1, <2>2, Within, Zenon
<1>9. job \in PendingRow
  BY <1>4, <1>6, SkillNumbers, Zenon DEF PendingRow
<1>10. /\ job.does = "save" /\ job.scope = "project" /\ job.row = row
       /\ job.at = Len(rows["project"]) /\ ~job.flagged
  OBVIOUS
<1> HIDE DEF job
<1>11. pending' \in [SkillOps -> PendingRow] /\ pending'[p] = job /\ \A q \in SkillOps \ {p} : pending'[q] = pending[q]
  BY <1>1, <1>7, <1>9 DEF SkillKinds
<1>12. Waiting(p)' /\ \A q \in SkillOps \ {p} : Waiting(q)' <=> Waiting(q)
  BY <1>10, <1>11 DEF Waiting
<1>13. /\ used' \in Seq(Nat) /\ Len(used') = bodies' /\ used'[bodies + 1] = 0
       /\ \A b \in 1..bodies : used'[b] = used[b]
  <2>1. used \in Seq(Nat) /\ Len(used) = bodies
    BY <1>1 DEF SkillKinds
  <2>2. used' = Append(used, 0) /\ bodies' = bodies + 1
    BY <1>3
  <2>3. \A s \in Seq(Nat) : /\ Append(s, 0) \in Seq(Nat) /\ Len(Append(s, 0)) = Len(s) + 1
                           /\ Append(s, 0)[Len(s) + 1] = 0
                           /\ \A b \in 1..Len(s) : Append(s, 0)[b] = s[b]
    OBVIOUS
  <2> QED BY <2>1, <2>2, <2>3, Zenon
<1>14. 1..bodies \subseteq 1..bodies' /\ bodies + 1 \in 1..bodies' /\ bodies + 1 \notin 1..bodies
  BY <1>3, <1>4
<1>15. SkillKinds'
  <2>1. \A q \in SkillOps : ~Waiting(q)' => pending'[q] = Free
    BY <1>1, <1>11, <1>12 DEF SkillKinds
  <2>2. \A q \in SkillOps : pending'[q].at <= MaxRows
    BY <1>1, <1>8, <1>10, <1>11 DEF SkillKinds
  <2>3. \A q \in SkillOps : Waiting(q)' =>
          pending'[q].row.body \in 1..bodies' /\ pending'[q].row.version <= Len(rows[pending'[q].scope]) + 1
    <3> SUFFICES ASSUME NEW q \in SkillOps, Waiting(q)'
                 PROVE  pending'[q].row.body \in 1..bodies'
                        /\ pending'[q].row.version <= Len(rows[pending'[q].scope]) + 1
      OBVIOUS
    <3>1. CASE q = p
      BY <1>4, <1>5, <1>6, <1>10, <1>11, <1>14, <3>1
    <3>2. CASE q # p
      BY <1>1, <1>11, <1>12, <1>14, <3>2 DEF SkillKinds
    <3> QED BY <3>1, <3>2
  <2>4. \A s \in Scopes2 : \A i \in 1..Len(rows[s]) : rows[s][i].body \in 1..bodies' /\ rows[s][i].version <= i
    BY <1>1, <1>14 DEF SkillKinds
  <2>5. tainted \subseteq 1..bodies' /\ exempt \subseteq 1..bodies'
    BY <1>1, <1>14 DEF SkillKinds
  <2> QED BY <1>1, <1>3, <1>4, <1>11, <1>13, <2>1, <2>2, <2>3, <2>4, <2>5 DEF SkillKinds
<1>16. Counted'
  <2>1. ASSUME NEW q \in SkillOps, Waiting(q)'
        PROVE  Counts(pending'[q].row, used'[pending'[q].row.body] + Earns(q)')
    <3>1. CASE q = p
      <4>1. pending'[q] = job /\ Earns(q)' = 0 /\ used'[job.row.body] = 0
        BY <1>6, <1>10, <1>11, <1>13, <3>1 DEF Earns
      <4> QED BY <1>6, <1>10, <4>1 DEF Counts
    <3>2. CASE q # p
      <4>1. pending'[q] = pending[q] /\ pending[q].row.body \in 1..bodies /\ Waiting(q)
        BY <1>1, <1>11, <1>12, <2>1, <3>2 DEF SkillKinds
      <4> QED BY <1>1, <1>13, <4>1 DEF Counted, Earns
    <3> QED BY <3>1, <3>2
  <2>2. \A s \in Scopes2 : \A i \in 1..Len(rows[s]) : Counts(rows[s][i], used'[rows[s][i].body])
    BY <1>1, <1>13 DEF Counted, SkillKinds
  <2> QED BY <1>3, <2>1, <2>2 DEF Counted
<1>17. Promoted'
  <2>1. \A b : WasActive(b)' <=> WasActive(b)
    BY <1>3 DEF WasActive, Shows, Notes
  <2> QED BY <1>1, <1>3, <1>10, <1>11, <1>12, <2>1 DEF Promoted
<1>18. AllSettled'
  <2> SUFFICES ASSUME NEW q \in SkillOps PROVE Settled(q)'
    BY DEF AllSettled
  <2>1. Notes' = Notes /\ \A j : Tops(j)' <=> Tops(j)
    BY <1>3 DEF Notes, Tops
  <2>2. \A s \in Scopes2 : \A i \in 1..Len(rows[s]) : rows[s][i].body # bodies + 1
    BY <1>1, <1>14 DEF SkillKinds
  <2>3. \A r \in SkillOps : Waiting(r) => pending[r].row.body # bodies + 1
    BY <1>1, <1>14 DEF SkillKinds
  <2>4. CASE q = p
    <3>1. Unborn(p)'
      BY <1>3, <1>6, <1>10, <1>11, <1>12, <2>2, <2>3 DEF Unborn
    <3> QED BY <1>10, <1>11, <2>4, <3>1 DEF Settled
  <2>5. CASE q # p
    <3>1. Settled(q) /\ pending'[q] = pending[q]
      BY <1>1, <1>11, <2>5 DEF AllSettled
    <3>2. pending[q].does = "save" => Unborn(q)'
      <4> SUFFICES ASSUME pending[q].does = "save" PROVE Unborn(q)'
        OBVIOUS
      <4>1. Unborn(q) /\ Waiting(q)
        BY <3>1 DEF Settled, Waiting
      <4>2. bodies + 1 # pending[q].row.body
        BY <2>3, <4>1
      <4> QED BY <1>3, <1>6, <1>10, <1>11, <1>12, <3>1, <4>1, <4>2 DEF Unborn
    <3>3. Continues(q) => Continues(q)'
      BY <2>1, <3>1 DEF Continues
    <3> QED BY <2>1, <3>1, <3>2, <3>3 DEF Settled
  <2> QED BY <2>4, <2>5
<1>19. Chained'
  <2> SUFFICES ASSUME NEW b \in 1..bodies' \ exempt, NEW i \in 1..Len(Notes), NEW j \in 1..Len(Notes),
                      i < j, Shows(i, b), Shows(j, b)
               PROVE  /\ Notes[i].version < Notes[j].version /\ Notes[i].flags <= Notes[j].flags
                      /\ Notes[j].state = "quarantined" => Notes[i].state = "quarantined"
    BY <1>3 DEF Chained, Shows, Notes
  <2>1. b \in 1..bodies
    BY <1>1, SkillNumbers DEF Shows, Notes, SkillKinds
  <2> QED BY <1>1, <2>1 DEF Chained
<1>20. Stopped'
  BY <1>1, <1>3 DEF Stopped, Shows, Notes
<1> QED BY <1>15, <1>16, <1>17, <1>18, <1>19, <1>20 DEF SkillInv

\* An append fails.
LEMMA FailsKept ==
  ASSUME SkillInv, NEW p \in SkillOps, AppendFails(p)
  PROVE  SkillInv'
<1>1. SkillKinds /\ Counted /\ Promoted /\ AllSettled /\ Chained /\ Stopped
  BY DEF SkillInv
<1>2. Free \in PendingRow /\ Free.does = "nothing" /\ Free.at = 0
  BY DEF NoRow, Row, Free, PendingRow, Scopes2
<1>3. pending' = [pending EXCEPT ![p] = Free] /\ UNCHANGED <<rows, bodies, used, tainted, exempt>>
  BY DEF AppendFails
<1>4. pending' \in [SkillOps -> PendingRow] /\ pending'[p] = Free /\ \A q \in SkillOps \ {p} : pending'[q] = pending[q]
  BY <1>1, <1>2, <1>3 DEF SkillKinds
<1>5. ~Waiting(p)' /\ \A q \in SkillOps \ {p} : Waiting(q)' <=> Waiting(q)
  BY <1>2, <1>4 DEF Waiting
<1>6. SkillKinds'
  <2>1. \A q \in SkillOps : pending'[q].at <= MaxRows
    BY <1>1, <1>2, <1>4, SkillNumbers, SMTT(20) DEF SkillKinds
  <2> QED BY <1>1, <1>3, <1>4, <1>5, <2>1 DEF SkillKinds
<1>7. Counted'
  BY <1>1, <1>3, <1>4, <1>5 DEF Counted, Earns
<1>8. Promoted'
  <2>1. \A b : WasActive(b)' <=> WasActive(b)
    BY <1>3 DEF WasActive, Shows, Notes
  <2> QED BY <1>1, <1>3, <1>4, <1>5, <2>1 DEF Promoted
<1>9. AllSettled'
  <2> SUFFICES ASSUME NEW q \in SkillOps PROVE Settled(q)'
    BY DEF AllSettled
  <2>1. CASE q = p
    BY <1>2, <1>4, <2>1 DEF Settled
  <2>2. CASE q # p
    <3>1. Settled(q) /\ pending'[q] = pending[q] /\ Notes' = Notes
      BY <1>1, <1>3, <1>4, <2>2 DEF AllSettled, Notes
    <3>2. Unborn(q) => Unborn(q)'
      BY <1>3, <1>5, <1>4, <3>1 DEF Unborn
    <3>3. Continues(q) => Continues(q)'
      BY <3>1 DEF Continues, Tops
    <3> QED BY <3>1, <3>2, <3>3 DEF Settled
  <2> QED BY <2>1, <2>2
<1>10. Chained' /\ Stopped'
  BY <1>1, <1>3 DEF Chained, Stopped, Shows, Notes
<1> QED BY <1>6, <1>7, <1>8, <1>9, <1>10 DEF SkillInv

\* More recorded uses keep the counts of a row earned.
LEMMA CountsGrow ==
  ASSUME NEW r \in Row, NEW u \in Nat, NEW v \in Nat, u <= v, Counts(r, u)
  PROVE  Counts(r, v)
BY SkillNumbers, RowFields DEF Counts

\* What appending a row makes of the files and of the counts, whatever it says.
LEMMA Appended ==
  ASSUME SkillInv, NEW p \in SkillOps, AppendRow(p)
  PROVE  /\ Waiting(p) /\ pending[p] \in PendingRow /\ pending[p].scope \in Scopes2
         /\ pending[p].row \in Row /\ pending[p].row.body \in 1..bodies
         /\ pending' \in [SkillOps -> PendingRow] /\ pending'[p] = Free /\ ~Waiting(p)'
         /\ \A q \in SkillOps \ {p} : pending'[q] = pending[q] /\ (Waiting(q)' <=> Waiting(q))
         /\ rows' \in [Scopes2 -> Seq(Row)] /\ bodies' = bodies
         /\ \A t \in Scopes2 \ {pending[p].scope} : rows'[t] = rows[t]
         /\ Len(rows[pending[p].scope]) \in Nat
         /\ Len(rows'[pending[p].scope]) = Len(rows[pending[p].scope]) + 1
         /\ rows'[pending[p].scope][Len(rows[pending[p].scope]) + 1] = pending[p].row
         /\ \A i \in 1..Len(rows[pending[p].scope]) :
              rows'[pending[p].scope][i] = rows[pending[p].scope][i]
         /\ used' \in Seq(Nat) /\ Len(used') = bodies
         /\ \A b \in 1..bodies : used[b] \in Nat /\ used'[b] \in Nat /\ used[b] <= used'[b]
         /\ used'[pending[p].row.body] = used[pending[p].row.body] + Earns(p)
<1> DEFINE op == pending[p]
           s == op.scope
           row == op.row
<1>1. SkillKinds /\ op.does # "nothing"
  BY DEF SkillInv, AppendRow
<1>2. Waiting(p) /\ op \in PendingRow /\ s \in Scopes2 /\ row \in Row /\ row.body \in 1..bodies
  BY <1>1 DEF Waiting, PendingRow, SkillKinds
<1>3. Free \in PendingRow /\ Free.does = "nothing"
  BY DEF NoRow, Row, Free, PendingRow, Scopes2
<1>4. pending' \in [SkillOps -> PendingRow] /\ pending'[p] = Free /\ \A q \in SkillOps \ {p} : pending'[q] = pending[q]
  BY <1>1, <1>3 DEF SkillKinds, AppendRow
<1>5. ~Waiting(p)' /\ \A q \in SkillOps \ {p} : Waiting(q)' <=> Waiting(q)
  BY <1>3, <1>4 DEF Waiting
<1>6. rows' = [rows EXCEPT ![s] = Append(rows[s], row)] /\ bodies' = bodies
  BY DEF AppendRow
<1>7. rows[s] \in Seq(Row) /\ Len(rows[s]) \in Nat /\ rows \in [Scopes2 -> Seq(Row)]
  BY <1>1, <1>2 DEF SkillKinds
<1>8. used \in Seq(Nat) /\ Len(used) = bodies /\ bodies \in Nat
  BY <1>1, SkillNumbers DEF SkillKinds
<1> HIDE DEF row, s
<1>9. /\ Append(rows[s], row) \in Seq(Row) /\ Len(Append(rows[s], row)) = Len(rows[s]) + 1
      /\ Append(rows[s], row)[Len(rows[s]) + 1] = row
      /\ \A i \in 1..Len(rows[s]) : Append(rows[s], row)[i] = rows[s][i]
  BY <1>2, <1>7
<1>10. /\ rows' \in [Scopes2 -> Seq(Row)] /\ rows'[s] = Append(rows[s], row)
       /\ \A t \in Scopes2 \ {s} : rows'[t] = rows[t]
  BY <1>2, <1>6, <1>7, <1>9, Zenon
<1>11. used' = IF op.does = "use" /\ ~op.flagged THEN [used EXCEPT ![row.body] = used[row.body] + 1] ELSE used
  BY Zenon DEF AppendRow, row
<1>12. Earns(p) = IF op.does = "use" /\ ~op.flagged THEN 1 ELSE 0
  BY DEF Earns
<1>13. \A b \in 1..bodies : used[b] \in Nat
  BY <1>8
<1>14. /\ used' \in Seq(Nat) /\ Len(used') = bodies
       /\ \A b \in 1..bodies : used'[b] = used[b] + (IF b = row.body THEN Earns(p) ELSE 0)
  <2> HIDE DEF op
  <2>1. CASE op.does = "use" /\ ~op.flagged
    <3>1. used' = [used EXCEPT ![row.body] = used[row.body] + 1] /\ Earns(p) = 1
      BY <1>11, <1>12, <2>1
    <3>2. used[row.body] + 1 \in Nat
      BY <1>2, <1>13
    <3> QED BY <1>2, <1>8, <1>13, <3>1, <3>2
  <2>2. CASE ~(op.does = "use" /\ ~op.flagged)
    <3>1. used' = used /\ Earns(p) = 0
      BY <1>11, <1>12, <2>2
    <3> QED BY <1>8, <1>13, <3>1
  <2> QED BY <2>1, <2>2
<1>15. Earns(p) \in Nat
  BY <1>12
<1>16. /\ \A b \in 1..bodies : used[b] \in Nat /\ used'[b] \in Nat /\ used[b] <= used'[b]
       /\ used'[row.body] = used[row.body] + Earns(p)
  <2> DEFINE e == Earns(p)
  <2>1. e \in Nat /\ \A b \in 1..bodies : used'[b] = used[b] + (IF b = row.body THEN e ELSE 0)
    BY <1>14, <1>15
  <2> HIDE DEF op, e
  <2>2. used'[row.body] = used[row.body] + e
    BY <1>2, <2>1
  <2>3. ASSUME NEW b \in 1..bodies PROVE used[b] \in Nat /\ used'[b] \in Nat /\ used[b] <= used'[b]
    BY <1>13, <2>1
  <2> QED BY <2>2, <2>3 DEF e
<1> QED BY <1>2, <1>4, <1>5, <1>6, <1>7, <1>9, <1>10, <1>14, <1>16 DEF row, s

\* Appending a row keeps the counts, and what is global was active.
LEMMA AppendCounted ==
  ASSUME SkillInv, NEW p \in SkillOps, AppendRow(p)
  PROVE  SkillKinds' /\ Counted' /\ Promoted'
<1> DEFINE s == pending[p].scope
           row == pending[p].row
           n == Len(rows[s])
<1>1. SkillKinds /\ Counted /\ Promoted
  BY DEF SkillInv
<1>2. /\ Waiting(p) /\ s \in Scopes2 /\ row \in Row /\ row.body \in 1..bodies
      /\ pending' \in [SkillOps -> PendingRow] /\ pending'[p] = Free /\ ~Waiting(p)'
      /\ \A q \in SkillOps \ {p} : pending'[q] = pending[q] /\ (Waiting(q)' <=> Waiting(q))
      /\ rows' \in [Scopes2 -> Seq(Row)] /\ bodies' = bodies /\ n \in Nat
      /\ used' \in Seq(Nat) /\ Len(used') = bodies
      /\ \A b \in 1..bodies : used[b] \in Nat /\ used'[b] \in Nat /\ used[b] <= used'[b]
      /\ used'[row.body] = used[row.body] + Earns(p)
  BY Appended
<1>3. /\ Len(rows'[s]) = n + 1 /\ rows'[s][n + 1] = row
      /\ \A i \in 1..n : rows'[s][i] = rows[s][i]
      /\ \A t \in Scopes2 \ {s} : rows'[t] = rows[t]
  BY Appended
<1>4. /\ row.version <= n + 1 /\ Counts(row, used[row.body] + Earns(p))
      /\ (s = "global" => WasActive(row.body))
  BY <1>1, <1>2 DEF SkillKinds, Counted, Promoted
<1>5. tainted' \subseteq 1..bodies /\ exempt' \subseteq 1..bodies
  BY <1>1, <1>2 DEF AppendRow, SkillKinds
<1> HIDE DEF row, s
<1>6. \A t \in Scopes2 : /\ Len(rows[t]) \in Nat /\ Len(rows'[t]) \in Nat /\ Len(rows[t]) <= Len(rows'[t])
                         /\ \A i \in 1..Len(rows[t]) : rows'[t][i] = rows[t][i]
  <2> SUFFICES ASSUME NEW t \in Scopes2
               PROVE  /\ Len(rows[t]) \in Nat /\ Len(rows'[t]) \in Nat /\ Len(rows[t]) <= Len(rows'[t])
                      /\ \A i \in 1..Len(rows[t]) : rows'[t][i] = rows[t][i]
    OBVIOUS
  <2>1. CASE t = s
    BY <1>2, <1>3, <2>1
  <2>2. CASE t # s
    <3>1. rows'[t] = rows[t] /\ Len(rows[t]) \in Nat
      BY <1>1, <1>3, <2>2, RowsAreRows
    <3> QED BY <3>1
  <2> QED BY <2>1, <2>2
<1>7. \A t \in Scopes2 : \A i \in 1..Len(rows'[t]) :
         \/ i \in 1..Len(rows[t]) /\ rows'[t][i] = rows[t][i]
         \/ t = s /\ i = n + 1 /\ rows'[t][i] = row
  <2> SUFFICES ASSUME NEW t \in Scopes2, NEW i \in 1..Len(rows'[t])
               PROVE  \/ i \in 1..Len(rows[t]) /\ rows'[t][i] = rows[t][i]
                      \/ t = s /\ i = n + 1 /\ rows'[t][i] = row
    OBVIOUS
  <2>1. CASE t = s
    BY <1>2, <1>3, <2>1
  <2>2. CASE t # s
    BY <1>3, <2>2
  <2> QED BY <2>1, <2>2
<1>8. SkillKinds'
  <2>1. \A t \in Scopes2 : \A i \in 1..Len(rows'[t]) : rows'[t][i].body \in 1..bodies /\ rows'[t][i].version <= i
    <3> SUFFICES ASSUME NEW t \in Scopes2, NEW i \in 1..Len(rows'[t])
                 PROVE  rows'[t][i].body \in 1..bodies /\ rows'[t][i].version <= i
      OBVIOUS
    <3>1. CASE i \in 1..Len(rows[t]) /\ rows'[t][i] = rows[t][i]
      BY <1>1, <3>1 DEF SkillKinds
    <3>2. CASE t = s /\ i = n + 1 /\ rows'[t][i] = row
      BY <1>2, <1>4, <3>2
    <3> QED BY <1>7, <3>1, <3>2
  <2>2. \A q \in SkillOps : ~Waiting(q)' => pending'[q] = Free
    BY <1>1, <1>2 DEF SkillKinds
  <2>3. \A q \in SkillOps : pending'[q].at <= MaxRows
    <3>1. Free.at = 0
      BY DEF Free
    <3> SUFFICES ASSUME NEW q \in SkillOps PROVE pending'[q].at <= MaxRows
      OBVIOUS
    <3>2. CASE q = p
      BY <1>2, <3>1, <3>2, SkillNumbers
    <3>3. CASE q # p
      <4>1. pending'[q] = pending[q]
        BY <1>2, <3>3
      <4> QED BY <1>1, <4>1 DEF SkillKinds
    <3> QED BY <3>2, <3>3
  <2>4. \A q \in SkillOps : Waiting(q)' =>
           pending'[q].row.body \in 1..bodies /\ pending'[q].row.version <= Len(rows'[pending'[q].scope]) + 1
    <3> SUFFICES ASSUME NEW q \in SkillOps, Waiting(q)'
                 PROVE  pending'[q].row.body \in 1..bodies
                        /\ pending'[q].row.version <= Len(rows'[pending'[q].scope]) + 1
      OBVIOUS
    <3>1. q # p /\ pending'[q] = pending[q] /\ Waiting(q) /\ pending[q] \in PendingRow
      BY <1>1, <1>2 DEF SkillKinds
    <3>2. /\ pending[q].row.body \in 1..bodies
          /\ pending[q].row.version <= Len(rows[pending[q].scope]) + 1
      BY <1>1, <3>1 DEF SkillKinds
    <3>3. pending[q].scope \in Scopes2 /\ pending[q].row \in Row
      BY <3>1 DEF PendingRow
    <3>4. pending[q].row.version \in Nat
      BY <3>3, RowFields
    <3> QED BY <1>6, <3>1, <3>2, <3>3, <3>4
  <2> QED BY <1>1, <1>2, <1>5, <2>1, <2>2, <2>3, <2>4 DEF SkillKinds
<1>9. Counted'
  <2>1. \A t \in Scopes2 : \A i \in 1..Len(rows'[t]) : Counts(rows'[t][i], used'[rows'[t][i].body])
    <3> SUFFICES ASSUME NEW t \in Scopes2, NEW i \in 1..Len(rows'[t])
                 PROVE  Counts(rows'[t][i], used'[rows'[t][i].body])
      OBVIOUS
    <3>1. CASE i \in 1..Len(rows[t]) /\ rows'[t][i] = rows[t][i]
      <4>1. Counts(rows[t][i], used[rows[t][i].body]) /\ rows[t][i] \in Row /\ rows[t][i].body \in 1..bodies
        BY <1>1, <3>1, RowsAreRows DEF Counted
      <4> QED BY <1>2, <3>1, <4>1, CountsGrow
    <3>2. CASE rows'[t][i] = row
      BY <1>2, <1>4, <3>2
    <3> QED BY <1>7, <3>1, <3>2
  <2>2. \A q \in SkillOps : Waiting(q)' => Counts(pending'[q].row, used'[pending'[q].row.body] + Earns(q)')
    <3> SUFFICES ASSUME NEW q \in SkillOps, Waiting(q)'
                 PROVE  Counts(pending'[q].row, used'[pending'[q].row.body] + Earns(q)')
      OBVIOUS
    <3>1. q # p /\ pending'[q] = pending[q] /\ Waiting(q) /\ pending[q] \in PendingRow /\ Earns(q)' = Earns(q)
      BY <1>1, <1>2 DEF SkillKinds, Earns
    <3>2. /\ pending[q].row \in Row /\ pending[q].row.body \in 1..bodies /\ Earns(q) \in Nat
          /\ Counts(pending[q].row, used[pending[q].row.body] + Earns(q))
      BY <1>1, <3>1 DEF SkillKinds, Counted, PendingRow, Earns
    <3>3. /\ used[pending[q].row.body] + Earns(q) \in Nat
          /\ used'[pending[q].row.body] + Earns(q) \in Nat
          /\ used[pending[q].row.body] + Earns(q) <= used'[pending[q].row.body] + Earns(q)
      <4> DEFINE e == Earns(q)
                 b == pending[q].row.body
      <4>1. e \in Nat /\ b \in 1..bodies
        BY <3>2
      <4> HIDE DEF e, b
      <4>2. used[b] \in Nat /\ used'[b] \in Nat /\ used[b] <= used'[b]
        BY <1>2, <4>1
      <4>3. \A x, y, z \in Nat : x <= y => x + z \in Nat /\ y + z \in Nat /\ x + z <= y + z
        OBVIOUS
      <4> QED BY <4>1, <4>2, <4>3, Zenon DEF e, b
    <3> QED BY <3>1, <3>2, <3>3, CountsGrow
  <2> QED BY <2>1, <2>2 DEF Counted
<1>10. Promoted'
  <2>1. ASSUME NEW b, \E i \in 1..Len(Notes) : Notes[i].body = b /\ ~Notes[i].tombstone /\ Notes[i].state = "active"
        PROVE  \E i \in 1..Len(Notes') : Notes'[i].body = b /\ ~Notes'[i].tombstone /\ Notes'[i].state = "active"
    <3>1. PICK i \in 1..Len(Notes) : Notes[i].body = b /\ ~Notes[i].tombstone /\ Notes[i].state = "active"
      BY <2>1
    <3>2. i \in 1..Len(Notes') /\ Notes'[i] = Notes[i]
      BY <1>6, SkillNumbers DEF Notes
    <3> QED BY <3>1, <3>2
  <2> DEFINE Active(b) == \E i \in 1..Len(Notes) : Notes[i].body = b /\ ~Notes[i].tombstone /\ Notes[i].state = "active"
             Now(b) == \E i \in 1..Len(Notes') : Notes'[i].body = b /\ ~Notes'[i].tombstone /\ Notes'[i].state = "active"
  <2>2. \A b : Active(b) => Now(b)
    BY <2>1
  <2>3. /\ s = "global" => Active(row.body)
        /\ \A i \in 1..Len(rows["global"]) : Active(rows["global"][i].body)
        /\ \A q \in SkillOps : Waiting(q) /\ pending[q].scope = "global" => Active(pending[q].row.body)
    BY <1>1, <1>4 DEF Promoted, WasActive, Shows
  <2> HIDE DEF Active, Now
  <2>4. \A i \in 1..Len(rows'["global"]) : Now(rows'["global"][i].body)
    BY <1>7, <2>2, <2>3, SkillNumbers
  <2>5. \A q \in SkillOps : Waiting(q)' /\ pending'[q].scope = "global" => Now(pending'[q].row.body)
    BY <1>2, <2>2, <2>3
  <2> QED BY <2>4, <2>5 DEF Promoted, WasActive, Shows, Now
<1> QED BY <1>8, <1>9, <1>10


\* A use that nothing was appended over goes on from every visible version of its body.
LEMMA UseGoesOn ==
  ASSUME SkillInv, NEW p \in SkillOps, Continues(p), pending[p] \in PendingRow,
         NEW b, b = pending[p].row.body, b \in 1..bodies \ exempt
  PROVE  /\ \A i \in 1..Len(Notes) : Shows(i, b) =>
              /\ Notes[i].version < pending[p].row.version /\ Notes[i].flags <= pending[p].row.flags
              /\ pending[p].row.state = "quarantined" => Notes[i].state = "quarantined"
         /\ \E k \in 1..Len(Notes) : Shows(k, b)
         /\ pending[p].flagged => pending[p].row.flags > 0
         /\ pending[p].row.flags > 0 /\ (\A i \in 1..Len(Notes) : Shows(i, b) => Notes[i].state = "quarantined")
              => pending[p].row.state = "quarantined"
<1> DEFINE row == pending[p].row
<1>1. SkillKinds /\ Chained
  BY DEF SkillInv
<1>2. PICK k \in 1..Len(Notes) :
        /\ Tops(k) /\ ~Notes[k].tombstone
        /\ row.body = Notes[k].body /\ row.version = Notes[k].version + 1
        /\ row.flags = Notes[k].flags + (IF pending[p].flagged THEN 1 ELSE 0)
        /\ \/ row.state = Notes[k].state
           \/ /\ Notes[k].state = "quarantined" /\ row.state = "active"
              /\ row.flags = 0
  BY DEF Continues
<1>3. /\ Len(Notes) \in Nat
      /\ \A i \in 1..Len(Notes) : Notes[i].version \in Nat /\ Notes[i].flags \in Nat
  BY <1>1, RowsAreRows, SkillNumbers DEF Notes
<1>4. Shows(k, b)
  BY <1>2 DEF Shows
<1>5. ASSUME NEW i \in 1..Len(Notes), Shows(i, b)
      PROVE  /\ Notes[i].version <= Notes[k].version /\ Notes[i].flags <= Notes[k].flags
             /\ Notes[k].state = "quarantined" => Notes[i].state = "quarantined"
  <2>1. Notes[i].version <= Notes[k].version /\ (Notes[i].version = Notes[k].version => i <= k)
    BY <1>2 DEF Tops
  <2>2. CASE i = k
    BY <1>3, <2>2
  <2>3. CASE i < k
    BY <1>1, <1>3, <1>4, <1>5, <2>3, SMTT(20) DEF Chained
  <2>4. CASE k < i
    <3>1. Notes[k].version < Notes[i].version
      BY <1>1, <1>4, <1>5, <2>4 DEF Chained
    <3> QED BY <1>3, <2>1, <3>1
  <2> QED BY <1>3, <2>2, <2>3, <2>4
<1>6. row.flags \in Nat /\ row.version \in Nat
  BY RowFields DEF PendingRow
<1> HIDE DEF row
<1>7. row.state = "quarantined" => Notes[k].state = "quarantined"
  BY <1>2
<1>8. pending[p].flagged => row.flags > 0
  BY <1>2, <1>3
<1>9. row.flags > 0 /\ Notes[k].state = "quarantined" => row.state = "quarantined"
  BY <1>2
<1>10. Notes[k].flags <= row.flags /\ Notes[k].version < row.version
  BY <1>2, <1>3
<1>11. ASSUME NEW i \in 1..Len(Notes), Shows(i, b)
       PROVE  /\ Notes[i].version < row.version /\ Notes[i].flags <= row.flags
              /\ row.state = "quarantined" => Notes[i].state = "quarantined"
  BY <1>3, <1>5, <1>6, <1>7, <1>10, <1>11
<1> QED BY <1>4, <1>8, <1>9, <1>11 DEF row

\* It keeps the other operations and the history of every body.
LEMMA AppendChained ==
  ASSUME SkillInv, NEW p \in SkillOps, AppendRow(p)
  PROVE  AllSettled' /\ Chained' /\ Stopped'
<1> DEFINE op == pending[p]
           s == op.scope
           row == op.row
           n == Len(Notes)
<1>1. SkillKinds /\ AllSettled /\ Chained /\ Stopped
  BY DEF SkillInv
<1>2. /\ Waiting(p) /\ op \in PendingRow /\ s \in Scopes2 /\ row \in Row /\ row.body \in 1..bodies
      /\ pending' \in [SkillOps -> PendingRow] /\ pending'[p] = Free /\ ~Waiting(p)'
      /\ \A q \in SkillOps \ {p} : pending'[q] = pending[q] /\ (Waiting(q)' <=> Waiting(q))
      /\ bodies' = bodies
  BY Appended
<1>3. /\ Len(rows'[s]) = Len(rows[s]) + 1 /\ rows'[s][Len(rows[s]) + 1] = row
      /\ \A i \in 1..Len(rows[s]) : rows'[s][i] = rows[s][i]
      /\ \A t \in Scopes2 \ {s} : rows'[t] = rows[t]
  BY Appended
<1>4. Settled(p) /\ op.does \in {"save", "use", "promote", "rollback", "rm"}
  BY <1>1, <1>2 DEF AllSettled, PendingRow, Waiting
<1>5. /\ tainted' = IF op.does = "use" /\ op.flagged /\ row.state = "quarantined"
                    THEN tainted \cup {row.body} ELSE tainted
      /\ exempt' = IF op.does = "rollback" \/ (op.does = "use" /\ op.at # Len(rows[s]))
                   THEN exempt \cup {row.body} ELSE exempt
  BY Zenon DEF AppendRow
<1>6. n \in Nat /\ \A i \in 1..n : Notes[i].version \in Nat /\ Notes[i].flags \in Nat /\ Notes[i].body \in 1..bodies
  BY <1>1, RowsAreRows, SkillNumbers DEF Notes
<1>7. s = "global" => Notes' = Notes
  BY <1>3, SkillNumbers DEF Notes
<1>8. s = "project" => /\ Len(Notes') = n + 1 /\ Notes'[n + 1] = row
                       /\ \A i \in 1..n : Notes'[i] = Notes[i]
  BY <1>3 DEF Notes
<1>9. s = "project" \/ s = "global"
  BY <1>2 DEF Scopes2
<1>10. op.does = "use" => /\ s = "project" /\ ~row.tombstone /\ op.at <= n /\ (op.at = n => Continues(p))
  BY <1>4 DEF Settled
<1>11. AllSettled'
  <2> SUFFICES ASSUME NEW q \in SkillOps PROVE Settled(q)'
    BY DEF AllSettled
  <2>1. CASE q = p
    BY <1>2, <2>1 DEF Settled, Free
  <2>2. CASE q # p
    <3>1. Settled(q) /\ pending'[q] = pending[q] /\ pending[q] \in PendingRow /\ (Waiting(q)' <=> Waiting(q))
      BY <1>1, <1>2, <2>2 DEF AllSettled, SkillKinds
    <3>2. pending[q].does = "save" => Unborn(q)'
      <4> SUFFICES ASSUME pending[q].does = "save" PROVE Unborn(q)'
        OBVIOUS
      <4>1. Unborn(q)
        BY <3>1 DEF Settled
      <4>2. row.body # pending[q].row.body
        BY <1>2, <2>2, <4>1 DEF Unborn
      <4>3. \A t \in Scopes2 : \A i \in 1..Len(rows'[t]) : rows'[t][i].body # pending[q].row.body
        <5> SUFFICES ASSUME NEW t \in Scopes2, NEW i \in 1..Len(rows'[t])
                     PROVE  rows'[t][i].body # pending[q].row.body
          OBVIOUS
        <5>1. CASE t = s
          <6>1. i \in 1..Len(rows[s]) \/ i = Len(rows[s]) + 1
            BY <1>1, <1>2, <1>3, <5>1, RowsAreRows
          <6> QED BY <1>3, <4>1, <4>2, <5>1, <6>1, SMTT(20) DEF Unborn
        <5>2. CASE t # s
          BY <1>3, <4>1, <5>2 DEF Unborn
        <5> QED BY <5>1, <5>2
      <4>4. \A r \in SkillOps \ {q} : Waiting(r)' => pending'[r].row.body # pending[q].row.body
        BY <1>2, <4>1 DEF Unborn
      <4> QED BY <3>1, <4>1, <4>3, <4>4 DEF Unborn
    <3>3. pending[q].does = "use" => pending[q].at <= Len(Notes') /\ (pending[q].at = Len(Notes') => Continues(q)')
      <4> SUFFICES ASSUME pending[q].does = "use"
                   PROVE  pending[q].at <= Len(Notes') /\ (pending[q].at = Len(Notes') => Continues(q)')
        OBVIOUS
      <4>1. pending[q].at <= n /\ (pending[q].at = n => Continues(q)) /\ pending[q].at \in Nat
        BY <3>1 DEF Settled, PendingRow
      <4>2. CASE s = "global"
        <5>1. Continues(q) => Continues(q)'
          BY <1>7, <3>1, <4>2 DEF Continues, Tops
        <5> QED BY <1>7, <4>1, <4>2, <5>1
      <4>3. CASE s = "project"
        BY <1>6, <1>8, <4>1, <4>3
      <4> QED BY <1>9, <4>2, <4>3
    <3> QED BY <3>1, <3>2, <3>3 DEF Settled
  <2> QED BY <2>1, <2>2
<1>12. exempt \subseteq exempt' /\ tainted' \subseteq tainted \cup {row.body}
  BY <1>5
<1>13. CASE s = "global"
  <2>1. tainted' = tainted /\ Notes' = Notes
    BY <1>5, <1>7, <1>10, <1>13
  <2> QED BY <1>1, <1>2, <1>11, <1>12, <2>1 DEF Chained, Stopped, Shows
<1>14. CASE s = "project"
  <2>1. /\ Len(Notes') = n + 1 /\ Notes'[n + 1] = row
        /\ \A i \in 1..n : Notes'[i] = Notes[i]
    BY <1>8, <1>14
  <2>2. \A i \in 1..n + 1 : i \in 1..n \/ i = n + 1
    BY <1>6
  <2>3. (\A i \in 1..n : i \in 1..n + 1) /\ n + 1 \in 1..n + 1 /\ \A i \in 1..n : i < n + 1 /\ ~(n + 1 < i)
    BY <1>6
  <2> DEFINE Old(i, b) == Notes[i].body = b /\ ~Notes[i].tombstone
             Now(b) == row.body = b /\ ~row.tombstone
  \* What the new row has to be for the bodies that count.
  <2>4. ASSUME NEW b \in 1..bodies, b \notin exempt', Now(b)
        PROVE  /\ \A i \in 1..n : Old(i, b) =>
                    /\ Notes[i].version < row.version /\ Notes[i].flags <= row.flags
                    /\ row.state = "quarantined" => Notes[i].state = "quarantined"
               /\ b \in tainted' =>
                    /\ \/ \E i \in 1..n : Old(i, b) /\ Notes[i].flags > 0
                       \/ row.flags > 0
                    /\ \A i \in 1..n : Old(i, b) => Notes[i].state = "quarantined"
                    /\ row.state = "quarantined"
    <3>1. op.does # "rollback" /\ op.does # "promote" /\ op.does # "rm"
      BY <1>4, <1>5, <1>14, <2>4 DEF Settled
    <3>2. b \notin exempt
      BY <1>12, <2>4
    <3>3. CASE op.does = "save"
      <4>1. Unborn(p)
        BY <1>4, <3>3 DEF Settled
      <4>2. \A i \in 1..n : ~Old(i, b)
        BY <2>4, <4>1, SkillNumbers DEF Unborn, Notes
      <4>3. b \notin tainted'
        <5>1. tainted' = tainted
          BY <1>5, <3>3
        <5> QED BY <1>1, <3>2, <4>2, <5>1 DEF Stopped, Shows
      <4> QED BY <4>2, <4>3
    <3>4. CASE op.does = "use"
      <4>1. Continues(p)
        BY <1>5, <1>10, <1>14, <2>4, <3>4 DEF Notes
      <4>2. /\ \A i \in 1..n : Shows(i, b) =>
                 /\ Notes[i].version < row.version /\ Notes[i].flags <= row.flags
                 /\ row.state = "quarantined" => Notes[i].state = "quarantined"
            /\ op.flagged => row.flags > 0
            /\ row.flags > 0 /\ (\A i \in 1..n : Shows(i, b) => Notes[i].state = "quarantined")
                 => row.state = "quarantined"
        BY <1>2, <2>4, <3>2, <4>1, UseGoesOn
      <4>3. \A i \in 1..n : Shows(i, b) <=> Old(i, b)
        BY DEF Shows
      <4>4. CASE b \in tainted
        <5>1. PICK i \in 1..n : Shows(i, b) /\ Notes[i].flags > 0
          BY <1>1, <3>2, <4>4 DEF Stopped
        <5>2. \A j \in 1..n : Shows(j, b) => Notes[j].state = "quarantined"
          BY <1>1, <3>2, <4>4 DEF Stopped
        <5>3. row.flags > 0
          <6>1. row.flags \in Nat /\ Notes[i].flags <= row.flags
            BY <1>2, <4>2, <5>1, RowFields
          <6> QED BY <1>6, <5>1, <6>1
        <5> QED BY <4>2, <4>3, <5>2, <5>3
      <4>5. CASE b \notin tainted
        <5>1. b \in tainted' => op.flagged /\ row.state = "quarantined"
          BY <1>5, <4>5
        <5> QED BY <4>2, <4>3, <5>1
      <4> QED BY <4>4, <4>5
    <3> QED BY <1>4, <3>1, <3>3, <3>4
  <2>5. \A i \in 1..n + 1 : \A b : Shows(i, b)' <=> ((i \in 1..n /\ Old(i, b)) \/ (i = n + 1 /\ Now(b)))
    <3> SUFFICES ASSUME NEW i \in 1..n + 1, NEW b
                 PROVE  Shows(i, b)' <=> ((i \in 1..n /\ Old(i, b)) \/ (i = n + 1 /\ Now(b)))
      OBVIOUS
    <3>1. Shows(i, b)' <=> Notes'[i].body = b /\ ~Notes'[i].tombstone
      BY <2>1 DEF Shows
    <3>2. CASE i \in 1..n
      <4>1. i # n + 1 /\ Notes'[i] = Notes[i]
        BY <1>6, <2>1, <3>2
      <4> QED BY <3>1, <3>2, <4>1
    <3>3. CASE i \notin 1..n
      <4>1. i = n + 1
        BY <2>2, <3>3
      <4> QED BY <2>1, <3>1, <3>3, <4>1
    <3> QED BY <3>2, <3>3
  <2>6. \A i \in 1..n : \A b : Shows(i, b) <=> Old(i, b)
    BY DEF Shows
  <2> HIDE DEF Old, Now
  <2>7. Chained'
    <3> SUFFICES ASSUME NEW b \in 1..bodies, b \notin exempt', NEW i \in 1..n + 1, NEW j \in 1..n + 1,
                        i < j, Shows(i, b)', Shows(j, b)'
                 PROVE  /\ Notes'[i].version < Notes'[j].version /\ Notes'[i].flags <= Notes'[j].flags
                        /\ Notes'[j].state = "quarantined" => Notes'[i].state = "quarantined"
      BY <1>2, <2>1 DEF Chained
    <3>1. i \in 1..n
      BY <1>6, <2>2
    <3>2. CASE j \in 1..n
      <4>1. Shows(i, b) /\ Shows(j, b) /\ b \notin exempt
        BY <1>12, <2>3, <2>5, <2>6, <3>1, <3>2
      <4> QED BY <1>1, <2>1, <3>1, <3>2, <4>1 DEF Chained
    <3>3. CASE j = n + 1
      <4>1. Old(i, b) /\ Now(b)
        BY <1>6, <2>5, <3>1, <3>3
      <4> QED BY <2>1, <2>4, <3>1, <3>3, <4>1
    <3> QED BY <2>2, <3>2, <3>3
  <2>8. Stopped'
    <3> SUFFICES ASSUME NEW b \in tainted', b \notin exempt'
                 PROVE  /\ \E i \in 1..n + 1 : Shows(i, b)' /\ Notes'[i].flags > 0
                        /\ \A i \in 1..n + 1 : Shows(i, b)' => Notes'[i].state = "quarantined"
      BY <2>1 DEF Stopped
    <3>1. b \in 1..bodies /\ b \notin exempt
      BY <1>1, <1>2, <1>12 DEF SkillKinds
    <3>2. CASE Now(b)
      <4>1. /\ \/ \E i \in 1..n : Old(i, b) /\ Notes[i].flags > 0
               \/ row.flags > 0
            /\ \A i \in 1..n : Old(i, b) => Notes[i].state = "quarantined"
            /\ row.state = "quarantined"
        BY <2>4, <3>1, <3>2
      <4>2. \A i \in 1..n + 1 : Shows(i, b)' => Notes'[i].state = "quarantined"
        BY <2>1, <2>2, <2>5, <4>1
      <4>3. CASE row.flags > 0
        BY <2>1, <2>3, <2>5, <3>2, <4>2, <4>3
      <4>4. CASE \E i \in 1..n : Old(i, b) /\ Notes[i].flags > 0
        <5>1. PICK i \in 1..n : Old(i, b) /\ Notes[i].flags > 0
          BY <4>4
        <5>2. i \in 1..n + 1 /\ Notes'[i] = Notes[i]
          BY <2>1, <2>3
        <5> QED BY <2>5, <4>2, <5>1, <5>2
      <4> QED BY <4>1, <4>3, <4>4
    <3>3. CASE ~Now(b)
      <4>1. b \in tainted
        <5>1. CASE b = row.body
          <6>1. row.tombstone
            BY <3>3, <5>1 DEF Now
          <6>2. op.does # "use"
            BY <1>10, <6>1
          <6> QED BY <1>5, <6>2
        <5>2. CASE b # row.body
          BY <1>12, <5>2
        <5> QED BY <5>1, <5>2
      <4>2. /\ \E i \in 1..n : Shows(i, b) /\ Notes[i].flags > 0
            /\ \A i \in 1..n : Shows(i, b) => Notes[i].state = "quarantined"
        BY <1>1, <3>1, <4>1 DEF Stopped
      <4>3. PICK i \in 1..n : Shows(i, b) /\ Notes[i].flags > 0
        BY <4>2
      <4>4. i \in 1..n + 1 /\ Notes'[i] = Notes[i] /\ Shows(i, b)'
        BY <2>1, <2>3, <2>5, <2>6, <4>3
      <4>5. \A j \in 1..n + 1 : Shows(j, b)' => Notes'[j].state = "quarantined"
        BY <2>1, <2>5, <2>6, <3>3, <4>2
      <4> QED BY <4>3, <4>4, <4>5
    <3> QED BY <3>2, <3>3
  <2> QED BY <1>11, <2>7, <2>8
<1> QED BY <1>9, <1>13, <1>14

\* Every step keeps the invariant.
LEMMA SkillStepKept == SkillInv /\ [SkillNext]_skillVars => SkillInv'
<1> SUFFICES ASSUME SkillInv, [SkillNext]_skillVars PROVE SkillInv'
  OBVIOUS
<1>1. CASE SkillNext
  <2>1. PICK p \in SkillOps :
           \/ Save(p) \/ PromoteToGlobal(p) \/ AppendRow(p) \/ AppendFails(p)
           \/ \E flagged \in BOOLEAN : RecordUse(p, flagged)
           \/ \E s \in Scopes2 : Rollback(p, s) \/ DeleteSkill(p, s)
    BY <1>1 DEF SkillNext
  <2>2. CASE AppendRow(p)
    BY <2>2, AppendCounted, AppendChained DEF SkillInv
  <2> QED BY <2>1, <2>2, SaveKept, PromoteKept, FailsKept, RecordKept, RollbackKept, DeleteKept
<1>2. CASE UNCHANGED skillVars
  <2>1. UNCHANGED <<rows, pending, bodies, used, tainted, exempt>>
    BY <1>2 DEF skillVars
  <2>2. SkillKinds' /\ Counted' /\ Promoted'
    BY <2>1 DEF SkillInv, SkillKinds, Waiting, Counted, Earns, Promoted, WasActive, Shows, Notes
  <2>3. AllSettled' /\ Chained' /\ Stopped'
    BY <2>1 DEF SkillInv, AllSettled, Settled, Unborn, Waiting, Continues, Tops, Chained, Stopped, Shows, Notes
  <2> QED BY <2>2, <2>3 DEF SkillInv
<1> QED BY <1>1, <1>2

\* The invariant holds throughout.
THEOREM SkillInvariance == SkillSpec => []SkillInv
<1> QED BY SkillInitInv, SkillStepKept, PTL DEF SkillSpec

\* Rows, pending operations and the history keep their types.
THEOREM SkillTypes == SkillSpec => []SkillTypeOK
<1>1. SkillInv => SkillTypeOK
  <2> SUFFICES ASSUME SkillInv PROVE SkillTypeOK
    OBVIOUS
  <2>1. SkillKinds
    BY DEF SkillInv
  <2>2. \A s \in Scopes2 : \A i \in DOMAIN rows[s] : rows[s][i].body \in 1..bodies
    <3>1. \A s \in Scopes2 : DOMAIN rows[s] = 1..Len(rows[s])
      BY <2>1 DEF SkillKinds
    <3> QED BY <2>1, <3>1 DEF SkillKinds
  <2>3. used \in [1..bodies -> Nat]
    BY <2>1, SkillNumbers DEF SkillKinds
  <2>4. ASSUME NEW p \in SkillOps
        PROVE  /\ pending[p].does \in {"nothing", "save", "use", "promote", "rollback", "rm"}
               /\ pending[p].row.body \in 0..bodies /\ pending[p].at \in 0..MaxRows
    <3>1. pending[p] \in PendingRow /\ pending[p].at <= MaxRows /\ bodies \in Nat
      BY <2>1, SkillNumbers DEF SkillKinds
    <3>2. CASE Waiting(p)
      BY <2>1, <3>1, <3>2, SkillNumbers DEF SkillKinds, PendingRow
    <3>3. CASE ~Waiting(p)
      <4>1. pending[p] = Free /\ Free.row.body = 0
        BY <2>1, <3>3 DEF SkillKinds, Free, NoRow
      <4> QED BY <3>1, <4>1, SkillNumbers DEF PendingRow
    <3> QED BY <3>2, <3>3
  <2> QED BY <2>1, <2>2, <2>3, <2>4 DEF SkillKinds, SkillTypeOK
<1> QED BY <1>1, SkillInvariance, PTL

\* A skill that fires has the uses that promotion asks for, none of them flagged unless
\* uses overlapped or a rollback brought it back, for any number of operations and rows.
THEOREM FiresProvenAlways == SkillSpec => []FiresProven
<1>1. SkillInv => FiresProven
  <2> SUFFICES ASSUME SkillInv, Fires # NoRow
               PROVE  used[Fires.body] >= Threshold /\ (Fires.body \in tainted => Fires.body \in exempt)
    BY DEF FiresProven
  <2>1. SkillKinds /\ Counted /\ Promoted /\ Stopped
    BY DEF SkillInv
  <2>2. \A s \in Scopes2 : \A i \in 1..Len(rows[s]) :
           rows[s][i].state # "quarantined" => used[rows[s][i].body] >= Threshold
    BY <2>1, RowsAreRows, SkillNumbers DEF Counted, Counts
  <2>3. \A b : WasActive(b) => (b \in tainted => b \in exempt)
    BY <2>1 DEF Stopped, WasActive
  <2>4. CASE Latest("project").state = "active"
    <3>1. Fires = Latest("project") /\ Latest("project") # NoRow
      BY <2>4 DEF Fires, NoRow
    <3>2. PICK k \in 1..Len(Notes) : Fires = Notes[k] /\ ~Notes[k].tombstone
      BY <2>1, <3>1, LatestRow, SkillNumbers DEF Notes
    <3>3. WasActive(Fires.body)
      BY <2>4, <3>1, <3>2 DEF WasActive, Shows
    <3> QED BY <2>2, <2>3, <2>4, <3>1, <3>2, <3>3, SkillNumbers DEF Notes
  <2>5. CASE Latest("project").state # "active"
    <3>1. Fires = Latest("global") /\ Latest("global") # NoRow /\ Latest("global").state = "global"
      BY <2>5 DEF Fires, NoRow
    <3>2. PICK k \in 1..Len(rows["global"]) : Fires = rows["global"][k]
      BY <2>1, <3>1, LatestRow, SkillNumbers
    <3>3. WasActive(Fires.body)
      BY <2>1, <3>2 DEF Promoted
    <3> QED BY <2>2, <2>3, <3>1, <3>2, <3>3, SkillNumbers
  <2> QED BY <2>4, <2>5
<1> QED BY <1>1, SkillInvariance, PTL

-----------------------------------------------------------------------------
(* StyleEdits: ResetRestores.  The oldest edit knows the value from before,  *)
(* an undo takes back the latest one, and a reset that has gone through all  *)
(* of them has put that oldest value back.                                   *)

\* The operation is under way.
Editing(o) == editing[o].does # "nothing"

\* A recorded edit as it can be.
EditKinds == [page : StylePages, method : {"setStyleTexts", "inline"}, old : Values \cup {0}]

\* An operation as it can be.
OpKinds == [does : {"nothing", "read", "write", "undo", "reset"}, page : StylePages \cup {0},
            value : Values \cup {0}, old : Values \cup {0}, at : Nat]

\* The kinds of the variables.
StyleKinds ==
  /\ inline \in [StylePages -> Values \cup {0}] /\ sheet \in [StylePages -> Values \cup {0}]
  /\ edits \in Seq(EditKinds)
  /\ editing \in [StyleOps -> OpKinds]
  /\ \A o \in StyleOps : Editing(o) => editing[o].page \in StylePages
  /\ \A o \in StyleOps : editing[o].does \in {"read", "write"} => editing[o].value # 0
  /\ before \in [StylePages -> Values] /\ disturbed \in BOOLEAN

\* One operation is under way.
OneEditAtATime == \A o, q \in StyleOps : Editing(o) /\ Editing(q) => o = q

\* The history is of one page, and so is the operation.
OnePage ==
  /\ \A i \in 1..Len(edits) : edits[i].page = edits[1].page
  /\ \A o \in StyleOps : Editing(o) /\ edits # <<>> => editing[o].page = edits[1].page

\* The oldest edit has the value from before; the pages that are not edited show theirs.
Known ==
  /\ edits # <<>> => edits[1].old = before[edits[1].page]
  /\ \A p \in StylePages : edits = <<>> \/ p # edits[1].page => Shown(p) = before[p]
  /\ \A o \in StyleOps :
       editing[o].does = "write" /\ edits = <<>> => editing[o].old = before[editing[o].page]

\* An undo takes back the latest edit; a reset that is through them has restored the page.
WorkingBack ==
  \A o \in StyleOps :
    /\ editing[o].does = "undo" =>
         /\ edits # <<>> /\ editing[o].at = Len(edits) /\ editing[o].value = edits[Len(edits)].old
         /\ editing[o].old = 1 => inline[editing[o].page] = 0
    /\ editing[o].does = "reset" =>
         /\ edits # <<>> /\ editing[o].at <= Len(edits)
         /\ editing[o].at = 0 => Shown(editing[o].page) = before[editing[o].page]

\* What holds until operations overlap, an edited page navigates or another is edited.
Undisturbed == OneEditAtATime /\ OnePage /\ Known /\ WorkingBack

\* The inductive invariant.
StyleInv == StyleKinds /\ (~disturbed => Undisturbed)

\* The bounds are numbers, and zero is no value.
LEMMA StyleNumbers ==
  /\ MaxValue \in Nat \ {0} /\ MaxEdits \in Nat /\ StylePages # {}
  /\ 1 \in Values /\ 0 \notin Values
BY StyleAssumption DEF Values

\* What a page shows: its own declaration before that of the sheet.
LEMMA ShownIs ==
  ASSUME StyleKinds, NEW p \in StylePages
  PROVE  /\ Shown(p) \in Values
         /\ inline[p] # 0 => Shown(p) = inline[p]
         /\ inline[p] = 0 /\ sheet[p] # 0 => Shown(p) = sheet[p]
         /\ inline[p] = 0 /\ sheet[p] = 0 => Shown(p) = 1
BY StyleNumbers DEF StyleKinds, Shown

\* The operations that begin, and their later stages, are operations.
LEMMA OpKindsAre ==
  /\ Waits \in OpKinds /\ Waits.does = "nothing" /\ Waits.at = 0 /\ Waits.old = 0
  /\ \A p \in StylePages, v \in Values :
       [Waits EXCEPT !.does = "read", !.page = p, !.value = v] \in OpKinds
  /\ \A p \in StylePages, i \in Nat, v \in Values \cup {0}, l \in {0, 1} :
       [Waits EXCEPT !.does = "undo", !.page = p, !.at = i, !.value = v, !.old = l] \in OpKinds
  /\ \A p \in StylePages, i \in Nat :
       [Waits EXCEPT !.does = "reset", !.page = p, !.at = i] \in OpKinds
  /\ \A e \in OpKinds, v \in Values \cup {0} : [e EXCEPT !.does = "write", !.old = v] \in OpKinds
  /\ \A e \in OpKinds, i \in Nat : [e EXCEPT !.at = i] \in OpKinds
BY StyleNumbers DEF OpKinds, Waits

\* A step moves one operation.
LEMMA OtherOps ==
  ASSUME StyleKinds, NEW o \in StyleOps, NEW to \in OpKinds,
         editing' = [editing EXCEPT ![o] = to]
  PROVE  /\ editing'[o] = to /\ editing' \in [StyleOps -> OpKinds]
         /\ \A q \in StyleOps \ {o} : editing'[q] = editing[q]
BY DEF StyleKinds

\* It keeps the kinds of all of them.
LEMMA OpsKept ==
  ASSUME StyleKinds, NEW o \in StyleOps, NEW to \in OpKinds,
         editing' = [editing EXCEPT ![o] = to],
         to.does = "nothing" \/ to.page \in StylePages,
         to.does \in {"read", "write"} => to.value # 0
  PROVE  /\ editing' \in [StyleOps -> OpKinds]
         /\ \A q \in StyleOps : Editing(q)' => editing'[q].page \in StylePages
         /\ \A q \in StyleOps : editing'[q].does \in {"read", "write"} => editing'[q].value # 0
<1>1. editing'[o] = to /\ editing' \in [StyleOps -> OpKinds]
      /\ \A q \in StyleOps \ {o} : editing'[q] = editing[q]
  BY OtherOps
<1>2. ASSUME NEW q \in StyleOps
      PROVE  /\ Editing(q)' => editing'[q].page \in StylePages
             /\ editing'[q].does \in {"read", "write"} => editing'[q].value # 0
  <2>1. CASE q = o
    BY <1>1, <2>1 DEF Editing
  <2>2. CASE q # o
    BY <1>1, <2>2 DEF Editing, StyleKinds
  <2> QED BY <2>1, <2>2
<1> QED BY <1>1, <1>2

\* The fields of an operation.
LEMMA OpIs ==
  ASSUME StyleKinds, NEW o \in StyleOps
  PROVE  /\ editing[o] \in OpKinds /\ editing[o].old \in Values \cup {0}
         /\ editing[o].value \in Values \cup {0}
         /\ editing[o].at \in Nat
         /\ editing[o].does \in {"nothing", "read", "write", "undo", "reset"}
         /\ Editing(o) => editing[o].page \in StylePages
BY DEF StyleKinds, OpKinds

\* The history is a sequence of edits.
LEMMA EditsAre ==
  ASSUME StyleKinds
  PROVE  /\ Len(edits) \in Nat /\ DOMAIN edits = 1..Len(edits)
         /\ edits = <<>> <=> Len(edits) = 0
         /\ \A i \in 1..Len(edits) : /\ edits[i] \in EditKinds /\ edits[i].page \in StylePages
                                     /\ edits[i].old \in Values \cup {0}
<1>1. edits \in Seq(EditKinds)
  BY DEF StyleKinds
<1>2. Len(edits) \in Nat /\ DOMAIN edits = 1..Len(edits)
  BY <1>1
<1>3. edits = <<>> <=> Len(edits) = 0
  BY <1>1, EmptySeq
<1>4. \A i \in 1..Len(edits) : edits[i] \in EditKinds
  BY <1>1
<1> QED BY <1>2, <1>3, <1>4 DEF EditKinds

\* Taking one element out of a sequence keeps the others, and the first unless it is the one.
LEMMA RemovedAt ==
  ASSUME NEW S, NEW s \in Seq(S), NEW i \in 1..Len(s)
  PROVE  /\ RemoveAt(s, i) \in Seq(S) /\ Len(RemoveAt(s, i)) = Len(s) - 1
         /\ i > 1 => RemoveAt(s, i)[1] = s[1]
         /\ \A j \in 1..(Len(s) - 1) : RemoveAt(s, i)[j] = s[j] \/ RemoveAt(s, i)[j] = s[j + 1]
<1> DEFINE a == SubSeq(s, 1, i - 1)
           b == SubSeq(s, i + 1, Len(s))
           n == Len(s)
<1>1. n \in Nat /\ i \in Nat /\ i >= 1 /\ i <= n /\ i - 1 \in Nat /\ n - i \in Nat
  OBVIOUS
<1>2. a \in Seq(S) /\ Len(a) = i - 1 /\ \A j \in 1..(i - 1) : a[j] = s[j]
  OBVIOUS
<1>3. b \in Seq(S) /\ Len(b) = n - i /\ \A j \in 1..(n - i) : b[j] = s[i + j]
  OBVIOUS
<1>4. RemoveAt(s, i) = a \o b
  BY DEF RemoveAt
<1> HIDE DEF a, b, n
<1> DEFINE r == a \o b
<1>5. r \in Seq(S) /\ Len(r) = Len(a) + Len(b)
      /\ (\A j \in 1..(Len(a) + Len(b)) : r[j] = IF j <= Len(a) THEN a[j] ELSE b[j - Len(a)])
  BY <1>2, <1>3, ConcatProperties
<1> HIDE DEF r
<1>6. Len(r) = n - 1
  BY <1>1, <1>2, <1>3, <1>5
<1>7. \A j \in 1..(n - 1) : (j <= i - 1 => r[j] = s[j]) /\ (~(j <= i - 1) => r[j] = s[j + 1])
  <2> TAKE j \in 1..(n - 1)
  <2>1. CASE j <= i - 1
    <3>1. j \in 1..(i - 1) /\ j \in 1..((i - 1) + (n - i))
      BY <1>1, <2>1
    <3> QED BY <1>2, <1>3, <1>5, <2>1, <3>1
  <2>2. CASE ~(j <= i - 1)
    <3>1. j - (i - 1) \in 1..(n - i) /\ j \in 1..((i - 1) + (n - i)) /\ i + (j - (i - 1)) = j + 1
      BY <1>1, <2>2
    <3>2. r[j] = b[j - (i - 1)]
      BY <1>2, <1>3, <1>5, <2>2, <3>1
    <3>3. b[j - (i - 1)] = s[i + (j - (i - 1))]
      BY <1>3, <3>1
    <3> QED BY <2>2, <3>1, <3>2, <3>3
  <2> QED BY <2>1, <2>2
<1>8. \A j \in 1..(n - 1) : r[j] = s[j] \/ r[j] = s[j + 1]
  BY <1>7
<1>9. i > 1 => r[1] = s[1]
  <2> SUFFICES ASSUME i > 1 PROVE r[1] = s[1]
    OBVIOUS
  <2>1. 1 \in 1..(n - 1) /\ 1 <= i - 1
    BY <1>1
  <2> QED BY <1>7, <2>1
<1> QED BY <1>4, <1>5, <1>6, <1>8, <1>9 DEF r, n

\* A declaration changes one page, in its style or in its sheet.
LEMMA DeclareKinds ==
  ASSUME StyleKinds, NEW p \in StylePages, NEW method, NEW v \in Values \cup {0}, Declare(p, method, v)
  PROVE  /\ inline' \in [StylePages -> Values \cup {0}] /\ sheet' \in [StylePages -> Values \cup {0}]
         /\ \A q \in StylePages \ {p} : inline'[q] = inline[q] /\ sheet'[q] = sheet[q]
         /\ method # "setStyleTexts" => inline'[p] = v
         /\ method = "setStyleTexts" => sheet'[p] = v /\ inline'[p] = inline[p]
BY DEF StyleKinds, Declare

\* Every step keeps the kinds.
LEMMA StyleKindsKept ==
  ASSUME StyleKinds, StyleNext
  PROVE  StyleKinds'
<1>1. disturbed' \in BOOLEAN
  BY Zenon DEF StyleKinds, StyleNext, StyleNavigates, ReadComputed, WriteStyle, ModifyFails, UndoEnds,
     ResetStep, ResetEnds, Reset, ModifyStyle, Undo, Disturbed, Overlaps
<1>2. ASSUME NEW p \in StylePages, StyleNavigates(p) PROVE StyleKinds'
  <2>1. inline' \in [StylePages -> Values \cup {0}] /\ sheet' \in [StylePages -> Values \cup {0}]
    BY <1>2, StyleNumbers DEF StyleKinds, StyleNavigates
  <2> QED BY <1>1, <1>2, <2>1 DEF StyleKinds, StyleNavigates, Editing
<1>3. ASSUME NEW o \in StyleOps, NEW p \in StylePages, NEW v \in Values, ModifyStyle(o, p, v)
      PROVE  StyleKinds'
  <2> DEFINE to == [Waits EXCEPT !.does = "read", !.page = p, !.value = v]
  <2>1. to \in OpKinds /\ to.page = p /\ to.value = v
    BY OpKindsAre DEF Waits
  <2>2. editing' = [editing EXCEPT ![o] = to]
    BY <1>3 DEF ModifyStyle, Begins
  <2> HIDE DEF to
  <2>3. v # 0
    BY StyleNumbers
  <2> QED BY <1>1, <1>3, <2>1, <2>2, <2>3, OpsKept DEF StyleKinds, ModifyStyle
<1>4. ASSUME NEW o \in StyleOps, ReadComputed(o) PROVE StyleKinds'
  <2>1. PICK old \in {Shown(editing[o].page), 0} :
          editing' = [editing EXCEPT ![o].does = "write", ![o].old = old]
    BY <1>4 DEF ReadComputed
  <2>2. editing[o] \in OpKinds /\ editing[o].page \in StylePages /\ editing[o].value # 0
    BY <1>4, OpIs DEF ReadComputed, Editing, StyleKinds
  <2>3. old \in Values \cup {0}
    BY <2>1, <2>2, ShownIs
  <2> DEFINE to == [editing[o] EXCEPT !.does = "write", !.old = old]
  <2>4. to \in OpKinds
    BY <2>2, <2>3, OpKindsAre
  <2>5. to.page = editing[o].page /\ to.value = editing[o].value
    BY <2>2 DEF OpKinds
  <2>6. editing' = [editing EXCEPT ![o] = to]
    BY <2>1 DEF StyleKinds
  <2> HIDE DEF to
  <2> QED BY <1>1, <1>4, <2>2, <2>4, <2>5, <2>6, OpsKept DEF StyleKinds, ReadComputed
<1>5. ASSUME NEW o \in StyleOps, WriteStyle(o) PROVE StyleKinds'
  <2>1. PICK method \in {"setStyleTexts", "inline"} :
          /\ Declare(editing[o].page, method, editing[o].value)
          /\ edits' = Append(edits, Edit(editing[o].page, method, editing[o].old))
    BY <1>5 DEF WriteStyle
  <2>2. /\ editing[o].page \in StylePages /\ editing[o].value \in Values \cup {0}
        /\ editing[o].old \in Values \cup {0}
    BY <1>5, OpIs DEF WriteStyle, Editing
  <2>3. inline' \in [StylePages -> Values \cup {0}] /\ sheet' \in [StylePages -> Values \cup {0}]
    BY <2>1, <2>2, DeclareKinds
  <2>4. Edit(editing[o].page, method, editing[o].old) \in EditKinds
    BY <2>2 DEF Edit, EditKinds
  <2>5. edits' \in Seq(EditKinds)
    BY <2>1, <2>4 DEF StyleKinds
  <2>6. editing' = [editing EXCEPT ![o] = Waits]
    BY <1>5 DEF WriteStyle
  <2>7. Waits \in OpKinds /\ Waits.does = "nothing"
    BY OpKindsAre
  <2> QED BY <1>1, <1>5, <2>3, <2>5, <2>6, <2>7, OpsKept DEF StyleKinds, WriteStyle
<1>6. ASSUME NEW o \in StyleOps, ModifyFails(o) PROVE StyleKinds'
  <2>1. Waits \in OpKinds /\ Waits.does = "nothing"
    BY OpKindsAre
  <2>2. editing' = [editing EXCEPT ![o] = Waits]
    BY <1>6 DEF ModifyFails
  <2> QED BY <1>1, <1>6, <2>1, <2>2, OpsKept DEF StyleKinds, ModifyFails
<1>7. ASSUME NEW o \in StyleOps, UndoEnds(o) PROVE StyleKinds'
  <2>1. PICK method \in {"setStyleTexts", "inline"} :
          Declare(editing[o].page, method, editing[o].value)
    BY <1>7 DEF UndoEnds
  <2>2. editing[o].page \in StylePages /\ editing[o].value \in Values \cup {0}
    BY <1>7, OpIs DEF UndoEnds, Editing
  <2>3. inline' \in [StylePages -> Values \cup {0}] /\ sheet' \in [StylePages -> Values \cup {0}]
    BY <2>1, <2>2, DeclareKinds
  <2>4. edits' \in Seq(EditKinds)
    <3>1. edits \in Seq(EditKinds) /\ DOMAIN edits = 1..Len(edits)
      BY EditsAre DEF StyleKinds
    <3>2. editing[o].at \in 1..Len(edits) => RemoveAt(edits, editing[o].at) \in Seq(EditKinds)
      BY <3>1, RemovedAt
    <3> QED BY <1>7, <3>1, <3>2 DEF UndoEnds
  <2>5. Waits \in OpKinds /\ Waits.does = "nothing"
    BY OpKindsAre
  <2>6. editing' = [editing EXCEPT ![o] = Waits]
    BY <1>7 DEF UndoEnds
  <2> QED BY <1>1, <1>7, <2>3, <2>4, <2>5, <2>6, OpsKept DEF StyleKinds, UndoEnds
<1>8. ASSUME NEW o \in StyleOps, ResetStep(o) PROVE StyleKinds'
  <2> DEFINE i == editing[o].at
             p == editing[o].page
  <2>1. /\ editing[o].does = "reset" /\ i > 0 /\ UNCHANGED <<sheet, edits, begun, before, disturbed>>
        /\ IF i \in DOMAIN edits
           THEN inline' = [inline EXCEPT ![p] = edits[i].old] /\ editing' = [editing EXCEPT ![o].at = i - 1]
           ELSE editing' = [editing EXCEPT ![o] = Waits] /\ UNCHANGED inline
    BY <1>8 DEF ResetStep, Takes
  <2>2. p \in StylePages /\ i \in Nat /\ editing[o] \in OpKinds
    BY <2>1, OpIs DEF Editing
  <2>3. CASE i \in DOMAIN edits
    <3> DEFINE to == [editing[o] EXCEPT !.at = i - 1]
    <3>1. to \in OpKinds
      <4>1. i - 1 \in Nat
        BY <2>1, <2>2
      <4> QED BY <2>2, <4>1, OpKindsAre
    <3>2. to.page = p /\ to.does = "reset"
      BY <2>1, <2>2 DEF OpKinds
    <3>3. editing' = [editing EXCEPT ![o] = to]
      BY <2>1, <2>3 DEF StyleKinds
    <3> HIDE DEF to
    <3>4. inline' \in [StylePages -> Values \cup {0}]
      BY <2>1, <2>2, <2>3, EditsAre DEF StyleKinds
    <3> QED BY <1>1, <2>1, <2>2, <3>1, <3>2, <3>3, <3>4, OpsKept DEF StyleKinds
  <2>4. CASE i \notin DOMAIN edits
    <3>1. Waits \in OpKinds /\ Waits.does = "nothing"
      BY OpKindsAre
    <3> QED BY <1>1, <2>1, <2>4, <3>1, OpsKept DEF StyleKinds
  <2> QED BY <2>3, <2>4
<1>9. ASSUME NEW o \in StyleOps, ResetEnds(o) PROVE StyleKinds'
  <2>1. Waits \in OpKinds /\ Waits.does = "nothing"
    BY OpKindsAre
  <2>2. before' \in [StylePages -> Values]
    BY <1>9, ShownIs DEF ResetEnds
  <2>3. editing' = [editing EXCEPT ![o] = Waits] /\ UNCHANGED <<inline, sheet>> /\ edits' = <<>>
    BY <1>9 DEF ResetEnds
  <2>4. edits' \in Seq(EditKinds)
    BY <2>3
  <2> QED BY <1>1, <2>1, <2>2, <2>3, <2>4, OpsKept DEF StyleKinds
<1>10. ASSUME NEW o \in StyleOps, NEW p \in StylePages, Reset(o, p) PROVE StyleKinds'
  <2> DEFINE to == [Waits EXCEPT !.does = "reset", !.page = p, !.at = Len(edits)]
  <2>1. to \in OpKinds /\ to.page = p /\ to.does = "reset"
    BY OpKindsAre, EditsAre DEF Waits
  <2>2. editing' = [editing EXCEPT ![o] = to]
    BY <1>10 DEF Reset, Begins
  <2> HIDE DEF to
  <2> QED BY <1>1, <1>10, <2>1, <2>2, OpsKept DEF StyleKinds, Reset
<1>11. ASSUME NEW o \in StyleOps, NEW p \in StylePages, NEW i \in 1..MaxEdits, Undo(o, p, i)
       PROVE  StyleKinds'
  <2> DEFINE l == IF edits[i].method = "inline" THEN 0 ELSE 1
             to == [Waits EXCEPT !.does = "undo", !.page = p, !.at = i, !.value = edits[i].old, !.old = l]
  <2>1. i \in Nat /\ edits[i].old \in Values \cup {0} /\ l \in {0, 1}
    BY <1>11, EditsAre DEF Undo
  <2>2. to \in OpKinds
    BY <2>1, OpKindsAre
  <2>3. to.page = p /\ to.does = "undo"
    BY DEF Waits
  <2>4. editing' = [editing EXCEPT ![o] = to]
    BY <1>11 DEF Undo, Begins
  <2> HIDE DEF to
  <2> QED BY <1>1, <1>11, <2>2, <2>3, <2>4, OpsKept DEF StyleKinds, Undo
<1> QED BY <1>2, <1>3, <1>4, <1>5, <1>6, <1>7, <1>8, <1>9, <1>10, <1>11 DEF StyleNext

\* The invariant holds at first.
LEMMA StyleInitInv == StyleInit => StyleInv
<1> SUFFICES ASSUME StyleInit PROVE StyleInv
  OBVIOUS
<1>1. StyleKinds
  <2>1. Waits \in OpKinds /\ Waits.does = "nothing"
    BY OpKindsAre
  <2>2. edits \in Seq(EditKinds)
    BY DEF StyleInit
  <2>3. inline \in [StylePages -> Values \cup {0}] /\ sheet \in [StylePages -> Values \cup {0}]
    BY StyleNumbers DEF StyleInit
  <2>4. disturbed \in BOOLEAN
    BY Zenon DEF StyleInit
  <2> QED BY <2>1, <2>2, <2>3, <2>4, StyleNumbers DEF StyleInit, StyleKinds, Editing
<1>2. \A o \in StyleOps : editing[o].does = "nothing"
  BY OpKindsAre DEF StyleInit
<1>3. Len(edits) = 0 /\ edits = <<>>
  BY DEF StyleInit
<1>4. \A p \in StylePages : Shown(p) = before[p]
  <2> TAKE p \in StylePages
  <2>1. inline[p] \in {0, 1} /\ sheet[p] \in {0, 1} /\ before[p] = 1
    BY DEF StyleInit
  <2> QED BY <1>1, <2>1, ShownIs
<1>5. OneEditAtATime /\ OnePage /\ Known /\ WorkingBack
  BY <1>2, <1>3, <1>4 DEF OneEditAtATime, OnePage, Known, WorkingBack, Editing
<1> QED BY <1>1, <1>5 DEF StyleInv, Undisturbed

\* Besides one operation all others wait.
LEMMA OnlyOp ==
  ASSUME StyleKinds, OneEditAtATime, NEW o \in StyleOps, Editing(o)
  PROVE  \A q \in StyleOps \ {o} : editing[q].does = "nothing"
BY DEF OneEditAtATime, Editing

\* Every step that disturbs nothing keeps what holds undisturbed.
LEMMA StyleCalmKept ==
  ASSUME StyleKinds, StyleKinds', StyleNext, ~disturbed', ~disturbed => Undisturbed
  PROVE  Undisturbed'
<1>1. ASSUME NEW p \in StylePages, StyleNavigates(p) PROVE Undisturbed'
  <2>1. /\ inline' = [inline EXCEPT ![p] = 0] /\ sheet' = [sheet EXCEPT ![p] = IF @ # 0 THEN 1 ELSE 0]
        /\ ~disturbed /\ before[p] = 1 /\ UNCHANGED <<edits, editing, before>>
    BY <1>1 DEF StyleNavigates, Disturbed
  <2>2. OneEditAtATime /\ OnePage /\ Known /\ WorkingBack
    BY <2>1 DEF Undisturbed
  <2>3. inline'[p] = 0 /\ (sheet'[p] = 0 \/ sheet'[p] = 1)
    BY <2>1 DEF StyleKinds
  <2>4. Shown(p)' = before'[p]
    BY <2>1, <2>3 DEF Shown
  <2>5. \A q \in StylePages \ {p} : Shown(q)' = Shown(q) /\ inline'[q] = inline[q]
    BY <2>1 DEF Shown, StyleKinds
  <2>6. OneEditAtATime' /\ OnePage'
    BY <2>1, <2>2 DEF OneEditAtATime, OnePage, Editing
  <2>7. Known'
    BY <2>1, <2>2, <2>4, <2>5 DEF Known
  <2>8. WorkingBack'
    <3> SUFFICES ASSUME NEW o \in StyleOps
                 PROVE  /\ editing'[o].does = "undo" =>
                             /\ edits' # <<>> /\ editing'[o].at = Len(edits')
                             /\ editing'[o].value = edits'[Len(edits')].old
                             /\ editing'[o].old = 1 => inline'[editing'[o].page] = 0
                        /\ editing'[o].does = "reset" =>
                             /\ edits' # <<>> /\ editing'[o].at <= Len(edits')
                             /\ editing'[o].at = 0 => Shown(editing[o].page)' = before'[editing'[o].page]
      BY <2>1 DEF WorkingBack, Shown
    <3>1. Editing(o) => editing[o].page \in StylePages
      BY OpIs
    <3> QED BY <2>1, <2>2, <2>3, <2>4, <2>5, <3>1 DEF WorkingBack, Editing
  <2> QED BY <2>6, <2>7, <2>8 DEF Undisturbed
<1>2. ASSUME NEW o \in StyleOps, NEW to \in OpKinds, to.does \in {"read", "undo", "reset"},
             Begins(o, to), ~Overlaps(o), ~disturbed, ~ElsewhereTo(to.page),
             UNCHANGED <<inline, sheet, edits, before>>,
             to.does \in {"undo", "reset"} => edits # <<>> /\ to.at = Len(edits),
             to.does = "undo" => to.value = edits[Len(edits)].old /\ (to.old = 1 => inline[to.page] = 0)
      PROVE  Undisturbed'
  <2>1. editing'[o] = to /\ \A q \in StyleOps \ {o} : editing'[q] = editing[q] /\ editing[q].does = "nothing"
    BY <1>2, OtherOps DEF Begins, Overlaps
  <2>2. OneEditAtATime /\ OnePage /\ Known /\ WorkingBack
    BY <1>2 DEF Undisturbed
  <2>3. \A q \in StyleOps : q # o => editing'[q].does = "nothing"
    BY <2>1
  <2>4. OneEditAtATime'
    BY <2>3 DEF OneEditAtATime, Editing
  <2>5. edits # <<>> => to.page = edits[1].page
    <3>1. edits # <<>> => 1 \in DOMAIN edits
      BY EditsAre
    <3>2. edits # <<>> => edits[1] \in Range(edits)
      BY <3>1 DEF Range
    <3> QED BY <1>2, <3>2 DEF ElsewhereTo
  <2>6. OnePage'
    BY <1>2, <2>1, <2>2, <2>3, <2>5 DEF OnePage, Editing
  <2>7. Known'
    <3>1. \A p \in StylePages : Shown(p)' = Shown(p)
      BY <1>2 DEF Shown
    <3>2. \A q \in StyleOps : editing'[q].does # "write"
      BY <1>2, <2>1, <2>3
    <3> QED BY <1>2, <2>2, <3>1, <3>2 DEF Known
  <2>8. WorkingBack'
    <3>1. edits # <<>> => Len(edits) # 0 /\ Len(edits) \in Nat
      BY EditsAre
    <3> SUFFICES ASSUME NEW q \in StyleOps
                 PROVE  /\ editing'[q].does = "undo" =>
                             /\ edits' # <<>> /\ editing'[q].at = Len(edits')
                             /\ editing'[q].value = edits'[Len(edits')].old
                             /\ editing'[q].old = 1 => inline'[editing'[q].page] = 0
                        /\ editing'[q].does = "reset" =>
                             /\ edits' # <<>> /\ editing'[q].at <= Len(edits')
                             /\ editing'[q].at # 0
      BY DEF WorkingBack
    <3>2. CASE q = o
      BY <1>2, <2>1, <3>1, <3>2
    <3>3. CASE q # o
      BY <2>3, <3>3
    <3> QED BY <3>2, <3>3
  <2> QED BY <2>4, <2>6, <2>7, <2>8 DEF Undisturbed
<1>3. ASSUME NEW o \in StyleOps, NEW p \in StylePages, NEW v \in Values, ModifyStyle(o, p, v)
      PROVE  Undisturbed'
  <2> DEFINE to == [Waits EXCEPT !.does = "read", !.page = p, !.value = v]
  <2>1. to \in OpKinds /\ to.does = "read" /\ to.page = p
    BY OpKindsAre DEF Waits
  <2>2. Begins(o, to) /\ UNCHANGED <<inline, sheet, edits, before>> /\ Disturbed(Overlaps(o) \/ ElsewhereTo(p))
    BY <1>3 DEF ModifyStyle
  <2> HIDE DEF to
  <2>3. ~Overlaps(o) /\ ~ElsewhereTo(to.page) /\ ~disturbed
    BY <2>1, <2>2 DEF Disturbed
  <2> QED BY <1>2, <2>1, <2>2, <2>3
<1>4. ASSUME NEW o \in StyleOps, ReadComputed(o) PROVE Undisturbed'
  <2>1. PICK old \in {Shown(editing[o].page), 0} :
          /\ editing' = [editing EXCEPT ![o].does = "write", ![o].old = old]
          /\ Disturbed(old = 0)
    BY <1>4 DEF ReadComputed
  <2>2. ~disturbed /\ old = Shown(editing[o].page)
    BY <2>1 DEF Disturbed
  <2>3. OneEditAtATime /\ OnePage /\ Known /\ WorkingBack
    BY <2>2 DEF Undisturbed
  <2>4. editing[o].page \in StylePages /\ Editing(o) /\ editing[o] \in OpKinds
    BY <1>4, OpIs DEF ReadComputed, Editing
  <2>5. \A q \in StyleOps : q # o => editing[q].does = "nothing"
    BY <2>3, <2>4, OnlyOp
  <2>6. /\ editing'[o].does = "write" /\ editing'[o].old = old /\ editing'[o].page = editing[o].page
        /\ \A q \in StyleOps : q # o => editing'[q].does = "nothing"
    BY <2>1, <2>4, <2>5 DEF StyleKinds, OpKinds
  <2>7. UNCHANGED <<inline, sheet, edits, before>>
    BY <1>4 DEF ReadComputed
  <2>8. OneEditAtATime' /\ OnePage'
    BY <2>3, <2>4, <2>6, <2>7 DEF OneEditAtATime, OnePage, Editing
  <2>9. Known'
    <3>1. \A p \in StylePages : Shown(p)' = Shown(p)
      BY <2>7 DEF Shown
    <3> QED BY <2>2, <2>3, <2>4, <2>6, <2>7, <3>1 DEF Known
  <2>10. WorkingBack'
    BY <2>6 DEF WorkingBack
  <2> QED BY <2>8, <2>9, <2>10 DEF Undisturbed
<1>5. ASSUME NEW o \in StyleOps, Editing(o), ~disturbed, editing' = [editing EXCEPT ![o] = Waits]
      PROVE  OneEditAtATime' /\ WorkingBack' /\ \A q \in StyleOps : editing'[q].does = "nothing"
  <2>1. OneEditAtATime
    BY <1>5 DEF Undisturbed
  <2>2. \A q \in StyleOps : q # o => editing[q].does = "nothing"
    BY <1>5, <2>1, OnlyOp
  <2>3. \A q \in StyleOps : editing'[q].does = "nothing"
    BY <1>5, <2>2, OtherOps, OpKindsAre
  <2> QED BY <2>3 DEF OneEditAtATime, WorkingBack, Editing
<1>6. ASSUME NEW o \in StyleOps, WriteStyle(o) PROVE Undisturbed'
  <2>1. PICK method \in {"setStyleTexts", "inline"} :
          /\ Declare(editing[o].page, method, editing[o].value)
          /\ edits' = Append(edits, Edit(editing[o].page, method, editing[o].old))
    BY <1>6 DEF WriteStyle
  <2>2. /\ Editing(o) /\ editing[o].does = "write" /\ editing' = [editing EXCEPT ![o] = Waits]
        /\ ~disturbed /\ before' = before
    BY <1>6 DEF WriteStyle, Editing
  <2>3. OneEditAtATime /\ OnePage /\ Known /\ WorkingBack
    BY <2>2 DEF Undisturbed
  <2> DEFINE p == editing[o].page
             e == Edit(p, method, editing[o].old)
  <2>4. p \in StylePages /\ editing[o].value \in Values \cup {0} /\ e \in EditKinds
        /\ e.page = p /\ e.old = editing[o].old
    BY <2>2, OpIs DEF Edit, EditKinds
  <2>5. OneEditAtATime' /\ WorkingBack' /\ \A q \in StyleOps : editing'[q].does = "nothing"
    BY <1>5, <2>2
  <2>6. /\ edits' # <<>> /\ Len(edits') = Len(edits) + 1 /\ edits'[Len(edits) + 1] = e
        /\ \A i \in 1..Len(edits) : edits'[i] = edits[i]
    <3>1. edits \in Seq(EditKinds) /\ edits' = Append(edits, e)
      BY <2>1 DEF StyleKinds
    <3> HIDE DEF e
    <3> QED BY <2>4, <3>1
  <2> HIDE DEF e
  <2>7. Len(edits) \in Nat
    BY EditsAre
  <2>8. edits'[1].page = p
    <3>1. CASE edits = <<>>
      BY <2>4, <2>6, <3>1
    <3>2. CASE edits # <<>>
      <4>1. 1 \in 1..Len(edits) /\ edits[1].page = p
        BY <2>2, <2>3, <3>2, EditsAre DEF OnePage
      <4> QED BY <2>6, <4>1
    <3> QED BY <3>1, <3>2
  <2>9. OnePage'
    <3>1. ASSUME NEW i \in 1..Len(edits') PROVE edits'[i].page = p
      <4>1. CASE i \in 1..Len(edits)
        <5>1. edits # <<>> /\ edits[i].page = edits[1].page
          BY <2>3, <4>1, EditsAre DEF OnePage
        <5>2. edits[1].page = p
          BY <2>2, <2>3, <5>1 DEF OnePage
        <5> QED BY <2>6, <4>1, <5>1, <5>2
      <4>2. CASE i \notin 1..Len(edits)
        BY <2>4, <2>6, <2>7, <4>2
      <4> QED BY <4>1, <4>2
    <3> QED BY <2>5, <2>8, <3>1 DEF OnePage, Editing
  <2>10. edits'[1].old = before[p]
    <3>1. CASE edits = <<>>
      BY <2>2, <2>3, <2>4, <2>6, <3>1 DEF Known
    <3>2. CASE edits # <<>>
      <4>1. 1 \in 1..Len(edits) /\ edits[1].page = p
        BY <2>2, <2>3, <3>2, EditsAre DEF OnePage
      <4> QED BY <2>3, <2>6, <3>2, <4>1 DEF Known
    <3> QED BY <3>1, <3>2
  <2>11. \A q \in StylePages : q # p => Shown(q)' = before[q]
    <3> TAKE q \in StylePages
    <3> SUFFICES ASSUME q # p PROVE Shown(q)' = before[q]
      OBVIOUS
    <3>1. inline'[q] = inline[q] /\ sheet'[q] = sheet[q]
      BY <2>1, <2>4, DeclareKinds
    <3>2. Shown(q)' = Shown(q)
      BY <3>1 DEF Shown
    <3>3. edits # <<>> => edits[1].page = p
      BY <2>2, <2>3 DEF OnePage
    <3> QED BY <2>3, <3>2, <3>3 DEF Known
  <2>12. Known'
    BY <2>2, <2>5, <2>6, <2>8, <2>10, <2>11 DEF Known
  <2> QED BY <2>5, <2>9, <2>12 DEF Undisturbed
<1>7. ASSUME NEW o \in StyleOps, ModifyFails(o) PROVE Undisturbed'
  <2>1. /\ Editing(o) /\ ~disturbed /\ editing' = [editing EXCEPT ![o] = Waits]
        /\ UNCHANGED <<inline, sheet, edits, before>>
    BY <1>7 DEF ModifyFails, Editing
  <2>2. OneEditAtATime' /\ WorkingBack' /\ \A q \in StyleOps : editing'[q].does = "nothing"
    BY <1>5, <2>1
  <2>3. \A p \in StylePages : Shown(p)' = Shown(p)
    BY <2>1 DEF Shown
  <2>4. OnePage /\ Known
    BY <2>1 DEF Undisturbed
  <2>5. OnePage' /\ Known'
    BY <2>1, <2>2, <2>3, <2>4 DEF OnePage, Known, Editing
  <2> QED BY <2>2, <2>5 DEF Undisturbed
<1>8. ASSUME NEW o \in StyleOps, NEW p \in StylePages, NEW i \in 1..MaxEdits, Undo(o, p, i)
      PROVE  Undisturbed'
  <2> DEFINE l == IF edits[i].method = "inline" THEN 0 ELSE 1
             to == [Waits EXCEPT !.does = "undo", !.page = p, !.at = i, !.value = edits[i].old, !.old = l]
  <2>1. /\ Begins(o, to) /\ UNCHANGED <<inline, sheet, edits, before>> /\ i \in DOMAIN edits
        /\ Disturbed(Overlaps(o) \/ i # Len(edits) \/ ElsewhereTo(p) \/ Shadowed(edits[i]))
    BY <1>8 DEF Undo
  <2>2. ~disturbed /\ ~Overlaps(o) /\ i = Len(edits) /\ ~ElsewhereTo(p) /\ ~Shadowed(edits[i])
    BY <2>1 DEF Disturbed
  <2>3. i \in Nat /\ i \in 1..Len(edits) /\ edits # <<>> /\ edits[i].old \in Values \cup {0} /\ l \in {0, 1}
        /\ edits[i] \in EditKinds
    BY <2>1, EditsAre
  <2>4. to \in OpKinds
    BY <2>3, OpKindsAre
  <2>5. to.does = "undo" /\ to.page = p /\ to.at = i /\ to.value = edits[i].old /\ to.old = l
    BY DEF Waits
  <2>6. edits[i].page = p
    <3>1. edits[i] \in Range(edits)
      BY <2>1 DEF Range
    <3> QED BY <2>2, <3>1 DEF ElsewhereTo
  <2>7. l = 1 => inline[p] = 0
    BY <2>2, <2>3, <2>6 DEF Shadowed, EditKinds
  <2> HIDE DEF to, l
  <2> QED BY <1>2, <2>1, <2>2, <2>3, <2>4, <2>5, <2>7
<1>9. ASSUME NEW o \in StyleOps, UndoEnds(o) PROVE Undisturbed'
  <2>0. PICK p \in StylePages : p = editing[o].page
    BY <1>9, OpIs DEF UndoEnds, Editing
  <2> DEFINE n == Len(edits)
  <2>1. PICK method \in {"inline"} \cup (IF editing[o].old = 1 THEN {"setStyleTexts"} ELSE {}) :
          Declare(p, method, editing[o].value)
    BY <1>9, <2>0 DEF UndoEnds
  <2>2. /\ Editing(o) /\ ~disturbed /\ editing[o].does = "undo"
        /\ editing' = [editing EXCEPT ![o] = Waits] /\ before' = before
        /\ edits' = IF editing[o].at \in DOMAIN edits THEN RemoveAt(edits, editing[o].at) ELSE edits
    BY <1>9 DEF UndoEnds, Editing
  <2>3. OneEditAtATime /\ OnePage /\ Known /\ WorkingBack
    BY <2>2 DEF Undisturbed
  <2>4. p \in StylePages /\ editing[o].value \in Values \cup {0}
    BY <2>2, OpIs
  <2>5. OneEditAtATime' /\ WorkingBack' /\ \A q \in StyleOps : editing'[q].does = "nothing"
    BY <1>5, <2>2
  <2>6. /\ edits # <<>> /\ editing[o].at = n /\ editing[o].value = edits[n].old
        /\ editing[o].old = 1 => inline[p] = 0
    BY <2>0, <2>2, <2>3 DEF WorkingBack
  <2>7. n \in Nat /\ n # 0 /\ DOMAIN edits = 1..n /\ n \in 1..n /\ 1 \in 1..n /\ edits \in Seq(EditKinds)
        /\ edits[1].page \in StylePages
    BY <2>6, EditsAre DEF StyleKinds
  <2>8. edits' = RemoveAt(edits, n)
    BY <2>2, <2>6, <2>7
  <2>9. /\ edits' \in Seq(EditKinds) /\ Len(edits') = n - 1
        /\ n > 1 => edits'[1] = edits[1]
    BY <2>7, <2>8, RemovedAt
  <2>10. \A j \in 1..(n - 1) : edits'[j] = edits[j] \/ edits'[j] = edits[j + 1]
    BY <2>7, <2>8, RemovedAt
  <2>11. edits[1].page = p /\ \A i \in 1..n : edits[i].page = p
    BY <2>0, <2>2, <2>3, <2>6, <2>7 DEF OnePage
  <2>12. \A q \in StylePages : q # p => Shown(q)' = before[q]
    <3> TAKE q \in StylePages
    <3> SUFFICES ASSUME q # p PROVE Shown(q)' = before[q]
      OBVIOUS
    <3>1. inline'[q] = inline[q] /\ sheet'[q] = sheet[q]
      BY <2>1, <2>4, DeclareKinds
    <3>2. Shown(q)' = Shown(q)
      BY <3>1 DEF Shown
    <3> QED BY <2>3, <2>11, <3>2 DEF Known
  <2> HIDE DEF n
  <2>13. OnePage'
    <3>1. ASSUME NEW i \in 1..Len(edits') PROVE edits'[i].page = p
      <4>1. i \in 1..(n - 1) /\ i \in 1..n /\ i + 1 \in 1..n
        BY <2>7, <2>9
      <4> QED BY <2>10, <2>11, <4>1
    <3>2. Len(edits') # 0 => edits'[1].page = p
      BY <2>7, <2>9, <3>1
    <3>3. \A i \in 1..Len(edits') : Len(edits') # 0
      BY <2>7, <2>9
    <3> QED BY <2>5, <3>1, <3>2, <3>3 DEF OnePage, Editing
  <2>14. Known'
    <3>1. CASE n = 1
      <4>1. edits' = <<>> /\ editing[o].value = before[p]
        <5>1. edits' = <<>>
          BY <2>9, <3>1, EmptySeq
        <5> QED BY <2>3, <2>6, <2>11, <3>1, <5>1 DEF Known
      <4>2. before[p] # 0 /\ before[p] \in Values
        BY <2>4, StyleNumbers DEF StyleKinds
      <4>3. Shown(p)' = before[p]
        <5>1. CASE method = "setStyleTexts"
          <6>1. sheet'[p] = before[p] /\ inline'[p] = 0
            BY <2>1, <2>4, <2>6, <4>1, <5>1, DeclareKinds
          <6> QED BY <4>2, <6>1 DEF Shown
        <5>2. CASE method # "setStyleTexts"
          <6>1. inline'[p] = before[p]
            BY <2>1, <2>4, <4>1, <5>2, DeclareKinds
          <6> QED BY <4>2, <6>1 DEF Shown
        <5> QED BY <5>1, <5>2
      <4> QED BY <2>2, <2>5, <2>12, <4>1, <4>3 DEF Known
    <3>2. CASE n # 1
      <4>1. n > 1 /\ Len(edits') # 0
        BY <2>7, <2>9, <3>2
      <4>2. edits' # <<>>
        BY <2>9, <4>1, EmptySeq
      <4> QED BY <2>2, <2>3, <2>5, <2>6, <2>9, <2>11, <2>12, <4>1, <4>2 DEF Known
    <3> QED BY <3>1, <3>2
  <2> QED BY <2>5, <2>13, <2>14 DEF Undisturbed
<1>10. ASSUME NEW o \in StyleOps, NEW p \in StylePages, Reset(o, p) PROVE Undisturbed'
  <2> DEFINE to == [Waits EXCEPT !.does = "reset", !.page = p, !.at = Len(edits)]
  <2>1. to \in OpKinds /\ to.page = p /\ to.does = "reset" /\ to.at = Len(edits)
    BY OpKindsAre, EditsAre DEF Waits
  <2>2. /\ Begins(o, to) /\ edits # <<>> /\ UNCHANGED <<inline, sheet, edits, before>>
        /\ Disturbed(Overlaps(o) \/ ElsewhereTo(p))
    BY <1>10 DEF Reset
  <2> HIDE DEF to
  <2>3. ~Overlaps(o) /\ ~ElsewhereTo(to.page) /\ ~disturbed
    BY <2>1, <2>2 DEF Disturbed
  <2> QED BY <1>2, <2>1, <2>2, <2>3
<1>11. ASSUME NEW o \in StyleOps, ResetStep(o) PROVE Undisturbed'
  <2>0. PICK p \in StylePages : p = editing[o].page
    BY <1>11, OpIs DEF ResetStep, Editing
  <2> DEFINE i == editing[o].at
  <2>1. /\ editing[o].does = "reset" /\ i > 0 /\ UNCHANGED <<sheet, edits, before>> /\ ~disturbed
        /\ i \in DOMAIN edits =>
             inline' = [inline EXCEPT ![p] = edits[i].old] /\ editing' = [editing EXCEPT ![o].at = i - 1]
    BY <1>11, <2>0 DEF ResetStep, Takes
  <2>2. OneEditAtATime /\ OnePage /\ Known /\ WorkingBack
    BY <2>1 DEF Undisturbed
  <2>3. p \in StylePages /\ i \in Nat /\ editing[o] \in OpKinds /\ Editing(o)
    BY <2>1, OpIs DEF Editing
  <2>4. edits # <<>> /\ i <= Len(edits) /\ Len(edits) \in Nat /\ DOMAIN edits = 1..Len(edits)
    BY <2>1, <2>2, EditsAre DEF WorkingBack
  <2>5. i \in 1..Len(edits)
    BY <2>1, <2>3, <2>4
  <2>6. inline' = [inline EXCEPT ![p] = edits[i].old] /\ editing' = [editing EXCEPT ![o].at = i - 1]
    BY <2>1, <2>4, <2>5
  <2>7. \A q \in StyleOps : q # o => editing[q].does = "nothing"
    BY <2>2, <2>3, OnlyOp
  <2>8. /\ editing'[o].does = "reset" /\ editing'[o].at = i - 1 /\ editing'[o].page = p
        /\ \A q \in StyleOps : q # o => editing'[q].does = "nothing"
    BY <2>0, <2>1, <2>3, <2>6, <2>7 DEF StyleKinds, OpKinds
  <2>9. edits[1].page = p
    BY <2>0, <2>2, <2>3, <2>4 DEF OnePage
  <2>10. \A q \in StylePages : q # p => Shown(q)' = before[q]
    <3> TAKE q \in StylePages
    <3> SUFFICES ASSUME q # p PROVE Shown(q)' = before[q]
      OBVIOUS
    <3>1. inline'[q] = inline[q] /\ sheet'[q] = sheet[q]
      BY <2>1, <2>3, <2>6 DEF StyleKinds
    <3>2. Shown(q)' = Shown(q)
      BY <3>1 DEF Shown
    <3> QED BY <2>2, <2>9, <3>2 DEF Known
  <2>11. i = 1 => Shown(p)' = before[p]
    <3> SUFFICES ASSUME i = 1 PROVE Shown(p)' = before[p]
      OBVIOUS
    <3>1. edits[i].old = before[p]
      BY <2>2, <2>4, <2>9 DEF Known
    <3>2. before[p] # 0
      BY <2>3, StyleNumbers DEF StyleKinds
    <3>3. inline'[p] = before[p]
      BY <2>3, <2>6, <3>1 DEF StyleKinds
    <3> QED BY <3>2, <3>3 DEF Shown
  <2>12. OneEditAtATime' /\ OnePage'
    <3>1. OneEditAtATime'
      BY <2>8 DEF OneEditAtATime, Editing
    <3>2. edits' = edits
      BY <2>1
    <3>3. OnePage'
      BY <2>2, <2>8, <2>9, <3>2 DEF OnePage, Editing
    <3> QED BY <3>1, <3>3
  <2>13. Known'
    BY <2>1, <2>2, <2>4, <2>8, <2>9, <2>10 DEF Known
  <2>14. WorkingBack'
    <3> HIDE DEF i
    <3>1. i - 1 <= Len(edits) /\ (i - 1 = 0 => i = 1)
      BY <2>3, <2>4
    <3>2. \A q \in StyleOps : editing'[q].does \in {"undo", "reset"} => q = o /\ editing'[q].does = "reset"
      BY <2>8
    <3>3. editing'[o].at = 0 => Shown(p)' = before[p]
      BY <2>8, <2>11, <3>1
    <3>4. Shown(editing[o].page)' = Shown(p)'
      BY <2>8 DEF Shown
    <3>5. editing'[o].at <= Len(edits') /\ edits' # <<>>
      BY <2>1, <2>4, <2>8, <3>1
    <3> QED BY <2>1, <2>8, <3>2, <3>3, <3>4, <3>5 DEF WorkingBack
  <2> QED BY <2>12, <2>13, <2>14 DEF Undisturbed
<1>12. ASSUME NEW o \in StyleOps, ResetEnds(o) PROVE Undisturbed'
  <2>1. /\ editing[o].does = "reset" /\ edits' = <<>> /\ editing' = [editing EXCEPT ![o] = Waits]
        /\ before' = [p \in StylePages |-> Shown(p)] /\ ~Overlaps(o) /\ UNCHANGED <<inline, sheet>>
    BY <1>12 DEF ResetEnds
  <2>2. \A q \in StyleOps : editing'[q].does = "nothing"
    BY <2>1, OtherOps, OpKindsAre DEF Overlaps
  <2>3. \A p \in StylePages : Shown(p)' = before'[p]
    BY <2>1 DEF Shown
  <2>4. Len(edits') = 0
    BY <2>1
  <2> QED BY <2>1, <2>2, <2>3, <2>4 DEF Undisturbed, OneEditAtATime, OnePage, Known, WorkingBack, Editing
<1> QED BY <1>1, <1>3, <1>4, <1>6, <1>7, <1>8, <1>9, <1>10, <1>11, <1>12 DEF StyleNext

\* Every step keeps the invariant.
LEMMA StyleStepKept == StyleInv /\ [StyleNext]_styleVars => StyleInv'
<1> SUFFICES ASSUME StyleInv, [StyleNext]_styleVars PROVE StyleInv'
  OBVIOUS
<1>1. CASE StyleNext
  BY <1>1, StyleKindsKept, StyleCalmKept DEF StyleInv
<1>2. CASE UNCHANGED styleVars
  BY <1>2 DEF styleVars, StyleInv, StyleKinds, Undisturbed, OneEditAtATime, OnePage, Known, WorkingBack, Editing, Shown
<1> QED BY <1>1, <1>2

\* The invariant holds throughout.
THEOREM StyleInvariance == StyleSpec => []StyleInv
<1> QED BY StyleInitInv, StyleStepKept, PTL DEF StyleSpec

\* Whatever empties an undisturbed history of edits, by undoing them one by one or with a
\* reset, leaves every page as it was before the first: for any number of edits and pages.
THEOREM ResetRestoresAlways == StyleSpec => ResetRestores
<1>1. StyleInv /\ StyleInv' /\ [StyleNext]_styleVars
        => [(edits # <<>> /\ edits' = <<>> /\ ~disturbed) => \A p \in StylePages : Shown(p)' = before[p]]_styleVars
  <2> SUFFICES ASSUME StyleInv, StyleInv', StyleNext, edits # <<>>, edits' = <<>>, ~disturbed
               PROVE  \A p \in StylePages : Shown(p)' = before[p]
    OBVIOUS
  <2>1. StyleKinds /\ Undisturbed /\ Known
    BY DEF StyleInv, Undisturbed
  <2>2. ASSUME NEW o \in StyleOps, ResetEnds(o) PROVE \A p \in StylePages : Shown(p)' = before[p]
    <3>1. editing[o].does = "reset" /\ editing[o].at = 0 /\ UNCHANGED <<inline, sheet>>
      BY <2>2 DEF ResetEnds
    <3>2. Shown(editing[o].page) = before[editing[o].page] /\ editing[o].page = edits[1].page
      BY <2>1, <3>1 DEF Undisturbed, WorkingBack, OnePage, Editing
    <3>3. \A p \in StylePages : Shown(p)' = Shown(p)
      BY <3>1 DEF Shown
    <3>4. ASSUME NEW p \in StylePages PROVE Shown(p) = before[p]
      <4>1. CASE p = edits[1].page
        BY <3>2, <4>1
      <4>2. CASE p # edits[1].page
        BY <2>1, <4>2 DEF Known
      <4> QED BY <4>1, <4>2
    <3> QED BY <3>3, <3>4
  <2>3. CASE ~\E o \in StyleOps : ResetEnds(o)
    <3>1. before' = before /\ ~disturbed'
      <4>1. \A o \in StyleOps : WriteStyle(o) => edits' # <<>>
        BY <2>1 DEF WriteStyle, StyleKinds
      <4>2. \A p \in StylePages : ~StyleNavigates(p)
        BY DEF StyleNavigates
      <4>3. \A o \in StyleOps, p \in StylePages : /\ ~Reset(o, p) /\ \A v \in Values : ~ModifyStyle(o, p, v)
                                                  /\ \A i \in 1..MaxEdits : ~Undo(o, p, i)
        BY DEF Reset, ModifyStyle, Undo
      <4>4. \A o \in StyleOps : ~ReadComputed(o) /\ ~ModifyFails(o) /\ ~ResetStep(o)
        BY DEF ReadComputed, ModifyFails, ResetStep
      <4>5. \E o \in StyleOps : UndoEnds(o)
        BY <2>3, <4>1, <4>2, <4>3, <4>4 DEF StyleNext
      <4> QED BY <4>5 DEF UndoEnds
    <3>2. Known'
      BY <3>1 DEF StyleInv, Undisturbed
    <3>3. \A p \in StylePages : Shown(p)' = before'[p]
      BY <3>2 DEF Known
    <3> QED BY <3>1, <3>3
  <2> QED BY <2>2, <2>3
<1> QED BY <1>1, StyleInvariance, StyleStepKept, PTL DEF StyleSpec, ResetRestores

\* The modifications under way.
Modifying == {o \in StyleOps : editing[o].does \in {"read", "write"}}

\* A modification that has begun is under way, recorded, or gone.
EditBounds ==
  /\ begun \in 0..MaxEdits /\ IsFiniteSet(Modifying)
  /\ Len(edits) + Cardinality(Modifying) <= begun

\* Which they are after a step of one operation.
LEMMA ModifyingThen ==
  ASSUME StyleKinds, NEW o \in StyleOps, NEW to \in OpKinds, editing' = [editing EXCEPT ![o] = to]
  PROVE  /\ to.does \in {"read", "write"} => Modifying' = Modifying \cup {o}
         /\ to.does \notin {"read", "write"} => Modifying' = Modifying \ {o}
<1>1. editing'[o] = to /\ \A q \in StyleOps \ {o} : editing'[q] = editing[q]
  BY OtherOps
<1> QED BY <1>1 DEF Modifying

\* What records nothing and begins nothing stays within the bounds.
LEMMA FewerEdits ==
  ASSUME StyleKinds, EditBounds, begun' = begun, Modifying' \subseteq Modifying,
         Len(edits') \in Nat, Len(edits') <= Len(edits)
  PROVE  EditBounds'
<1>1. IsFiniteSet(Modifying') /\ Cardinality(Modifying') <= Cardinality(Modifying)
  BY FS_Subset DEF EditBounds
<1>2. Cardinality(Modifying) \in Nat /\ Cardinality(Modifying') \in Nat
  BY <1>1, FS_CardinalityType DEF EditBounds
<1>3. Len(edits) \in Nat /\ begun \in Nat
  BY EditsAre, StyleNumbers DEF EditBounds
<1> QED BY <1>1, <1>2, <1>3 DEF EditBounds

\* No step exceeds them.
LEMMA EditBoundsKept == ASSUME StyleInv, EditBounds, [StyleNext]_styleVars PROVE EditBounds'
<1>1. StyleKinds /\ Len(edits) \in Nat /\ begun \in Nat /\ Waits \in OpKinds /\ Waits.does = "nothing"
  <2>1. StyleKinds
    BY DEF StyleInv
  <2>2. Len(edits) \in Nat
    BY <2>1, EditsAre
  <2>3. begun \in Nat
    BY StyleNumbers DEF EditBounds
  <2> QED BY <2>1, <2>2, <2>3, OpKindsAre
<1>2. ASSUME NEW o \in StyleOps, editing' = [editing EXCEPT ![o] = Waits] PROVE Modifying' \subseteq Modifying
  BY <1>1, <1>2, ModifyingThen
<1>3. ASSUME begun' = begun, Modifying' \subseteq Modifying, edits' = edits \/ Len(edits') = 0 PROVE EditBounds'
  <2>1. Len(edits') \in Nat /\ Len(edits') <= Len(edits)
    BY <1>1, <1>3
  <2> QED BY <1>1, <1>3, <2>1, FewerEdits
<1>4. CASE UNCHANGED <<edits, editing, begun>>
  BY <1>4, <1>3 DEF Modifying
<1>5. ASSUME NEW o \in StyleOps, NEW p \in StylePages, NEW v \in Values, ModifyStyle(o, p, v)
      PROVE  EditBounds'
  <2>1. PICK to : to = [Waits EXCEPT !.does = "read", !.page = p, !.value = v]
    OBVIOUS
  <2>2. to \in OpKinds /\ to.does = "read"
    BY <2>1, OpKindsAre DEF Waits
  <2>3. begun' = begun + 1 /\ begun + 1 <= MaxEdits /\ edits' = edits /\ editing' = [editing EXCEPT ![o] = to]
    BY <1>1, <1>5, <2>1, StyleNumbers DEF ModifyStyle, Begins
  <2>4. Modifying' = Modifying \cup {o}
    BY <1>1, <2>2, <2>3, ModifyingThen
  <2>5. /\ IsFiniteSet(Modifying') /\ Cardinality(Modifying) \in Nat
        /\ Cardinality(Modifying') \in {Cardinality(Modifying), Cardinality(Modifying) + 1}
    BY <2>4, FS_AddElement, FS_CardinalityType DEF EditBounds
  <2> QED BY <1>1, <2>3, <2>5, StyleNumbers DEF EditBounds
<1>6. ASSUME NEW o \in StyleOps, ReadComputed(o) PROVE EditBounds'
  <2>1. PICK old \in {Shown(editing[o].page), 0} : editing' = [editing EXCEPT ![o].does = "write", ![o].old = old]
    BY <1>6 DEF ReadComputed
  <2>2. \A q \in StyleOps \ {o} : editing'[q] = editing[q]
    BY <1>1, <2>1 DEF StyleKinds
  <2>3. o \in Modifying
    BY <1>6 DEF ReadComputed, Modifying
  <2>4. Modifying' \subseteq Modifying
    BY <2>2, <2>3 DEF Modifying
  <2> QED BY <1>6, <1>3, <2>4 DEF ReadComputed
<1>7. ASSUME NEW o \in StyleOps, WriteStyle(o) PROVE EditBounds'
  <2>1. o \in Modifying /\ begun' = begun
    BY <1>7 DEF WriteStyle, Modifying
  <2>2. Len(edits') = Len(edits) + 1
    <3>1. PICK e : edits' = Append(edits, e)
      BY <1>7 DEF WriteStyle
    <3> QED BY <1>1, <3>1 DEF StyleKinds
  <2>3. Modifying' = Modifying \ {o}
    BY <1>1, <1>7, ModifyingThen DEF WriteStyle
  <2>4. /\ IsFiniteSet(Modifying') /\ Cardinality(Modifying) \in Nat
        /\ Cardinality(Modifying') = Cardinality(Modifying) - 1
    BY <2>1, <2>3, FS_RemoveElement, FS_CardinalityType DEF EditBounds
  <2> QED BY <1>1, <2>1, <2>2, <2>4 DEF EditBounds
<1>8. ASSUME NEW o \in StyleOps, ModifyFails(o) PROVE EditBounds'
  <2>1. begun' = begun /\ edits' = edits /\ editing' = [editing EXCEPT ![o] = Waits]
    BY <1>8 DEF ModifyFails
  <2>2. Modifying' \subseteq Modifying
    BY <1>2, <2>1
  <2> QED BY <1>3, <2>1, <2>2
<1>9. ASSUME NEW o \in StyleOps, UndoEnds(o) PROVE EditBounds'
  <2>1. begun' = begun /\ editing' = [editing EXCEPT ![o] = Waits]
    BY <1>9 DEF UndoEnds
  <2>2. Len(edits') \in Nat /\ Len(edits') <= Len(edits)
    <3>1. PICK i : i = editing[o].at /\ edits' = IF i \in DOMAIN edits THEN RemoveAt(edits, i) ELSE edits
      BY <1>9 DEF UndoEnds
    <3>2. DOMAIN edits = 1..Len(edits) /\ edits \in Seq(EditKinds)
      BY <1>1, EditsAre DEF StyleKinds
    <3>3. CASE i \in 1..Len(edits)
      <4>1. Len(RemoveAt(edits, i)) = Len(edits) - 1
        BY <3>2, <3>3, RemovedAt
      <4> QED BY <1>1, <3>1, <3>2, <3>3, <4>1
    <3>4. CASE i \notin 1..Len(edits)
      BY <1>1, <3>1, <3>2, <3>4
    <3> QED BY <3>3, <3>4
  <2>3. Modifying' \subseteq Modifying
    BY <1>2, <2>1
  <2> QED BY <1>1, <2>1, <2>2, <2>3, FewerEdits
<1>10. ASSUME NEW o \in StyleOps, NEW p \in StylePages, NEW i, Reset(o, p) \/ Undo(o, p, i)
      PROVE  EditBounds'
  <2>1. PICK to : Begins(o, to) /\ to.does \in {"undo", "reset"}
    <3>1. CASE Reset(o, p)
      <4>1. [Waits EXCEPT !.does = "reset", !.page = p, !.at = Len(edits)].does = "reset"
        BY DEF Waits
      <4> QED BY <3>1, <4>1 DEF Reset
    <3>2. CASE Undo(o, p, i)
      <4>1. PICK to : Begins(o, to) /\ to = [Waits EXCEPT !.does = "undo", !.page = p, !.at = i, !.value = edits[i].old,
                                               !.old = IF edits[i].method = "inline" THEN 0 ELSE 1]
        BY <3>2 DEF Undo
      <4>2. to.does = "undo"
        BY <4>1 DEF Waits
      <4> QED BY <4>1, <4>2
    <3> QED BY <1>10, <3>1, <3>2
  <2>2. editing'[o].does \notin {"read", "write"} /\ \A q \in StyleOps \ {o} : editing'[q] = editing[q]
    BY <1>1, <2>1 DEF Begins, StyleKinds
  <2>3. Modifying' \subseteq Modifying
    BY <2>2 DEF Modifying
  <2> QED BY <1>10, <1>3, <2>3 DEF Reset, Undo
<1>11. ASSUME NEW o \in StyleOps, ResetStep(o) PROVE EditBounds'
  <2>1. \/ editing' = [editing EXCEPT ![o] = Waits]
        \/ editing' = [editing EXCEPT ![o].at = editing[o].at - 1]
    BY <1>11 DEF ResetStep
  <2>2. CASE editing' = [editing EXCEPT ![o].at = editing[o].at - 1]
    <3>1. \A q \in StyleOps : editing'[q].does = editing[q].does
      <4>1. editing[o] \in OpKinds
        BY <1>1, OpIs
      <4> QED BY <1>1, <2>2, <4>1 DEF StyleKinds, OpKinds
    <3> QED BY <1>11, <1>3, <3>1 DEF ResetStep, Modifying
  <2>3. CASE editing' = [editing EXCEPT ![o] = Waits]
    <3>1. Modifying' \subseteq Modifying
      BY <1>2, <2>3
    <3> QED BY <1>11, <1>3, <3>1 DEF ResetStep
  <2> QED BY <2>1, <2>2, <2>3
<1>12. ASSUME NEW o \in StyleOps, ResetEnds(o) PROVE EditBounds'
  <2>1. begun' = begun /\ editing' = [editing EXCEPT ![o] = Waits] /\ Len(edits') = 0
    BY <1>12 DEF ResetEnds
  <2>2. Modifying' \subseteq Modifying
    BY <1>2, <2>1
  <2> QED BY <1>3, <2>1, <2>2
<1>13. ASSUME NEW p \in StylePages, StyleNavigates(p) PROVE EditBounds'
  BY <1>4, <1>13 DEF StyleNavigates
<1>14. CASE UNCHANGED styleVars
  BY <1>4, <1>14 DEF styleVars
<1> QED BY <1>5, <1>6, <1>7, <1>8, <1>9, <1>10, <1>11, <1>12, <1>13, <1>14 DEF StyleNext

\* Styles, history and operations keep their types, and the history is never longer than the number
\* of modifications begun, whatever undo and reset take from it in between.
THEOREM StyleTypes == StyleSpec => []StyleTypeOK
<1>1. StyleInit => EditBounds
  <2> SUFFICES ASSUME StyleInit PROVE EditBounds
    OBVIOUS
  <2>1. \A o \in StyleOps : editing[o].does = "nothing"
    BY DEF StyleInit, Waits
  <2>2. Modifying = {}
    BY <2>1 DEF Modifying
  <2> QED BY <2>2, FS_EmptySet, StyleNumbers DEF StyleInit, EditBounds
<1>2. StyleInv /\ EditBounds /\ [StyleNext]_styleVars => EditBounds'
  BY EditBoundsKept
<1>3. StyleInv /\ EditBounds => StyleTypeOK
  <2> SUFFICES ASSUME StyleInv, EditBounds PROVE StyleTypeOK
    OBVIOUS
  <2>1. StyleKinds /\ Len(edits) \in Nat /\ begun \in Nat
    BY EditsAre, StyleNumbers DEF StyleInv, EditBounds
  <2>2. Len(edits) <= begun
    <3>1. Cardinality(Modifying) \in Nat
      BY FS_CardinalityType DEF EditBounds
    <3> QED BY <2>1, <3>1 DEF EditBounds
  <2>3. \A o \in StyleOps : editing[o].does \in {"nothing", "read", "write", "undo", "reset"}
    BY <2>1, OpIs
  <2> QED BY <2>1, <2>2, <2>3 DEF StyleTypeOK, StyleKinds, EditBounds, EditKinds
<1> QED BY <1>1, <1>2, <1>3, StyleInvariance, PTL DEF StyleSpec

-----------------------------------------------------------------------------
(* RequestLimits: RateIsBounded for any limits and any number of clients.    *)
(* Of the times of the requests that have passed, the bucket is the end of   *)
(* the list: what lies a whole limit before its window has left that window  *)
(* behind; and the attempts that count are the end of the list for /connect. *)

\* A bucket as it can be.
Bucket == [count : Nat, from : Nat]

\* The kinds of the variables.
LimitKinds ==
  /\ ticks \in Nat /\ buckets \in [RateClients -> Bucket]
  /\ attempts \in Seq(Nat) /\ probes \in Seq(Nat) /\ passed \in [RateClients -> Seq(Nat)]

\* Times that ascend up to now.
Ascends(log, now) ==
  /\ \A i, j \in 1..Len(log) : i <= j => log[i] <= log[j]
  /\ \A i \in 1..Len(log) : log[i] <= now

\* A window lies between a time and the n-th after it.
Spaced(log, n) == \A i, j \in 1..Len(log) : j - i >= n => log[j] - log[i] >= RateWindow

\* The bucket counts the end of the log, from the start of its window; a whole limit before
\* it, requests are a window older than that start.
Windowed(log, bucket) ==
  /\ bucket.count <= RateLimit /\ bucket.count <= Len(log)
  /\ bucket.count = 0 => Len(log) = 0 /\ bucket = NoBucket
  /\ bucket.count > 0 => log[Len(log) - bucket.count + 1] = bucket.from
  /\ \A i \in 1..Len(log) :
       i <= Len(log) - bucket.count - RateLimit + 1 => bucket.from - log[i] >= RateWindow

\* So it is with a client that has a limit.
Limited(log, bucket) == RateLimit > 0 => Windowed(log, bucket) /\ Spaced(log, 2 * RateLimit - 1)

\* What is kept is the end of the log; the rest is a window old.
Recent(kept, log, now) ==
  /\ Len(kept) <= Len(log)
  /\ \A i \in 1..Len(kept) : kept[i] = log[Len(log) - Len(kept) + i]
  /\ \A i \in 1..(Len(log) - Len(kept)) : now - log[i] >= RateWindow

\* The attempts on /connect.
Sliding ==
  /\ Ascends(probes, ticks) /\ Spaced(probes, ConnectLimit)
  /\ Recent(attempts, probes, ticks) /\ Len(attempts) <= ConnectLimit

\* The inductive invariant.
LimitInv ==
  /\ LimitKinds /\ Sliding
  /\ \A c \in RateClients : Ascends(passed[c], ticks) /\ Limited(passed[c], buckets[c])

\* What is assumed of the constants.
LEMMA LimitNumbers ==
  RateLimit \in Nat /\ ConnectLimit \in Nat /\ RateWindow \in Nat /\ RateWindow > 0
BY RateAssumption

\* A log with the present time at its end.
LEMMA AppendIs ==
  ASSUME NEW log \in Seq(Nat), NEW now \in Nat, NEW to, to = Append(log, now)
  PROVE  /\ to \in Seq(Nat) /\ Len(log) \in Nat /\ Len(to) = Len(log) + 1 /\ to[Len(log) + 1] = now
         /\ \A i \in 1..Len(log) : to[i] = log[i] /\ log[i] \in Nat
OBVIOUS

\* A log that takes the present time goes on ascending.
LEMMA StillAscends ==
  ASSUME NEW log \in Seq(Nat), NEW now \in Nat, Ascends(log, now)
  PROVE  Ascends(Append(log, now), now)
<1>1. PICK to : to = Append(log, now)
  OBVIOUS
<1>2. PICK n \in Nat : n = Len(log)
  OBVIOUS
<1>3. /\ Len(to) = n + 1 /\ to[n + 1] = now
      /\ \A i \in 1..n : to[i] = log[i] /\ log[i] \in Nat
  BY <1>1, <1>2, AppendIs
<1>4. \A i \in 1..n : log[i] <= now
  BY <1>2 DEF Ascends
<1>5. ASSUME NEW i \in 1..(n + 1), NEW j \in 1..(n + 1), i <= j
      PROVE  to[i] <= to[j] /\ to[j] <= now
  <2>1. CASE j = n + 1
    BY <1>3, <1>4, <2>1
  <2>2. CASE j # n + 1
    <3>1. i \in 1..n /\ j \in 1..n
      BY <1>5, <2>2
    <3>2. log[i] <= log[j]
      BY <1>2, <1>5, <3>1 DEF Ascends
    <3> QED BY <1>3, <1>4, <3>1, <3>2
  <2> QED BY <2>1, <2>2
<1> QED BY <1>1, <1>3, <1>5 DEF Ascends

\* A request that passes the fixed window.
LEMMA PassesKept ==
  ASSUME NEW log \in Seq(Nat), NEW bucket \in Bucket, ticks \in Nat, RateLimit > 0,
         Ascends(log, ticks), Windowed(log, bucket), Spaced(log, 2 * RateLimit - 1),
         RatePasses(bucket), NEW to, to = Append(log, ticks), NEW next, next = RateCounted(bucket)
  PROVE  next \in Bucket /\ Windowed(to, next) /\ Spaced(to, 2 * RateLimit - 1)
<1>1. PICK n \in Nat, count \in Nat, from \in Nat, now \in Nat, limit \in Nat, window \in Nat :
        /\ n = Len(log) /\ count = bucket.count /\ from = bucket.from /\ now = ticks
        /\ limit = RateLimit /\ window = RateWindow /\ limit > 0 /\ window > 0
  BY LimitNumbers DEF Bucket
<1>2. /\ Len(to) = n + 1 /\ to[n + 1] = now
      /\ \A i \in 1..n : to[i] = log[i] /\ log[i] \in Nat
  BY <1>1, AppendIs
<1>3. \A i \in 1..n : log[i] <= now
  BY <1>1 DEF Ascends
<1>4. /\ count <= limit /\ count <= n /\ (count = 0 => n = 0 /\ bucket = NoBucket)
      /\ count > 0 => log[n - count + 1] = from
      /\ \A i \in 1..n : i <= n - count - limit + 1 => from - log[i] >= window
  BY <1>1 DEF Windowed
<1>5. from <= now
  <2>1. CASE count = 0
    BY <1>1, <1>4, <2>1 DEF NoBucket
  <2>2. CASE count > 0
    <3>1. n - count + 1 \in 1..n
      BY <1>4, <2>2
    <3> QED BY <1>3, <1>4, <2>2, <3>1
  <2> QED BY <2>1, <2>2
<1>6. PICK many \in Nat, since \in Nat :
        /\ next = [count |-> many, from |-> since] /\ many > 0 /\ many <= limit /\ many <= n + 1
        /\ since <= now /\ to[n + 1 - many + 1] = since
        /\ \A i \in 1..n : i <= n + 1 - many - limit + 1 => since - log[i] >= window
  <2>1. CASE NewWindow(bucket)
    <3>1. next = [count |-> 1, from |-> now]
      BY <1>1, <2>1 DEF RateCounted
    <3>2. ASSUME NEW i \in 1..n, i <= n - limit + 1 PROVE now - log[i] >= window
      <4>0. count <= limit /\ count <= n /\ count # 0
        BY <1>4, <3>2
      <4>1. count > 0 /\ n - count + 1 \in 1..n /\ i <= n - count + 1
        BY <3>2, <4>0
      <4>2. bucket # NoBucket
        BY <1>1, <4>1 DEF NoBucket
      <4>3. now - from >= window
        BY <1>1, <2>1, <4>2 DEF NewWindow
      <4>4. PICK k \in 1..n : k = n - count + 1
        BY <4>1
      <4>5. log[i] <= log[k] /\ log[k] = from
        BY <1>1, <1>4, <4>1, <4>4 DEF Ascends
      <4>6. log[i] \in Nat
        BY <1>2
      <4> QED BY <4>3, <4>5, <4>6
    <3>3. to[n + 1 - 1 + 1] = now
      BY <1>2
    <3>4. n + 1 - 1 - limit + 1 = n - limit + 1
      BY <1>1
    <3> QED BY <1>1, <3>1, <3>2, <3>3, <3>4
  <2>2. CASE ~NewWindow(bucket)
    <3>1. count < limit
      BY <1>1, <2>2 DEF RatePasses
    <3>2. next = [count |-> count + 1, from |-> from]
      <4>1. next = [bucket EXCEPT !.count = @ + 1]
        BY <1>1, <2>2 DEF RateCounted
      <4> QED BY <1>1, <4>1 DEF Bucket
    <3>3. count > 0
      BY <1>4, <2>2 DEF NewWindow
    <3>4. PICK k \in 1..n : k = n - count + 1
      BY <1>4, <3>3
    <3>5. to[k] = from
      BY <1>2, <1>4, <3>3, <3>4
    <3>6. n + 1 - (count + 1) + 1 = k /\ n + 1 - (count + 1) - limit + 1 = n - count - limit + 1
      BY <3>4
    <3>7. count + 1 \in Nat /\ count + 1 > 0 /\ count + 1 <= limit /\ count + 1 <= n + 1
      BY <1>4, <3>1
    <3> QED BY <1>4, <1>5, <3>2, <3>5, <3>6, <3>7
  <2> QED BY <2>1, <2>2
<1>7. ASSUME NEW i \in 1..(n + 1), i <= n + 1 - many - limit + 1
      PROVE  since - to[i] >= window
  <2>1. i \in 1..n
    BY <1>1, <1>6, <1>7
  <2> QED BY <1>2, <1>6, <1>7, <2>1
<1>8. Windowed(to, next)
  BY <1>1, <1>2, <1>6, <1>7 DEF Windowed
<1>9. ASSUME NEW i \in 1..(n + 1), NEW j \in 1..(n + 1), j - i >= 2 * limit - 1
      PROVE  to[j] - to[i] >= window
  <2>1. CASE j = n + 1
    <3>0. limit > 0 /\ many <= limit
      BY <1>1, <1>6
    <3>1. i \in 1..n /\ i <= n + 1 - many - limit + 1
      BY <1>9, <2>1, <3>0
    <3>2. since - to[i] >= window /\ to[i] \in Nat
      BY <1>2, <1>7, <3>1
    <3> QED BY <1>2, <1>6, <2>1, <3>2
  <2>2. CASE j # n + 1
    <3>0. limit > 0
      BY <1>1
    <3>1. i \in 1..n /\ j \in 1..n
      BY <1>9, <2>2, <3>0
    <3>2. log[j] - log[i] >= window
      BY <1>1, <1>9, <3>1 DEF Spaced
    <3> QED BY <1>2, <3>1, <3>2
  <2> QED BY <2>1, <2>2
<1>10. Spaced(to, 2 * RateLimit - 1)
  BY <1>1, <1>2, <1>9 DEF Spaced
<1>11. next \in Bucket
  BY <1>6 DEF Bucket
<1> QED BY <1>8, <1>10, <1>11

\* What is left of the attempts.
LEMMA StillCountsIs ==
  ASSUME LimitKinds
  PROVE  \E d \in 0..Len(attempts) :
           /\ StillCounts \in Seq(Nat) /\ Len(StillCounts) = Len(attempts) - d
           /\ \A i \in 1..(Len(attempts) - d) : StillCounts[i] = attempts[d + i]
           /\ \A i \in 1..d : ticks - attempts[i] >= RateWindow
<1>1. PICK m \in Nat : m = Len(attempts) /\ DOMAIN attempts = 1..m
  BY DEF LimitKinds
<1>2. attempts \in Seq(Nat) /\ ticks \in Nat /\ \A i \in 1..m : attempts[i] \in Nat
  BY <1>1 DEF LimitKinds
<1>3. PICK recent : recent = {i \in 1..m : ticks - attempts[i] < RateWindow}
  OBVIOUS
<1>4. StillCounts = IF recent = {} THEN <<>> ELSE SubSeq(attempts, Min(recent), m)
  BY <1>1, <1>3 DEF StillCounts
<1>5. CASE recent = {}
  <2>0. \A i \in 1..m : ~(ticks - attempts[i] < RateWindow)
    BY <1>3, <1>5
  <2>1. \A i \in 1..m : ticks - attempts[i] >= RateWindow
    BY <1>2, <2>0, LimitNumbers
  <2>2. StillCounts = <<>>
    BY <1>4, <1>5
  <2>3. m \in 0..m /\ m - m = 0 /\ \A i \in 1..(m - m) : FALSE
    OBVIOUS
  <2>4. <<>> \in Seq(Nat) /\ Len(<<>>) = 0
    OBVIOUS
  <2> QED BY <1>1, <2>1, <2>2, <2>3, <2>4
<1>6. CASE recent # {}
  <2>1. PICK k \in recent : \A i \in recent : <<i, k>> \notin OpToRel(<, Nat)
    <3>1. recent \subseteq Nat
      BY <1>3
    <3> QED BY <1>6, <3>1, WFMin, NatLessThanWellFounded
  <2>a. recent \subseteq 1..m /\ k \in 1..m
    BY <1>3, <2>1
  <2>2. k \in 1..m /\ \A i \in recent : k <= i
    <3> SUFFICES ASSUME NEW i \in recent PROVE k <= i
      BY <2>a
    <3>1. i \in Nat /\ k \in Nat
      BY <2>a
    <3>2. ~(i < k)
      BY <2>1, <3>1 DEF OpToRel
    <3> QED BY <3>1, <3>2
  <2>3. Min(recent) = k
    <3>1. \A x \in recent : x \in Nat
      BY <2>a
    <3>2. ASSUME NEW x \in recent, \A y \in recent : x <= y PROVE x = k
      <4>1. x <= k /\ k <= x
        BY <2>1, <2>2, <3>2
      <4> QED BY <2>a, <3>1, <4>1
    <3> QED BY <2>1, <2>2, <3>2 DEF Min
  <2>4. StillCounts = SubSeq(attempts, k, m)
    BY <1>4, <1>6, <2>3
  <2>5. PICK d \in 0..m : d = k - 1
    BY <2>2
  <2>6. /\ SubSeq(attempts, k, m) \in Seq(Nat) /\ Len(SubSeq(attempts, k, m)) = m - k + 1
        /\ \A i \in 1..(m - k + 1) : SubSeq(attempts, k, m)[i] = attempts[k + i - 1]
    BY <1>1, <1>2, <2>2
  <2>7. m - k + 1 = m - d /\ \A i \in 1..(m - d) : k + i - 1 = d + i
    BY <1>1, <2>2, <2>5
  <2>8. \A i \in 1..d : i \in 1..m /\ i \notin recent
    BY <2>2, <2>5
  <2>9. \A i \in 1..d : ticks - attempts[i] >= RateWindow
    BY <1>2, <1>3, <2>8, LimitNumbers
  <2>10. StillCounts \in Seq(Nat) /\ Len(StillCounts) = m - d
    BY <2>4, <2>6, <2>7
  <2>11. \A i \in 1..(m - d) : StillCounts[i] = attempts[d + i]
    BY <2>4, <2>6, <2>7
  <2> QED BY <1>1, <2>5, <2>9, <2>10, <2>11
<1> QED BY <1>5, <1>6

\* A request to /connect.
LEMMA ConnectKept == LimitInv /\ ConnectRequest => LimitInv'
<1> SUFFICES ASSUME LimitInv, ConnectRequest PROVE LimitInv'
  OBVIOUS
<1>1. PICK now \in Nat, m \in Nat, k \in Nat, limit \in Nat, window \in Nat :
        /\ now = ticks /\ m = Len(attempts) /\ k = Len(probes) /\ limit = ConnectLimit
        /\ window = RateWindow /\ window > 0 /\ m <= k /\ m <= limit
  <2>1. ticks \in Nat /\ Len(attempts) \in Nat /\ Len(probes) \in Nat
    BY DEF LimitInv, LimitKinds
  <2>2. Len(attempts) <= Len(probes) /\ Len(attempts) <= ConnectLimit
    BY DEF LimitInv, Sliding, Recent
  <2> QED BY <2>1, <2>2, LimitNumbers
<1>2. /\ attempts \in Seq(Nat) /\ probes \in Seq(Nat) /\ Ascends(probes, now)
      /\ (\A i \in 1..k : probes[i] \in Nat) /\ (\A i \in 1..m : attempts[i] \in Nat)
  BY <1>1 DEF LimitInv, LimitKinds, Sliding
<1>3. /\ \A i \in 1..m : attempts[i] = probes[k - m + i]
      /\ \A i \in 1..(k - m) : now - probes[i] >= window
      /\ \A i, j \in 1..k : j - i >= limit => probes[j] - probes[i] >= window
  BY <1>1 DEF LimitInv, Sliding, Recent, Spaced
<1>4. UNCHANGED <<ticks, buckets, passed>>
  BY DEF ConnectRequest
<1>5. PICK d \in 0..m :
        /\ StillCounts \in Seq(Nat) /\ Len(StillCounts) = m - d
        /\ \A i \in 1..(m - d) : StillCounts[i] = attempts[d + i]
        /\ \A i \in 1..d : now - attempts[i] >= window
  BY <1>1, StillCountsIs DEF LimitInv
<1>6. PICK left \in Nat : left = m - d /\ left <= k /\ left <= limit
  <2>1. m <= k /\ m <= limit
    BY <1>1
  <2> QED BY <2>1
<1>7. PICK kept \in Seq(Nat) : kept = StillCounts
  BY <1>5
<1>8. /\ Len(kept) = left
      /\ \A i \in 1..left : kept[i] = probes[k - left + i]
      /\ \A i \in 1..(k - left) : now - probes[i] >= window
  <2>1. ASSUME NEW i \in 1..left PROVE kept[i] = probes[k - left + i]
    <3>1. PICK e \in 1..m : e = d + i
      BY <1>6
    <3>2. k - m + e = k - left + i
      BY <1>1, <1>6, <3>1
    <3> QED BY <1>3, <1>5, <1>6, <1>7, <3>1, <3>2
  <2>2. ASSUME NEW i \in 1..(k - left) PROVE now - probes[i] >= window
    <3>1. CASE i <= k - m
      BY <1>1, <1>3, <3>1
    <3>2. CASE i > k - m
      <4>0. i <= k - left /\ i >= 1
        BY <1>6
      <4>1. PICK e \in 1..d : e = i - (k - m)
        BY <1>6, <3>2, <4>0
      <4>2. k - m + e = i /\ e \in 1..m
        BY <1>1, <1>6, <4>1
      <4> QED BY <1>3, <1>5, <4>1, <4>2
    <3> QED BY <1>1, <3>1, <3>2
  <2> QED BY <1>5, <1>6, <1>7, <2>1, <2>2
<1>9. CASE left >= limit
  <2>1. attempts' = kept /\ probes' = probes
    BY <1>1, <1>7, <1>8, <1>9 DEF ConnectRequest
  <2>2. Recent(kept, probes, now)
    BY <1>1, <1>6, <1>8 DEF Recent
  <2>3. Sliding'
    BY <1>1, <1>4, <1>6, <1>8, <2>1, <2>2 DEF LimitInv, Sliding
  <2> QED BY <1>4, <2>1, <2>3 DEF LimitInv, LimitKinds
<1>10. CASE left < limit
  <2>1. attempts' = Append(kept, now) /\ probes' = Append(probes, now)
    BY <1>1, <1>7, <1>8, <1>10 DEF ConnectRequest
  <2>2. PICK more : more = Append(kept, now)
    OBVIOUS
  <2>3. PICK log : log = Append(probes, now)
    OBVIOUS
  <2>4. /\ more \in Seq(Nat) /\ Len(more) = left + 1 /\ more[left + 1] = now
        /\ \A i \in 1..left : more[i] = kept[i]
    BY <1>8, <2>2, AppendIs
  <2>5. /\ log \in Seq(Nat) /\ Len(log) = k + 1 /\ log[k + 1] = now
        /\ \A i \in 1..k : log[i] = probes[i]
    BY <1>1, <1>2, <2>3, AppendIs
  <2>6. ASSUME NEW i \in 1..(left + 1) PROVE more[i] = log[k + 1 - (left + 1) + i]
    <3>1. CASE i = left + 1
      <4>1. k + 1 - (left + 1) + i = k + 1
        BY <3>1
      <4> QED BY <2>4, <2>5, <3>1, <4>1
    <3>2. CASE i # left + 1
      <4>1. PICK e \in 1..k : e = k - left + i
        BY <1>6, <3>2
      <4>2. k + 1 - (left + 1) + i = e /\ i \in 1..left
        BY <3>2, <4>1
      <4>3. more[i] = kept[i] /\ log[e] = probes[e]
        BY <2>4, <2>5, <4>1, <4>2
      <4>4. kept[i] = probes[e]
        BY <1>8, <4>1, <4>2
      <4> QED BY <4>2, <4>3, <4>4
    <3> QED BY <3>1, <3>2
  <2>7. \A i \in 1..(k + 1 - (left + 1)) : now - log[i] >= window
    <3>1. \A i \in 1..(k + 1 - (left + 1)) : i \in 1..(k - left) /\ i \in 1..k
      BY <1>6
    <3> QED BY <1>8, <2>5, <3>1
  <2>8. Recent(more, log, now)
    BY <1>1, <1>6, <2>4, <2>5, <2>6, <2>7 DEF Recent
  <2>9. ASSUME NEW i \in 1..(k + 1), NEW j \in 1..(k + 1), j - i >= limit
        PROVE  log[j] - log[i] >= window
    <3>1. CASE j = k + 1
      <4>1. i \in 1..(k - left) /\ i \in 1..k
        BY <1>6, <1>10, <2>9, <3>1
      <4> QED BY <1>8, <2>5, <3>1, <4>1
    <3>2. CASE j # k + 1
      <4>1. i \in 1..k /\ j \in 1..k
        BY <2>9, <3>2
      <4> QED BY <1>3, <2>5, <2>9, <4>1
    <3> QED BY <3>1, <3>2
  <2>10. Spaced(log, limit)
    BY <1>1, <2>5, <2>9 DEF Spaced
  <2>11. Ascends(log, now)
    BY <1>2, <2>3, StillAscends
  <2>12. left + 1 <= limit
    BY <1>10
  <2>13. Sliding'
    BY <1>1, <1>4, <2>1, <2>2, <2>3, <2>4, <2>8, <2>10, <2>11, <2>12 DEF Sliding
  <2> QED BY <1>4, <2>1, <2>2, <2>3, <2>4, <2>5, <2>13 DEF LimitInv, LimitKinds
<1> QED BY <1>9, <1>10

\* A command of a client.
LEMMA CommandKept ==
  ASSUME LimitInv, NEW r \in RateRequests, NEW c \in RateClients, NEW n, CommandRequest(r, c, n)
  PROVE  LimitInv'
<1>1. /\ RatePasses(buckets[c]) /\ UNCHANGED <<ticks, attempts, probes>>
      /\ buckets' = [buckets EXCEPT ![c] = RateCounted(buckets[c])]
      /\ passed' = [passed EXCEPT ![c] = Append(passed[c], ticks)]
  BY DEF CommandRequest
<1>2. /\ LimitKinds /\ Sliding /\ ticks \in Nat /\ buckets[c] \in Bucket /\ passed[c] \in Seq(Nat)
      /\ Ascends(passed[c], ticks) /\ Limited(passed[c], buckets[c])
  BY DEF LimitInv, LimitKinds
<1>3. PICK to : to = Append(passed[c], ticks)
  OBVIOUS
<1>4. PICK next : next = RateCounted(buckets[c])
  OBVIOUS
<1>5. to \in Seq(Nat) /\ Ascends(to, ticks)
  BY <1>2, <1>3, StillAscends, AppendIs
<1>6. next \in Bucket /\ Limited(to, next)
  <2>1. CASE RateLimit > 0
    <3>1. Windowed(passed[c], buckets[c]) /\ Spaced(passed[c], 2 * RateLimit - 1)
      BY <1>2, <2>1 DEF Limited
    <3>2. next \in Bucket /\ Windowed(to, next) /\ Spaced(to, 2 * RateLimit - 1)
      BY <1>1, <1>2, <1>3, <1>4, <2>1, <3>1, PassesKept
    <3> QED BY <3>2 DEF Limited
  <2>2. CASE ~(RateLimit > 0)
    <3>1. next = buckets[c]
      BY <1>4, <2>2, LimitNumbers DEF RateCounted
    <3> QED BY <1>2, <2>2, <3>1 DEF Limited
  <2> QED BY <2>1, <2>2
<1>7. /\ buckets' = [buckets EXCEPT ![c] = next] /\ passed' = [passed EXCEPT ![c] = to]
  BY <1>1, <1>3, <1>4
<1>8. LimitKinds'
  BY <1>1, <1>2, <1>5, <1>6, <1>7 DEF LimitKinds
<1>9. Sliding'
  BY <1>1, <1>2 DEF Sliding
<1>10. ASSUME NEW b \in RateClients PROVE Ascends(passed'[b], ticks) /\ Limited(passed'[b], buckets'[b])
  <2>1. CASE b = c
    <3>1. passed'[b] = to /\ buckets'[b] = next
      BY <1>2, <1>7, <2>1 DEF LimitKinds
    <3> QED BY <1>5, <1>6, <3>1
  <2>2. CASE b # c
    <3>1. passed'[b] = passed[b] /\ buckets'[b] = buckets[b]
      BY <1>2, <1>7, <2>2 DEF LimitKinds
    <3> QED BY <3>1 DEF LimitInv
  <2> QED BY <2>1, <2>2
<1> QED BY <1>1, <1>8, <1>9, <1>10 DEF LimitInv, Limited, Windowed, Spaced

\* Time passes.
LEMMA TickKept == LimitInv /\ Tick => LimitInv'
<1> SUFFICES ASSUME LimitInv, Tick PROVE LimitInv'
  OBVIOUS
<1>1. PICK now \in Nat, then \in Nat : now = ticks /\ then = ticks' /\ then = now + 1
  BY DEF LimitInv, LimitKinds, Tick
<1>2. UNCHANGED <<buckets, attempts, passed, probes>>
  BY DEF Tick
<1>3. ASSUME NEW log \in Seq(Nat), Ascends(log, now) PROVE Ascends(log, then)
  <2>1. \A i \in 1..Len(log) : log[i] \in Nat
    OBVIOUS
  <2> QED BY <1>1, <1>3, <2>1 DEF Ascends
<1>4. probes \in Seq(Nat) /\ Recent(attempts, probes, now) /\ Ascends(probes, now)
  BY <1>1 DEF LimitInv, LimitKinds, Sliding
<1>5. Recent(attempts, probes, then)
  <2>1. \A i \in 1..Len(probes) : probes[i] \in Nat
    BY <1>4
  <2>2. Len(attempts) \in Nat /\ Len(probes) \in Nat
    BY DEF LimitInv, LimitKinds
  <2>3. \A i \in 1..(Len(probes) - Len(attempts)) : then - probes[i] >= RateWindow
    BY <1>1, <1>4, <2>1, <2>2, LimitNumbers DEF Recent
  <2> QED BY <1>4, <2>3 DEF Recent
<1>6. Sliding'
  BY <1>1, <1>2, <1>3, <1>4, <1>5 DEF LimitInv, Sliding, Spaced
<1>7. LimitKinds'
  BY <1>1, <1>2 DEF LimitInv, LimitKinds
<1>8. ASSUME NEW c \in RateClients PROVE Ascends(passed[c], then) /\ Limited(passed[c], buckets[c])
  <2>1. passed[c] \in Seq(Nat) /\ Ascends(passed[c], now)
    BY <1>1 DEF LimitInv, LimitKinds
  <2> QED BY <1>3, <2>1 DEF LimitInv
<1> QED BY <1>1, <1>2, <1>6, <1>7, <1>8 DEF LimitInv, Limited, Windowed, Spaced

\* The invariant holds throughout.
THEOREM LimitInvariance == LimitSpec => []LimitInv
<1>1. LimitInit => LimitInv
  <2> SUFFICES ASSUME LimitInit PROVE LimitInv
    OBVIOUS
  <2>1. ticks = 0 /\ attempts = <<>> /\ probes = <<>>
    BY DEF LimitInit
  <2>2. <<>> \in Seq(Nat) /\ Len(<<>>) = 0 /\ \A i \in 1..0 : FALSE
    OBVIOUS
  <2>3. \A c \in RateClients : buckets[c] = NoBucket /\ passed[c] = <<>>
    BY DEF LimitInit
  <2>4. NoBucket \in Bucket /\ NoBucket.count = 0
    BY DEF NoBucket, Bucket
  <2>5. LimitKinds
    BY <2>1, <2>2, <2>4 DEF LimitInit, LimitKinds
  <2>6. \A n : Spaced(<<>>, n)
    BY <2>2 DEF Spaced
  <2>7. Ascends(<<>>, 0) /\ Recent(<<>>, <<>>, 0)
    BY <2>2 DEF Ascends, Recent
  <2>8. Sliding
    BY <2>1, <2>2, <2>6, <2>7, LimitNumbers DEF Sliding
  <2>9. Limited(<<>>, NoBucket)
    BY <2>2, <2>4, <2>6, LimitNumbers DEF Limited, Windowed
  <2> QED BY <2>1, <2>3, <2>5, <2>7, <2>8, <2>9 DEF LimitInv
<1>2. LimitInv /\ [LimitNext]_limitVars => LimitInv'
  <2> SUFFICES ASSUME LimitInv, [LimitNext]_limitVars PROVE LimitInv'
    OBVIOUS
  <2>1. CASE UNCHANGED <<ticks, buckets, attempts, passed, probes>>
    BY <2>1 DEF LimitInv, LimitKinds, Sliding, Limited, Windowed, Spaced
  <2>2. CASE UNCHANGED limitVars
    BY <2>1, <2>2 DEF limitVars
  <2>3. CASE \E c \in RateClients : RevokeClient(c)
    BY <2>1, <2>3 DEF RevokeClient
  <2>4. ASSUME NEW r \in RateRequests, RequestThrows(r) PROVE LimitInv'
    BY <2>1, <2>4 DEF RequestThrows
  <2>5. ASSUME NEW r \in RateRequests, NEW n \in 0..MaxCommands, RunsNext(r, n) PROVE LimitInv'
    BY <2>1, <2>5 DEF RunsNext
  <2>6. ASSUME NEW r \in RateRequests, NEW c \in RateClients, NEW n \in 1..MaxCommands,
               CommandRequest(r, c, n) \/ BatchRequest(r, c, n)
        PROVE  LimitInv'
    BY <2>1, <2>6, CommandKept DEF BatchRequest
  <2> QED BY <2>2, <2>3, <2>4, <2>5, <2>6, TickKept, ConnectKept DEF LimitNext
<1> QED BY <1>1, <1>2, PTL DEF LimitSpec

\* For any limits, and any number of clients and requests: of the requests of a client that
\* have passed, 2 * RateLimit in a row take at least a window, and of those to /connect one
\* more than its limit.
THEOREM RateBounded == LimitSpec => []RateIsBounded
<1>1. LimitInv => RateIsBounded
  <2> SUFFICES ASSUME LimitInv PROVE RateIsBounded
    OBVIOUS
  <2>1. DOMAIN probes = 1..Len(probes) /\ Spaced(probes, ConnectLimit)
    BY DEF LimitInv, LimitKinds, Sliding
  <2>2. ASSUME NEW c \in RateClients
        PROVE  DOMAIN passed[c] = 1..Len(passed[c]) /\ Limited(passed[c], buckets[c])
    <3>1. passed[c] \in Seq(Nat)
      BY DEF LimitInv, LimitKinds
    <3> QED BY <3>1 DEF LimitInv
  <2> QED BY <2>1, <2>2 DEF RateIsBounded, Limited, Spaced
<1> QED BY <1>1, LimitInvariance, PTL

\* What is assumed of the constants.
LEMMA LimitNaturals == RateLimit \in Nat /\ ConnectLimit \in Nat /\ MaxTicks \in Nat /\ MaxCommands \in Nat
BY RateAssumption

\* Whom a request is under, and how many of its commands are left.
UnderKind == [by : RateClients \cup {"nobody"}, left : 0..MaxCommands]

\* What the limits of the clock and of the commands add to the kinds.
LimitBounds ==
  /\ ticks <= MaxTicks /\ revoked \subseteq RateClients
  /\ \A c \in RateClients : buckets[c].from <= MaxTicks /\ buckets[c].count <= RateLimit
  /\ under \in [RateRequests -> UnderKind]

\* No step exceeds them.
LEMMA LimitBoundsKept == ASSUME LimitInv, LimitBounds, [LimitNext]_limitVars PROVE LimitBounds'
<1>1. ticks \in Nat /\ buckets \in [RateClients -> Bucket]
  BY DEF LimitInv, LimitKinds
<1>2. under \in [RateRequests -> UnderKind] /\ ticks <= MaxTicks
  BY DEF LimitBounds
<1>3. NoRequest \in UnderKind
  BY LimitNaturals DEF NoRequest, UnderKind
<1>4. CASE UNCHANGED limitVars
  BY <1>4 DEF LimitBounds, limitVars
<1>5. CASE Tick
  BY <1>1, <1>5, LimitNaturals DEF LimitBounds, Tick
<1>6. CASE ConnectRequest
  BY <1>6 DEF LimitBounds, ConnectRequest
<1>7. ASSUME NEW c \in RateClients, RevokeClient(c) PROVE LimitBounds'
  BY <1>7 DEF LimitBounds, RevokeClient
<1>8. ASSUME NEW r \in RateRequests, RequestThrows(r) PROVE LimitBounds'
  BY <1>2, <1>3, <1>8 DEF LimitBounds, RequestThrows
<1>9. ASSUME NEW r \in RateRequests, NEW n \in 0..MaxCommands, RunsNext(r, n) PROVE LimitBounds'
  <2>1. PICK by \in RateClients \cup {"nobody"}, left \in 0..MaxCommands : under[r] = [by |-> by, left |-> left]
    BY <1>2 DEF UnderKind
  <2>2. left \in Nat /\ n \in Nat /\ left > 0 /\ left - 1 + n <= MaxCommands
    BY <1>9, <2>1, LimitNaturals DEF RunsNext
  <2>3. PICK next \in 0..MaxCommands : next = left - 1 + n
    BY <2>2, LimitNaturals
  <2>4. [by |-> by, left |-> next] \in UnderKind
    BY <2>3 DEF UnderKind
  <2>5. PICK then : then = IF under[r].left + n = 1 THEN NoRequest
                           ELSE [by |-> under[r].by, left |-> under[r].left - 1 + n]
    OBVIOUS
  <2>6. then \in UnderKind
    <3>1. under[r].by = by /\ under[r].left = left
      BY <2>1
    <3> QED BY <1>3, <2>3, <2>4, <2>5, <3>1
  <2>7. under' = [under EXCEPT ![r] = then]
    BY <1>9, <2>5, Zenon DEF RunsNext
  <2>8. under' \in [RateRequests -> UnderKind]
    BY <1>2, <2>6, <2>7
  <2> QED BY <1>9, <2>8 DEF LimitBounds, RunsNext
<1>10. ASSUME NEW r \in RateRequests, NEW c \in RateClients, NEW n \in 1..MaxCommands,
              CommandRequest(r, c, n) \/ BatchRequest(r, c, n)
       PROVE  LimitBounds'
  <2>1. [by |-> c, left |-> n] \in UnderKind
    BY LimitNaturals DEF UnderKind
  <2>2. under' \in [RateRequests -> UnderKind] /\ revoked' \subseteq RateClients /\ ticks' <= MaxTicks
    BY <1>2, <1>10, <2>1 DEF LimitBounds, CommandRequest, BatchRequest
  <2>3. ASSUME NEW d \in RateClients
        PROVE  buckets'[d].from <= MaxTicks /\ buckets'[d].count <= RateLimit
    <3>1. CASE buckets'[d] = buckets[d]
      BY <3>1 DEF LimitBounds
    <3>2. CASE buckets'[d] # buckets[d]
      <4>1. d = c /\ RatePasses(buckets[c]) /\ buckets'[c] = RateCounted(buckets[c])
        BY <1>1, <1>10, <3>2 DEF CommandRequest, BatchRequest
      <4>2. PICK count \in Nat, from \in Nat :
              buckets[c] = [count |-> count, from |-> from] /\ count <= RateLimit /\ from <= MaxTicks
        BY <1>1 DEF Bucket, LimitBounds
      <4>3. CASE NewWindow(buckets[c])
        <5>1. buckets'[c] = IF RateLimit = 0 THEN buckets[c] ELSE [count |-> 1, from |-> ticks]
          BY <4>1, <4>3, LimitNaturals DEF RateCounted
        <5> QED BY <1>2, <4>1, <4>2, <5>1, LimitNaturals
      <4>4. CASE ~NewWindow(buckets[c])
        <5>1. RateLimit # 0 => count < RateLimit
          BY <4>1, <4>2, <4>4 DEF RatePasses
        <5>2. buckets'[c] = IF RateLimit = 0 THEN buckets[c] ELSE [count |-> count + 1, from |-> from]
          BY <4>1, <4>2, <4>4, LimitNaturals DEF RateCounted
        <5> QED BY <4>1, <4>2, <5>1, <5>2, LimitNaturals
      <4> QED BY <4>3, <4>4
    <3> QED BY <3>1, <3>2
  <2> QED BY <2>2, <2>3 DEF LimitBounds
<1> QED BY <1>4, <1>5, <1>6, <1>7, <1>8, <1>9, <1>10 DEF LimitNext

\* Buckets, attempts and requests keep their types: a bucket never counts more requests than the
\* limit of checkRate, at any pace of the clock and any size of a batch.
THEOREM LimitTypes == LimitSpec => []LimitTypeOK
<1>1. LimitInit => LimitBounds
  BY LimitNaturals DEF LimitInit, LimitBounds, NoBucket, NoRequest, UnderKind
<1>2. LimitInv /\ LimitBounds /\ [LimitNext]_limitVars => LimitBounds'
  BY LimitBoundsKept
<1>3. LimitInv /\ LimitBounds => LimitTypeOK
  <2> SUFFICES ASSUME LimitInv, LimitBounds PROVE LimitTypeOK
    OBVIOUS
  <2>1. ticks \in Clock
    BY LimitNaturals DEF LimitInv, LimitKinds, LimitBounds, Clock
  <2>2. \A c \in RateClients : buckets[c].from \in Clock /\ buckets[c].count \in 0..RateLimit
    BY LimitNaturals DEF LimitInv, LimitKinds, LimitBounds, Clock, Bucket
  <2>3. ASSUME NEW i \in DOMAIN attempts PROVE attempts[i] \in Clock
    <3>1. PICK n \in Nat, k \in Nat, now \in Nat :
            n = Len(probes) /\ k = Len(attempts) /\ now = ticks /\ DOMAIN attempts = 1..k
      BY DEF LimitInv, LimitKinds
    <3>2. i \in 1..k /\ k <= n /\ attempts[i] = probes[n - k + i]
      BY <3>1 DEF LimitInv, LimitKinds, Sliding, Recent
    <3>3. n - k + i \in 1..n
      BY <3>2
    <3>4. probes[n - k + i] \in Nat /\ probes[n - k + i] <= now
      BY <3>1, <3>3 DEF LimitInv, LimitKinds, Sliding, Ascends
    <3> QED BY <2>1, <3>1, <3>2, <3>4, LimitNaturals DEF Clock
  <2>4. Len(attempts) <= ConnectLimit
    BY DEF LimitInv, Sliding
  <2>5. \A r \in RateRequests : under[r].by \in RateClients \cup {"nobody"} /\ under[r].left \in 0..MaxCommands
    BY DEF LimitBounds, UnderKind
  <2> QED BY <2>1, <2>2, <2>3, <2>4, <2>5 DEF LimitTypeOK, LimitBounds
<1> QED BY <1>1, <1>2, <1>3, LimitInvariance, PTL DEF LimitSpec

-----------------------------------------------------------------------------
(* NetCapture: CaptureIsExact, for bodies and buffers of any size.  What a   *)
(* buffer holds is a sum over its entries: Sizes is the one function that    *)
(* adds them up, which needs an induction over their number, in the form     *)
(* that of the numbers at which it failed there were a least one.  A body    *)
(* that arrives then gives the buffer the sums it had, less those of the     *)
(* entries that go.                                                          *)

\* A body as it can be.
Body == [response : Nat, by : Nat, size : Nat]

\* s adds up the sizes of the first k entries.
SizesUpto(s, k, entries) ==
  /\ s \in [0..k -> Nat] /\ s[0] = 0
  /\ \A n \in 1..k : s[n] = s[n - 1] + entries[n].size

\* The same, of whatever kind s is.
Sums(s, N, entries) == s[0] = 0 /\ \A n \in 1..N : s[n] = s[n - 1] + entries[n].size
\* Two that say the same.
Agree(s, t, N) == \A n \in 0..N : s[n] = t[n]

\* Of any numbers there are, one is the least.
LEMMA LeastNumber ==
  ASSUME NEW S \in SUBSET Nat, S # {}
  PROVE  \E m \in S : \A n \in S : m <= n
<1>1. PICK m \in S : \A n \in S : <<n, m>> \notin OpToRel(<, Nat)
  BY WFMin, NatLessThanWellFounded
<1>2. \A n \in S : m <= n
  <2> TAKE n \in S
  <2>1. m \in Nat /\ n \in Nat
    OBVIOUS
  <2>2. ~(n < m)
    BY <1>1, <2>1 DEF OpToRel
  <2> QED BY <2>1, <2>2
<1> QED BY <1>2

\* Every list of entries has such sums.
LEMMA SizesExist ==
  ASSUME NEW entries \in Seq(Body), NEW N \in Nat, N = Len(entries)
  PROVE  \E s : SizesUpto(s, N, entries)
<1>1. PICK bad : bad = {k \in 0..N : ~\E s : SizesUpto(s, k, entries)}
  OBVIOUS
<1>2. CASE bad # {}
  <2>1. PICK k \in bad : \A n \in bad : k <= n
    <3>1. bad \in SUBSET Nat
      BY <1>1
    <3> QED BY <1>2, <3>1, LeastNumber
  <2>2. k \in 0..N /\ ~\E s : SizesUpto(s, k, entries)
    BY <1>1, <2>1
  <2>3. k # 0
    <3>1. PICK s : s = [n \in 0..0 |-> 0]
      OBVIOUS
    <3>2. s \in [0..0 -> Nat] /\ s[0] = 0 /\ \A n \in 1..0 : FALSE
      BY <3>1
    <3>3. SizesUpto(s, 0, entries)
      BY <3>2 DEF SizesUpto
    <3> QED BY <2>2, <3>3
  <2>4. PICK j \in 0..N : j = k - 1 /\ j < k
    BY <2>2, <2>3
  <2>5. PICK s : SizesUpto(s, j, entries)
    <3>1. j \notin bad
      BY <2>1, <2>2, <2>4
    <3> QED BY <1>1, <2>4, <3>1
  <2>6. PICK size \in Nat : size = entries[k].size
    <3>1. entries[k] \in Body
      BY <2>2, <2>3
    <3> QED BY <3>1 DEF Body
  <2>7. PICK t : t = [n \in 0..k |-> IF n = k THEN s[j] + size ELSE s[n]]
    OBVIOUS
  <2>8. s \in [0..j -> Nat] /\ s[0] = 0 /\ \A n \in 1..j : s[n] = s[n - 1] + entries[n].size
    BY <2>5 DEF SizesUpto
  <2>9. \A n \in 0..k : n # k => n \in 0..j
    BY <2>2, <2>4
  <2>10. t \in [0..k -> Nat]
    <3>1. ASSUME NEW n \in 0..k PROVE (IF n = k THEN s[j] + size ELSE s[n]) \in Nat
      <4>1. s[j] \in Nat /\ s[j] + size \in Nat
        BY <2>4, <2>8
      <4>2. n # k => s[n] \in Nat
        BY <2>8, <2>9
      <4> QED BY <4>1, <4>2
    <3> QED BY <2>7, <3>1
  <2>11. t[0] = 0
    BY <2>2, <2>3, <2>7, <2>8
  <2>12. ASSUME NEW n \in 1..k PROVE t[n] = t[n - 1] + entries[n].size
    <3>1. n - 1 \in 0..j /\ n - 1 # k /\ n - 1 \in 0..k
      BY <2>2, <2>4
    <3>2. t[n - 1] = s[n - 1]
      BY <2>7, <3>1
    <3>3. CASE n = k
      BY <2>2, <2>4, <2>6, <2>7, <3>2, <3>3
    <3>4. CASE n # k
      <4>1. n \in 1..j
        BY <2>2, <2>4, <3>4
      <4> QED BY <2>2, <2>7, <2>8, <3>2, <3>4, <4>1
    <3> QED BY <3>3, <3>4
  <2>13. SizesUpto(t, k, entries)
    BY <2>10, <2>11, <2>12 DEF SizesUpto
  <2> QED BY <2>2, <2>13
<1>3. CASE bad = {}
  <2>1. N \in 0..N /\ N \notin bad
    BY <1>3
  <2> QED BY <1>1, <2>1
<1> QED BY <1>2, <1>3

\* And only one of them.
LEMMA SizesUnique ==
  ASSUME NEW entries \in Seq(Body), NEW N \in Nat, N = Len(entries),
         NEW s, NEW t, Sums(s, N, entries), Sums(t, N, entries)
  PROVE  Agree(s, t, N)
<1>1. PICK bad : bad = {n \in 0..N : s[n] # t[n]}
  OBVIOUS
<1>2. CASE bad # {}
  <2>1. PICK k \in bad : \A n \in bad : k <= n
    <3>1. bad \in SUBSET Nat
      BY <1>1
    <3> QED BY <1>2, <3>1, LeastNumber
  <2>2. k \in 0..N /\ s[k] # t[k] /\ k # 0
    BY <1>1, <2>1 DEF Sums
  <2>3. PICK j \in 0..N : j = k - 1 /\ j < k
    BY <2>2
  <2>4. s[j] = t[j]
    BY <1>1, <2>1, <2>2, <2>3
  <2>5. s[k] = s[j] + entries[k].size /\ t[k] = t[j] + entries[k].size
    <3>1. k \in 1..N
      BY <2>2
    <3> QED BY <2>3, <3>1 DEF Sums
  <2> QED BY <2>2, <2>4, <2>5
<1> QED BY <1>1, <1>2 DEF Agree

\* So Sizes is what it says.
LEMMA SizesAre ==
  ASSUME NEW entries \in Seq(Body), NEW N \in Nat, N = Len(entries)
  PROVE  SizesUpto(Sizes(entries), N, entries)
<1>1. PICK s : SizesUpto(s, N, entries)
  BY SizesExist
<1>2. s \in [0..N -> Nat] /\ s[0] = 0 /\ \A n \in 1..N : s[n] = s[n - 1] + entries[n].size
  BY <1>1 DEF SizesUpto
<1>3. s = [n \in 0..N |-> IF n = 0 THEN 0 ELSE s[n - 1] + entries[n].size]
  <2>1. \A n \in 0..N : s[n] = IF n = 0 THEN 0 ELSE s[n - 1] + entries[n].size
    BY <1>2
  <2> QED BY <1>2, <2>1
<1>4. PICK g : g = Sizes(entries)
  OBVIOUS
<1>5. g = [n \in 0..N |-> IF n = 0 THEN 0 ELSE g[n - 1] + entries[n].size]
  BY <1>3, <1>4, Zenon DEF Sizes
<1>6. g[0] = 0 /\ \A n \in 1..N : g[n] = g[n - 1] + entries[n].size
  <2>1. \A n \in 0..N : g[n] = IF n = 0 THEN 0 ELSE g[n - 1] + entries[n].size
    BY <1>5
  <2> QED BY <2>1
<1>7. \A n \in 0..N : g[n] = s[n]
  <2>1. Sums(g, N, entries) /\ Sums(s, N, entries)
    BY <1>2, <1>6 DEF Sums
  <2>2. Agree(g, s, N)
    BY <2>1, SizesUnique
  <2> QED BY <2>2 DEF Agree
<1>8. g = s
  <2>1. g = [n \in 0..N |-> g[n]] /\ s = [n \in 0..N |-> s[n]]
    BY <1>2, <1>5
  <2> QED BY <1>7, <2>1
<1> QED BY <1>1, <1>4, <1>8

\* What a buffer is without its first n entries and with a new one.
PushedOnto(to, old, N, n, e) ==
  /\ to \in Seq(Body) /\ Len(to) = N - n + 1 /\ to[N - n + 1] = e
  /\ \A i \in 1..(N - n) : to[i] = old[n + i]
  /\ SizeOf(to) = SizeOf(old) - Sizes(old)[n] + e.size

\* So it is what a push leaves.
LEMMA PushedSize ==
  ASSUME NEW old \in Seq(Body), NEW N \in Nat, N = Len(old), NEW n \in 0..N, NEW e \in Body,
         NEW to, to = Append(SubSeq(old, n + 1, N), e)
  PROVE  PushedOnto(to, old, N, n, e)
<1>1. PICK m \in Nat, M \in Nat : m = N - n /\ M = m + 1
  <2>1. N - n \in Nat /\ (N - n) + 1 \in Nat
    OBVIOUS
  <2> QED BY <2>1
<1>2. PICK rest \in Seq(Body) : rest = SubSeq(old, n + 1, N) /\ Len(rest) = m
                               /\ \A i \in 1..m : rest[i] = old[n + i]
  <2>1. SubSeq(old, n + 1, N) \in Seq(Body)
    OBVIOUS
  <2>2. Len(SubSeq(old, n + 1, N)) = m
    BY <1>1
  <2>3. ASSUME NEW i \in 1..m PROVE SubSeq(old, n + 1, N)[i] = old[n + i]
    <3>1. i \in 1..(N - (n + 1) + 1) /\ (n + 1) + i - 1 = n + i
      BY <1>1
    <3> QED BY <3>1
  <2> QED BY <2>1, <2>2, <2>3
<1>3. /\ to \in Seq(Body) /\ Len(to) = M /\ to[M] = e
      /\ \A i \in 1..m : to[i] = rest[i]
  BY <1>1, <1>2
<1>4. PICK P : P = Sizes(old)
  OBVIOUS
<1>5. P \in [0..N -> Nat] /\ \A k \in 1..N : P[k] = P[k - 1] + old[k].size
  BY <1>4, SizesAre DEF SizesUpto
<1>6. PICK Q : Q = Sizes(to)
  OBVIOUS
<1>7. Q[0] = 0 /\ \A k \in 1..M : Q[k] = Q[k - 1] + to[k].size
  <2>1. SizesUpto(Q, M, to)
    <3>1. to \in Seq(Body) /\ M = Len(to)
      BY <1>3
    <3> QED BY <1>6, <3>1, SizesAre
  <2> QED BY <2>1 DEF SizesUpto
<1>8. PICK size \in Nat : size = e.size
  BY DEF Body
<1>9. PICK t : t = [k \in 0..M |-> IF k = M THEN P[N] - P[n] + size ELSE P[n + k] - P[n]]
  OBVIOUS
<1>10. t[0] = 0
  <2>1. 0 \in 0..M /\ 0 # M /\ n + 0 = n
    BY <1>1
  <2>2. P[n] \in Nat
    BY <1>5
  <2>3. t[0] = P[n] - P[n]
    BY <1>9, <2>1
  <2> QED BY <2>2, <2>3
<1>11. ASSUME NEW k \in 1..M PROVE t[k] = t[k - 1] + to[k].size
  <2>1. PICK j \in 0..m : j = k - 1 /\ j # M
    BY <1>1
  <2>2. t[j] = P[n + j] - P[n]
    BY <1>1, <1>9, <2>1
  <2>3. CASE k = M
    <3>1. n + j = N
      BY <1>1, <2>1, <2>3
    <3>2. t[k] = P[N] - P[n] + size
      BY <1>9, <2>3
    <3>3. to[k].size = size
      BY <1>3, <1>8, <2>3
    <3> QED BY <2>1, <2>2, <3>1, <3>2, <3>3
  <2>4. CASE k # M
    <3>1. k \in 1..m /\ n + k \in 1..N /\ (n + k) - 1 = n + j
      <4>1. k \in 1..m
        BY <1>1, <2>4
      <4>2. n + k \in 1..N
        BY <1>1, <4>1
      <4>3. (n + k) - 1 = n + j
        BY <2>1
      <4> QED BY <4>1, <4>2, <4>3
    <3>2. PICK h \in 1..N : h = n + k
      BY <3>1
    <3>3. P[h] = P[n + j] + old[h].size
      BY <1>5, <3>1, <3>2
    <3>4. t[k] = P[h] - P[n]
      BY <1>9, <2>4, <3>2
    <3>5. to[k] = old[h]
      BY <1>2, <1>3, <3>1, <3>2
    <3>6. PICK x \in Nat : x = old[h].size
      <4>1. old[h] \in Body
        OBVIOUS
      <4> QED BY <4>1 DEF Body
    <3>7. PICK a \in Nat : a = P[n + j]
      <4>1. n + j \in 0..N
        BY <3>1
      <4> QED BY <1>5, <4>1
    <3>8. P[n] \in Nat
      BY <1>5
    <3>9. t[j] = a - P[n] /\ t[k] = (a + x) - P[n]
      <4>1. P[h] = a + x
        BY <3>3, <3>6, <3>7
      <4> QED BY <2>2, <3>4, <3>7, <4>1
    <3>10. t[k] = t[j] + x
      BY <3>8, <3>9
    <3> QED BY <2>1, <3>5, <3>6, <3>10
  <2> QED BY <2>3, <2>4
<1>12. Q[M] = t[M]
  <2>1. M = Len(to) /\ to \in Seq(Body)
    BY <1>3
  <2>2. Q[0] = 0 /\ \A k \in 1..M : Q[k] = Q[k - 1] + to[k].size
    BY <1>7
  <2>3. \A k \in 1..M : t[k] = t[k - 1] + to[k].size
    BY <1>11
  <2>4. \A k \in 0..M : Q[k] = t[k]
    <3>1. Sums(Q, M, to) /\ Sums(t, M, to)
      BY <1>10, <2>2, <2>3 DEF Sums
    <3>2. Agree(Q, t, M)
      BY <2>1, <3>1, SizesUnique
    <3> QED BY <3>2 DEF Agree
  <2> QED BY <1>1, <2>4
<1>13. SizeOf(to) = Q[M] /\ SizeOf(old) = P[N]
  BY <1>3, <1>4, <1>6 DEF SizeOf
<1>14. SizeOf(to) = SizeOf(old) - Sizes(old)[n] + e.size
  BY <1>4, <1>8, <1>9, <1>12, <1>13
<1>15. N - n + 1 = M /\ N - n = m
  BY <1>1
<1>16. \A i \in 1..m : to[i] = old[n + i]
  BY <1>2, <1>3
<1> QED BY <1>3, <1>14, <1>15, <1>16 DEF PushedOnto

\* Two that are of one response come from different listeners, one of them astray.
Apart(a, b) ==
  a.response = b.response => a.by # b.by /\ (a.by \in strayed \/ b.by \in strayed)

\* The kinds of the variables.
CaptureKinds ==
  /\ captureActive \in BOOLEAN /\ captures \in Nat /\ responses \in Nat
  /\ captureListener \in 0..captures /\ (~captureActive => captureListener = 0)
  /\ activePage \in CapturePages /\ attached \in [CapturePages -> SUBSET (1..captures)]
  /\ captured \in Seq(Body) /\ awaited \in SUBSET Body
  /\ \A b \in awaited : b.response <= responses
  /\ \A i \in 1..Len(captured) : captured[i].response <= responses

\* The size is what the buffer holds.
Exact == totalSize = SizeOf(captured) /\ (totalSize > MaxSize => Len(captured) = 1)

\* Pages have the present listener and those astray.
Listening == \A t \in CapturePages : attached[t] \subseteq {captureListener} \cup strayed

\* No response is there, or awaited, twice.
OnceEach ==
  /\ \A a, b \in awaited : a # b => Apart(a, b)
  /\ \A i \in 1..Len(captured), b \in awaited : Apart(captured[i], b)
  /\ \A i, j \in 1..Len(captured) : i # j => Apart(captured[i], captured[j])

\* The inductive invariant.
CaptureInv == CaptureKinds /\ Exact /\ Listening /\ OnceEach

\* It holds at first.
LEMMA CaptureInitInv == CaptureInit => CaptureInv
<1> SUFFICES ASSUME CaptureInit PROVE CaptureInv
  OBVIOUS
<1>1. captured = <<>> /\ awaited = {} /\ totalSize = 0
  BY DEF CaptureInit
<1>2. captured \in Seq(Body) /\ Len(captured) = 0 /\ \A i \in 1..Len(captured) : FALSE
  BY <1>1
<1>3. CaptureKinds
  <2>1. /\ captureActive = FALSE /\ captures = 0 /\ responses = 0 /\ captureListener = 0
        /\ activePage \in CapturePages /\ attached = [t \in CapturePages |-> {}]
    BY DEF CaptureInit
  <2>2. attached \in [CapturePages -> SUBSET (1..captures)] /\ captureListener \in 0..captures
    BY <2>1
  <2> QED BY <1>1, <1>2, <2>1, <2>2 DEF CaptureKinds
<1>4. SizeOf(captured) = 0
  BY <1>2, SizesAre DEF SizeOf, SizesUpto
<1>5. Exact
  BY <1>1, <1>4, CaptureAssumption DEF Exact
<1>6. Listening
  BY DEF CaptureInit, Listening
<1>7. OnceEach
  BY <1>1, <1>2 DEF OnceEach
<1> QED BY <1>3, <1>5, <1>6, <1>7 DEF CaptureInv

\* Nothing that was captured, or is awaited, changes; what has strayed has.
LEMMA BufferSame ==
  ASSUME CaptureInv, UNCHANGED <<captured, totalSize, awaited, responses>>, strayed \subseteq strayed'
  PROVE  /\ Exact' /\ OnceEach' /\ captured' \in Seq(Body) /\ awaited' \in SUBSET Body
         /\ responses' \in Nat /\ \A b \in awaited' : b.response <= responses'
         /\ \A i \in 1..Len(captured') : captured'[i].response <= responses'
<1>1. \A a, b : Apart(a, b) => Apart(a, b)'
  BY DEF Apart
<1>2. OnceEach'
  BY <1>1 DEF CaptureInv, OnceEach
<1>3. Exact'
  BY DEF CaptureInv, Exact
<1> QED BY <1>2, <1>3 DEF CaptureInv, CaptureKinds

\* Listeners come and go.
LEMMA ListenersKept == CaptureInv /\ (StartCapture \/ StopCapture) => CaptureInv'
<1> SUFFICES ASSUME CaptureInv, StartCapture \/ StopCapture PROVE CaptureInv'
  OBVIOUS
<1>1. /\ captures \in Nat /\ captureListener \in 0..captures /\ activePage \in CapturePages
      /\ attached \in [CapturePages -> SUBSET (1..captures)]
      /\ (~captureActive => captureListener = 0)
      /\ \A t \in CapturePages : attached[t] \subseteq {captureListener} \cup strayed
  BY DEF CaptureInv, CaptureKinds, Listening
<1>2. CASE StartCapture
  <2>1. PICK l \in Nat : l = captures + 1
    BY <1>1
  <2>2. /\ captures' = l /\ captureActive' = TRUE /\ captureListener' = l
        /\ attached' = [attached EXCEPT ![activePage] = attached[activePage] \cup {l}]
        /\ UNCHANGED <<activePage, captured, totalSize, awaited, responses, strayed>>
    BY <1>2, <2>1 DEF StartCapture, Buffered
  <2>3. \A t \in CapturePages : attached[t] \subseteq strayed /\ attached[t] \subseteq 1..l
    <3> SUFFICES ASSUME NEW t \in CapturePages, NEW x \in attached[t] PROVE x \in strayed /\ x \in 1..l
      OBVIOUS
    <3>1. x \in 1..captures /\ x \in {captureListener} \cup strayed
      BY <1>1
    <3>2. captureListener = 0
      BY <1>1, <1>2 DEF StartCapture
    <3> QED BY <1>1, <2>1, <3>1, <3>2
  <2>4. l \in 1..l /\ l \in 0..l
    <3>1. l > 0
      BY <1>1, <2>1
    <3> QED BY <3>1
  <2>5. attached' \in [CapturePages -> SUBSET (1..l)]
    <3>1. attached \in [CapturePages -> SUBSET (1..l)]
      BY <1>1, <2>3
    <3> QED BY <1>1, <2>2, <2>4, <3>1
  <2>6. Listening'
    BY <1>1, <2>2, <2>3 DEF Listening
  <2>7. CaptureKinds'
    BY <1>1, <2>2, <2>4, <2>5, BufferSame DEF CaptureKinds
  <2> QED BY <2>2, <2>6, <2>7, BufferSame DEF CaptureInv
<1>3. CASE StopCapture
  <2>1. /\ attached' = [attached EXCEPT ![activePage] = attached[activePage] \ {captureListener}]
        /\ captureActive' = FALSE /\ captureListener' = 0
        /\ UNCHANGED <<activePage, captured, totalSize, awaited, responses, captures>>
    BY <1>3 DEF StopCapture, Buffered
  <2>2. /\ strayed \subseteq strayed'
        /\ \A t \in CapturePages : t # activePage /\ captureListener \in attached[t] /\ captureListener # 0
             => captureListener \in strayed'
    BY <1>3 DEF StopCapture
  <2>3. ASSUME NEW t \in CapturePages, NEW x \in attached'[t] PROVE x \in strayed' /\ x \in 1..captures
    <3>1. x \in attached[t] /\ (t = activePage => x # captureListener)
      BY <1>1, <2>1, <2>3
    <3>2. x \in 1..captures /\ x \in {captureListener} \cup strayed
      BY <1>1, <3>1
    <3>3. x # 0
      BY <1>1, <3>2
    <3> QED BY <2>2, <3>1, <3>2, <3>3
  <2>4. Listening'
    BY <2>3 DEF Listening
  <2>5. attached' \in [CapturePages -> SUBSET (1..captures)]
    BY <1>1, <2>1
  <2>6. 0 \in 0..captures
    BY <1>1
  <2>7. CaptureKinds'
    BY <1>1, <2>1, <2>2, <2>5, <2>6, BufferSame DEF CaptureKinds
  <2> QED BY <2>1, <2>2, <2>4, <2>7, BufferSame DEF CaptureInv
<1> QED BY <1>2, <1>3

\* Pages come and go.
LEMMA CapturePagesKept ==
  ASSUME CaptureInv, NEW t \in CapturePages, CaptureElsewhere(t) \/ PageReplaced(t)
  PROVE  CaptureInv'
<1>1. UNCHANGED <<captured, totalSize, awaited, responses, captureActive, captureListener, captures, strayed>>
  BY DEF CaptureElsewhere, PageReplaced, Buffered
<1>2. /\ activePage \in CapturePages /\ attached \in [CapturePages -> SUBSET (1..captures)]
      /\ \A p \in CapturePages : attached[p] \subseteq {captureListener} \cup strayed
  BY DEF CaptureInv, CaptureKinds, Listening
<1>3. /\ activePage' \in CapturePages /\ attached' \in [CapturePages -> SUBSET (1..captures)]
      /\ \A p \in CapturePages : attached'[p] \subseteq attached[p]
  BY <1>2 DEF CaptureElsewhere, PageReplaced
<1>4. Listening'
  BY <1>1, <1>2, <1>3 DEF Listening
<1>5. CaptureKinds'
  BY <1>1, <1>3, BufferSame DEF CaptureInv, CaptureKinds
<1> QED BY <1>1, <1>4, <1>5, BufferSame DEF CaptureInv

\* A response, which every listener of its page asks for.
LEMMA ResponseKept ==
  ASSUME CaptureInv, NEW t \in CapturePages, Response(t)
  PROVE  CaptureInv'
<1>1. PICK next \in Nat : next = responses + 1 /\ \A n \in Nat : n <= responses => n # next /\ n <= next
  BY DEF CaptureInv, CaptureKinds
<1>2. PICK s \in BodySizes : awaited' = awaited \cup [response : {next}, by : attached[t], size : {s}]
  BY <1>1 DEF Response
<1>3. /\ responses' = next
      /\ UNCHANGED <<activePage, captureActive, captureListener, attached, captured, totalSize, captures, strayed>>
  BY <1>1 DEF Response, Buffered
<1>4. /\ attached[t] \subseteq 1..captures /\ attached[t] \subseteq {captureListener} \cup strayed
      /\ awaited \in SUBSET Body /\ captured \in Seq(Body) /\ responses \in Nat
      /\ \A b \in awaited : b.response <= responses
      /\ \A i \in 1..Len(captured) : captured[i].response <= responses
  BY DEF CaptureInv, CaptureKinds, Listening
<1>5. PICK fresh : fresh = [response : {next}, by : attached[t], size : {s}]
  OBVIOUS
<1>6. \A b \in fresh : b.response = next /\ b.by \in attached[t] /\ b.size = s
  BY <1>5
<1>7. fresh \in SUBSET Body
  <2>1. attached[t] \subseteq Nat /\ s \in Nat
    BY <1>4, CaptureAssumption
  <2> QED BY <1>5, <2>1 DEF Body
<1>8. \A b \in awaited : b.response # next /\ b.response <= next
  BY <1>1, <1>4 DEF Body
<1>9. \A i \in 1..Len(captured) : captured[i].response # next /\ captured[i].response <= next
  <2> SUFFICES ASSUME NEW i \in 1..Len(captured)
               PROVE  captured[i].response # next /\ captured[i].response <= next
    OBVIOUS
  <2>1. captured[i] \in Body
    BY <1>4
  <2> QED BY <1>1, <1>4, <2>1 DEF Body
<1>10. ASSUME NEW a \in fresh, NEW b \in fresh, a # b PROVE Apart(a, b)
  <2>1. a.by # b.by
    <3>1. a = [response |-> a.response, by |-> a.by, size |-> a.size]
          /\ b = [response |-> b.response, by |-> b.by, size |-> b.size]
      BY <1>5
    <3> QED BY <1>6, <1>10, <3>1
  <2> QED BY <1>4, <1>6, <2>1 DEF Apart
<1>11. ASSUME NEW a \in awaited', NEW b \in awaited', a # b PROVE Apart(a, b)
  <2>1. \A x, y \in awaited : x # y => Apart(x, y)
    BY DEF CaptureInv, OnceEach
  <2>2. (a \in awaited \/ a \in fresh) /\ (b \in awaited \/ b \in fresh)
    BY <1>2, <1>5
  <2>3. CASE a.response # b.response
    BY <2>3 DEF Apart
  <2>4. CASE a.response = b.response
    <3>1. (a \in awaited /\ b \in awaited) \/ (a \in fresh /\ b \in fresh)
      BY <1>6, <1>8, <2>2, <2>4
    <3> QED BY <1>10, <1>11, <2>1, <3>1
  <2> QED BY <2>3, <2>4
<1>12. ASSUME NEW i \in 1..Len(captured), NEW b \in awaited' PROVE Apart(captured[i], b)
  <2>1. CASE b \in awaited
    BY <2>1 DEF CaptureInv, OnceEach
  <2>2. CASE b \in fresh
    BY <1>6, <1>9, <2>2 DEF Apart
  <2> QED BY <1>2, <1>5, <2>1, <2>2
<1>13. \A a, b : Apart(a, b)' <=> Apart(a, b)
  BY <1>3 DEF Apart
<1>14. OnceEach'
  BY <1>3, <1>11, <1>12, <1>13 DEF CaptureInv, OnceEach
<1>15. awaited' \in SUBSET Body /\ \A b \in awaited' : b.response <= next
  BY <1>1, <1>2, <1>4, <1>5, <1>6, <1>7, <1>8
<1>16. CaptureKinds'
  BY <1>3, <1>9, <1>15 DEF CaptureInv, CaptureKinds
<1> QED BY <1>3, <1>14, <1>16 DEF CaptureInv, Exact, Listening

\* How many entries go.
LEMMA EvictedIs ==
  ASSUME CaptureKinds, NEW size, NEW N \in Nat, N = Len(captured)
  PROVE  /\ Evicted(size) \in 0..N
         /\ Evicted(size) = N \/ totalSize - Sizes(captured)[Evicted(size)] + size <= MaxSize
<1> DEFINE Fits(n) == n = Len(captured) \/ totalSize - Sizes(captured)[n] + size <= MaxSize
<1>1. PICK fit : fit = {n \in 0..N : Fits(n)}
  OBVIOUS
<1>2. PICK m \in fit : \A n \in fit : m <= n
  <2>1. N \in fit /\ fit \in SUBSET Nat
    BY <1>1
  <2> QED BY <2>1, LeastNumber
<1>3. m \in 0..N /\ Fits(m) /\ \A j \in 0..m - 1 : ~Fits(j)
  <2>1. m \in 0..N /\ Fits(m)
    BY <1>1, <1>2
  <2>2. \A j \in 0..m - 1 : j \in 0..N /\ ~(m <= j)
    BY <2>1
  <2> HIDE DEF Fits
  <2> QED BY <1>1, <1>2, <2>1, <2>2
<1>4. Evicted(size) = CHOOSE n \in 0..N : Fits(n) /\ \A j \in 0..n - 1 : ~Fits(j)
  BY DEF Evicted
<1> HIDE DEF Fits
<1>5. Evicted(size) \in 0..N /\ Fits(Evicted(size))
  BY <1>3, <1>4
<1> QED BY <1>5 DEF Fits

\* A body arrives.
LEMMA BodyKept ==
  ASSUME CaptureInv, NEW b \in awaited, BodyArrives(b)
  PROVE  CaptureInv'
<1>1. PICK s \in {b.size, 0} :
        /\ captured' = Append(SubSeq(captured, Evicted(s) + 1, Len(captured)), [b EXCEPT !.size = s])
        /\ totalSize' = totalSize - Sizes(captured)[Evicted(s)] + s
  BY DEF BodyArrives
<1>2. /\ awaited' = awaited \ {b}
      /\ UNCHANGED <<activePage, captureActive, captureListener, attached, responses, captures, strayed>>
  BY DEF BodyArrives
<1>3. /\ captured \in Seq(Body) /\ awaited \in SUBSET Body /\ b \in Body
      /\ (\A i \in 1..Len(captured) : captured[i].response <= responses) /\ b.response <= responses
  BY DEF CaptureInv, CaptureKinds
<1>4. PICK N \in Nat : N = Len(captured)
  BY <1>3
<1>5. PICK n \in 0..N : n = Evicted(s) /\ (n = N \/ totalSize - Sizes(captured)[n] + s <= MaxSize)
  BY <1>4, EvictedIs DEF CaptureInv
<1>6. PICK e \in Body : e = [b EXCEPT !.size = s]
  <2>1. b.size \in Nat
    BY <1>3 DEF Body
  <2>2. s \in Nat
    BY <1>1, <2>1
  <2>3. [b EXCEPT !.size = s] \in Body
    BY <1>3, <2>2, Zenon DEF Body
  <2> QED BY <2>3
<1>7. e.size = s /\ e.response = b.response /\ e.by = b.by
  BY <1>3, <1>6 DEF Body
<1>8. PICK m \in Nat : m = N - n
  OBVIOUS
<1>9. PICK to : to = Append(SubSeq(captured, n + 1, N), e)
  OBVIOUS
<1>10. /\ to \in Seq(Body) /\ Len(to) = m + 1 /\ to[m + 1] = e
       /\ \A i \in 1..m : to[i] = captured[n + i]
       /\ SizeOf(to) = SizeOf(captured) - Sizes(captured)[n] + e.size
  <2>1. PushedOnto(to, captured, N, n, e)
    BY <1>3, <1>4, <1>9, PushedSize
  <2> QED BY <1>8, <2>1 DEF PushedOnto
<1>11. captured' = to /\ totalSize' = totalSize - Sizes(captured)[n] + s
  BY <1>1, <1>4, <1>5, <1>6, <1>9
<1>12. Exact'
  <2>1. totalSize = SizeOf(captured)
    BY DEF CaptureInv, Exact
  <2>2. totalSize' = SizeOf(captured')
    BY <1>7, <1>10, <1>11, <2>1
  <2>3. n = N => Len(captured') = 1
    BY <1>8, <1>10, <1>11
  <2>4. n # N => totalSize' <= MaxSize
    BY <1>5, <1>11
  <2>5. totalSize' \in Int /\ MaxSize \in Int
    <3>1. SizesUpto(Sizes(to), m + 1, to)
      BY <1>10, SizesAre
    <3>2. SizeOf(to) \in Nat
      BY <1>10, <3>1 DEF SizeOf, SizesUpto
    <3> QED BY <1>11, <2>2, <3>2, CaptureAssumption
  <2> QED BY <2>2, <2>3, <2>4, <2>5 DEF Exact
<1>13. \A i \in 1..m : n + i \in 1..N
  BY <1>8
<1>14. ASSUME NEW i \in 1..(m + 1)
       PROVE  to[i].response <= responses /\ \A a \in awaited' : Apart(to[i], a)
  <2>1. CASE i = m + 1
    <3>1. \A a \in awaited' : Apart(b, a)
      BY <1>2 DEF CaptureInv, OnceEach
    <3> QED BY <1>3, <1>7, <1>10, <2>1, <3>1 DEF Apart
  <2>2. CASE i # m + 1
    <3>1. i \in 1..m
      BY <2>2
    <3>2. PICK h \in 1..N : h = n + i /\ to[i] = captured[h]
      BY <1>10, <1>13, <3>1
    <3> QED BY <1>2, <1>3, <1>4, <3>2 DEF CaptureInv, OnceEach
  <2> QED BY <2>1, <2>2
<1>15. ASSUME NEW i \in 1..(m + 1), NEW j \in 1..(m + 1), i # j PROVE Apart(to[i], to[j])
  <2>1. ASSUME NEW k \in 1..m PROVE Apart(to[k], e) /\ Apart(e, to[k])
    <3>1. PICK h \in 1..N : h = n + k /\ to[k] = captured[h]
      BY <1>10, <1>13
    <3>2. Apart(captured[h], b)
      BY <1>4 DEF CaptureInv, OnceEach
    <3> QED BY <1>7, <3>1, <3>2 DEF Apart
  <2>2. CASE i = m + 1
    <3>1. j \in 1..m
      BY <1>15, <2>2
    <3> QED BY <1>10, <2>1, <2>2, <3>1
  <2>3. CASE j = m + 1
    <3>1. i \in 1..m
      BY <1>15, <2>3
    <3> QED BY <1>10, <2>1, <2>3, <3>1
  <2>4. CASE i # m + 1 /\ j # m + 1
    <3>1. i \in 1..m /\ j \in 1..m
      BY <2>4
    <3>2. PICK h \in 1..N, k \in 1..N : h = n + i /\ k = n + j /\ to[i] = captured[h] /\ to[j] = captured[k]
      BY <1>10, <1>13, <3>1
    <3>3. h # k
      BY <1>15, <3>2
    <3> QED BY <1>4, <3>2, <3>3 DEF CaptureInv, OnceEach
  <2> QED BY <2>2, <2>3, <2>4
<1>16. \A a, c : Apart(a, c)' <=> Apart(a, c)
  BY <1>2 DEF Apart
<1>17. OnceEach'
  <2>1. \A a, c \in awaited' : a # c => Apart(a, c)
    BY <1>2 DEF CaptureInv, OnceEach
  <2> QED BY <1>10, <1>11, <1>14, <1>15, <1>16, <2>1 DEF OnceEach
<1>18. CaptureKinds'
  BY <1>2, <1>3, <1>10, <1>11, <1>14 DEF CaptureInv, CaptureKinds
<1>19. Listening'
  BY <1>2 DEF CaptureInv, Listening
<1> QED BY <1>12, <1>17, <1>18, <1>19 DEF CaptureInv

\* The invariant holds throughout.
THEOREM CaptureInvariance == CaptureSpec => []CaptureInv
<1>1. CaptureInv /\ [CaptureNext]_captureVars => CaptureInv'
  <2> SUFFICES ASSUME CaptureInv, [CaptureNext]_captureVars PROVE CaptureInv'
    OBVIOUS
  <2>1. CASE UNCHANGED captureVars
    <3>1. \A a, b : Apart(a, b)' <=> Apart(a, b)
      BY <2>1 DEF captureVars, Apart
    <3> QED BY <2>1, <3>1 DEF captureVars, CaptureInv, CaptureKinds, Exact, Listening, OnceEach
  <2> QED BY <2>1, ListenersKept, CapturePagesKept, ResponseKept, BodyKept DEF CaptureNext
<1> QED BY <1>1, CaptureInitInv, PTL DEF CaptureSpec

\* For bodies of any sizes, any cap, and any number of pages, captures and responses: the
\* size is that of the entries and exceeds the cap only with one of them, and nothing is
\* captured twice unless a capture was stopped while another tab was active.
THEOREM CaptureExact == CaptureSpec => []CaptureIsExact
<1>1. CaptureInv => CaptureIsExact
  <2> SUFFICES ASSUME CaptureInv PROVE CaptureIsExact
    OBVIOUS
  <2>1. \A i, j \in 1..Len(captured) :
          i # j /\ captured[i].response = captured[j].response
            => {captured[i].by, captured[j].by} \cap strayed # {}
    BY DEF CaptureInv, OnceEach, Apart
  <2> QED BY <2>1 DEF CaptureInv, Exact, Listening, CaptureIsExact
<1> QED BY <1>1, CaptureInvariance, PTL

\* A body as the counters and the sizes allow it.
Bounded(b, sizes) == b.response \in 1..responses /\ b.by \in 1..captures /\ b.size \in sizes

\* What the bounds add to the kinds.
CaptureBounds ==
  /\ responses <= MaxResponses /\ captures <= MaxCaptures /\ strayed \subseteq 1..captures
  /\ \A b \in awaited : Bounded(b, BodySizes)
  /\ \A i \in 1..Len(captured) : Bounded(captured[i], BodySizes \cup {0})

\* What is assumed of the constants.
LEMMA CaptureNaturals == MaxSize \in Nat /\ MaxResponses \in Nat /\ MaxCaptures \in Nat /\ BodySizes \subseteq Nat
BY CaptureAssumption

\* No step exceeds them.
LEMMA CaptureBoundsKept == ASSUME CaptureInv, CaptureBounds, [CaptureNext]_captureVars PROVE CaptureBounds'
<1>1. /\ captures \in Nat /\ responses \in Nat /\ captureListener \in 0..captures
      /\ attached \in [CapturePages -> SUBSET (1..captures)]
      /\ captured \in Seq(Body) /\ awaited \in SUBSET Body
  BY DEF CaptureInv, CaptureKinds
<1>2. CASE UNCHANGED captureVars
  BY <1>2 DEF CaptureBounds, Bounded, captureVars
<1>3. CASE StartCapture
  <2>1. captures' = captures + 1 /\ captures + 1 <= MaxCaptures
    BY <1>1, <1>3, CaptureNaturals DEF StartCapture
  <2>2. \A b, sizes : Bounded(b, sizes) => Bounded(b, sizes)'
    BY <1>1, <1>3, <2>1 DEF Bounded, StartCapture
  <2>3. strayed' \subseteq 1..captures'
    BY <1>1, <1>3, <2>1 DEF CaptureBounds, StartCapture
  <2> QED BY <1>3, <2>1, <2>2, <2>3 DEF CaptureBounds, StartCapture, Buffered
<1>4. CASE StopCapture
  <2>1. captures' = captures /\ strayed' \subseteq strayed \cup ({captureListener} \ {0})
    BY <1>4 DEF StopCapture
  <2>2. strayed' \subseteq 1..captures'
    BY <1>1, <2>1 DEF CaptureBounds
  <2> QED BY <1>4, <2>2 DEF CaptureBounds, Bounded, StopCapture, Buffered
<1>5. ASSUME NEW t \in CapturePages, Response(t) PROVE CaptureBounds'
  <2>1. responses' = responses + 1 /\ responses + 1 <= MaxResponses /\ captures' = captures /\ strayed' = strayed
    BY <1>1, <1>5, CaptureNaturals DEF Response
  <2>2. \A b, sizes : Bounded(b, sizes) => Bounded(b, sizes)'
    BY <1>1, <2>1 DEF Bounded
  <2>3. PICK s \in BodySizes : awaited' = awaited \cup [response : {responses + 1}, by : attached[t], size : {s}]
    BY <1>5 DEF Response
  <2>4. \A b \in [response : {responses + 1}, by : attached[t], size : {s}] : Bounded(b, BodySizes)'
    BY <1>1, <2>1 DEF Bounded
  <2>5. captured' = captured
    BY <1>5 DEF Response, Buffered
  <2> QED BY <2>1, <2>2, <2>3, <2>4, <2>5 DEF CaptureBounds
<1>6. ASSUME NEW t \in CapturePages, CaptureElsewhere(t) \/ PageReplaced(t) PROVE CaptureBounds'
  BY <1>6 DEF CaptureBounds, Bounded, CaptureElsewhere, PageReplaced, Buffered
<1>7. ASSUME NEW b \in awaited, BodyArrives(b) PROVE CaptureBounds'
  <2>1. UNCHANGED <<responses, captures, strayed>> /\ awaited' \subseteq awaited
    BY <1>7 DEF BodyArrives
  <2>2. \A c, sizes : Bounded(c, sizes)' <=> Bounded(c, sizes)
    BY <2>1 DEF Bounded
  <2>3. PICK s \in {b.size, 0} :
          captured' = Append(SubSeq(captured, Evicted(s) + 1, Len(captured)), [b EXCEPT !.size = s])
    BY <1>7 DEF BodyArrives
  <2>4. PICK N \in Nat : N = Len(captured)
    BY <1>1
  <2>5. PICK n \in 0..N : n = Evicted(s)
    BY <2>4, EvictedIs DEF CaptureInv
  <2>6. PICK e : e = [b EXCEPT !.size = s]
    OBVIOUS
  <2>7. Bounded(b, BodySizes) /\ b \in Body
    BY <1>1 DEF CaptureBounds
  <2>8. e.response = b.response /\ e.by = b.by /\ e.size = s
    BY <2>6, <2>7 DEF Body
  <2>9. Bounded(e, BodySizes \cup {0})
    BY <2>3, <2>7, <2>8 DEF Bounded
  <2>10. e \in Body
    <3>1. s \in Nat
      BY <2>3, <2>7 DEF Body
    <3> QED BY <2>6, <2>7, <3>1, Zenon DEF Body
  <2>11. PICK rest : rest = SubSeq(captured, n + 1, N)
    OBVIOUS
  <2>12. rest \in Seq(Body) /\ Len(rest) = N - n /\ \A i \in 1..(N - n) : rest[i] = captured[n + i]
    BY <1>1, <2>4, <2>11
  <2>13. PICK m \in Nat : m = N - n
    BY <2>4, <2>5
  <2>14. PICK to : to = Append(rest, e)
    OBVIOUS
  <2>15. captured' = to
    BY <2>3, <2>4, <2>5, <2>6, <2>11, <2>14
  <2>16. Len(to) = m + 1 /\ to[m + 1] = e /\ \A i \in 1..m : to[i] = rest[i]
    BY <2>10, <2>12, <2>13, <2>14
  <2>17. ASSUME NEW i \in 1..(m + 1) PROVE Bounded(to[i], BodySizes \cup {0})'
    <3>1. CASE i = m + 1
      <4>1. to[i] = e
        BY <2>16, <3>1
      <4> QED BY <2>2, <2>9, <4>1
    <3>2. CASE i # m + 1
      <4>1. i \in 1..m /\ n + i \in 1..N
        BY <2>4, <2>5, <2>13, <3>2
      <4>2. to[i] = captured[n + i]
        BY <2>12, <2>13, <2>16, <4>1
      <4>3. Bounded(captured[n + i], BodySizes \cup {0})
        BY <2>4, <4>1 DEF CaptureBounds
      <4> QED BY <2>2, <4>2, <4>3
    <3> QED BY <3>1, <3>2
  <2>18. \A c \in awaited' : Bounded(c, BodySizes)'
    BY <2>1, <2>2 DEF CaptureBounds
  <2>19. \A i \in 1..Len(captured') : Bounded(captured[i], BodySizes \cup {0})'
    BY <2>1, <2>15, <2>16, <2>17 DEF Bounded
  <2> QED BY <2>1, <2>18, <2>19 DEF CaptureBounds
<1> QED BY <1>2, <1>3, <1>4, <1>5, <1>6, <1>7 DEF CaptureNext

\* Listeners, bodies under way and the buffer keep their types: what is captured is of a response
\* that came, by a capture that was started, with its body or with none.
THEOREM CaptureTypes == CaptureSpec => []CaptureTypeOK
<1>1. CaptureInit => CaptureBounds
  BY CaptureNaturals DEF CaptureInit, CaptureBounds
<1>2. CaptureInv /\ CaptureBounds /\ [CaptureNext]_captureVars => CaptureBounds'
  BY CaptureBoundsKept
<1>3. CaptureInv /\ CaptureBounds => CaptureTypeOK
  <2> SUFFICES ASSUME CaptureInv, CaptureBounds PROVE CaptureTypeOK
    OBVIOUS
  <2>1. /\ captures \in Nat /\ responses \in Nat /\ captured \in Seq(Body) /\ awaited \in SUBSET Body
    BY DEF CaptureInv, CaptureKinds
  <2>2. ASSUME NEW b \in Body, NEW sizes, Bounded(b, sizes)
        PROVE  b \in [response : 1..responses, by : 1..captures, size : sizes]
    BY <2>2 DEF Bounded, Body
  <2>3. awaited \subseteq [response : 1..responses, by : 1..captures, size : BodySizes]
    BY <2>1, <2>2 DEF CaptureBounds
  <2>4. \A e \in ToSet(captured) : e \in [response : 1..responses, by : 1..captures, size : BodySizes \cup {0}]
    <3>1. ASSUME NEW i \in 1..Len(captured)
          PROVE  captured[i] \in [response : 1..responses, by : 1..captures, size : BodySizes \cup {0}]
      <4>1. captured[i] \in Body
        BY <2>1
      <4>2. Bounded(captured[i], BodySizes \cup {0})
        BY DEF CaptureBounds
      <4> QED BY <2>2, <4>1, <4>2
    <3>2. DOMAIN captured = 1..Len(captured)
      BY <2>1
    <3> QED BY <3>1, <3>2 DEF ToSet
  <2>5. totalSize \in Nat
    <3>1. PICK N \in Nat : N = Len(captured)
      BY <2>1
    <3>2. SizesUpto(Sizes(captured), N, captured)
      BY <2>1, <3>1, SizesAre
    <3> QED BY <3>1, <3>2 DEF CaptureInv, Exact, SizeOf, SizesUpto
  <2>6. responses \in 0..MaxResponses /\ captures \in 0..MaxCaptures
    BY <2>1, CaptureNaturals DEF CaptureBounds
  <2> QED BY <2>3, <2>4, <2>5, <2>6 DEF CaptureTypeOK, CaptureInv, CaptureKinds, CaptureBounds
<1> QED BY <1>1, <1>2, <1>3, CaptureInvariance, PTL DEF CaptureSpec

-----------------------------------------------------------------------------
(* MCServices: a behaviour of the services side by side is one of each of    *)
(* them, the others at rest, for all values of their constants; so what is   *)
(* proved of each holds of all together.                                     *)

\* The parts start as they do alone, or in some of their initial states.
LEMMA ServicesInits ==
  MCInit => /\ LogInit /\ LifeInit /\ FeedInit /\ SkillInit /\ StyleInit
              /\ SocksInit /\ LimitInit /\ SpawnInit /\ CaptureInit /\ ConnectInit
BY DEF MCInit

\* A step of the services is one of each part, or leaves it as it is.
LEMMA ServicesMove ==
  [MCNext]_allVars =>
    /\ [LogNext]_logVars /\ [LifeNext]_lifeVars /\ [FeedNext]_feedVars /\ [SkillNext]_skillVars
    /\ [StyleNext]_styleVars /\ [SocksNext]_socksVars /\ [LimitNext]_limitVars /\ [SpawnNext]_spawnVars
    /\ [CaptureNext]_captureVars /\ [ConnectNext]_connectVars
<1> SUFFICES ASSUME [MCNext]_allVars
             PROVE  /\ [LogNext]_logVars /\ [LifeNext]_lifeVars /\ [FeedNext]_feedVars
                    /\ [SkillNext]_skillVars /\ [StyleNext]_styleVars /\ [SocksNext]_socksVars
                    /\ [LimitNext]_limitVars /\ [SpawnNext]_spawnVars /\ [CaptureNext]_captureVars
                    /\ [ConnectNext]_connectVars
  OBVIOUS
<1> USE DEF noteVars, hostVars, peerVars
<1>1. CASE LogStep
  BY <1>1 DEF LogStep
<1>2. CASE LifeStep
  BY <1>2 DEF LifeStep
<1>3. CASE FeedStep
  BY <1>3 DEF FeedStep
<1>4. CASE SkillStep
  BY <1>4 DEF SkillStep
<1>5. CASE StyleStep
  BY <1>5 DEF StyleStep
<1>6. CASE SocksStep
  BY <1>6 DEF SocksStep
<1>7. CASE LimitStep
  BY <1>7 DEF LimitStep
<1>8. CASE SpawnStep
  BY <1>8 DEF SpawnStep
<1>9. CASE CaptureStep
  BY <1>9 DEF CaptureStep
<1>10. CASE ConnectStep
  BY <1>10 DEF ConnectStep
<1>11. CASE UNCHANGED allVars
  BY <1>11 DEF allVars
<1> QED BY <1>1, <1>2, <1>3, <1>4, <1>5, <1>6, <1>7, <1>8, <1>9, <1>10, <1>11 DEF MCNext

\* A behaviour of the services around the browser is, for each of its parts, a behaviour of that
\* part: the daemon keeps their states in variables of their own.
THEOREM ServicesRunIsOfParts ==
  MCSpec => /\ LogSpec /\ (LifeInit /\ [][LifeNext]_lifeVars) /\ FeedSpec /\ SkillSpec /\ StyleSpec
            /\ SocksSpec /\ LimitSpec /\ SpawnSpec /\ CaptureSpec /\ ConnectSpec
BY ServicesInits, ServicesMove, PTL DEF MCSpec, LogSpec, FeedSpec, SkillSpec, StyleSpec, SocksSpec, LimitSpec,
   SpawnSpec, CaptureSpec, ConnectSpec

\* In every behaviour the variables of each part keep their types and bounds, for all values of
\* the constants: ServicesTypeOK of the run, and not only of its bounds.
THEOREM ServicesRunTypes == MCSpec => []ServicesTypeOK
<1>1. LifeInv => LifeTypeOK
  BY DEF LifeInv
<1>2. LogTypeOK /\ LifeTypeOK /\ FeedTypeOK /\ SkillTypeOK /\ StyleTypeOK
      /\ SocksTypeOK /\ LimitTypeOK /\ SpawnTypeOK /\ CaptureTypeOK /\ ConnectTypeOK => ServicesTypeOK
  BY DEF ServicesTypeOK
<1> QED BY <1>1, <1>2, LifeSafe, ServicesRunIsOfParts, LogTypes, FeedTypes, SkillTypes, StyleTypes, SocksTypes,
           LimitTypes, SpawnTypes, CaptureTypes, ConnectTypes, PTL

\* Whatever the constants, all that is promised of log files, answers, exits, watches, the activity
\* stream, domain skills, the SOCKS relay, limits, skill tokens, captures, headed starts and style
\* edits holds throughout.
THEOREM ServicesRunSafe ==
  MCSpec => /\ [](/\ LogsWrittenOnce /\ AnswersAreOwn /\ CleanExit /\ StopEndsTimers /\ StreamIsComplete
                 /\ FiresProven /\ RelayIsExact /\ RateIsBounded /\ TokenGoesWithRun /\ CaptureIsExact
                 /\ OneBrowserAlone)
            /\ ResetRestores
<1>1. LifeInv => CleanExit /\ StopEndsTimers
  BY DEF LifeInv
<1> QED BY <1>1, LifeSafe, ServicesRunIsOfParts, LogsOnce, AnswersOwn, FeedComplete, FiresProvenAlways, RelayExact,
           RateBounded, TokenGoes, CaptureExact, OneBrowser, ResetRestoresAlways, PTL
=============================================================================
