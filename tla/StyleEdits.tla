----------------------------- MODULE StyleEdits -----------------------------
(* The CSS edits of the inspector (cdp-inspector.ts): modifyStyle changes a    *)
(* declaration in the style sheet or, failing that, in the element's style     *)
(* attribute, and records the value before; undo and reset work back through   *)
(* that history, which is one for all pages.  Every step awaits the page.      *)
(* One element with one property on each page.                                 *)
EXTENDS Naturals, Sequences, FiniteSets, SequencesExt

CONSTANTS StylePages,
          StyleOps,  \* edits under way at once
          MaxValue,  \* bound: values of the property, 1 the initial one of CSS
          MaxEdits   \* bound: modifications ever begun

ASSUME StyleAssumption == StylePages # {} /\ MaxValue \in Nat \ {0} /\ MaxEdits \in Nat

VARIABLES
  inline, sheet, \* page -> the declared value in the style attribute, in the sheet; 0 for none
  edits,         \* modificationHistory
  editing,       \* operation -> what it is doing
  begun,         \* modifications begun so far
  before,        \* history: page -> what it showed when modificationHistory was last emptied
  disturbed      \* history: since then, something has spoilt working back

styleVars == <<inline, sheet, edits, editing, begun, before, disturbed>>

Values == 1..MaxValue
Shown(p) == CASE inline[p] # 0 -> inline[p]
              [] inline[p] = 0 /\ sheet[p] # 0 -> sheet[p]
              [] OTHER -> 1
Waits == [does |-> "nothing", page |-> 0, value |-> 0, old |-> 0, at |-> 0]
Edit(p, method, old) == [page |-> p, method |-> method, old |-> old]

StyleTypeOK ==
  /\ inline \in [StylePages -> Values \cup {0}] /\ sheet \in [StylePages -> Values \cup {0}]
  /\ edits \in Seq([page : StylePages, method : {"setStyleTexts", "inline"}, old : Values \cup {0}])
  /\ begun \in 0..MaxEdits /\ Len(edits) <= begun
  /\ before \in [StylePages -> Values] /\ disturbed \in BOOLEAN
  /\ \A o \in StyleOps : editing[o].does \in {"nothing", "read", "write", "undo", "reset"}

StyleInit ==
  /\ inline \in [StylePages -> {0, 1}] /\ sheet \in [StylePages -> {0, 1}]
  /\ edits = <<>> /\ editing = [o \in StyleOps |-> Waits] /\ begun = 0
  /\ before = [p \in StylePages |-> 1] /\ disturbed = FALSE

Overlaps(o) == \E other \in StyleOps \ {o} : editing[other].does # "nothing"
ElsewhereTo(p) == \E e \in Range(edits) : e.page # p
Shadowed(e) == e.method = "setStyleTexts" /\ inline[e.page] # 0
Begins(o, to) == editing[o].does = "nothing" /\ editing' = [editing EXCEPT ![o] = to]
Disturbed(if) == disturbed' = (disturbed \/ if)

-----------------------------------------------------------------------------
\* `style <sel> <prop> <value>` and /inspector/apply, on the active page.
ModifyStyle(o, p, v) ==
  /\ begun < MaxEdits
  /\ begun' = begun + 1
  /\ Begins(o, [Waits EXCEPT !.does = "read", !.page = p, !.value = v])
  /\ Disturbed(Overlaps(o) \/ ElsewhereTo(p))
  /\ UNCHANGED <<inline, sheet, edits, before>>

\* The computed value is read; it stays unknown if the session or the inspection fails,
\* or the property is not one of KEY_CSS_PROPERTIES.
ReadComputed(o) ==
  /\ editing[o].does = "read"
  /\ \E old \in {Shown(editing[o].page), 0} :
       /\ editing' = [editing EXCEPT ![o].does = "write", ![o].old = old]
       /\ Disturbed(old = 0)
  /\ UNCHANGED <<inline, sheet, edits, begun, before>>

\* The declaration of the matching rule is replaced, if one has the property ...
Declare(p, method, v) ==
  IF method = "setStyleTexts"
  THEN sheet[p] # 0 /\ sheet' = [sheet EXCEPT ![p] = v] /\ UNCHANGED inline
  ELSE inline' = [inline EXCEPT ![p] = v] /\ UNCHANGED sheet

\* ... or the style attribute is set; then the modification is recorded.
WriteStyle(o) ==
  /\ editing[o].does = "write"
  /\ \E method \in {"setStyleTexts", "inline"} :
       /\ Declare(editing[o].page, method, editing[o].value)
       /\ edits' = Append(edits, Edit(editing[o].page, method, editing[o].old))
  /\ editing' = [editing EXCEPT ![o] = Waits]
  /\ UNCHANGED <<begun, before, disturbed>>

\* No element: modifyStyle throws and nothing is recorded.
ModifyFails(o) ==
  /\ editing[o].does \in {"read", "write"}
  /\ editing' = [editing EXCEPT ![o] = Waits]
  /\ UNCHANGED <<inline, sheet, edits, begun, before, disturbed>>

\* `style --undo [i]`: the modification is looked up by its index, from the end if none.
Undo(o, p, i) ==
  /\ i \in DOMAIN edits
  /\ Begins(o, [Waits EXCEPT !.does = "undo", !.page = p, !.at = i, !.value = edits[i].old,
                             !.old = IF edits[i].method = "inline" THEN 0 ELSE 1])
  /\ Disturbed(Overlaps(o) \/ i # Len(edits) \/ ElsewhereTo(p) \/ Shadowed(edits[i]))
  /\ UNCHANGED <<inline, sheet, edits, begun, before>>

\* The value is put back where modifyStyle can -- the entry it records for that is popped
\* again -- and whatever is at the index by then is spliced out.
UndoEnds(o) ==
  /\ editing[o].does = "undo"
  /\ \E method \in {"inline"} \cup (IF editing[o].old = 1 THEN {"setStyleTexts"} ELSE {}) :
       Declare(editing[o].page, method, editing[o].value)
  /\ edits' = IF editing[o].at \in DOMAIN edits THEN RemoveAt(edits, editing[o].at) ELSE edits
  /\ editing' = [editing EXCEPT ![o] = Waits]
  /\ UNCHANGED <<begun, before, disturbed>>

\* /inspector/reset: in reverse order, one await each.
Reset(o, p) ==
  /\ edits # <<>>
  /\ Begins(o, [Waits EXCEPT !.does = "reset", !.page = p, !.at = Len(edits)])
  /\ Disturbed(Overlaps(o) \/ ElsewhereTo(p))
  /\ UNCHANGED <<inline, sheet, edits, begun, before>>

\* Mutant: the modifications are taken from the first to the last.
MutTakes(i) == edits[Len(edits) + 1 - i]

Takes(i) == edits[i]

\* Each value is put back in the style attribute; if the history has become shorter, the
\* entry is undefined and the reset throws.
ResetStep(o) ==
  LET i == editing[o].at
      p == editing[o].page
  IN /\ editing[o].does = "reset" /\ i > 0
     /\ IF i \in DOMAIN edits
        THEN /\ inline' = [inline EXCEPT ![p] = Takes(i).old]
             /\ editing' = [editing EXCEPT ![o].at = i - 1]
        ELSE editing' = [editing EXCEPT ![o] = Waits] /\ UNCHANGED inline
     /\ UNCHANGED <<sheet, edits, begun, before, disturbed>>

\* The history is emptied, with what has been recorded meanwhile.
ResetEnds(o) ==
  /\ editing[o].does = "reset" /\ editing[o].at = 0
  /\ edits' = <<>>
  /\ editing' = [editing EXCEPT ![o] = Waits]
  /\ before' = [p \in StylePages |-> Shown(p)]
  /\ disturbed' = Overlaps(o)
  /\ UNCHANGED <<inline, sheet, begun>>

\* A page navigates: its new document has the declarations of its source.
StyleNavigates(p) ==
  /\ begun > 0
  /\ inline[p] # 0 \/ sheet[p] > 1
  /\ inline' = [inline EXCEPT ![p] = 0]
  /\ sheet' = [sheet EXCEPT ![p] = IF @ # 0 THEN 1 ELSE 0]
  /\ Disturbed(before[p] # 1)
  /\ UNCHANGED <<edits, editing, begun, before>>

StyleNext ==
  \/ \E p \in StylePages : StyleNavigates(p)
  \/ \E o \in StyleOps :
       \/ ReadComputed(o) \/ WriteStyle(o) \/ ModifyFails(o)
       \/ UndoEnds(o) \/ ResetStep(o) \/ ResetEnds(o)
       \/ \E p \in StylePages :
            \/ Reset(o, p)
            \/ \E v \in Values : ModifyStyle(o, p, v)
            \/ \E i \in 1..MaxEdits : Undo(o, p, i)

StyleSpec == StyleInit /\ [][StyleNext]_styleVars

-----------------------------------------------------------------------------
(* Properties.                                                               *)

\* Working back through the history ends where it began: when a reset or the last undo
\* empties it, every page shows what it showed before the modifications, whichever of them
\* went to the sheet -- as long as edits were of one page, did not overlap, were undone
\* from the last, every value before was known, and no undo wrote to the sheet under a
\* style attribute (cdp-inspector.ts: "Reset all modifications, restoring original values").
ResetRestores ==
  [][(edits # <<>> /\ edits' = <<>> /\ ~disturbed)
       => \A p \in StylePages : Shown(p)' = before[p]]_styleVars
=============================================================================
