----------------------------- MODULE Inspector -----------------------------
(* The element inspector: CDP sessions cached by page and detached when it      *)
(* navigates, the cascade that inspectElement computes from the rules that       *)
(* match an element, and the last pick as the side panel's viewers know it.      *)
(* Rules are those of the author style sheets that declare one property, once.   *)
EXTENDS Naturals, Sequences, FiniteSets, SequencesExt

CONSTANTS InspectPages, Inspects,  \* pages, and calls under way at once
          Viewers,                 \* EventSources of /inspector/events
          Specificities,           \* of selectors
          MaxPicks                 \* bound: CDP sessions and picks of a behaviour

ASSUME InspectAssumption == Specificities \subseteq Nat /\ MaxPicks \in Nat

VARIABLES
  cdps,       \* CDP sessions, in the order of their creation
  cdpSessions,    \* page -> the session cached for it, 0 for none
  inspect,        \* call -> where it is, its page and its session
  inspectorData,  \* the last pick: its number, the rules by priority, those marked overridden
  stored,         \* whose result `inspect` without a selector shows
  known,          \* viewer -> the pick it has been told of last; Off when it is not subscribed
  picks,          \* picks completed
  tangled           \* history: pages on which two calls met since they last navigated

inspectVars == <<cdps, cdpSessions, inspect, inspectorData, stored, known, picks, tangled>>

Off == MaxPicks + 1
Rule == [specificity : Specificities, important : BOOLEAN]
\* What may match an element: up to three rules, in the order of the style sheets.
Matching == UNION {[1..n -> Rule] : n \in 0..3}
NoPick == [pick |-> 0, rules |-> <<>>, overridden |-> {}]
Unbusy == [at |-> "idle", page |-> 0, session |-> 0]

InspectTypeOK ==
  /\ Len(cdps) <= MaxPicks /\ picks \in 0..MaxPicks /\ inspectorData.pick = picks
  /\ \A s \in ToSet(cdps) : s \in [page : InspectPages, attached : BOOLEAN, enabled : BOOLEAN]
  /\ cdpSessions \in [InspectPages -> 0..Len(cdps)]
  /\ \A o \in Inspects : inspect[o].at \in {"idle", "verify", "create", "enable", "inspect"}
  /\ stored \in {"nobody", "pick", "inspect"}
  /\ known \in [Viewers -> 0..MaxPicks \cup {Off}] /\ tangled \subseteq InspectPages

InspectInit ==
  /\ cdps = <<>> /\ cdpSessions = [p \in InspectPages |-> 0]
  /\ inspect = [o \in Inspects |-> Unbusy]
  /\ inspectorData = NoPick /\ stored = "nobody" /\ known = [v \in Viewers |-> Off]
  /\ picks = 0 /\ tangled = {}

-----------------------------------------------------------------------------
(* The cascade.                                                              *)

\* matchedRules.sort: highest specificity first, equal ones in the order they came.
BySpecificity(rules) ==
  LET Before(i) == {j \in DOMAIN rules : \/ rules[j].specificity > rules[i].specificity
                                         \/ rules[j].specificity = rules[i].specificity /\ j < i}
  IN [k \in DOMAIN rules |-> rules[CHOOSE i \in DOMAIN rules : Cardinality(Before(i)) = k - 1]]

\* Mutant: an important declaration takes over from any earlier one.
MutTakesOver(later, earlier) == later.important

\* A later declaration takes over from the one seen first only if it alone is important.
TakesOver(later, earlier) == later.important /\ ~earlier.important

\* The loop that marks overridden declarations: the first rule is seen until one takes over,
\* and in the end all but the one seen last are marked.
MarkOverridden(sorted) ==
  LET seen[n \in 0..Len(sorted)] ==
        CASE n = 0 -> 0
          [] n > 0 /\ (n = 1 \/ TakesOver(sorted[n], sorted[seen[n - 1]])) -> n
          [] OTHER -> seen[n - 1]
  IN (DOMAIN sorted) \ {seen[Len(sorted)]}

-----------------------------------------------------------------------------
(* Calls: /inspector/pick, and `inspect` and `style`, which answer their caller. *)

Meets(o, p) == {q \in {p} : \E other \in Inspects \ {o} : inspect[other].page = p}

\* getOrCreateSession: a cached session is asked whether it is alive.
Pick(o, p) ==
  /\ inspect[o] = Unbusy
  /\ inspect' = [inspect EXCEPT ![o] = [page |-> p, session |-> cdpSessions[p],
                                        at |-> IF cdpSessions[p] = 0 THEN "create" ELSE "verify"]]
  /\ tangled' = tangled \cup Meets(o, p)
  /\ UNCHANGED <<cdps, cdpSessions, inspectorData, stored, known, picks>>

\* It is not: whatever is cached by now is dropped.
Verified(o) ==
  /\ inspect[o].at = "verify"
  /\ IF cdps[inspect[o].session].attached
     THEN inspect' = [inspect EXCEPT ![o].at = "inspect"] /\ UNCHANGED cdpSessions
     ELSE /\ inspect' = [inspect EXCEPT ![o].at = "create"]
          /\ cdpSessions' = [cdpSessions EXCEPT ![inspect[o].page] = 0]
  /\ UNCHANGED <<cdps, inspectorData, stored, known, picks, tangled>>

\* A new session is cached before its domains are enabled ...
CreateSession(o) ==
  /\ inspect[o].at = "create" /\ Len(cdps) < MaxPicks
  /\ cdps' = Append(cdps, [page |-> inspect[o].page, attached |-> TRUE, enabled |-> FALSE])
  /\ cdpSessions' = [cdpSessions EXCEPT ![inspect[o].page] = Len(cdps')]
  /\ inspect' = [inspect EXCEPT ![o].at = "enable", ![o].session = Len(cdps')]
  /\ UNCHANGED <<inspectorData, stored, known, picks, tangled>>

\* ... and only then waits for the next navigation.
EnableDomains(o) ==
  /\ inspect[o].at = "enable"
  /\ cdps' = [cdps EXCEPT ![inspect[o].session].enabled = TRUE]
  /\ inspect' = [inspect EXCEPT ![o].at = "inspect"]
  /\ UNCHANGED <<cdpSessions, inspectorData, stored, known, picks, tangled>>

\* inspectElement fails: no such element, a session detached or not enabled yet; or it was
\* the session of a `style`, which keeps no result.
InspectFails(o) ==
  /\ inspect[o].at = "inspect"
  /\ inspect' = [inspect EXCEPT ![o] = Unbusy]
  /\ UNCHANGED <<cdps, cdpSessions, inspectorData, stored, known, picks, tangled>>

Ready(o) == LET s == cdps[inspect[o].session]
            IN inspect[o].at = "inspect" /\ s.attached /\ s.enabled

\* `inspect` answers with what it found and stores it for itself, not for the panel.
Inspected(o) ==
  /\ Ready(o)
  /\ inspect' = [inspect EXCEPT ![o] = Unbusy]
  /\ stored' = "inspect"
  /\ UNCHANGED <<cdps, cdpSessions, inspectorData, known, picks, tangled>>

\* A pick is stored for both, whether or not it was asked for last, and its event emitted.
Picked(o, rules) ==
  /\ Ready(o) /\ picks < MaxPicks
  /\ inspect' = [inspect EXCEPT ![o] = Unbusy]
  /\ picks' = picks + 1 /\ stored' = "pick"
  /\ LET sorted == BySpecificity(rules)
     IN inspectorData' = [pick |-> picks + 1, rules |-> sorted, overridden |-> MarkOverridden(sorted)]
  /\ known' = [v \in Viewers |-> IF known[v] = Off THEN Off ELSE picks + 1]
  /\ UNCHANGED <<cdps, cdpSessions, tangled>>

\* GET /inspector/events: the last pick at once, then events; and its end.
Subscribe(v) ==
  /\ known[v] = Off
  /\ known' = [known EXCEPT ![v] = inspectorData.pick]
  /\ UNCHANGED <<cdps, cdpSessions, inspect, inspectorData, stored, picks, tangled>>
Unsubscribe(v) ==
  /\ known[v] # Off
  /\ known' = [known EXCEPT ![v] = Off]
  /\ UNCHANGED <<cdps, cdpSessions, inspect, inspectorData, stored, picks, tangled>>

\* framenavigated: every session that waits for it is detached, and the cache emptied.
FrameNavigates(p) ==
  LET waiting == {i \in 1..Len(cdps) : cdps[i].page = p /\ cdps[i].enabled /\ cdps[i].attached}
  IN /\ waiting # {}
     /\ cdps' = [i \in 1..Len(cdps) |->
                       [cdps[i] EXCEPT !.attached = @ /\ i \notin waiting]]
     /\ cdpSessions' = [cdpSessions EXCEPT ![p] = 0]
     /\ tangled' = IF \E o \in Inspects : inspect[o].page = p THEN tangled \cup {p} ELSE tangled \ {p}
     /\ UNCHANGED <<inspect, inspectorData, stored, known, picks>>

\* Steps, with the rules a pick may find.
InspectNextOf(found) ==
  \/ \E o \in Inspects :
       \/ \E p \in InspectPages : Pick(o, p)
       \/ Verified(o) \/ CreateSession(o) \/ EnableDomains(o) \/ InspectFails(o) \/ Inspected(o)
       \/ \E rules \in found : Picked(o, rules)
  \/ \E v \in Viewers : Subscribe(v) \/ Unsubscribe(v)
  \/ \E p \in InspectPages : FrameNavigates(p)
InspectNext == InspectNextOf(Matching)

InspectSpec == InspectInit /\ [][InspectNext]_inspectVars

-----------------------------------------------------------------------------
(* Property.                                                                 *)

\* What the side panel shows of an element is the cascade of CSS: when the specificities
\* of the rules differ, the one declaration that is not marked overridden is the important
\* one of highest specificity, or else the one of highest specificity.  Every viewer knows
\* of the last pick, also one that subscribed between two.  And a page has no session at
\* rest but the cached one ("Sessions are reused per page"), unless two calls met on it, or
\* a navigation met a call, since it last navigated.
InspectionIsTrue ==
  /\ LET rules == inspectorData.rules
         Beats(i, j) == \/ rules[i].important /\ ~rules[j].important
                        \/ rules[i].important = rules[j].important
                           /\ rules[i].specificity > rules[j].specificity
     IN (\A i, j \in 1..Len(rules) : i # j => rules[i].specificity # rules[j].specificity) =>
          \A i \in 1..Len(rules) :
             i \notin inspectorData.overridden <=> \A j \in 1..Len(rules) \ {i} : Beats(i, j)
  /\ \A v \in Viewers : known[v] \in {Off, inspectorData.pick}
  /\ \A p \in InspectPages \ tangled :
       (\A o \in Inspects : inspect[o].page # p) =>
          {i \in 1..Len(cdps) : cdps[i].page = p /\ cdps[i].attached} = {cdpSessions[p]} \ {0}
=============================================================================
