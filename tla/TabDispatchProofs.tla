------------------------- MODULE TabDispatchProofs -------------------------
(***************************************************************************)
(* Proofs about TabDispatch: its type invariant; that the active tab is an *)
(* open one while any tab is open; that tab ids are not reused.            *)
(***************************************************************************)
EXTENDS TabDispatch, WellFoundedInduction, TLAPS

\* A non-empty set of tabs has a largest one.
LEMMA MaxOfTabs ==
  ASSUME NEW S \in SUBSET Tab, S # {}
  PROVE  Max(S) \in S
<1> DEFINE Below == {MaxTabs - t : t \in S}
<1>1. MaxTabs \in Nat
  BY TabBounds
<1>2. Below \subseteq Nat /\ Below # {}
  <2>1. \A t \in S : t \in Nat /\ t <= MaxTabs
    BY <1>1 DEF Tab
  <2>2. \A t \in S : MaxTabs - t \in Nat
    BY <1>1, <2>1
  <2> QED  BY <2>2
<1>3. PICK m \in Below : \A n \in Below : <<n, m>> \notin OpToRel(<, Nat)
  <2> HIDE DEF Below
  <2> QED  BY <1>2, WFMin, NatLessThanWellFounded
<1>4. PICK t \in S : m = MaxTabs - t
  BY <1>3
<1>5. \A u \in S : t >= u
  <2> TAKE u \in S
  <2>1. MaxTabs - u \in Below
    OBVIOUS
  <2>2. ~(MaxTabs - u < m)
    BY <1>2, <1>3, <2>1 DEF OpToRel
  <2> QED  BY <1>1, <1>4, <2>2 DEF Tab
<1> QED
  BY <1>5 DEF Max

\* LastOf falls back to a remaining tab, if there is one.
LEMMA LastOfFacts ==
  ASSUME NEW S \in SUBSET Tab
  PROVE  /\ LastOf(S) \in TabOrNone
         /\ S # {} => LastOf(S) \in S
BY MaxOfTabs DEF LastOf, TabOrNone

\* What holds of the tabs and of the commands, besides their types.
OpenAreOld == pages \subseteq 1 .. nextTab - 1

TabInv == TypeOK /\ ActiveIsOpen /\ OpenAreOld

\* A pin leaves an open tab active, if one was open.
LEMMA PinnedFacts ==
  ASSUME TypeOK, ActiveIsOpen, NEW t \in TabOrNone
  PROVE  /\ Pinned(t) \in TabOrNone
         /\ pages # {} => Pinned(t) \in pages
BY DEF TypeOK, ActiveIsOpen, Pinned, TabOrNone

\* The commands after one of them went on to an await.
LEMMA AwaitFacts ==
  ASSUME TypeOK, NEW r \in Requests, NEW w \in Client, NEW t \in TabOrNone,
         NEW x \in TabOrNone, NEW at \in {"handler", "newPage", "close"},
         at = "newPage" \/ x # 0, Await(r, at, w, t, x)
  PROVE  /\ cmd' \in [Requests -> Command]
         /\ \A q \in Requests : cmd'[q].at \in {"handler", "close"} => cmd'[q].session # 0
<1> DEFINE new == [at |-> at, who |-> w, target |-> t,
                   saved |-> IF t = 0 THEN 0 ELSE active, session |-> x]
<1>1. new \in Command
  BY DEF TypeOK, Command, TabOrNone
<1>2. new.at \in {"handler", "close"} => new.session # 0
  OBVIOUS
<1>3. cmd' = [cmd EXCEPT ![r] = new]
  BY DEF Await
<1> HIDE DEF new
<1> QED  BY <1>1, <1>2, <1>3 DEF TypeOK

\* The commands after one of them ended.
LEMMA IdleFacts ==
  ASSUME TypeOK, NEW r \in Requests, cmd' = [cmd EXCEPT ![r] = Idle]
  PROVE  /\ cmd' \in [Requests -> Command]
         /\ \A q \in Requests : cmd'[q].at \in {"handler", "close"} => cmd'[q].session # 0
<1>1. Idle \in Command /\ Idle.at \notin {"handler", "close"}
  BY DEF Idle, Command, Client, TabOrNone
<1> QED  BY <1>1 DEF TypeOK

\* The commands after one of them went from one await to the next.
LEMMA NextAwaitFacts ==
  ASSUME TypeOK, NEW r \in Requests, NEW at \in {"goto", "replacement"},
         cmd' = [cmd EXCEPT ![r].at = at]
  PROVE  /\ cmd' \in [Requests -> Command]
         /\ \A q \in Requests : cmd'[q].at \in {"handler", "close"} => cmd'[q].session # 0
<1>1. cmd[r] \in Command
  BY DEF TypeOK
<1>2. [cmd[r] EXCEPT !.at = at] \in Command
  BY <1>1 DEF Command
<1>3. [cmd[r] EXCEPT !.at = at].at = at
  BY <1>1 DEF Command
<1>4. cmd' = [cmd EXCEPT ![r] = [cmd[r] EXCEPT !.at = at]]
  OBVIOUS
<1> QED  BY <1>2, <1>3, <1>4 DEF TypeOK

\* What a command's end leaves active.
LEMMA RestoreFacts ==
  ASSUME TypeOK, NEW r \in Requests, NEW ps \in SUBSET Tab, NEW a \in TabOrNone,
         ps # {} => a \in ps, Restore(r, ps, a)
  PROVE  /\ active' \in TabOrNone
         /\ ps # {} => active' \in ps
BY DEF Restore, TabOrNone

\* The history stays in its type.
LEMMA HomeFacts ==
  ASSUME TypeOK, Steered \/ NotSteered
  PROVE  home' \in TabOrNone
BY DEF TypeOK, Steered, NotSteered, TabOrNone

\* A command arrives.
LEMMA ArriveFacts ==
  ASSUME TabInv, NEW r \in Requests, NEW t \in TabOrNone, Arrive(r, t)
  PROVE  /\ OpenAreOld' /\ ActiveIsOpen'
         /\ active' \in TabOrNone /\ dispatched' \in 0 .. MaxCommands
         /\ UNCHANGED <<pages, owner, nextTab, alive, closeEvents>>
<1>1. /\ Pinned(t) \in TabOrNone
      /\ pages # {} => Pinned(t) \in pages
  BY PinnedFacts DEF TabInv
<1> QED
  BY <1>1, TabBounds DEF TabInv, TypeOK, OpenAreOld, ActiveIsOpen, Arrive

\* The invariant holds initially.
LEMMA InitInv == Init => TabInv
<1> SUFFICES ASSUME Init PROVE TabInv
  OBVIOUS
<1>1. Idle \in Command /\ Idle.at = "idle"
  BY DEF Idle, Command, Client, TabOrNone
<1>2. TypeOK
  BY <1>1, TabBounds DEF Init, TypeOK, Tab, TabOrNone, Client
<1> QED
  BY <1>2 DEF Init, TabInv, ActiveIsOpen, OpenAreOld

\* Every step preserves it.
LEMMA StepInv == TabInv /\ [Next]_vars => TabInv'
<1> SUFFICES ASSUME TabInv, [Next]_vars PROVE TabInv'
  OBVIOUS
<1>T. TypeOK /\ ActiveIsOpen /\ OpenAreOld
  BY DEF TabInv
<1>1. ASSUME NEW r \in Requests, NEW w \in Client, NEW t \in TabOrNone,
             Arrive(r, t), Steered \/ NotSteered, UNCHANGED cmd
      PROVE  TabInv'
  BY <1>1, <1>T, ArriveFacts, HomeFacts DEF TabInv, TypeOK
<1>2. ASSUME NEW r \in Requests, NEW w \in Client, NEW t \in TabOrNone,
             NEW x \in TabOrNone, NEW at \in {"handler", "newPage", "close"},
             at = "newPage" \/ x # 0,
             Arrive(r, t), Steered \/ NotSteered, Await(r, at, w, t, x)
      PROVE  TabInv'
  BY <1>2, <1>T, ArriveFacts, HomeFacts, AwaitFacts DEF TabInv, TypeOK
<1>3. ASSUME NEW r \in Requests, NEW w \in Client, NEW t \in TabOrNone,
             RefusedOwnership(r, w, t) \/ EarlyReturn(r, w, t) \/ NoSession(r, w, t)
      PROVE  TabInv'
  BY <1>1, <1>3 DEF RefusedOwnership, EarlyReturn, NoSession
<1>4. ASSUME NEW r \in Requests, NEW w \in Client, NEW t \in TabOrNone, Handle(r, w, t)
      PROVE  TabInv'
  <2>1. Pinned(t) \in TabOrNone /\ Pinned(t) # 0
    BY <1>4, <1>T, PinnedFacts DEF Handle, TypeOK, Tab
  <2> QED  BY <1>2, <1>4, <2>1 DEF Handle
<1>5. ASSUME NEW r \in Requests, NEW w \in Client, NEW t \in TabOrNone, OpenTab(r, w, t)
      PROVE  TabInv'
  <2>1. 0 \in TabOrNone
    BY DEF TabOrNone
  <2> QED  BY <1>2, <1>5, <2>1 DEF OpenTab
<1>6. ASSUME NEW r \in Requests, NEW w \in Client, NEW t \in TabOrNone, NEW x \in Tab,
             CloseTab(r, w, t, x)
      PROVE  TabInv'
  <2>1. x \in TabOrNone /\ x # 0
    BY DEF TabOrNone, Tab
  <2> QED  BY <1>2, <1>6, <2>1 DEF CloseTab
<1>7. ASSUME NEW r \in Requests, NEW w \in Client, NEW t \in TabOrNone, NEW x \in Tab,
             ChooseTab(r, w, t, x)
      PROVE  TabInv'
  <2>1. active' \in pages /\ pages' = pages
    BY <1>7 DEF ChooseTab
  <2>2. active' \in TabOrNone /\ ActiveIsOpen'
    BY <2>1, <1>T DEF TypeOK, ActiveIsOpen, TabOrNone
  <2>3. home' \in TabOrNone
    BY <1>7, <1>T, HomeFacts DEF ChooseTab
  <2> QED
    BY <1>7, <1>T, <2>2, <2>3, TabBounds DEF ChooseTab, TabInv, TypeOK, OpenAreOld
<1>8. ASSUME NEW r \in Requests, HandlerEnds(r)
      PROVE  TabInv'
  <2>1. active' \in TabOrNone /\ ActiveIsOpen'
    BY <1>8, <1>T, RestoreFacts DEF HandlerEnds, TypeOK, ActiveIsOpen
  <2> QED
    BY <1>8, <1>T, <2>1, IdleFacts DEF HandlerEnds, Restore, TabInv, TypeOK, OpenAreOld
<1>9. ASSUME NEW r \in Requests, FilterBlocks(r)
      PROVE  TabInv'
  BY <1>9, <1>T, IdleFacts, HomeFacts
     DEF FilterBlocks, tabVars, TabInv, TypeOK, OpenAreOld, ActiveIsOpen
<1>10. ASSUME NEW r \in Requests, PageMade(r)
       PROVE  TabInv'
  <2>1. nextTab \in Tab /\ nextTab + 1 \in 1 .. MaxTabs + 1
    BY <1>10, <1>T, TabBounds DEF PageMade, TypeOK, Tab
  <2>2. cmd[r].who \in Client
    BY <1>T DEF TypeOK, Command
  <2>3. OpenAreOld' /\ ActiveIsOpen'
    BY <1>10, <1>T, <2>1 DEF PageMade, FreshId, TypeOK, OpenAreOld, ActiveIsOpen, Tab
  <2>4. /\ cmd' \in [Requests -> Command]
        /\ \A q \in Requests : cmd'[q].at \in {"handler", "close"} => cmd'[q].session # 0
    BY <1>10, <1>T, NextAwaitFacts DEF PageMade
  <2>5. pages' \subseteq Tab /\ alive' \subseteq Tab /\ active' \in TabOrNone
        /\ owner' \in [Tab -> Client]
    BY <1>10, <1>T, <2>1, <2>2 DEF PageMade, FreshId, TypeOK, TabOrNone
  <2> QED
    BY <1>10, <1>T, <2>1, <2>3, <2>4, <2>5 DEF PageMade, TabInv, TypeOK
<1>11. ASSUME NEW r \in Requests, NewTabEnds(r)
       PROVE  TabInv'
  <2>1. active' \in TabOrNone /\ ActiveIsOpen'
    <3>1. CASE cmd[r].who = Root
      BY <1>11, <1>T, <3>1, RestoreFacts DEF NewTabEnds, TypeOK, ActiveIsOpen
    <3>2. CASE cmd[r].who # Root
      BY <1>11, <1>T, <3>2 DEF NewTabEnds, TypeOK, ActiveIsOpen
    <3> QED  BY <3>1, <3>2
  <2>2. cmd' = [cmd EXCEPT ![r] = Idle] /\ UNCHANGED dispatched
    BY <1>11 DEF NewTabEnds, Restore
  <2> QED
    BY <1>11, <1>T, <2>1, <2>2, IdleFacts DEF NewTabEnds, TabInv, TypeOK, OpenAreOld
<1>12. ASSUME NEW t \in Tab, PageCloses(t)
       PROVE  TabInv'
  BY <1>12, <1>T DEF PageCloses, TabInv, TypeOK, OpenAreOld, ActiveIsOpen
<1>13. ASSUME NEW t \in Tab, CloseEvent(t)
       PROVE  TabInv'
  <2>1. pages' \in SUBSET Tab
    BY <1>13, <1>T DEF CloseEvent, TypeOK
  <2>2. /\ LastOf(pages') \in TabOrNone
        /\ pages' # {} => LastOf(pages') \in pages'
    BY <2>1, LastOfFacts
  <2>3. active' \in TabOrNone /\ ActiveIsOpen'
    BY <1>13, <1>T, <2>2 DEF CloseEvent, TypeOK, ActiveIsOpen
  <2> QED
    BY <1>13, <1>T, <2>1, <2>3, HomeFacts DEF CloseEvent, TabInv, TypeOK, OpenAreOld
<1>14. ASSUME NEW r \in Requests, CloseResolves(r)
       PROVE  TabInv'
  <2> DEFINE x == cmd[r].session
             rest == pages \ {x}
             fallback == IF x = active THEN LastOf(rest) ELSE active
  <2>1. rest \in SUBSET Tab /\ pages' = rest
    BY <1>14, <1>T DEF CloseResolves, TypeOK
  <2>2. fallback \in TabOrNone /\ (rest # {} => fallback \in rest)
    BY <1>T, <2>1, LastOfFacts DEF TypeOK, ActiveIsOpen
  <2>3. owner' \in [Tab -> Client]
    BY <1>14, <1>T DEF CloseResolves, TypeOK, Client
  <2>4. UNCHANGED <<nextTab, alive, closeEvents, home>>
    BY <1>14 DEF CloseResolves
  <2>5. CASE x = active /\ rest = {}
    <3>1. cmd' = [cmd EXCEPT ![r].at = "replacement"] /\ UNCHANGED <<active, dispatched>>
      BY <1>14, <2>5 DEF CloseResolves
    <3>2. ActiveIsOpen'
      BY <2>1, <2>5 DEF ActiveIsOpen
    <3> QED
      BY <1>T, <2>1, <2>3, <2>4, <3>1, <3>2, NextAwaitFacts DEF TabInv, TypeOK, OpenAreOld
  <2>6. CASE ~(x = active /\ rest = {})
    <3>1. Restore(r, rest, fallback)
      BY <1>14, <2>6 DEF CloseResolves
    <3> HIDE DEF fallback, rest
    <3>2. active' \in TabOrNone /\ ActiveIsOpen'
      BY <1>T, <2>1, <2>2, <3>1, RestoreFacts DEF ActiveIsOpen
    <3>3. cmd' = [cmd EXCEPT ![r] = Idle] /\ UNCHANGED dispatched
      BY <3>1 DEF Restore
    <3>4. OpenAreOld'
      BY <1>T, <2>1, <2>4 DEF OpenAreOld, rest
    <3> QED
      BY <1>T, <2>1, <2>3, <2>4, <3>2, <3>3, <3>4, IdleFacts DEF TabInv, TypeOK
  <2> QED  BY <2>5, <2>6
<1>15. ASSUME NEW r \in Requests, Replaced(r)
       PROVE  TabInv'
  <2>1. nextTab \in Tab /\ nextTab + 1 \in 1 .. MaxTabs + 1
    BY <1>15, <1>T, TabBounds DEF Replaced, TypeOK, Tab
  <2>2. pages' \in SUBSET Tab /\ alive' \subseteq Tab /\ nextTab \in pages'
    BY <1>15, <1>T, <2>1 DEF Replaced, FreshId, TypeOK
  <2>3. Restore(r, pages', nextTab) /\ nextTab \in TabOrNone
    BY <1>15, <2>1 DEF Replaced, FreshId, TabOrNone
  <2>4. active' \in TabOrNone /\ ActiveIsOpen'
    BY <1>T, <2>2, <2>3, RestoreFacts DEF ActiveIsOpen
  <2>5. OpenAreOld' /\ nextTab' \in 1 .. MaxTabs + 1
    BY <1>15, <1>T, <2>1 DEF Replaced, FreshId, OpenAreOld, Tab
  <2>6. cmd' = [cmd EXCEPT ![r] = Idle] /\ UNCHANGED dispatched
    BY <2>3 DEF Restore
  <2> QED
    BY <1>15, <1>T, <2>2, <2>4, <2>5, <2>6, IdleFacts DEF Replaced, TabInv, TypeOK
<1>16. CASE UNCHANGED vars
  BY <1>T, <1>16 DEF vars, tabVars, TabInv, TypeOK, OpenAreOld, ActiveIsOpen
<1> QED
  BY <1>3, <1>4, <1>5, <1>6, <1>7, <1>8, <1>9, <1>10, <1>11, <1>12, <1>13, <1>14, <1>15,
     <1>16 DEF Next

THEOREM Invariance == Spec => []TabInv
<1> QED  BY InitInv, StepInv, PTL DEF Spec

\* The variables keep their types, whatever the clients, tabs and commands.
THEOREM TypeCorrect == Spec => []TypeOK
<1>1. TabInv => TypeOK
  BY DEF TabInv
<1> QED  BY <1>1, Invariance, PTL

\* While a tab is open the active one is open, for any number of concurrent
\* commands and tabs, and both orders of a close event and its resolution.
THEOREM ActiveTab == Spec => []ActiveIsOpen
<1>1. TabInv => ActiveIsOpen
  BY DEF TabInv
<1> QED  BY <1>1, Invariance, PTL

\* Tabs only come back under new ids, and an owned id goes to nobody else.
THEOREM FreshIds == Spec => IdsAreNotReused
<1>1. ASSUME TabInv, [Next]_vars
      PROVE  [KeepsIds]_vars
  <2> SUFFICES ASSUME Next
               PROVE  /\ pages' \subseteq pages \cup {nextTab}
                      /\ \A t \in Tab : t < nextTab => owner'[t] \in {owner[t], Root}
    <3>1. nextTab \in Nat
      BY <1>1, TabBounds DEF TabInv, TypeOK
    <3> QED  BY <1>1, <3>1 DEF KeepsIds, Tab
  <2>1. nextTab \in Nat /\ owner \in [Tab -> Client]
    BY <1>1, TabBounds DEF TabInv, TypeOK
  <2>2. CASE owner' = owner /\ pages' = pages
    BY <2>2
  <2>3. ASSUME NEW r \in Requests, PageMade(r)
        PROVE  /\ pages' \subseteq pages \cup {nextTab}
               /\ \A t \in Tab : t < nextTab => owner'[t] \in {owner[t], Root}
    BY <2>1, <2>3 DEF PageMade, FreshId, Tab
  <2>4. ASSUME NEW r \in Requests, CloseResolves(r)
        PROVE  /\ pages' \subseteq pages
               /\ \A t \in Tab : owner'[t] \in {owner[t], Root}
    BY <2>1, <2>4 DEF CloseResolves
  <2>5. ASSUME NEW r \in Requests, Replaced(r)
        PROVE  owner' = owner /\ pages' = pages \cup {nextTab}
    BY <2>5 DEF Replaced, FreshId
  <2>6. ASSUME NEW t \in Tab, CloseEvent(t)
        PROVE  owner' = owner /\ pages' \subseteq pages
    BY <2>6 DEF CloseEvent
  <2> QED
    BY <2>2, <2>3, <2>4, <2>5, <2>6
       DEF Next, RefusedOwnership, EarlyReturn, NoSession, Handle, OpenTab, CloseTab, Arrive,
           ChooseTab, HandlerEnds, FilterBlocks, tabVars, NewTabEnds, PageCloses
<1> QED  BY <1>1, Invariance, PTL DEF Spec, IdsAreNotReused
=============================================================================
