--------------------------- MODULE BrowserRunProofs ---------------------------
(* Proofs about the browser context and the calls into it: its recreation,   *)
(* the cookies imported into it, the CDP sessions of the inspector; and      *)
(* about the specification of the browser as its parts run side by side,     *)
(* whose invariants theirs are.                                              *)
EXTENDS MCBrowser, BrowserProofs, Integers, FiniteSetTheorems, FunctionTheorems,
        SequenceTheorems, WellFoundedInduction, TLAPS

-----------------------------------------------------------------------------
(* ContextSwap: WholeAfterSwap and OwnersSurvive for any number of calls,    *)
(* agents, tabs and contexts.  Neither is inductive.  What there is while a  *)
(* swap is under way depends on where it awaits, which Stage and Steady say  *)
(* of one call; StepKept then leaves each action only what its own call goes *)
(* on with.  The owners live in three places, the map, the saved tabs and    *)
(* the tabs themselves, and a swap empties the map only when no tab is left. *)

\* The calls that replace the context of a headless browser.
Recreates == {"recreate", "rescale", "rollback"}
\* For whom a tab is opened: an agent, or nobody in particular.
Clients == Agents \cup {Nobody}

\* Where a call can await.
Stops == {"idle", "save", "closePages", "closeContext", "newContext", "launch", "cookies", "newPage", "load",
          "blankTab", "fallback", "blankContext", "fallbackTab", "closeHeaded", "closeUnwired", "page"}

\* A call as it can be while there are n tabs and c contexts.
Call(n, c) ==
  [kind : Swapping \cup {"idle", "newtab"}, at : Stops, cur : 0..n, saved : Seq(Saved), ctx : 0..c,
   activeId : 0..n, prev : Scales, for : Clients, mine : 0..c]

\* The kinds of the variables, the calls left out; the newest context is the current one.
RestKinds ==
  /\ contexts \in 1..MaxContexts /\ context = contexts /\ openContexts \subseteq 1..contexts
  /\ made \in 0..MaxTabs /\ tabs \subseteq 1..made /\ active \in 0..made
  /\ pageContext \in Seq(Nat) /\ Len(pageContext) = made /\ \A id \in 1..made : pageContext[id] \in 1..contexts
  /\ openedFor \in Seq(Clients) /\ Len(openedFor) = made
  /\ DOMAIN tabOwner \subseteq 1..made /\ \A id \in DOMAIN tabOwner : tabOwner[id] \in Agents
  /\ scale \in Scales /\ scaleOf \in Seq(Scales \cup {0}) /\ Len(scaleOf) = contexts
  /\ events \in 0..MaxEvents /\ outcome \in {"ok", "blank", "none", "handoff"}

\* The kinds of the flags, which Zenon is better at.
Flags == {headed, isHeaded, exited, overlap} \subseteq BOOLEAN

\* Where a call awaits tells what kind of call it is.
Formed(c) ==
  /\ c.kind = "idle" => c = Idle
  /\ c.kind = "newtab" => c.at = "page" /\ c.saved = <<>>
  /\ c.at = "save" => c.kind \in Recreates \cup {"handoff"}
  /\ c.at = "closePages" => c.kind \in Recreates \cup {"load"}
  /\ c.at \in {"closeContext", "newContext", "fallback", "blankContext", "fallbackTab"} => c.kind \in Recreates
  /\ c.at \in {"launch", "closeHeaded", "closeUnwired"} => c.kind = "handoff"
  /\ c.at \in {"newPage", "load"} => c.saved # <<>>
  /\ c.at = "page" => c.kind = "newtab"

\* The kinds of all the variables.
SwapKinds ==
  /\ RestKinds /\ Flags /\ swap \in [Calls -> Call(made, contexts)]
  /\ \A p \in Calls : Formed(swap[p])

\* What was saved of a tab names no other owner than it had.
Lawful(s) == \A i \in 1..Len(s) : s[i].owner \in {Nobody, s[i].for}
\* It names the owner.
Exact(s) == \A i \in 1..Len(s) : s[i].owner = s[i].for

\* A tab is never owned by another client than the one it was opened for.
Attributed ==
  /\ \A id \in DOMAIN tabOwner : tabOwner[id] = openedFor[id]
  /\ \A p \in Calls : Lawful(swap[p].saved)

\* A tab that was opened for a client is owned.
Owned(id) == openedFor[id] # Nobody => id \in DOMAIN tabOwner

\* Where a swap has closed the tabs and not yet restored them.
Emptied == {"closeContext", "newContext", "cookies", "blankTab", "fallback", "blankContext", "fallbackTab"}

\* What a call that nothing overlaps relies on until it ends.
Steady(c) ==
  /\ c.kind \in Recreates => ~headed
  /\ c.kind = "handoff" /\ c.at \notin {"save", "launch"} => headed
  /\ Exact(c.saved)
  /\ c.at = "save" /\ c.cur # 0 => Owned(c.cur)
  /\ c.at \in Emptied => tabs = {}

\* One swap is under way, and nothing besides.
Alone == \A p, q \in Calls : swap[p].kind \in Swapping /\ p # q => swap[q].kind = "idle"

\* What holds until calls overlap.
Calm ==
  /\ outcome = "handoff" => headed
  /\ \A id \in tabs : Owned(id)
  /\ \A p \in Calls : Steady(swap[p])

\* The tabs are in the current context.
Inside == \A id \in tabs : pageContext[id] = context
\* The active tab is one of them.
HasActive == tabs # {} => active \in tabs
\* The current context was made with the scale that is tracked.
Scaled == scaleOf[context] \in {scale, 0}
\* The other contexts are closed.
Only == openContexts = {context}
\* What a swap finds and has to leave behind.
Whole == Only /\ Inside /\ HasActive /\ Scaled

\* While tabs are restored the new context is there; handoff has the old one open as well.
Held(c) ==
  /\ context \in openContexts /\ Scaled /\ Inside
  /\ c.kind = "handoff" => c.mine = context
  /\ c.kind # "handoff" => Only

\* What is there at each await of a call.
Stage(c) ==
  /\ c.kind = "newtab" => c.ctx = context
  /\ c.at \in {"save", "closePages"} => Only /\ Inside /\ HasActive
  /\ c.at = "save" => c.ctx \in {0, context} /\ (c.kind \in {"recreate", "handoff"} => Scaled)
  /\ c.at = "closePages" /\ c.kind = "load" => Scaled
  /\ c.at = "launch" => Whole
  /\ c.at \in {"closeContext", "fallback"} => c.ctx = context /\ openContexts \subseteq {context}
  /\ c.at \in {"newContext", "blankContext"} => openContexts = {}
  /\ c.at = "fallbackTab" => c.ctx = context /\ Only /\ Scaled
  /\ c.at \in {"cookies", "newPage", "load", "blankTab"} => Held(c)
  /\ c.at \in {"newPage", "blankTab"} => c.ctx = context
  /\ c.at \notin {"closeHeaded", "closeUnwired"}

\* So it is with every call, and outside of them the browser is whole.
AtStages ==
  /\ (\A p \in Calls : swap[p].kind \notin Swapping) => Whole
  /\ \A p \in Calls : Stage(swap[p])

\* The daemon goes on, and no swap has ended without a context or in the catch of handoff.
Sound == ~exited /\ outcome \in {"ok", "blank"}

\* The inductive invariant.
SwapInv ==
  /\ SwapKinds /\ Attributed
  /\ ~overlap => Alone /\ Calm
  /\ ~overlap /\ Sound => AtStages

\* The bounds are numbers, and the two scales are exchanged by Rescale.
LEMMA SwapNumbers ==
  /\ Nobody \notin Agents /\ MaxTabs \in Nat \ {0} /\ MaxContexts \in Nat \ {0} /\ MaxEvents \in Nat
  /\ 1 \in Scales /\ \A s \in Scales : s \in Nat /\ s # 0 /\ 3 - s \in Scales
BY SwapAssumption DEF Scales

\* Min of a set of tabs is one of them.
LEMMA LeastTab ==
  ASSUME NEW S \in SUBSET Nat, S # {}
  PROVE  Min(S) \in S
<1>1. PICK m \in S : \A n \in S : <<n, m>> \notin OpToRel(<, Nat)
  BY WFMin, NatLessThanWellFounded
<1>2. \A n \in S : m <= n
  <2> TAKE n \in S
  <2>1. ~(n < m)
    BY <1>1 DEF OpToRel
  <2> QED BY <2>1
<1> QED BY <1>2 DEF Min

\* So is Max, of a set that is bounded.
LEMMA GreatestTab ==
  ASSUME NEW n \in Nat, NEW S \in SUBSET (1..n), S # {}
  PROVE  Max(S) \in S
<1> DEFINE Below == {n - t : t \in S}
<1>1. \A t \in S : t \in Nat /\ n - t \in Nat
  OBVIOUS
<1>2. Below \subseteq Nat /\ Below # {}
  BY <1>1
<1>3. PICK m \in Below : \A k \in Below : <<k, m>> \notin OpToRel(<, Nat)
  <2> HIDE DEF Below
  <2> QED BY <1>2, WFMin, NatLessThanWellFounded
<1>4. PICK t \in S : m = n - t
  BY <1>3
<1>5. \A u \in S : t >= u
  <2> TAKE u \in S
  <2>1. n - u \in Below
    OBVIOUS
  <2>2. ~(n - u < m)
    BY <1>2, <1>3, <2>1 DEF OpToRel
  <2> QED BY <1>1, <1>4, <2>2
<1> QED BY <1>5 DEF Max

\* The active tab falls to one that stays open, if one does.
LEMMA FallsAre ==
  ASSUME RestKinds, NEW gone
  PROVE  /\ FallsTo(gone) \in 0..made
         /\ HasActive /\ tabs \ gone # {} => FallsTo(gone) \in tabs \ gone
<1>1. /\ made \in Nat /\ tabs \subseteq 1..made /\ active \in 0..made
      /\ 0 \in 0..made /\ \A id \in tabs : id \in 0..made
  BY SwapNumbers DEF RestKinds
<1>2. CASE active \notin tabs \cap gone
  BY <1>1, <1>2 DEF FallsTo, HasActive
<1>3. CASE active \in tabs \cap gone /\ tabs \subseteq gone
  <2>1. FallsTo(gone) = 0 /\ tabs \ gone = {}
    BY <1>3 DEF FallsTo
  <2> QED BY <1>1, <2>1
<1>4. CASE active \in tabs \cap gone /\ ~(tabs \subseteq gone)
  <2> DEFINE left == tabs \ gone
  <2>1. left # {} /\ left \in SUBSET (1..made)
    BY <1>1, <1>4
  <2>2. FallsTo(gone) = Max(left)
    BY <1>4 DEF FallsTo
  <2> HIDE DEF left
  <2>3. Max(left) \in left
    BY <1>1, <2>1, GreatestTab
  <2>4. FallsTo(gone) \in tabs \ gone
    BY <2>2, <2>3 DEF left
  <2>5. FallsTo(gone) \in 0..made
    BY <1>1, <2>4
  <2> QED BY <2>4, <2>5
<1> QED BY <1>2, <1>3, <1>4

\* The iteration over the tabs comes to an open tab, or to its end.
LEMMA AfterIs ==
  ASSUME RestKinds, NEW cur
  PROVE  After(cur) \in tabs \cup {0} /\ After(cur) \in 0..made
<1>1. /\ made \in Nat /\ tabs \subseteq 1..made /\ tabs \subseteq Nat
      /\ 0 \in 0..made /\ \A id \in tabs : id \in 0..made
  BY SwapNumbers DEF RestKinds
<1> DEFINE later == {id \in tabs : id > cur}
<1>2. later \in SUBSET Nat /\ later \subseteq tabs
  BY <1>1
<1>3. After(cur) = IF later = {} THEN 0 ELSE Min(later)
  BY DEF After
<1> HIDE DEF later
<1>4. later # {} => Min(later) \in later
  BY <1>2, LeastTab
<1>5. After(cur) \in tabs \cup {0}
  BY <1>2, <1>3, <1>4
<1> QED BY <1>1, <1>5

\* What is among the first n numbers is among them and zero.
LEMMA Among ==
  ASSUME NEW n \in Nat, NEW S \in SUBSET (1..n)
  PROVE  \A id \in S : id \in 0..n
OBVIOUS

\* A saved tab names clients.
LEMMA SavedAre == \A s \in Saved : s.owner \in Clients /\ s.for \in Clients
BY DEF Saved, Clients

\* The fields of a call.
LEMMA CallFields ==
  ASSUME NEW n \in Nat, NEW c \in Nat, NEW x \in Call(n, c)
  PROVE  /\ x.kind \in Swapping \cup {"idle", "newtab"} /\ x.at \in Stops /\ x.cur \in 0..n
         /\ x.saved \in Seq(Saved) /\ x.ctx \in 0..c /\ x.activeId \in 0..n /\ x.prev \in Scales
         /\ x.for \in Clients /\ x.mine \in 0..c
BY DEF Call

\* A call stays one when there are more tabs and contexts.
LEMMA CallGrows ==
  ASSUME NEW n \in Nat, NEW c \in Nat, NEW m \in Nat, NEW d \in Nat, n <= m, c <= d, NEW x \in Call(n, c)
  PROVE  x \in Call(m, d)
BY DEF Call

\* An idle call is a call.
LEMMA IdleIs ==
  /\ \A n, c \in Nat : Idle \in Call(n, c)
  /\ Idle.kind = "idle" /\ Idle.at = "idle" /\ Idle.saved = <<>> /\ Idle.ctx = 0 /\ Idle.cur = 0
  /\ Len(Idle.saved) = 0
<1>1. <<>> \in Seq(Saved)
  OBVIOUS
<1>2. \A n, c \in Nat : 0 \in 0..n
  OBVIOUS
<1> QED BY <1>1, <1>2, SwapNumbers DEF Idle, Call, Stops, Clients, Scales

\* The counts are numbers, and there is a context.
LEMMA Numbers ==
  ASSUME RestKinds
  PROVE  /\ made \in Nat /\ contexts \in Nat /\ contexts # 0 /\ 1 <= contexts
         /\ context = contexts /\ context \in 1..contexts
BY SwapNumbers DEF RestKinds

\* The fields of the calls under way.
LEMMA CallsAre ==
  ASSUME SwapKinds, NEW p \in Calls
  PROVE  /\ swap[p] \in Call(made, contexts)
         /\ swap[p].kind \in Swapping \cup {"idle", "newtab"} /\ swap[p].at \in Stops
         /\ swap[p].cur \in 0..made
         /\ swap[p].saved \in Seq(Saved) /\ swap[p].ctx \in 0..contexts /\ swap[p].activeId \in 0..made
         /\ swap[p].prev \in Scales /\ swap[p].for \in Clients /\ swap[p].mine \in 0..contexts
<1>1. swap[p] \in Call(made, contexts)
  BY DEF SwapKinds
<1> QED BY <1>1, Numbers, CallFields DEF SwapKinds

\* A step moves one call.
LEMMA SwapMoves ==
  ASSUME SwapKinds, NEW p \in Calls, RestKinds', made <= made', contexts <= contexts',
         NEW to \in Call(made', contexts'), swap' = [swap EXCEPT ![p] = to]
  PROVE  /\ swap' \in [Calls -> Call(made', contexts')] /\ swap'[p] = to
         /\ \A q \in Calls : q # p => swap'[q] = swap[q]
<1>1. /\ made \in Nat /\ contexts \in Nat /\ made' \in Nat /\ contexts' \in Nat
      /\ swap \in [Calls -> Call(made, contexts)]
  BY SwapNumbers DEF RestKinds, SwapKinds
<1>2. \A q \in Calls : swap[q] \in Call(made', contexts')
  BY <1>1, CallGrows
<1> QED BY <1>1, <1>2

\* An idle call has nothing to keep.
LEMMA IdleStands == Formed(Idle) /\ Lawful(Idle.saved) /\ Steady(Idle) /\ Stage(Idle)
BY IdleIs DEF Formed, Lawful, Steady, Stage, Exact, Emptied, Recreates

\* The kinds of calls.
LEMMA KindsAre ==
  /\ "idle" \notin Swapping /\ "newtab" \notin Swapping
  /\ Recreates \subseteq Swapping /\ "handoff" \in Swapping /\ "load" \in Swapping
  /\ Swapping = Recreates \cup {"handoff", "load"}
BY DEF Swapping, Recreates

\* A step of one swap keeps the invariant if what the swap goes on with does.
LEMMA StepKept ==
  ASSUME SwapInv, NEW p \in Calls, swap[p].kind \in Swapping,
         RestKinds', Flags', made <= made', contexts <= contexts',
         NEW to \in Call(made', contexts'), swap' = [swap EXCEPT ![p] = to],
         to = Idle \/ (to.kind \in Swapping /\ Formed(to)),
         \A id \in DOMAIN tabOwner' : tabOwner'[id] = openedFor'[id],
         Lawful(to.saved),
         overlap' = overlap,
         ~overlap => /\ outcome' = "handoff" => headed'
                     /\ \A id \in tabs' : Owned(id)'
                     /\ Steady(to)',
         ~overlap /\ Sound' => IF to = Idle THEN Whole' ELSE Stage(to)'
  PROVE  SwapInv'
<1>1. SwapKinds /\ Attributed
  BY DEF SwapInv
<1>2. /\ swap' \in [Calls -> Call(made', contexts')] /\ swap'[p] = to
      /\ \A q \in Calls : q # p => swap'[q] = swap[q]
  BY <1>1, SwapMoves
<1>3. SwapKinds'
  <2>1. \A q \in Calls : Formed(swap'[q])
    <3>1. Formed(to)
      BY IdleStands
    <3> QED BY <1>1, <1>2, <3>1 DEF SwapKinds
  <2> QED BY <1>2, <2>1 DEF SwapKinds, Formed
<1>4. Attributed'
  <2>1. \A q \in Calls : Lawful(swap'[q].saved)
    BY <1>1, <1>2 DEF Attributed
  <2> QED BY <2>1 DEF Attributed, Lawful
<1>5. ASSUME ~overlap PROVE \A q \in Calls : q # p => swap'[q] = Idle
  BY <1>1, <1>2, <1>5 DEF SwapInv, Alone, SwapKinds, Formed
<1>6. ASSUME ~overlap PROVE Alone' /\ Calm'
  <2>1. Alone'
    BY <1>5, <1>6, IdleIs, KindsAre DEF Alone
  <2>2. \A q \in Calls : Steady(swap[q])'
    <3> TAKE q \in Calls
    <3>1. CASE q = p
      BY <1>2, <1>6, <3>1 DEF Steady, Owned
    <3>2. CASE q # p
      <4>1. swap'[q] = Idle
        BY <1>5, <1>6, <3>2
      <4> QED BY <4>1, IdleIs DEF Steady, Exact, Emptied, Recreates
    <3> QED BY <3>1, <3>2
  <2> QED BY <1>6, <2>1, <2>2 DEF Calm
<1>7. ASSUME ~overlap, Sound' PROVE AtStages'
  <2>1. \A q \in Calls : Stage(swap[q])'
    <3> TAKE q \in Calls
    <3>1. CASE q = p /\ to # Idle
      BY <1>2, <1>7, <3>1 DEF Stage, Held
    <3>2. CASE q # p \/ to = Idle
      <4>1. swap'[q] = Idle
        BY <1>2, <1>5, <1>7, <3>2
      <4> QED BY <4>1, IdleIs DEF Stage, Recreates
    <3> QED BY <3>1, <3>2
  <2>2. (\A q \in Calls : swap'[q].kind \notin Swapping) => Whole'
    BY <1>2, <1>7
  <2> QED BY <2>1, <2>2 DEF AtStages
<1> QED BY <1>3, <1>4, <1>6, <1>7 DEF SwapInv

\* A call that awaits anything but its own tab is a swap.
LEMMA AtSwaps ==
  ASSUME SwapKinds, NEW p \in Calls, swap[p].at \notin {"idle", "page"}
  PROVE  swap[p].kind \in Swapping
BY CallsAre, IdleIs DEF SwapKinds, Formed

\* What the invariant says of one call.
LEMMA Standing ==
  ASSUME SwapInv, NEW p \in Calls
  PROVE  /\ SwapKinds /\ RestKinds /\ Flags /\ Attributed /\ Lawful(swap[p].saved) /\ Formed(swap[p])
         /\ \A id \in DOMAIN tabOwner : tabOwner[id] = openedFor[id]
         /\ ~overlap => /\ outcome = "handoff" => headed
                        /\ \A id \in tabs : Owned(id)
                        /\ Steady(swap[p])
         /\ ~overlap /\ Sound => Stage(swap[p])
BY DEF SwapInv, SwapKinds, Attributed, Calm, AtStages

\* A new page has the next number, its context and its owner; the others keep theirs.
LEMMA PageAdded ==
  ASSUME RestKinds, NEW c \in 1..contexts, NEW o \in Clients, NEW f \in Clients, AddPage(c, o, f)
  PROVE  /\ made' = made + 1 /\ made' \in 0..MaxTabs /\ made <= made'
         /\ tabs' = tabs \cup {made'} /\ tabs' \subseteq 1..made'
         /\ pageContext' \in Seq(Nat) /\ Len(pageContext') = made' /\ pageContext'[made'] = c
         /\ \A id \in 1..made : pageContext'[id] = pageContext[id] /\ openedFor'[id] = openedFor[id]
         /\ \A id \in 1..made' : pageContext'[id] \in 1..contexts
         /\ openedFor' \in Seq(Clients) /\ Len(openedFor') = made' /\ openedFor'[made'] = f
         /\ DOMAIN tabOwner' \subseteq 1..made' /\ DOMAIN tabOwner \subseteq DOMAIN tabOwner'
         /\ \A id \in DOMAIN tabOwner' : tabOwner'[id] \in Agents
         /\ o # Nobody => made' \in DOMAIN tabOwner'
         /\ (\A id \in DOMAIN tabOwner : tabOwner[id] = openedFor[id]) /\ o \in {Nobody, f}
              => \A id \in DOMAIN tabOwner' : tabOwner'[id] = openedFor'[id]
<1>1. /\ made \in Nat /\ contexts \in Nat /\ tabs \subseteq 1..made /\ c \in Nat
      /\ pageContext \in Seq(Nat) /\ Len(pageContext) = made /\ \A id \in 1..made : pageContext[id] \in 1..contexts
      /\ openedFor \in Seq(Clients) /\ Len(openedFor) = made
      /\ DOMAIN tabOwner \subseteq 1..made /\ \A id \in DOMAIN tabOwner : tabOwner[id] \in Agents
  BY SwapNumbers DEF RestKinds
<1>2. made < MaxTabs /\ made' = made + 1 /\ tabs' = tabs \cup {made + 1}
      /\ pageContext' = Append(pageContext, c) /\ openedFor' = Append(openedFor, f)
      /\ tabOwner' = IF o = Nobody THEN tabOwner
                     ELSE [id \in DOMAIN tabOwner \cup {made + 1} |-> IF id = made + 1 THEN o ELSE tabOwner[id]]
  BY DEF AddPage
<1>3. /\ pageContext' \in Seq(Nat) /\ Len(pageContext') = made + 1 /\ pageContext'[made + 1] = c
      /\ \A id \in 1..made : pageContext'[id] = pageContext[id]
  BY <1>1, <1>2, AppendProperties
<1>4. /\ openedFor' \in Seq(Clients) /\ Len(openedFor') = made + 1 /\ openedFor'[made + 1] = f
      /\ \A id \in 1..made : openedFor'[id] = openedFor[id]
  BY <1>1, <1>2, AppendProperties
<1>5. /\ made' = made + 1 /\ made' \in 0..MaxTabs /\ made <= made' /\ tabs' \subseteq 1..made'
      /\ tabs' = tabs \cup {made'}
  BY <1>1, <1>2, SwapNumbers
<1>6. \A id \in 1..made' : id \in 1..made \/ id = made'
  BY <1>1, <1>5
<1>7. CASE o = Nobody
  <2>1. tabOwner' = tabOwner
    BY <1>2, <1>7
  <2>2. (\A id \in DOMAIN tabOwner : tabOwner[id] = openedFor[id])
          => \A id \in DOMAIN tabOwner' : tabOwner'[id] = openedFor'[id]
    BY <1>1, <1>4, <2>1
  <2>3. \A id \in 1..made' : pageContext'[id] \in 1..contexts
    BY <1>1, <1>3, <1>5, <1>6
  <2>4. 1..made \subseteq 1..made'
    BY <1>1, <1>5
  <2> QED BY <1>1, <1>3, <1>4, <1>5, <1>7, <2>1, <2>2, <2>3, <2>4
<1>8. CASE o # Nobody
  <2>1. /\ DOMAIN tabOwner' = DOMAIN tabOwner \cup {made'}
        /\ \A id \in DOMAIN tabOwner' : tabOwner'[id] = IF id = made' THEN o ELSE tabOwner[id]
    BY <1>2, <1>5, <1>8
  <2>2. o \in Agents
    BY <1>8 DEF Clients
  <2>3. \A id \in DOMAIN tabOwner : id # made'
    BY <1>1, <1>5
  <2>4. /\ DOMAIN tabOwner' \subseteq 1..made' /\ DOMAIN tabOwner \subseteq DOMAIN tabOwner'
        /\ \A id \in DOMAIN tabOwner' : tabOwner'[id] \in Agents
        /\ made' \in DOMAIN tabOwner' /\ 1..made \subseteq 1..made'
    BY <1>1, <1>5, <2>1, <2>2, <2>3
  <2>5. (\A id \in DOMAIN tabOwner : tabOwner[id] = openedFor[id]) /\ o \in {Nobody, f}
          => \A id \in DOMAIN tabOwner' : tabOwner'[id] = openedFor'[id]
    BY <1>1, <1>4, <1>5, <1>8, <2>1, <2>3
  <2>6. \A id \in 1..made' : pageContext'[id] \in 1..contexts
    BY <1>1, <1>3, <1>5, <1>6
  <2> QED BY <1>1, <1>3, <1>4, <1>5, <1>8, <2>4, <2>5, <2>6
<1> QED BY <1>7, <1>8

\* A new context has the next number and its scale; it is the current one.
LEMMA ContextAdded ==
  ASSUME RestKinds, NEW s \in Scales \cup {0}, AddContext(s)
  PROVE  /\ contexts' \in 1..MaxContexts /\ contexts <= contexts' /\ context' = contexts'
         /\ contexts' = contexts + 1
         /\ openContexts' \subseteq 1..contexts' /\ openContexts' = openContexts \cup {context'}
         /\ scaleOf' \in Seq(Scales \cup {0}) /\ Len(scaleOf') = contexts' /\ scaleOf'[context'] = s
         /\ 1..contexts \subseteq 1..contexts'
<1>1. /\ contexts \in Nat /\ openContexts \subseteq 1..contexts
      /\ scaleOf \in Seq(Scales \cup {0}) /\ Len(scaleOf) = contexts
  BY SwapNumbers DEF RestKinds
<1>2. contexts < MaxContexts /\ contexts' = contexts + 1 /\ context' = contexts + 1
      /\ openContexts' = openContexts \cup {contexts + 1} /\ scaleOf' = Append(scaleOf, s)
  BY DEF AddContext
<1>3. scaleOf' \in Seq(Scales \cup {0}) /\ Len(scaleOf') = contexts + 1 /\ scaleOf'[contexts + 1] = s
  BY <1>1, <1>2, AppendProperties
<1> QED BY <1>1, <1>2, <1>3, SwapNumbers

\* A throw keeps the invariant, whichever way it takes the call.
LEMMA ThrowKept ==
  ASSUME SwapInv, NEW p \in Calls, swap[p].kind \in Swapping, Throws(p),
         UNCHANGED <<context, contexts, openContexts, scaleOf, made, pageContext, openedFor,
                     scale, headed, isHeaded, exited, events, overlap>>,
         active' \in 0..made,
         tabOwner' = tabOwner \/ (tabOwner' = <<>> /\ (~overlap => tabs = {})),
         ~overlap /\ swap[p].kind = "handoff" => headed,
         ~overlap /\ Sound /\ swap[p].kind \in Recreates => openContexts \subseteq {context}
  PROVE  SwapInv'
<1>1. /\ SwapKinds /\ RestKinds /\ Flags /\ Attributed /\ Formed(swap[p])
      /\ \A id \in DOMAIN tabOwner : tabOwner[id] = openedFor[id]
      /\ ~overlap => (outcome = "handoff" => headed) /\ (\A id \in tabs : Owned(id)) /\ Steady(swap[p])
  BY Standing
<1>2. made \in Nat /\ contexts \in Nat /\ context \in 0..contexts
  BY <1>1, Numbers
<1>3. swap[p].kind \in Swapping /\ swap[p].mine \in 0..contexts /\ swap[p].prev \in Scales
  BY <1>1, CallsAre
<1>4. DOMAIN <<>> = {}
  OBVIOUS
<1>5. tabs' \subseteq tabs /\ outcome' \in {outcome, "none", "handoff"}
  BY DEF Throws
<1>6. RestKinds' /\ Flags'
  BY <1>1, <1>4, <1>5 DEF RestKinds, Flags
<1>7. /\ \A id \in DOMAIN tabOwner' : tabOwner'[id] = openedFor'[id]
      /\ made <= made' /\ contexts <= contexts' /\ overlap' = overlap
  BY <1>1, <1>2, <1>4
<1>8. ~overlap => \A id \in tabs' : Owned(id)'
  BY <1>1, <1>5 DEF Owned
<1>9. CASE swap[p].kind = "handoff"
  <2>1. PICK to : /\ to = [Idle EXCEPT !.kind = "handoff", !.at = "closeHeaded", !.mine = swap[p].mine]
                  /\ swap' = [swap EXCEPT ![p] = to]
    BY <1>9 DEF Throws
  <2>2. outcome' = "handoff" /\ tabs' = tabs
    BY <1>9 DEF Throws
  <2>3. to \in Call(made', contexts') /\ to.kind = "handoff" /\ to.at = "closeHeaded" /\ to.saved = <<>>
    BY <1>2, <1>3, <2>1, IdleIs, ZenonT(30) DEF Call, Swapping, Stops
  <2>4. to.kind \in Swapping /\ Formed(to) /\ Lawful(to.saved)
    BY <2>3, KindsAre DEF Formed, Lawful, Recreates
  <2>5. ~overlap => headed' /\ Steady(to)'
    BY <1>9, <2>3, KindsAre DEF Steady, Exact, Emptied, Recreates
  <2>6. ~Sound'
    BY <2>2 DEF Sound
  <2> QED BY <1>2, <1>6, <1>7, <1>8, <2>1, <2>3, <2>4, <2>5, <2>6, StepKept
<1>10. CASE swap[p].kind = "load"
  <2>1. swap' = [swap EXCEPT ![p] = Idle] /\ outcome' = "none" /\ tabs' = tabs
    BY <1>10 DEF Throws, Ends
  <2>2. ~Sound'
    BY <2>1 DEF Sound
  <2>3. Idle \in Call(made', contexts') /\ Lawful(Idle.saved) /\ Steady(Idle)'
    BY <1>2, IdleIs DEF Lawful, Steady, Exact, Emptied, Recreates
  <2> QED BY <1>2, <1>6, <1>7, <1>8, <2>1, <2>2, <2>3, StepKept
<1>11. CASE swap[p].kind \notin {"handoff", "load"}
  <2>1. PICK to : /\ to = [Idle EXCEPT !.kind = swap[p].kind, !.at = "fallback", !.ctx = context, !.prev = swap[p].prev]
                  /\ swap' = [swap EXCEPT ![p] = to]
    BY <1>11 DEF Throws
  <2>2. outcome' = outcome /\ tabs' = {}
    BY <1>11 DEF Throws
  <2>3. swap[p].kind \in Recreates
    BY <1>3, <1>11, KindsAre
  <2>4. /\ to \in Call(made', contexts') /\ to.kind \in Recreates /\ to.at = "fallback"
        /\ to.saved = <<>> /\ to.ctx = context
    BY <1>2, <1>3, <2>1, <2>3, IdleIs DEF Call, Stops
  <2>5. to.kind \in Swapping /\ Formed(to) /\ Lawful(to.saved)
    BY <2>4, KindsAre DEF Formed, Lawful, Recreates
  <2>6. ~overlap => (outcome' = "handoff" => headed') /\ Steady(to)'
    BY <1>1, <2>2, <2>3, <2>4, KindsAre DEF Steady, Exact, Recreates
  <2>7. ~overlap /\ Sound' => Stage(to)'
    BY <2>2, <2>3, <2>4 DEF Stage, Sound, Recreates
  <2>8. to # Idle
    BY <2>4, IdleIs
  <2> QED BY <1>2, <1>6, <1>7, <1>8, <2>1, <2>2, <2>4, <2>5, <2>6, <2>7, <2>8, StepKept
<1> QED BY <1>9, <1>10, <1>11

\* So does restoreState, from one saved page to the next and at its end.
LEMMA NextPageKept ==
  ASSUME SwapInv, NEW p \in Calls, swap[p].at \in {"cookies", "load"},
         NEW saved \in Seq(Saved), NEW activeId \in 0..made, NextPage(p, saved, activeId),
         UNCHANGED <<context, contexts, scaleOf, made, pageContext, openedFor,
                     scale, headed, exited, events, overlap>>,
         tabOwner' = tabOwner \/ (tabOwner' = <<>> /\ (~overlap => tabs = {})),
         Lawful(saved), ~overlap => Exact(saved)
  PROVE  SwapInv'
<1>1. /\ SwapKinds /\ RestKinds /\ Flags /\ Attributed /\ Formed(swap[p])
      /\ \A id \in DOMAIN tabOwner : tabOwner[id] = openedFor[id]
      /\ ~overlap => (outcome = "handoff" => headed) /\ (\A id \in tabs : Owned(id)) /\ Steady(swap[p])
      /\ ~overlap /\ Sound => Stage(swap[p])
  BY Standing
<1>2. /\ made \in Nat /\ contexts \in Nat /\ context \in 0..contexts /\ context = contexts
      /\ tabs \subseteq 1..made /\ openContexts \subseteq 1..contexts
  BY <1>1, Numbers DEF RestKinds
<1>3. swap[p].kind \in Swapping /\ swap[p] \in Call(made, contexts)
  BY <1>1, CallsAre, AtSwaps
<1>4. DOMAIN <<>> = {}
  OBVIOUS
<1>5. /\ ~overlap /\ swap[p].kind = "handoff" => headed
      /\ ~overlap /\ swap[p].kind \in Recreates => ~headed
      /\ ~overlap /\ Sound => Held(swap[p])
  BY <1>1 DEF Steady, Stage
<1>6. /\ \A id \in DOMAIN tabOwner' : tabOwner'[id] = openedFor'[id]
      /\ made <= made' /\ contexts <= contexts' /\ overlap' = overlap
  BY <1>1, <1>2, <1>4
<1>7. CASE saved # <<>> \/ tabs = {}
  <2> DEFINE stop == IF saved # <<>> THEN "newPage" ELSE "blankTab"
             which == IF saved # <<>> THEN activeId ELSE 0
  <2>1. PICK to : /\ to = [swap[p] EXCEPT !.at = stop, !.saved = saved, !.activeId = which, !.cur = 0, !.ctx = context]
                  /\ swap' = [swap EXCEPT ![p] = to]
    <3>1. swap' = [swap EXCEPT ![p].at = stop, ![p].saved = saved, ![p].activeId = which,
                               ![p].cur = 0, ![p].ctx = context]
      BY <1>7 DEF NextPage
    <3>2. swap \in [Calls -> Call(made, contexts)]
      BY <1>1 DEF SwapKinds
    <3> QED BY <3>1, <3>2, ZenonT(30)
  <2>2. UNCHANGED <<tabs, active, outcome, isHeaded, openContexts>>
    BY <1>7 DEF NextPage
  <2>3. which \in 0..made /\ stop \in {"newPage", "blankTab"}
    BY <1>2
  <2>4. /\ stop = "blankTab" => tabs = {}
        /\ stop = "newPage" => saved # <<>>
    BY <1>7
  <2> HIDE DEF which, stop
  <2>5. /\ to \in Call(made', contexts') /\ to.kind = swap[p].kind /\ to.at = stop /\ to.saved = saved
        /\ to.ctx = context /\ to.mine = swap[p].mine
    <3>1. stop \in Stops /\ 0 \in 0..made /\ made' = made /\ contexts' = contexts
      BY <1>2, <2>3 DEF Stops
    <3>2. to \in Call(made, contexts)
      BY <1>2, <1>3, <2>1, <2>3, <3>1, Zenon DEF Call
    <3> QED BY <1>3, <2>1, <3>1, <3>2 DEF Call
  <2>6. RestKinds' /\ Flags'
    BY <1>1, <1>4, <2>2 DEF RestKinds, Flags
  <2>7. to.kind \in Swapping /\ Formed(to) /\ Lawful(to.saved) /\ to # Idle
    BY <1>3, <2>3, <2>4, <2>5, KindsAre, IdleIs DEF Formed
  <2>8. ~overlap => (outcome' = "handoff" => headed') /\ (\A id \in tabs' : Owned(id)') /\ Steady(to)'
    BY <1>1, <1>4, <1>5, <2>2, <2>3, <2>4, <2>5 DEF Steady, Emptied, Owned
  <2>9. ~overlap /\ Sound' => Stage(to)'
    <3> SUFFICES ASSUME ~overlap, Sound' PROVE Stage(to)'
      OBVIOUS
    <3>1. Held(swap[p])
      BY <1>5, <2>2 DEF Sound
    <3>2. Held(to)'
      BY <2>2, <2>5, <3>1 DEF Held, Only, Inside, Scaled
    <3> QED BY <2>3, <2>5, <2>7, <3>2, KindsAre DEF Stage
  <2> QED BY <1>3, <1>6, <2>1, <2>5, <2>6, <2>7, <2>8, <2>9, StepKept
<1>8. CASE saved = <<>> /\ tabs # {}
  <2> DEFINE chosen == IF activeId # 0 THEN activeId ELSE Min(tabs)
  <2>1. active' = chosen /\ chosen \in 0..made
    <3>1. tabs \in SUBSET Nat /\ tabs # {}
      BY <1>2, <1>8
    <3>2. Min(tabs) \in tabs
      BY <3>1, LeastTab
    <3>3. \A id \in tabs : id \in 0..made
      BY <1>2, Among
    <3> QED BY <1>8, <3>2, <3>3 DEF NextPage
  <2>2. CASE chosen \in tabs
    <3>1. Succeeds(p) /\ tabs' = tabs
      BY <1>8, <2>2 DEF NextPage
    <3>2. swap' = [swap EXCEPT ![p] = Idle] /\ outcome' = outcome
      BY <3>1 DEF Succeeds, Ends
    <3>3. isHeaded' \in {isHeaded, TRUE} /\ openContexts' \subseteq openContexts
      BY <3>1 DEF Succeeds
    <3> HIDE DEF chosen
    <3>4. RestKinds' /\ Flags'
      BY <1>1, <1>4, <2>1, <3>1, <3>2, <3>3 DEF RestKinds, Flags
    <3>5. Idle \in Call(made', contexts') /\ Lawful(Idle.saved)
      BY <1>2, IdleIs DEF Lawful
    <3>6. ~overlap => (outcome' = "handoff" => headed') /\ (\A id \in tabs' : Owned(id)') /\ Steady(Idle)'
      BY <1>1, <1>8, <3>1, <3>2, IdleIs DEF Steady, Exact, Emptied, Recreates, Owned
    <3>7. ~overlap /\ Sound' => Whole'
      <4> SUFFICES ASSUME ~overlap, Sound' PROVE Whole'
        OBVIOUS
      <4>1. Held(swap[p])
        BY <1>5, <3>2 DEF Sound
      <4>2. openContexts' = {context}
        <5>1. CASE swap[p].kind = "handoff"
          <6>1. openContexts' = openContexts \ {c \in openContexts : c < context}
            BY <3>1, <4>1, <5>1 DEF Succeeds, Held
          <6>2. \A c \in openContexts : c <= context /\ c \in Nat
            BY <1>2
          <6>3. context \in openContexts /\ context \in Nat
            BY <1>2, <4>1 DEF Held
          <6>4. \A c \in openContexts' : c = context
            BY <1>2, <6>1, <6>2, <6>3
          <6>5. context \in openContexts'
            BY <1>2, <6>1, <6>3
          <6> QED BY <6>4, <6>5
        <5>2. CASE swap[p].kind # "handoff"
          BY <3>1, <4>1, <5>2 DEF Succeeds, Held, Only
        <5> QED BY <5>1, <5>2
      <4>3. active' \in tabs'
        BY <2>1, <2>2, <3>1
      <4> QED BY <3>1, <4>1, <4>2, <4>3 DEF Whole, Held, Only, Inside, Scaled, HasActive
    <3> QED BY <1>3, <1>6, <3>2, <3>4, <3>5, <3>6, <3>7, StepKept
  <2>3. CASE chosen \notin tabs
    <3>1. Throws(p) /\ UNCHANGED <<isHeaded, openContexts>>
      BY <1>8, <2>3 DEF NextPage
    <3>2. active' \in 0..made
      BY <2>1
    <3>3. ~overlap /\ Sound /\ swap[p].kind \in Recreates => openContexts \subseteq {context}
      BY <1>5, KindsAre DEF Held, Only, Recreates
    <3> HIDE DEF chosen
    <3> QED BY <1>3, <1>5, <3>1, <3>2, <3>3, ThrowKept
  <2> QED BY <2>2, <2>3
<1> QED BY <1>7, <1>8

\* So does saveState, with the owner that it reads of each tab.
LEMMA SaveTabKept ==
  ASSUME SwapInv, NEW p \in Calls, SaveTab(p)
  PROVE  SwapInv'
<1>1. /\ SwapKinds /\ RestKinds /\ Flags /\ Attributed /\ Formed(swap[p]) /\ Lawful(swap[p].saved)
      /\ \A id \in DOMAIN tabOwner : tabOwner[id] = openedFor[id]
      /\ ~overlap => (outcome = "handoff" => headed) /\ (\A id \in tabs : Owned(id)) /\ Steady(swap[p])
      /\ ~overlap /\ Sound => Stage(swap[p])
  BY Standing
<1>2. /\ made \in Nat /\ contexts \in Nat /\ context \in 1..contexts /\ made <= made
      /\ contexts <= contexts
      /\ tabs \subseteq 1..made
  BY <1>1, Numbers DEF RestKinds
<1>3. swap[p].at = "save" /\ swap[p].kind \in Swapping /\ swap[p] \in Call(made, contexts)
      /\ swap[p].kind \in Recreates \cup {"handoff"}
  BY <1>1, CallsAre, AtSwaps DEF SaveTab, Formed
<1>4. UNCHANGED <<context, made, active, tabOwner, scale, headed, isHeaded, contexts, openContexts, pageContext,
                  scaleOf, exited, openedFor, events, overlap>>
      /\ made' \in Nat /\ contexts' \in Nat
  BY <1>2 DEF SaveTab, browserVars
<1>5. CASE swap[p].ctx # 0 /\ swap[p].ctx \notin openContexts
  <2>1. ~overlap => ~Sound
    BY <1>1, <1>3, <1>5 DEF Stage, Only
  <2>2. CASE swap[p].kind = "handoff"
    <3>1. swap' = [swap EXCEPT ![p] = Idle] /\ UNCHANGED <<tabs, outcome>>
      BY <1>5, <2>2 DEF SaveTab, Ends
    <3>2. RestKinds' /\ Flags'
      BY <1>1, <1>4, <3>1 DEF RestKinds, Flags
    <3>3. Idle \in Call(made', contexts') /\ Lawful(Idle.saved)
      BY <1>4, IdleIs, IdleStands
    <3>4. ~overlap => (outcome' = "handoff" => headed') /\ (\A id \in tabs' : Owned(id)') /\ Steady(Idle)'
      BY <1>1, <1>4, <3>1, IdleIs DEF Steady, Exact, Emptied, Recreates, Owned
    <3>5. ~overlap => ~Sound'
      BY <1>4, <2>1, <3>1 DEF Sound
    <3> QED BY <1>1, <1>2, <1>3, <1>4, <3>1, <3>2, <3>3, <3>4, <3>5, StepKept
  <2>3. CASE swap[p].kind # "handoff"
    <3>1. Throws(p)
      BY <1>5, <2>3 DEF SaveTab
    <3>2. active' \in 0..made
      BY <1>1, <1>4 DEF RestKinds
    <3> QED BY <1>3, <1>4, <2>1, <2>3, <3>1, <3>2, ThrowKept
  <2> QED BY <2>2, <2>3
<1>6. CASE ~(swap[p].ctx # 0 /\ swap[p].ctx \notin openContexts)
  <2> DEFINE cur == swap[p].cur
             entry == [owner |-> SavedOwner(cur), isActive |-> cur = active, for |-> openedFor[cur]]
             saved == IF cur = 0 THEN <<>> ELSE Append(swap[p].saved, entry)
             next == After(cur)
             to1 == IF swap[p].kind = "handoff" THEN "launch" ELSE "closePages"
             go == IF next # 0 THEN next ELSE After(0)
             stop == IF next # 0 THEN "save" ELSE to1
  <2>1. PICK to : /\ to = [swap[p] EXCEPT !.saved = saved, !.ctx = 0, !.cur = go, !.at = stop]
                  /\ swap' = [swap EXCEPT ![p] = to]
    <3>1. swap' = [swap EXCEPT ![p].saved = saved, ![p].ctx = 0, ![p].cur = go, ![p].at = stop]
      BY <1>6 DEF SaveTab
    <3>2. swap \in [Calls -> Call(made, contexts)]
      BY <1>1 DEF SwapKinds
    <3> HIDE DEF cur, saved, go, stop
    <3> QED BY <3>1, <3>2, Zenon
  <2>2. UNCHANGED <<tabs, outcome>>
    BY <1>6 DEF SaveTab
  <2>3. cur \in 0..made /\ swap[p].saved \in Seq(Saved)
    BY <1>1, CallsAre
  <2>4. /\ saved \in Seq(Saved) /\ Lawful(saved)
        /\ ~overlap => Exact(saved)
    <3>1. CASE cur = 0
      BY <3>1 DEF Lawful, Exact
    <3>2. CASE cur # 0
      <4>1. cur \in 1..made
        BY <1>2, <2>3, <3>2
      <4>2. openedFor[cur] \in Clients /\ SavedOwner(cur) \in {Nobody, openedFor[cur]}
        BY <1>1, <4>1 DEF RestKinds, SavedOwner
      <4>3. SavedOwner(cur) \in Clients
        BY <4>2 DEF Clients
      <4>4. entry \in Saved
        BY <4>2, <4>3, Zenon DEF Saved, Clients
      <4>5. entry.owner = SavedOwner(cur) /\ entry.for = openedFor[cur]
        OBVIOUS
      <4>6. ~overlap => SavedOwner(cur) = openedFor[cur]
        BY <1>1, <1>3, <3>2, <4>2 DEF Steady, Owned, SavedOwner
      <4> HIDE DEF entry
      <4>7. /\ saved \in Seq(Saved) /\ Len(saved) = Len(swap[p].saved) + 1
            /\ saved[Len(swap[p].saved) + 1] = entry
            /\ \A i \in 1..Len(swap[p].saved) : saved[i] = swap[p].saved[i]
        BY <2>3, <3>2, <4>4, AppendProperties
      <4> HIDE DEF saved, cur
      <4>8. Len(swap[p].saved) \in Nat
        BY <2>3
      <4>9. \A i \in 1..Len(saved) : i \in 1..Len(swap[p].saved) \/ i = Len(swap[p].saved) + 1
        BY <4>7, <4>8
      <4>10. Lawful(saved)
        BY <1>1, <4>2, <4>5, <4>7, <4>9 DEF Lawful
      <4>11. ~overlap => Exact(saved)
        BY <1>1, <4>5, <4>6, <4>7, <4>9 DEF Exact, Steady
      <4> QED BY <4>7, <4>10, <4>11
    <3> QED BY <3>1, <3>2
  <2>5. go \in 0..made /\ go \in tabs \cup {0} /\ stop \in {"save", "launch", "closePages"}
    BY <1>1, AfterIs
  <2>6. /\ stop = "launch" => swap[p].kind = "handoff"
        /\ stop = "closePages" => swap[p].kind \in Recreates
    BY <1>3
  <2> HIDE DEF saved, go, stop
  <2>7. /\ to \in Call(made', contexts') /\ to.kind = swap[p].kind /\ to.at = stop
        /\ to.saved = saved /\ to.ctx = 0 /\ to.cur = go
    <3>1. stop \in Stops /\ 0 \in 0..contexts /\ made' = made /\ contexts' = contexts
      BY <1>2, <1>4, <2>5 DEF Stops
    <3>2. to \in Call(made, contexts)
      BY <1>3, <2>1, <2>4, <2>5, <3>1, Zenon DEF Call
    <3> QED BY <1>3, <2>1, <3>1, <3>2 DEF Call
  <2>8. RestKinds' /\ Flags'
    BY <1>1, <1>4, <2>2 DEF RestKinds, Flags
  <2>9. to.kind \in Swapping /\ Formed(to) /\ Lawful(to.saved) /\ to # Idle
    BY <1>3, <2>4, <2>5, <2>6, <2>7, KindsAre, IdleIs DEF Formed
  <2>10. ~overlap => (outcome' = "handoff" => headed') /\ (\A id \in tabs' : Owned(id)') /\ Steady(to)'
    <3>1. ~overlap => \A id \in tabs' : Owned(id)'
      BY <1>1, <1>4, <2>2 DEF Owned
    <3>2. to.cur # 0 /\ ~overlap => Owned(to.cur)'
      BY <2>2, <2>5, <2>7, <3>1
    <3>3. ~overlap => Steady(to)'
      <4> SUFFICES ASSUME ~overlap PROVE Steady(to)'
        OBVIOUS
      <4>1. (to.at = "save" /\ to.cur # 0 => Owned(to.cur))'
        BY <3>2
      <4>2. (to.kind = "handoff" => to.at \in {"save", "launch"})'
        BY <2>5, <2>6, <2>7, KindsAre DEF Recreates
      <4>3. stop \notin Emptied
        BY <2>5 DEF Emptied
      <4> QED BY <1>1, <1>4, <2>4, <2>7, <4>1, <4>2, <4>3 DEF Steady
    <3> QED BY <1>1, <1>4, <2>2, <3>1, <3>3
  <2>11. ~overlap /\ Sound' => Stage(to)'
    <3> SUFFICES ASSUME ~overlap, Sound' PROVE Stage(to)'
      OBVIOUS
    <3>1. Only /\ Inside /\ HasActive /\ (swap[p].kind \in {"recreate", "handoff"} => Scaled)
      BY <1>1, <1>3, <1>4, <2>2 DEF Sound, Stage
    <3>2. Only' /\ Inside' /\ HasActive' /\ (swap[p].kind \in {"recreate", "handoff"} => Scaled')
      BY <1>4, <2>2, <3>1 DEF Only, Inside, HasActive, Scaled
    <3> QED BY <2>5, <2>6, <2>7, <2>9, <3>2, KindsAre DEF Stage, Whole, Recreates
  <2> QED BY <1>1, <1>2, <1>3, <1>4, <2>1, <2>7, <2>8, <2>9, <2>10, <2>11, StepKept
<1> QED BY <1>5, <1>6

\* So does the loop that closes the old pages.
LEMMA ClosePageKept ==
  ASSUME SwapInv, NEW p \in Calls, ClosePage(p)
  PROVE  SwapInv'
<1>1. /\ SwapKinds /\ RestKinds /\ Flags /\ Attributed /\ Formed(swap[p]) /\ Lawful(swap[p].saved)
      /\ \A id \in DOMAIN tabOwner : tabOwner[id] = openedFor[id]
      /\ ~overlap => (outcome = "handoff" => headed) /\ (\A id \in tabs : Owned(id)) /\ Steady(swap[p])
      /\ ~overlap /\ Sound => Stage(swap[p])
  BY Standing
<1>2. /\ made \in Nat /\ contexts \in Nat /\ context \in 1..contexts /\ context \in 0..contexts
      /\ tabs \subseteq 1..made /\ 0 \in 0..contexts /\ 0 \in 0..made
  BY <1>1, Numbers DEF RestKinds
<1>3. swap[p].at = "closePages" /\ swap[p].kind \in Swapping /\ swap[p] \in Call(made, contexts)
      /\ swap[p].kind \in Recreates \cup {"load"} /\ swap[p].saved \in Seq(Saved)
  BY <1>1, CallsAre, AtSwaps DEF ClosePage, Formed
<1>4. /\ UNCHANGED <<context, made, tabOwner, scale, headed, isHeaded, contexts, openContexts, pageContext,
                  scaleOf, exited, openedFor, events, overlap, outcome>>
      /\ made' \in Nat /\ contexts' \in Nat /\ made <= made' /\ contexts <= contexts'
  BY <1>2 DEF ClosePage, browserVars
<1> DEFINE cur == swap[p].cur
           next == IF cur = 0 THEN 0 ELSE After(cur)
           stop == IF next # 0 THEN "closePages" ELSE IF swap[p].kind = "load" THEN "cookies" ELSE "closeContext"
           ctx == IF next # 0 THEN 0 ELSE context
<1>5. PICK to : to = [swap[p] EXCEPT !.cur = next, !.ctx = ctx, !.at = stop] /\ swap' = [swap EXCEPT ![p] = to]
  <2>1. swap' = [swap EXCEPT ![p].cur = next, ![p].ctx = ctx, ![p].at = stop]
    BY DEF ClosePage
  <2>2. swap \in [Calls -> Call(made, contexts)]
    BY <1>1 DEF SwapKinds
  <2> HIDE DEF cur, next, stop, ctx
  <2> QED BY <2>1, <2>2, Zenon
<1>6. next \in 0..made
  BY <1>1, <1>2, AfterIs
<1>7. active' = FallsTo({cur}) /\ tabs' = IF next # 0 THEN tabs \ {cur} ELSE {}
  BY DEF ClosePage
<1>8. /\ next # 0 => stop = "closePages" /\ ctx = 0
      /\ next = 0 => ctx = context /\ tabs' = {}
      /\ next = 0 /\ swap[p].kind = "load" => stop = "cookies"
      /\ next = 0 /\ swap[p].kind # "load" => stop = "closeContext"
  BY <1>7
<1>9. stop \in Stops /\ ctx \in 0..contexts
  BY <1>2 DEF Stops
<1> HIDE DEF next, stop, ctx
<1>10. /\ to \in Call(made', contexts') /\ to.kind = swap[p].kind /\ to.at = stop
       /\ to.saved = swap[p].saved
       /\ to.ctx = ctx
  <2>1. to \in Call(made, contexts)
    BY <1>3, <1>5, <1>6, <1>9, Zenon DEF Call
  <2> QED BY <1>3, <1>4, <1>5, <2>1 DEF Call
<1>11. RestKinds' /\ Flags'
  <2>1. active' \in 0..made
    BY <1>1, <1>7, FallsAre
  <2>2. tabs' \subseteq tabs
    BY <1>7
  <2> QED BY <1>1, <1>4, <2>1, <2>2 DEF RestKinds, Flags
<1>12. to.kind \in Swapping /\ Formed(to) /\ Lawful(to.saved) /\ to # Idle
  BY <1>1, <1>3, <1>8, <1>10, KindsAre, IdleIs DEF Formed
<1>13. ~overlap => (outcome' = "handoff" => headed') /\ (\A id \in tabs' : Owned(id)') /\ Steady(to)'
  <2> SUFFICES ASSUME ~overlap PROVE (outcome' = "handoff" => headed') /\ (\A id \in tabs' : Owned(id)') /\ Steady(to)'
    OBVIOUS
  <2>1. \A id \in tabs' : Owned(id)'
    BY <1>1, <1>4, <1>7 DEF Owned
  <2>2. to.at \in Emptied => tabs' = {}
    BY <1>8, <1>10 DEF Emptied
  <2> QED BY <1>1, <1>3, <1>4, <1>8, <1>10, <2>1, <2>2, KindsAre DEF Steady, Recreates
<1>14. ~overlap /\ Sound' => Stage(to)'
  <2> SUFFICES ASSUME ~overlap, Sound' PROVE Stage(to)'
    OBVIOUS
  <2>1. Only /\ Inside /\ HasActive /\ (swap[p].kind = "load" => Scaled)
    BY <1>1, <1>3, <1>4 DEF Sound, Stage
  <2>2. Only' /\ Inside' /\ (swap[p].kind = "load" => Scaled')
    BY <1>4, <1>7, <2>1 DEF Only, Inside, Scaled
  <2>3. next # 0 => HasActive'
    BY <1>1, <1>7, <2>1, FallsAre DEF HasActive
  <2>4. next = 0 => HasActive'
    BY <1>8 DEF HasActive
  <2>5. stop = "cookies" => Held(to)'
    BY <1>3, <1>8, <1>10, <2>2, KindsAre DEF Held, Only
  <2>6. openContexts' \subseteq {context'}
    BY <2>2 DEF Only
  <2>7. stop \in {"closePages", "cookies", "closeContext"} /\ (stop = "closeContext" => ctx = context')
    BY <1>4, <1>8
  <2> QED BY <1>10, <1>12, <2>2, <2>3, <2>4, <2>5, <2>6, <2>7, KindsAre DEF Stage
<1>15. \A id \in DOMAIN tabOwner' : tabOwner'[id] = openedFor'[id]
  BY <1>1, <1>4
<1> QED BY <1>3, <1>4, <1>5, <1>10, <1>11, <1>12, <1>13, <1>14, <1>15, StepKept

\* So does the end of the old context.
LEMMA CloseContextKept ==
  ASSUME SwapInv, ~exited, NEW p \in Calls, CloseContext(p)
  PROVE  SwapInv'
<1>1. /\ SwapKinds /\ RestKinds /\ Flags /\ Attributed /\ Formed(swap[p]) /\ Lawful(swap[p].saved)
      /\ \A id \in DOMAIN tabOwner : tabOwner[id] = openedFor[id]
      /\ ~overlap => (outcome = "handoff" => headed) /\ (\A id \in tabs : Owned(id)) /\ Steady(swap[p])
      /\ ~overlap /\ Sound => Stage(swap[p])
  BY Standing
<1>2. made \in Nat /\ contexts \in Nat /\ tabs \subseteq 1..made /\ 0 \in 0..contexts
  BY <1>1, Numbers DEF RestKinds
<1>3. /\ swap[p].at \in {"closeContext", "fallback"} /\ swap[p].kind \in Swapping
      /\ swap[p] \in Call(made, contexts)
      /\ swap[p].kind \in Recreates /\ swap[p].saved \in Seq(Saved)
  BY <1>1, CallsAre, AtSwaps DEF CloseContext, Formed
<1>4. /\ UNCHANGED <<context, made, tabOwner, scale, headed, isHeaded, contexts, pageContext, scaleOf,
                     openedFor, events, overlap, outcome>>
      /\ made' \in Nat /\ contexts' \in Nat /\ made <= made' /\ contexts <= contexts'
      /\ openContexts' = openContexts \ {swap[p].ctx}
      /\ active' = FallsTo(PagesOf(swap[p].ctx)) /\ tabs' \subseteq tabs
  BY <1>2 DEF CloseContext
<1>5. exited' \in BOOLEAN
  BY Zenon DEF CloseContext
<1> DEFINE stop == IF swap[p].at = "fallback" THEN "blankContext" ELSE "newContext"
<1>6. PICK to : to = [swap[p] EXCEPT !.ctx = 0, !.at = stop] /\ swap' = [swap EXCEPT ![p] = to]
  <2>1. swap' = [swap EXCEPT ![p].ctx = 0, ![p].at = stop]
    BY DEF CloseContext
  <2>2. swap \in [Calls -> Call(made, contexts)]
    BY <1>1 DEF SwapKinds
  <2> HIDE DEF stop
  <2> QED BY <2>1, <2>2, Zenon
<1>7. stop \in {"blankContext", "newContext"} /\ stop \in Stops
  BY DEF Stops
<1> HIDE DEF stop
<1>8. to \in Call(made', contexts') /\ to.kind = swap[p].kind /\ to.at = stop /\ to.saved = swap[p].saved
  <2>1. to \in Call(made, contexts)
    BY <1>2, <1>3, <1>6, <1>7, Zenon DEF Call
  <2> QED BY <1>3, <1>4, <1>6, <2>1 DEF Call
<1>9. RestKinds' /\ Flags'
  <2>1. active' \in 0..made
    BY <1>1, <1>4, FallsAre
  <2> QED BY <1>1, <1>4, <1>5, <2>1 DEF RestKinds, Flags
<1>10. to.kind \in Swapping /\ Formed(to) /\ Lawful(to.saved) /\ to # Idle
  BY <1>1, <1>3, <1>7, <1>8, KindsAre, IdleIs DEF Formed
<1>11. ~overlap => (outcome' = "handoff" => headed') /\ (\A id \in tabs' : Owned(id)') /\ Steady(to)'
  <2> SUFFICES ASSUME ~overlap PROVE (outcome' = "handoff" => headed') /\ (\A id \in tabs' : Owned(id)') /\ Steady(to)'
    OBVIOUS
  <2>1. tabs' = {}
    BY <1>1, <1>3, <1>4 DEF Steady, Emptied
  <2> QED BY <1>1, <1>3, <1>4, <1>7, <1>8, <2>1, KindsAre DEF Steady, Recreates
<1>12. ~overlap /\ Sound' => Stage(to)'
  <2> SUFFICES ASSUME ~overlap, Sound' PROVE Stage(to)'
    OBVIOUS
  <2>1. Stage(swap[p])
    BY <1>1, <1>4 DEF Sound
  <2>2. openContexts' = {}
    BY <1>3, <1>4, <2>1 DEF Stage
  <2> QED BY <1>7, <1>8, <1>10, <2>2, KindsAre DEF Stage
<1>13. \A id \in DOMAIN tabOwner' : tabOwner'[id] = openedFor'[id]
  BY <1>1, <1>4
<1> QED BY <1>3, <1>4, <1>6, <1>8, <1>9, <1>10, <1>11, <1>12, <1>13, StepKept

\* So does the new one.
LEMMA NewContextKept ==
  ASSUME SwapInv, NEW p \in Calls, NewContext(p)
  PROVE  SwapInv'
<1>1. /\ SwapKinds /\ RestKinds /\ Flags /\ Attributed /\ Formed(swap[p]) /\ Lawful(swap[p].saved)
      /\ \A id \in DOMAIN tabOwner : tabOwner[id] = openedFor[id]
      /\ ~overlap => (outcome = "handoff" => headed) /\ (\A id \in tabs : Owned(id)) /\ Steady(swap[p])
      /\ ~overlap /\ Sound => Stage(swap[p])
  BY Standing
<1>2. made \in Nat /\ contexts \in Nat /\ scale \in Scales
  BY <1>1, Numbers DEF RestKinds
<1>3. /\ swap[p].at = "newContext" /\ swap[p].kind \in Swapping /\ swap[p] \in Call(made, contexts)
      /\ swap[p].kind \in Recreates
  BY <1>1, CallsAre, AtSwaps DEF NewContext, Formed
<1>4. /\ UNCHANGED <<made, active, tabOwner, scale, headed, isHeaded, pageContext, exited, openedFor, events, overlap>>
      /\ made' \in Nat /\ made <= made'
  BY <1>2 DEF NewContext
<1>5. CASE AddContext(scale) /\ Go(p, "cookies") /\ UNCHANGED <<tabs, outcome>>
  <2>1. PICK to : to = [swap[p] EXCEPT !.at = "cookies"] /\ swap' = [swap EXCEPT ![p] = to]
    <3>1. swap' = [swap EXCEPT ![p].at = "cookies"] /\ swap \in [Calls -> Call(made, contexts)]
      BY <1>1, <1>5 DEF Go, SwapKinds
    <3> QED BY <3>1, Zenon
  <2>2. /\ contexts' \in 1..MaxContexts /\ contexts <= contexts' /\ context' = contexts'
        /\ contexts' = contexts + 1
        /\ openContexts' \subseteq 1..contexts' /\ openContexts' = openContexts \cup {context'}
        /\ scaleOf' \in Seq(Scales \cup {0}) /\ Len(scaleOf') = contexts' /\ scaleOf'[context'] = scale
        /\ 1..contexts \subseteq 1..contexts' /\ contexts' \in Nat
    BY <1>1, <1>2, <1>5, ContextAdded
  <2>3. /\ to \in Call(made', contexts') /\ to.kind = swap[p].kind /\ to.at = "cookies"
        /\ to.saved = swap[p].saved
    <3>1. "cookies" \in Stops
      BY DEF Stops
    <3>2. to \in Call(made, contexts)
      BY <1>3, <2>1, <3>1, Zenon DEF Call
    <3>3. to \in Call(made', contexts')
      BY <1>2, <1>4, <2>2, <3>2, CallGrows
    <3> QED BY <1>3, <2>1, <3>2, <3>3 DEF Call
  <2>4. RestKinds' /\ Flags'
    BY <1>1, <1>4, <1>5, <2>2 DEF RestKinds, Flags
  <2>5. to.kind \in Swapping /\ Formed(to) /\ Lawful(to.saved) /\ to # Idle
    BY <1>1, <1>3, <2>3, KindsAre, IdleIs DEF Formed
  <2>6. ~overlap => (outcome' = "handoff" => headed') /\ (\A id \in tabs' : Owned(id)') /\ Steady(to)'
    <3> SUFFICES ASSUME ~overlap PROVE (outcome' = "handoff" => headed') /\ (\A id \in tabs' : Owned(id)') /\ Steady(to)'
      OBVIOUS
    <3>1. tabs' = {}
      BY <1>1, <1>3, <1>5 DEF Steady, Emptied
    <3> QED BY <1>1, <1>3, <1>4, <1>5, <2>3, <3>1, KindsAre DEF Steady, Recreates
  <2>7. ~overlap /\ Sound' => Stage(to)'
    <3> SUFFICES ASSUME ~overlap, Sound' PROVE Stage(to)'
      OBVIOUS
    <3>1. openContexts = {} /\ tabs' = {}
      BY <1>1, <1>3, <1>4, <1>5 DEF Sound, Stage, Steady, Emptied
    <3>2. Held(to)'
      BY <1>3, <1>4, <2>2, <2>3, <3>1 DEF Held, Only, Inside, Scaled, Recreates
    <3> QED BY <2>3, <2>5, <3>2, KindsAre DEF Stage
  <2>8. \A id \in DOMAIN tabOwner' : tabOwner'[id] = openedFor'[id]
    BY <1>1, <1>4
  <2> QED BY <1>3, <1>4, <2>1, <2>2, <2>3, <2>4, <2>5, <2>6, <2>7, <2>8, StepKept
<1>6. CASE Throws(p) /\ UNCHANGED <<context, contexts, openContexts, scaleOf>>
  <2>1. active' \in 0..made
    BY <1>1, <1>4 DEF RestKinds
  <2>2. swap[p].kind # "handoff"
    BY <1>3 DEF Recreates
  <2>3. ~overlap /\ Sound => openContexts \subseteq {context}
    BY <1>1, <1>3 DEF Stage
  <2> QED BY <1>3, <1>4, <1>6, <2>1, <2>2, <2>3, ThrowKept
<1> QED BY <1>5, <1>6 DEF NewContext

\* So does the launch of the headed browser.
LEMMA LaunchKept ==
  ASSUME SwapInv, NEW p \in Calls, Launch(p)
  PROVE  SwapInv'
<1>1. /\ SwapKinds /\ RestKinds /\ Flags /\ Attributed /\ Formed(swap[p]) /\ Lawful(swap[p].saved)
      /\ \A id \in DOMAIN tabOwner : tabOwner[id] = openedFor[id]
      /\ ~overlap => (outcome = "handoff" => headed) /\ (\A id \in tabs : Owned(id)) /\ Steady(swap[p])
      /\ ~overlap /\ Sound => Stage(swap[p])
  BY Standing
<1>2. made \in Nat /\ contexts \in Nat /\ 0 \in 0..made /\ 0 \in Scales \cup {0}
  BY <1>1, Numbers DEF RestKinds
<1>3. /\ swap[p].at = "launch" /\ swap[p].kind \in Swapping /\ swap[p] \in Call(made, contexts)
      /\ swap[p].kind = "handoff"
  BY <1>1, CallsAre, AtSwaps DEF Launch, Formed
<1>4. /\ UNCHANGED <<made, active, tabOwner, scale, isHeaded, pageContext, exited, openedFor, events, overlap, outcome>>
      /\ made' \in Nat /\ made <= made'
  BY <1>2 DEF Launch
<1>5. \A id \in DOMAIN tabOwner' : tabOwner'[id] = openedFor'[id]
  BY <1>1, <1>4
<1>6. CASE Ends(p) /\ UNCHANGED <<context, tabs, headed, contexts, openContexts, scaleOf>>
  <2>1. swap' = [swap EXCEPT ![p] = Idle]
    BY <1>6 DEF Ends
  <2>2. RestKinds' /\ Flags'
    BY <1>1, <1>4, <1>6 DEF RestKinds, Flags
  <2>3. Idle \in Call(made', contexts') /\ Lawful(Idle.saved) /\ contexts <= contexts'
    <3>1. contexts' \in Nat /\ contexts <= contexts'
      BY <1>2, <1>6
    <3> QED BY <1>4, <3>1, IdleIs, IdleStands
  <2>4. ~overlap => (outcome' = "handoff" => headed') /\ (\A id \in tabs' : Owned(id)') /\ Steady(Idle)'
    BY <1>1, <1>4, <1>6, IdleIs DEF Steady, Exact, Emptied, Recreates, Owned
  <2>5. ~overlap /\ Sound' => Whole'
    <3> SUFFICES ASSUME ~overlap, Sound' PROVE Whole'
      OBVIOUS
    <3>1. Whole
      BY <1>1, <1>3, <1>4 DEF Sound, Stage
    <3> QED BY <1>4, <1>6, <3>1 DEF Whole, Only, Inside, HasActive, Scaled
  <2> QED BY <1>3, <1>4, <1>5, <2>1, <2>2, <2>3, <2>4, <2>5, StepKept
<1>7. CASE /\ ~headed
           /\ AddContext(0)
           /\ tabs' = {}
           /\ headed' = TRUE
           /\ swap' = [swap EXCEPT ![p].at = "cookies", ![p].cur = 0, ![p].mine = contexts + 1]
  <2>1. PICK to : /\ to = [swap[p] EXCEPT !.at = "cookies", !.cur = 0, !.mine = contexts + 1]
                  /\ swap' = [swap EXCEPT ![p] = to]
    <3>1. swap \in [Calls -> Call(made, contexts)]
      BY <1>1 DEF SwapKinds
    <3> QED BY <1>7, <3>1, Zenon
  <2>2. /\ contexts' \in 1..MaxContexts /\ contexts <= contexts' /\ context' = contexts'
        /\ contexts' = contexts + 1
        /\ openContexts' \subseteq 1..contexts' /\ openContexts' = openContexts \cup {context'}
        /\ scaleOf' \in Seq(Scales \cup {0}) /\ Len(scaleOf') = contexts' /\ scaleOf'[context'] = 0
        /\ 1..contexts \subseteq 1..contexts' /\ contexts' \in Nat
    BY <1>1, <1>2, <1>7, ContextAdded
  <2>3. /\ to \in Call(made', contexts') /\ to.kind = "handoff" /\ to.at = "cookies"
        /\ to.saved = swap[p].saved
        /\ to.mine = context'
    <3>1. "cookies" \in Stops /\ contexts + 1 \in 0..contexts' /\ swap[p] \in Call(made, contexts')
      BY <1>2, <1>3, <2>2, CallGrows DEF Stops
    <3>2. to \in Call(made, contexts')
      BY <1>2, <2>1, <3>1, Zenon DEF Call
    <3> QED BY <1>3, <1>4, <2>1, <2>2, <3>1, <3>2 DEF Call
  <2>4. RestKinds' /\ Flags'
    BY <1>1, <1>4, <1>7, <2>2 DEF RestKinds, Flags
  <2>5. to.kind \in Swapping /\ Formed(to) /\ Lawful(to.saved) /\ to # Idle
    BY <1>1, <2>3, KindsAre, IdleIs DEF Formed
  <2>6. ~overlap => (outcome' = "handoff" => headed') /\ (\A id \in tabs' : Owned(id)') /\ Steady(to)'
    BY <1>1, <1>7, <2>3 DEF Steady, Recreates
  <2>7. ~overlap /\ Sound' => Stage(to)'
    <3>1. Held(to)'
      BY <1>4, <1>7, <2>2, <2>3 DEF Held, Only, Inside, Scaled
    <3> QED BY <2>3, <3>1, KindsAre DEF Stage
  <2> QED BY <1>3, <1>4, <1>5, <2>1, <2>2, <2>3, <2>4, <2>5, <2>6, <2>7, StepKept
<1> QED BY <1>6, <1>7 DEF Launch

\* So does a failure before the first page is restored.
LEMMA RestoreFailsKept ==
  ASSUME SwapInv, NEW p \in Calls, RestoreFails(p)
  PROVE  SwapInv'
<1>1. /\ SwapKinds /\ RestKinds /\ Flags /\ Attributed /\ Formed(swap[p]) /\ Lawful(swap[p].saved)
      /\ \A id \in DOMAIN tabOwner : tabOwner[id] = openedFor[id]
      /\ ~overlap => (outcome = "handoff" => headed) /\ (\A id \in tabs : Owned(id)) /\ Steady(swap[p])
      /\ ~overlap /\ Sound => Stage(swap[p])
  BY Standing
<1>2. made \in Nat /\ contexts \in Nat
  BY <1>1, Numbers DEF RestKinds
<1>3. /\ swap[p].at = "cookies" /\ swap[p].kind \in Swapping /\ swap[p] \in Call(made, contexts)
  BY <1>1, CallsAre, AtSwaps DEF RestoreFails, Formed
<1>4. /\ UNCHANGED <<context, made, active, tabOwner, scale, headed, isHeaded, contexts, openContexts, pageContext,
                     scaleOf, exited, openedFor, events, overlap>>
      /\ made' \in Nat /\ contexts' \in Nat /\ made <= made' /\ contexts <= contexts'
  BY <1>2 DEF RestoreFails, browserVars
<1>5. ~overlap /\ swap[p].kind = "handoff" => headed
  BY <1>1, <1>3 DEF Steady
<1>6. CASE Throws(p)
  <2>1. active' \in 0..made
    BY <1>1, <1>4 DEF RestKinds
  <2>2. ~overlap /\ Sound /\ swap[p].kind \in Recreates => openContexts \subseteq {context}
    BY <1>1, <1>3, KindsAre DEF Stage, Held, Only, Recreates
  <2> QED BY <1>3, <1>4, <1>5, <1>6, <2>1, <2>2, ThrowKept
<1>7. CASE swap[p].kind = "handoff" /\ Go(p, "closeUnwired") /\ outcome' = "handoff" /\ UNCHANGED tabs
  <2>1. PICK to : to = [swap[p] EXCEPT !.at = "closeUnwired"] /\ swap' = [swap EXCEPT ![p] = to]
    <3>1. swap' = [swap EXCEPT ![p].at = "closeUnwired"] /\ swap \in [Calls -> Call(made, contexts)]
      BY <1>1, <1>7 DEF Go, SwapKinds
    <3> QED BY <3>1, Zenon
  <2>2. /\ to \in Call(made', contexts') /\ to.kind = "handoff" /\ to.at = "closeUnwired"
        /\ to.saved = swap[p].saved
    <3>1. "closeUnwired" \in Stops
      BY DEF Stops
    <3>2. to \in Call(made, contexts)
      BY <1>3, <2>1, <3>1, Zenon DEF Call
    <3> QED BY <1>3, <1>4, <1>7, <2>1, <3>2 DEF Call
  <2>3. RestKinds' /\ Flags'
    BY <1>1, <1>4, <1>7 DEF RestKinds, Flags
  <2>4. to.kind \in Swapping /\ Formed(to) /\ Lawful(to.saved) /\ to # Idle
    BY <1>1, <2>2, KindsAre, IdleIs DEF Formed, Recreates
  <2>5. ~overlap => (outcome' = "handoff" => headed') /\ (\A id \in tabs' : Owned(id)') /\ Steady(to)'
    BY <1>1, <1>4, <1>5, <1>7, <2>2 DEF Steady, Recreates, Emptied, Owned
  <2>6. ~Sound'
    BY <1>7 DEF Sound
  <2>7. \A id \in DOMAIN tabOwner' : tabOwner'[id] = openedFor'[id]
    BY <1>1, <1>4
  <2> QED BY <1>3, <1>4, <2>1, <2>2, <2>3, <2>4, <2>5, <2>6, <2>7, StepKept
<1> QED BY <1>6, <1>7 DEF RestoreFails

\* So do the cookies: no tab is left whose ownership is forgotten.
LEMMA RestoreCookiesKept ==
  ASSUME SwapInv, NEW p \in Calls, RestoreCookies(p)
  PROVE  SwapInv'
<1>1. /\ SwapKinds /\ RestKinds /\ Lawful(swap[p].saved)
      /\ ~overlap => Steady(swap[p])
  BY Standing
<1>2. swap[p].at = "cookies" /\ swap[p].saved \in Seq(Saved) /\ 0 \in 0..made
  BY <1>1, CallsAre, Numbers DEF RestoreCookies
<1>3. ~overlap => tabs = {} /\ Exact(swap[p].saved)
  BY <1>1, <1>2 DEF Steady, Emptied
<1>4. PICK saved : saved = swap[p].saved /\ NextPage(p, saved, 0)
  BY DEF RestoreCookies
<1> QED BY <1>1, <1>2, <1>3, <1>4, NextPageKept DEF RestoreCookies

\* So does a restored page, which has the owner that was saved.
LEMMA RestorePageKept ==
  ASSUME SwapInv, NEW p \in Calls, RestorePage(p)
  PROVE  SwapInv'
<1>1. /\ SwapKinds /\ RestKinds /\ Flags /\ Attributed /\ Formed(swap[p]) /\ Lawful(swap[p].saved)
      /\ \A id \in DOMAIN tabOwner : tabOwner[id] = openedFor[id]
      /\ ~overlap => (outcome = "handoff" => headed) /\ (\A id \in tabs : Owned(id)) /\ Steady(swap[p])
      /\ ~overlap /\ Sound => Stage(swap[p])
  BY Standing
<1>2. /\ made \in Nat /\ contexts \in Nat /\ tabs \subseteq 1..made /\ openContexts \subseteq 1..contexts
      /\ DOMAIN tabOwner \subseteq 1..made /\ context \in 1..contexts
  BY <1>1, Numbers DEF RestKinds
<1>3. /\ swap[p].at = "newPage" /\ swap[p].kind \in Swapping /\ swap[p] \in Call(made, contexts)
      /\ swap[p].saved \in Seq(Saved) /\ swap[p].saved # <<>>
  BY <1>1, CallsAre, AtSwaps DEF RestorePage, Formed
<1>4. /\ UNCHANGED <<context, active, scale, headed, isHeaded, contexts, openContexts, scaleOf, exited, events, overlap>>
      /\ contexts' \in Nat /\ contexts <= contexts'
  BY <1>2 DEF RestorePage
<1>5. /\ ~overlap /\ swap[p].kind = "handoff" => headed
      /\ ~overlap /\ swap[p].kind \in Recreates => ~headed
      /\ ~overlap /\ Sound => Held(swap[p]) /\ swap[p].ctx = context
  BY <1>1, <1>3 DEF Steady, Stage
<1>6. CASE swap[p].ctx \in openContexts
  <2>1. PICK page : page = Head(swap[p].saved)
    OBVIOUS
  <2>2. /\ page.owner \in Clients /\ page.for \in Clients /\ page.owner \in {Nobody, page.for}
        /\ ~overlap => page.owner = page.for
    <3>1. Len(swap[p].saved) \in Nat /\ Len(swap[p].saved) # 0
      BY <1>3, EmptySeq
    <3>2. 1 \in 1..Len(swap[p].saved) /\ page = swap[p].saved[1] /\ page \in Saved
      BY <1>3, <2>1, <3>1
    <3> QED BY <1>1, <3>2, SavedAre DEF Lawful, Steady, Exact
  <2>3. PICK ctx \in 1..contexts : ctx = swap[p].ctx /\ AddPage(ctx, page.owner, page.for)
    BY <1>2, <1>6, <2>1 DEF RestorePage
  <2>4. PICK to : /\ to = [swap[p] EXCEPT !.at = "load", !.cur = made + 1, !.ctx = 0]
                  /\ swap' = [swap EXCEPT ![p] = to]
    <3>1. swap' = [swap EXCEPT ![p].at = "load", ![p].cur = made + 1, ![p].ctx = 0]
      BY <1>6 DEF RestorePage
    <3>2. swap \in [Calls -> Call(made, contexts)]
      BY <1>1 DEF SwapKinds
    <3> QED BY <3>1, <3>2, ZenonT(30)
  <2>5. outcome' = outcome
    BY <1>6 DEF RestorePage
  <2>6. /\ made' = made + 1 /\ made' \in 0..MaxTabs /\ made <= made'
        /\ tabs' = tabs \cup {made'} /\ tabs' \subseteq 1..made'
        /\ pageContext' \in Seq(Nat) /\ Len(pageContext') = made' /\ pageContext'[made'] = ctx
        /\ \A id \in 1..made : pageContext'[id] = pageContext[id] /\ openedFor'[id] = openedFor[id]
        /\ \A id \in 1..made' : pageContext'[id] \in 1..contexts
        /\ openedFor' \in Seq(Clients) /\ Len(openedFor') = made' /\ openedFor'[made'] = page.for
        /\ DOMAIN tabOwner' \subseteq 1..made' /\ DOMAIN tabOwner \subseteq DOMAIN tabOwner'
        /\ \A id \in DOMAIN tabOwner' : tabOwner'[id] \in Agents
        /\ page.owner # Nobody => made' \in DOMAIN tabOwner'
        /\ \A id \in DOMAIN tabOwner' : tabOwner'[id] = openedFor'[id]
    BY <1>1, <2>2, <2>3, PageAdded
  <2>7. /\ to \in Call(made', contexts') /\ to.kind = swap[p].kind /\ to.at = "load"
        /\ to.saved = swap[p].saved
        /\ to.mine = swap[p].mine
    <3>1. "load" \in Stops /\ made' \in Nat /\ made + 1 \in 0..made' /\ 0 \in 0..contexts
      BY <1>2, <2>6 DEF Stops
    <3>2. swap[p] \in Call(made', contexts)
      BY <1>2, <1>3, <2>6, <3>1, CallGrows
    <3>3. to \in Call(made', contexts)
      BY <2>4, <3>1, <3>2, Zenon DEF Call
    <3> QED BY <1>4, <2>4, <3>2, <3>3 DEF Call
  <2>8. RestKinds' /\ Flags'
    <3>1. active' \in 0..made'
      BY <1>1, <1>2, <1>4, <2>6 DEF RestKinds
    <3> QED BY <1>1, <1>4, <2>5, <2>6, <3>1 DEF RestKinds, Flags
  <2>9. to.kind \in Swapping /\ Formed(to) /\ Lawful(to.saved) /\ to # Idle
    BY <1>1, <1>3, <2>7, KindsAre, IdleIs DEF Formed
  <2>10. ~overlap => (outcome' = "handoff" => headed') /\ (\A id \in tabs' : Owned(id)') /\ Steady(to)'
    <3> SUFFICES ASSUME ~overlap PROVE (outcome' = "handoff" => headed') /\ (\A id \in tabs' : Owned(id)') /\ Steady(to)'
      OBVIOUS
    <3>1. ASSUME NEW id \in tabs' PROVE Owned(id)'
      <4>1. CASE id = made'
        BY <2>2, <2>6, <4>1 DEF Owned
      <4>2. CASE id # made'
        BY <1>1, <1>2, <2>6, <3>1, <4>2 DEF Owned
      <4> QED BY <4>1, <4>2
    <3>2. Steady(to)'
      BY <1>1, <1>4, <1>5, <2>7 DEF Steady, Emptied
    <3> QED BY <1>1, <1>4, <2>5, <3>1, <3>2
  <2>11. ~overlap /\ Sound' => Stage(to)'
    <3> SUFFICES ASSUME ~overlap, Sound' PROVE Stage(to)'
      OBVIOUS
    <3>1. Held(swap[p]) /\ swap[p].ctx = context
      BY <1>4, <1>5, <2>5 DEF Sound
    <3>2. Inside'
      <4>1. \A id \in tabs' : pageContext'[id] = context
        BY <1>2, <2>3, <2>6, <3>1 DEF Held, Inside
      <4> QED BY <1>4, <4>1 DEF Inside
    <3>3. Held(to)'
      BY <1>4, <2>7, <3>1, <3>2 DEF Held, Only, Scaled
    <3> QED BY <2>7, <2>9, <3>3, KindsAre DEF Stage
  <2> QED BY <1>3, <1>4, <2>4, <2>6, <2>7, <2>8, <2>9, <2>10, <2>11, StepKept
<1>7. CASE swap[p].ctx \notin openContexts
  <2>1. Throws(p) /\ UNCHANGED <<made, pageContext, openedFor, tabOwner>>
    BY <1>7 DEF RestorePage
  <2>2. active' \in 0..made
    BY <1>1, <1>4 DEF RestKinds
  <2>3. ~overlap /\ Sound /\ swap[p].kind \in Recreates => openContexts \subseteq {context}
    BY <1>5, <1>7 DEF Held
  <2> QED BY <1>3, <1>4, <1>5, <2>1, <2>2, <2>3, ThrowKept
<1> QED BY <1>6, <1>7

\* So does its load.
LEMMA PageLoadedKept ==
  ASSUME SwapInv, NEW p \in Calls, PageLoaded(p)
  PROVE  SwapInv'
<1>1. /\ SwapKinds /\ RestKinds /\ Lawful(swap[p].saved) /\ Formed(swap[p])
      /\ ~overlap => Steady(swap[p])
  BY Standing
<1>2. /\ swap[p].at = "load" /\ swap[p].saved \in Seq(Saved) /\ swap[p].saved # <<>>
      /\ swap[p].activeId \in 0..made /\ swap[p].cur \in 0..made
  BY <1>1, CallsAre DEF PageLoaded, Formed
<1>3. PICK rest, becomes : /\ rest = Tail(swap[p].saved) /\ NextPage(p, rest, becomes)
                           /\ becomes \in {swap[p].activeId, swap[p].cur}
  BY DEF PageLoaded
<1>4. becomes \in 0..made
  BY <1>2, <1>3
<1>5. /\ rest \in Seq(Saved)
      /\ \A i \in 1..Len(rest) : i + 1 \in 1..Len(swap[p].saved) /\ rest[i] = swap[p].saved[i + 1]
  <2>1. /\ rest \in Seq(Saved) /\ Len(rest) = Len(swap[p].saved) - 1 /\ Len(swap[p].saved) \in Nat
        /\ \A i \in 1..Len(rest) : rest[i] = swap[p].saved[i + 1]
    BY <1>2, <1>3, HeadTailProperties
  <2>2. \A i \in 1..Len(rest) : i + 1 \in 1..Len(swap[p].saved)
    BY <2>1
  <2> QED BY <2>1, <2>2
<1>6. Lawful(rest) /\ (~overlap => Exact(rest))
  BY <1>1, <1>5 DEF Lawful, Exact, Steady
<1> QED BY <1>2, <1>3, <1>4, <1>5, <1>6, NextPageKept DEF PageLoaded

\* So does the blank tab, when none was saved.
LEMMA BlankTabKept ==
  ASSUME SwapInv, NEW p \in Calls, BlankTab(p)
  PROVE  SwapInv'
<1>1. /\ SwapKinds /\ RestKinds /\ Flags /\ Attributed /\ Formed(swap[p]) /\ Lawful(swap[p].saved)
      /\ \A id \in DOMAIN tabOwner : tabOwner[id] = openedFor[id]
      /\ ~overlap => (outcome = "handoff" => headed) /\ (\A id \in tabs : Owned(id)) /\ Steady(swap[p])
      /\ ~overlap /\ Sound => Stage(swap[p])
  BY Standing
<1>2. /\ made \in Nat /\ contexts \in Nat /\ tabs \subseteq 1..made /\ openContexts \subseteq 1..contexts
      /\ DOMAIN tabOwner \subseteq 1..made /\ context \in 1..contexts
  BY <1>1, Numbers DEF RestKinds
<1>3. /\ swap[p].at = "blankTab" /\ swap[p].kind \in Swapping /\ swap[p] \in Call(made, contexts)
  BY <1>1, CallsAre, AtSwaps DEF BlankTab
<1>4. /\ UNCHANGED <<context, scale, headed, contexts, scaleOf, exited, events, overlap>>
      /\ contexts' \in Nat /\ contexts <= contexts'
  BY <1>2 DEF BlankTab
<1>5. /\ ~overlap /\ swap[p].kind = "handoff" => headed
      /\ ~overlap /\ swap[p].kind \in Recreates => ~headed
      /\ ~overlap /\ Sound => Held(swap[p]) /\ swap[p].ctx = context
      /\ ~overlap => tabs = {}
  BY <1>1, <1>3 DEF Steady, Stage, Emptied
<1>6. CASE swap[p].ctx \in openContexts
  <2>1. PICK ctx \in 1..contexts : ctx = swap[p].ctx /\ AddPage(ctx, Nobody, Nobody)
    BY <1>2, <1>6 DEF BlankTab
  <2>2. active' = made + 1 /\ Succeeds(p)
    BY <1>6 DEF BlankTab
  <2>3. swap' = [swap EXCEPT ![p] = Idle] /\ outcome' = outcome
    BY <2>2 DEF Succeeds, Ends
  <2>4. isHeaded' \in {isHeaded, TRUE} /\ openContexts' \subseteq openContexts
    BY <2>2 DEF Succeeds
  <2>5. /\ made' = made + 1 /\ made' \in 0..MaxTabs /\ made <= made'
        /\ tabs' = tabs \cup {made'} /\ tabs' \subseteq 1..made'
        /\ pageContext' \in Seq(Nat) /\ Len(pageContext') = made' /\ pageContext'[made'] = ctx
        /\ \A id \in 1..made' : pageContext'[id] \in 1..contexts
        /\ openedFor' \in Seq(Clients) /\ Len(openedFor') = made' /\ openedFor'[made'] = Nobody
        /\ DOMAIN tabOwner' \subseteq 1..made'
        /\ \A id \in DOMAIN tabOwner' : tabOwner'[id] \in Agents
        /\ \A id \in DOMAIN tabOwner' : tabOwner'[id] = openedFor'[id]
    <3>1. Nobody \in Clients /\ Nobody \in {Nobody, Nobody}
      BY DEF Clients
    <3> QED BY <1>1, <2>1, <3>1, PageAdded
  <2>6. RestKinds' /\ Flags'
    <3>1. active' \in 0..made' /\ made' \in Nat
      BY <1>2, <2>2, <2>5
    <3> QED BY <1>1, <1>4, <2>3, <2>4, <2>5, <3>1 DEF RestKinds, Flags
  <2>7. Idle \in Call(made', contexts') /\ Lawful(Idle.saved)
    <3>1. made' \in Nat
      BY <1>2, <2>5
    <3> QED BY <1>4, <3>1, IdleIs, IdleStands
  <2>8. ~overlap => (outcome' = "handoff" => headed') /\ (\A id \in tabs' : Owned(id)') /\ Steady(Idle)'
    <3>1. ~overlap => \A id \in tabs' : Owned(id)'
      BY <1>5, <2>5 DEF Owned
    <3>2. Steady(Idle)'
      BY IdleIs DEF Steady, Exact, Emptied, Recreates
    <3> QED BY <1>1, <1>4, <2>3, <3>1, <3>2
  <2>9. ~overlap /\ Sound' => Whole'
    <3> SUFFICES ASSUME ~overlap, Sound' PROVE Whole'
      OBVIOUS
    <3>1. Held(swap[p]) /\ ctx = context /\ tabs = {}
      BY <1>4, <1>5, <2>1, <2>3 DEF Sound
    <3>2. openContexts' = {context}
      <4>1. CASE swap[p].kind = "handoff"
        <5>1. openContexts' = openContexts \ {c \in openContexts : c < context}
          BY <2>2, <3>1, <4>1 DEF Succeeds, Held
        <5>2. \A c \in openContexts : c <= context /\ c \in Nat
          BY <1>1, <1>2 DEF RestKinds
        <5>3. context \in openContexts /\ context \in Nat
          BY <1>2, <3>1 DEF Held
        <5>4. \A c \in openContexts' : c = context
          BY <5>1, <5>2, <5>3
        <5>5. context \in openContexts'
          BY <5>1, <5>3
        <5> QED BY <5>4, <5>5
      <4>2. CASE swap[p].kind # "handoff"
        BY <2>2, <3>1, <4>2 DEF Succeeds, Held, Only
      <4> QED BY <4>1, <4>2
    <3>3. tabs' = {made'} /\ active' = made' /\ pageContext'[made'] = context
      BY <2>2, <2>5, <3>1
    <3> QED BY <1>4, <3>1, <3>2, <3>3 DEF Whole, Held, Only, Inside, Scaled, HasActive
  <2> QED BY <1>3, <1>4, <2>3, <2>5, <2>6, <2>7, <2>8, <2>9, StepKept
<1>7. CASE swap[p].ctx \notin openContexts
  <2>1. /\ Throws(p)
        /\ UNCHANGED <<made, pageContext, openedFor, tabOwner, active, isHeaded, openContexts>>
    BY <1>7 DEF BlankTab
  <2>2. active' \in 0..made
    BY <1>1, <2>1 DEF RestKinds
  <2>3. ~overlap /\ Sound /\ swap[p].kind \in Recreates => openContexts \subseteq {context}
    BY <1>5, <1>7 DEF Held
  <2> QED BY <1>3, <1>4, <1>5, <2>1, <2>2, <2>3, ThrowKept
<1> QED BY <1>6, <1>7

\* So does the end of the fallback, with the rollback of the scale behind it.
LEMMA FallbackEndsKept ==
  ASSUME SwapInv, NEW p \in Calls, swap[p].kind \in Recreates, NEW how \in {"blank", "none"}, FallbackEnds(p, how),
         UNCHANGED <<context, contexts, openContexts, scaleOf, headed, isHeaded, exited, events, overlap>>,
         made' \in 0..MaxTabs, made <= made', tabs' \subseteq 1..made', active' \in 0..made',
         pageContext' \in Seq(Nat), Len(pageContext') = made',
         \A id \in 1..made' : pageContext'[id] \in 1..contexts,
         openedFor' \in Seq(Clients), Len(openedFor') = made', DOMAIN tabOwner' \subseteq 1..made',
         \A id \in DOMAIN tabOwner' : tabOwner'[id] \in Agents /\ tabOwner'[id] = openedFor'[id],
         ~overlap => \A id \in tabs' : Owned(id)',
         ~overlap /\ Sound /\ how = "blank" => Only' /\ Inside' /\ HasActive' /\ Scaled
  PROVE  SwapInv'
<1>1. /\ SwapKinds /\ RestKinds /\ Flags /\ Formed(swap[p])
      /\ ~overlap => (outcome = "handoff" => headed) /\ Steady(swap[p])
  BY Standing
<1>2. /\ made \in Nat /\ contexts \in Nat /\ context \in 0..contexts /\ made' \in Nat /\ contexts' \in Nat
      /\ contexts <= contexts' /\ scale \in Scales
  BY <1>1, Numbers DEF RestKinds
<1>3. swap[p].kind \in Swapping /\ swap[p].prev \in Scales
  BY <1>1, CallsAre, KindsAre
<1>4. ~overlap => ~headed /\ outcome # "handoff"
  BY <1>1 DEF Steady
<1>5. /\ outcome' \in {"blank", "none"}
      /\ outcome' = "blank" => how = "blank" /\ outcome # "none"
  BY DEF FallbackEnds
<1>6. ~overlap /\ Sound' => Sound /\ how = "blank"
  <2>1. outcome \in {"ok", "blank", "none", "handoff"}
    BY <1>1 DEF RestKinds
  <2> QED BY <1>4, <1>5, <2>1 DEF Sound
<1>7. Idle \in Call(made', contexts') /\ Lawful(Idle.saved)
  BY <1>2, IdleIs, IdleStands
<1>8. Steady(Idle)'
  BY IdleIs DEF Steady, Exact, Emptied, Recreates
<1>9. CASE swap[p].kind # "rescale"
  <2>1. swap' = [swap EXCEPT ![p] = Idle] /\ scale' = scale
    BY <1>9 DEF FallbackEnds, Ends
  <2>2. RestKinds' /\ Flags'
    BY <1>1, <1>5, <2>1 DEF RestKinds, Flags
  <2>3. ~overlap => (outcome' = "handoff" => headed') /\ (\A id \in tabs' : Owned(id)') /\ Steady(Idle)'
    BY <1>5, <1>8
  <2>4. ~overlap /\ Sound' => Whole'
    BY <1>6, <2>1 DEF Whole, Scaled
  <2> QED BY <1>2, <1>3, <1>7, <2>1, <2>2, <2>3, <2>4, StepKept
<1>10. CASE swap[p].kind = "rescale" /\ headed
  <2>1. swap' = [swap EXCEPT ![p] = Idle] /\ scale' = swap[p].prev
    BY <1>10 DEF FallbackEnds
  <2>2. RestKinds' /\ Flags'
    BY <1>1, <1>3, <1>5, <2>1 DEF RestKinds, Flags
  <2> QED BY <1>2, <1>3, <1>4, <1>7, <1>8, <1>10, <2>1, <2>2, StepKept
<1>11. CASE swap[p].kind = "rescale" /\ ~headed
  <2>1. PICK to : /\ to = [Idle EXCEPT !.kind = "rollback", !.at = "save", !.ctx = context]
                  /\ swap' = [swap EXCEPT ![p] = to]
    BY <1>11 DEF FallbackEnds
  <2>2. scale' = swap[p].prev
    BY <1>11 DEF FallbackEnds
  <2>3. RestKinds' /\ Flags'
    BY <1>1, <1>3, <1>5, <2>2 DEF RestKinds, Flags
  <2>4. /\ to \in Call(made', contexts') /\ to.kind = "rollback" /\ to.at = "save" /\ to.saved = <<>>
        /\ to.ctx = context /\ to.cur = 0
    <3>1. "rollback" \in Swapping \cup {"idle", "newtab"} /\ "save" \in Stops /\ context \in 0..contexts'
      BY <1>2 DEF Swapping, Stops
    <3>2. to \in Call(made', contexts')
      BY <1>7, <2>1, <3>1, Zenon DEF Call
    <3> QED BY <1>7, <2>1, <3>2, IdleIs DEF Call
  <2>5. to.kind \in Swapping /\ Formed(to) /\ Lawful(to.saved) /\ to # Idle
    BY <2>4, KindsAre, IdleIs DEF Formed, Lawful, Recreates
  <2>6. ~overlap => (outcome' = "handoff" => headed') /\ (\A id \in tabs' : Owned(id)') /\ Steady(to)'
    BY <1>4, <1>5, <2>4 DEF Steady, Exact, Emptied
  <2>7. ~overlap /\ Sound' => Stage(to)'
    BY <1>6, <2>4 DEF Stage
  <2> QED BY <1>2, <1>3, <2>1, <2>3, <2>4, <2>5, <2>6, <2>7, StepKept
<1> QED BY <1>9, <1>10, <1>11

\* So does the fallback's own context.
LEMMA BlankContextKept ==
  ASSUME SwapInv, NEW p \in Calls, BlankContext(p)
  PROVE  SwapInv'
<1>1. /\ SwapKinds /\ RestKinds /\ Flags /\ Attributed /\ Formed(swap[p]) /\ Lawful(swap[p].saved)
      /\ \A id \in DOMAIN tabOwner : tabOwner[id] = openedFor[id]
      /\ ~overlap => (outcome = "handoff" => headed) /\ (\A id \in tabs : Owned(id)) /\ Steady(swap[p])
      /\ ~overlap /\ Sound => Stage(swap[p])
  BY Standing
<1>2. made \in Nat /\ contexts \in Nat /\ scale \in Scales
  BY <1>1, Numbers DEF RestKinds
<1>3. /\ swap[p].at = "blankContext" /\ swap[p].kind \in Swapping /\ swap[p] \in Call(made, contexts)
      /\ swap[p].kind \in Recreates
  BY <1>1, CallsAre, AtSwaps DEF BlankContext, Formed
<1>4. /\ UNCHANGED <<tabs, made, active, tabOwner, headed, isHeaded, pageContext, exited, openedFor, events, overlap>>
      /\ made' \in Nat /\ made <= made'
  BY <1>2 DEF BlankContext
<1>5. CASE /\ AddContext(scale)
           /\ swap' = [swap EXCEPT ![p].at = "fallbackTab", ![p].ctx = contexts + 1]
           /\ UNCHANGED <<scale, outcome>>
  <2>1. PICK to : to = [swap[p] EXCEPT !.at = "fallbackTab", !.ctx = contexts + 1] /\ swap' = [swap EXCEPT ![p] = to]
    <3>1. swap \in [Calls -> Call(made, contexts)]
      BY <1>1 DEF SwapKinds
    <3> QED BY <1>5, <3>1, Zenon
  <2>2. /\ contexts' \in 1..MaxContexts /\ contexts <= contexts' /\ context' = contexts'
        /\ contexts' = contexts + 1
        /\ openContexts' \subseteq 1..contexts' /\ openContexts' = openContexts \cup {context'}
        /\ scaleOf' \in Seq(Scales \cup {0}) /\ Len(scaleOf') = contexts' /\ scaleOf'[context'] = scale
        /\ 1..contexts \subseteq 1..contexts' /\ contexts' \in Nat
    BY <1>1, <1>2, <1>5, ContextAdded
  <2>3. /\ to \in Call(made', contexts') /\ to.kind = swap[p].kind /\ to.at = "fallbackTab"
        /\ to.saved = swap[p].saved
        /\ to.ctx = context'
    <3>1. "fallbackTab" \in Stops /\ contexts + 1 \in 0..contexts'
      BY <1>2, <2>2 DEF Stops
    <3>2. swap[p] \in Call(made, contexts')
      BY <1>2, <1>3, <2>2, CallGrows
    <3>3. to \in Call(made, contexts')
      BY <2>1, <3>1, <3>2, Zenon DEF Call
    <3> QED BY <1>4, <2>1, <2>2, <3>2, <3>3 DEF Call
  <2>4. RestKinds' /\ Flags'
    BY <1>1, <1>4, <1>5, <2>2 DEF RestKinds, Flags
  <2>5. to.kind \in Swapping /\ Formed(to) /\ Lawful(to.saved) /\ to # Idle
    BY <1>1, <1>3, <2>3, KindsAre, IdleIs DEF Formed
  <2>6. ~overlap => (outcome' = "handoff" => headed') /\ (\A id \in tabs' : Owned(id)') /\ Steady(to)'
    <3> SUFFICES ASSUME ~overlap PROVE (outcome' = "handoff" => headed') /\ (\A id \in tabs' : Owned(id)') /\ Steady(to)'
      OBVIOUS
    <3>1. tabs' = {}
      BY <1>1, <1>3, <1>4 DEF Steady, Emptied
    <3> QED BY <1>1, <1>3, <1>4, <1>5, <2>3, <3>1, KindsAre DEF Steady, Recreates
  <2>7. ~overlap /\ Sound' => Stage(to)'
    <3> SUFFICES ASSUME ~overlap, Sound' PROVE Stage(to)'
      OBVIOUS
    <3>1. openContexts = {}
      BY <1>1, <1>3, <1>4, <1>5 DEF Sound, Stage
    <3>2. Only' /\ Scaled'
      BY <1>5, <2>2, <3>1 DEF Only, Scaled
    <3> QED BY <2>3, <2>5, <3>2, KindsAre DEF Stage
  <2>8. \A id \in DOMAIN tabOwner' : tabOwner'[id] = openedFor'[id]
    BY <1>1, <1>4
  <2> QED BY <1>3, <1>4, <2>1, <2>2, <2>3, <2>4, <2>5, <2>6, <2>7, <2>8, StepKept
<1>6. CASE FallbackEnds(p, "none") /\ UNCHANGED <<context, contexts, openContexts, scaleOf>>
  <2>1. ~overlap => \A id \in tabs' : Owned(id)'
    BY <1>1, <1>4 DEF Owned
  <2>2. /\ made' \in 0..MaxTabs /\ tabs' \subseteq 1..made' /\ active' \in 0..made'
        /\ pageContext' \in Seq(Nat) /\ Len(pageContext') = made'
        /\ \A id \in 1..made' : pageContext'[id] \in 1..contexts
        /\ openedFor' \in Seq(Clients) /\ Len(openedFor') = made' /\ DOMAIN tabOwner' \subseteq 1..made'
        /\ \A id \in DOMAIN tabOwner' : tabOwner'[id] \in Agents /\ tabOwner'[id] = openedFor'[id]
    BY <1>1, <1>4 DEF RestKinds
  <2>3. PICK how \in {"blank", "none"} : FallbackEnds(p, how) /\ how = "none"
    BY <1>6
  <2> QED BY <1>3, <1>4, <1>6, <2>1, <2>2, <2>3, FallbackEndsKept
<1> QED BY <1>5, <1>6 DEF BlankContext

\* So does its tab.
LEMMA FallbackTabKept ==
  ASSUME SwapInv, NEW p \in Calls, FallbackTab(p)
  PROVE  SwapInv'
<1>1. /\ SwapKinds /\ RestKinds /\ Flags /\ Attributed /\ Formed(swap[p]) /\ Lawful(swap[p].saved)
      /\ \A id \in DOMAIN tabOwner : tabOwner[id] = openedFor[id]
      /\ ~overlap => (outcome = "handoff" => headed) /\ (\A id \in tabs : Owned(id)) /\ Steady(swap[p])
      /\ ~overlap /\ Sound => Stage(swap[p])
  BY Standing
<1>2. /\ made \in Nat /\ contexts \in Nat /\ tabs \subseteq 1..made /\ openContexts \subseteq 1..contexts
      /\ context \in 1..contexts
  BY <1>1, Numbers DEF RestKinds
<1>3. /\ swap[p].at = "fallbackTab" /\ swap[p].kind \in Recreates
  BY <1>1 DEF FallbackTab, Formed
<1>4. UNCHANGED <<context, headed, isHeaded, contexts, openContexts, scaleOf, exited, events, overlap>>
  BY DEF FallbackTab
<1>5. /\ ~overlap => tabs = {}
      /\ ~overlap /\ Sound => Only /\ Scaled /\ swap[p].ctx = context
  BY <1>1, <1>3 DEF Steady, Emptied, Stage
<1>6. CASE swap[p].ctx \in openContexts
  <2>1. PICK ctx \in 1..contexts : ctx = swap[p].ctx /\ AddPage(ctx, Nobody, Nobody)
    BY <1>2, <1>6 DEF FallbackTab
  <2>2. PICK how \in {"blank", "none"} : FallbackEnds(p, how) /\ how = "blank"
    BY <1>6 DEF FallbackTab
  <2>3. active' = made + 1
    BY <1>6 DEF FallbackTab
  <2>4. /\ made' = made + 1 /\ made' \in 0..MaxTabs /\ made <= made'
        /\ tabs' = tabs \cup {made'} /\ tabs' \subseteq 1..made'
        /\ pageContext' \in Seq(Nat) /\ Len(pageContext') = made' /\ pageContext'[made'] = ctx
        /\ \A id \in 1..made' : pageContext'[id] \in 1..contexts
        /\ openedFor' \in Seq(Clients) /\ Len(openedFor') = made' /\ openedFor'[made'] = Nobody
        /\ DOMAIN tabOwner' \subseteq 1..made'
        /\ \A id \in DOMAIN tabOwner' : tabOwner'[id] \in Agents /\ tabOwner'[id] = openedFor'[id]
    <3>1. Nobody \in Clients /\ Nobody \in {Nobody, Nobody}
      BY DEF Clients
    <3> QED BY <1>1, <2>1, <3>1, PageAdded
  <2>5. active' \in 0..made'
    BY <1>2, <2>3, <2>4
  <2>6. ~overlap => \A id \in tabs' : Owned(id)'
    BY <1>5, <2>4 DEF Owned
  <2>7. ~overlap /\ Sound => Only' /\ Inside' /\ HasActive' /\ Scaled
    <3> SUFFICES ASSUME ~overlap, Sound PROVE Only' /\ Inside' /\ HasActive' /\ Scaled
      OBVIOUS
    <3>1. tabs' = {made'} /\ active' = made' /\ pageContext'[made'] = context
      BY <1>5, <2>1, <2>3, <2>4
    <3> QED BY <1>4, <1>5, <3>1 DEF Only, Inside, HasActive
  <2> QED BY <1>3, <1>4, <2>2, <2>4, <2>5, <2>6, <2>7, FallbackEndsKept
<1>7. CASE swap[p].ctx \notin openContexts
  <2>1. UNCHANGED <<tabs, made, pageContext, openedFor, tabOwner, active>>
    BY <1>7 DEF FallbackTab
  <2>2. PICK how \in {"blank", "none"} : FallbackEnds(p, how) /\ how = "none"
    BY <1>7 DEF FallbackTab
  <2>3. ~overlap => \A id \in tabs' : Owned(id)'
    BY <1>1, <2>1 DEF Owned
  <2>4. /\ made' \in 0..MaxTabs /\ made <= made' /\ tabs' \subseteq 1..made' /\ active' \in 0..made'
        /\ pageContext' \in Seq(Nat) /\ Len(pageContext') = made'
        /\ \A id \in 1..made' : pageContext'[id] \in 1..contexts
        /\ openedFor' \in Seq(Clients) /\ Len(openedFor') = made' /\ DOMAIN tabOwner' \subseteq 1..made'
        /\ \A id \in DOMAIN tabOwner' : tabOwner'[id] \in Agents /\ tabOwner'[id] = openedFor'[id]
    BY <1>1, <1>2, <2>1 DEF RestKinds
  <2> QED BY <1>3, <1>4, <2>2, <2>3, <2>4, FallbackEndsKept
<1> QED BY <1>6, <1>7

\* So does the catch of handoff.
LEMMA CloseHeadedKept ==
  ASSUME SwapInv, ~exited, NEW p \in Calls, CloseHeaded(p)
  PROVE  SwapInv'
<1>1. /\ SwapKinds /\ RestKinds /\ Flags /\ Attributed /\ Formed(swap[p]) /\ Lawful(swap[p].saved)
      /\ \A id \in DOMAIN tabOwner : tabOwner[id] = openedFor[id]
      /\ ~overlap => (outcome = "handoff" => headed) /\ (\A id \in tabs : Owned(id)) /\ Steady(swap[p])
      /\ ~overlap /\ Sound => Stage(swap[p])
  BY Standing
<1>2. made \in Nat /\ contexts \in Nat /\ tabs \subseteq 1..made
  BY <1>1, Numbers DEF RestKinds
<1>3. swap[p].at \in {"closeHeaded", "closeUnwired"} /\ swap[p].kind \in Swapping
  BY <1>1, AtSwaps DEF CloseHeaded
<1>4. /\ UNCHANGED <<context, made, tabOwner, scale, headed, isHeaded, contexts, pageContext, scaleOf,
                     openedFor, events, overlap, outcome>>
      /\ made' \in Nat /\ contexts' \in Nat /\ made <= made' /\ contexts <= contexts'
      /\ openContexts' \subseteq openContexts
      /\ active' = FallsTo(PagesOf(swap[p].mine)) /\ tabs' \subseteq tabs
      /\ swap' = [swap EXCEPT ![p] = Idle]
  BY <1>2 DEF CloseHeaded, Ends
<1>5. exited' \in BOOLEAN
  BY Zenon DEF CloseHeaded
<1>6. RestKinds' /\ Flags'
  <2>1. active' \in 0..made
    BY <1>1, <1>4, FallsAre
  <2> QED BY <1>1, <1>4, <1>5, <2>1 DEF RestKinds, Flags
<1>7. Idle \in Call(made', contexts') /\ Lawful(Idle.saved)
  BY <1>4, IdleIs, IdleStands
<1>8. ~overlap => (outcome' = "handoff" => headed') /\ (\A id \in tabs' : Owned(id)') /\ Steady(Idle)'
  BY <1>1, <1>4, IdleIs DEF Steady, Exact, Emptied, Recreates, Owned
<1>9. ~(~overlap /\ Sound')
  BY <1>1, <1>3, <1>4 DEF Sound, Stage
<1>10. \A id \in DOMAIN tabOwner' : tabOwner'[id] = openedFor'[id]
  BY <1>1, <1>4
<1> QED BY <1>3, <1>4, <1>6, <1>7, <1>8, <1>9, <1>10, StepKept

\* So does the start of a swap.
LEMMA StartKept ==
  ASSUME SwapInv, ~exited, NEW p \in Calls, swap[p].kind = "idle",
         NEW to \in Call(made, contexts), swap' = [swap EXCEPT ![p] = to],
         to.kind \in Swapping, Formed(to), Lawful(to.saved), Exact(to.saved),
         to.at \in {"save", "closePages"}, to.at = "save" => to.cur = 0, to.ctx \in {0, context},
         to.kind \in Recreates => ~headed,
         overlap' = (overlap \/ Busy), events' \in 0..MaxEvents,
         scale' = scale \/ (to.kind = "rescale" /\ scale' \in Scales),
         UNCHANGED <<context, tabs, made, active, tabOwner, headed, isHeaded, contexts, openContexts,
                     pageContext, scaleOf, exited, openedFor, outcome>>
  PROVE  SwapInv'
<1>1. /\ SwapKinds /\ RestKinds /\ Flags /\ Attributed
      /\ \A id \in DOMAIN tabOwner : tabOwner[id] = openedFor[id]
      /\ ~overlap => (outcome = "handoff" => headed) /\ (\A id \in tabs : Owned(id))
  BY Standing
<1>2. made \in Nat /\ contexts \in Nat /\ made <= made' /\ contexts <= contexts'
  BY <1>1, Numbers
<1>3. overlap' \in BOOLEAN
  BY Zenon
<1>4. RestKinds' /\ Flags'
  BY <1>1, <1>3 DEF RestKinds, Flags
<1>5. /\ swap' \in [Calls -> Call(made', contexts')] /\ swap'[p] = to
      /\ \A q \in Calls : q # p => swap'[q] = swap[q]
  BY <1>1, <1>2, <1>4, SwapMoves
<1>6. SwapKinds'
  <2>1. \A q \in Calls : Formed(swap'[q])
    BY <1>1, <1>5 DEF SwapKinds
  <2> QED BY <1>4, <1>5, <2>1 DEF SwapKinds, Formed
<1>7. Attributed'
  <2>1. \A q \in Calls : Lawful(swap'[q].saved)
    BY <1>1, <1>5 DEF Attributed
  <2> QED BY <1>1, <2>1 DEF Attributed, Lawful
<1>8. ASSUME ~overlap' PROVE ~overlap /\ \A q \in Calls : swap[q] = Idle /\ (q # p => swap'[q] = Idle)
  <2>1. ~overlap /\ \A q \in Calls : swap[q].kind = "idle"
    BY <1>8 DEF Busy
  <2> QED BY <1>1, <1>5, <2>1 DEF SwapKinds, Formed
<1>9. ASSUME ~overlap' PROVE Alone' /\ Calm'
  <2>1. Alone'
    BY <1>8, <1>9, IdleIs, KindsAre DEF Alone
  <2>2. \A q \in Calls : Steady(swap[q])'
    <3> TAKE q \in Calls
    <3>1. CASE q = p
      <4>1. headed' = headed /\ tabs' = tabs /\ swap'[q] = to
        BY <1>5, <3>1
      <4>2. to.at = "closePages" => to.kind # "handoff"
        BY DEF Formed, Recreates
      <4> QED BY <4>1, <4>2 DEF Steady, Emptied, Exact
    <3>2. CASE q # p
      BY <1>8, <1>9, <3>2, IdleIs DEF Steady, Exact, Emptied, Recreates
    <3> QED BY <3>1, <3>2
  <2>3. \A id \in tabs' : Owned(id)'
    BY <1>1, <1>8, <1>9 DEF Owned
  <2> QED BY <1>1, <1>8, <1>9, <2>1, <2>2, <2>3 DEF Calm
<1>10. ASSUME ~overlap', Sound' PROVE AtStages'
  <2>1. ~overlap /\ Sound /\ \A q \in Calls : swap[q].kind \notin Swapping
    BY <1>8, <1>10, IdleIs, KindsAre DEF Sound
  <2>2. Whole
    BY <2>1 DEF SwapInv, AtStages
  <2>3. \A q \in Calls : Stage(swap[q])'
    <3> TAKE q \in Calls
    <3>1. CASE q = p
      <4>1. Only' /\ Inside' /\ HasActive'
        BY <2>2 DEF Whole, Only, Inside, HasActive
      <4>2. to.kind # "rescale" => Scaled'
        BY <2>2 DEF Whole, Scaled
      <4> QED BY <1>5, <3>1, <4>1, <4>2, KindsAre DEF Stage
    <3>2. CASE q # p
      BY <1>8, <1>10, <3>2, IdleIs DEF Stage, Recreates
    <3> QED BY <3>1, <3>2
  <2> QED BY <1>5, <2>3 DEF AtStages
<1> QED BY <1>6, <1>7, <1>9, <1>10 DEF SwapInv

\* It is one of recreateContext and handoff.
LEMMA SwapStartKept ==
  ASSUME SwapInv, NEW p \in Calls, NEW kind \in Recreates \cup {"handoff"}, StartSwap(p, kind),
         kind \in Recreates => ~headed,
         scale' = scale \/ (kind = "rescale" /\ scale' \in Scales)
  PROVE  SwapInv'
<1>1. SwapKinds /\ RestKinds
  BY Standing
<1>2. made \in Nat /\ contexts \in Nat /\ context \in 0..contexts /\ scale \in Scales /\ events \in Nat
  BY <1>1, Numbers, SwapNumbers DEF RestKinds
<1> DEFINE prev == IF kind = "rescale" THEN scale ELSE 1
<1>3. PICK to : /\ to = [Idle EXCEPT !.kind = kind, !.at = "save", !.ctx = context, !.prev = prev]
                /\ swap' = [swap EXCEPT ![p] = to]
  BY DEF StartSwap
<1>4. prev \in Scales
  BY <1>2, SwapNumbers
<1> HIDE DEF prev
<1>5. /\ to \in Call(made, contexts) /\ to.kind = kind /\ to.at = "save" /\ to.saved = <<>>
      /\ to.ctx = context /\ to.cur = 0
  <2>1. kind \in Swapping \cup {"idle", "newtab"} /\ "save" \in Stops
    BY KindsAre DEF Stops
  <2>2. Idle \in Call(made, contexts)
    BY <1>2, IdleIs
  <2>3. to \in Call(made, contexts)
    BY <1>2, <1>3, <1>4, <2>1, <2>2, Zenon DEF Call
  <2> QED BY <1>3, <2>2, <2>3, IdleIs DEF Call
<1>6. to.kind \in Swapping /\ Formed(to) /\ Lawful(to.saved) /\ Exact(to.saved)
  BY <1>5, KindsAre DEF Formed, Lawful, Exact
<1>7. events' \in 0..MaxEvents
  BY <1>1, <1>2, SwapNumbers DEF StartSwap, RestKinds
<1>8. /\ ~exited /\ swap[p].kind = "idle" /\ overlap' = (overlap \/ Busy)
      /\ UNCHANGED <<context, tabs, made, active, tabOwner, headed, isHeaded, contexts, openContexts,
                     pageContext, scaleOf, exited, openedFor, outcome>>
  BY DEF StartSwap, browserVars
<1> QED BY <1>3, <1>5, <1>6, <1>7, <1>8, StartKept

\* It is one of `state load`, whose saved tabs have no owner.
LEMMA LoadStateKept ==
  ASSUME SwapInv, NEW p \in Calls, LoadState(p)
  PROVE  SwapInv'
<1>1. SwapKinds /\ RestKinds
  BY Standing
<1>2. made \in Nat /\ contexts \in Nat /\ context \in 0..contexts /\ scale \in Scales /\ events \in Nat
  BY <1>1, Numbers, SwapNumbers DEF RestKinds
<1>3. PICK n \in 0..2 :
        swap' = [swap EXCEPT ![p] =
          [Idle EXCEPT !.kind = "load", !.at = "closePages", !.cur = After(0),
             !.saved = [i \in 1..n |-> [owner |-> Nobody, isActive |-> i = n, for |-> Nobody]]]]
  BY DEF LoadState
<1>4. PICK saved : saved = [i \in 1..n |-> [owner |-> Nobody, isActive |-> i = n, for |-> Nobody]]
  OBVIOUS
<1>5. PICK cur : cur = After(0)
  OBVIOUS
<1>6. PICK to : /\ to = [Idle EXCEPT !.kind = "load", !.at = "closePages", !.cur = cur, !.saved = saved]
                /\ swap' = [swap EXCEPT ![p] = to]
  BY <1>3, <1>4, <1>5
<1>7. saved \in Seq(Saved) /\ Exact(saved) /\ Lawful(saved)
  <2>1. n \in Nat /\ \A i \in 1..n : saved[i].owner = Nobody /\ saved[i].for = Nobody
    BY <1>4
  <2>2. \A i \in 1..n : saved[i] \in Saved
    <3> TAKE i \in 1..n
    <3>1. saved[i] = [owner |-> Nobody, isActive |-> i = n, for |-> Nobody]
      BY <1>4
    <3>2. Nobody \in Agents \cup {Nobody} /\ (i = n) \in BOOLEAN
      OBVIOUS
    <3>3. \A b \in BOOLEAN : [owner |-> Nobody, isActive |-> b, for |-> Nobody] \in Saved
      BY SMT DEF Saved
    <3> HIDE DEF Saved
    <3> QED BY <3>1, <3>2, <3>3, Zenon
  <2>3. saved \in [1..n -> Saved]
    <3>1. saved = [i \in 1..n |-> saved[i]]
      BY <1>4, Zenon
    <3> HIDE DEF Saved
    <3> QED BY <2>2, <3>1
  <2>4. saved \in Seq(Saved) /\ Len(saved) = n
    BY <2>1, <2>3
  <2> QED BY <2>1, <2>4 DEF Exact, Lawful
<1>8. cur \in 0..made
  BY <1>1, <1>5, AfterIs
<1>9. /\ to \in Call(made, contexts) /\ to.kind = "load" /\ to.at = "closePages"
      /\ to.saved = saved /\ to.ctx = 0
  <2>1. "load" \in Swapping \cup {"idle", "newtab"} /\ "closePages" \in Stops
    BY KindsAre DEF Stops
  <2>2. Idle \in Call(made, contexts)
    BY <1>2, IdleIs
  <2>3. to \in Call(made, contexts)
    BY <1>6, <1>7, <1>8, <2>1, <2>2, Zenon DEF Call
  <2> QED BY <1>6, <2>2, <2>3, IdleIs DEF Call
<1>10. to.kind \in Swapping /\ Formed(to) /\ to.kind \notin Recreates
  BY <1>9, KindsAre DEF Formed, Recreates
<1>11. events' \in 0..MaxEvents
  BY <1>1, <1>2, SwapNumbers DEF LoadState, RestKinds
<1>12. /\ ~exited /\ swap[p].kind = "idle" /\ overlap' = (overlap \/ Busy) /\ scale' = scale
       /\ UNCHANGED <<context, tabs, made, active, tabOwner, headed, isHeaded, contexts, openContexts,
                      pageContext, scaleOf, exited, openedFor, outcome>>
  BY DEF LoadState, browserVars, managerVars
<1> QED BY <1>6, <1>7, <1>9, <1>10, <1>11, <1>12, StartKept

\* newTab keeps the invariant: with the context that it has read.
LEMMA NewTabKept ==
  ASSUME SwapInv, NEW p \in Calls, NewTab(p)
  PROVE  SwapInv'
<1>1. /\ SwapKinds /\ RestKinds /\ Flags /\ Attributed
      /\ \A id \in DOMAIN tabOwner : tabOwner[id] = openedFor[id]
      /\ ~overlap => (outcome = "handoff" => headed) /\ (\A id \in tabs : Owned(id))
  BY Standing
<1>2. made \in Nat /\ contexts \in Nat /\ context \in 0..contexts
  BY <1>1, Numbers
<1>3. PICK c \in Clients :
        swap' = [swap EXCEPT ![p] = [Idle EXCEPT !.kind = "newtab", !.at = "page", !.ctx = context, !.for = c]]
  BY DEF NewTab, Clients
<1>4. PICK to : /\ to = [Idle EXCEPT !.kind = "newtab", !.at = "page", !.ctx = context, !.for = c]
                /\ swap' = [swap EXCEPT ![p] = to]
  BY <1>3
<1>5. /\ to \in Call(made, contexts) /\ to.kind = "newtab" /\ to.at = "page" /\ to.saved = <<>>
      /\ to.ctx = context
  <2>1. "newtab" \in Swapping \cup {"idle", "newtab"} /\ "page" \in Stops
    BY DEF Stops
  <2>2. Idle \in Call(made, contexts)
    BY <1>2, IdleIs
  <2>3. to \in Call(made, contexts)
    BY <1>2, <1>4, <2>1, <2>2, Zenon DEF Call
  <2> QED BY <1>4, <2>2, <2>3, IdleIs DEF Call
<1>6. /\ UNCHANGED <<context, tabs, made, active, tabOwner, scale, headed, isHeaded, contexts, openContexts,
                     pageContext, scaleOf, exited, openedFor, events, outcome>>
      /\ overlap' = (overlap \/ SwapUnderWay)
  BY DEF NewTab, managerVars, browserVars
<1>7. overlap' \in BOOLEAN /\ made <= made' /\ contexts <= contexts'
  <2>1. overlap' \in BOOLEAN
    BY <1>6, Zenon
  <2> QED BY <1>2, <1>6, <2>1
<1>8. RestKinds' /\ Flags'
  BY <1>1, <1>6, <1>7 DEF RestKinds, Flags
<1>9. /\ swap' \in [Calls -> Call(made', contexts')] /\ swap'[p] = to
      /\ \A q \in Calls : q # p => swap'[q] = swap[q]
  BY <1>1, <1>4, <1>5, <1>6, <1>7, <1>8, SwapMoves
<1>10. SwapKinds'
  <2>1. Formed(to)
    BY <1>5, KindsAre, IdleIs DEF Formed, Recreates
  <2>2. \A q \in Calls : Formed(swap'[q])
    BY <1>1, <1>9, <2>1 DEF SwapKinds
  <2> QED BY <1>8, <1>9, <2>2 DEF SwapKinds, Formed
<1>11. Attributed'
  <2>1. \A q \in Calls : Lawful(swap'[q].saved)
    BY <1>1, <1>5, <1>9 DEF Attributed, Lawful
  <2> QED BY <1>1, <1>6, <2>1 DEF Attributed, Lawful
<1>12. ASSUME ~overlap' PROVE ~overlap /\ \A q \in Calls : swap[q].kind \notin Swapping /\ swap'[q].kind \notin Swapping
  <2>1. ~overlap /\ \A q \in Calls : swap[q].kind \notin Swapping
    BY <1>6, <1>12 DEF SwapUnderWay
  <2> QED BY <1>5, <1>9, <2>1, KindsAre
<1>13. ASSUME ~overlap' PROVE Alone' /\ Calm'
  <2>1. Alone'
    BY <1>12, <1>13 DEF Alone
  <2>2. \A q \in Calls : Steady(swap[q])'
    <3> TAKE q \in Calls
    <3>1. CASE q = p
      BY <1>5, <1>9, <3>1 DEF Steady, Emptied, Recreates, Exact
    <3>2. CASE q # p
      <4>1. Steady(swap[q])
        BY <1>12, <1>13 DEF SwapInv, Calm
      <4> QED BY <1>6, <1>9, <3>2, <4>1 DEF Steady, Owned, Exact
    <3> QED BY <3>1, <3>2
  <2>3. \A id \in tabs' : Owned(id)'
    BY <1>1, <1>6, <1>12, <1>13 DEF Owned
  <2> QED BY <1>1, <1>6, <1>12, <1>13, <2>1, <2>2, <2>3 DEF Calm
<1>14. ASSUME ~overlap', Sound' PROVE AtStages'
  <2>1. Whole /\ \A q \in Calls : Stage(swap[q])
    BY <1>6, <1>12, <1>14 DEF SwapInv, AtStages, Sound
  <2>2. Whole'
    BY <1>6, <2>1 DEF Whole, Only, Inside, HasActive, Scaled
  <2>3. \A q \in Calls : Stage(swap[q])'
    <3> TAKE q \in Calls
    <3>1. CASE q = p
      BY <1>5, <1>6, <1>9, <3>1 DEF Stage
    <3>2. CASE q # p
      BY <1>6, <1>9, <2>1, <3>2 DEF Stage, Held, Whole, Only, Inside, HasActive, Scaled
    <3> QED BY <3>1, <3>2
  <2> QED BY <2>2, <2>3 DEF AtStages
<1> QED BY <1>10, <1>11, <1>13, <1>14 DEF SwapInv

\* So does its page, in that context if it is still open.
LEMMA NewTabMadeKept ==
  ASSUME SwapInv, NEW p \in Calls, NewTabMade(p)
  PROVE  SwapInv'
<1>1. /\ SwapKinds /\ RestKinds /\ Flags /\ Attributed /\ Formed(swap[p])
      /\ \A id \in DOMAIN tabOwner : tabOwner[id] = openedFor[id]
      /\ ~overlap => (outcome = "handoff" => headed) /\ (\A id \in tabs : Owned(id))
      /\ ~overlap /\ Sound => Stage(swap[p])
  BY Standing
<1>2. /\ made \in Nat /\ contexts \in Nat /\ tabs \subseteq 1..made /\ openContexts \subseteq 1..contexts
      /\ DOMAIN tabOwner \subseteq 1..made
  BY <1>1, Numbers DEF RestKinds
<1>3. swap[p].kind = "newtab" /\ swap[p].for \in Clients
  BY <1>1, CallsAre DEF NewTabMade, Formed
<1>4. /\ UNCHANGED <<context, scale, headed, isHeaded, contexts, openContexts, scaleOf, exited, events, overlap, outcome>>
      /\ contexts' \in Nat /\ contexts <= contexts' /\ swap' = [swap EXCEPT ![p] = Idle]
  BY <1>2 DEF NewTabMade, Ends
<1>5. /\ RestKinds' /\ made <= made' /\ tabs \subseteq tabs'
      /\ \A id \in DOMAIN tabOwner' : tabOwner'[id] = openedFor'[id]
      /\ \A id \in 1..made : pageContext'[id] = pageContext[id] /\ openedFor'[id] = openedFor[id]
      /\ DOMAIN tabOwner \subseteq DOMAIN tabOwner'
      /\ \A id \in tabs' \ tabs : /\ id = active' /\ pageContext'[id] = swap[p].ctx
                                  /\ openedFor'[id] # Nobody => id \in DOMAIN tabOwner'
      /\ tabs' = tabs => active' = active
  <2>1. CASE swap[p].ctx \in openContexts
    <3>1. PICK ctx \in 1..contexts, f \in Clients : ctx = swap[p].ctx /\ f = swap[p].for /\ AddPage(ctx, f, f)
      BY <1>2, <1>3, <2>1 DEF NewTabMade
    <3>2. active' = made + 1
      BY <2>1 DEF NewTabMade
    <3>3. /\ made' = made + 1 /\ made' \in 0..MaxTabs /\ made <= made'
          /\ tabs' = tabs \cup {made'} /\ tabs' \subseteq 1..made'
          /\ pageContext' \in Seq(Nat) /\ Len(pageContext') = made' /\ pageContext'[made'] = ctx
          /\ \A id \in 1..made : pageContext'[id] = pageContext[id] /\ openedFor'[id] = openedFor[id]
          /\ \A id \in 1..made' : pageContext'[id] \in 1..contexts
          /\ openedFor' \in Seq(Clients) /\ Len(openedFor') = made' /\ openedFor'[made'] = f
          /\ DOMAIN tabOwner' \subseteq 1..made' /\ DOMAIN tabOwner \subseteq DOMAIN tabOwner'
          /\ \A id \in DOMAIN tabOwner' : tabOwner'[id] \in Agents
          /\ f # Nobody => made' \in DOMAIN tabOwner'
          /\ \A id \in DOMAIN tabOwner' : tabOwner'[id] = openedFor'[id]
      BY <1>1, <3>1, PageAdded
    <3>4. active' \in 0..made' /\ made' \notin tabs
      BY <1>2, <3>2, <3>3
    <3>5. RestKinds'
      BY <1>1, <1>4, <3>3, <3>4 DEF RestKinds
    <3> QED BY <1>2, <3>1, <3>2, <3>3, <3>4, <3>5
  <2>2. CASE swap[p].ctx \notin openContexts
    <3>1. UNCHANGED <<tabs, made, pageContext, openedFor, tabOwner, active>>
      BY <2>2 DEF NewTabMade
    <3>2. RestKinds'
      BY <1>1, <1>4, <3>1 DEF RestKinds
    <3> QED BY <1>1, <1>2, <3>1, <3>2
  <2> QED BY <2>1, <2>2
<1>6. Flags'
  BY <1>1, <1>4 DEF Flags
<1>7. Idle \in Call(made', contexts')
  <2>1. made' \in Nat
    BY <1>5, SwapNumbers DEF RestKinds
  <2> QED BY <1>4, <2>1, IdleIs
<1>8. /\ swap' \in [Calls -> Call(made', contexts')] /\ swap'[p] = Idle
      /\ \A q \in Calls : q # p => swap'[q] = swap[q]
  BY <1>1, <1>4, <1>5, <1>7, SwapMoves
<1>9. SwapKinds'
  <2>1. \A q \in Calls : Formed(swap'[q])
    BY <1>1, <1>8, IdleStands DEF SwapKinds
  <2> QED BY <1>5, <1>6, <1>8, <2>1 DEF SwapKinds, Formed
<1>10. Attributed'
  <2>1. \A q \in Calls : Lawful(swap'[q].saved)
    BY <1>1, <1>8, IdleStands DEF Attributed
  <2> QED BY <1>5, <2>1 DEF Attributed, Lawful
<1>11. ASSUME ~overlap
       PROVE  \A q \in Calls : swap[q].kind \notin Swapping /\ swap'[q].kind \notin Swapping
  <2>1. \A q \in Calls : q # p => swap[q].kind \notin Swapping
    BY <1>3, <1>11 DEF SwapInv, Alone
  <2> QED BY <1>3, <1>8, <2>1, KindsAre, IdleIs
<1>12. ASSUME ~overlap PROVE Alone' /\ Calm'
  <2>1. Alone'
    BY <1>11, <1>12 DEF Alone
  <2>2. \A id \in tabs' : Owned(id)'
    BY <1>1, <1>2, <1>5, <1>12 DEF Owned
  <2>3. \A q \in Calls : Steady(swap[q])'
    <3> TAKE q \in Calls
    <3>1. CASE q = p
      BY <1>8, <3>1, IdleIs DEF Steady, Exact, Emptied, Recreates
    <3>2. CASE q # p
      <4>1. /\ Steady(swap[q]) /\ Formed(swap[q]) /\ swap[q].kind \notin Swapping
            /\ swap[q].kind \in Swapping \cup {"idle", "newtab"}
        BY <1>1, <1>11, <1>12, CallsAre DEF SwapInv, Calm, SwapKinds
      <4>2. swap[q].at \in {"idle", "page"}
        BY <4>1, IdleIs DEF Formed
      <4> QED BY <1>4, <1>8, <3>2, <4>1, <4>2, KindsAre DEF Steady, Exact, Emptied
    <3> QED BY <3>1, <3>2
  <2> QED BY <1>1, <1>4, <1>12, <2>1, <2>2, <2>3 DEF Calm
<1>13. ASSUME ~overlap, Sound' PROVE AtStages'
  <2>1. Sound
    BY <1>4, <1>13 DEF Sound
  <2>2. Whole /\ (\A q \in Calls : Stage(swap[q])) /\ swap[p].ctx = context
    <3>1. AtStages
      BY <1>13, <2>1 DEF SwapInv
    <3>2. Stage(swap[p])
      BY <1>1, <1>13, <2>1
    <3> QED BY <1>3, <1>11, <1>13, <3>1, <3>2 DEF AtStages, Stage
  <2>3. Whole'
    <3>1. Only' /\ Scaled'
      BY <1>4, <2>2 DEF Whole, Only, Scaled
    <3>2. Inside'
      BY <1>2, <1>4, <1>5, <2>2 DEF Whole, Inside
    <3>3. HasActive'
      BY <1>5, <2>2 DEF Whole, HasActive
    <3> QED BY <3>1, <3>2, <3>3 DEF Whole
  <2>4. \A q \in Calls : Stage(swap[q])'
    <3> TAKE q \in Calls
    <3>1. CASE q = p
      BY <1>8, <3>1, IdleIs DEF Stage, Recreates
    <3>2. CASE q # p
      <4>1. /\ Stage(swap[q]) /\ Formed(swap[q]) /\ swap[q].kind \notin Swapping
            /\ swap[q].kind \in Swapping \cup {"idle", "newtab"}
        BY <1>1, <1>11, <1>13, <2>2, CallsAre DEF SwapKinds
      <4>2. swap[q].at \in {"idle", "page"}
        BY <4>1, IdleIs DEF Formed
      <4> QED BY <1>4, <1>8, <3>2, <4>1, <4>2 DEF Stage
    <3> QED BY <3>1, <3>2
  <2> QED BY <2>3, <2>4 DEF AtStages
<1>14. overlap' = overlap
  BY <1>4
<1> QED BY <1>9, <1>10, <1>12, <1>13, <1>14 DEF SwapInv

\* So does a page that is closed.
LEMMA PageClosesKept ==
  ASSUME SwapInv, NEW id \in tabs, PageCloses(id)
  PROVE  SwapInv'
<1>1. /\ SwapKinds /\ RestKinds /\ Flags /\ Attributed
  BY DEF SwapInv, SwapKinds
<1>2. /\ UNCHANGED <<context, made, tabOwner, scale, headed, isHeaded, contexts, openContexts, pageContext, scaleOf, exited,
                     openedFor, swap, overlap, outcome>>
      /\ tabs' = tabs \ {id} /\ active' = FallsTo({id})
  BY DEF PageCloses, browserVars
<1>3. events' \in 0..MaxEvents
  BY <1>1, SwapNumbers DEF PageCloses, RestKinds
<1>4. active' \in 0..made /\ (HasActive => HasActive')
  BY <1>1, <1>2, FallsAre DEF HasActive
<1>5. RestKinds' /\ Flags'
  BY <1>1, <1>2, <1>3, <1>4 DEF RestKinds, Flags
<1>6. SwapKinds' /\ Attributed' /\ (Alone => Alone')
  BY <1>1, <1>2, <1>5 DEF SwapKinds, Attributed, Lawful, Formed, Alone
<1>7. Calm => Calm'
  <2> SUFFICES ASSUME Calm PROVE Calm'
    OBVIOUS
  <2>1. \A q \in Calls : Steady(swap[q])'
    BY <1>2 DEF Calm, Steady, Exact, Owned
  <2> QED BY <1>2, <2>1 DEF Calm, Owned
<1>8. AtStages => AtStages'
  <2> SUFFICES ASSUME AtStages PROVE AtStages'
    OBVIOUS
  <2>1. /\ Only => Only'
        /\ Inside => Inside'
        /\ Scaled => Scaled'
        /\ Whole => Whole'
    BY <1>2, <1>4 DEF Only, Inside, Scaled, Whole
  <2>2. \A c : Held(c) => Held(c)'
    BY <1>2, <2>1 DEF Held
  <2>3. \A q \in Calls : Stage(swap[q])'
    <3> TAKE q \in Calls
    <3>1. Stage(swap[q])
      BY DEF AtStages
    <3>2. PICK c : c = swap[q]
      OBVIOUS
    <3>3. Stage(c)'
      BY <1>2, <1>4, <2>1, <2>2, <3>1, <3>2 DEF Stage
    <3> QED BY <1>2, <3>2, <3>3
  <2> QED BY <1>2, <2>1, <2>3 DEF AtStages
<1>9. Sound' => Sound
  BY <1>2 DEF Sound
<1> QED BY <1>2, <1>6, <1>7, <1>8, <1>9 DEF SwapInv

\* The invariant holds at first.
LEMMA SwapInitInv == SwapInit => SwapInv
<1> SUFFICES ASSUME SwapInit PROVE SwapInv
  OBVIOUS
<1>1. /\ context = 1 /\ contexts = 1 /\ openContexts = {1}
      /\ tabs = {1} /\ made = 1 /\ pageContext = <<1>> /\ active = 1
      /\ tabOwner = <<>> /\ openedFor = <<Nobody>>
      /\ scale = 1 /\ scaleOf = <<1>> /\ events = 0 /\ outcome = "ok" /\ swap = [p \in Calls |-> Idle]
  BY DEF SwapInit
<1>2. Flags
  BY Zenon DEF SwapInit, Flags
<1>3. RestKinds
  <2>1. pageContext \in Seq(Nat) /\ Len(pageContext) = 1 /\ pageContext[1] = 1 /\ DOMAIN tabOwner = {}
    BY <1>1
  <2>2. openedFor \in Seq(Clients) /\ Len(openedFor) = 1 /\ openedFor[1] = Nobody
    BY <1>1 DEF Clients
  <2>3. scaleOf \in Seq(Scales \cup {0}) /\ Len(scaleOf) = 1
    BY <1>1, SwapNumbers
  <2> QED BY <1>1, <2>1, <2>2, <2>3, SwapNumbers DEF RestKinds
<1>4. Idle \in Call(made, contexts)
  BY <1>1, IdleIs
<1>5. SwapKinds
  BY <1>1, <1>2, <1>3, <1>4, IdleStands DEF SwapKinds
<1>6. Attributed
  <2>1. DOMAIN tabOwner = {}
    BY <1>1
  <2> QED BY <1>1, <2>1, IdleStands DEF Attributed
<1>7. Alone /\ Calm
  <2>1. openedFor[1] = Nobody
    BY <1>1
  <2> QED BY <1>1, <2>1, IdleStands, IdleIs, KindsAre DEF Alone, Calm, Owned
<1>8. AtStages
  <2>1. Whole
    BY <1>1 DEF Whole, Only, Inside, HasActive, Scaled
  <2> QED BY <1>1, <2>1, IdleStands DEF AtStages
<1> QED BY <1>5, <1>6, <1>7, <1>8 DEF SwapInv

\* Every step keeps the invariant.
LEMMA SwapStepKept == SwapInv /\ [SwapNext]_swapVars => SwapInv'
<1> SUFFICES ASSUME SwapInv, [SwapNext]_swapVars PROVE SwapInv'
  OBVIOUS
<1>1. CASE SwapNext
  <2>1. ~exited
    BY <1>1 DEF SwapNext
  <2>2. ASSUME NEW p \in Calls, Recreate(p) \/ Rescale(p) \/ Handoff(p) PROVE SwapInv'
    <3>1. scale \in Scales /\ 3 - scale \in Scales
      BY SwapNumbers DEF SwapInv, SwapKinds, RestKinds
    <3>2. CASE Recreate(p)
      BY <3>2, SwapStartKept DEF Recreate, Recreates
    <3>3. CASE Rescale(p)
      BY <3>1, <3>3, SwapStartKept DEF Rescale, Recreates
    <3>4. CASE Handoff(p)
      BY <3>4, SwapStartKept DEF Handoff, Recreates
    <3> QED BY <2>2, <3>2, <3>3, <3>4
  <2>3. CASE \E p \in Calls :
               \/ LoadState(p) \/ SaveTab(p) \/ ClosePage(p) \/ CloseContext(p) \/ NewContext(p) \/ Launch(p)
               \/ RestoreFails(p) \/ RestoreCookies(p) \/ RestorePage(p) \/ PageLoaded(p)
    BY <2>1, <2>3, LoadStateKept, SaveTabKept, ClosePageKept, CloseContextKept, NewContextKept, LaunchKept,
       RestoreFailsKept, RestoreCookiesKept, RestorePageKept, PageLoadedKept
  <2>4. CASE \E p \in Calls :
               \/ BlankTab(p) \/ BlankContext(p) \/ FallbackTab(p) \/ CloseHeaded(p) \/ NewTab(p) \/ NewTabMade(p)
    BY <2>1, <2>4, BlankTabKept, BlankContextKept, FallbackTabKept, CloseHeadedKept, NewTabKept, NewTabMadeKept
  <2>5. CASE \E id \in tabs : PageCloses(id)
    BY <2>5, PageClosesKept
  <2> QED BY <1>1, <2>2, <2>3, <2>4, <2>5 DEF SwapNext
<1>2. CASE UNCHANGED swapVars
  <2>1. UNCHANGED <<context, tabs, made, active, tabOwner, scale, headed, isHeaded, contexts, openContexts, pageContext,
                    scaleOf, exited, openedFor, swap, events, overlap, outcome>>
    BY <1>2 DEF swapVars, managerVars, browserVars
  <2>2. SwapKinds'
    BY <2>1 DEF SwapInv, SwapKinds, RestKinds, Flags, Formed
  <2>3. Attributed' /\ (~overlap => Alone' /\ Calm')
    BY <2>1 DEF SwapInv, Attributed, Lawful, Alone, Calm, Steady, Exact, Owned
  <2>4. ~overlap /\ Sound' => AtStages'
    BY <2>1 DEF SwapInv, Sound, AtStages, Stage, Held, Whole, Only, Inside, HasActive, Scaled
  <2> QED BY <2>1, <2>2, <2>3, <2>4 DEF SwapInv
<1> QED BY <1>1, <1>2

\* The invariant holds throughout.
THEOREM SwapInvariance == SwapSpec => []SwapInv
<1> QED BY SwapInitInv, SwapStepKept, PTL DEF SwapSpec

\* Contexts, tabs, owners and the calls under way keep their types.
THEOREM SwapTypes == SwapSpec => []SwapTypeOK
<1>1. SwapInv => SwapTypeOK
  <2> SUFFICES ASSUME SwapInv PROVE SwapTypeOK
    OBVIOUS
  <2>1. SwapKinds /\ RestKinds /\ Flags
    BY DEF SwapInv, SwapKinds
  <2>2. made \in Nat /\ contexts \in Nat
    BY <2>1, Numbers
  <2>3. pageContext \in [1..made -> 1..contexts]
    BY <2>1, <2>2 DEF RestKinds
  <2>4. openedFor \in [1..made -> Agents \cup {Nobody}]
    BY <2>1, <2>2 DEF RestKinds, Clients
  <2>5. scaleOf \in [1..contexts -> Scales \cup {0}]
    BY <2>1, <2>2 DEF RestKinds
  <2>6. context \in 1..contexts
    BY <2>1, Numbers
  <2>7. headed \in BOOLEAN /\ isHeaded \in BOOLEAN /\ exited \in BOOLEAN /\ overlap \in BOOLEAN
    BY <2>1, Zenon DEF Flags
  <2>8. \A p \in Calls :
          /\ swap[p].kind \in Swapping \cup {"idle", "newtab"}
          /\ swap[p].cur \in 0..made /\ swap[p].ctx \in 0..contexts
          /\ swap[p].activeId \in 0..made /\ swap[p].prev \in Scales
          /\ swap[p].saved \in Seq(Saved) /\ swap[p].for \in Agents \cup {Nobody}
          /\ swap[p].mine \in 0..contexts
    BY <2>1, CallsAre DEF Clients
  <2> QED BY <2>1, <2>3, <2>4, <2>5, <2>6, <2>7, <2>8 DEF SwapTypeOK, RestKinds
<1> QED BY <1>1, SwapInvariance, PTL

\* When no call is under way, none has overlapped a swap and every swap has restored or
\* blanked the browser: one context is open, it holds the tabs, one of them is active, and
\* it has the scale that is tracked.  For any number of calls, tabs and contexts.
THEOREM WholeAfterSwapAlways == SwapSpec => []WholeAfterSwap
<1>1. SwapInv => WholeAfterSwap
  <2> SUFFICES ASSUME SwapInv, Settled, ~overlap, outcome \in {"ok", "blank"}
               PROVE  /\ openContexts = {context}
                      /\ \A id \in tabs : pageContext[id] = context
                      /\ tabs # {} => active \in tabs
                      /\ scaleOf[context] \in {scale, 0}
    BY DEF WholeAfterSwap
  <2>1. AtStages /\ \A p \in Calls : swap[p].kind = "idle"
    BY DEF SwapInv, Sound, Settled, Busy
  <2>2. Whole
    BY <2>1, KindsAre DEF AtStages
  <2> QED BY <2>2 DEF Whole, Only, Inside, HasActive, Scaled
<1> QED BY <1>1, SwapInvariance, PTL

\* No tab is ever owned by another client than the one for which it or the tab it was
\* restored from was opened; and until calls overlap the tabs of an agent keep their owner
\* through every swap, its failures and its fallback.
THEOREM OwnersSurviveAlways == SwapSpec => []OwnersSurvive
<1>1. SwapInv => OwnersSurvive
  BY DEF SwapInv, Attributed, Calm, Owned, OwnersSurvive
<1> QED BY <1>1, SwapInvariance, PTL

-----------------------------------------------------------------------------
(* CookiePicker: ListingIsTrue.  Requests overlap, but a request has at most *)
(* one call under way, and the context answers calls in their order; so what *)
(* the jar has of a domain is decided by the last answer that has not been   *)
(* handled yet.                                                              *)

\* An import or removal as it can be.
ImportKind ==
  [does : {"rests", "keys", "tasklist", "polls", "extracts", "adds", "removes"},
   by : {"nobody", "picker", "command"}, of : SUBSET CookieDomains]

\* A call to the browser context.
CallKind == [from : CookieRequests, op : {"add", "clear"}, of : SUBSET CookieDomains]

\* Its answer.
AnswerKind == [call : CallKind, ok : BOOLEAN]

\* The kinds of the variables.
CookieKinds ==
  /\ importing \in [CookieRequests -> ImportKind] /\ chromes \subseteq CookieRequests
  /\ wire \in Seq(CallKind) /\ answers \in Seq(AnswerKind)
  /\ jar \subseteq CookieDomains /\ direct \subseteq CookieDomains
  /\ counts \in [CookieDomains -> 0..2]

\* A call is the one its request waits for.
Suits(c, how) == IF c.op = "add" THEN how.does = "adds" /\ how.of = c.of ELSE how.does = "removes"

\* Calls under way and answers not yet handled suit their requests, one for each.
Pipeline ==
  /\ \A i \in 1..Len(wire) : Suits(wire[i], importing[wire[i].from])
  /\ \A i \in 1..Len(answers) : Suits(answers[i].call, importing[answers[i].call.from])
  /\ \A i, j \in 1..Len(wire) : wire[i].from = wire[j].from => i = j
  /\ \A i, j \in 1..Len(answers) : answers[i].call.from = answers[j].call.from => i = j
  /\ \A i \in 1..Len(wire), j \in 1..Len(answers) : wire[i].from # answers[j].call.from

\* An answer that changed what the browser has of a domain.
Settles(a, d) == a.ok /\ d \in a.call.of

\* What the jar has of a domain is what the last answer not yet handled says, or else
\* what is listed.
Agrees ==
  \A d \in CookieDomains :
    /\ (\A i \in 1..Len(answers) : ~Settles(answers[i], d)) =>
         /\ counts[d] > 0 => d \in jar
         /\ d \in jar => counts[d] > 0 \/ d \in direct
    /\ \A i \in 1..Len(answers) :
         Settles(answers[i], d) /\ (\A j \in (i + 1)..Len(answers) : ~Settles(answers[j], d))
           => (d \in jar <=> answers[i].call.op = "add")

\* A headless Chrome has a request that will close it.
Browsing == \A r \in chromes : importing[r].does \in {"polls", "extracts"}

\* The inductive invariant.
CookieInv == CookieKinds /\ Pipeline /\ Agrees /\ Browsing

\* A request that is over.
LEMMA Restful == NoImport \in ImportKind /\ NoImport.does = "rests"
BY DEF NoImport, ImportKind

\* One request moves.
LEMMA ImportMoves ==
  ASSUME CookieKinds, NEW r \in CookieRequests, NEW to \in ImportKind,
         importing' = [importing EXCEPT ![r] = to]
  PROVE  /\ importing' \in [CookieRequests -> ImportKind] /\ importing'[r] = to
         /\ \A q \in CookieRequests : q # r => importing'[q] = importing[q]
BY DEF CookieKinds

\* What the queues have is of their kinds.
LEMMA Queues ==
  ASSUME CookieKinds
  PROVE  /\ Len(wire) \in Nat /\ Len(answers) \in Nat
         /\ \A i \in 1..Len(wire) : wire[i] \in CallKind /\ wire[i].from \in CookieRequests
         /\ \A i \in 1..Len(answers) : /\ answers[i].call \in CallKind
                                       /\ answers[i].call.from \in CookieRequests
<1>1. \A c \in CallKind : c.from \in CookieRequests
  BY DEF CallKind
<1>2. Len(wire) \in Nat /\ Len(answers) \in Nat /\ \A i \in 1..Len(wire) : wire[i] \in CallKind
  BY DEF CookieKinds
<1>3. \A i \in 1..Len(answers) : answers[i] \in AnswerKind
  BY DEF CookieKinds
<1>4. \A a \in AnswerKind : a.call \in CallKind
  BY DEF AnswerKind
<1> QED BY <1>1, <1>2, <1>3, <1>4

\* A request that adds and removes nothing has no call under way.
LEMMA Uncalled ==
  ASSUME CookieKinds, Pipeline, NEW r \in CookieRequests, importing[r].does \notin {"adds", "removes"}
  PROVE  /\ \A i \in 1..Len(wire) : wire[i].from # r
         /\ \A i \in 1..Len(answers) : answers[i].call.from # r
BY DEF Pipeline, Suits

\* What a call adds to the queue.
LEMMA Sent ==
  ASSUME CookieKinds, NEW c \in CallKind, wire' = Append(wire, c)
  PROVE  /\ wire' \in Seq(CallKind) /\ Len(wire') = Len(wire) + 1 /\ wire'[Len(wire) + 1] = c
         /\ \A i \in 1..Len(wire) : wire'[i] = wire[i]
BY DEF CookieKinds

\* What handling an answer leaves.
LEMMA Handled ==
  ASSUME CookieKinds, answers # <<>>, answers' = Tail(answers)
  PROVE  /\ answers' \in Seq(AnswerKind) /\ Len(answers) > 0
         /\ Len(answers') = Len(answers) - 1 /\ Head(answers) = answers[1]
         /\ \A i \in 1..Len(answers') : answers'[i] = answers[i + 1]
BY HeadTailProperties DEF CookieKinds

\* A request that has no call under way may move, and call.
LEMMA PipelineKept ==
  ASSUME CookieKinds, Pipeline, NEW r \in CookieRequests, NEW to \in ImportKind,
         importing' = [importing EXCEPT ![r] = to],
         \/ answers' = answers /\ importing[r].does \notin {"adds", "removes"}
         \/ answers # <<>> /\ answers' = Tail(answers) /\ Head(answers).call.from = r,
         wire' = wire \/ \E c \in CallKind : wire' = Append(wire, c) /\ c.from = r /\ Suits(c, to)
  PROVE  Pipeline' /\ answers' \in Seq(AnswerKind) /\ wire' \in Seq(CallKind)
<1>1. /\ importing'[r] = to
      /\ \A q \in CookieRequests : q # r => importing'[q] = importing[q]
  BY ImportMoves
<1>2. /\ \A i \in 1..Len(wire) : wire[i].from # r /\ wire[i].from \in CookieRequests
      /\ answers' \in Seq(AnswerKind)
      /\ \A i \in 1..Len(answers') : answers'[i].call.from # r /\ answers'[i].call.from \in CookieRequests
      /\ \/ Len(answers') = Len(answers) /\ \A i \in 1..Len(answers') : answers'[i] = answers[i]
         \/ /\ Len(answers) > 0 /\ Len(answers') = Len(answers) - 1
            /\ \A i \in 1..Len(answers') : answers'[i] = answers[i + 1]
  <2>1. CASE answers' = answers /\ importing[r].does \notin {"adds", "removes"}
    BY <2>1, Uncalled, Queues DEF CookieKinds
  <2>2. CASE answers # <<>> /\ answers' = Tail(answers) /\ Head(answers).call.from = r
    <3>1. /\ answers' \in Seq(AnswerKind) /\ Len(answers) > 0
          /\ Len(answers') = Len(answers) - 1 /\ Head(answers) = answers[1]
          /\ \A i \in 1..Len(answers') : answers'[i] = answers[i + 1]
      BY <2>2, Handled
    <3>2. answers[1].call.from = r /\ 1 \in 1..Len(answers) /\ Len(answers) \in Nat
      <4>1. Head(answers).call.from = r
        BY <2>2
      <4>2. answers[1].call.from = r
        BY <3>1, <4>1, Zenon
      <4>3. Len(answers) \in Nat
        BY Queues
      <4> QED BY <3>1, <4>2, <4>3
    <3>3. \A i \in 1..Len(wire) : wire[i].from # r
      BY <3>2 DEF Pipeline
    <3>4. \A i \in 1..Len(answers') : i + 1 \in 1..Len(answers) /\ i + 1 # 1
      BY <3>1, <3>2
    <3>5. \A i \in 1..Len(answers') : answers'[i].call.from # r
      BY <3>1, <3>2, <3>4 DEF Pipeline
    <3> QED BY <3>1, <3>3, <3>4, <3>5, Queues
  <2> QED BY <2>1, <2>2
<1>3. /\ wire' \in Seq(CallKind)
      /\ \A i \in 1..Len(wire') : \/ i \in 1..Len(wire) /\ wire'[i] = wire[i]
                                  \/ i = Len(wire) + 1 /\ wire'[i].from = r /\ Suits(wire'[i], to)
  <2>1. CASE wire' = wire
    BY <2>1 DEF CookieKinds
  <2>2. ASSUME NEW c \in CallKind, wire' = Append(wire, c), c.from = r, Suits(c, to)
        PROVE  /\ wire' \in Seq(CallKind)
               /\ \A i \in 1..Len(wire') : \/ i \in 1..Len(wire) /\ wire'[i] = wire[i]
                                           \/ i = Len(wire) + 1 /\ wire'[i].from = r /\ Suits(wire'[i], to)
    BY <2>2, Sent, Queues
  <2> QED BY <2>1, <2>2
<1>4. \A i \in 1..Len(wire') : Suits(wire'[i], importing'[wire'[i].from])
  BY <1>1, <1>2, <1>3 DEF Pipeline
<1>5. /\ Len(answers) \in Nat /\ Len(answers') \in Nat
      /\ \A i \in 1..Len(answers') : \E j \in 1..Len(answers) : answers'[i] = answers[j] /\ j \in {i, i + 1}
  BY <1>2, Queues
<1>6. ASSUME NEW i \in 1..Len(answers') PROVE Suits(answers'[i].call, importing'[answers'[i].call.from])
  <2>1. PICK j \in 1..Len(answers) : answers'[i] = answers[j]
    BY <1>5
  <2>2. Suits(answers[j].call, importing[answers[j].call.from])
    BY DEF Pipeline
  <2>3. importing'[answers'[i].call.from] = importing[answers'[i].call.from]
    BY <1>1, <1>2
  <2> QED BY <2>1, <2>2, <2>3
<1>7. \A i, j \in 1..Len(wire') : wire'[i].from = wire'[j].from => i = j
  BY <1>2, <1>3, Queues DEF Pipeline
<1>8. \A i, j \in 1..Len(answers') : answers'[i].call.from = answers'[j].call.from => i = j
  <2> SUFFICES ASSUME NEW i \in 1..Len(answers'), NEW j \in 1..Len(answers'),
                      answers'[i].call.from = answers'[j].call.from
               PROVE  i = j
    OBVIOUS
  <2>1. CASE Len(answers') = Len(answers) /\ \A k \in 1..Len(answers') : answers'[k] = answers[k]
    BY <2>1 DEF Pipeline
  <2>2. CASE Len(answers') = Len(answers) - 1 /\ \A k \in 1..Len(answers') : answers'[k] = answers[k + 1]
    <3>1. i + 1 \in 1..Len(answers) /\ j + 1 \in 1..Len(answers)
      BY <1>5, <2>2
    <3>2. answers[i + 1].call.from = answers[j + 1].call.from
      BY <2>2
    <3>3. i + 1 = j + 1
      BY <3>1, <3>2 DEF Pipeline
    <3> QED BY <3>3
  <2> QED BY <1>2, <2>1, <2>2
<1>9. \A i \in 1..Len(wire'), j \in 1..Len(answers') : wire'[i].from # answers'[j].call.from
  <2> SUFFICES ASSUME NEW i \in 1..Len(wire'), NEW j \in 1..Len(answers')
               PROVE  wire'[i].from # answers'[j].call.from
    OBVIOUS
  <2>1. PICK l \in 1..Len(answers) : answers'[j] = answers[l]
    BY <1>5
  <2>2. answers'[j].call.from # r /\ \A k \in 1..Len(wire) : wire[k].from # answers[l].call.from
    BY <1>2 DEF Pipeline
  <2>3. \/ i \in 1..Len(wire) /\ wire'[i] = wire[i]
        \/ wire'[i].from = r
    BY <1>3
  <2> QED BY <2>1, <2>2, <2>3
<1> QED BY <1>2, <1>3, <1>4, <1>6, <1>7, <1>8, <1>9 DEF Pipeline

\* It keeps the invariant where nothing is answered.
LEMMA CookieMoveKept ==
  ASSUME CookieInv, NEW r \in CookieRequests, NEW to \in ImportKind,
         importing[r].does \notin {"adds", "removes"},
         importing' = [importing EXCEPT ![r] = to],
         wire' = wire \/ \E c \in CallKind : wire' = Append(wire, c) /\ c.from = r /\ Suits(c, to),
         chromes' \subseteq chromes \cup {r},
         r \in chromes' => to.does \in {"polls", "extracts"},
         UNCHANGED <<answers, jar, counts, direct>>
  PROVE  CookieInv'
<1>1. CookieKinds /\ Pipeline /\ Agrees /\ Browsing
  BY DEF CookieInv
<1>2. Pipeline' /\ answers' \in Seq(AnswerKind) /\ wire' \in Seq(CallKind)
  BY <1>1, PipelineKept
<1>3. /\ importing' \in [CookieRequests -> ImportKind] /\ importing'[r] = to
      /\ \A q \in CookieRequests : q # r => importing'[q] = importing[q]
  BY <1>1, ImportMoves
<1>4. CookieKinds'
  BY <1>1, <1>2, <1>3 DEF CookieKinds
<1>5. Agrees'
  BY <1>1 DEF Agrees
<1>6. Browsing'
  BY <1>1, <1>3 DEF Browsing, CookieKinds
<1> QED BY <1>2, <1>4, <1>5, <1>6 DEF CookieInv

\* So does one that goes on to add its cookies.
LEMMA AddsKept ==
  ASSUME CookieInv, NEW r \in CookieRequests, NEW ds \in SUBSET CookieDomains, Adds(r, ds),
         importing[r].does \notin {"adds", "removes"},
         chromes' \subseteq chromes \ {r} \/ (chromes' = chromes /\ r \notin chromes)
  PROVE  CookieInv'
<1>1. CookieKinds
  BY DEF CookieInv
<1>2. importing[r] \in ImportKind
  BY <1>1 DEF CookieKinds
<1>3. PICK to : to = [importing[r] EXCEPT !.does = "adds", !.of = ds]
  OBVIOUS
<1>4. to \in ImportKind /\ to.does = "adds" /\ to.of = ds
  BY <1>2, <1>3 DEF ImportKind
<1>5. importing' = [importing EXCEPT ![r] = to]
  <2>1. importing' = [importing EXCEPT ![r].does = "adds", ![r].of = ds]
    BY DEF Adds
  <2>2. importing \in [CookieRequests -> ImportKind]
    BY <1>1 DEF CookieKinds
  <2> QED BY <1>3, <2>1, <2>2, Zenon
<1>6. PICK c : c = [from |-> r, op |-> "add", of |-> ds]
  OBVIOUS
<1>7. c \in CallKind /\ c.from = r /\ Suits(c, to) /\ wire' = Append(wire, c)
  BY <1>4, <1>6 DEF CallKind, Suits, Adds
<1> QED BY <1>4, <1>5, <1>7, CookieMoveKept DEF Adds

\* The context answers calls in their order, or fails them.
LEMMA ContextDoesKept ==
  ASSUME CookieInv, ContextDoes
  PROVE  CookieInv'
<1>1. CookieKinds /\ Pipeline /\ Agrees /\ Browsing
  BY DEF CookieInv
<1>2. PICK c : c = Head(wire)
  OBVIOUS
<1>3. PICK ok \in BOOLEAN :
        /\ answers' = Append(answers, [call |-> c, ok |-> ok])
        /\ jar' = CASE ok /\ c.op = "add" -> jar \cup c.of
                    [] ok /\ c.op = "clear" -> jar \ c.of
                    [] OTHER -> jar
  BY <1>2 DEF ContextDoes
<1>4. PICK a : a = [call |-> c, ok |-> ok]
  OBVIOUS
<1>5. /\ wire' \in Seq(CallKind) /\ Len(wire) \in Nat /\ Len(wire) > 0 /\ Len(wire') = Len(wire) - 1
      /\ c = wire[1] /\ c \in CallKind /\ \A i \in 1..Len(wire') : wire'[i] = wire[i + 1]
  BY <1>1, <1>2, HeadTailProperties DEF ContextDoes, CookieKinds
<1>6. a.call = c /\ a \in AnswerKind /\ (a.ok <=> ok)
  BY <1>4, <1>5 DEF AnswerKind
<1>7. /\ answers' \in Seq(AnswerKind) /\ Len(answers) \in Nat
      /\ Len(answers') = Len(answers) + 1 /\ answers'[Len(answers) + 1] = a
      /\ \A i \in 1..Len(answers) : answers'[i] = answers[i]
  <2>1. answers' = Append(answers, a) /\ answers \in Seq(AnswerKind)
    BY <1>1, <1>3, <1>4 DEF CookieKinds
  <2> QED BY <1>6, <2>1
<1>8. c.op \in {"add", "clear"} /\ c.of \subseteq CookieDomains /\ c.from \in CookieRequests
  BY <1>5 DEF CallKind
<1>9. jar' \subseteq CookieDomains
  BY <1>1, <1>3, <1>8 DEF CookieKinds
<1>10. CookieKinds'
  BY <1>1, <1>5, <1>7, <1>9 DEF CookieKinds, ContextDoes
<1>11. \A i \in 1..Len(wire') : i + 1 \in 1..Len(wire) /\ i + 1 # 1 /\ wire'[i] = wire[i + 1]
  BY <1>5
<1>12. /\ 1 \in 1..Len(wire) /\ importing' = importing
       /\ \A i \in 1..Len(answers') : \/ i \in 1..Len(answers) /\ answers'[i] = answers[i]
                                      \/ i = Len(answers) + 1 /\ answers'[i].call = c
  BY <1>5, <1>6, <1>7 DEF ContextDoes
<1>13. Pipeline'
  <2>1. \A i \in 1..Len(wire') : Suits(wire'[i], importing'[wire'[i].from])
    BY <1>1, <1>11, <1>12 DEF Pipeline
  <2>2. \A i \in 1..Len(answers') : Suits(answers'[i].call, importing'[answers'[i].call.from])
    BY <1>1, <1>5, <1>12 DEF Pipeline
  <2>3. \A i, j \in 1..Len(wire') : wire'[i].from = wire'[j].from => i = j
    <3> SUFFICES ASSUME NEW i \in 1..Len(wire'), NEW j \in 1..Len(wire'), wire'[i].from = wire'[j].from
                 PROVE  i = j
      OBVIOUS
    <3>1. /\ i + 1 \in 1..Len(wire) /\ wire'[i] = wire[i + 1]
          /\ j + 1 \in 1..Len(wire) /\ wire'[j] = wire[j + 1]
      BY <1>11
    <3>2. \A k, l \in 1..Len(wire) : wire[k].from = wire[l].from => k = l
      BY <1>1 DEF Pipeline
    <3>3. wire[i + 1].from = wire[j + 1].from
      BY <3>1
    <3>4. i + 1 = j + 1
      BY <3>1, <3>2, <3>3
    <3> QED BY <3>4
  <2>4. \A i \in 1..Len(answers) : answers[i].call.from # c.from
    BY <1>1, <1>5, <1>12 DEF Pipeline
  <2>5. \A i, j \in 1..Len(answers') : answers'[i].call.from = answers'[j].call.from => i = j
    <3> SUFFICES ASSUME NEW i \in 1..Len(answers'), NEW j \in 1..Len(answers'),
                        answers'[i].call.from = answers'[j].call.from
                 PROVE  i = j
      OBVIOUS
    <3>1. CASE i \in 1..Len(answers) /\ answers'[i] = answers[i] /\ j \in 1..Len(answers) /\ answers'[j] = answers[j]
      BY <1>1, <3>1 DEF Pipeline
    <3>2. CASE i = Len(answers) + 1 /\ answers'[i].call = c
      BY <1>12, <2>4, <3>2
    <3>3. CASE j = Len(answers) + 1 /\ answers'[j].call = c
      BY <1>12, <2>4, <3>3
    <3> QED BY <1>12, <3>1, <3>2, <3>3
  <2>6. \A i \in 1..Len(wire'), j \in 1..Len(answers') : wire'[i].from # answers'[j].call.from
    <3> SUFFICES ASSUME NEW i \in 1..Len(wire'), NEW j \in 1..Len(answers')
                 PROVE  wire[i + 1].from # answers'[j].call.from
      BY <1>11
    <3>1. wire[i + 1].from # c.from /\ i + 1 \in 1..Len(wire)
      BY <1>1, <1>5, <1>11, <1>12 DEF Pipeline
    <3>2. CASE j \in 1..Len(answers) /\ answers'[j] = answers[j]
      BY <1>1, <3>1, <3>2 DEF Pipeline
    <3> QED BY <1>12, <3>1, <3>2
  <2> QED BY <2>1, <2>2, <2>3, <2>5, <2>6 DEF Pipeline
<1>14. Agrees'
  <2> SUFFICES ASSUME NEW d \in CookieDomains
               PROVE  /\ (\A i \in 1..Len(answers') : ~Settles(answers'[i], d)) =>
                           /\ counts[d] > 0 => d \in jar'
                           /\ d \in jar' => counts[d] > 0 \/ d \in direct
                      /\ \A i \in 1..Len(answers') :
                           Settles(answers'[i], d) /\ (\A j \in (i + 1)..Len(answers') : ~Settles(answers'[j], d))
                             => (d \in jar' <=> answers'[i].call.op = "add")
    BY DEF Agrees, ContextDoes
  <2>1. Settles(a, d) <=> ok /\ d \in c.of
    BY <1>6 DEF Settles
  <2>2. CASE ok /\ d \in c.of
    <3>1. d \in jar' <=> c.op = "add"
      BY <1>3, <1>8, <2>2
    <3>2. Settles(answers'[Len(answers) + 1], d) /\ Len(answers) + 1 \in 1..Len(answers')
      BY <1>7, <2>1, <2>2
    <3>3. \A i \in 1..Len(answers') : i # Len(answers) + 1 => Len(answers) + 1 \in (i + 1)..Len(answers')
      BY <1>7
    <3>4. answers'[Len(answers) + 1].call.op = c.op
      BY <1>6, <1>7
    <3> QED BY <3>1, <3>2, <3>3, <3>4
  <2>3. CASE ~(ok /\ d \in c.of)
    <3>1. d \in jar' <=> d \in jar
      BY <1>3, <2>3
    <3>2. ~Settles(answers'[Len(answers) + 1], d)
      BY <1>7, <2>1, <2>3
    <3>3. \A i \in 1..Len(answers') : i # Len(answers) + 1 =>
            i \in 1..Len(answers) /\ answers'[i] = answers[i]
      BY <1>7
    <3>4. \A i \in 1..Len(answers) : i \in 1..Len(answers') /\ answers'[i] = answers[i]
      BY <1>7
    <3>5. \A i \in 1..Len(answers) : \A j \in (i + 1)..Len(answers) :
            j \in (i + 1)..Len(answers') /\ j \in 1..Len(answers)
      BY <1>7
    <3>6. (\A i \in 1..Len(answers') : ~Settles(answers'[i], d)) =>
            /\ counts[d] > 0 => d \in jar'
            /\ d \in jar' => counts[d] > 0 \/ d \in direct
      BY <1>1, <3>1, <3>4 DEF Agrees
    <3>7. ASSUME NEW i \in 1..Len(answers'), Settles(answers'[i], d),
                 \A j \in (i + 1)..Len(answers') : ~Settles(answers'[j], d)
          PROVE  d \in jar' <=> answers'[i].call.op = "add"
      <4>1. i \in 1..Len(answers) /\ answers'[i] = answers[i]
        BY <3>2, <3>3, <3>7
      <4>2. \A j \in (i + 1)..Len(answers) : ~Settles(answers[j], d)
        BY <3>4, <3>5, <3>7, <4>1
      <4> QED BY <1>1, <3>1, <3>7, <4>1, <4>2 DEF Agrees
    <3> QED BY <3>6, <3>7
  <2> QED BY <2>2, <2>3
<1>15. Browsing'
  BY <1>1 DEF Browsing, ContextDoes
<1> QED BY <1>10, <1>13, <1>14, <1>15 DEF CookieInv

\* Counting what was answered keeps the listing in agreement with the jar.
LEMMA AgreesAfter ==
  ASSUME CookieKinds, Agrees, answers # <<>>, answers' = Tail(answers), jar' = jar,
         \A d \in CookieDomains : ~Settles(answers[1], d) => counts'[d] = counts[d],
         \A d \in CookieDomains :
           Settles(answers[1], d) => IF answers[1].call.op = "add" THEN counts'[d] > 0 \/ d \in direct'
                                     ELSE ~(counts'[d] > 0),
         direct \subseteq direct'
  PROVE  Agrees'
<1>1. /\ Len(answers) \in Nat /\ Len(answers) > 0 /\ Len(answers') = Len(answers) - 1
      /\ \A i \in 1..Len(answers') : answers'[i] = answers[i + 1]
  BY Handled, Queues
<1> SUFFICES ASSUME NEW d \in CookieDomains
             PROVE  /\ (\A i \in 1..Len(answers') : ~Settles(answers'[i], d)) =>
                         /\ counts'[d] > 0 => d \in jar
                         /\ d \in jar => counts'[d] > 0 \/ d \in direct'
                    /\ \A i \in 1..Len(answers') :
                         Settles(answers'[i], d) /\ (\A j \in (i + 1)..Len(answers') : ~Settles(answers'[j], d))
                           => (d \in jar <=> answers'[i].call.op = "add")
  BY DEF Agrees
<1>2. \A i \in 1..Len(answers) : i # 1 => i - 1 \in 1..Len(answers') /\ answers'[i - 1] = answers[i]
  BY <1>1
<1>3. ASSUME \A i \in 1..Len(answers') : ~Settles(answers'[i], d)
      PROVE  /\ counts'[d] > 0 => d \in jar
             /\ d \in jar => counts'[d] > 0 \/ d \in direct'
  <2>1. \A i \in 1..Len(answers) : i # 1 => ~Settles(answers[i], d)
    BY <1>2, <1>3
  <2>2. CASE Settles(answers[1], d)
    <3>1. 1 \in 1..Len(answers) /\ \A j \in (1 + 1)..Len(answers) : j \in 1..Len(answers) /\ j # 1
      BY <1>1
    <3>2. d \in jar <=> answers[1].call.op = "add"
      BY <2>1, <2>2, <3>1 DEF Agrees
    <3> QED BY <2>2, <3>2
  <2>3. CASE ~Settles(answers[1], d)
    <3>1. \A i \in 1..Len(answers) : ~Settles(answers[i], d)
      BY <2>1, <2>3
    <3>2. counts'[d] = counts[d]
      BY <2>3
    <3> QED BY <3>1, <3>2 DEF Agrees
  <2> QED BY <2>2, <2>3
<1>4. ASSUME NEW i \in 1..Len(answers'), Settles(answers'[i], d),
             \A j \in (i + 1)..Len(answers') : ~Settles(answers'[j], d)
      PROVE  d \in jar <=> answers'[i].call.op = "add"
  <2>1. i + 1 \in 1..Len(answers) /\ answers'[i] = answers[i + 1]
    BY <1>1
  <2>2. \A j \in ((i + 1) + 1)..Len(answers) : j \in 1..Len(answers) /\ j # 1 /\ j - 1 \in (i + 1)..Len(answers')
    BY <1>1
  <2>3. \A j \in ((i + 1) + 1)..Len(answers) : ~Settles(answers[j], d)
    BY <1>2, <1>4, <2>2
  <2> QED BY <1>4, <2>1, <2>3 DEF Agrees
<1> QED BY <1>3, <1>4

\* Handling an answer keeps the invariant.
LEMMA AnsweredKept ==
  ASSUME CookieInv, Answered
  PROVE  CookieInv'
<1>1. CookieKinds /\ Pipeline /\ Agrees /\ Browsing
  BY DEF CookieInv
<1>2. answers # <<>> /\ answers' = Tail(answers) /\ UNCHANGED <<chromes, jar>>
  BY DEF Answered
<1>3. Len(answers) \in Nat /\ Len(answers) > 0 /\ Head(answers) = answers[1]
  BY <1>1, <1>2, Handled, Queues
<1>4. PICK a : a = answers[1]
  OBVIOUS
<1>5. a \in AnswerKind /\ 1 \in 1..Len(answers)
  <2>1. 1 \in 1..Len(answers) /\ answers \in Seq(AnswerKind)
    BY <1>1, <1>3 DEF CookieKinds
  <2> QED BY <1>4, <2>1
<1>6. /\ a.call \in CallKind /\ a.call.from \in CookieRequests /\ a.call.op \in {"add", "clear"}
      /\ a.call.of \subseteq CookieDomains
  BY <1>5 DEF CallKind, AnswerKind
<1>7. PICK r \in CookieRequests : r = a.call.from
  BY <1>6
<1>8. importing[r] \in ImportKind /\ Suits(a.call, importing[r])
  BY <1>1, <1>4, <1>5, <1>7 DEF CookieKinds, Pipeline
<1>9. r \notin chromes
  BY <1>1, <1>8 DEF Browsing, Suits
<1>10. /\ counts' \in [CookieDomains -> 0..2] /\ direct' \subseteq CookieDomains /\ direct \subseteq direct'
       /\ \A d \in CookieDomains : ~Settles(a, d) => counts'[d] = counts[d]
       /\ \A d \in CookieDomains :
            Settles(a, d) => IF a.call.op = "add" THEN counts'[d] > 0 \/ d \in direct'
                             ELSE ~(counts'[d] > 0)
  <2>1. CASE a.call.op = "add"
    <3>1. Added(r, a.ok)
      BY <1>3, <1>4, <1>7, <2>1 DEF Answered
    <3>2. importing[r].of = a.call.of
      BY <1>8, <2>1 DEF Suits
    <3>3. CASE a.ok /\ importing[r].by # "command"
      <4>1. /\ counts' = [d \in CookieDomains |-> IF d \in a.call.of /\ counts[d] < 2 THEN counts[d] + 1 ELSE counts[d]]
            /\ direct' = direct
        BY <3>1, <3>2, <3>3 DEF Added
      <4>2. \A d \in CookieDomains : counts[d] \in 0..2
        BY <1>1 DEF CookieKinds
      <4>3. \A d \in CookieDomains : ~Settles(a, d) => d \notin a.call.of
        BY <3>3 DEF Settles
      <4>4. \A d \in CookieDomains : Settles(a, d) => d \in a.call.of
        BY DEF Settles
      <4>5. counts' \in [CookieDomains -> 0..2]
        BY <4>1, <4>2
      <4>6. \A d \in CookieDomains : d \in a.call.of => counts'[d] > 0
        BY <4>1, <4>2
      <4>7. \A d \in CookieDomains : d \notin a.call.of => counts'[d] = counts[d]
        BY <4>1
      <4> QED BY <1>1, <2>1, <4>1, <4>3, <4>4, <4>5, <4>6, <4>7 DEF CookieKinds
    <3>4. CASE a.ok /\ importing[r].by = "command"
      <4>1. counts' = counts /\ direct' = direct \cup a.call.of
        BY <3>1, <3>2, <3>4 DEF Added
      <4> QED BY <1>1, <1>6, <2>1, <4>1 DEF CookieKinds, Settles
    <3>5. CASE ~a.ok
      <4>1. counts' = counts /\ direct' = direct
        BY <3>1, <3>5 DEF Added
      <4> QED BY <1>1, <3>5, <4>1 DEF CookieKinds, Settles
    <3> QED BY <3>3, <3>4, <3>5
  <2>2. CASE a.call.op # "add"
    <3>1. /\ counts' = [d \in CookieDomains |-> IF a.ok /\ d \in a.call.of THEN 0 ELSE counts[d]]
          /\ direct' = direct
      BY <1>3, <1>4, <2>2 DEF Answered
    <3>2. \A d \in CookieDomains : counts'[d] = IF Settles(a, d) THEN 0 ELSE counts[d]
      BY <3>1 DEF Settles
    <3>3. counts' \in [CookieDomains -> 0..2]
      BY <1>1, <3>1 DEF CookieKinds
    <3> QED BY <1>1, <2>2, <3>1, <3>2, <3>3 DEF CookieKinds
  <2> QED BY <2>1, <2>2
<1>11. Agrees'
  BY <1>1, <1>2, <1>4, <1>10, AgreesAfter
<1>12. \E to \in ImportKind :
         /\ importing' = [importing EXCEPT ![r] = to]
         /\ wire' = wire \/ \E c \in CallKind : wire' = Append(wire, c) /\ c.from = r /\ Suits(c, to)
  <2>1. CASE Rests(r) /\ wire' = wire
    BY <2>1, Restful DEF Rests
  <2>2. CASE ~(Rests(r) /\ wire' = wire)
    <3>1. a.call.op # "add"
      BY <1>3, <1>4, <1>7, <2>2 DEF Answered
    <3>2. PICK left : left = importing[r].of
      OBVIOUS
    <3>3. PICK d \in left : /\ importing' = [importing EXCEPT ![r].of = left \ {d}]
                            /\ wire' = Append(wire, ClearCall(r, d))
      BY <1>3, <1>4, <1>7, <2>2, <3>1, <3>2 DEF Answered
    <3>4. PICK to : to = [importing[r] EXCEPT !.of = left \ {d}]
      OBVIOUS
    <3>5. importing' = [importing EXCEPT ![r] = to]
      <4>1. importing \in [CookieRequests -> ImportKind]
        BY <1>1 DEF CookieKinds
      <4> QED BY <3>3, <3>4, <4>1, Zenon
    <3>6. to \in ImportKind /\ to.does = importing[r].does
      BY <1>8, <3>2, <3>4 DEF ImportKind
    <3>7. importing[r].does = "removes"
      BY <1>8, <3>1 DEF Suits
    <3>8. d \in CookieDomains
      BY <1>8, <3>2 DEF ImportKind
    <3>9. ClearCall(r, d) \in CallKind /\ ClearCall(r, d).from = r /\ Suits(ClearCall(r, d), to)
      BY <3>6, <3>7, <3>8 DEF ClearCall, CallKind, Suits
    <3> QED BY <3>3, <3>5, <3>6, <3>9
  <2> QED BY <2>1, <2>2
<1>13. PICK to \in ImportKind :
         /\ importing' = [importing EXCEPT ![r] = to]
         /\ wire' = wire \/ \E c \in CallKind : wire' = Append(wire, c) /\ c.from = r /\ Suits(c, to)
  BY <1>12
<1>14. Pipeline' /\ answers' \in Seq(AnswerKind) /\ wire' \in Seq(CallKind)
  BY <1>1, <1>2, <1>3, <1>4, <1>7, <1>13, PipelineKept
<1>15. /\ importing' \in [CookieRequests -> ImportKind]
       /\ \A q \in CookieRequests : q # r => importing'[q] = importing[q]
  BY <1>1, <1>13, ImportMoves
<1>16. CookieKinds'
  BY <1>1, <1>2, <1>10, <1>14, <1>15 DEF CookieKinds
<1>17. Browsing'
  BY <1>1, <1>2, <1>9, <1>15 DEF Browsing, CookieKinds
<1> QED BY <1>11, <1>14, <1>16, <1>17 DEF CookieInv

\* The invariant holds at first.
LEMMA CookieInitInv == CookieInit => CookieInv
<1> SUFFICES ASSUME CookieInit PROVE CookieInv
  OBVIOUS
<1>1. CookieKinds
  BY Restful DEF CookieInit, CookieKinds
<1>2. Len(wire) = 0 /\ Len(answers) = 0 /\ chromes = {} /\ jar = {} /\ \A d \in CookieDomains : ~(counts[d] > 0)
  BY DEF CookieInit
<1> QED BY <1>1, <1>2 DEF CookieInv, Pipeline, Agrees, Browsing

\* The steps of a request keep it.
LEMMA RequestKept ==
  ASSUME CookieInv, NEW r \in CookieRequests,
         \/ Decrypts(r) \/ KeyFails(r) \/ FindsNoCookies(r) \/ TriesCdp(r) \/ BrowserRuns(r)
         \/ LaunchesChrome(r) \/ FindsPage(r) \/ PollingTimesOut(r) \/ Extracts(r) \/ ChromeExits(r)
  PROVE  CookieInv'
<1>1. CookieKinds /\ Pipeline /\ Agrees /\ Browsing /\ importing[r] \in ImportKind
      /\ importing \in [CookieRequests -> ImportKind]
  BY DEF CookieInv, CookieKinds
<1>2. \A does \in {"tasklist", "polls", "extracts"} : Goes(r, does) =>
        \E to \in ImportKind : to.does = does /\ importing' = [importing EXCEPT ![r] = to]
  <2> SUFFICES ASSUME NEW does \in {"tasklist", "polls", "extracts"}, Goes(r, does)
               PROVE  \E to \in ImportKind : to.does = does /\ importing' = [importing EXCEPT ![r] = to]
    OBVIOUS
  <2>1. PICK to : to = [importing[r] EXCEPT !.does = does]
    OBVIOUS
  <2>2. to \in ImportKind /\ to.does = does
    BY <1>1, <2>1 DEF ImportKind
  <2>3. importing' = [importing EXCEPT ![r] = to]
    BY <1>1, <2>1, Zenon DEF Goes
  <2> QED BY <2>2, <2>3
<1>3. r \in chromes => importing[r].does \in {"polls", "extracts"}
  BY <1>1 DEF Browsing
<1>4. CASE Decrypts(r)
  BY <1>1, <1>3, <1>4, AddsKept DEF Decrypts, ImportKind
<1>5. CASE KeyFails(r) \/ FindsNoCookies(r) \/ BrowserRuns(r)
  BY <1>3, <1>5, Restful, CookieMoveKept DEF KeyFails, FindsNoCookies, BrowserRuns, Rests, Jarred
<1>6. CASE TriesCdp(r)
  BY <1>2, <1>3, <1>6, CookieMoveKept DEF TriesCdp, Jarred
<1>7. CASE LaunchesChrome(r)
  BY <1>2, <1>3, <1>7, CookieMoveKept DEF LaunchesChrome, Jarred
<1>8. CASE FindsPage(r)
  BY <1>2, <1>8, CookieMoveKept DEF FindsPage, Jarred
<1>9. CASE PollingTimesOut(r)
  BY <1>9, Restful, CookieMoveKept DEF PollingTimesOut, Rests, Jarred
<1>10. CASE Extracts(r)
  <2>1. CASE \E ds \in SUBSET importing[r].of : Adds(r, ds)
    BY <1>1, <1>10, <2>1, AddsKept DEF Extracts, ImportKind
  <2>2. CASE Rests(r) /\ UNCHANGED Jarred
    BY <1>10, <2>2, Restful, CookieMoveKept DEF Extracts, Rests, Jarred
  <2> QED BY <1>10, <2>1, <2>2 DEF Extracts
<1>11. CASE ChromeExits(r)
  BY <1>1, <1>11 DEF ChromeExits, Jarred, CookieInv, CookieKinds, Pipeline, Agrees, Browsing
<1> QED BY <1>4, <1>5, <1>6, <1>7, <1>8, <1>9, <1>10, <1>11

\* And its begin.
LEMMA ImportBegins ==
  ASSUME CookieInv, NEW r \in CookieRequests, NEW ds \in SUBSET CookieDomains,
         \/ DirectImport(r, ds) \/ ImportFile(r, ds)
         \/ \E by \in {"session", "bearer"} : Import(r, by, ds) \/ RemoveDomains(r, by, ds)
  PROVE  CookieInv'
<1>1. CookieKinds /\ Pipeline /\ Agrees /\ Browsing
  BY DEF CookieInv
<1>2. importing[r] = NoImport /\ importing[r].does = "rests" /\ r \notin chromes
  <2>1. importing[r] = NoImport
    BY DEF DirectImport, ImportFile, Import, AsksForKey, RemoveDomains
  <2> QED BY <1>1, <2>1, Restful DEF Browsing
<1>3. ASSUME NEW by \in {"picker", "command"}, AsksForKey(r, by, ds) PROVE CookieInv'
  <2>1. PICK to : to = [does |-> "keys", by |-> by, of |-> ds]
    OBVIOUS
  <2>2. to \in ImportKind
    BY <2>1 DEF ImportKind
  <2> QED BY <1>2, <1>3, <2>1, <2>2, CookieMoveKept DEF AsksForKey, Jarred
<1>4. CASE ImportFile(r, ds)
  <2>1. PICK to : to = [does |-> "adds", by |-> "command", of |-> ds]
    OBVIOUS
  <2>2. PICK c : c = [from |-> r, op |-> "add", of |-> ds]
    OBVIOUS
  <2>3. to \in ImportKind /\ c \in CallKind /\ c.from = r /\ Suits(c, to)
    BY <2>1, <2>2 DEF ImportKind, CallKind, Suits
  <2>4. importing' = [importing EXCEPT ![r] = to] /\ wire' = Append(wire, c)
    BY <1>4, <2>1, <2>2 DEF ImportFile
  <2> QED BY <1>2, <1>4, <2>3, <2>4, CookieMoveKept DEF ImportFile
<1>5. ASSUME NEW by, RemoveDomains(r, by, ds) PROVE CookieInv'
  <2>1. PICK d \in ds :
          /\ importing' = [importing EXCEPT ![r] = [does |-> "removes", by |-> "picker", of |-> ds \ {d}]]
          /\ wire' = Append(wire, ClearCall(r, d))
    BY <1>5 DEF RemoveDomains
  <2>2. PICK to : to = [does |-> "removes", by |-> "picker", of |-> ds \ {d}]
    OBVIOUS
  <2>3. to \in ImportKind /\ to.does = "removes"
    BY <2>2 DEF ImportKind
  <2>4. ClearCall(r, d) \in CallKind /\ ClearCall(r, d).from = r /\ Suits(ClearCall(r, d), to)
    BY <2>3 DEF ClearCall, CallKind, Suits
  <2> QED BY <1>2, <1>5, <2>1, <2>2, <2>3, <2>4, CookieMoveKept DEF RemoveDomains
<1> QED BY <1>3, <1>4, <1>5 DEF Import, DirectImport

\* Every step keeps it.
LEMMA CookieStepKept == CookieInv /\ [CookieNext]_cookieVars => CookieInv'
<1> SUFFICES ASSUME CookieInv, [CookieNext]_cookieVars PROVE CookieInv'
  OBVIOUS
<1>1. CASE UNCHANGED cookieVars
  BY <1>1 DEF cookieVars, CookieInv, CookieKinds, Pipeline, Agrees, Browsing
<1>2. ASSUME NEW k \in Codes, GeneratePickerCode(k) \/ ExchangeCode(k) \/ TtlPasses(k) \/ DropLate(k)
      PROVE  CookieInv'
  <2>1. UNCHANGED Work
    BY <1>2 DEF GeneratePickerCode, ExchangeCode, TtlPasses, DropLate
  <2> QED BY <2>1 DEF Work, CookieInv, CookieKinds, Pipeline, Agrees, Browsing
<1> QED BY <1>1, <1>2, ContextDoesKept, AnsweredKept, RequestKept, ImportBegins DEF CookieNext

\* The invariant holds throughout.
THEOREM CookieInvariance == CookieSpec => []CookieInv
<1> QED BY CookieInitInv, CookieStepKept, PTL DEF CookieSpec

\* However imports and removals overlap and fail, once they are over /imported lists what
\* the browser has, for any number of requests and domains, and no Chrome is left.
THEOREM ListingTrue == CookieSpec => []ListingIsTrue
<1>1. CookieInv => ListingIsTrue
  <2> SUFFICES ASSUME CookieInv, \A r \in CookieRequests : importing[r] = NoImport
               PROVE  /\ \A d \in CookieDomains : counts[d] > 0 => d \in jar
                      /\ \A d \in jar : counts[d] > 0 \/ d \in direct
                      /\ chromes = {}
    BY DEF ListingIsTrue
  <2>1. CookieKinds /\ Pipeline /\ Agrees /\ Browsing
    BY DEF CookieInv
  <2>2. \A i \in 1..Len(answers) : FALSE
    <3> SUFFICES ASSUME NEW i \in 1..Len(answers) PROVE FALSE
      OBVIOUS
    <3>1. Suits(answers[i].call, importing[answers[i].call.from]) /\ answers[i].call.from \in CookieRequests
      BY <2>1, Queues DEF Pipeline
    <3> QED BY <3>1, Restful DEF Suits
  <2>3. chromes = {}
    BY <2>1, Restful DEF Browsing, CookieKinds
  <2> QED BY <2>1, <2>2, <2>3 DEF Agrees, CookieKinds
<1> QED BY <1>1, CookieInvariance, PTL

\* The codes and sessions of the picker.
CodeKinds ==
  /\ codes \in [Codes -> {"unborn", "pending", "late", "gone"}]
  /\ sessions \in [Codes -> {"none", "live", "late", "gone"}]

\* Every step keeps them.
LEMMA CodeKindsKept == CodeKinds /\ [CookieNext]_cookieVars => CodeKinds'
<1> SUFFICES ASSUME CodeKinds, [CookieNext]_cookieVars PROVE CodeKinds'
  OBVIOUS
<1>1. CASE UNCHANGED Auth
  BY <1>1 DEF Auth, CodeKinds
<1>2. ASSUME NEW k \in Codes, GeneratePickerCode(k) \/ ExchangeCode(k) \/ TtlPasses(k) \/ DropLate(k)
      PROVE  CodeKinds'
  BY <1>2 DEF CodeKinds, GeneratePickerCode, ExchangeCode, TtlPasses, DropLate
<1>3. CASE UNCHANGED cookieVars \/ ContextDoes \/ Answered
  BY <1>1, <1>3 DEF cookieVars, Auth, ContextDoes, Answered
<1>4. ASSUME NEW r \in CookieRequests,
             \/ Decrypts(r) \/ KeyFails(r) \/ FindsNoCookies(r) \/ TriesCdp(r) \/ BrowserRuns(r)
             \/ LaunchesChrome(r) \/ FindsPage(r) \/ PollingTimesOut(r) \/ Extracts(r) \/ ChromeExits(r)
      PROVE  UNCHANGED Auth
  BY <1>4 DEF Decrypts, KeyFails, FindsNoCookies, TriesCdp, BrowserRuns, LaunchesChrome, FindsPage,
              PollingTimesOut, Extracts, ChromeExits
<1>5. ASSUME NEW r \in CookieRequests, NEW ds \in SUBSET CookieDomains,
             \/ DirectImport(r, ds) \/ ImportFile(r, ds)
             \/ \E by \in {"session", "bearer"} : Import(r, by, ds) \/ RemoveDomains(r, by, ds)
      PROVE  UNCHANGED Auth
  BY <1>5 DEF DirectImport, ImportFile, Import, AsksForKey, RemoveDomains
<1> QED BY <1>1, <1>2, <1>3, <1>4, <1>5 DEF CookieNext

\* The context has no more calls to answer than there are requests.
LEMMA OneCallEach == CookieInv => Len(wire) + Len(answers) <= Cardinality(CookieRequests)
<1> SUFFICES ASSUME CookieInv PROVE Len(wire) + Len(answers) <= Cardinality(CookieRequests)
  OBVIOUS
<1>1. PICK w \in Nat, a \in Nat : w = Len(wire) /\ a = Len(answers)
  BY Queues DEF CookieInv
<1>2. PICK caller : caller = [i \in 1..(w + a) |-> IF i <= w THEN wire[i].from ELSE answers[i - w].call.from]
  OBVIOUS
<1>3. /\ \A i \in 1..w : wire[i].from \in CookieRequests
      /\ \A j \in 1..a : answers[j].call.from \in CookieRequests
  BY <1>1, Queues DEF CookieInv
<1>4. /\ \A i, j \in 1..w : wire[i].from = wire[j].from => i = j
      /\ \A i, j \in 1..a : answers[i].call.from = answers[j].call.from => i = j
      /\ \A i \in 1..w, j \in 1..a : wire[i].from # answers[j].call.from
  BY <1>1 DEF CookieInv, Pipeline
<1>5. ASSUME NEW i \in 1..(w + a)
      PROVE  \/ i \in 1..w /\ caller[i] = wire[i].from
             \/ i - w \in 1..a /\ i > w /\ caller[i] = answers[i - w].call.from
  BY <1>2
<1>6. caller \in [1..(w + a) -> CookieRequests]
  BY <1>2, <1>3, <1>5
<1>7. ASSUME NEW i \in 1..(w + a), NEW j \in 1..(w + a), caller[i] = caller[j] PROVE i = j
  <2>1. CASE i \in 1..w /\ j \in 1..w
    BY <1>4, <1>5, <1>7, <2>1
  <2>2. CASE i \notin 1..w /\ j \notin 1..w
    <3>1. i - w \in 1..a /\ j - w \in 1..a
      BY <1>5, <2>2
    <3>2. answers[i - w].call.from = answers[j - w].call.from
      BY <1>5, <1>7, <2>2
    <3>3. i - w = j - w
      BY <1>4, <3>1, <3>2
    <3> QED BY <3>3
  <2>3. CASE i \in 1..w /\ j \notin 1..w
    BY <1>4, <1>5, <1>7, <2>3
  <2>4. CASE i \notin 1..w /\ j \in 1..w
    <3>1. i - w \in 1..a /\ caller[i] = answers[i - w].call.from /\ caller[j] = wire[j].from
      BY <1>5, <2>4
    <3> QED BY <1>4, <1>7, <2>4, <3>1
  <2> QED BY <2>1, <2>2, <2>3, <2>4
<1>8. caller \in Injection(1..(w + a), CookieRequests)
  BY <1>6, <1>7 DEF Injection, IsInjective
<1>9. Cardinality(1..(w + a)) <= Cardinality(CookieRequests)
  BY <1>8, CookieAssumption, FS_Injection
<1>10. Cardinality(1..(w + a)) = w + a
  <2>1. w + a \in Int /\ 1 \in Int
    OBVIOUS
  <2>2. Cardinality(1..(w + a)) = IF 1 > w + a THEN 0 ELSE w + a - 1 + 1
    BY <2>1, FS_Interval
  <2> QED BY <2>2
<1> QED BY <1>1, <1>9, <1>10

\* Codes, sessions, requests, the browser and its calls keep their types; since a request has at most
\* one call under way, the queues of the context are never longer than the requests.
THEOREM CookieTypes == CookieSpec => []CookieTypeOK
<1>1. CookieInit => CodeKinds
  BY DEF CookieInit, CodeKinds
<1>2. CookieInv /\ CodeKinds => CookieTypeOK
  <2> SUFFICES ASSUME CookieInv, CodeKinds PROVE CookieTypeOK
    OBVIOUS
  <2>1. \A r \in CookieRequests : importing[r] \in ImportKind
    BY DEF CookieInv, CookieKinds
  <2>2. Len(wire) + Len(answers) <= Cardinality(CookieRequests)
    BY OneCallEach
  <2> QED BY <2>1, <2>2 DEF CookieInv, CookieKinds, CodeKinds, ImportKind, CookieTypeOK
<1> QED BY <1>1, <1>2, CodeKindsKept, CookieInvariance, PTL DEF CookieSpec

-----------------------------------------------------------------------------
(* Inspector: InspectionIsTrue.  The cascade is about the sort and the       *)
(* marking alone; the rest is that the sessions attached to a page are those *)
(* its calls know of.                                                        *)

\* What matches an element is up to three rules.
LEMMA RulesAre ==
  ASSUME NEW rules \in Matching
  PROVE  \E n \in 0..3 : /\ rules \in [1..n -> Rule] /\ DOMAIN rules = 1..n
                         /\ \A i \in 1..n : rules[i].specificity \in Nat /\ rules[i].important \in BOOLEAN
<1>1. PICK n \in 0..3 : rules \in [1..n -> Rule]
  BY DEF Matching
<1>2. \A r \in Rule : r.specificity \in Nat
  BY InspectAssumption DEF Rule
<1>3. \A r \in Rule : r.important \in BOOLEAN
  BY Zenon DEF Rule
<1>4. \A i \in 1..n : rules[i] \in Rule
  BY <1>1
<1>5. DOMAIN rules = 1..n
  BY <1>1
<1> HIDE DEF Rule
<1>6. \A i \in 1..n : rules[i].important \in BOOLEAN
  BY <1>3, <1>4, Zenon
<1> QED BY <1>1, <1>2, <1>4, <1>5, <1>6

\* BySpecificity takes each rule once: two never come before as many others.
LEMMA SortedIs ==
  ASSUME NEW n \in Nat, NEW rules, DOMAIN rules = 1..n,
         \A i \in 1..n : rules[i].specificity \in Nat /\ rules[i].important \in BOOLEAN
  PROVE  /\ DOMAIN BySpecificity(rules) = 1..n
         /\ \A k \in 1..n : /\ BySpecificity(rules)[k].specificity \in Nat
                            /\ BySpecificity(rules)[k].important \in BOOLEAN
         /\ \A k, l \in 1..n :
              k < l => BySpecificity(rules)[k].specificity >= BySpecificity(rules)[l].specificity
<1> DEFINE Before(i) == {j \in DOMAIN rules : \/ rules[j].specificity > rules[i].specificity
                                              \/ rules[j].specificity = rules[i].specificity /\ j < i}
           rank == [i \in 1..n |-> Cardinality(Before(i))]
           Of(k) == CHOOSE i \in DOMAIN rules : Cardinality(Before(i)) = k - 1
           sorted == BySpecificity(rules)
<1>1. sorted = [k \in DOMAIN rules |-> rules[Of(k)]]
  BY DEF BySpecificity
<1>2. \A i, j \in 1..n : j \in Before(i) <=> \/ rules[j].specificity > rules[i].specificity
                                             \/ rules[j].specificity = rules[i].specificity /\ j < i
  BY Zenon
<1>2a. \A i \in 1..n : Before(i) \subseteq (1..n) \ {i}
  <2>1. \A i \in 1..n : Before(i) \subseteq 1..n
    BY Zenon
  <2>2. \A i \in 1..n : i \in Nat /\ rules[i].specificity \in Nat
    OBVIOUS
  <2> HIDE DEF Before
  <2>3. \A i \in 1..n : i \notin Before(i)
    <3> SUFFICES ASSUME NEW i \in 1..n, i \in Before(i) PROVE FALSE
      OBVIOUS
    <3>1. \/ rules[i].specificity > rules[i].specificity
          \/ rules[i].specificity = rules[i].specificity /\ i < i
      BY <1>2, Zenon
    <3>2. i \in Nat /\ rules[i].specificity \in Nat
      BY <2>2
    <3> QED BY <3>1, <3>2
  <2> QED BY <2>1, <2>3, Zenon
<1>3. IsFiniteSet(1..n) /\ Cardinality(1..n) = n
  BY FS_Interval
<1>4. \A i \in 1..n : IsFiniteSet(Before(i)) /\ Cardinality(Before(i)) \in 0..(n - 1)
  <2> TAKE i \in 1..n
  <2> DEFINE rest == (1..n) \ {i}
  <2>1. IsFiniteSet(rest) /\ Cardinality(rest) = n - 1
    BY <1>3, FS_RemoveElement
  <2>2. Before(i) \in SUBSET rest
    BY <1>2a
  <2> HIDE DEF Before, rest
  <2>3. IsFiniteSet(Before(i)) /\ Cardinality(Before(i)) <= n - 1
    BY <2>1, <2>2, FS_Subset
  <2>4. Cardinality(Before(i)) \in Nat
    BY <2>3, FS_CardinalityType
  <2> QED BY <2>3, <2>4
<1>5. \A i, j \in 1..n : j \in Before(i) => Cardinality(Before(j)) < Cardinality(Before(i))
  <2> SUFFICES ASSUME NEW i \in 1..n, NEW j \in 1..n, j \in Before(i)
               PROVE  Cardinality(Before(j)) < Cardinality(Before(i))
    OBVIOUS
  <2>1. Before(j) \subseteq Before(i)
    <3> SUFFICES ASSUME NEW k \in Before(j) PROVE k \in Before(i)
      OBVIOUS
    <3>1. k \in 1..n /\ rules[k].specificity \in Nat /\ rules[j].specificity \in Nat /\ rules[i].specificity \in Nat
      BY <1>2a
    <3> QED BY <1>2, <3>1
  <2>2. j \notin Before(j)
    BY <1>2a
  <2> HIDE DEF Before
  <2>3. /\ Cardinality(Before(j)) <= Cardinality(Before(i))
        /\ Cardinality(Before(i)) = Cardinality(Before(j)) => Before(i) = Before(j)
    BY <1>4, <2>1, FS_Subset
  <2>4. Cardinality(Before(i)) # Cardinality(Before(j))
    BY <2>2, <2>3
  <2>5. Cardinality(Before(i)) \in Nat /\ Cardinality(Before(j)) \in Nat
    BY <1>4
  <2> QED BY <2>3, <2>4, <2>5
<1>6. \A i, j \in 1..n : i # j => i \in Before(j) \/ j \in Before(i)
  BY <1>2
<1> HIDE DEF Before
<1>7. rank \in Injection(1..n, 0..(n - 1))
  <2>1. rank \in [1..n -> 0..(n - 1)]
    BY <1>4
  <2>2. \A i, j \in 1..n : rank[i] = rank[j] => i = j
    <3> SUFFICES ASSUME NEW i \in 1..n, NEW j \in 1..n, Cardinality(Before(i)) = Cardinality(Before(j)), i # j
                 PROVE  FALSE
      OBVIOUS
    <3>1. Cardinality(Before(i)) \in Nat /\ Cardinality(Before(j)) \in Nat
      BY <1>4
    <3> QED BY <1>5, <1>6, <3>1
  <2> HIDE DEF rank
  <2> QED BY <2>1, <2>2 DEF Injection, IsInjective
<1>8. \A k \in 1..n : \E i \in 1..n : Cardinality(Before(i)) = k - 1
  <2>1. IsFiniteSet(0..(n - 1)) /\ Cardinality(0..(n - 1)) = n
    <3>1. 0 \in Int /\ n - 1 \in Int
      OBVIOUS
    <3>2. /\ IsFiniteSet(0..(n - 1))
          /\ Cardinality(0..(n - 1)) = IF 0 > n - 1 THEN 0 ELSE (n - 1) - 0 + 1
      BY <3>1, FS_Interval, Zenon
    <3> QED BY <3>2
  <2>2. rank \in Surjection(1..n, 0..(n - 1))
    <3> HIDE DEF rank
    <3> QED BY <1>3, <1>7, <2>1, FS_Injection
  <2>3. \A t \in 0..(n - 1) : \E i \in 1..n : rank[i] = t
    <3> HIDE DEF rank
    <3> QED BY <2>2 DEF Surjection
  <2>4. \A k \in 1..n : k - 1 \in 0..(n - 1)
    OBVIOUS
  <2> QED BY <2>3, <2>4
<1>9. \A k \in 1..n : Of(k) \in 1..n /\ Cardinality(Before(Of(k))) = k - 1
  BY <1>8
<1> HIDE DEF Of
<1>10. DOMAIN sorted = 1..n /\ \A k \in 1..n : sorted[k] = rules[Of(k)]
  BY <1>1
<1> HIDE DEF sorted
<1>11. ASSUME NEW k \in 1..n, NEW l \in 1..n, k < l
       PROVE  sorted[k].specificity >= sorted[l].specificity
  <2>1. Of(k) \in 1..n /\ Of(l) \in 1..n /\ Cardinality(Before(Of(k))) < Cardinality(Before(Of(l)))
    BY <1>9, <1>11
  <2>2. Of(l) \notin Before(Of(k))
    <3>1. Cardinality(Before(Of(k))) \in Nat /\ Cardinality(Before(Of(l))) \in Nat
      BY <1>4, <2>1
    <3> QED BY <1>5, <2>1, <3>1
  <2>3. ~(rules[Of(l)].specificity > rules[Of(k)].specificity)
    <3>1. PICK i \in 1..n : i = Of(k)
      BY <2>1
    <3>2. PICK j \in 1..n : j = Of(l)
      BY <2>1
    <3>3. ~(rules[j].specificity > rules[i].specificity)
      <4> SUFFICES ASSUME rules[j].specificity > rules[i].specificity PROVE FALSE
        OBVIOUS
      <4>1. j \in Before(i)
        BY Zenon DEF Before
      <4> QED BY <2>2, <3>1, <3>2, <4>1, Zenon
    <3> QED BY <3>1, <3>2, <3>3, Zenon
  <2>4. rules[Of(l)].specificity \in Nat /\ rules[Of(k)].specificity \in Nat
    BY <2>1
  <2> QED BY <1>10, <2>3, <2>4
<1> QED BY <1>9, <1>10, <1>11 DEF sorted

\* MarkOverridden spares the first important rule, or the first when none is.
LEMMA MarkedAre ==
  ASSUME NEW n \in 0..3, NEW sorted, DOMAIN sorted = 1..n, Len(sorted) = n,
         \A i \in 1..n : sorted[i].important \in BOOLEAN
  PROVE  /\ n = 0 => MarkOverridden(sorted) = {}
         /\ n > 0 => \E w \in 1..n :
              /\ MarkOverridden(sorted) = (1..n) \ {w}
              /\ \A j \in 1..n : j < w => ~sorted[j].important
              /\ sorted[w].important \/ (w = 1 /\ \A j \in 1..n : ~sorted[j].important)
<1> DEFINE seen[m \in 0..Len(sorted)] ==
             CASE m = 0 -> 0
               [] m > 0 /\ (m = 1 \/ TakesOver(sorted[m], sorted[seen[m - 1]])) -> m
               [] OTHER -> seen[m - 1]
           two == IF TakesOver(sorted[2], sorted[1]) THEN 2 ELSE 1
           three == IF TakesOver(sorted[3], sorted[two]) THEN 3 ELSE two
           Wins(m) == CASE m = 0 -> 0 [] m = 1 -> 1 [] m = 2 -> two [] OTHER -> three
           wins == [m \in 0..n |-> Wins(m)]
           Grown(f) == [m \in 0..n |-> CASE m = 0 -> 0
                        [] m > 0 /\ (m = 1 \/ TakesOver(sorted[m], sorted[f[m - 1]])) -> m
                        [] OTHER -> f[m - 1]]
<1>1. MarkOverridden(sorted) = (1..n) \ {seen[n]}
  BY DEF MarkOverridden
<1>2. seen = CHOOSE f : f = Grown(f)
  BY DEF seen
<1> HIDE DEF seen
<1>3. Wins(0) = 0 /\ Wins(1) = 1 /\ Wins(2) = two /\ Wins(3) = three
  BY DEF Wins
<1>4. \A m \in 1..n : m - 1 \in 0..n /\ wins[m - 1] = Wins(m - 1)
  BY DEF wins
<1>5. wins = Grown(wins)
  <2> HIDE DEF Wins, two, three
  <2>1. \A m \in 0..n : Wins(m) = CASE m = 0 -> 0
                          [] m > 0 /\ (m = 1 \/ TakesOver(sorted[m], sorted[Wins(m - 1)])) -> m
                          [] OTHER -> Wins(m - 1)
    <3> TAKE m \in 0..n
    <3>1. CASE m = 0
      BY <1>3, <3>1
    <3>2. CASE m = 1
      BY <1>3, <3>2
    <3>3. CASE m = 2
      BY <1>3, <3>3 DEF two
    <3>4. CASE m = 3
      BY <1>3, <3>4 DEF three
    <3> QED BY <3>1, <3>2, <3>3, <3>4
  <2>2. \A m \in 0..n : m # 0 => wins[m - 1] = Wins(m - 1)
    BY <1>4
  <2>3. \A m \in 0..n : Wins(m) = CASE m = 0 -> 0
                          [] m > 0 /\ (m = 1 \/ TakesOver(sorted[m], sorted[wins[m - 1]])) -> m
                          [] OTHER -> wins[m - 1]
    <3> HIDE DEF wins
    <3> QED BY <2>1, <2>2
  <2> QED BY <2>3, Zenon DEF wins, Grown
<1>6. seen = Grown(seen)
  <2> HIDE DEF wins, Grown
  <2> QED BY <1>2, <1>5
<1>7. /\ n >= 1 => seen[1] = 1
      /\ n >= 2 => seen[2] = two
      /\ n >= 3 => seen[3] = three
  <2>1. \A m \in 0..n : seen[m] = CASE m = 0 -> 0
                          [] m > 0 /\ (m = 1 \/ TakesOver(sorted[m], sorted[seen[m - 1]])) -> m
                          [] OTHER -> seen[m - 1]
    BY <1>6 DEF Grown
  <2>2. n >= 1 => seen[1] = 1
    BY <2>1, SMTT(20)
  <2>3. n >= 2 => seen[2] = two
    <3> SUFFICES ASSUME n >= 2 PROVE seen[2] = two
      OBVIOUS
    <3>1. 2 \in 0..n /\ 2 - 1 = 1 /\ seen[1] = 1
      BY <2>2
    <3>2. seen[2] = CASE 2 = 0 -> 0
                      [] 2 > 0 /\ (2 = 1 \/ TakesOver(sorted[2], sorted[seen[2 - 1]])) -> 2
                      [] OTHER -> seen[2 - 1]
      BY <2>1, <3>1, Zenon
    <3>3. seen[2] = IF TakesOver(sorted[2], sorted[seen[1]]) THEN 2 ELSE seen[1]
      BY <3>1, <3>2
    <3> QED BY <3>1, <3>3
  <2>4. n >= 3 => seen[3] = three
    <3> HIDE DEF two
    <3> QED BY <2>1, <2>3
  <2> QED BY <2>2, <2>3, <2>4
<1>8. CASE n = 0
  BY <1>1, <1>8
<1>9. CASE n = 1
  BY <1>1, <1>7, <1>9
<1>10. CASE n = 2
  BY <1>1, <1>7, <1>10 DEF TakesOver
<1>11. CASE n = 3
  BY <1>1, <1>7, <1>11 DEF TakesOver
<1> QED BY <1>8, <1>9, <1>10, <1>11

\* What InspectionIsTrue says of the rules of a pick.
Cascades(data) ==
  LET rules == data.rules
      Beats(i, j) == \/ rules[i].important /\ ~rules[j].important
                     \/ rules[i].important = rules[j].important
                        /\ rules[i].specificity > rules[j].specificity
  IN (\A i, j \in 1..Len(rules) : i # j => rules[i].specificity # rules[j].specificity) =>
       \A i \in 1..Len(rules) :
          i \notin data.overridden <=> \A j \in 1..Len(rules) \ {i} : Beats(i, j)

\* So what a pick computes is the cascade.
LEMMA PickCascades ==
  ASSUME NEW rules \in Matching, NEW data, data.rules = BySpecificity(rules),
         data.overridden = MarkOverridden(data.rules)
  PROVE  Cascades(data)
<1>1. PICK n \in 0..3 : /\ rules \in [1..n -> Rule] /\ DOMAIN rules = 1..n
                        /\ \A i \in 1..n : rules[i].specificity \in Nat /\ rules[i].important \in BOOLEAN
  BY RulesAre
<1>2. PICK s : s = data.rules
  OBVIOUS
<1>3. /\ DOMAIN s = 1..n
      /\ \A k \in 1..n : s[k].specificity \in Nat /\ s[k].important \in BOOLEAN
      /\ \A k, l \in 1..n : k < l => s[k].specificity >= s[l].specificity
  BY <1>1, <1>2, SortedIs
<1>4. Len(s) = n
  <2>1. s = [k \in 1..n |-> s[k]]
    BY <1>1, <1>2, <1>3 DEF BySpecificity
  <2> QED BY <2>1
<1>5. /\ n = 0 => data.overridden = {}
      /\ n > 0 => \E w \in 1..n :
           /\ data.overridden = (1..n) \ {w}
           /\ \A j \in 1..n : j < w => ~s[j].important
           /\ s[w].important \/ (w = 1 /\ \A j \in 1..n : ~s[j].important)
  <2>1. data.overridden = MarkOverridden(s)
    BY <1>2
  <2>2. \A i \in 1..n : s[i].important \in BOOLEAN
    BY <1>3
  <2>3. DOMAIN s = 1..n
    BY <1>3
  <2>4. /\ n = 0 => MarkOverridden(s) = {}
        /\ n > 0 => \E w \in 1..n :
              /\ MarkOverridden(s) = (1..n) \ {w}
              /\ \A j \in 1..n : j < w => ~s[j].important
              /\ s[w].important \/ (w = 1 /\ \A j \in 1..n : ~s[j].important)
    BY <1>4, <2>2, <2>3, MarkedAre, ZenonT(30)
  <2> QED BY <2>1, <2>4, Zenon
<1>6. \A i, j \in 1..n : s[i].important = s[j].important <=> (s[i].important <=> s[j].important)
  <2>1. \A x \in BOOLEAN, y \in BOOLEAN : x = y <=> (x <=> y)
    OBVIOUS
  <2> QED BY <1>3, <2>1, Zenon
<1> DEFINE Beats(i, j) == \/ s[i].important /\ ~s[j].important
                          \/ s[i].important = s[j].important /\ s[i].specificity > s[j].specificity
<1>7. ASSUME \A i, j \in 1..n : i # j => s[i].specificity # s[j].specificity
      PROVE  \A i \in 1..n : i \notin data.overridden <=> \A j \in (1..n) \ {i} : Beats(i, j)
  <2>1. CASE n = 0
    BY <2>1
  <2>2. CASE n > 0
    <3>1. PICK w \in 1..n : /\ data.overridden = (1..n) \ {w}
                            /\ \A j \in 1..n : j < w => ~s[j].important
                            /\ s[w].important \/ (w = 1 /\ \A j \in 1..n : ~s[j].important)
      BY <1>5, <2>2
    <3>2. \A i, j \in 1..n : i < j => s[i].specificity > s[j].specificity
      <4> SUFFICES ASSUME NEW i \in 1..n, NEW j \in 1..n, i < j PROVE s[i].specificity > s[j].specificity
        OBVIOUS
      <4>1. s[i].specificity >= s[j].specificity /\ s[i].specificity # s[j].specificity
        BY <1>3, <1>7
      <4>2. s[i].specificity \in Nat /\ s[j].specificity \in Nat
        BY <1>3
      <4> QED BY <4>1, <4>2
    <3>3. \A j \in (1..n) \ {w} : Beats(w, j)
      <4> TAKE j \in (1..n) \ {w}
      <4>1. j \in 1..n /\ (j < w \/ w < j)
        OBVIOUS
      <4>2. CASE s[w].important /\ ~s[j].important
        BY <4>2
      <4>3. CASE ~(s[w].important /\ ~s[j].important)
        <5>1. (s[w].important <=> s[j].important) /\ w < j
          BY <3>1, <4>1, <4>3
        <5> QED BY <1>6, <3>2, <4>1, <5>1
      <4> QED BY <4>2, <4>3
    <3>4. \A i, j \in 1..n : Beats(i, j) => ~Beats(j, i)
      <4> SUFFICES ASSUME NEW i \in 1..n, NEW j \in 1..n, Beats(i, j), Beats(j, i) PROVE FALSE
        OBVIOUS
      <4>1. s[i].specificity \in Nat /\ s[j].specificity \in Nat
        BY <1>3
      <4> QED BY <1>6, <4>1
    <3> HIDE DEF Beats
    <3> QED BY <3>1, <3>3, <3>4
  <2> QED BY <2>1, <2>2
<1> QED BY <1>2, <1>4, <1>7 DEF Cascades

\* A CDP session as it can be.
SessionKind == [page : InspectPages, attached : BOOLEAN, enabled : BOOLEAN]

\* A call as it can be when there are n sessions.
InspectKind(n) ==
  [at : {"idle", "verify", "create", "enable", "inspect"}, page : InspectPages \cup {0}, session : 0..n]

\* The kinds of the variables.
InspectKinds ==
  /\ cdps \in Seq(SessionKind) /\ Len(cdps) <= MaxPicks
  /\ cdpSessions \in [InspectPages -> 0..Len(cdps)]
  /\ \A p \in InspectPages : cdpSessions[p] # 0 => cdps[cdpSessions[p]].page = p
  /\ inspect \in [Inspects -> InspectKind(Len(cdps))]
  /\ \A o \in Inspects :
       /\ inspect[o].at = "idle" => inspect[o] = Unbusy
       /\ inspect[o].at # "idle" => inspect[o].page \in InspectPages
       /\ inspect[o].at \in {"verify", "enable", "inspect"} =>
            inspect[o].session # 0 /\ cdps[inspect[o].session].page = inspect[o].page
  /\ picks \in 0..MaxPicks /\ inspectorData.pick = picks
  /\ stored \in {"nobody", "pick", "inspect"}
  /\ known \in [Viewers -> 0..MaxPicks \cup {Off}] /\ tangled \subseteq InspectPages

\* A session whose domains are not enabled has the call that enables them.
Enabling ==
  \A i \in 1..Len(cdps) :
    ~cdps[i].enabled => \E o \in Inspects : inspect[o].at = "enable" /\ inspect[o].session = i

\* A call is under way on a page.
AtWork(o, p) == inspect[o].at # "idle" /\ inspect[o].page = p

\* The attached sessions of a page.
CdpAttached(p) == {i \in 1..Len(cdps) : cdps[i].page = p /\ cdps[i].attached}

\* Only the cached session of a page is attached; its one call uses that, or creates it.
Untangled(p) ==
  /\ CdpAttached(p) = {cdpSessions[p]} \ {0}
  /\ \A o, q \in Inspects : AtWork(o, p) /\ AtWork(q, p) => o = q
  /\ \A o \in Inspects : AtWork(o, p) =>
       IF inspect[o].at = "create" THEN cdpSessions[p] = 0 ELSE inspect[o].session = cdpSessions[p]

\* Viewers know of the last pick.
Told == \A v \in Viewers : known[v] \in {Off, inspectorData.pick}

\* The inductive invariant.
InspectInv ==
  /\ InspectKinds /\ Enabling /\ Cascades(inspectorData) /\ Told
  /\ \A p \in InspectPages \ tangled : Untangled(p)

\* One call moves.
LEMMA InspectMoves ==
  ASSUME InspectKinds, NEW o \in Inspects, NEW n \in Nat, Len(cdps) <= n, NEW to \in InspectKind(n),
         inspect' = [inspect EXCEPT ![o] = to]
  PROVE  /\ inspect' \in [Inspects -> InspectKind(n)] /\ inspect'[o] = to
         /\ \A q \in Inspects : q # o => inspect'[q] = inspect[q]
<1>1. Len(cdps) \in Nat /\ inspect \in [Inspects -> InspectKind(Len(cdps))]
  BY DEF InspectKinds
<1>2. \A x \in InspectKind(Len(cdps)) : x \in InspectKind(n)
  BY <1>1 DEF InspectKind
<1> HIDE DEF InspectKind
<1> QED BY <1>1, <1>2

\* What a call has is of its kind.
LEMMA InspectIs ==
  ASSUME InspectKinds, NEW o \in Inspects
  PROVE  /\ Len(cdps) \in Nat /\ inspect[o] \in InspectKind(Len(cdps)) /\ inspect[o].session \in 0..Len(cdps)
         /\ inspect[o].at \in {"idle", "verify", "create", "enable", "inspect"}
         /\ inspect[o].at \in {"verify", "enable", "inspect"} =>
              /\ inspect[o].session \in 1..Len(cdps)
              /\ cdps[inspect[o].session].page = inspect[o].page
         /\ inspect[o].at # "idle" => inspect[o].page \in InspectPages
<1>1. Len(cdps) \in Nat /\ inspect[o] \in InspectKind(Len(cdps))
  BY DEF InspectKinds
<1>2. /\ inspect[o].session \in 0..Len(cdps)
      /\ inspect[o].at \in {"idle", "verify", "create", "enable", "inspect"}
  BY <1>1 DEF InspectKind
<1> QED BY <1>1, <1>2 DEF InspectKinds

\* A call that is over.
LEMMA UnbusyIs ==
  /\ Unbusy.at = "idle" /\ Unbusy.page = 0 /\ Unbusy.session = 0
  /\ \A n \in Nat : Unbusy \in InspectKind(n)
BY DEF Unbusy, InspectKind

\* A call that moves on with what it has keeps the invariant.
LEMMA CallKept ==
  ASSUME InspectInv, NEW o \in Inspects, NEW to \in InspectKind(Len(cdps)),
         inspect' = [inspect EXCEPT ![o] = to],
         inspect[o].at # "enable",
         to.at = "idle" => to = Unbusy,
         to.at # "idle" => to.page = inspect[o].page /\ inspect[o].at # "idle",
         to.at \in {"verify", "enable", "inspect"} => to.session = inspect[o].session /\ inspect[o].at # "create",
         to.at = "create" =>
           \A p \in InspectPages \ tangled : AtWork(o, p) => cdpSessions'[p] = 0,
         UNCHANGED <<cdps, tangled, stored, known, picks, inspectorData>>,
         cdpSessions' \in [InspectPages -> 0..Len(cdps)],
         \A p \in InspectPages : cdpSessions'[p] \in {0, cdpSessions[p]},
         \A p \in InspectPages \ tangled : cdpSessions'[p] = cdpSessions[p]
  PROVE  InspectInv'
<1>1. InspectKinds /\ Enabling /\ Cascades(inspectorData) /\ Told
  BY DEF InspectInv
<1>2. /\ inspect' \in [Inspects -> InspectKind(Len(cdps))] /\ inspect'[o] = to
      /\ \A q \in Inspects : q # o => inspect'[q] = inspect[q]
  <2>1. Len(cdps) \in Nat /\ Len(cdps) <= Len(cdps)
    BY <1>1, InspectIs
  <2> QED BY <1>1, <2>1, InspectMoves
<1>3. InspectKinds'
  <2>1. \A q \in Inspects :
          /\ inspect'[q].at = "idle" => inspect'[q] = Unbusy
          /\ inspect'[q].at # "idle" => inspect'[q].page \in InspectPages
          /\ inspect'[q].at \in {"verify", "enable", "inspect"} =>
               inspect'[q].session # 0 /\ cdps[inspect'[q].session].page = inspect'[q].page
    <3> TAKE q \in Inspects
    <3>1. CASE q # o
      BY <1>1, <1>2, <3>1 DEF InspectKinds
    <3>2. CASE q = o
      BY <1>1, <1>2, <3>2, InspectIs DEF InspectKinds
    <3> QED BY <3>1, <3>2
  <2> QED BY <1>1, <1>2, <2>1 DEF InspectKinds
<1>4. Enabling'
  BY <1>1, <1>2 DEF Enabling
<1>5. Told' /\ Cascades(inspectorData)'
  BY <1>1 DEF Told, Cascades
<1>6. ASSUME NEW p \in InspectPages \ tangled PROVE Untangled(p)'
  <2>1. Untangled(p) /\ cdpSessions'[p] = cdpSessions[p]
    BY DEF InspectInv
  <2>2. CdpAttached(p)' = CdpAttached(p)
    BY DEF CdpAttached
  <2>3. \A q \in Inspects : AtWork(q, p)' => AtWork(q, p)
    BY <1>2 DEF AtWork
  <2>4. \A q \in Inspects : AtWork(q, p)' =>
          IF inspect'[q].at = "create" THEN cdpSessions[p] = 0 ELSE inspect'[q].session = cdpSessions[p]
    <3> SUFFICES ASSUME NEW q \in Inspects, AtWork(q, p)'
                 PROVE  IF inspect'[q].at = "create" THEN cdpSessions[p] = 0
                        ELSE inspect'[q].session = cdpSessions[p]
      OBVIOUS
    <3>1. CASE q # o
      BY <1>2, <2>1, <2>3, <3>1 DEF Untangled
    <3>2. CASE q = o
      <4>1. AtWork(o, p) /\ to.at # "idle" /\ inspect'[q] = to
        BY <1>2, <2>3, <3>2 DEF AtWork
      <4>2. to.at \in {"verify", "create", "enable", "inspect"}
        BY <4>1 DEF InspectKind
      <4> QED BY <2>1, <4>1, <4>2 DEF Untangled
    <3> QED BY <3>1, <3>2
  <2> QED BY <2>1, <2>2, <2>3, <2>4 DEF Untangled
<1> QED BY <1>3, <1>4, <1>5, <1>6 DEF InspectInv

\* So does a call that begins.
LEMMA PickKept ==
  ASSUME InspectInv, NEW o \in Inspects, NEW p \in InspectPages, Pick(o, p)
  PROVE  InspectInv'
<1>1. InspectKinds /\ Enabling /\ Cascades(inspectorData) /\ Told
  BY DEF InspectInv
<1> DEFINE stop == IF cdpSessions[p] = 0 THEN "create" ELSE "verify"
<1>2. PICK to : to = [page |-> p, session |-> cdpSessions[p], at |-> stop]
  OBVIOUS
<1>3. /\ Len(cdps) \in Nat /\ cdpSessions[p] \in 0..Len(cdps)
      /\ inspect[o].at = "idle" /\ inspect' = [inspect EXCEPT ![o] = to]
      /\ UNCHANGED <<cdps, cdpSessions, inspectorData, stored, known, picks>>
      /\ tangled' = tangled \cup Meets(o, p)
  BY <1>1, <1>2, InspectIs, UnbusyIs DEF InspectKinds, Pick
<1>4. /\ to \in InspectKind(Len(cdps)) /\ to.page = p /\ to.session = cdpSessions[p] /\ to.at = stop
      /\ to.at \in {"verify", "create"}
  BY <1>2, <1>3 DEF InspectKind
<1>5. to.at = "verify" => cdpSessions[p] # 0
  BY <1>4
<1>6. to.at = "create" => cdpSessions[p] = 0
  BY <1>4
<1> HIDE DEF stop
<1>7. /\ inspect' \in [Inspects -> InspectKind(Len(cdps))] /\ inspect'[o] = to
      /\ \A q \in Inspects : q # o => inspect'[q] = inspect[q]
  <2>1. Len(cdps) <= Len(cdps)
    BY <1>3
  <2> QED BY <1>1, <1>3, <1>4, <2>1, InspectMoves
<1>8. tangled' \subseteq InspectPages /\ tangled \subseteq tangled'
      /\ \A q \in Inspects : q # o /\ inspect[q].page = p => p \in tangled'
  BY <1>1, <1>3 DEF InspectKinds, Meets
<1>9. InspectKinds'
  <2>1. cdpSessions[p] # 0 => cdps[cdpSessions[p]].page = p
    BY <1>1 DEF InspectKinds
  <2>2. \A q \in Inspects :
          /\ inspect'[q].at = "idle" => inspect'[q] = Unbusy
          /\ inspect'[q].at # "idle" => inspect'[q].page \in InspectPages
          /\ inspect'[q].at \in {"verify", "enable", "inspect"} =>
               inspect'[q].session # 0 /\ cdps[inspect'[q].session].page = inspect'[q].page
    <3> TAKE q \in Inspects
    <3>1. CASE q # o
      BY <1>1, <1>7, <3>1 DEF InspectKinds
    <3>2. CASE q = o
      BY <1>4, <1>5, <1>7, <2>1, <3>2
    <3> QED BY <3>1, <3>2
  <2> QED BY <1>1, <1>3, <1>7, <1>8, <2>2 DEF InspectKinds
<1>10. Enabling'
  BY <1>1, <1>3, <1>7 DEF Enabling
<1>11. Told' /\ Cascades(inspectorData)'
  BY <1>1, <1>3 DEF Told, Cascades
<1>12. ASSUME NEW r \in InspectPages \ tangled' PROVE Untangled(r)'
  <2>1. Untangled(r) /\ CdpAttached(r)' = CdpAttached(r) /\ cdpSessions' = cdpSessions
    BY <1>3, <1>8 DEF InspectInv, CdpAttached
  <2>2. \A q \in Inspects : q # o => (AtWork(q, r)' <=> AtWork(q, r))
    BY <1>7 DEF AtWork
  <2>3. CASE r # p
    <3>1. ~AtWork(o, r)'
      BY <1>4, <1>7, <2>3 DEF AtWork
    <3> QED BY <1>7, <2>1, <2>2, <3>1 DEF Untangled
  <2>4. CASE r = p
    <3>1. \A q \in Inspects : q # o => ~AtWork(q, r)'
      BY <1>8, <2>2, <2>4 DEF AtWork
    <3> QED BY <1>4, <1>6, <1>7, <2>1, <2>4, <3>1 DEF Untangled
  <2> QED BY <2>3, <2>4
<1> QED BY <1>9, <1>10, <1>11, <1>12 DEF InspectInv

\* And one whose session was asked whether it is alive.
LEMMA VerifiedKept ==
  ASSUME InspectInv, NEW o \in Inspects, Verified(o)
  PROVE  InspectInv'
<1>1. InspectKinds
  BY DEF InspectInv
<1>2. /\ inspect[o].at = "verify" /\ inspect[o] \in InspectKind(Len(cdps))
      /\ inspect[o].session \in 1..Len(cdps) /\ inspect[o].page \in InspectPages
      /\ inspect \in [Inspects -> InspectKind(Len(cdps))]
      /\ cdpSessions \in [InspectPages -> 0..Len(cdps)] /\ Len(cdps) \in Nat
  BY <1>1, InspectIs DEF Verified, InspectKinds
<1>3. UNCHANGED <<cdps, inspectorData, stored, known, picks, tangled>>
  BY DEF Verified
<1>4. ASSUME NEW stop \in {"create", "inspect"}
      PROVE  \E to \in InspectKind(Len(cdps)) :
               /\ to = [inspect[o] EXCEPT !.at = stop] /\ to.at = stop
               /\ to.page = inspect[o].page /\ to.session = inspect[o].session
  <2>1. PICK to : to = [inspect[o] EXCEPT !.at = stop]
    OBVIOUS
  <2>2. stop \in {"idle", "verify", "create", "enable", "inspect"}
    BY <1>4
  <2>3. to \in InspectKind(Len(cdps))
    BY <1>2, <2>1, <2>2, Zenon DEF InspectKind
  <2>4. to.at = stop /\ to.page = inspect[o].page /\ to.session = inspect[o].session
    BY <1>2, <2>1 DEF InspectKind
  <2> QED BY <2>1, <2>3, <2>4, Zenon
<1>5. CASE cdps[inspect[o].session].attached
  <2>1. PICK to \in InspectKind(Len(cdps)) :
               /\ to = [inspect[o] EXCEPT !.at = "inspect"] /\ to.at = "inspect"
               /\ to.page = inspect[o].page /\ to.session = inspect[o].session
    BY <1>4
  <2>2. inspect' = [inspect EXCEPT ![o].at = "inspect"] /\ cdpSessions' = cdpSessions
    BY <1>5 DEF Verified
  <2>3. inspect' = [inspect EXCEPT ![o] = to]
    BY <1>2, <2>1, <2>2, Zenon
  <2> QED BY <1>2, <1>3, <2>1, <2>2, <2>3, CallKept
<1>6. CASE ~cdps[inspect[o].session].attached
  <2>1. PICK to \in InspectKind(Len(cdps)) :
               /\ to = [inspect[o] EXCEPT !.at = "create"] /\ to.at = "create"
               /\ to.page = inspect[o].page /\ to.session = inspect[o].session
    BY <1>4
  <2>2. /\ inspect' = [inspect EXCEPT ![o].at = "create"]
        /\ cdpSessions' = [cdpSessions EXCEPT ![inspect[o].page] = 0]
    BY <1>6 DEF Verified
  <2>3. inspect' = [inspect EXCEPT ![o] = to]
    BY <1>2, <2>1, <2>2, Zenon
  <2>4. inspect[o].page \in tangled
    <3> SUFFICES ASSUME inspect[o].page \notin tangled PROVE FALSE
      OBVIOUS
    <3>1. Untangled(inspect[o].page) /\ AtWork(o, inspect[o].page)
      BY <1>2 DEF InspectInv, AtWork
    <3>2. inspect[o].session = cdpSessions[inspect[o].page]
      BY <1>2, <3>1 DEF Untangled
    <3>3. inspect[o].session \in CdpAttached(inspect[o].page)
      BY <1>2, <3>1, <3>2 DEF Untangled
    <3> QED BY <1>6, <3>3 DEF CdpAttached
  <2>5. /\ cdpSessions' \in [InspectPages -> 0..Len(cdps)]
        /\ \A p \in InspectPages : cdpSessions'[p] \in {0, cdpSessions[p]}
        /\ \A p \in InspectPages \ tangled : cdpSessions'[p] = cdpSessions[p]
    BY <1>2, <2>2, <2>4
  <2>6. \A p \in InspectPages \ tangled : AtWork(o, p) => cdpSessions'[p] = 0
    BY <2>4 DEF AtWork
  <2> QED BY <1>2, <1>3, <2>1, <2>3, <2>5, <2>6, CallKept
<1> QED BY <1>5, <1>6

\* And one that caches a session of its own.
LEMMA CreateSessionKept ==
  ASSUME InspectInv, NEW o \in Inspects, CreateSession(o)
  PROVE  InspectInv'
<1>1. InspectKinds /\ Enabling /\ Cascades(inspectorData) /\ Told
  BY DEF InspectInv
<1>2. PICK n : n = Len(cdps) + 1
  OBVIOUS
<1>3. PICK p : p = inspect[o].page
  OBVIOUS
<1>4. /\ inspect[o].at = "create" /\ inspect[o] \in InspectKind(Len(cdps)) /\ p \in InspectPages
      /\ inspect \in [Inspects -> InspectKind(Len(cdps))] /\ cdps \in Seq(SessionKind)
      /\ cdpSessions \in [InspectPages -> 0..Len(cdps)] /\ Len(cdps) \in Nat /\ n \in Nat
      /\ n <= MaxPicks /\ Len(cdps) <= n /\ MaxPicks \in Nat
  BY <1>1, <1>2, <1>3, InspectIs, InspectAssumption DEF CreateSession, InspectKinds
<1>5. PICK s : s = [page |-> p, attached |-> TRUE, enabled |-> FALSE]
  OBVIOUS
<1>6. s \in SessionKind /\ s.page = p /\ s.attached /\ ~s.enabled
  BY <1>4, <1>5 DEF SessionKind
<1>7. cdps' = Append(cdps, s) /\ UNCHANGED <<inspectorData, stored, known, picks, tangled>>
  BY <1>3, <1>5 DEF CreateSession
<1>8. /\ cdps' \in Seq(SessionKind) /\ Len(cdps') = n /\ cdps'[n] = s
      /\ \A i \in 1..Len(cdps) : cdps'[i] = cdps[i]
  <2> HIDE DEF SessionKind
  <2> QED BY <1>2, <1>4, <1>6, <1>7
<1>9. /\ cdpSessions' = [cdpSessions EXCEPT ![p] = n]
      /\ inspect' = [inspect EXCEPT ![o].at = "enable", ![o].session = n]
  BY <1>3, <1>8 DEF CreateSession
<1>10. PICK to : to = [inspect[o] EXCEPT !.at = "enable", !.session = n]
  OBVIOUS
<1>11. /\ to \in InspectKind(n) /\ to.at = "enable" /\ to.session = n /\ to.page = p
  <2>1. 0..Len(cdps) \subseteq 0..n /\ n \in 0..n
    BY <1>4
  <2>2. to \in InspectKind(n)
    BY <1>4, <1>10, <2>1, Zenon DEF InspectKind
  <2>3. to.at = "enable" /\ to.session = n /\ to.page = p
    BY <1>3, <1>4, <1>10 DEF InspectKind
  <2> QED BY <2>2, <2>3
<1>12. inspect' = [inspect EXCEPT ![o] = to]
  BY <1>4, <1>9, <1>10, Zenon
<1>13. /\ inspect' \in [Inspects -> InspectKind(n)] /\ inspect'[o] = to
       /\ \A q \in Inspects : q # o => inspect'[q] = inspect[q]
  BY <1>1, <1>4, <1>11, <1>12, InspectMoves
<1>14. /\ cdpSessions' \in [InspectPages -> 0..n] /\ cdpSessions'[p] = n
       /\ \A q \in InspectPages : q # p => cdpSessions'[q] = cdpSessions[q]
  BY <1>2, <1>4, <1>9
<1>15. InspectKinds'
  <2>1. \A q \in InspectPages : cdpSessions'[q] # 0 => cdps'[cdpSessions'[q]].page = q
    <3> SUFFICES ASSUME NEW q \in InspectPages, cdpSessions'[q] # 0
                 PROVE  cdps'[cdpSessions'[q]].page = q
      OBVIOUS
    <3>1. CASE q = p
      BY <1>6, <1>8, <1>14, <3>1
    <3>2. CASE q # p
      <4>1. cdpSessions'[q] = cdpSessions[q] /\ cdpSessions[q] \in 1..Len(cdps)
        BY <1>4, <1>14, <3>2
      <4> QED BY <1>1, <1>8, <4>1 DEF InspectKinds
    <3> QED BY <3>1, <3>2
  <2>2. \A q \in Inspects :
          /\ inspect'[q].at = "idle" => inspect'[q] = Unbusy
          /\ inspect'[q].at # "idle" => inspect'[q].page \in InspectPages
          /\ inspect'[q].at \in {"verify", "enable", "inspect"} =>
               inspect'[q].session # 0 /\ cdps'[inspect'[q].session].page = inspect'[q].page
    <3> TAKE q \in Inspects
    <3>1. CASE q # o
      <4>1. inspect'[q] = inspect[q]
        BY <1>13, <3>1
      <4>2. inspect[q].at \in {"verify", "enable", "inspect"} => inspect[q].session \in 1..Len(cdps)
        BY <1>1, InspectIs
      <4> QED BY <1>1, <1>8, <4>1, <4>2 DEF InspectKinds
    <3>2. CASE q = o
      BY <1>2, <1>4, <1>6, <1>8, <1>11, <1>13, <3>2
    <3> QED BY <3>1, <3>2
  <2> QED BY <1>1, <1>4, <1>7, <1>8, <1>13, <1>14, <2>1, <2>2 DEF InspectKinds
<1>16. Enabling'
  <2> SUFFICES ASSUME NEW i \in 1..n, ~cdps'[i].enabled
               PROVE  \E q \in Inspects : inspect'[q].at = "enable" /\ inspect'[q].session = i
    BY <1>8 DEF Enabling
  <2>1. CASE i = n
    BY <1>11, <1>13, <2>1
  <2>2. CASE i # n
    <3>1. i \in 1..Len(cdps) /\ ~cdps[i].enabled
      BY <1>2, <1>4, <1>8, <2>2
    <3>2. PICK q \in Inspects : inspect[q].at = "enable" /\ inspect[q].session = i
      BY <1>1, <3>1 DEF Enabling
    <3>3. inspect'[q] = inspect[q]
      BY <1>4, <1>13, <3>2
    <3> QED BY <3>2, <3>3
  <2> QED BY <2>1, <2>2
<1>17. Told' /\ Cascades(inspectorData)'
  BY <1>1, <1>7 DEF Told, Cascades
<1>18. ASSUME NEW r \in InspectPages \ tangled' PROVE Untangled(r)'
  <2>1. Untangled(r)
    BY <1>7 DEF InspectInv
  <2>2. \A i \in 1..n : i \in 1..Len(cdps) \/ i = n
    BY <1>2, <1>4
  <2>3. n \in 1..n /\ \A i \in 1..Len(cdps) : i \in 1..n
    BY <1>2, <1>4
  <2>4. CASE r # p
    <3>1. CdpAttached(r)' = CdpAttached(r)
      BY <1>6, <1>8, <2>2, <2>3, <2>4 DEF CdpAttached
    <3>2. cdpSessions'[r] = cdpSessions[r]
      BY <1>14, <2>4
    <3>3. \A q \in Inspects : AtWork(q, r)' => AtWork(q, r) /\ inspect'[q] = inspect[q]
      BY <1>11, <1>13, <2>4 DEF AtWork
    <3> QED BY <2>1, <3>1, <3>2, <3>3 DEF Untangled
  <2>5. CASE r = p
    <3>1. AtWork(o, r) /\ cdpSessions[r] = 0 /\ CdpAttached(r) = {}
      BY <1>3, <1>4, <2>1, <2>5 DEF AtWork, Untangled
    <3>2. CdpAttached(r)' = {n}
      <4>1. \A i \in 1..Len(cdps) : ~(cdps[i].page = r /\ cdps[i].attached)
        BY <3>1 DEF CdpAttached
      <4> QED BY <1>6, <1>8, <2>2, <2>3, <2>5, <4>1 DEF CdpAttached
    <3>3. cdpSessions'[r] = n /\ n # 0
      BY <1>2, <1>4, <1>14, <2>5
    <3>4. \A q \in Inspects : q # o => ~AtWork(q, r)'
      BY <1>13, <2>1, <3>1 DEF AtWork, Untangled
    <3> QED BY <1>11, <1>13, <3>2, <3>3, <3>4 DEF Untangled
  <2> QED BY <2>4, <2>5
<1> QED BY <1>15, <1>16, <1>17, <1>18 DEF InspectInv

\* And one that has its domains enabled.
LEMMA EnableDomainsKept ==
  ASSUME InspectInv, NEW o \in Inspects, EnableDomains(o)
  PROVE  InspectInv'
<1>1. InspectKinds /\ Enabling /\ Cascades(inspectorData) /\ Told
  BY DEF InspectInv
<1>2. PICK s : s = inspect[o].session
  OBVIOUS
<1>3. /\ inspect[o].at = "enable" /\ inspect[o] \in InspectKind(Len(cdps)) /\ s \in 1..Len(cdps)
      /\ inspect \in [Inspects -> InspectKind(Len(cdps))] /\ cdps \in Seq(SessionKind) /\ Len(cdps) \in Nat
      /\ Len(cdps) <= Len(cdps)
  BY <1>1, <1>2, InspectIs DEF EnableDomains, InspectKinds
<1>4. UNCHANGED <<cdpSessions, inspectorData, stored, known, picks, tangled>>
  BY DEF EnableDomains
<1>5. PICK c : c = [cdps[s] EXCEPT !.enabled = TRUE]
  OBVIOUS
<1>6. cdps' = [cdps EXCEPT ![s] = c]
  <2>1. cdps' = [cdps EXCEPT ![s].enabled = TRUE]
    BY <1>2 DEF EnableDomains
  <2>2. s \in DOMAIN cdps
    <3> HIDE DEF SessionKind
    <3> QED BY <1>3
  <2> QED BY <1>5, <2>1, <2>2, Zenon
<1>7. cdps[s] \in SessionKind
  <2> HIDE DEF SessionKind
  <2> QED BY <1>3
<1>8. /\ c \in SessionKind /\ c.page = cdps[s].page /\ (c.attached <=> cdps[s].attached) /\ c.enabled
  <2>1. c \in SessionKind
    BY <1>5, <1>7, Zenon DEF SessionKind
  <2> QED BY <1>5, <1>7, <2>1 DEF SessionKind
<1>9. /\ cdps' \in Seq(SessionKind) /\ Len(cdps') = Len(cdps) /\ cdps'[s] = c
      /\ \A i \in 1..Len(cdps) : i # s => cdps'[i] = cdps[i]
  <2> HIDE DEF SessionKind
  <2> QED BY <1>3, <1>6, <1>8
<1>10. PICK to : to = [inspect[o] EXCEPT !.at = "inspect"]
  OBVIOUS
<1>11. to \in InspectKind(Len(cdps)) /\ to.at = "inspect" /\ to.session = s /\ to.page = inspect[o].page
  BY <1>2, <1>3, <1>10 DEF InspectKind
<1>12. inspect' = [inspect EXCEPT ![o] = to]
  BY <1>3, <1>10, Zenon DEF EnableDomains
<1>13. /\ inspect' \in [Inspects -> InspectKind(Len(cdps))] /\ inspect'[o] = to
       /\ \A q \in Inspects : q # o => inspect'[q] = inspect[q]
  BY <1>1, <1>3, <1>11, <1>12, InspectMoves
<1>14. \A i \in 1..Len(cdps) : cdps'[i].page = cdps[i].page /\ (cdps'[i].attached <=> cdps[i].attached)
  BY <1>8, <1>9
<1>15. InspectKinds'
  <2>1. \A q \in InspectPages : cdpSessions'[q] # 0 => cdps'[cdpSessions'[q]].page = q
    BY <1>1, <1>3, <1>4, <1>14 DEF InspectKinds
  <2>2. \A q \in Inspects :
          /\ inspect'[q].at = "idle" => inspect'[q] = Unbusy
          /\ inspect'[q].at # "idle" => inspect'[q].page \in InspectPages
          /\ inspect'[q].at \in {"verify", "enable", "inspect"} =>
               inspect'[q].session # 0 /\ cdps'[inspect'[q].session].page = inspect'[q].page
    <3> TAKE q \in Inspects
    <3>1. CASE q # o
      <4>1. inspect'[q] = inspect[q]
        BY <1>13, <3>1
      <4>2. inspect[q].at \in {"verify", "enable", "inspect"} => inspect[q].session \in 1..Len(cdps)
        BY <1>1, InspectIs
      <4> QED BY <1>1, <1>14, <4>1, <4>2 DEF InspectKinds
    <3>2. CASE q = o
      <4>1. inspect[o].page \in InspectPages /\ cdps[s].page = inspect[o].page
        BY <1>1, <1>2, <1>3, InspectIs
      <4> QED BY <1>3, <1>11, <1>13, <1>14, <3>2, <4>1
    <3> QED BY <3>1, <3>2
  <2> QED BY <1>1, <1>4, <1>9, <1>13, <2>1, <2>2 DEF InspectKinds
<1>16. Enabling'
  <2> SUFFICES ASSUME NEW i \in 1..Len(cdps), ~cdps'[i].enabled
               PROVE  \E q \in Inspects : inspect'[q].at = "enable" /\ inspect'[q].session = i
    BY <1>9 DEF Enabling
  <2>1. i # s /\ ~cdps[i].enabled
    BY <1>8, <1>9
  <2>2. PICK q \in Inspects : inspect[q].at = "enable" /\ inspect[q].session = i
    BY <1>1, <2>1 DEF Enabling
  <2> QED BY <1>2, <1>13, <2>1, <2>2
<1>17. Told' /\ Cascades(inspectorData)'
  BY <1>1, <1>4 DEF Told, Cascades
<1>18. ASSUME NEW r \in InspectPages \ tangled' PROVE Untangled(r)'
  <2>1. Untangled(r) /\ cdpSessions'[r] = cdpSessions[r]
    BY <1>4 DEF InspectInv
  <2>2. CdpAttached(r)' = CdpAttached(r)
    BY <1>9, <1>14 DEF CdpAttached
  <2>3. \A q \in Inspects : /\ AtWork(q, r)' <=> AtWork(q, r)
                            /\ inspect'[q].at = "create" <=> inspect[q].at = "create"
                            /\ inspect'[q].session = inspect[q].session
    BY <1>2, <1>3, <1>11, <1>13 DEF AtWork
  <2> QED BY <2>1, <2>2, <2>3 DEF Untangled
<1> QED BY <1>15, <1>16, <1>17, <1>18 DEF InspectInv

\* A navigation detaches the cached session; any other one means that calls met.
LEMMA FrameNavigatesKept ==
  ASSUME InspectInv, NEW p \in InspectPages, FrameNavigates(p)
  PROVE  InspectInv'
<1>1. InspectKinds /\ Enabling /\ Cascades(inspectorData) /\ Told
  BY DEF InspectInv
<1> DEFINE waiting == {i \in 1..Len(cdps) : cdps[i].page = p /\ cdps[i].enabled /\ cdps[i].attached}
           left == [i \in 1..Len(cdps) |-> [cdps[i] EXCEPT !.attached = @ /\ i \notin waiting]]
<1>2. /\ Len(cdps) \in Nat /\ cdps \in Seq(SessionKind) /\ cdpSessions \in [InspectPages -> 0..Len(cdps)]
      /\ \A i \in 1..Len(cdps) : cdps[i] \in SessionKind
  <2>1. cdps \in Seq(SessionKind) /\ cdpSessions \in [InspectPages -> 0..Len(cdps)]
    BY <1>1 DEF InspectKinds
  <2> HIDE DEF SessionKind
  <2> QED BY <2>1
<1>3. /\ cdps' = left /\ cdpSessions' = [cdpSessions EXCEPT ![p] = 0]
      /\ tangled' = IF \E o \in Inspects : inspect[o].page = p THEN tangled \cup {p} ELSE tangled \ {p}
      /\ UNCHANGED <<inspect, inspectorData, stored, known, picks>>
  BY DEF FrameNavigates
<1>4. \A i \in 1..Len(cdps) :
        /\ left[i] \in SessionKind /\ left[i].page = cdps[i].page
        /\ left[i].enabled <=> cdps[i].enabled
        /\ left[i].attached <=> cdps[i].attached /\ i \notin waiting
  <2> SUFFICES ASSUME NEW i \in 1..Len(cdps)
               PROVE  /\ left[i] \in SessionKind /\ left[i].page = cdps[i].page
                      /\ left[i].enabled <=> cdps[i].enabled
                      /\ left[i].attached <=> cdps[i].attached /\ i \notin waiting
    OBVIOUS
  <2>1. PICK c : c = cdps[i]
    OBVIOUS
  <2>2. PICK gone \in BOOLEAN : gone <=> i \in waiting
    OBVIOUS
  <2>3. left[i] = [c EXCEPT !.attached = c.attached /\ i \notin waiting]
    BY <2>1
  <2> HIDE DEF left, waiting
  <2>4. c \in SessionKind /\ (c.attached /\ i \notin waiting) \in BOOLEAN
    BY <1>2, <2>1
  <2>5. left[i] \in SessionKind
    BY <2>3, <2>4, Zenon DEF SessionKind
  <2>6. left[i].page = c.page /\ left[i].enabled = c.enabled /\ left[i].attached = (c.attached /\ i \notin waiting)
    BY <2>3, <2>4, Zenon DEF SessionKind
  <2> QED BY <2>1, <2>5, <2>6
<1>5. /\ cdps' \in Seq(SessionKind) /\ Len(cdps') = Len(cdps)
      /\ \A i \in 1..Len(cdps) : cdps'[i] = left[i]
  <2> HIDE DEF SessionKind
  <2>1. left \in [1..Len(cdps) -> SessionKind]
    <3>1. left = [i \in 1..Len(cdps) |-> left[i]]
      BY Zenon
    <3> HIDE DEF left
    <3> QED BY <1>4, <3>1
  <2> HIDE DEF left
  <2> QED BY <1>2, <1>3, <2>1
<1> HIDE DEF left
<1>6. /\ cdpSessions' \in [InspectPages -> 0..Len(cdps)] /\ cdpSessions'[p] = 0
      /\ \A q \in InspectPages : q # p => cdpSessions'[q] = cdpSessions[q]
  BY <1>2, <1>3
<1>7. \A i \in 1..Len(cdps) : /\ cdps'[i].page = cdps[i].page /\ (cdps'[i].enabled <=> cdps[i].enabled)
                              /\ cdps'[i].attached <=> cdps[i].attached /\ i \notin waiting
  BY <1>4, <1>5
<1>8. InspectKinds'
  <2>1. \A q \in InspectPages : cdpSessions'[q] # 0 => cdps'[cdpSessions'[q]].page = q
    <3> SUFFICES ASSUME NEW q \in InspectPages, cdpSessions'[q] # 0
                 PROVE  cdps'[cdpSessions'[q]].page = q
      OBVIOUS
    <3>1. cdpSessions'[q] = cdpSessions[q] /\ cdpSessions[q] \in 1..Len(cdps)
      BY <1>2, <1>6
    <3> QED BY <1>1, <1>7, <3>1 DEF InspectKinds
  <2>2. \A q \in Inspects :
          inspect[q].at \in {"verify", "enable", "inspect"} =>
            inspect[q].session # 0 /\ cdps'[inspect[q].session].page = inspect[q].page
    <3> TAKE q \in Inspects
    <3>1. inspect[q].at \in {"verify", "enable", "inspect"} => inspect[q].session \in 1..Len(cdps)
      BY <1>1, InspectIs
    <3> QED BY <1>1, <1>7, <3>1 DEF InspectKinds
  <2>3. tangled' \subseteq InspectPages
    BY <1>1, <1>3 DEF InspectKinds
  <2> QED BY <1>1, <1>3, <1>5, <1>6, <2>1, <2>2, <2>3 DEF InspectKinds
<1>9. Enabling'
  BY <1>1, <1>3, <1>5, <1>7 DEF Enabling
<1>10. Told' /\ Cascades(inspectorData)'
  BY <1>1, <1>3 DEF Told, Cascades
<1>11. ASSUME NEW r \in InspectPages \ tangled' PROVE Untangled(r)'
  <2>1. CASE r # p
    <3>1. r \notin tangled
      BY <1>3, <2>1
    <3>2. Untangled(r) /\ cdpSessions'[r] = cdpSessions[r]
      BY <1>6, <2>1, <3>1 DEF InspectInv
    <3>3. CdpAttached(r)' = CdpAttached(r)
      BY <1>5, <1>7, <2>1 DEF CdpAttached
    <3> QED BY <1>3, <3>2, <3>3 DEF Untangled, AtWork
  <2>2. CASE r = p
    <3>1. \A o \in Inspects : inspect[o].page # p
      BY <1>3, <2>2
    <3>2. \A i \in 1..Len(cdps) : cdps[i].page = p => cdps[i].enabled
      <4> SUFFICES ASSUME NEW i \in 1..Len(cdps), cdps[i].page = p, ~cdps[i].enabled PROVE FALSE
        OBVIOUS
      <4>1. PICK o \in Inspects : inspect[o].at = "enable" /\ inspect[o].session = i
        BY <1>1 DEF Enabling
      <4>2. inspect[o].page = p
        BY <1>1, <4>1 DEF InspectKinds
      <4> QED BY <3>1, <4>2
    <3>3. CdpAttached(r)' = {}
      BY <1>5, <1>7, <2>2, <3>2 DEF CdpAttached
    <3> QED BY <1>3, <1>6, <2>2, <3>1, <3>3 DEF Untangled, AtWork
  <2> QED BY <2>1, <2>2
<1> QED BY <1>8, <1>9, <1>10, <1>11 DEF InspectInv

\* A call that ends.
LEMMA AnswerKept ==
  ASSUME InspectInv, NEW o \in Inspects, inspect[o].at = "inspect",
         inspect' = [inspect EXCEPT ![o] = Unbusy],
         UNCHANGED <<cdps, cdpSessions, tangled>>,
         picks' \in 0..MaxPicks, inspectorData'.pick = picks', stored' \in {"nobody", "pick", "inspect"},
         known' \in [Viewers -> 0..MaxPicks \cup {Off}], Cascades(inspectorData'),
         \A v \in Viewers : known'[v] \in {Off, inspectorData'.pick}
  PROVE  InspectInv'
<1>1. InspectKinds /\ Enabling
  BY DEF InspectInv
<1>2. /\ inspect' \in [Inspects -> InspectKind(Len(cdps))] /\ inspect'[o] = Unbusy
      /\ \A q \in Inspects : q # o => inspect'[q] = inspect[q]
  <2>1. Len(cdps) \in Nat /\ Len(cdps) <= Len(cdps)
    BY <1>1, InspectIs
  <2> QED BY <1>1, <2>1, UnbusyIs, InspectMoves
<1>3. InspectKinds'
  <2>1. \A q \in Inspects :
          /\ inspect'[q].at = "idle" => inspect'[q] = Unbusy
          /\ inspect'[q].at # "idle" => inspect'[q].page \in InspectPages
          /\ inspect'[q].at \in {"verify", "enable", "inspect"} =>
               inspect'[q].session # 0 /\ cdps[inspect'[q].session].page = inspect'[q].page
    <3> TAKE q \in Inspects
    <3>1. CASE q # o
      BY <1>1, <1>2, <3>1 DEF InspectKinds
    <3>2. CASE q = o
      BY <1>2, <3>2, UnbusyIs
    <3> QED BY <3>1, <3>2
  <2> QED BY <1>1, <1>2, <2>1 DEF InspectKinds
<1>4. Enabling'
  BY <1>1, <1>2 DEF Enabling
<1>5. Told' /\ Cascades(inspectorData)'
  BY DEF Told, Cascades
<1>6. ASSUME NEW r \in InspectPages \ tangled' PROVE Untangled(r)'
  <2>1. Untangled(r) /\ CdpAttached(r)' = CdpAttached(r)
    BY DEF InspectInv, CdpAttached
  <2>2. \A q \in Inspects : AtWork(q, r)' => AtWork(q, r) /\ inspect'[q] = inspect[q]
    BY <1>2, UnbusyIs DEF AtWork
  <2> QED BY <2>1, <2>2 DEF Untangled
<1> QED BY <1>3, <1>4, <1>5, <1>6 DEF InspectInv

\* A pick.
LEMMA PickedKept ==
  ASSUME InspectInv, NEW o \in Inspects, NEW rules \in Matching, Picked(o, rules)
  PROVE  InspectInv'
<1>1. InspectKinds
  BY DEF InspectInv
<1>2. MaxPicks \in Nat /\ picks \in 0..MaxPicks /\ picks + 1 \in 0..MaxPicks
  BY <1>1, InspectAssumption DEF InspectKinds, Picked
<1>3. /\ inspect[o].at = "inspect" /\ inspect' = [inspect EXCEPT ![o] = Unbusy]
      /\ picks' = picks + 1 /\ stored' = "pick" /\ UNCHANGED <<cdps, cdpSessions, tangled>>
      /\ known' = [v \in Viewers |-> IF known[v] = Off THEN Off ELSE picks + 1]
  BY DEF Picked, Ready
<1>4. inspectorData' = [pick |-> picks + 1, rules |-> BySpecificity(rules),
                        overridden |-> MarkOverridden(BySpecificity(rules))]
  BY DEF Picked
<1>5. /\ inspectorData'.pick = picks' /\ inspectorData'.rules = BySpecificity(rules)
      /\ inspectorData'.overridden = MarkOverridden(inspectorData'.rules)
  BY <1>3, <1>4
<1>6. Cascades(inspectorData')
  BY <1>5, PickCascades
<1>7. /\ known' \in [Viewers -> 0..MaxPicks \cup {Off}]
      /\ \A v \in Viewers : known'[v] \in {Off, inspectorData'.pick}
  BY <1>2, <1>3, <1>5
<1> QED BY <1>2, <1>3, <1>5, <1>6, <1>7, AnswerKept

\* The invariant holds at first.
LEMMA InspectInitInv == InspectInit => InspectInv
<1> SUFFICES ASSUME InspectInit PROVE InspectInv
  OBVIOUS
<1>1. /\ cdps = <<>> /\ Len(cdps) = 0 /\ cdps \in Seq(SessionKind) /\ MaxPicks \in Nat
      /\ \A o \in Inspects : inspect[o] = Unbusy
      /\ \A p \in InspectPages : cdpSessions[p] = 0
  BY InspectAssumption DEF InspectInit
<1>2. /\ inspectorData.pick = 0 /\ inspectorData.rules = <<>> /\ Len(inspectorData.rules) = 0
  BY DEF InspectInit, NoPick
<1>3. Cascades(inspectorData)
  BY <1>2 DEF Cascades
<1>4. InspectKinds
  BY <1>1, <1>2, UnbusyIs DEF InspectInit, InspectKinds
<1>5. Enabling /\ Told
  BY <1>1 DEF Enabling, Told, InspectInit
<1>6. \A p \in InspectPages : Untangled(p)
  BY <1>1, UnbusyIs DEF Untangled, CdpAttached, AtWork
<1> QED BY <1>3, <1>4, <1>5, <1>6 DEF InspectInv

\* Every step keeps it.
LEMMA InspectStepKept == InspectInv /\ [InspectNext]_inspectVars => InspectInv'
<1> SUFFICES ASSUME InspectInv, [InspectNext]_inspectVars PROVE InspectInv'
  OBVIOUS
<1>1. InspectKinds /\ Enabling /\ Cascades(inspectorData) /\ Told
  BY DEF InspectInv
<1>2. CASE UNCHANGED inspectVars
  BY <1>2 DEF inspectVars, InspectInv, InspectKinds, Enabling, Cascades, Told, Untangled, CdpAttached, AtWork
<1>3. ASSUME NEW o \in Inspects, InspectFails(o) \/ Inspected(o) PROVE InspectInv'
  BY <1>1, <1>3, AnswerKept DEF InspectFails, Inspected, Ready, InspectKinds, Told
<1>4. ASSUME NEW v \in Viewers, Subscribe(v) \/ Unsubscribe(v) PROVE InspectInv'
  <2>1. /\ known' \in [Viewers -> 0..MaxPicks \cup {Off}]
        /\ \A w \in Viewers : known'[w] \in {Off, inspectorData.pick}
    BY <1>1, <1>4 DEF Subscribe, Unsubscribe, InspectKinds, Told
  <2>2. UNCHANGED <<cdps, cdpSessions, inspect, inspectorData, stored, picks, tangled>>
    BY <1>4 DEF Subscribe, Unsubscribe
  <2> QED BY <2>1, <2>2 DEF InspectInv, InspectKinds, Enabling, Cascades, Told, Untangled, CdpAttached, AtWork
<1> QED BY <1>2, <1>3, <1>4, PickKept, VerifiedKept, CreateSessionKept, EnableDomainsKept, PickedKept,
           FrameNavigatesKept DEF InspectNext, InspectNextOf

\* The invariant holds throughout.
THEOREM InspectInvariance == InspectSpec => []InspectInv
<1> QED BY InspectInitInv, InspectStepKept, PTL DEF InspectSpec

\* Sessions, calls, viewers and the last pick keep their types.
THEOREM InspectTypes == InspectSpec => []InspectTypeOK
<1>1. InspectInv => InspectTypeOK
  <2> SUFFICES ASSUME InspectInv PROVE InspectTypeOK
    OBVIOUS
  <2>1. InspectKinds
    BY DEF InspectInv
  <2>2. \A s \in ToSet(cdps) : s \in SessionKind
    BY <2>1 DEF ToSet, InspectKinds
  <2>3. \A o \in Inspects : inspect[o].at \in {"idle", "verify", "create", "enable", "inspect"}
    <3>1. \A o \in Inspects : inspect[o] \in InspectKind(Len(cdps))
      BY <2>1 DEF InspectKinds
    <3> QED BY <3>1, Zenon DEF InspectKind
  <2> HIDE DEF SessionKind
  <2> QED BY <2>1, <2>2, <2>3, Zenon DEF InspectKinds, InspectTypeOK, SessionKind
<1> QED BY <1>1, InspectInvariance, PTL

\* The panel shows the cascade of CSS for any specificities, every viewer knows of the
\* last pick, and a page that no race has reached has no session but the cached one.
THEOREM InspectTrue == InspectSpec => []InspectionIsTrue
<1>1. InspectInv => InspectionIsTrue
  BY DEF InspectInv, InspectionIsTrue, Cascades, Told, Untangled, CdpAttached
<1> QED BY <1>1, InspectInvariance, PTL

-----------------------------------------------------------------------------
(* MCBrowser: a behaviour of the browser as its parts run side by side is    *)
(* one of each of them, the others at rest, for all values of their          *)
(* constants; so what is proved of each holds of all together.               *)

\* A page may have no rules at all.
LEMMA RulesMayBeNone == << >> \in Matching
<1>1. << >> \in [1..0 -> Rule] /\ 0 \in 0..3
  OBVIOUS
<1> QED BY <1>1 DEF Matching

\* The parts start as they do alone.
LEMMA BrowserInits ==
  MCInit => /\ SwapInit /\ PageInit /\ PtyInit /\ CookieInit /\ EachInit /\ VisualInit
            /\ DownloadInit /\ InspectInit
BY DEF MCInit

\* A step of the browser is one of each part, or leaves it as it is.
LEMMA BrowserMoves ==
  [MCNext]_allVars =>
    /\ [SwapNext]_swapVars /\ [PageNext]_pageVars /\ [PtyNext]_ptyVars /\ [CookieNext]_cookieVars
    /\ [EachNextState]_eachVars /\ [VisualNext]_visualVars /\ [DownloadNext]_downloadVars
    /\ [InspectNext]_inspectVars
<1> SUFFICES ASSUME [MCNext]_allVars
             PROVE  /\ [SwapNext]_swapVars /\ [PageNext]_pageVars /\ [PtyNext]_ptyVars
                    /\ [CookieNext]_cookieVars /\ [EachNextState]_eachVars /\ [VisualNext]_visualVars
                    /\ [DownloadNext]_downloadVars /\ [InspectNext]_inspectVars
  OBVIOUS
<1> USE DEF TabVars, shotVars
<1>1. CASE SwapStep
  BY <1>1 DEF SwapStep
<1>2. CASE PageStep
  BY <1>2 DEF PageStep
<1>3. CASE PtyStep
  BY <1>3 DEF PtyStep
<1>4. CASE CookieStep
  BY <1>4 DEF CookieStep
<1>5. CASE EachStep
  BY <1>5 DEF EachStep
<1>6. CASE VisualStep
  BY <1>6 DEF VisualStep
<1>7. CASE DownloadStep
  BY <1>7 DEF DownloadStep
<1>8. CASE InspectStep
  <2>1. \A rules \in {<< >>} : rules \in Matching
    BY RulesMayBeNone
  <2>2. InspectNextOf({<< >>}) => InspectNextOf(Matching)
    BY <2>1 DEF InspectNextOf
  <2> QED BY <1>8, <2>2 DEF InspectStep, InspectNext
<1>9. CASE UNCHANGED allVars
  BY <1>9 DEF allVars
<1> QED BY <1>1, <1>2, <1>3, <1>4, <1>5, <1>6, <1>7, <1>8, <1>9 DEF MCNext

\* A behaviour of the browser and side panel is, for each of its parts, a behaviour of that part:
\* the daemon keeps their states in variables of their own.
THEOREM BrowserRunIsOfParts ==
  MCSpec => /\ SwapSpec /\ PageSpec /\ (PtyInit /\ [][PtyNext]_ptyVars) /\ CookieSpec
            /\ EachSpec /\ VisualSpec /\ DownloadSpec /\ InspectSpec
BY BrowserInits, BrowserMoves, PTL DEF MCSpec, SwapSpec, PageSpec, CookieSpec, EachSpec, VisualSpec,
   DownloadSpec, InspectSpec

\* In every behaviour the variables of each part keep their types and bounds, for all values of
\* the constants: BrowserTypeOK of the run, and not only of its bounds.
THEOREM BrowserRunTypes == MCSpec => []BrowserTypeOK
<1>1. PtyInit /\ [][PtyNext]_ptyVars => []PtyTypeOK
  BY PtySafe, PTL
<1>2. SwapTypeOK /\ PageTypeOK /\ PtyTypeOK /\ CookieTypeOK /\ EachTypeOK /\ VisualTypeOK
      /\ DownloadTypeOK /\ InspectTypeOK => BrowserTypeOK
  BY DEF BrowserTypeOK
<1> QED BY <1>1, <1>2, BrowserRunIsOfParts, SwapTypes, PageTypes, CookieTypes, EachTypes, VisualTypes,
           DownloadTypes, InspectTypes, PTL

\* Whatever the constants, all that is promised of context swaps, tab owners, page sessions,
\* terminal tokens, cookie listings, fan-outs, visuals, downloads and inspections holds throughout.
THEOREM BrowserRunSafe ==
  MCSpec => [](/\ WholeAfterSwap /\ OwnersSurvive /\ SessionIsOfThePage /\ TokensAreNotReplayed
               /\ ListingIsTrue /\ FanOutIsTrue /\ LeavesNoTrace /\ DownloadsAreOwn /\ InspectionIsTrue)
<1>1. PtyInit /\ [][PtyNext]_ptyVars => []TokensAreNotReplayed
  BY PtySafe, PTL
<1> QED BY <1>1, BrowserRunIsOfParts, WholeAfterSwapAlways, OwnersSurviveAlways, SessionsOfPages, ListingTrue,
           FanOut, NoTrace, DownloadsOwn, InspectTrue, PTL
=============================================================================
