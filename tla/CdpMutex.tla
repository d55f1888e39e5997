------------------------------ MODULE CdpMutex ------------------------------
(***************************************************************************)
(* The two-tier mutex of browser-manager.ts (acquireTabLock,               *)
(* acquireGlobalCdpLock).  Every acquire reserves a slot, numbered here in *)
(* the order the calls are made.  The code chains promises: a slot's       *)
(* `tail` waits for the slots that were the tails when it was reserved,    *)
(* and the slot itself resolves once its tail has and its owner released   *)
(* it.  A promise tail is the set of slots it waits for, the already       *)
(* resolved promise the empty set.                                         *)
(***************************************************************************)
EXTENDS Naturals

CONSTANTS Tabs,         \* tab ids
          Browser,      \* scope of the methods that take the global lock
          MaxTickets    \* bound: acquire calls made in a behaviour

ASSUME BrowserIsNoTab == Browser \notin Tabs
ASSUME MaxTicketsIsNat == MaxTickets \in Nat

VARIABLES issued,       \* slots reserved so far
          scope,        \* the tab, or Browser, a slot is for
          waits,        \* slots whose promises the slot's tail joins
          phase,        \* where the call that reserved the slot stands
          settled,      \* slots whose chained promise has resolved
          tabTail,      \* tabLocks: the last slot of each tab
          globalTail    \* globalCdpLockTail: the last global slot

lockVars == <<issued, scope, waits, phase, settled, tabTail, globalTail>>

Ticket == 1 .. MaxTickets
Scopes == Tabs \cup {Browser}
Phases == {"idle", "waiting", "held", "done", "timedOut"}

Conflict(s, t) == s = t \/ s = Browser \/ t = Browser

Issued(i) == phase[i] # "idle"

\* Mutant: a waiter that timed out does not resolve its slot.
MutReleased(i) == phase[i] = "done"

\* The slot's own `next` promise has been resolved by its release function.
Released(i) == phase[i] \in {"done", "timedOut"}

\* Mutant: the tail is not awaited.
MutTailResolved(i) == i \in Ticket

\* `await Promise.race([tail, ...])`: every slot of the tail has resolved.
TailResolved(i) == waits[i] \subseteq settled

LockInit ==
  /\ issued = 0
  /\ scope = [i \in Ticket |-> Browser]
  /\ waits = [i \in Ticket |-> {}]
  /\ phase = [i \in Ticket |-> "idle"]
  /\ settled = {}
  /\ tabTail = [t \in Tabs |-> {}]
  /\ globalTail = {}

\* Both acquires, up to their await: read the tails and append a slot.
Reserve(i, s, joined) ==
  /\ issued < MaxTickets
  /\ i = issued + 1
  /\ issued' = i
  /\ scope' = [scope EXCEPT ![i] = s]
  /\ waits' = [waits EXCEPT ![i] = joined]
  /\ phase' = [phase EXCEPT ![i] = "waiting"]
  /\ UNCHANGED settled

AcquireTab(i, t) ==
  /\ Reserve(i, t, tabTail[t] \cup globalTail)
  /\ tabTail' = [tabTail EXCEPT ![t] = {i}]
  /\ UNCHANGED globalTail

\* Mutant: the per-tab tails are not part of a global slot's tail.
MutAcquireGlobal(i) ==
  /\ Reserve(i, Browser, globalTail)
  /\ globalTail' = {i}
  /\ UNCHANGED tabTail

AcquireGlobal(i) ==
  /\ Reserve(i, Browser, globalTail \cup UNION {tabTail[t] : t \in Tabs})
  /\ globalTail' = {i}
  /\ UNCHANGED tabTail

\* tail.then(() => next) resolves: a microtask.
Settle(i) ==
  /\ Released(i)
  /\ i \notin settled
  /\ TailResolved(i)
  /\ settled' = settled \cup {i}
  /\ UNCHANGED <<issued, scope, waits, phase, tabTail, globalTail>>

\* The race is won by the tail: acquire returns the release function.
Grant(i) ==
  /\ phase[i] = "waiting"
  /\ TailResolved(i)
  /\ phase' = [phase EXCEPT ![i] = "held"]
  /\ UNCHANGED <<issued, scope, waits, settled, tabTail, globalTail>>

\* Promises that have resolved run their continuations before any timer does.
MicrotasksDrained ==
  \A i \in Ticket : TailResolved(i) => /\ phase[i] # "waiting"
                                       /\ Released(i) => i \in settled

\* Mutant: there is no timer.
MutTimeout(i) == i \notin Ticket /\ UNCHANGED lockVars

\* The race is won by the timer: the slot is released unheld, acquire throws.
Timeout(i) ==
  /\ phase[i] = "waiting"
  /\ MicrotasksDrained
  /\ phase' = [phase EXCEPT ![i] = "timedOut"]
  /\ UNCHANGED <<issued, scope, waits, settled, tabTail, globalTail>>

\* The holder calls its release function.
Release(i) ==
  /\ phase[i] = "held"
  /\ phase' = [phase EXCEPT ![i] = "done"]
  /\ UNCHANGED <<issued, scope, waits, settled, tabTail, globalTail>>

LockNext == \E i \in Ticket : \/ \E t \in Tabs : AcquireTab(i, t)
                              \/ AcquireGlobal(i)
                              \/ Settle(i)
                              \/ Grant(i)
                              \/ Timeout(i)
                              \/ Release(i)

LockSpec == LockInit /\ [][LockNext]_lockVars

-----------------------------------------------------------------------------

\* The ranges of the variables.
LockTypeOK ==
  /\ issued \in 0 .. MaxTickets
  /\ scope \in [Ticket -> Scopes]
  /\ waits \in [Ticket -> SUBSET Ticket]
  /\ phase \in [Ticket -> Phases]
  /\ settled \in SUBSET Ticket
  /\ tabTail \in [Tabs -> SUBSET Ticket]
  /\ globalTail \in SUBSET Ticket

\* Two calls that are let in at once are for different tabs: a tab's slots
\* exclude each other, and a browser-wide slot excludes every other, also
\* after any number of waiters in between have timed out.
MutualExclusion ==
  \A i, j \in Ticket :
    (i # j /\ phase[i] = "held" /\ phase[j] = "held")
      => ~Conflict(scope[i], scope[j])

\* A slot's promise resolves only after every earlier slot it conflicts with:
\* a waiter that timed out keeps its place, so nobody slips past a holder.
PrefixSettled ==
  \A i, j \in Ticket :
    (i < j /\ j \in settled /\ Conflict(scope[i], scope[j])) => i \in settled

\* A call is let in only when every earlier call it conflicts with is over:
\* acquires are served in the order they were made (the cross-tier test of
\* cdp-mutex.test.ts, for every interleaving).
NoOvertaking ==
  [][\A j \in Ticket : (phase[j] # "held" /\ phase'[j] = "held")
       => \A i \in 1 .. (j - 1) : Conflict(scope[i], scope[j]) => Released(i)]_lockVars

\* The detailed lock implements the promise of CdpLock.
Status(i) == IF Released(i) THEN "gone" ELSE phase[i]

Lock == INSTANCE CdpLock WITH
          Callers <- Ticket,
          claim <- scope,
          status <- [i \in Ticket |-> Status(i)]

ImplementsLock == Lock!Spec
=============================================================================
