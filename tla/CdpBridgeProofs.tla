---------------------------- MODULE CdpBridgeProofs ---------------------------
(* Proofs about CdpMutex and CdpBridge, for every set of tabs, every number  *)
(* of calls and every choice of timeouts.                                    *)
EXTENDS CdpBridge, TLAPS

-----------------------------------------------------------------------------
(* CdpMutex: types, mutual exclusion, first come first served, and the       *)
(* implementation of CdpLock.  The inductive invariant says what the promise *)
(* chain is: the tails are the last slots, and the slots a slot waits for    *)
(* cover all the earlier ones it conflicts with, each through a later slot   *)
(* that conflicts with it too.  Coverage is what makes waiting for two or    *)
(* three promises as good as waiting for all of them.                        *)

\* Slots are reserved in order.
IssuedInOrder == \A i \in Ticket : Issued(i) <=> i <= issued

\* tabLocks[t] is the last slot of tab t.
TabTailIsLast ==
  \A t \in Tabs :
    /\ \A k \in tabTail[t] : Issued(k) /\ scope[k] = t
    /\ \A i \in Ticket : (Issued(i) /\ scope[i] = t) => \E k \in tabTail[t] : i <= k

\* globalCdpLockTail is the last global slot.
GlobalTailIsLast ==
  /\ \A k \in globalTail : Issued(k) /\ scope[k] = Browser
  /\ \A i \in Ticket : (Issued(i) /\ scope[i] = Browser) => \E k \in globalTail : i <= k

\* What a slot waits for covers every earlier slot it conflicts with.
Coverage ==
  \A i, j \in Ticket :
    (i < j /\ Issued(j) /\ Conflict(scope[i], scope[j]))
      => \E k \in waits[j] : k < j /\ i <= k /\ Conflict(scope[i], scope[k])

\* A resolved slot was released and its tail had resolved.
SettledAreReleased == \A i \in settled : Released(i) /\ TailResolved(i)

\* Holders got in through their tail.
HeldWereGranted == \A i \in Ticket : phase[i] = "held" => TailResolved(i)

LockInv == /\ LockTypeOK
           /\ IssuedInOrder
           /\ TabTailIsLast
           /\ GlobalTailIsLast
           /\ Coverage
           /\ SettledAreReleased
           /\ HeldWereGranted
           /\ PrefixSettled

-----------------------------------------------------------------------------

\* The invariant holds before any call.
LEMMA InitInv == LockInit => LockInv
  <1>1. SUFFICES ASSUME LockInit PROVE LockInv
    OBVIOUS
  <1>2. LockTypeOK
    BY <1>1, MaxTicketsIsNat DEF LockInit, LockTypeOK, Scopes, Phases, Ticket
  <1>3. IssuedInOrder
    BY <1>1, MaxTicketsIsNat DEF LockInit, IssuedInOrder, Issued, Ticket
  <1>4. TabTailIsLast /\ GlobalTailIsLast
    BY <1>1 DEF LockInit, TabTailIsLast, GlobalTailIsLast, Issued
  <1>5. Coverage /\ SettledAreReleased /\ HeldWereGranted /\ PrefixSettled
    BY <1>1 DEF LockInit, Coverage, SettledAreReleased, HeldWereGranted,
                PrefixSettled, Issued
  <1> QED BY <1>2, <1>3, <1>4, <1>5 DEF LockInv

\* A new slot i that joins `joined` keeps every part of the invariant that does
\* not name the tails, given that `joined` covers the earlier slots.
LEMMA ReserveInv ==
  ASSUME LockInv, NEW i \in Ticket, NEW s \in Scopes, NEW joined \in SUBSET Ticket,
         Reserve(i, s, joined),
         tabTail' \in [Tabs -> SUBSET Ticket], globalTail' \in SUBSET Ticket,
         \A k \in joined : Issued(k),
         \A h \in Ticket : (Issued(h) /\ Conflict(scope[h], s))
            => \E k \in joined : h <= k /\ Conflict(scope[h], scope[k])
  PROVE  /\ LockTypeOK' /\ IssuedInOrder' /\ Coverage'
         /\ SettledAreReleased' /\ HeldWereGranted' /\ PrefixSettled'
  <1> USE DEF LockInv, Reserve, Ticket
  <1>1. phase[i] = "idle" /\ i \notin settled /\ i = issued + 1
    <2>1. i = issued + 1 /\ ~(i <= issued)
      BY MaxTicketsIsNat DEF LockTypeOK
    <2>2. phase[i] = "idle"
      BY <2>1 DEF IssuedInOrder, Issued
    <2> QED BY <2>1, <2>2 DEF SettledAreReleased, Released
  <1>2. \A j \in Ticket : j # i => /\ phase'[j] = phase[j]
                                   /\ scope'[j] = scope[j]
                                   /\ waits'[j] = waits[j]
    BY DEF LockTypeOK
  <1>3. phase'[i] = "waiting" /\ scope'[i] = s /\ waits'[i] = joined /\ settled' = settled
    BY DEF LockTypeOK
  <1>4. LockTypeOK'
    BY MaxTicketsIsNat DEF LockTypeOK, Phases
  <1>5. IssuedInOrder'
    BY <1>1, <1>2, <1>3, MaxTicketsIsNat DEF IssuedInOrder, Issued, LockTypeOK
  <1>6. SettledAreReleased'
    BY <1>1, <1>2, <1>3 DEF SettledAreReleased, Released, TailResolved, LockTypeOK
  <1>7. HeldWereGranted'
    BY <1>1, <1>2, <1>3 DEF HeldWereGranted, TailResolved
  <1>8. Coverage'
    <2> SUFFICES ASSUME NEW h \in Ticket, NEW j \in Ticket, h < j, phase'[j] # "idle",
                        Conflict(scope'[h], scope'[j])
                 PROVE  \E k \in waits'[j] : k < j /\ h <= k /\ Conflict(scope'[h], scope'[k])
      BY DEF Coverage, Issued
    <2>1. CASE j = i
      <3>1. Issued(h) /\ Conflict(scope[h], s) /\ h # i
        BY <2>1, <1>1, <1>2, <1>3, MaxTicketsIsNat DEF IssuedInOrder, LockTypeOK
      <3>2. PICK k \in joined : h <= k /\ Conflict(scope[h], scope[k])
        BY <3>1
      <3>3. Issued(k) /\ k # i /\ k < i
        BY <3>2, <1>1, MaxTicketsIsNat DEF Issued, IssuedInOrder, LockTypeOK
      <3>4. scope'[k] = scope[k] /\ scope'[h] = scope[h]
        BY <3>1, <3>3, <1>2
      <3> QED BY <2>1, <1>3, <3>2, <3>3, <3>4
    <2>2. CASE j # i
      <3>1. Issued(j) /\ j < i /\ h # i
        BY <2>2, <1>1, <1>2, MaxTicketsIsNat DEF Issued, IssuedInOrder, LockTypeOK
      <3>2. Conflict(scope[h], scope[j])
        BY <3>1, <2>2, <1>2
      <3>3. PICK k \in waits[j] : k < j /\ h <= k /\ Conflict(scope[h], scope[k])
        BY <3>1, <3>2 DEF Coverage
      <3>4. k \in Ticket /\ k # i
        BY <3>1, <3>3, MaxTicketsIsNat DEF LockTypeOK
      <3> QED BY <2>2, <1>2, <3>1, <3>3, <3>4
    <2> QED BY <2>1, <2>2
  <1>9. PrefixSettled'
    <2> SUFFICES ASSUME NEW h \in Ticket, NEW j \in Ticket, h < j, j \in settled,
                        Conflict(scope'[h], scope'[j])
                 PROVE  h \in settled
      BY <1>3 DEF PrefixSettled
    <2>1. Issued(j) /\ j # i
      BY <1>1 DEF SettledAreReleased, Released, Issued
    <2>2. h # i
      BY <2>1, <1>1, MaxTicketsIsNat DEF IssuedInOrder, LockTypeOK
    <2> QED BY <2>1, <2>2, <1>2 DEF PrefixSettled
  <1> QED BY <1>4, <1>5, <1>6, <1>7, <1>8, <1>9

\* acquireTabLock keeps the invariant.
LEMMA AcquireTabInv ==
  ASSUME LockInv, NEW i \in Ticket, NEW t \in Tabs, AcquireTab(i, t)
  PROVE  LockInv'
  <1> DEFINE joined == tabTail[t] \cup globalTail
  <1> USE DEF LockInv, AcquireTab
  <1>1. i = issued + 1 /\ phase[i] = "idle"
    BY MaxTicketsIsNat DEF Reserve, IssuedInOrder, Issued, LockTypeOK, Ticket
  <1>2. joined \in SUBSET Ticket /\ t \in Scopes
    BY DEF LockTypeOK, Scopes
  <1>3. \A k \in joined : Issued(k)
    BY DEF TabTailIsLast, GlobalTailIsLast
  <1>4. \A h \in Ticket : (Issued(h) /\ Conflict(scope[h], t))
            => \E k \in joined : h <= k /\ Conflict(scope[h], scope[k])
    BY BrowserIsNoTab DEF TabTailIsLast, GlobalTailIsLast, Conflict
  <1>5. tabTail' \in [Tabs -> SUBSET Ticket] /\ globalTail' \in SUBSET Ticket
    BY DEF LockTypeOK
  <1>6. /\ LockTypeOK' /\ IssuedInOrder' /\ Coverage'
        /\ SettledAreReleased' /\ HeldWereGranted' /\ PrefixSettled'
    BY <1>2, <1>3, <1>4, <1>5, ReserveInv
  <1>7. \A j \in Ticket : j # i => phase'[j] = phase[j] /\ scope'[j] = scope[j]
    BY DEF Reserve, LockTypeOK
  <1>8. phase'[i] = "waiting" /\ scope'[i] = t
    BY DEF Reserve, LockTypeOK
  <1>9. TabTailIsLast'
    <2> SUFFICES ASSUME NEW u \in Tabs
                 PROVE  /\ \A k \in tabTail'[u] : phase'[k] # "idle" /\ scope'[k] = u
                        /\ \A h \in Ticket : (phase'[h] # "idle" /\ scope'[h] = u)
                              => \E k \in tabTail'[u] : h <= k
      BY DEF TabTailIsLast, Issued
    <2>1. CASE u = t
      <3>1. tabTail'[u] = {i}
        BY <2>1 DEF LockTypeOK
      <3>2. \A h \in Ticket : phase'[h] # "idle" => h <= i
        BY <1>1, <1>7, MaxTicketsIsNat DEF IssuedInOrder, Issued, LockTypeOK, Ticket
      <3> QED BY <2>1, <3>1, <3>2, <1>8
    <2>2. CASE u # t
      <3>1. tabTail'[u] = tabTail[u] /\ tabTail[u] \subseteq Ticket
        BY <2>2 DEF LockTypeOK
      <3>2. \A k \in tabTail[u] : k # i
        BY <1>1 DEF TabTailIsLast, Issued
      <3> QED BY <2>2, <3>1, <3>2, <1>7, <1>8 DEF TabTailIsLast, Issued
    <2> QED BY <2>1, <2>2
  <1>10. GlobalTailIsLast'
    <2>1. globalTail' = globalTail /\ globalTail \subseteq Ticket
      BY DEF LockTypeOK
    <2>2. \A k \in globalTail : k # i
      BY <1>1 DEF GlobalTailIsLast, Issued
    <2> QED BY <2>1, <2>2, <1>7, <1>8, BrowserIsNoTab DEF GlobalTailIsLast, Issued
  <1> QED BY <1>6, <1>9, <1>10

\* acquireGlobalCdpLock keeps the invariant.
LEMMA AcquireGlobalInv ==
  ASSUME LockInv, NEW i \in Ticket, AcquireGlobal(i)
  PROVE  LockInv'
  <1> DEFINE joined == globalTail \cup UNION {tabTail[t] : t \in Tabs}
  <1> USE DEF LockInv, AcquireGlobal
  <1>1. i = issued + 1 /\ phase[i] = "idle"
    BY MaxTicketsIsNat DEF Reserve, IssuedInOrder, Issued, LockTypeOK, Ticket
  <1>2. joined \in SUBSET Ticket /\ Browser \in Scopes
    BY DEF LockTypeOK, Scopes
  <1>3. \A k \in joined : Issued(k)
    BY DEF TabTailIsLast, GlobalTailIsLast
  <1>4. \A h \in Ticket : (Issued(h) /\ Conflict(scope[h], Browser))
            => \E k \in joined : h <= k /\ Conflict(scope[h], scope[k])
    <2> SUFFICES ASSUME NEW h \in Ticket, Issued(h)
                 PROVE  \E k \in joined : h <= k /\ Conflict(scope[h], scope[k])
      OBVIOUS
    <2>1. CASE scope[h] = Browser
      BY <2>1 DEF GlobalTailIsLast, Conflict
    <2>2. CASE scope[h] \in Tabs
      BY <2>2 DEF TabTailIsLast, Conflict
    <2> QED BY <2>1, <2>2 DEF LockTypeOK, Scopes
  <1>5. tabTail' \in [Tabs -> SUBSET Ticket] /\ globalTail' \in SUBSET Ticket
    BY DEF LockTypeOK
  <1>6. Reserve(i, Browser, joined)
    OBVIOUS
  <1>7. /\ LockTypeOK' /\ IssuedInOrder' /\ Coverage'
        /\ SettledAreReleased' /\ HeldWereGranted' /\ PrefixSettled'
    <2> HIDE DEF joined
    <2> QED BY <1>2, <1>3, <1>4, <1>5, <1>6, ReserveInv
  <1>8. \A j \in Ticket : j # i => phase'[j] = phase[j] /\ scope'[j] = scope[j]
    BY DEF Reserve, LockTypeOK
  <1>9. phase'[i] = "waiting" /\ scope'[i] = Browser
    BY DEF Reserve, LockTypeOK
  <1>10. TabTailIsLast'
    <2>1. tabTail' = tabTail /\ \A u \in Tabs : tabTail[u] \subseteq Ticket
      BY DEF LockTypeOK
    <2>2. \A u \in Tabs : \A k \in tabTail[u] : k # i
      BY <1>1 DEF TabTailIsLast, Issued
    <2> QED BY <2>1, <2>2, <1>8, <1>9, BrowserIsNoTab DEF TabTailIsLast, Issued
  <1>11. GlobalTailIsLast'
    <2>1. \A h \in Ticket : phase'[h] # "idle" => h <= i
      BY <1>1, <1>8, MaxTicketsIsNat DEF IssuedInOrder, Issued, LockTypeOK, Ticket
    <2> QED BY <2>1, <1>9 DEF GlobalTailIsLast, Issued
  <1> QED BY <1>7, <1>10, <1>11

\* A slot that resolves keeps the invariant; PrefixSettled is the point.
LEMMA SettleInv ==
  ASSUME LockInv, NEW i \in Ticket, Settle(i)
  PROVE  LockInv'
  <1> USE DEF LockInv, Settle
  <1>1. /\ LockTypeOK' /\ IssuedInOrder' /\ TabTailIsLast' /\ GlobalTailIsLast'
        /\ Coverage'
    BY DEF LockTypeOK, IssuedInOrder, TabTailIsLast, GlobalTailIsLast, Coverage, Issued
  <1>2. SettledAreReleased' /\ HeldWereGranted'
    BY DEF SettledAreReleased, HeldWereGranted, Released, TailResolved
  <1>3. PrefixSettled'
    <2> SUFFICES ASSUME NEW h \in Ticket, NEW j \in Ticket, h < j, j \in settled',
                        Conflict(scope[h], scope[j])
                 PROVE  h \in settled'
      BY DEF PrefixSettled
    <2>1. CASE j \in settled
      BY <2>1 DEF PrefixSettled
    <2>2. CASE j = i
      <3>1. PICK k \in waits[i] : h <= k /\ Conflict(scope[h], scope[k])
        BY <2>2 DEF Coverage, Released, Issued
      <3>2. k \in settled /\ k \in Ticket
        BY <3>1 DEF TailResolved, LockTypeOK
      <3> QED BY <3>1, <3>2, MaxTicketsIsNat DEF PrefixSettled, Ticket
    <2> QED BY <2>1, <2>2
  <1> QED BY <1>1, <1>2, <1>3

\* Grant, Timeout and Release change one phase only, from a phase in which the
\* slot was issued, unresolved and unreleased.
LEMMA PhaseInv ==
  ASSUME LockInv, NEW i \in Ticket, NEW p \in Phases \ {"idle"},
         phase[i] \in {"waiting", "held"},
         phase' = [phase EXCEPT ![i] = p],
         p = "held" => TailResolved(i),
         UNCHANGED <<issued, scope, waits, settled, tabTail, globalTail>>
  PROVE  LockInv'
  <1> USE DEF LockInv
  <1>1. \A j \in Ticket : Issued(j)' <=> Issued(j)
    BY DEF Issued, LockTypeOK
  <1>2. i \notin settled /\ \A j \in Ticket : j # i => phase'[j] = phase[j]
    BY DEF SettledAreReleased, Released, LockTypeOK
  <1>3. LockTypeOK' /\ IssuedInOrder' /\ PrefixSettled'
    BY <1>1 DEF LockTypeOK, IssuedInOrder, PrefixSettled
  <1>4. TabTailIsLast' /\ GlobalTailIsLast'
    BY <1>1 DEF TabTailIsLast, GlobalTailIsLast, LockTypeOK
  <1>5. Coverage'
    BY <1>1 DEF Coverage
  <1>6. SettledAreReleased' /\ HeldWereGranted'
    BY <1>2 DEF SettledAreReleased, HeldWereGranted, Released, TailResolved, LockTypeOK
  <1> QED BY <1>3, <1>4, <1>5, <1>6

\* Every step keeps the invariant.
LEMMA NextInv == LockInv /\ [LockNext]_lockVars => LockInv'
  <1> SUFFICES ASSUME LockInv, [LockNext]_lockVars PROVE LockInv'
    OBVIOUS
  <1>1. ASSUME NEW i \in Ticket, NEW t \in Tabs, AcquireTab(i, t) PROVE LockInv'
    BY <1>1, AcquireTabInv
  <1>2. ASSUME NEW i \in Ticket, AcquireGlobal(i) PROVE LockInv'
    BY <1>2, AcquireGlobalInv
  <1>3. ASSUME NEW i \in Ticket, Settle(i) PROVE LockInv'
    BY <1>3, SettleInv
  <1>4. ASSUME NEW i \in Ticket, Grant(i) PROVE LockInv'
    BY <1>4, PhaseInv DEF Grant, Phases
  <1>5. ASSUME NEW i \in Ticket, Timeout(i) PROVE LockInv'
    BY <1>5, PhaseInv DEF Timeout, Phases
  <1>6. ASSUME NEW i \in Ticket, Release(i) PROVE LockInv'
    BY <1>6, PhaseInv DEF Release, Phases
  <1>7. CASE UNCHANGED lockVars
    BY <1>7 DEF lockVars, LockInv, LockTypeOK, IssuedInOrder, TabTailIsLast,
                GlobalTailIsLast, Coverage, SettledAreReleased, HeldWereGranted,
                PrefixSettled, Issued, Released, TailResolved
  <1> QED BY <1>1, <1>2, <1>3, <1>4, <1>5, <1>6, <1>7 DEF LockNext

\* The invariant holds in every reachable state.
THEOREM Invariance == LockSpec => []LockInv
  <1> QED BY InitInv, NextInv, PTL DEF LockSpec

\* Every variable keeps its range.
THEOREM TypeCorrect == LockSpec => []LockTypeOK
  <1>1. LockInv => LockTypeOK
    BY DEF LockInv
  <1> QED BY <1>1, Invariance, PTL

\* A slot whose tail has resolved has no conflicting slot before it that is not
\* over: coverage carries the order from the promises waited for to all others.
LEMMA EarlierAreOver ==
  ASSUME LockInv, NEW i \in Ticket, NEW j \in Ticket, i < j, Issued(j),
         TailResolved(j), Conflict(scope[i], scope[j])
  PROVE  i \in settled /\ Released(i)
  <1> USE DEF LockInv
  <1>1. PICK k \in waits[j] : i <= k /\ Conflict(scope[i], scope[k])
    BY DEF Coverage
  <1>2. k \in settled /\ k \in Ticket
    BY <1>1 DEF TailResolved, LockTypeOK
  <1>3. i \in settled
    BY <1>1, <1>2, MaxTicketsIsNat DEF PrefixSettled, Ticket
  <1> QED BY <1>3 DEF SettledAreReleased

\* No two holders conflict, whatever timed out between them.
LEMMA InvExcludes == LockInv => MutualExclusion
  <1> SUFFICES ASSUME LockInv, NEW i \in Ticket, NEW j \in Ticket, i # j,
                      phase[i] = "held", phase[j] = "held",
                      Conflict(scope[i], scope[j])
               PROVE  FALSE
    BY DEF MutualExclusion
  <1>1. TailResolved(i) /\ TailResolved(j) /\ Issued(i) /\ Issued(j)
    BY DEF LockInv, HeldWereGranted, Issued
  <1>2. ~Released(i) /\ ~Released(j)
    BY DEF Released
  <1>3. Conflict(scope[j], scope[i])
    BY DEF Conflict
  <1>4. i < j \/ j < i
    BY MaxTicketsIsNat DEF Ticket
  <1> QED BY <1>1, <1>2, <1>3, <1>4, EarlierAreOver

\* acquireTabLock and acquireGlobalCdpLock exclude each other as documented.
THEOREM Exclusion == LockSpec => []MutualExclusion
  <1> QED BY InvExcludes, Invariance, PTL

\* A resolved slot never leaves an earlier conflicting one behind.
THEOREM PrefixesSettle == LockSpec => []PrefixSettled
  <1>1. LockInv => PrefixSettled
    BY DEF LockInv
  <1> QED BY <1>1, Invariance, PTL

-----------------------------------------------------------------------------

\* Only Grant lets a call in.
LEMMA EntryIsGrant ==
  ASSUME LockTypeOK, [LockNext]_lockVars, NEW j \in Ticket,
         phase[j] # "held", phase'[j] = "held"
  PROVE  Grant(j)
  <1>1. CASE LockNext
    <2> USE DEF LockTypeOK
    <2>1. ASSUME NEW i \in Ticket, NEW t \in Tabs, AcquireTab(i, t) PROVE FALSE
      BY <2>1 DEF AcquireTab, Reserve
    <2>2. ASSUME NEW i \in Ticket, AcquireGlobal(i) PROVE FALSE
      BY <2>2 DEF AcquireGlobal, Reserve
    <2>3. ASSUME NEW i \in Ticket, Settle(i) \/ Timeout(i) \/ Release(i) PROVE FALSE
      BY <2>3 DEF Settle, Timeout, Release
    <2>4. ASSUME NEW i \in Ticket, Grant(i) PROVE i = j
      BY <2>4 DEF Grant
    <2> QED BY <1>1, <2>1, <2>2, <2>3, <2>4 DEF LockNext
  <1>2. CASE UNCHANGED lockVars
    BY <1>2 DEF lockVars
  <1> QED BY <1>1, <1>2

\* First come, first served, among the calls that conflict.
THEOREM InOrder == LockSpec => NoOvertaking
  <1>1. ASSUME LockInv, [LockNext]_lockVars
        PROVE  [\A j \in Ticket : (phase[j] # "held" /\ phase'[j] = "held")
                  => \A i \in 1 .. (j - 1) :
                       Conflict(scope[i], scope[j]) => Released(i)]_lockVars
    <2> SUFFICES ASSUME NEW j \in Ticket, phase[j] # "held", phase'[j] = "held",
                        NEW i \in 1 .. (j - 1), Conflict(scope[i], scope[j])
                 PROVE  Released(i)
      OBVIOUS
    <2>1. Grant(j)
      BY <1>1, EntryIsGrant DEF LockInv
    <2>2. i \in Ticket /\ i < j
      BY MaxTicketsIsNat DEF Ticket
    <2>3. Issued(j) /\ TailResolved(j)
      BY <2>1 DEF Grant, Issued
    <2> QED BY <1>1, <2>2, <2>3, EarlierAreOver
  <1> QED BY <1>1, Invariance, PTL DEF LockSpec, NoOvertaking

\* The promise chain implements the abstract lock: reserving a slot is Request,
\* Grant is Enter, releasing and timing out are Leave, a promise that resolves
\* is a stutter.
THEOREM Refinement == LockSpec => ImplementsLock
  <1>1. LockInit => Lock!Init
    BY DEF LockInit, Lock!Init, Status, Released
  <1>2. ASSUME LockInv, LockInv', [LockNext]_lockVars
        PROVE  [Lock!Next]_<<scope, [i \in Ticket |-> Status(i)]>>
    <2> DEFINE st == [i \in Ticket |-> Status(i)]
    <2>0. LockTypeOK /\ IssuedInOrder /\ MutualExclusion'
      <3>1. LockTypeOK /\ IssuedInOrder
        BY <1>2 DEF LockInv
      <3>2. LockInv' => MutualExclusion'
        BY InvExcludes, PTL
      <3> QED BY <1>2, <3>1, <3>2
    <2> USE <2>0 DEF LockTypeOK
    <2>1. ASSUME NEW i \in Ticket, NEW s \in Scopes, NEW joined, Reserve(i, s, joined)
          PROVE  Lock!Request(i, s)
      <3>1. phase[i] = "idle"
        BY <2>1, MaxTicketsIsNat DEF Reserve, IssuedInOrder, Issued, Ticket
      <3>2. st[i] = "idle"
        BY <3>1 DEF Status, Released
      <3>3. st' = [st EXCEPT ![i] = "waiting"]
        BY <2>1 DEF Status, Released, Reserve
      <3> QED BY <2>1, <3>2, <3>3 DEF Lock!Request, Reserve
    <2>2. ASSUME NEW i \in Ticket, Settle(i)
          PROVE  UNCHANGED <<scope, st>>
      BY <2>2 DEF Settle, Status, Released
    <2>3. ASSUME NEW i \in Ticket, Grant(i)
          PROVE  Lock!Enter(i)
      <3>1. st[i] = "waiting" /\ st' = [st EXCEPT ![i] = "held"]
        BY <2>3 DEF Grant, Status, Released
      <3>2. ASSUME NEW h \in Ticket, st[h] = "held" PROVE ~Conflict(scope[h], scope[i])
        <4>1. phase[h] = "held" /\ h # i
          BY <3>1, <3>2 DEF Status, Released
        <4>2. phase'[h] = "held" /\ phase'[i] = "held" /\ UNCHANGED scope
          BY <2>3, <4>1 DEF Grant
        <4> QED BY <4>1, <4>2 DEF MutualExclusion
      <3> QED BY <2>3, <3>1, <3>2 DEF Lock!Enter, Lock!Holders, Lock!Conflict, Conflict, Grant
    <2>4. ASSUME NEW i \in Ticket, Timeout(i) \/ Release(i)
          PROVE  Lock!Leave(i)
      <3>1. st[i] \in {"waiting", "held"}
        BY <2>4 DEF Timeout, Release, Status, Released
      <3>2. st' = [st EXCEPT ![i] = "gone"]
        BY <2>4 DEF Timeout, Release, Status, Released
      <3> QED BY <2>4, <3>1, <3>2 DEF Lock!Leave, Timeout, Release
    <2>5. ASSUME UNCHANGED lockVars PROVE UNCHANGED <<scope, st>>
      BY <2>5 DEF lockVars, Status, Released
    <2> QED BY <1>2, <2>1, <2>2, <2>3, <2>4, <2>5
         DEF LockNext, AcquireTab, AcquireGlobal, Lock!Next, Lock!Scopes, Scopes
  <1> QED BY <1>1, <1>2, Invariance, PTL DEF LockSpec, ImplementsLock, Lock!Spec

-----------------------------------------------------------------------------
(* CdpBridge: its steps are steps of the lock, so the lock's invariant       *)
(* holds; who is past the lock holds it; a session that is being attached is *)
(* the first of its page.                                                    *)

\* A slot of tab t is the slot of a call that targets t.
TargetInScope ==
  \A i \in Ticket : Issued(i) => /\ target[i] \in Tabs
                                 /\ scope[i] \in {target[i], Browser}

\* A page that has a session has it in the cache, until the page closes.
SessionIsCached == \A t \in openTabs : sessions[t] # 0 => t \in cached

\* Who attaches a session found none.
AttachIsFirst == \A i \in Ticket : step[i] = "attaching" => sessions[target[i]] = 0

\* A command the browser still works on has a caller that waits or gave up.
InFlightHasCaller == \A i \in inFlight : step[i] = "sending" \/ i \in abandoned

BridgeInv == /\ Ranges
             /\ LockInv
             /\ WorkingHolds
             /\ TargetInScope
             /\ SessionIsCached
             /\ AttachIsFirst
             /\ InFlightHasCaller
             /\ OneSessionPerPage

\* The invariant holds initially.
LEMMA BridgeInit == Init => BridgeInv
  <1> SUFFICES ASSUME Init PROVE BridgeInv
    OBVIOUS
  <1>1. LockInv
    BY InitInv DEF Init
  <1>2. Ranges
    BY <1>1, MaxTicketsIsNat DEF Init, Ranges, LockInv, Steps, Scopes
  <1>3. WorkingHolds /\ TargetInScope
    BY DEF Init, LockInit, WorkingHolds, TargetInScope, Issued
  <1>4. SessionIsCached /\ AttachIsFirst /\ InFlightHasCaller /\ OneSessionPerPage
    BY DEF Init, SessionIsCached, AttachIsFirst, InFlightHasCaller, OneSessionPerPage
  <1> QED BY <1>1, <1>2, <1>3, <1>4 DEF BridgeInv

\* Every step of the bridge is a step of the lock, or leaves it alone.
LEMMA BridgeStepIsLockStep == [Next]_vars => [LockNext]_lockVars
  <1> SUFFICES ASSUME [Next]_vars PROVE [LockNext]_lockVars
    OBVIOUS
  <1>1. ASSUME NEW i \in Ticket, NEW t \in Tabs, Dispatch(i, t) PROVE LockNext
    BY <1>1 DEF Dispatch, LockNext
  <1>2. ASSUME NEW i \in Ticket, AcquireTimesOut(i) \/ SlotSettles(i) \/ Locked(i)
        PROVE  LockNext
    BY <1>2 DEF AcquireTimesOut, SlotSettles, Locked, LockNext
  <1>3. ASSUME NEW i \in Ticket,
               NoPage(i) \/ AttachFails(i) \/ Answer(i) \/ BridgeTimesOut(i)
        PROVE  LockNext
    BY <1>3 DEF NoPage, AttachFails, Answer, BridgeTimesOut, Finally, LockNext
  <1>4. ASSUME NEW i \in Ticket,
               SendOnCached(i) \/ Attach(i) \/ Attached(i) \/ LateAnswer(i)
        PROVE  UNCHANGED lockVars
    BY <1>4 DEF SendOnCached, Attach, Attached, LateAnswer
  <1>5. ASSUME NEW t \in Tabs, CloseTab(t) PROVE UNCHANGED lockVars
    BY <1>5 DEF CloseTab
  <1>6. CASE UNCHANGED vars
    BY <1>6 DEF vars
  <1> QED BY <1>1, <1>2, <1>3, <1>4, <1>5, <1>6 DEF Next

\* The conjuncts about the calls, for the steps that end the work of call i or
\* leave it where it is: nothing is attached and nothing is sent.
LEMMA FinallyKeeps ==
  ASSUME BridgeInv, LockTypeOK', NEW i \in Ticket, Finally(i),
         UNCHANGED <<openTabs, cached, sessions, target>>,
         inFlight' \in SUBSET inFlight, abandoned' \in SUBSET Ticket,
         abandoned \subseteq abandoned',
         i \in inFlight' => i \in abandoned'
  PROVE  /\ Ranges'
         /\ WorkingHolds' /\ TargetInScope' /\ SessionIsCached'
         /\ AttachIsFirst' /\ InFlightHasCaller' /\ OneSessionPerPage'
  <1> USE DEF BridgeInv, Finally, Release
  <1>1. /\ \A j \in Ticket : j # i => step'[j] = step[j] /\ phase'[j] = phase[j]
        /\ step'[i] = "over" /\ phase'[i] = "done"
        /\ phase[i] = "held" /\ UNCHANGED scope
    BY DEF Ranges, LockTypeOK
  <1>2. Ranges'
    BY DEF Ranges, Steps
  <1>3. WorkingHolds' /\ TargetInScope'
    BY <1>1 DEF WorkingHolds, TargetInScope, Issued
  <1>4. SessionIsCached' /\ AttachIsFirst' /\ OneSessionPerPage'
    BY <1>1 DEF SessionIsCached, AttachIsFirst, OneSessionPerPage
  <1>5. InFlightHasCaller'
    BY <1>1 DEF InFlightHasCaller, Ranges
  <1> QED BY <1>2, <1>3, <1>4, <1>5

\* Two calls that work on the same page would both hold its lock.
LEMMA OneWorkerPerPage ==
  ASSUME BridgeInv, NEW i \in Ticket, NEW j \in Ticket,
         phase[i] = "held", phase[j] = "held", target[i] = target[j]
  PROVE  i = j
  <1>1. Conflict(scope[i], scope[j])
    BY DEF BridgeInv, TargetInScope, Issued, Conflict
  <1>2. MutualExclusion
    BY InvExcludes DEF BridgeInv
  <1> QED BY <1>1, <1>2 DEF MutualExclusion

\* Every step keeps the invariant.
LEMMA BridgeStep == BridgeInv /\ [Next]_vars => BridgeInv'
  <1> SUFFICES ASSUME BridgeInv, [Next]_vars PROVE BridgeInv'
    OBVIOUS
  <1>0. LockInv' /\ LockTypeOK'
    <2>1. LockInv'
      BY BridgeStepIsLockStep, NextInv DEF BridgeInv
    <2> QED BY <2>1 DEF LockInv
  <1> DEFINE CallInv == /\ Ranges /\ WorkingHolds /\ TargetInScope /\ SessionIsCached
                        /\ AttachIsFirst /\ InFlightHasCaller /\ OneSessionPerPage
  <1> USE DEF BridgeInv
  <1>1. ASSUME NEW i \in Ticket, NEW t \in Tabs, Dispatch(i, t) PROVE CallInv'
    <2> USE <1>1 DEF Dispatch
    <2>1. PICK s \in {t, Browser} : \E joined : Reserve(i, s, joined)
      BY DEF AcquireTab, AcquireGlobal
    <2>2. /\ \A j \in Ticket : j # i => /\ phase'[j] = phase[j] /\ scope'[j] = scope[j]
                                        /\ target'[j] = target[j]
          /\ phase'[i] = "waiting" /\ scope'[i] = s /\ target'[i] = t
      BY <2>1 DEF Reserve, Ranges, LockTypeOK
    <2>3. phase[i] = "idle"
      BY <2>1, MaxTicketsIsNat DEF LockInv, IssuedInOrder, Issued, Reserve, Ranges, LockTypeOK, Ticket
    <2>4. step[i] \notin {"locked", "attaching", "sending"}
      BY <2>3 DEF WorkingHolds
    <2>5. Ranges' /\ WorkingHolds' /\ TargetInScope'
      BY <1>0, <2>1, <2>2, <2>4 DEF Ranges, WorkingHolds, TargetInScope, Issued, Scopes
    <2>6. SessionIsCached' /\ AttachIsFirst' /\ InFlightHasCaller' /\ OneSessionPerPage'
      BY <2>2, <2>4 DEF SessionIsCached, AttachIsFirst, InFlightHasCaller, OneSessionPerPage
    <2> QED BY <2>5, <2>6
  <1>2. ASSUME NEW i \in Ticket, AcquireTimesOut(i) \/ SlotSettles(i) PROVE CallInv'
    <2>1. /\ UNCHANGED <<callVars, scope>>
          /\ \A j \in Ticket : /\ phase'[j] = "held" <=> phase[j] = "held"
                               /\ phase'[j] = "idle" <=> phase[j] = "idle"
      BY <1>2 DEF AcquireTimesOut, SlotSettles, Timeout, Settle, Ranges, LockTypeOK
    <2> QED BY <2>1, <1>0 DEF callVars, Ranges, WorkingHolds, TargetInScope, Issued,
                  SessionIsCached, AttachIsFirst, InFlightHasCaller, OneSessionPerPage
  <1>3. ASSUME NEW i \in Ticket, Locked(i) PROVE CallInv'
    <2> USE <1>3 DEF Locked, Grant
    <2>1. /\ \A j \in Ticket : j # i => phase'[j] = phase[j] /\ step'[j] = step[j]
          /\ phase'[i] = "held" /\ step'[i] = "locked" /\ phase[i] = "waiting"
      BY DEF Ranges, LockTypeOK
    <2>2. step[i] # "sending"
      BY <2>1 DEF WorkingHolds
    <2>3. Ranges' /\ WorkingHolds' /\ TargetInScope'
      BY <1>0, <2>1 DEF Ranges, Steps, WorkingHolds, TargetInScope, Issued
    <2>4. SessionIsCached' /\ AttachIsFirst' /\ InFlightHasCaller' /\ OneSessionPerPage'
      BY <2>1, <2>2 DEF SessionIsCached, AttachIsFirst, InFlightHasCaller, OneSessionPerPage,
                        Ranges
    <2> QED BY <2>3, <2>4
  <1>4. ASSUME NEW i \in Ticket,
               NoPage(i) \/ AttachFails(i) \/ Answer(i) \/ BridgeTimesOut(i)
        PROVE  CallInv'
    <2>1. i \in inFlight' => i \in abandoned'
      BY <1>4 DEF NoPage, AttachFails, Answer, BridgeTimesOut, InFlightHasCaller
    <2>2. /\ Finally(i) /\ UNCHANGED <<openTabs, cached, sessions, target>>
          /\ inFlight' \in SUBSET inFlight /\ abandoned' \in SUBSET Ticket
          /\ abandoned \subseteq abandoned'
      BY <1>4 DEF NoPage, AttachFails, Answer, BridgeTimesOut, Ranges
    <2> QED BY <1>0, <2>1, <2>2, FinallyKeeps
  <1>5. ASSUME NEW i \in Ticket, SendOnCached(i) PROVE CallInv'
    <2> USE <1>5 DEF SendOnCached, lockVars
    <2>1. /\ \A j \in Ticket : j # i => step'[j] = step[j]
          /\ step'[i] = "sending" /\ step[i] = "locked"
      BY DEF Ranges
    <2>2. Ranges' /\ WorkingHolds' /\ TargetInScope'
      BY <1>0, <2>1 DEF Ranges, Steps, WorkingHolds, TargetInScope, Issued
    <2>3. SessionIsCached' /\ AttachIsFirst' /\ InFlightHasCaller' /\ OneSessionPerPage'
      BY <2>1 DEF SessionIsCached, AttachIsFirst, InFlightHasCaller, OneSessionPerPage, Ranges
    <2> QED BY <2>2, <2>3
  <1>6. ASSUME NEW i \in Ticket, Attach(i) PROVE CallInv'
    <2> USE <1>6 DEF Attach, lockVars
    <2>1. /\ \A j \in Ticket : j # i => step'[j] = step[j]
          /\ step'[i] = "attaching" /\ step[i] = "locked"
      BY DEF Ranges
    <2>2. Ranges' /\ WorkingHolds' /\ TargetInScope'
      BY <1>0, <2>1 DEF Ranges, Steps, WorkingHolds, TargetInScope, Issued
    <2>3. SessionIsCached' /\ AttachIsFirst' /\ InFlightHasCaller' /\ OneSessionPerPage'
      BY <2>1 DEF SessionIsCached, AttachIsFirst, InFlightHasCaller, OneSessionPerPage, Ranges
    <2> QED BY <2>2, <2>3
  <1>7. ASSUME NEW i \in Ticket, Attached(i) PROVE CallInv'
    <2> USE <1>7 DEF Attached, lockVars
    <2>1. /\ \A j \in Ticket : j # i => step'[j] = step[j]
          /\ step'[i] = "sending" /\ step[i] = "attaching" /\ phase[i] = "held"
      BY DEF Ranges, WorkingHolds
    <2>2. target[i] \in Tabs /\ sessions[target[i]] = 0
      BY <2>1 DEF TargetInScope, AttachIsFirst, Issued
    <2>3. /\ sessions'[target[i]] = 1
          /\ \A t \in Tabs : t # target[i] => sessions'[t] = sessions[t]
      BY <2>2 DEF Ranges
    <2>4. MaxTickets >= 1 /\ sessions' \in [Tabs -> 0 .. MaxTickets]
      BY <2>2, MaxTicketsIsNat DEF Ranges, Ticket
    <2>5. Ranges' /\ WorkingHolds' /\ TargetInScope'
      BY <1>0, <2>1, <2>2, <2>4 DEF Ranges, Steps, WorkingHolds, TargetInScope, Issued
    <2>6. SessionIsCached' /\ OneSessionPerPage' /\ InFlightHasCaller'
      BY <2>1, <2>2, <2>3 DEF SessionIsCached, OneSessionPerPage, InFlightHasCaller, Ranges
    <2>7. AttachIsFirst'
      <3> SUFFICES ASSUME NEW j \in Ticket, step'[j] = "attaching"
                   PROVE  sessions'[target[j]] = 0
        BY DEF AttachIsFirst
      <3>1. j # i /\ step[j] = "attaching" /\ phase[j] = "held"
        BY <2>1 DEF WorkingHolds
      <3>2. target[j] # target[i]
        BY <3>1, <2>1, OneWorkerPerPage
      <3>3. target[j] \in Tabs
        BY <3>1 DEF TargetInScope, Issued
      <3> QED BY <2>3, <3>1, <3>2, <3>3 DEF AttachIsFirst
    <2> QED BY <2>5, <2>6, <2>7
  <1>8. ASSUME NEW i \in Ticket, LateAnswer(i) PROVE CallInv'
    BY <1>8, <1>0 DEF LateAnswer, lockVars, Ranges, WorkingHolds, TargetInScope, Issued,
          SessionIsCached, AttachIsFirst, InFlightHasCaller, OneSessionPerPage
  <1>9. ASSUME NEW t \in Tabs, CloseTab(t) PROVE CallInv'
    BY <1>9, <1>0 DEF CloseTab, lockVars, Ranges, WorkingHolds, TargetInScope, Issued,
          SessionIsCached, AttachIsFirst, InFlightHasCaller, OneSessionPerPage
  <1>10. CASE UNCHANGED vars
    BY <1>10, <1>0 DEF vars, callVars, lockVars, Ranges, WorkingHolds, TargetInScope, Issued,
          SessionIsCached, AttachIsFirst, InFlightHasCaller, OneSessionPerPage
  <1> QED BY <1>0, <1>1, <1>2, <1>3, <1>4, <1>5, <1>6, <1>7, <1>8, <1>9, <1>10 DEF Next

\* The invariant of the bridge.
THEOREM BridgeInvariance == Spec => []BridgeInv
  <1> QED BY BridgeInit, BridgeStep, PTL DEF Spec

\* The variables keep their ranges, and a call holds its lock while it works.
THEOREM BridgeTypes == Spec => []TypeOK
  <1>1. BridgeInv => TypeOK
    BY DEF BridgeInv, TypeOK
  <1> QED BY <1>1, BridgeInvariance, PTL

\* Under the lock, the check of sessionCache and its write are atomic for a
\* page: no page ever gets a second CDP session.
THEOREM SingleSession == Spec => []OneSessionPerPage
  <1>1. BridgeInv => OneSessionPerPage
    BY DEF BridgeInv
  <1> QED BY <1>1, BridgeInvariance, PTL

\* Conflicting commands overlap in the browser only behind a CDPBridgeTimeout.
THEOREM Overlap == Spec => []OverlapIsAbandoned
  <1>1. BridgeInv => OverlapIsAbandoned
    <2> SUFFICES ASSUME BridgeInv, NEW i \in inFlight, NEW j \in inFlight, i # j,
                        Conflict(scope[i], scope[j]), i \notin abandoned, j \notin abandoned
                 PROVE  FALSE
      BY DEF OverlapIsAbandoned
    <2>1. i \in Ticket /\ j \in Ticket
      BY DEF BridgeInv, Ranges
    <2>2. phase[i] = "held" /\ phase[j] = "held"
      BY <2>1 DEF BridgeInv, InFlightHasCaller, WorkingHolds
    <2>3. MutualExclusion
      BY InvExcludes DEF BridgeInv
    <2> QED BY <2>1, <2>2, <2>3 DEF MutualExclusion
  <1> QED BY <1>1, BridgeInvariance, PTL
=============================================================================
