----------------------------- MODULE CdpBridge -----------------------------
(***************************************************************************)
(* dispatchCdpCall of cdp-bridge.ts over the mutex of browser-manager.ts.  *)
(* A call takes the lock of its method's tier, looks up the tab's page,    *)
(* attaches a CDP session to the page unless one is cached, sends the      *)
(* command, races the answer against a timer, and releases the lock in its *)
(* `finally`.  Tabs close at any moment, and the browser goes on executing *)
(* a command whose caller has stopped waiting for it.                      *)
(***************************************************************************)
EXTENDS CdpMutex

VARIABLES openTabs,     \* BrowserManager.pages: the tabs that have a page
          cached,       \* sessionCache: tabs whose page has a cached CDPSession
          sessions,     \* CDPSessions made for each tab's page
          target,       \* tab id of each call (input.tabId); Browser before the call
          step,         \* where the call stands once it holds the lock
          inFlight,     \* commands the browser has not answered
          abandoned     \* calls that ended in CDPBridgeTimeout

callVars == <<openTabs, cached, sessions, target, step, inFlight, abandoned>>
vars == <<lockVars, callVars>>

Steps == {"none", "locked", "attaching", "sending", "over"}

Init == /\ LockInit
        /\ openTabs = Tabs
        /\ cached = {}
        /\ sessions = [t \in Tabs |-> 0]
        /\ target = [i \in Ticket |-> Browser]
        /\ step = [i \in Ticket |-> "none"]
        /\ inFlight = {}
        /\ abandoned = {}

\* An allow-listed call asks for the lock of its tier.  Denied methods throw
\* before they touch anything.
Dispatch(i, t) ==
  /\ AcquireTab(i, t) \/ AcquireGlobal(i)
  /\ target' = [target EXCEPT ![i] = t]
  /\ UNCHANGED <<openTabs, cached, sessions, step, inFlight, abandoned>>

AcquireTimesOut(i) == Timeout(i) /\ UNCHANGED callVars

SlotSettles(i) == Settle(i) /\ UNCHANGED callVars

Locked(i) ==
  /\ Grant(i)
  /\ step' = [step EXCEPT ![i] = "locked"]
  /\ UNCHANGED <<openTabs, cached, sessions, target, inFlight, abandoned>>

\* The `finally` of dispatchCdpCall.
Finally(i) ==
  /\ Release(i)
  /\ step' = [step EXCEPT ![i] = "over"]

\* The tab was closed while the call waited for the lock.
NoPage(i) ==
  /\ step[i] = "locked"
  /\ target[i] \notin openTabs
  /\ Finally(i)
  /\ UNCHANGED <<openTabs, cached, sessions, target, inFlight, abandoned>>

\* getCdpSession finds the page's session: the command is sent.
SendOnCached(i) ==
  /\ step[i] = "locked"
  /\ target[i] \in openTabs \cap cached
  /\ step' = [step EXCEPT ![i] = "sending"]
  /\ inFlight' = inFlight \cup {i}
  /\ UNCHANGED <<lockVars, openTabs, cached, sessions, target, abandoned>>

\* getCdpSession awaits newCDPSession, which nothing bounds in time.
Attach(i) ==
  /\ step[i] = "locked"
  /\ target[i] \in openTabs \ cached
  /\ step' = [step EXCEPT ![i] = "attaching"]
  /\ UNCHANGED <<lockVars, openTabs, cached, sessions, target, inFlight, abandoned>>

Attached(i) ==
  /\ step[i] = "attaching"
  /\ cached' = cached \cup {target[i]}
  /\ sessions' = [sessions EXCEPT ![target[i]] = @ + 1]
  /\ step' = [step EXCEPT ![i] = "sending"]
  /\ inFlight' = inFlight \cup {i}
  /\ UNCHANGED <<lockVars, openTabs, target, abandoned>>

\* CDPSessionInvalidated.
AttachFails(i) ==
  /\ step[i] = "attaching"
  /\ Finally(i)
  /\ UNCHANGED <<openTabs, cached, sessions, target, inFlight, abandoned>>

\* The browser answers, or refuses, in time.
Answer(i) ==
  /\ step[i] = "sending"
  /\ inFlight' = inFlight \ {i}
  /\ Finally(i)
  /\ UNCHANGED <<openTabs, cached, sessions, target, abandoned>>

\* CDPBridgeTimeout: the caller stops waiting, the browser does not stop working.
BridgeTimesOut(i) ==
  /\ step[i] = "sending"
  /\ abandoned' = abandoned \cup {i}
  /\ Finally(i)
  /\ UNCHANGED <<openTabs, cached, sessions, target, inFlight>>

LateAnswer(i) ==
  /\ i \in inFlight \cap abandoned
  /\ inFlight' = inFlight \ {i}
  /\ UNCHANGED <<lockVars, openTabs, cached, sessions, target, step, abandoned>>

\* A page closes: its session leaves the cache.  Tab ids are not used again.
CloseTab(t) ==
  /\ t \in openTabs
  /\ openTabs' = openTabs \ {t}
  /\ cached' = cached \ {t}
  /\ UNCHANGED <<lockVars, sessions, target, step, inFlight, abandoned>>

Next == \/ \E i \in Ticket : \/ \E t \in Tabs : Dispatch(i, t)
                             \/ AcquireTimesOut(i) \/ SlotSettles(i) \/ Locked(i)
                             \/ NoPage(i) \/ SendOnCached(i)
                             \/ Attach(i) \/ Attached(i) \/ AttachFails(i)
                             \/ Answer(i) \/ BridgeTimesOut(i) \/ LateAnswer(i)
        \/ \E t \in Tabs : CloseTab(t)

Spec == Init /\ [][Next]_vars

(***************************************************************************)
(* The event loop runs its microtasks and its timers, and a call that has  *)
(* the lock goes on.  The browser need not answer: Answer, Attached and    *)
(* AttachFails carry no fairness here.                                     *)
(***************************************************************************)
TimersSpec ==
  /\ Spec
  /\ \A i \in Ticket : /\ WF_vars(SlotSettles(i))
                       /\ WF_vars(Locked(i))
                       /\ WF_vars(AcquireTimesOut(i))
                       /\ WF_vars(NoPage(i) \/ SendOnCached(i) \/ Attach(i))
                       /\ WF_vars(BridgeTimesOut(i))

-----------------------------------------------------------------------------

Ranges == /\ LockTypeOK
          /\ openTabs \subseteq Tabs
          /\ cached \subseteq Tabs
          /\ sessions \in [Tabs -> 0 .. MaxTickets]
          /\ target \in [Ticket -> Scopes]
          /\ step \in [Ticket -> Steps]
          /\ inFlight \subseteq Ticket
          /\ abandoned \subseteq Ticket

\* A call works on its page exactly while it holds the lock.
WorkingHolds ==
  \A i \in Ticket : (step[i] \in {"locked", "attaching", "sending"}) <=> phase[i] = "held"

\* The ranges of the variables; the lock is held exactly while a call is at work.
TypeOK == Ranges /\ WorkingHolds

\* getCdpSession reads the cache, awaits and writes it: without the lock two
\* calls would each attach a session to the page, and one would leak.
OneSessionPerPage == \A t \in Tabs : sessions[t] <= 1

\* The lock orders the commands in the browser only as far as the bridge
\* waits: two conflicting commands are in flight together only if one of
\* them was abandoned by CDPBridgeTimeout.
OverlapIsAbandoned ==
  \A i, j \in inFlight :
    i = j \/ ~Conflict(scope[i], scope[j]) \/ {i, j} \cap abandoned # {}

\* "No silent hangs": who waits for the lock gets it or an error, also when
\* the browser never answers the holder.
WaitersAnswered == \A i \in Ticket : phase[i] = "waiting" ~> phase[i] # "waiting"

\* Nothing bounds newCDPSession in time: that it settles is an assumption.
AttachSettles == \A i \in Ticket : []<>(step[i] # "attaching")

\* Every call ends and gives its slot back, also when it timed out in the queue
\* ("release the slot we reserved so we don't deadlock the queue").
EveryCallEnds == AttachSettles => \A i \in Ticket : Issued(i) ~> i \in settled
=============================================================================
