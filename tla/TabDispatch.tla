---------------------------- MODULE TabDispatch ----------------------------
(***************************************************************************)
(* The tabs of browser-manager.ts and the dispatch of commands to them in  *)
(* handleCommandInternalImpl of server.ts.                                 *)
(*                                                                         *)
(* A command runs without interruption up to its first await: it pins the  *)
(* tab it names, checks ownership, and takes the session of the active     *)
(* tab.  Then other commands and page events run before it resumes, closes *)
(* its bookkeeping and restores the tab that was active before the pin.    *)
(* The browser is outside: a page closes when asked to or when the user    *)
(* closes it, and its close event and the resolution of page.close() are   *)
(* delivered in either order.                                              *)
(***************************************************************************)
EXTENDS Naturals, FiniteSets, FiniteSetsExt

CONSTANTS Requests,     \* commands that can be under way at a time
          Root,         \* the root token
          OwnOnly,      \* scoped clients bound to their own tabs
          Shared,       \* scoped clients that may drive any tab
          MaxTabs,      \* bound: tabs opened in a behaviour
          MaxCommands   \* bound: commands dispatched in a behaviour

ASSUME TabBounds == MaxTabs \in Nat \ {0} /\ MaxCommands \in Nat
ASSUME RootIsNotScoped == Root \notin OwnOnly \cup Shared

VARIABLES pages,        \* keys of pages and of tabSessions
          active,       \* activeTabId; 0 is no tab
          owner,        \* tabOwnership; Root stands for no entry
          nextTab,      \* nextTabId
          alive,        \* pages that exist in the browser
          closeEvents,  \* pages whose close event is still to be delivered
          cmd,          \* the command that each request is running
          dispatched,   \* number of commands so far
          home          \* history: the active tab when the commands under way
                        \* began; 0 once a tab was opened, closed or chosen

tabVars == <<pages, active, owner, nextTab, alive, closeEvents>>
vars == <<tabVars, cmd, dispatched, home>>

Tab == 1 .. MaxTabs
TabOrNone == {0} \cup Tab
Client == OwnOnly \cup Shared \cup {Root}

\* A command: what it awaits, its client, the tab it names, savedTabId (0 is
\* null), and the tab whose session it took or that it closes.
Command == [at : {"idle", "handler", "newPage", "goto", "close", "replacement"},
            who : Client, target : TabOrNone, saved : TabOrNone, session : TabOrNone]
Idle == [at |-> "idle", who |-> Root, target |-> 0, saved |-> 0, session |-> 0]

AllIdle == \A r \in Requests : cmd[r] = Idle

\* launch() opens the first tab.
Init == /\ pages = {1}
        /\ active = 1
        /\ owner = [t \in Tab |-> Root]
        /\ nextTab = 2
        /\ alive = {1}
        /\ closeEvents = {}
        /\ cmd = [r \in Requests |-> Idle]
        /\ dispatched = 0
        /\ home = 1

\* switchTab throws on an unknown tab, which its callers swallow: the active tab
\* after a pin, as the ownership check and the session see it.
Pinned(t) == IF t \in pages THEN t ELSE active

\* checkTabAccess, for the tab that the command names or else the active one.
MayAccess(w, t) ==
  w \in OwnOnly => LET x == IF t = 0 THEN active ELSE t IN x # 0 /\ owner[x] = w

\* The last of the remaining tabs, by id, or none: where activeTabId falls back to.
LastOf(ps) == IF ps = {} THEN 0 ELSE Max(ps)

\* A command of client w arrives and pins tab t, if it names one (t # 0).
Arrive(r, t) ==
  /\ cmd[r] = Idle
  /\ dispatched < MaxCommands
  /\ dispatched' = dispatched + 1
  /\ active' = Pinned(t)
  /\ UNCHANGED <<pages, owner, nextTab, alive, closeEvents>>

\* It goes on to an await.
Await(r, at, w, t, x) ==
  cmd' = [cmd EXCEPT ![r] = [at |-> at, who |-> w, target |-> t,
                             saved |-> IF t = 0 THEN 0 ELSE active, session |-> x]]

Steered == home' = 0
NotSteered == home' = IF AllIdle THEN active ELSE home

\* Early returns keep the pin: a tab of someone else (403); a write while
\* watching (400); help and unknown commands.
RefusedOwnership(r, w, t) ==
  /\ Arrive(r, t)
  /\ ~MayAccess(w, t)
  /\ Steered
  /\ UNCHANGED cmd

EarlyReturn(r, w, t) ==
  /\ Arrive(r, t)
  /\ MayAccess(w, t)
  /\ Steered
  /\ UNCHANGED cmd

\* getActiveSession throws: no tab is active, and there is nothing to restore.
NoSession(r, w, t) ==
  /\ Arrive(r, t)
  /\ MayAccess(w, t)
  /\ Pinned(t) \notin pages
  /\ NotSteered
  /\ UNCHANGED cmd

\* A read or a write goes to the session of the tab that is active now.
Handle(r, w, t) ==
  /\ Arrive(r, t)
  /\ MayAccess(w, t)
  /\ Pinned(t) \in pages
  /\ NotSteered
  /\ Await(r, "handler", w, t, Pinned(t))

\* newtab: scoped clients skip the ownership check and need no session.
OpenTab(r, w, t) ==
  /\ Arrive(r, t)
  /\ w = Root => Pinned(t) \in pages
  /\ Steered
  /\ Await(r, "newPage", w, t, 0)

\* closetab [x]: the page is asked to close.
CloseTab(r, w, t, x) ==
  /\ Arrive(r, t)
  /\ MayAccess(w, t)
  /\ Pinned(t) \in pages
  /\ x \in pages
  /\ Steered
  /\ Await(r, "close", w, t, x)

\* tab x: the user chooses another tab; a pin is undone as for any command.
ChooseTab(r, w, t, x) ==
  /\ cmd[r] = Idle
  /\ dispatched < MaxCommands
  /\ MayAccess(w, t)
  /\ Pinned(t) \in pages
  /\ dispatched' = dispatched + 1
  /\ active' = IF t # 0 /\ active \in pages THEN active
               ELSE IF x \in pages THEN x ELSE Pinned(t)
  /\ Steered
  /\ UNCHANGED <<pages, owner, nextTab, alive, closeEvents, cmd>>

\* The end of a command that was not answered early, with tabs ps open and a
\* active: activeTabId is set back to savedTabId.
Restore(r, ps, a) ==
  /\ cmd' = [cmd EXCEPT ![r] = Idle]
  /\ active' = IF cmd[r].saved \in ps THEN cmd[r].saved ELSE a
  /\ UNCHANGED dispatched

HandlerEnds(r) ==
  /\ cmd[r].at = "handler"
  /\ Restore(r, pages, active)
  /\ UNCHANGED <<pages, owner, nextTab, alive, closeEvents, home>>

\* The content filter blocks what a scoped client read: one more early return.
FilterBlocks(r) ==
  /\ cmd[r].at = "handler"
  /\ cmd[r].who # Root
  /\ cmd' = [cmd EXCEPT ![r] = Idle]
  /\ Steered
  /\ UNCHANGED <<tabVars, dispatched>>

\* nextTabId++.
FreshId == nextTab

\* newTab: the browser has made a page; it is registered and made active.
PageMade(r) ==
  /\ cmd[r].at = "newPage"
  /\ nextTab <= MaxTabs
  /\ nextTab' = nextTab + 1
  /\ pages' = pages \cup {FreshId}
  /\ alive' = alive \cup {FreshId}
  /\ active' = FreshId
  /\ owner' = [owner EXCEPT ![FreshId] = cmd[r].who]
  /\ cmd' = [cmd EXCEPT ![r].at = "goto"]
  /\ UNCHANGED <<closeEvents, dispatched, home>>

\* newTab ends, or fails before there is a page or in its navigation.  The
\* answer to a scoped client is an early return.
NewTabEnds(r) ==
  /\ cmd[r].at \in {"newPage", "goto"}
  /\ IF cmd[r].who = Root
       THEN Restore(r, pages, active)
       ELSE cmd' = [cmd EXCEPT ![r] = Idle] /\ UNCHANGED <<active, dispatched>>
  /\ UNCHANGED <<pages, owner, nextTab, alive, closeEvents, home>>

\* The browser closes a page: a closetab asked for it, or the user did it.
PageCloses(t) ==
  /\ t \in alive
  /\ alive' = alive \ {t}
  /\ closeEvents' = closeEvents \cup {t}
  /\ UNCHANGED <<pages, active, owner, nextTab, cmd, dispatched, home>>

\* Mutant: the close handler leaves activeTabId alone.
MutCloseEvent(t) ==
  /\ t \in closeEvents
  /\ closeEvents' = closeEvents \ {t}
  /\ pages' = pages \ {t}
  /\ Steered
  /\ UNCHANGED <<active, owner, nextTab, alive, cmd, dispatched>>

\* The handler of the page's close event (wirePageEvents).
CloseEvent(t) ==
  /\ t \in closeEvents
  /\ closeEvents' = closeEvents \ {t}
  /\ pages' = pages \ {t}
  /\ active' = IF t \in pages /\ active = t THEN LastOf(pages') ELSE active
  /\ Steered
  /\ UNCHANGED <<owner, nextTab, alive, cmd, dispatched>>

\* page.close() resolved and closeTab goes on; the tab may be gone already.
CloseResolves(r) ==
  LET x == cmd[r].session
      rest == pages \ {x}
  IN /\ cmd[r].at = "close"
     /\ x \notin alive
     /\ pages' = rest
     /\ owner' = [owner EXCEPT ![x] = Root]
     /\ IF x = active /\ rest = {}
          THEN /\ cmd' = [cmd EXCEPT ![r].at = "replacement"]
               /\ UNCHANGED <<active, dispatched>>
          ELSE Restore(r, rest, IF x = active THEN LastOf(rest) ELSE active)
     /\ UNCHANGED <<nextTab, alive, closeEvents, home>>

\* "No tabs left -- create a new blank one."
Replaced(r) ==
  /\ cmd[r].at = "replacement"
  /\ nextTab <= MaxTabs
  /\ nextTab' = nextTab + 1
  /\ pages' = pages \cup {FreshId}
  /\ alive' = alive \cup {FreshId}
  /\ Restore(r, pages', FreshId)
  /\ UNCHANGED <<owner, closeEvents, home>>

Next == \/ \E r \in Requests, w \in Client, t \in TabOrNone :
             \/ RefusedOwnership(r, w, t) \/ EarlyReturn(r, w, t)
             \/ NoSession(r, w, t) \/ Handle(r, w, t) \/ OpenTab(r, w, t)
             \/ \E x \in Tab : CloseTab(r, w, t, x) \/ ChooseTab(r, w, t, x)
        \/ \E r \in Requests : \/ HandlerEnds(r) \/ FilterBlocks(r) \/ PageMade(r)
                               \/ NewTabEnds(r) \/ CloseResolves(r) \/ Replaced(r)
        \/ \E t \in Tab : PageCloses(t) \/ CloseEvent(t)

Spec == Init /\ [][Next]_vars

-----------------------------------------------------------------------------
(* Properties *)

\* The variables have their types; a command at work has a tab.
TypeOK ==
  /\ pages \subseteq Tab /\ alive \subseteq Tab /\ closeEvents \subseteq Tab
  /\ active \in TabOrNone
  /\ owner \in [Tab -> Client]
  /\ nextTab \in 1 .. MaxTabs + 1
  /\ cmd \in [Requests -> Command]
  /\ dispatched \in 0 .. MaxCommands
  /\ home \in TabOrNone
  /\ \A r \in Requests : cmd[r].at \in {"handler", "close"} => cmd[r].session # 0

\* While a tab is open, the active tab is an open one, whatever closes and
\* restores cross: getActiveSession throws only if there is no tab at all.
ActiveIsOpen == pages # {} => active \in pages

\* A tab id names one tab for ever.  A closed tab does not come back under its
\* id, and an ownership entry goes to nobody else, so a client that keeps the
\* id of a closed tab can never drive the tab of someone else by it.
KeepsIds ==
  \A t \in Tab : /\ t < nextTab /\ t \notin pages => t \notin pages'
                 /\ t < nextTab => owner'[t] \in {owner[t], Root}
IdsAreNotReused == [][KeepsIds]_vars

\* Pins leave no trace: when the commands under way are done, and none of them
\* opened, closed or chose a tab, the active tab is the one it was before them.
PinsAreUndone == AllIdle /\ home # 0 => active = home
=============================================================================
