----------------------------- MODULE ContextSwap -----------------------------
(* How BrowserManager replaces the browser context under its tabs:           *)
(* recreateContext (user agent, device scale with its rollback), handoff to  *)
(* a headed browser, `state load`, and the tabs that agents open and users   *)
(* close meanwhile.  Each of these is an async method; an action is the code *)
(* between two of its awaits, so any two of them interleave.                 *)
(* A tab and its page share a number (nextTabId is never reset here).        *)
EXTENDS Naturals, Sequences, FiniteSets, FiniteSetsExt, SequencesExt

CONSTANTS Calls,        \* calls of the manager that may be under way at once
          Agents,       \* scoped clients, which own the tabs they open
          Nobody,       \* root: opens tabs without an owner
          MaxTabs,      \* bound: pages ever made
          MaxContexts,  \* bound: contexts ever made
          MaxEvents     \* bound: swaps called and pages closed by users

ASSUME SwapAssumption ==
  /\ Nobody \notin Agents
  /\ MaxTabs \in Nat \ {0} /\ MaxContexts \in Nat \ {0} /\ MaxEvents \in Nat

VARIABLES
  context,      \* this.context
  contexts,     \* contexts made so far
  openContexts, \* those the browsers still have open
  tabs,         \* keys of this.pages and this.tabSessions
  made,         \* nextTabId - 1
  pageContext,  \* page -> the context it was made in
  active,       \* activeTabId
  tabOwner,     \* tabOwnership
  openedFor,    \* history: page -> the client for whom its first ancestor was opened
  scale,        \* deviceScaleFactor
  scaleOf,      \* context -> the scale it was made with, 0 for the headed one
  headed,       \* connectionMode = 'headed'
  isHeaded,     \* isHeaded
  exited,       \* a disconnect handler has called process.exit
  swap,         \* call -> what it is doing
  events,       \* swaps called and pages closed by users so far
  overlap,      \* history: calls overlapped with a swap
  outcome       \* history: worst end of a swap: "ok", "blank", "none", "handoff"

managerVars == <<context, tabs, made, active, tabOwner, scale, headed, isHeaded>>
browserVars == <<contexts, openContexts, pageContext, scaleOf, exited>>
swapVars == <<managerVars, browserVars, openedFor, swap, events, overlap, outcome>>

Scales == 1..2
Swapping == {"recreate", "rescale", "rollback", "handoff", "load"}
Idle == [kind |-> "idle", at |-> "idle", cur |-> 0, saved |-> <<>>, ctx |-> 0,
         activeId |-> 0, prev |-> 1, for |-> Nobody, mine |-> 0]
Saved == [owner : Agents \cup {Nobody}, isActive : BOOLEAN, for : Agents \cup {Nobody}]

SwapTypeOK ==
  /\ context \in 1..contexts /\ contexts \in 1..MaxContexts
  /\ openContexts \subseteq 1..contexts
  /\ made \in 0..MaxTabs /\ tabs \subseteq 1..made /\ active \in 0..made
  /\ pageContext \in [1..made -> 1..contexts]
  /\ openedFor \in [1..made -> Agents \cup {Nobody}]
  /\ DOMAIN tabOwner \subseteq 1..made
  /\ \A id \in DOMAIN tabOwner : tabOwner[id] \in Agents
  /\ scale \in Scales /\ scaleOf \in [1..contexts -> Scales \cup {0}]
  /\ headed \in BOOLEAN /\ isHeaded \in BOOLEAN /\ exited \in BOOLEAN
  /\ events \in 0..MaxEvents /\ overlap \in BOOLEAN
  /\ outcome \in {"ok", "blank", "none", "handoff"}
  /\ \A p \in Calls :
       /\ swap[p].kind \in Swapping \cup {"idle", "newtab"}
       /\ swap[p].cur \in 0..made /\ swap[p].ctx \in 0..contexts
       /\ swap[p].activeId \in 0..made /\ swap[p].prev \in Scales
       /\ swap[p].saved \in Seq(Saved) /\ swap[p].for \in Agents \cup {Nobody}
       /\ swap[p].mine \in 0..contexts

SwapInit ==
  /\ context = 1 /\ contexts = 1 /\ openContexts = {1}
  /\ tabs = {1} /\ made = 1 /\ pageContext = <<1>> /\ active = 1
  /\ tabOwner = <<>> /\ openedFor = <<Nobody>>
  /\ scale = 1 /\ scaleOf = <<1>>
  /\ headed = FALSE /\ isHeaded = FALSE /\ exited = FALSE
  /\ swap = [p \in Calls |-> Idle] /\ events = 0
  /\ overlap = FALSE /\ outcome = "ok"

-----------------------------------------------------------------------------
(* What the steps are made of.                                               *)

Go(p, at) == swap' = [swap EXCEPT ![p].at = at]
Ends(p) == swap' = [swap EXCEPT ![p] = Idle]

\* The active tab after the close events of the pages in gone: the last one left.
FallsTo(gone) ==
  IF active \notin tabs \cap gone THEN active
  ELSE IF tabs \subseteq gone THEN 0 ELSE Max(tabs \ gone)

PagesOf(c) == {id \in 1..made : pageContext[id] = c}

\* The tab that the iteration over this.pages comes to after cur, 0 at its end.
After(cur) == LET later == {id \in tabs : id > cur}
              IN IF later = {} THEN 0 ELSE Min(later)

\* newPage() resolves in context c for client o; lineage f is history.
AddPage(c, o, f) ==
  /\ made < MaxTabs
  /\ made' = made + 1
  /\ tabs' = tabs \cup {made + 1}
  /\ pageContext' = Append(pageContext, c)
  /\ openedFor' = Append(openedFor, f)
  /\ tabOwner' = IF o = Nobody THEN tabOwner
                 ELSE [id \in DOMAIN tabOwner \cup {made + 1} |->
                         IF id = made + 1 THEN o ELSE tabOwner[id]]

\* browser.newContext() or launchPersistentContext() resolves.
AddContext(s) ==
  /\ contexts < MaxContexts
  /\ contexts' = contexts + 1
  /\ context' = contexts + 1
  /\ openContexts' = openContexts \cup {contexts + 1}
  /\ scaleOf' = Append(scaleOf, s)

\* Where a throw in saveState, newContext or restoreState takes the call: the
\* fallback of recreateContext, the catch of handoff, or out of `state load`.
Throws(p) ==
  CASE swap[p].kind = "handoff" ->
         /\ swap' = [swap EXCEPT ![p] = [Idle EXCEPT !.kind = "handoff", !.at = "closeHeaded",
                                                     !.mine = swap[p].mine]]
         /\ outcome' = "handoff"
         /\ UNCHANGED tabs
    [] swap[p].kind = "load" ->
         /\ Ends(p)
         /\ outcome' = "none"
         /\ UNCHANGED tabs
    [] OTHER ->
         /\ tabs' = {}
         /\ swap' = [swap EXCEPT ![p] = [Idle EXCEPT !.kind = swap[p].kind, !.at = "fallback",
                                                     !.ctx = context, !.prev = swap[p].prev]]
         /\ UNCHANGED outcome

-----------------------------------------------------------------------------
(* The calls.                                                                *)

Busy == \E p \in Calls : swap[p].kind # "idle"
SwapUnderWay == \E p \in Calls : swap[p].kind \in Swapping

StartSwap(p, kind) ==
  /\ ~exited /\ swap[p].kind = "idle" /\ events < MaxEvents
  /\ events' = events + 1
  /\ overlap' = (overlap \/ Busy)
  /\ swap' = [swap EXCEPT ![p] = [Idle EXCEPT !.kind = kind, !.at = "save", !.ctx = context,
                                              !.prev = IF kind = "rescale" THEN scale ELSE 1]]
  /\ UNCHANGED <<context, tabs, made, active, tabOwner, headed, isHeaded,
                 browserVars, openedFor, outcome>>

\* `useragent`: recreateContext refuses in headed mode.
Recreate(p) == ~headed /\ StartSwap(p, "recreate") /\ UNCHANGED scale

\* `viewport --scale`: the new scale is stored before the context is recreated.
Rescale(p) ==
  /\ ~headed
  /\ StartSwap(p, "rescale")
  /\ scale' = 3 - scale

Handoff(p) == ~headed /\ ~isHeaded /\ StartSwap(p, "handoff") /\ UNCHANGED scale

\* `state load`: the file names up to two pages; it closes the open ones first.
LoadState(p) ==
  /\ active \in tabs        \* bm.setFrame needs the session of the active tab
  /\ swap[p].kind = "idle" /\ ~exited /\ events < MaxEvents
  /\ events' = events + 1
  /\ overlap' = (overlap \/ Busy)
  /\ \E n \in 0..2 :
       swap' = [swap EXCEPT ![p] =
         [Idle EXCEPT !.kind = "load", !.at = "closePages", !.cur = After(0),
            !.saved = [i \in 1..n |-> [owner |-> Nobody, isActive |-> i = n, for |-> Nobody]]]]
  /\ UNCHANGED <<managerVars, browserVars, openedFor, outcome>>

\* Mutant: saveState leaves the owners out.
MutSavedOwner(id) == Nobody

\* tabOwnership.get(id), which the old tab's id is looked up with.
SavedOwner(id) == IF id \in DOMAIN tabOwner THEN tabOwner[id] ELSE Nobody

\* saveState: cookies(), then one evaluate() per tab; url and owner are read
\* around it, and a page that is gone is saved all the same.
SaveTab(p) ==
  /\ swap[p].at = "save"
  /\ IF swap[p].ctx # 0 /\ swap[p].ctx \notin openContexts
     THEN IF swap[p].kind = "handoff"
          THEN Ends(p) /\ UNCHANGED <<tabs, outcome>>
          ELSE Throws(p)
     ELSE LET cur == swap[p].cur
              saved == IF cur = 0 THEN <<>>
                       ELSE Append(swap[p].saved,
                              [owner |-> SavedOwner(cur), isActive |-> cur = active, for |-> openedFor[cur]])
              next == After(cur)
              to == IF swap[p].kind = "handoff" THEN "launch" ELSE "closePages"
          IN /\ swap' = [swap EXCEPT ![p].saved = saved, ![p].ctx = 0,
                 ![p].cur = IF next # 0 THEN next ELSE After(0),
                 ![p].at = IF next # 0 THEN "save" ELSE to]
             /\ UNCHANGED <<tabs, outcome>>
  /\ UNCHANGED <<context, made, active, tabOwner, scale, headed, isHeaded,
                 browserVars, openedFor, events, overlap>>

\* The loop that closes the old pages, one await each; then the maps are cleared.
ClosePage(p) ==
  /\ swap[p].at = "closePages"
  /\ LET cur == swap[p].cur
         next == IF cur = 0 THEN 0 ELSE After(cur)
         to == IF swap[p].kind = "load" THEN "cookies" ELSE "closeContext"
     IN /\ active' = FallsTo({cur})
        /\ tabs' = IF next # 0 THEN tabs \ {cur} ELSE {}
        /\ swap' = [swap EXCEPT ![p].cur = next,
                                ![p].ctx = IF next # 0 THEN 0 ELSE context,
                                ![p].at = IF next # 0 THEN "closePages" ELSE to]
  /\ UNCHANGED <<context, made, tabOwner, scale, headed, isHeaded,
                 browserVars, openedFor, events, overlap, outcome>>

\* context.close() resolves, of the context it was called on.  Its pages die with
\* it; closing a headed context ends its browser, whose disconnect handler exits.
CloseContext(p) ==
  /\ swap[p].at \in {"closeContext", "fallback"}
  /\ openContexts' = openContexts \ {swap[p].ctx}
  /\ active' = FallsTo(PagesOf(swap[p].ctx))
  /\ tabs' = tabs \ PagesOf(swap[p].ctx)
  /\ exited' = (scaleOf[swap[p].ctx] = 0)
  /\ swap' = [swap EXCEPT ![p].ctx = 0,
                 ![p].at = IF swap[p].at = "fallback" THEN "blankContext" ELSE "newContext"]
  /\ UNCHANGED <<context, made, tabOwner, scale, headed, isHeaded, contexts,
                 pageContext, scaleOf, openedFor, events, overlap, outcome>>

\* browser.newContext() of recreateContext: the new settings are those of now.
NewContext(p) ==
  /\ swap[p].at = "newContext"
  /\ \/ AddContext(scale) /\ Go(p, "cookies") /\ UNCHANGED <<tabs, outcome>>
     \/ Throws(p) /\ UNCHANGED <<context, contexts, openContexts, scaleOf>>
  /\ UNCHANGED <<made, active, tabOwner, scale, headed, isHeaded, pageContext,
                 exited, openedFor, events, overlap>>

\* launchPersistentContext() of handoff.  A failure, or another headed browser
\* on the same profile, leaves everything as it was; success swaps at once.
Launch(p) ==
  /\ swap[p].at = "launch"
  /\ \/ Ends(p)
        /\ UNCHANGED <<context, tabs, headed, contexts, openContexts, scaleOf>>
     \/ /\ ~headed
        /\ AddContext(0)
        /\ tabs' = {}
        /\ headed' = TRUE
        /\ swap' = [swap EXCEPT ![p].at = "cookies", ![p].cur = 0, ![p].mine = contexts + 1]
  /\ UNCHANGED <<made, active, tabOwner, scale, isHeaded, pageContext, exited,
                 openedFor, events, overlap, outcome>>

\* addCookies throws, or setExtraHTTPHeaders before it: handoff has not registered
\* its disconnect handler then.
RestoreFails(p) ==
  /\ swap[p].at = "cookies"
  /\ \/ Throws(p)
     \/ /\ swap[p].kind = "handoff"
        /\ Go(p, "closeUnwired")
        /\ outcome' = "handoff"
        /\ UNCHANGED tabs
  /\ UNCHANGED <<context, made, active, tabOwner, scale, headed, isHeaded,
                 browserVars, openedFor, events, overlap>>

\* The end of a call: handoff lets go of the old browser, which dies with its contexts.
Succeeds(p) ==
  /\ Ends(p)
  /\ IF swap[p].kind = "handoff"
     THEN LET old == {c \in openContexts : c < swap[p].mine}
          IN /\ isHeaded' = TRUE
             /\ openContexts' = openContexts \ old
     ELSE UNCHANGED <<isHeaded, openContexts>>
  /\ UNCHANGED outcome

\* restoreState at its loop over the saved pages: the next newPage(), or, after the
\* last, a blank tab if none is open, else the saved active tab or the first.
\* clearRefs throws if that one is gone again.
NextPage(p, saved, activeId) ==
  LET chosen == IF activeId # 0 THEN activeId ELSE Min(tabs) IN
  IF saved # <<>> \/ tabs = {}
  THEN /\ swap' = [swap EXCEPT ![p].at = IF saved # <<>> THEN "newPage" ELSE "blankTab",
                     ![p].saved = saved, ![p].activeId = IF saved # <<>> THEN activeId ELSE 0,
                     ![p].cur = 0, ![p].ctx = context]
       /\ UNCHANGED <<tabs, active, outcome, isHeaded, openContexts>>
  ELSE /\ active' = chosen
       /\ IF chosen \in tabs THEN Succeeds(p) /\ UNCHANGED tabs
          ELSE Throws(p) /\ UNCHANGED <<isHeaded, openContexts>>

\* addCookies resolves: the ownership of the old tabs is forgotten.
RestoreCookies(p) ==
  /\ swap[p].at = "cookies"
  /\ tabOwner' = <<>>
  /\ NextPage(p, swap[p].saved, 0)
  /\ UNCHANGED <<context, made, scale, headed, contexts, pageContext, scaleOf,
                 exited, openedFor, events, overlap>>

\* newPage() of restoreState resolves; its owner is the one that was saved.
RestorePage(p) ==
  /\ swap[p].at = "newPage"
  /\ IF swap[p].ctx \in openContexts
     THEN LET page == Head(swap[p].saved)
          IN /\ AddPage(swap[p].ctx, page.owner, page.for)
             /\ swap' = [swap EXCEPT ![p].at = "load", ![p].cur = made + 1, ![p].ctx = 0]
             /\ UNCHANGED outcome
     ELSE Throws(p) /\ UNCHANGED <<made, pageContext, openedFor, tabOwner>>
  /\ UNCHANGED <<context, active, scale, headed, isHeaded, contexts, openContexts,
                 scaleOf, exited, events, overlap>>

\* The page has loaded, or failed to; one whose URL is refused is skipped before it
\* can become the active tab.
PageLoaded(p) ==
  /\ swap[p].at = "load"
  /\ \E becomes \in {swap[p].activeId} \cup (IF Head(swap[p].saved).isActive THEN {swap[p].cur} ELSE {}) :
       NextPage(p, Tail(swap[p].saved), becomes)
  /\ UNCHANGED <<context, made, tabOwner, scale, headed, contexts, pageContext,
                 scaleOf, exited, openedFor, events, overlap>>


\* newTab() of restoreState, when no page was left to restore.
BlankTab(p) ==
  /\ swap[p].at = "blankTab"
  /\ IF swap[p].ctx \in openContexts
     THEN AddPage(swap[p].ctx, Nobody, Nobody) /\ active' = made + 1 /\ Succeeds(p)
     ELSE /\ Throws(p)
          /\ UNCHANGED <<made, pageContext, openedFor, tabOwner, active, isHeaded, openContexts>>
  /\ UNCHANGED <<context, scale, headed, contexts, scaleOf, exited, events, overlap>>

\* Mutant: the scale is taken back and the context is not recreated.
MutFallbackEnds(p, how) ==
  /\ outcome' = IF "none" \in {how, outcome} THEN "none" ELSE how
  /\ scale' = IF swap[p].kind = "rescale" THEN swap[p].prev ELSE scale
  /\ Ends(p)

\* The end of recreateContext's fallback.  setDeviceScaleFactor then takes its new
\* scale back and recreates the context once more.
FallbackEnds(p, how) ==
  /\ outcome' = IF "none" \in {how, outcome} THEN "none" ELSE how
  /\ IF swap[p].kind = "rescale"
     THEN /\ scale' = swap[p].prev
          /\ swap' = [swap EXCEPT ![p] = IF headed THEN Idle
                        ELSE [Idle EXCEPT !.kind = "rollback", !.at = "save", !.ctx = context]]
     ELSE Ends(p) /\ UNCHANGED scale

\* The fallback's own newContext(): when it fails too, the manager keeps a closed context.
BlankContext(p) ==
  /\ swap[p].at = "blankContext"
  /\ \/ /\ AddContext(scale)
        /\ swap' = [swap EXCEPT ![p].at = "fallbackTab", ![p].ctx = contexts + 1]
        /\ UNCHANGED <<scale, outcome>>
     \/ FallbackEnds(p, "none") /\ UNCHANGED <<context, contexts, openContexts, scaleOf>>
  /\ UNCHANGED <<tabs, made, active, tabOwner, headed, isHeaded, pageContext, exited,
                 openedFor, events, overlap>>

FallbackTab(p) ==
  /\ swap[p].at = "fallbackTab"
  /\ IF swap[p].ctx \in openContexts
     THEN /\ AddPage(swap[p].ctx, Nobody, Nobody)
          /\ active' = made + 1
          /\ FallbackEnds(p, "blank")
     ELSE /\ FallbackEnds(p, "none")
          /\ UNCHANGED <<tabs, made, pageContext, openedFor, tabOwner, active>>
  /\ UNCHANGED <<context, headed, isHeaded, contexts, openContexts, scaleOf, exited, events, overlap>>

\* The catch of handoff closes the new context.  Nothing puts the old one back, and
\* the disconnect handler, once registered, ends the daemon.
CloseHeaded(p) ==
  /\ swap[p].at \in {"closeHeaded", "closeUnwired"}
  /\ openContexts' = openContexts \ {swap[p].mine}
  /\ active' = FallsTo(PagesOf(swap[p].mine))
  /\ tabs' = tabs \ PagesOf(swap[p].mine)
  /\ exited' = (swap[p].at = "closeHeaded")
  /\ Ends(p)
  /\ UNCHANGED <<context, made, tabOwner, scale, headed, isHeaded, contexts,
                 pageContext, scaleOf, openedFor, events, overlap, outcome>>

\* newTab(url, clientId) for a scoped agent, or newTab(url) for root.
NewTab(p) ==
  /\ ~exited /\ swap[p].kind = "idle" /\ made < MaxTabs
  /\ overlap' = (overlap \/ SwapUnderWay)
  /\ \E c \in Agents \cup {Nobody} :
       swap' = [swap EXCEPT ![p] = [Idle EXCEPT !.kind = "newtab", !.at = "page",
                                                !.ctx = context, !.for = c]]
  /\ UNCHANGED <<managerVars, browserVars, openedFor, events, outcome>>

NewTabMade(p) ==
  /\ swap[p].at = "page"
  /\ Ends(p)
  /\ IF swap[p].ctx \in openContexts
     THEN AddPage(swap[p].ctx, swap[p].for, swap[p].for) /\ active' = made + 1
     ELSE UNCHANGED <<tabs, made, pageContext, openedFor, tabOwner, active>>
  /\ UNCHANGED <<context, scale, headed, isHeaded, contexts, openContexts, scaleOf, exited,
                 events, overlap, outcome>>

\* A page is closed by the user, by itself or by `closetab`, at any time.
PageCloses(id) ==
  /\ ~exited /\ id \in tabs /\ events < MaxEvents
  /\ events' = events + 1
  /\ tabs' = tabs \ {id}
  /\ active' = FallsTo({id})
  /\ UNCHANGED <<context, made, tabOwner, scale, headed, isHeaded, browserVars, openedFor,
                 swap, overlap, outcome>>

SwapNext ==
  /\ ~exited
  /\ \/ \E p \in Calls :
          \/ Recreate(p) \/ Rescale(p) \/ Handoff(p) \/ LoadState(p)
          \/ SaveTab(p) \/ ClosePage(p) \/ CloseContext(p) \/ NewContext(p) \/ Launch(p)
          \/ RestoreFails(p) \/ RestoreCookies(p) \/ RestorePage(p) \/ PageLoaded(p)
          \/ BlankTab(p) \/ BlankContext(p) \/ FallbackTab(p) \/ CloseHeaded(p)
          \/ NewTab(p) \/ NewTabMade(p)
     \/ \E id \in tabs : PageCloses(id)

SwapSpec == SwapInit /\ [][SwapNext]_swapVars

-----------------------------------------------------------------------------
(* Properties.                                                               *)

Settled == ~exited /\ ~Busy

\* After swaps that did not overlap with anything, the manager is whole: its context
\* is the only one open, every tab is a page of it, the active tab is one of them, and
\* the context has the scale that is recorded -- also when a swap fell back to a blank
\* tab or was rolled back (browser-manager.ts 1185 and 1222: "live state matches
\* tracked state").  Only a fallback that failed itself is excepted, and a failed handoff.
WholeAfterSwap ==
  (Settled /\ ~overlap /\ outcome \in {"ok", "blank"}) =>
     /\ openContexts = {context}
     /\ \A id \in tabs : pageContext[id] = context
     /\ tabs # {} => active \in tabs
     /\ scaleOf[context] \in {scale, 0}

\* A tab that an agent opened is still its own after any number of swaps that kept the
\* tabs ("Survives context recreation so scoped agents don't get locked out"); and however
\* swaps and new tabs overlap, no tab comes to an agent that did not open it: neither a
\* stale entry of tabOwnership nor a restored one names another's tab.
OwnersSurvive ==
  /\ (Settled /\ ~overlap) => \A id \in tabs : openedFor[id] # Nobody => id \in DOMAIN tabOwner
  /\ \A id \in tabs \cap DOMAIN tabOwner : tabOwner[id] = openedFor[id]
=============================================================================
