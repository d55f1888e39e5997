------------------------------ MODULE MCBrowser ------------------------------
(* The parts of the daemon that hold the state of the browser and of the side  *)
(* panel, each with its own actors.  They share no variable -- a session       *)
(* belongs to a page, a picker to a request, a PTY to a socket, a picture to   *)
(* the command that takes it -- so a behaviour of one run follows one of them, *)
(* chosen at the start: the state space is the sum of theirs, and every        *)
(* invariant is one of a single part.                                          *)
(* ContextSwap and PageSessions are there twice: with one call or command at a *)
(* time on all the tabs, contexts and documents of the bounds, and with calls  *)
(* that overlap on fewer of them.  So is PageVisuals: with all its commands on *)
(* one page, and `viewport` and prettyscreenshot on all of them.               *)
EXTENDS ContextSwap, PageSessions, PtySessions, CookiePicker, TabEach, PageVisuals, Downloads,
        Inspector, TLC

VARIABLE part  \* the component this behaviour is of

shotVars == <<eachVars, visualVars, downloadVars, inspectVars>>
allVars == <<part, swapVars, pageVars, ptyVars, cookieVars, shotVars>>

MCInit ==
  /\ part \in {"swap", "swaps", "page", "pages", "pty", "cookie", "each", "visual", "visuals",
              "download", "cascade", "inspect"}
  /\ SwapInit /\ PageInit /\ PtyInit /\ CookieInit /\ EachInit /\ VisualInit /\ DownloadInit
  /\ InspectInit
  /\ part # "each" => opened = {1}
  /\ part \notin {"visual", "visuals"} => kept = VisualTabs

SwapStep ==
  /\ part \in {"swap", "swaps"} /\ SwapNext
  /\ \/ part = "swap" /\ Cardinality({p \in Calls : swap'[p] # Idle}) <= 1
     \/ part = "swaps" /\ made' <= 3 /\ made' + contexts' <= 5
  /\ UNCHANGED <<part, pageVars, ptyVars, cookieVars, shotVars>>
OnOneTab == front' = front /\ \A t \in PageTabs \ {front} : document'[t] + iframe'[t] = 0
PageStep ==
  /\ part \in {"page", "pages"} /\ PageNext
  /\ \/ part = "page" /\ loads' <= 2 /\ Cardinality({p \in PageCommands : job'[p] # Resting}) <= 1
     \/ part = "pages" /\ OnOneTab
  /\ UNCHANGED <<part, swapVars, ptyVars, cookieVars, shotVars>>
PtyStep == part = "pty" /\ PtyNext /\ UNCHANGED <<part, swapVars, pageVars, cookieVars, shotVars>>
\* A request has passed the gate when it begins, so codes and sessions go on between requests.
CookieStep ==
  /\ part = "cookie" /\ CookieNext
  /\ \A k \in Codes : codes'[k] # "unborn" /\ sessions'[k] # "live" =>
       \A r \in CookieRequests : importing'[r] = NoImport
  /\ UNCHANGED <<part, swapVars, pageVars, ptyVars, shotVars>>

TabVars == <<swapVars, pageVars, ptyVars, cookieVars>>
EachStep == part = "each" /\ EachNextState /\ UNCHANGED <<part, TabVars, visualVars, downloadVars, inspectVars>>
OnOnePage == \A v \in Visuals : visual'[v].tab \in {NoSize, CHOOSE t \in VisualTabs : TRUE}
VisualStep ==
  /\ part \in {"visual", "visuals"} /\ VisualNext
  /\ \/ part = "visual" /\ OnOnePage
     \/ part = "visuals" /\ \A v \in Visuals : visual'[v].does \in {"nothing", "viewport", "pretty"}
  /\ UNCHANGED <<part, TabVars, eachVars, downloadVars, inspectVars>>
DownloadStep == part = "download" /\ DownloadNext /\ UNCHANGED <<part, TabVars, eachVars, visualVars, inspectVars>>
\* All cascades on one session without viewers, and all sessions without rules.
InspectStep ==
  /\ \/ /\ part = "cascade" /\ picks = 0 /\ InspectNextOf(Matching)
        /\ Len(cdps') <= 1 /\ known' = known
     \/ part = "inspect" /\ InspectNextOf({<<>>})
  /\ UNCHANGED <<part, TabVars, eachVars, visualVars, downloadVars>>

MCNext == SwapStep \/ PageStep \/ PtyStep \/ CookieStep \/ EachStep \/ VisualStep
          \/ DownloadStep \/ InspectStep
MCSpec == MCInit /\ [][MCNext]_allVars

\* What the variables of a part hold in its behaviours (types, and bounds of the counters);
\* those of the others stay as they were.
BrowserTypeOK ==
  /\ part \in {"swap", "swaps"} => SwapTypeOK
  /\ part \in {"page", "pages"} => PageTypeOK
  /\ part = "pty" => PtyTypeOK
  /\ part = "cookie" => CookieTypeOK
  /\ part = "each" => EachTypeOK
  /\ part \in {"visual", "visuals"} => VisualTypeOK
  /\ part = "download" => DownloadTypeOK
  /\ part \in {"cascade", "inspect"} => InspectTypeOK

Symmetry == Permutations(Calls) \cup Permutations(Sockets) \cup Permutations(PageTabs)
            \cup Permutations(CookieDomains)
=============================================================================
