---------------------------- MODULE PageSessions ----------------------------
(* TabSession: what the daemon remembers of a page -- the refs of the last    *)
(* snapshot, the frame it works in, the HTML that a context recreation would  *)
(* replay -- and the commands that read and write it around their awaits,     *)
(* while pages navigate, frames detach and the active tab changes.            *)
EXTENDS Naturals, FiniteSets

CONSTANTS PageTabs,      \* tabs, none of which closes here
          PageCommands,  \* commands under way at once
          NoFrame, NoRefs,
          MaxDocuments   \* bound: documents and frames ever loaded, over all tabs

ASSUME PageAssumption ==
  /\ PageTabs # {} /\ MaxDocuments \in Nat
  /\ NoRefs \notin [doc : Nat, frame : [tab : PageTabs, id : Nat] \cup {NoFrame}]
  /\ NoFrame \notin [tab : PageTabs, id : Nat]

VARIABLES
  front,      \* the active tab
  document,   \* tab -> number of its main document
  iframe,     \* tab -> number of the frame attached in it, 0 if none
  loadedInto, \* tab -> the load-html content it shows, 0 if it shows a site
  refs,       \* tab -> refMap: the document and frame it was taken of, or NoRefs
  frame,      \* tab -> activeFrame
  loadedHtml, \* tab -> loadedHtml, 0 for null
  job,        \* command -> what it is doing
  loads,      \* documents, frames and HTML contents numbered so far
  moved,      \* history: commands whose tab has changed under them
  raced       \* history: what such a command has left in a session

pageVars == <<front, document, iframe, loadedInto, refs, frame, loadedHtml, job, loads, moved, raced>>
sessionVars == <<refs, frame, loadedHtml>>

Resting == [does |-> "nothing", tab |-> NoFrame, of |-> NoRefs, html |-> 0]
Parts == {"refs", "html", "frame"}

PageTypeOK ==
  /\ front \in PageTabs /\ loads \in 0..MaxDocuments 
  /\ moved \subseteq PageCommands /\ raced \subseteq PageTabs \X Parts
  /\ document \in [PageTabs -> 0..loads] /\ iframe \in [PageTabs -> 0..loads]
  /\ loadedInto \in [PageTabs -> 0..loads] /\ loadedHtml \in [PageTabs -> 0..loads]
  /\ \A t \in PageTabs : refs[t] # NoRefs => refs[t].doc <= loads
  /\ \A t \in PageTabs : frame[t] # NoFrame => frame[t].id \in 1..loads /\ frame[t].tab \in PageTabs
  /\ \A p \in PageCommands :
       /\ job[p].does \in {"nothing", "aria", "scan", "goto", "content", "record", "frame"}
       /\ job[p].tab \in PageTabs \cup {NoFrame} /\ job[p].html \in 0..loads

PageInit ==
  /\ front \in PageTabs
  /\ document = [t \in PageTabs |-> 0] /\ iframe = [t \in PageTabs |-> 0]
  /\ loadedInto = [t \in PageTabs |-> 0] /\ loadedHtml = [t \in PageTabs |-> 0]
  /\ refs = [t \in PageTabs |-> NoRefs] /\ frame = [t \in PageTabs |-> NoFrame]
  /\ job = [p \in PageCommands |-> Resting] /\ loads = 0
  /\ moved = {} /\ raced = {}

Attached(f) == iframe[f.tab] = f.id
Detached(t) == frame[t] # NoFrame /\ ~Attached(frame[t])
\* What a command that begins now works in, after getActiveFrameOrPage.
Target(t) == IF Detached(t) THEN NoFrame ELSE frame[t]

\* getActiveFrameOrPage: a detached frame is forgotten, and its refs with it.
Recover(t) ==
  /\ frame' = [frame EXCEPT ![t] = Target(t)]
  /\ refs' = [refs EXCEPT ![t] = IF Detached(t) THEN NoRefs ELSE @]

Do(p, does, t) == job' = [job EXCEPT ![p] = [Resting EXCEPT !.does = does, !.tab = t]]
Done(p) == job' = [job EXCEPT ![p] = Resting]

-----------------------------------------------------------------------------
(* Commands.  Each begins on the session of the tab that is active.          *)

\* `snapshot`: the accessibility tree is asked for.
Snapshot(p) ==
  /\ job[p].does = "nothing"
  /\ Do(p, "aria", front)
  /\ Recover(front)
  /\ UNCHANGED <<front, document, iframe, loadedInto, loadedHtml, loads>>

\* The tree arrives: an empty one stores an empty map, else the cursor scan is awaited.
AriaArrives(p) ==
  /\ job[p].does = "aria"
  /\ LET t == job[p].tab
         taken == [doc |-> document[t], frame |-> frame[t]]
     IN \/ /\ refs' = [refs EXCEPT ![t] = NoRefs]
           /\ Done(p)
        \/ /\ job' = [job EXCEPT ![p].does = "scan", ![p].of = taken]
           /\ UNCHANGED refs
  /\ UNCHANGED <<front, document, iframe, loadedInto, frame, loadedHtml, loads>>

\* The scan has ended or failed, and the map is stored, whatever the page is by now.
StoreRefs(p) ==
  /\ job[p].does = "scan"
  /\ refs' = [refs EXCEPT ![job[p].tab] = job[p].of]
  /\ Done(p)
  /\ UNCHANGED <<front, document, iframe, loadedInto, frame, loadedHtml, loads>>

\* `goto`, `back`, `forward`, `reload`: refused in a frame; the replay is forgotten first.
Goto(p) ==
  /\ job[p].does = "nothing"
  /\ Recover(front)
  /\ IF Target(front) # NoFrame THEN UNCHANGED <<job, loadedHtml>>
     ELSE Do(p, "goto", front) /\ loadedHtml' = [loadedHtml EXCEPT ![front] = 0]
  /\ UNCHANGED <<front, document, iframe, loadedInto, loads>>

\* Its navigation resolves, or times out before or after the page has changed.
GotoEnds(p) ==
  /\ job[p].does = "goto"
  /\ Done(p)
  /\ UNCHANGED <<front, document, iframe, loadedInto, sessionVars, loads>>

\* `load-html`: refused in a frame; setContent is called.
LoadHtml(p) ==
  /\ job[p].does = "nothing" /\ loads < MaxDocuments
  /\ Recover(front)
  /\ IF Target(front) # NoFrame THEN UNCHANGED <<job, loads>>
     ELSE /\ loads' = loads + 1
          /\ job' = [job EXCEPT ![p] = [Resting EXCEPT !.does = "content", !.tab = front,
                                                       !.html = loads + 1]]
  /\ UNCHANGED <<front, document, iframe, loadedInto, loadedHtml>>

\* The page takes the content, without a navigation: refs and frame are not told.
ContentSet(p) ==
  /\ job[p].does = "content"
  /\ loadedInto' = [loadedInto EXCEPT ![job[p].tab] = job[p].html]
  /\ iframe' = [iframe EXCEPT ![job[p].tab] = 0]
  /\ job' = [job EXCEPT ![p].does = "record"]
  /\ UNCHANGED <<front, document, sessionVars, loads>>

\* setContent resolves and the replay is recorded; or it throws and nothing is.
RecordHtml(p) ==
  /\ \/ job[p].does \in {"content", "record"} /\ UNCHANGED loadedHtml
     \/ job[p].does = "record" /\ loadedHtml' = [loadedHtml EXCEPT ![job[p].tab] = job[p].html]
  /\ Done(p)
  /\ UNCHANGED <<front, document, iframe, loadedInto, refs, frame, loads>>

\* `frame <selector>`: the element handle and its frame are awaited ...
FindFrame(p) ==
  /\ job[p].does = "nothing"
  /\ Do(p, "frame", front)
  /\ UNCHANGED <<front, document, iframe, loadedInto, sessionVars, loads>>

\* ... and the frame is set on the session of the tab that is active by then.
SetFrame(p) ==
  /\ job[p].does = "frame"
  /\ LET t == job[p].tab
     IN IF iframe[t] = 0 THEN UNCHANGED <<frame, refs>>
        ELSE /\ frame' = [frame EXCEPT ![front] = [tab |-> t, id |-> iframe[t]]]
             /\ refs' = [refs EXCEPT ![front] = NoRefs]
  /\ Done(p)
  /\ UNCHANGED <<front, document, iframe, loadedInto, loadedHtml, loads>>

\* Mutant: the refs stay.
MutMainFrame ==
  /\ frame' = [frame EXCEPT ![front] = NoFrame]
  /\ UNCHANGED <<front, document, iframe, loadedInto, refs, loadedHtml, job, loads>>

\* `frame main`.
MainFrame ==
  /\ frame' = [frame EXCEPT ![front] = NoFrame]
  /\ refs' = [refs EXCEPT ![front] = NoRefs]
  /\ UNCHANGED <<front, document, iframe, loadedInto, loadedHtml, job, loads>>

\* `resume`: the refs and the frame go, and a snapshot is taken.
Resume(p) ==
  /\ job[p].does = "nothing"
  /\ frame' = [frame EXCEPT ![front] = NoFrame]
  /\ refs' = [refs EXCEPT ![front] = NoRefs]
  /\ Do(p, "aria", front)
  /\ UNCHANGED <<front, document, iframe, loadedInto, loadedHtml, loads>>

\* Any other read or write: it looks for its target and leaves the session alone.
OtherCommand ==
  /\ Recover(front)
  /\ UNCHANGED <<front, document, iframe, loadedInto, loadedHtml, job, loads>>

\* `tab`, or a command pinned to another tab.
SwitchTo(t) ==
  /\ front' = t
  /\ UNCHANGED <<document, iframe, loadedInto, sessionVars, job, loads>>

\* The main frame navigates: by goto, a click, a script.  The handler of
\* framenavigated finds the session and clears it.
Navigates(t) ==
  /\ loads < MaxDocuments
  /\ loads' = loads + 1
  /\ document' = [document EXCEPT ![t] = loads + 1]
  /\ iframe' = [iframe EXCEPT ![t] = 0]
  /\ loadedInto' = [loadedInto EXCEPT ![t] = 0]
  /\ refs' = [refs EXCEPT ![t] = NoRefs]
  /\ frame' = [frame EXCEPT ![t] = NoFrame]
  /\ loadedHtml' = [loadedHtml EXCEPT ![t] = 0]
  /\ UNCHANGED <<front, job>>

IframeAttaches(t) ==
  /\ loads < MaxDocuments /\ iframe[t] = 0
  /\ loads' = loads + 1
  /\ iframe' = [iframe EXCEPT ![t] = loads + 1]
  /\ UNCHANGED <<front, document, loadedInto, sessionVars, job>>

IframeDetaches(t) ==
  /\ iframe[t] # 0
  /\ iframe' = [iframe EXCEPT ![t] = 0]
  /\ UNCHANGED <<front, document, loadedInto, sessionVars, job, loads>>

\* History.  A command has moved when its tab changes while it waits: the page or the
\* frame under a snapshot that has read it, the content under a load-html that has set
\* it, the active tab under `frame`.
Moves(p) ==
  LET t == job[p].tab IN
  \/ job[p].does = "scan" /\ (document'[t] # document[t] \/ frame'[t] # frame[t])
  \/ job[p].does = "record" /\ loadedInto'[t] # loadedInto[t]
  \/ job[p].does = "frame" /\ front' # t

\* What it writes then is raced, and so is a replay whose page takes other content
\* before it is replaced; whatever is written later puts an end to it.
Racing(t, part) ==
  LET Late(does) == \E p \in moved : job[p].does = does /\ job'[p] = Resting
  IN CASE part = "refs" -> refs'[t] # refs[t] /\ refs'[t] # NoRefs /\ Late("scan")
       [] part = "frame" -> frame'[t] # frame[t] /\ Late("frame")
       [] part = "html" -> \/ loadedHtml'[t] # loadedHtml[t] /\ Late("record")
                           \/ loadedInto'[t] # loadedInto[t] /\ loadedHtml'[t] # 0

Rewritten(t, part) ==
  CASE part = "refs" -> refs'[t] # refs[t]
    [] part = "frame" -> frame'[t] # frame[t]
    [] part = "html" -> loadedHtml'[t] # loadedHtml[t]

History ==
  /\ moved' = {p \in PageCommands : job'[p] = job[p] /\ (p \in moved \/ Moves(p))}
  /\ raced' = {x \in PageTabs \X Parts :
                 Racing(x[1], x[2]) \/ (x \in raced /\ ~Rewritten(x[1], x[2]))}

PageNext ==
  /\ \/ \E p \in PageCommands :
          \/ Snapshot(p) \/ AriaArrives(p) \/ StoreRefs(p) \/ Goto(p) \/ GotoEnds(p)
          \/ LoadHtml(p) \/ ContentSet(p) \/ RecordHtml(p)
          \/ FindFrame(p) \/ SetFrame(p) \/ Resume(p)
     \/ MainFrame \/ OtherCommand
     \/ \E t \in PageTabs : SwitchTo(t) \/ Navigates(t) \/ IframeAttaches(t) \/ IframeDetaches(t)
  /\ History

PageSpec == PageInit /\ [][PageNext]_pageVars

-----------------------------------------------------------------------------
(* Properties.                                                               *)

\* A tab works in a frame of its own page, its refs are of the document it shows and of
\* that frame, and what a context recreation would replay is what it shows -- unless the
\* page, the frame or the active tab changed between the reading and the writing of a
\* command, and then only until the part is written again (browser-manager.ts: "refs point
\* to stale elements after page change"; tab-session.ts: "Without clearing loadedHtml here,
\* a user who load-html'd and then clicked a link would silently revert").
SessionIsOfThePage ==
  \A t \in PageTabs :
     /\ (refs[t] # NoRefs /\ <<t, "refs">> \notin raced) =>
           refs[t].doc = document[t] /\ refs[t].frame = frame[t]
     /\ (frame[t] # NoFrame /\ <<t, "frame">> \notin raced) => frame[t].tab = t
     /\ (loadedHtml[t] # 0 /\ <<t, "html">> \notin raced) => loadedInto[t] = loadedHtml[t]
=============================================================================
