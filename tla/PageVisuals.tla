---------------------------- MODULE PageVisuals ----------------------------
(* The commands that change how a page looks in order to take its picture --   *)
(* `viewport`, `prettyscreenshot`, `responsive`, `snapshot -a` and `-H` -- or   *)
(* to clean it up for the reader, and what they put back, when every await of   *)
(* theirs can fail and other commands run in between.                           *)
EXTENDS Naturals, Sequences

CONSTANTS VisualTabs, Visuals,  \* pages, and commands under way at once
          Sizes, LaunchSize,    \* viewports, and that of launchContext
          NoSize                \* viewportSize() of a headed context: null

ASSUME VisualAssumption == LaunchSize \in Sizes /\ NoSize \notin Sizes

VARIABLES
  size,     \* page -> viewportSize()
  tracked,  \* currentViewport
  marks,    \* page -> the overlays in its document
  hidden,   \* page -> whether elements of its document have been hidden
  visual,   \* command -> its locals
  kept      \* history: pages that were given the tracked viewport, and that no command
            \* which failed, overlapped, had no viewport to restore or was for another page
            \* has left with another

visualVars == <<size, tracked, marks, hidden, visual, kept>>

Marks == {"annotation", "heatmap"}
Passes == <<"selectors", "sticky", "scroll", "labels", "placeholders">>
Widths == <<"mobile", "tablet", "desktop">>
Still == [does |-> "nothing", at |-> "idle", tab |-> NoSize, asked |-> NoSize, original |-> NoSize,
          todo |-> <<>>, crossed |-> FALSE]
Resizing == {"viewport", "pretty", "responsive"}

VisualTypeOK ==
  /\ size \in [VisualTabs -> Sizes \cup {NoSize} \cup {Widths[i] : i \in 1..3}] /\ tracked \in Sizes
  /\ marks \in [VisualTabs -> SUBSET Marks] /\ kept \subseteq VisualTabs
  /\ hidden \in [VisualTabs -> BOOLEAN]
  /\ \A v \in Visuals :
       /\ visual[v].does \in Resizing \cup {"nothing", "picture", "marked", "cleanup"}
       /\ visual[v].at \in {"idle", "resize", "prepare", "scroll", "shot", "restore", "mark", "unmark", "pass"}

VisualInit ==
  /\ \/ size = [t \in VisualTabs |-> LaunchSize] /\ kept = VisualTabs
     \/ size = [t \in VisualTabs |-> NoSize] /\ kept = {}
  /\ tracked = LaunchSize
  /\ marks = [t \in VisualTabs |-> {}] /\ hidden = [t \in VisualTabs |-> FALSE]
  /\ visual = [v \in Visuals |-> Still]

On(t) == {v \in Visuals : visual[v].tab = t}
Resizers(t) == {v \in On(t) : visual[v].does \in Resizing}

\* A command begins on the active page; two that resize the same page have crossed.
VisualBegins(v, t, locals, keeps) ==
  LET met == IF locals.does \in Resizing THEN Resizers(t) ELSE {}
  IN /\ visual[v] = Still
     /\ visual' = [u \in Visuals |->
           IF u = v THEN [locals EXCEPT !.tab = t, !.crossed = met # {}]
           ELSE [visual[u] EXCEPT !.crossed = @ \/ u \in met]]
     /\ kept' = IF met = {} THEN keeps ELSE keeps \ {t}
     /\ UNCHANGED <<size, marks, hidden>>

VisualGoes(v, at) == visual' = [visual EXCEPT ![v].at = at]
VisualEnds(v) == visual' = [visual EXCEPT ![v] = Still]
Sets(v, s) == size' = [size EXCEPT ![visual[v].tab] = s]
Looks == <<size, tracked, marks, hidden>>

-----------------------------------------------------------------------------
(* Viewport: `viewport WxH`, `prettyscreenshot`, `responsive`.                 *)

\* setViewport records the size before the page has it; no other page will have it.
Viewport(v, t, s) ==
  /\ VisualBegins(v, t, [Still EXCEPT !.does = "viewport", !.at = "resize", !.asked = s],
                  kept \cap {t})
  /\ tracked' = s
ViewportSet(v) ==
  /\ visual[v].does = "viewport"
  /\ Sets(v, visual[v].asked) /\ VisualEnds(v)
  /\ kept' = IF visual[v].crossed \/ visual[v].asked # tracked THEN kept
             ELSE kept \cup {visual[v].tab}
  /\ UNCHANGED <<tracked, marks, hidden>>

\* `prettyscreenshot`, with --width or without; a page without a viewport keeps its size.
Pretty(v, t, s) ==
  /\ VisualBegins(v, t, [Still EXCEPT !.does = "pretty", !.asked = s, !.original = size[t],
                                !.at = IF s # NoSize /\ size[t] # NoSize THEN "resize" ELSE "prepare"],
                  kept)
  /\ UNCHANGED tracked

Resized(v) ==
  visual[v].does = "responsive" \/ (visual[v].asked # NoSize /\ visual[v].original # NoSize)

\* `responsive`: three sizes, one after the other.
Responsive(v, t) ==
  /\ VisualBegins(v, t, [Still EXCEPT !.does = "responsive", !.at = "resize", !.original = size[t], !.todo = Widths], kept)
  /\ UNCHANGED tracked

Resize(v) ==
  /\ visual[v].at = "resize" /\ visual[v].does # "viewport"
  /\ Sets(v, IF visual[v].does = "pretty" THEN visual[v].asked ELSE Head(visual[v].todo))
  /\ VisualGoes(v, IF visual[v].does = "pretty" THEN "prepare" ELSE "shot")
  /\ UNCHANGED <<tracked, marks, hidden, kept>>

\* --cleanup and --hide of `prettyscreenshot`: what they hide stays hidden.
Prepare(v) ==
  /\ visual[v].at = "prepare"
  /\ hidden' \in {hidden, [hidden EXCEPT ![visual[v].tab] = TRUE]}
  /\ \E at \in {"scroll", "shot"} : VisualGoes(v, at)
  /\ UNCHANGED <<size, tracked, marks, kept>>

ScrollFound(v) == visual[v].at = "scroll" /\ VisualGoes(v, "shot") /\ UNCHANGED <<Looks, kept>>

\* Mutant: a target that is not found throws without restoring the viewport.
MutScrollMisses(v) ==
  /\ visual[v].at = "scroll"
  /\ VisualEnds(v)
  /\ UNCHANGED <<Looks, kept>>

\* --scroll-to finds nothing: the viewport is restored before the error.
ScrollMisses(v) ==
  /\ visual[v].at = "scroll"
  /\ IF Resized(v) THEN Sets(v, visual[v].original) ELSE UNCHANGED size
  /\ VisualEnds(v)
  /\ UNCHANGED <<tracked, marks, hidden, kept>>

\* A picture is taken: the next size, the restore, or the end.
Shot(v) ==
  /\ visual[v].at = "shot" /\ visual[v].does \in Resizing
  /\ LET rest == IF visual[v].todo = <<>> THEN <<>> ELSE Tail(visual[v].todo)
     IN IF rest # <<>> THEN visual' = [visual EXCEPT ![v].todo = rest, ![v].at = "resize"]
        ELSE IF Resized(v) /\ visual[v].original # NoSize THEN VisualGoes(v, "restore") ELSE VisualEnds(v)
  /\ kept' = IF Resized(v) /\ visual[v].original = NoSize THEN kept \ {visual[v].tab} ELSE kept
  /\ UNCHANGED Looks
Restore(v) ==
  /\ visual[v].at = "restore"
  /\ Sets(v, visual[v].original) /\ VisualEnds(v)
  /\ UNCHANGED <<tracked, marks, hidden, kept>>

\* Any other await throws, and the command with it: nothing restores the size, nor what
\* setViewport has recorded.
VisualFails(v) ==
  /\ visual[v].does \in Resizing /\ visual[v].at \in {"resize", "prepare", "scroll", "shot", "restore"}
  /\ VisualEnds(v)
  /\ kept' = IF Resized(v) \/ visual[v].does = "viewport" THEN kept \ {visual[v].tab} ELSE kept
  /\ UNCHANGED Looks

\* `screenshot` (of the page, a clip or an element, to a file or inline) and `pdf`: one
\* picture of the page as it is, which is answered or fails.
Picture(v, t) ==
  /\ VisualBegins(v, t, [Still EXCEPT !.does = "picture", !.at = "shot"], kept)
  /\ UNCHANGED tracked
PictureEnds(v) == visual[v].does = "picture" /\ VisualEnds(v) /\ UNCHANGED <<Looks, kept>>

-----------------------------------------------------------------------------
(* Overlays: `snapshot -a` and `-H`, and both in one command.                  *)

Snapshots(v, t, kinds) ==
  /\ VisualBegins(v, t, [Still EXCEPT !.does = "marked", !.at = "mark", !.todo = kinds], kept)
  /\ UNCHANGED tracked

\* One evaluate injects the overlays; when it throws it has injected none ...
Injects(v, kind) ==
  /\ visual[v].at = "mark" /\ Head(visual[v].todo) = kind
  /\ marks' = [marks EXCEPT ![visual[v].tab] = @ \cup {kind}] /\ VisualGoes(v, "shot")
  /\ UNCHANGED <<size, tracked, hidden, kept>>
InjectsNone(v, kind) ==
  /\ visual[v].at = "mark" /\ Head(visual[v].todo) = kind
  /\ UNCHANGED <<Looks, kept>>

\* ... and -a goes on to the removal, or throws if the message is not one of those it swallows,
Mark(v) ==
  \/ Injects(v, "annotation")
  \/ InjectsNone(v, "annotation") /\ (VisualGoes(v, "unmark") \/ VisualEnds(v))
\* while -H removes its overlays first in either case.
HeatMark(v) ==
  \/ Injects(v, "heatmap")
  \/ InjectsNone(v, "heatmap") /\ VisualGoes(v, "unmark")

\* The picture is taken or fails: every error of page.screenshot names it and is swallowed.
MarkedShot(v) ==
  /\ visual[v].at = "shot" /\ visual[v].does = "marked"
  /\ VisualGoes(v, "unmark")
  /\ UNCHANGED <<Looks, kept>>

\* All overlays of the class go, those of another command too.
Unmark(v) ==
  /\ visual[v].at = "unmark"
  /\ marks' = [marks EXCEPT ![visual[v].tab] = @ \ {Head(visual[v].todo)}]
  /\ IF Len(visual[v].todo) = 1 THEN VisualEnds(v)
     ELSE visual' = [visual EXCEPT ![v].todo = Tail(@), ![v].at = "mark"]
  /\ UNCHANGED <<size, tracked, hidden, kept>>

-----------------------------------------------------------------------------
(* `cleanup`, and the page itself.                                            *)

\* The flags choose the first two passes; the others are made in any case.
Cleanup(v, t, first) ==
  /\ VisualBegins(v, t, [Still EXCEPT !.does = "cleanup", !.at = "pass", !.todo = SubSeq(Passes, first, 5)],
                  kept)
  /\ UNCHANGED tracked
CleanupPass(v) ==
  /\ visual[v].at = "pass"
  /\ \/ /\ hidden' \in {hidden, [hidden EXCEPT ![visual[v].tab] = TRUE]}
        /\ IF Len(visual[v].todo) = 1 THEN VisualEnds(v) ELSE visual' = [visual EXCEPT ![v].todo = Tail(@)]
     \/ UNCHANGED hidden /\ VisualEnds(v)
  /\ UNCHANGED <<size, tracked, marks, kept>>

\* A new document: no overlay, nothing hidden.
VisualNavigates(t) ==
  /\ marks' = [marks EXCEPT ![t] = {}] /\ hidden' = [hidden EXCEPT ![t] = FALSE]
  /\ UNCHANGED <<size, tracked, visual, kept>>

VisualNext ==
  \/ \E v \in Visuals :
       \/ \E t \in VisualTabs :
            \/ \E s \in Sizes : Viewport(v, t, s) \/ Pretty(v, t, s)
            \/ Pretty(v, t, NoSize) \/ Responsive(v, t) \/ Picture(v, t)
            \/ \E kinds \in {<<"annotation">>, <<"heatmap">>, <<"annotation", "heatmap">>} :
                 Snapshots(v, t, kinds)
            \/ \E first \in 1..3 : Cleanup(v, t, first)
       \/ ViewportSet(v) \/ Resize(v) \/ Prepare(v) \/ ScrollFound(v) \/ ScrollMisses(v)
       \/ Shot(v) \/ Restore(v) \/ VisualFails(v) \/ PictureEnds(v)
       \/ Mark(v) \/ HeatMark(v) \/ MarkedShot(v) \/ Unmark(v) \/ CleanupPass(v)
  \/ \E t \in VisualTabs : VisualNavigates(t)

VisualSpec == VisualInit /\ [][VisualNext]_visualVars

-----------------------------------------------------------------------------
(* Property.                                                                 *)

\* A page that no command is working on carries no overlay, whatever has failed, and has
\* the viewport that currentViewport says if it is the one it was set for ("source of
\* truth since setViewport + launchContext keep it in sync") -- unless two commands that
\* resize it have crossed, one has failed, `responsive` found no viewport to restore, or
\* `viewport` was for another page; and then only until `viewport` sets it again.
LeavesNoTrace ==
  \A t \in VisualTabs :
     /\ On(t) = {} => marks[t] = {}
     /\ (Resizers(t) = {} /\ t \in kept) => size[t] = tracked
=============================================================================
