------------------------------ MODULE TabEach ------------------------------
(* `tab-each` and `chain`: commands that run other commands through          *)
(* handleCommandInternal, one after the other, over the tabs.  Three savers   *)
(* of the active tab are nested: the pin of the command itself, the restore   *)
(* of the fan-out, and the pin of every subcommand it sends to a tab.         *)
EXTENDS Naturals, Sequences, FiniteSets, FiniteSetsExt

CONSTANTS Fans,      \* commands under way at once
          EachTabs,  \* tab ids, 1..n: no more than n tabs are ever opened
          Internal   \* those that show a chrome:// page

ASSUME EachAssumption ==
  IsFiniteSet(EachTabs) /\ EachTabs = 1..Cardinality(EachTabs) /\ Internal \subseteq EachTabs

VARIABLES
  opened,  \* keys of pages, in the order of their ids
  shown,   \* activeTabId
  nextId,  \* nextTabId
  fan,     \* command -> its locals
  home     \* history: the tab active when the only command under way began; 0 once
           \* anything else has chosen, opened or closed a tab

eachVars == <<opened, shown, nextId, fan, home>>

\* A subcommand, and the tab that `tab` and `closetab` name (0: closetab names none).
Subcommands == [op : {"read", "newtab"}, of : {0}]
               \cup [op : {"tab", "closetab"}, of : {0} \cup EachTabs]
NoTab == 0
Free == [at |-> "idle", does |-> "chain", pin |-> NoTab, prog |-> <<>>, listed |-> <<>>,
         reading |-> NoTab, original |-> NoTab, saved |-> NoTab, ran |-> <<>>]

EachTypeOK ==
  /\ opened \subseteq EachTabs /\ shown \in EachTabs \cup {NoTab} /\ home \in EachTabs \cup {NoTab}
  /\ nextId \in 2..Cardinality(EachTabs) + 1 /\ \A t \in opened : t < nextId
  /\ \A f \in Fans :
       /\ fan[f].at \in {"idle", "titles", "next", "inner", "closing", "opening"}
       /\ Len(fan[f].ran) <= Len(fan[f].listed) + Len(fan[f].prog)

EachInit ==
  /\ opened \in SUBSET EachTabs /\ opened # {}
  /\ nextId = Max(opened) + 1 /\ shown \in opened
  /\ fan = [f \in Fans |-> Free] /\ home = NoTab

Running == {f \in Fans : fan[f].at # "idle"}
\* switchTab, whose error the caller swallows.
Switched(t) == IF t \in opened THEN t ELSE shown
Following(t) == LET later == {u \in opened : u > t} IN IF later = {} THEN NoTab ELSE Min(later)

\* The last statement of handleCommandInternalImpl restores the tab of the pin, if any.
Unpinned(tab, pin, pages) == IF pin # NoTab /\ pin \in pages THEN pin ELSE tab

\* `tab-each <subcommand>` or `chain <subcommands>`, pinned to tab t unless t is 0.
Begin(f, does, t, prog) ==
  /\ fan[f].at = "idle"
  /\ home' = IF Running = {} THEN shown ELSE NoTab
  /\ shown' = IF t = NoTab THEN shown ELSE Switched(t)
  /\ fan' = [fan EXCEPT ![f] =
       [Free EXCEPT !.does = does, !.prog = prog, !.pin = IF t = NoTab THEN NoTab ELSE shown,
                    !.at = IF does = "chain" THEN "next" ELSE "titles",
                    !.reading = IF does = "chain" THEN NoTab ELSE Following(NoTab)]]
  /\ UNCHANGED <<opened, nextId>>

\* getTabListWithTitles: the title of a tab arrives (or its tab is gone), it is listed as
\* active or not as of now, and the live iterator of the map moves on.
Title(f) ==
  /\ fan[f].at = "titles"
  /\ LET id == fan[f].reading
         rest == Following(id)
         original == IF fan[f].original = NoTab /\ shown = id THEN id ELSE fan[f].original
     IN IF id = NoTab
        THEN fan' = [fan EXCEPT ![f].at = "next", ![f].original = shown]
        ELSE fan' = [fan EXCEPT ![f].listed = Append(@, id), ![f].reading = rest,
                                ![f].at = IF rest = NoTab THEN "next" ELSE "titles",
                                ![f].original = IF rest = NoTab /\ original = NoTab THEN shown
                                                ELSE original]
  /\ UNCHANGED <<opened, shown, nextId, home>>

FanAnswered(f) == fan' = [fan EXCEPT ![f] = Free]
Results(f) == Len(fan[f].ran)

\* Mutant: the original tab is restored after the loop and not in a finally.
MutFanEnds(f) ==
  /\ shown' = Unpinned(IF Results(f) = Len(fan[f].listed) THEN Switched(fan[f].original) ELSE shown,
                       fan[f].pin, opened)
  /\ FanAnswered(f)
  /\ UNCHANGED <<opened, nextId, home>>

\* The loop is over, or switchTab has thrown: the finally restores the original tab.
FanEnds(f) ==
  /\ shown' = Unpinned(Switched(fan[f].original), fan[f].pin, opened)
  /\ FanAnswered(f)
  /\ UNCHANGED <<opened, nextId, home>>

ChainEnds(f) ==
  /\ shown' = Unpinned(shown, fan[f].pin, opened)
  /\ FanAnswered(f)
  /\ UNCHANGED <<opened, nextId, home>>

\* A subcommand starts on the session of tab t: `tab` switches at once, the others await.
Starts(f, t, cmd, saved) ==
  /\ shown' = IF cmd.op = "tab" /\ cmd.of \in opened THEN cmd.of ELSE t
  /\ fan' = [fan EXCEPT ![f].ran = Append(@, t), ![f].saved = saved, ![f].reading =
                IF cmd.op = "closetab" THEN IF cmd.of = NoTab THEN t ELSE cmd.of ELSE NoTab,
               ![f].at = CASE cmd.op = "newtab" -> "opening"
                           [] cmd.op = "closetab" -> "closing"
                           [] OTHER -> "inner"]
  /\ home' = IF fan[f].does = "chain" /\ fan[f].pin = NoTab /\ cmd.op # "read" THEN NoTab ELSE home
  /\ UNCHANGED <<opened, nextId>>

\* The loop of tab-each: an internal page is skipped, a closed one ends the fan-out.
EachNext(f) ==
  /\ fan[f].at = "next" /\ fan[f].does = "tab-each"
  /\ IF Results(f) = Len(fan[f].listed) THEN FanEnds(f)
     ELSE LET t == fan[f].listed[Results(f) + 1]
          IN IF t \in Internal
             THEN fan' = [fan EXCEPT ![f].ran = Append(@, NoTab)] /\ UNCHANGED <<opened, shown, nextId, home>>
             ELSE IF t \in opened THEN Starts(f, t, fan[f].prog[1], t) ELSE FanEnds(f)

\* The loop of chain: subcommands name no tab, and a failed one stops nothing.
ChainNext(f) ==
  /\ fan[f].at = "next" /\ fan[f].does = "chain"
  /\ IF Results(f) = Len(fan[f].prog) THEN ChainEnds(f)
     ELSE Starts(f, shown, fan[f].prog[Results(f) + 1], NoTab)

Resumes(f, pages, tab) ==
  /\ shown' = Unpinned(tab, fan[f].saved, pages)
  /\ fan' = [fan EXCEPT ![f].at = "next", ![f].saved = NoTab, ![f].reading = NoTab]

\* A subcommand that changed no tab ends, or a `tab` has switched or failed.
InnerEnds(f) ==
  /\ fan[f].at = "inner"
  /\ Resumes(f, opened, shown)
  /\ UNCHANGED <<opened, nextId, home>>

\* closeTab: unknown tabs throw; the active one falls back to the last, or to a new tab.
InnerCloses(f) ==
  /\ fan[f].at = "closing"
  /\ LET t == fan[f].reading
         rest == opened \ {t}
     IN /\ opened' = rest
        /\ IF t = shown /\ rest = {} /\ t \in opened
           THEN shown' = shown /\ fan' = [fan EXCEPT ![f].at = "opening"]
           ELSE Resumes(f, rest, IF t = shown /\ rest # {} THEN Max(rest) ELSE shown)
  /\ UNCHANGED <<nextId, home>>

\* newTab, called by `newtab` or by closeTab.
InnerOpens(f) ==
  /\ fan[f].at = "opening" /\ nextId \in EachTabs
  /\ opened' = opened \cup {nextId} /\ nextId' = nextId + 1
  /\ Resumes(f, opened', nextId)
  /\ UNCHANGED home

\* The user, the sidebar's poll, or a command of someone else.
OthersChoose(t) ==
  /\ t \in opened /\ t # shown
  /\ shown' = t /\ home' = NoTab
  /\ UNCHANGED <<opened, nextId, fan>>
OthersClose(t) ==
  /\ t \in opened
  /\ opened' = opened \ {t} /\ home' = NoTab
  /\ shown' = IF t = shown /\ opened' # {} THEN Max(opened') ELSE shown
  /\ UNCHANGED <<nextId, fan>>
OthersOpen ==
  /\ nextId \in EachTabs
  /\ opened' = opened \cup {nextId} /\ nextId' = nextId + 1 /\ shown' = nextId /\ home' = NoTab
  /\ UNCHANGED fan

EachNextState ==
  \/ \E f \in Fans :
       \/ \E t \in {NoTab} \cup opened, c \in Subcommands :
            \/ Begin(f, "tab-each", t, <<c>>)
            \/ Begin(f, "chain", t, <<[op |-> "read", of |-> NoTab]>>)
            \/ Begin(f, "chain", t, <<c, [op |-> "read", of |-> NoTab]>>)
       \/ Title(f) \/ EachNext(f) \/ ChainNext(f)
       \/ InnerEnds(f) \/ InnerCloses(f) \/ InnerOpens(f)
  \/ \E t \in EachTabs : OthersChoose(t) \/ OthersClose(t)
  \/ OthersOpen

EachSpec == EachInit /\ [][EachNextState]_eachVars

-----------------------------------------------------------------------------
(* Property.                                                                 *)

\* A fan-out leaves the view where it was, also when a tab it has listed is closed by its
\* own subcommand before its turn and ends it: once the commands have ended the tab is
\* active that was active before, unless it is closed or another actor, or a chain that
\* is pinned to no tab, has chosen, opened or closed one ("Restores the originally active
\* tab when done so the user's view doesn't shift under them").  And whatever the others
\* do, the result that names a tab is of a subcommand that ran there.
FanOutIsTrue ==
  /\ (Running = {} /\ home \in opened) => shown = home
  /\ \A f \in Running :
       fan[f].does = "tab-each" =>
         \A i \in 1..Results(f) : fan[f].ran[i] = IF fan[f].listed[i] \in Internal THEN NoTab ELSE fan[f].listed[i]
=============================================================================
