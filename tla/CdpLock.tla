------------------------------ MODULE CdpLock ------------------------------
(***************************************************************************)
(* What the two-tier CDP lock of browser-manager.ts promises its callers,  *)
(* with no word of promises, tails or timers: a caller asks for one tab or *)
(* for the whole browser, is let in when nobody who conflicts with it is   *)
(* in, and leaves; or it gives up while it waits.                          *)
(***************************************************************************)

CONSTANTS Callers,      \* the acquire calls ever made
          Tabs,         \* tab ids
          Browser       \* the scope of a browser-wide method

VARIABLES claim,        \* the scope each caller asked for
          status        \* where each caller stands

Scopes == Tabs \cup {Browser}

Conflict(s, t) == s = t \/ s = Browser \/ t = Browser

Holders == {c \in Callers : status[c] = "held"}

Init == /\ claim = [c \in Callers |-> Browser]
        /\ status = [c \in Callers |-> "idle"]

Request(c, s) == /\ status[c] = "idle"
                 /\ claim' = [claim EXCEPT ![c] = s]
                 /\ status' = [status EXCEPT ![c] = "waiting"]

Enter(c) == /\ status[c] = "waiting"
            /\ \A h \in Holders : ~Conflict(claim[h], claim[c])
            /\ status' = [status EXCEPT ![c] = "held"]
            /\ UNCHANGED claim

Leave(c) == /\ status[c] \in {"waiting", "held"}
            /\ status' = [status EXCEPT ![c] = "gone"]
            /\ UNCHANGED claim

Next == \E c \in Callers : \/ \E s \in Scopes : Request(c, s)
                           \/ Enter(c)
                           \/ Leave(c)

Spec == Init /\ [][Next]_<<claim, status>>
=============================================================================
