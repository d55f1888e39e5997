--------------------------- MODULE TokenRegistry ---------------------------
(***************************************************************************)
(* token-registry.ts as the routes of server.ts drive it: session tokens,  *)
(* one-time setup keys and their exchange, the count of commands that      *)
(* makes the exchange idempotent, expiry, revocation by client, rotation   *)
(* and the round trip through the state file.                              *)
(*                                                                         *)
(* Tokens are numbered as they are minted.  The code's Map iterates in     *)
(* insertion order, which is the order of the numbers: an entry's value    *)
(* changes in place and a restore inserts the survivors in the old order.  *)
(***************************************************************************)
EXTENDS Naturals

CONSTANTS Clients,      \* client ids
          MaxTokens     \* bound: tokens minted in a behaviour

ASSUME MaxTokensIsNat == MaxTokens \in Nat

VARIABLES minted,       \* tokens minted so far
          live,         \* keys of the tokens map
          client,       \* clientId of each token
          kind,         \* "session" or "setup"
          refused,      \* setup keys with scopes that createToken refuses
          spent,        \* setup keys with usesRemaining = 0
          issued,       \* issuedSessionToken: empty, or the session
          counted,      \* sessions with commandCount > 0
          expired,      \* tokens whose expiresAt has passed
          ran,          \* history: tokens that executed a command
          source        \* history: the setup key each session was minted for

vars == <<minted, live, client, kind, refused, spent, issued, counted, expired,
          ran, source>>

Id == 1 .. MaxTokens
Minted == 1 .. minted

Init == /\ minted = 0
        /\ live = {}
        /\ client = [k \in Id |-> "nobody"]
        /\ kind = [k \in Id |-> "setup"]
        /\ refused = {}
        /\ spent = {}
        /\ issued = [k \in Id |-> {}]
        /\ counted = {}
        /\ expired = {}
        /\ ran = {}
        /\ source = [k \in Id |-> {}]

SessionsOf(c) == {k \in live : client[k] = c /\ kind[k] = "session"}

IsFirst(k, S) == k \in S /\ \A j \in S : k <= j

\* Mutant: the client's earlier session stays.
MutMintSession(k, c, from) ==
  /\ minted < MaxTokens
  /\ k = minted + 1
  /\ minted' = k
  /\ client' = [client EXCEPT ![k] = c]
  /\ kind' = [kind EXCEPT ![k] = "session"]
  /\ source' = [source EXCEPT ![k] = from]
  /\ live' = live \cup {k}

\* createToken for client c: the first session of the client gives way.
MintSession(k, c, from) ==
  /\ minted < MaxTokens
  /\ k = minted + 1
  /\ minted' = k
  /\ client' = [client EXCEPT ![k] = c]
  /\ kind' = [kind EXCEPT ![k] = "session"]
  /\ source' = [source EXCEPT ![k] = from]
  /\ live' = (live \ {j \in live : IsFirst(j, SessionsOf(c))}) \cup {k}

\* POST /token, and mintSkillToken.
CreateToken(c) ==
  /\ MintSession(minted + 1, c, {})
  /\ UNCHANGED <<refused, spent, issued, counted, expired, ran>>

\* POST /pair: nothing checks the scopes of a key before it is exchanged.
CreateSetupKey(c) ==
  /\ minted < MaxTokens
  /\ minted' = minted + 1
  /\ client' = [client EXCEPT ![minted'] = c]
  /\ kind' = [kind EXCEPT ![minted'] = "setup"]
  /\ live' = live \cup {minted'}
  /\ \/ refused' = refused \cup {minted'}
     \/ UNCHANGED refused
  /\ UNCHANGED <<spent, issued, counted, expired, ran, source>>

\* Mutant: the expiry of a presented key is not looked at.
MutExpiryPresentable(k) == k \in live /\ kind[k] = "setup"

Presentable(k) == k \in live \ expired /\ kind[k] = "setup"

\* Mutant: the key is not marked as used.
MutExchange(k) ==
  /\ Presentable(k)
  /\ k \notin spent \cup refused
  /\ MintSession(minted + 1, client[k], {k})
  /\ issued' = [issued EXCEPT ![k] = {minted + 1}]
  /\ UNCHANGED <<refused, spent, counted, expired, ran>>

\* POST /connect with a fresh key.
Exchange(k) ==
  /\ Presentable(k)
  /\ k \notin spent \cup refused
  /\ MintSession(minted + 1, client[k], {k})
  /\ spent' = spent \cup {k}
  /\ issued' = [issued EXCEPT ![k] = {minted + 1}]
  /\ UNCHANGED <<refused, counted, expired, ran>>

\* createToken throws after the key has been consumed.
ExchangeThrows(k) ==
  /\ Presentable(k)
  /\ k \in refused \ spent
  /\ spent' = spent \cup {k}
  /\ UNCHANGED <<minted, live, client, kind, refused, issued, counted, expired, ran, source>>

\* POST /connect with a spent key is answered with session s and changes nothing.
Reissues(k, s) ==
  /\ Presentable(k)
  /\ k \in spent
  /\ s \in issued[k] \cap live
  /\ s \notin counted

\* An expired token is deleted when it is next looked at.
DropExpired(k) ==
  /\ k \in live \cap expired
  /\ live' = live \ {k}
  /\ UNCHANGED <<minted, client, kind, refused, spent, issued, counted, expired, ran, source>>

\* listTokens deletes every expired token on its way.
ListTokens ==
  /\ live \cap expired # {}
  /\ live' = live \ expired
  /\ UNCHANGED <<minted, client, kind, refused, spent, issued, counted, expired, ran, source>>

\* POST /command: the command is recorded against the token.  (The count of a
\* setup key is never read and is left out.)
Command(k) ==
  /\ k \in live \ expired
  /\ kind[k] = "session"
  /\ ran' = ran \cup {k}
  /\ counted' = counted \cup {k}
  /\ UNCHANGED <<minted, live, client, kind, refused, spent, issued, expired, source>>

\* POST /batch: its commands run with skipRateCheck, which also skips the record.
Batch(k) ==
  /\ k \in live \ expired
  /\ kind[k] = "session"
  /\ ran' = ran \cup {k}
  /\ UNCHANGED <<minted, live, client, kind, refused, spent, issued, counted, expired, source>>

\* DELETE /token/:clientId answers "revoked": the first token of the client goes.
Revoke(c) ==
  \E k \in live : /\ IsFirst(k, {j \in live : client[j] = c})
                  /\ live' = live \ {k}
                  /\ UNCHANGED <<minted, client, kind, refused, spent, issued,
                                 counted, expired, ran, source>>

RotateRoot ==
  /\ live # {}
  /\ live' = {}
  /\ UNCHANGED <<minted, client, kind, refused, spent, issued, counted, expired, ran, source>>

\* restoreRegistry(serializeRegistry()): one live session per client comes
\* back (the last one serialized), with its command count reset.
Restore ==
  /\ live' = {k \in live \ expired : /\ kind[k] = "session"
                                     /\ \A j \in SessionsOf(client[k]) : j <= k}
  /\ counted' = {}
  /\ UNCHANGED <<minted, client, kind, refused, spent, issued, expired, ran, source>>

\* Time passes.  A setup key lives five minutes and a session it is exchanged
\* for a day, so the key expires first; other tokens have any lifetime.
Expire(k) ==
  /\ k \in live \ expired
  /\ source[k] \cap live \subseteq expired
  /\ expired' = expired \cup {k}
  /\ UNCHANGED <<minted, live, client, kind, refused, spent, issued, counted, ran, source>>

Next == \/ \E c \in Clients : CreateToken(c) \/ CreateSetupKey(c) \/ Revoke(c)
        \/ \E k \in Id : \/ Exchange(k) \/ ExchangeThrows(k) \/ DropExpired(k)
                         \/ Command(k) \/ Batch(k) \/ Expire(k)
        \/ ListTokens \/ RotateRoot \/ Restore

Spec == Init /\ [][Next]_vars

-----------------------------------------------------------------------------

\* The ranges of the variables; only setup keys are spent.
TypeOK == /\ minted \in 0 .. MaxTokens
          /\ live \in SUBSET Minted
          /\ client \in [Id -> Clients \cup {"nobody"}]
          /\ kind \in [Id -> {"session", "setup"}]
          /\ refused \in SUBSET Minted
          /\ spent \in SUBSET {k \in Minted : kind[k] = "setup"}
          /\ issued \in [Id -> SUBSET Id]
          /\ counted \in SUBSET Minted
          /\ expired \in SUBSET Minted
          /\ ran \in SUBSET Minted
          /\ source \in [Id -> SUBSET Id]

\* Re-pairing replaces: a client has one live session, although createToken
\* deletes no more than the first it meets.
OneSessionPerClient ==
  \A j, k \in live : (/\ kind[j] = "session" /\ kind[k] = "session"
                      /\ client[j] = client[k]) => j = k

\* A setup key "can only be exchanged once": however often it is presented, at
\* most one session is ever minted for it.
KeyMintsOnce == \A j, k \in Id : (source[j] = source[k] /\ source[j] # {}) => j = k

\* A key that is presented again is never answered with an expired session,
\* though exchangeSetupKey does not look at the session's expiry, nor with a
\* session that belongs to another client.
ReissueIsLive ==
  \A k, s \in Id : Reissues(k, s) => s \notin expired /\ client[s] = client[k]

\* token-registry.ts: "revokeToken() -> immediate invalidation".
RevokeInvalidates ==
  [][\A c \in Clients : Revoke(c) => \A k \in live' : client[k] # c]_vars

\* token-registry.ts: re-issue only if "the prior session has 0 commands".
ReissueIsUnused == \A k, s \in Id : Reissues(k, s) => s \notin ran
=============================================================================
