------------------------ MODULE TokenRegistryProofs ------------------------
(***************************************************************************)
(* Proofs about TokenRegistry, for every set of clients and every number   *)
(* of tokens: re-pairing leaves a client one session, and a setup key is   *)
(* good for one session however its presentations interleave with expiry,  *)
(* revocation, rotation and restarts.                                      *)
(***************************************************************************)
EXTENDS TokenRegistry, TLAPS

\* Only a spent key has a session minted for it, and only a minted token has a
\* key it came from.
SourcesAreSpent == \A k, s \in Id : k \in source[s] => /\ source[s] = {k}
                                                       /\ k \in spent
                                                       /\ s \in Minted

RegistryInv == /\ TypeOK
               /\ OneSessionPerClient
               /\ SourcesAreSpent
               /\ KeyMintsOnce

\* The invariant holds initially.
LEMMA InitInv == Init => RegistryInv
  BY MaxTokensIsNat DEF Init, RegistryInv, TypeOK, OneSessionPerClient, SourcesAreSpent,
                        KeyMintsOnce, Minted, Id

\* What the session that createToken mints is.
LEMMA MintedFacts ==
  ASSUME TypeOK, NEW c \in Clients \cup {"nobody"}, NEW from \in SUBSET Id,
         MintSession(minted + 1, c, from)
  PROVE  /\ minted + 1 \in Id /\ minted + 1 \notin Minted
         /\ minted' = minted + 1 /\ Minted' = Minted \cup {minted + 1}
         /\ client' \in [Id -> Clients \cup {"nobody"}]
         /\ kind' \in [Id -> {"session", "setup"}]
         /\ source' \in [Id -> SUBSET Id]
         /\ live' \in SUBSET Minted'
         /\ client'[minted + 1] = c /\ kind'[minted + 1] = "session"
         /\ source'[minted + 1] = from
         /\ \A j \in Id : j # minted + 1 => /\ client'[j] = client[j]
                                            /\ kind'[j] = kind[j]
                                            /\ source'[j] = source[j]
  <1> DEFINE new == minted + 1
  <1>1. /\ new \in Id /\ new \notin Minted
        /\ minted' = new /\ Minted' = Minted \cup {new}
    BY MaxTokensIsNat DEF TypeOK, MintSession, Minted, Id
  <1>2. live' \in SUBSET Minted'
    BY <1>1 DEF TypeOK, MintSession
  <1>3. /\ client' = [client EXCEPT ![new] = c]
        /\ kind' = [kind EXCEPT ![new] = "session"]
        /\ source' = [source EXCEPT ![new] = from]
    BY DEF MintSession
  <1> HIDE DEF new
  <1>4. /\ client' \in [Id -> Clients \cup {"nobody"}]
        /\ kind' \in [Id -> {"session", "setup"}]
        /\ source' \in [Id -> SUBSET Id]
        /\ client'[new] = c /\ kind'[new] = "session" /\ source'[new] = from
        /\ \A j \in Id : j # new => /\ client'[j] = client[j]
                                   /\ kind'[j] = kind[j]
                                   /\ source'[j] = source[j]
    BY <1>1, <1>3 DEF TypeOK
  <1> QED BY <1>1, <1>2, <1>4 DEF new

\* createToken leaves the client one session: the one session it had is the
\* first that the loop meets.
LEMMA MintKeepsOne ==
  ASSUME TypeOK, OneSessionPerClient, NEW c \in Clients \cup {"nobody"}, NEW from \in SUBSET Id,
         MintSession(minted + 1, c, from)
  PROVE  OneSessionPerClient'
  <1> DEFINE new == minted + 1
  <1> SUFFICES ASSUME NEW j \in live', NEW k \in live', kind'[j] = "session",
                      kind'[k] = "session", client'[j] = client'[k], j # k
               PROVE  FALSE
    BY DEF OneSessionPerClient
  <1>1. /\ new \in Id /\ new \notin Minted
        /\ live' \in SUBSET Minted' /\ Minted' = Minted \cup {new}
        /\ client'[new] = c
        /\ \A i \in Id : i # new => client'[i] = client[i] /\ kind'[i] = kind[i]
    BY MintedFacts
  <1>2. Minted \subseteq Id
    BY MaxTokensIsNat DEF TypeOK, Minted, Id
  <1>3. live' = (live \ {i \in live : IsFirst(i, SessionsOf(c))}) \cup {new}
    BY DEF MintSession
  <1>4. ASSUME NEW i \in live', i # new, kind'[i] = "session", client'[i] = c
        PROVE  FALSE
    <2>1. i \in live /\ i \in Minted /\ i \in Id
      BY <1>1, <1>2, <1>3, <1>4 DEF TypeOK
    <2>2. i \in SessionsOf(c)
      BY <1>1, <1>4, <2>1 DEF SessionsOf
    <2>3. \A h \in SessionsOf(c) : h = i
      BY <2>2 DEF SessionsOf, OneSessionPerClient
    <2>4. IsFirst(i, SessionsOf(c))
      BY <2>1, <2>2, <2>3, MaxTokensIsNat DEF IsFirst, Id
    <2> QED BY <1>3, <1>4, <2>4
  <1>5. CASE j = new \/ k = new
    BY <1>1, <1>4, <1>5
  <1>6. CASE j # new /\ k # new
    <2>1. j \in live /\ k \in live /\ j \in Id /\ k \in Id
      BY <1>2, <1>3, <1>6 DEF TypeOK
    <2> QED BY <1>1, <1>6, <2>1 DEF OneSessionPerClient
  <1> QED BY <1>5, <1>6

\* The two facts about setup keys survive a session minted for key k, or for
\* none: a key that is still unspent has minted nothing.
LEMMA MintKeepsSources ==
  ASSUME TypeOK, SourcesAreSpent, KeyMintsOnce, NEW c \in Clients \cup {"nobody"},
         NEW from \in SUBSET Id, MintSession(minted + 1, c, from),
         from = {} \/ \E k \in Id : from = {k} /\ k \notin spent /\ k \in spent',
         spent \subseteq spent'
  PROVE  SourcesAreSpent' /\ KeyMintsOnce'
  <1> DEFINE new == minted + 1
  <1>1. /\ new \in Id /\ new \notin Minted /\ Minted' = Minted \cup {new}
        /\ source'[new] = from
        /\ \A j \in Id : j # new => source'[j] = source[j]
    BY MintedFacts
  <1>2. SourcesAreSpent'
    BY <1>1 DEF SourcesAreSpent
  <1>3. ASSUME NEW j \in Id, j # new, from # {}
        PROVE  source[j] # from
    BY <1>3 DEF SourcesAreSpent
  <1>4. KeyMintsOnce'
    BY <1>1, <1>3 DEF KeyMintsOnce
  <1> QED BY <1>2, <1>4

\* A step that mints nothing, keeps the tokens' data and lets none come alive
\* keeps the invariant.
LEMMA QuietStep ==
  ASSUME RegistryInv, UNCHANGED <<minted, client, kind, refused, issued, source>>,
         live' \subseteq live, spent \subseteq spent', TypeOK'
  PROVE  RegistryInv'
  BY DEF RegistryInv, OneSessionPerClient, SourcesAreSpent, KeyMintsOnce, Minted

\* Every step keeps the invariant.
LEMMA NextInv == RegistryInv /\ [Next]_vars => RegistryInv'
  <1> SUFFICES ASSUME RegistryInv, [Next]_vars PROVE RegistryInv'
    OBVIOUS
  <1>0. Minted \subseteq Id
    BY MaxTokensIsNat DEF RegistryInv, TypeOK, Minted, Id
  <1>1. ASSUME NEW c \in Clients, CreateToken(c) PROVE RegistryInv'
    <2> USE <1>1 DEF RegistryInv, CreateToken
    <2>1. MintSession(minted + 1, c, {})
      OBVIOUS
    <2>2. TypeOK'
      <3>1. spent \cup refused \cup counted \cup expired \cup ran \subseteq Minted
        BY DEF TypeOK
      <3>2. \A j \in Minted : kind'[j] = kind[j] /\ j \in Minted'
        BY <2>1, MintedFacts, MaxTokensIsNat DEF TypeOK, Minted, Id
      <3> QED BY <2>1, <3>1, <3>2, MintedFacts, MaxTokensIsNat DEF TypeOK, Id
    <2>3. OneSessionPerClient'
      BY <2>1, MintKeepsOne
    <2>4. SourcesAreSpent' /\ KeyMintsOnce'
      BY <2>1, MintKeepsSources
    <2> QED BY <2>2, <2>3, <2>4
  <1>2. ASSUME NEW c \in Clients, CreateSetupKey(c) PROVE RegistryInv'
    <2> DEFINE new == minted + 1
    <2> USE <1>2 DEF RegistryInv, CreateSetupKey
    <2>1. /\ new \in Id /\ new \notin Minted /\ Minted' = Minted \cup {new}
          /\ minted' = new
      BY MaxTokensIsNat DEF TypeOK, Minted, Id
    <2>2. /\ kind'[new] = "setup"
          /\ \A j \in Id : j # new => client'[j] = client[j] /\ kind'[j] = kind[j]
      BY <2>1 DEF TypeOK
    <2>3. TypeOK'
      BY <2>1, MaxTokensIsNat DEF TypeOK, Id
    <2>4. OneSessionPerClient'
      BY <1>0, <2>1, <2>2 DEF OneSessionPerClient, TypeOK
    <2>5. SourcesAreSpent' /\ KeyMintsOnce'
      BY <2>1 DEF SourcesAreSpent, KeyMintsOnce
    <2> QED BY <2>3, <2>4, <2>5
  <1>3. ASSUME NEW k \in Id, Exchange(k) PROVE RegistryInv'
    <2> USE <1>3 DEF RegistryInv, Exchange
    <2>0. k \in Minted /\ k \in live
      BY DEF Presentable, TypeOK
    <2>1. client[k] \in Clients \cup {"nobody"} /\ MintSession(minted + 1, client[k], {k})
      BY DEF TypeOK
    <2>2. /\ minted + 1 \in Id /\ Minted' = Minted \cup {minted + 1}
          /\ live' \in SUBSET Minted'
          /\ minted' = minted + 1
      BY <2>1, MintedFacts
    <2>3. TypeOK'
      <3>1. spent' \cup refused \cup counted \cup expired \cup ran \subseteq Minted'
        BY <2>0, <2>2 DEF TypeOK
      <3>2. issued' \in [Id -> SUBSET Id] /\ minted' \in 0 .. MaxTokens
        BY <2>2, MaxTokensIsNat DEF TypeOK, Id
      <3>3. \A j \in Minted : kind'[j] = kind[j] /\ j \in Minted'
        <4>1. TypeOK /\ {k} \in SUBSET Id
          OBVIOUS
        <4>2. \A j \in Id : j # minted + 1 => kind'[j] = kind[j]
          BY <2>1, <4>1, MintedFacts
        <4>3. \A j \in Minted : j \in Id /\ j # minted + 1
          BY <4>1, MaxTokensIsNat DEF TypeOK, Minted, Id
        <4> QED BY <2>2, <4>2, <4>3
      <3>4. kind[k] = "setup"
        BY DEF Presentable
      <3>5. spent' \in SUBSET {j \in Minted' : kind'[j] = "setup"}
        BY <2>0, <3>3, <3>4 DEF TypeOK
      <3>6. /\ client' \in [Id -> Clients \cup {"nobody"}]
            /\ kind' \in [Id -> {"session", "setup"}]
            /\ source' \in [Id -> SUBSET Id]
        BY <2>1, MintedFacts
      <3> QED BY <2>2, <3>1, <3>2, <3>5, <3>6 DEF TypeOK
    <2>4. OneSessionPerClient'
      BY <2>1, MintKeepsOne
    <2>5. SourcesAreSpent' /\ KeyMintsOnce'
      BY <2>1, MintKeepsSources
    <2> QED BY <2>3, <2>4, <2>5
  <1>4. ASSUME NEW k \in Id,
               \/ ExchangeThrows(k) \/ DropExpired(k) \/ Command(k) \/ Batch(k) \/ Expire(k)
        PROVE  RegistryInv'
    <2>1. /\ UNCHANGED <<minted, client, kind, refused, issued, source>>
          /\ live' \subseteq live /\ spent \subseteq spent'
      BY <1>4 DEF ExchangeThrows, DropExpired, Command, Batch, Expire
    <2>2. TypeOK'
      BY <1>4, <2>1 DEF RegistryInv, TypeOK, Minted, ExchangeThrows, Presentable,
                        DropExpired, Command, Batch, Expire
    <2> QED BY <2>1, <2>2, QuietStep
  <1>5. ASSUME (\E c \in Clients : Revoke(c)) \/ ListTokens \/ RotateRoot \/ Restore
        PROVE  RegistryInv'
    <2>1. /\ UNCHANGED <<minted, client, kind, refused, issued, source, spent, expired, ran>>
          /\ live' \subseteq live /\ counted' \subseteq counted
      BY <1>5 DEF Revoke, ListTokens, RotateRoot, Restore
    <2>2. TypeOK'
      BY <2>1 DEF RegistryInv, TypeOK, Minted
    <2> QED BY <2>1, <2>2, QuietStep
  <1>6. CASE UNCHANGED vars
    BY <1>6 DEF vars, RegistryInv, TypeOK, OneSessionPerClient, SourcesAreSpent,
                KeyMintsOnce, Minted
  <1> QED BY <1>1, <1>2, <1>3, <1>4, <1>5, <1>6 DEF Next

\* The invariant of the registry.
THEOREM Invariance == Spec => []RegistryInv
  <1> QED BY InitInv, NextInv, PTL DEF Spec

\* Every variable keeps its range.
THEOREM TypeCorrect == Spec => []TypeOK
  <1>1. RegistryInv => TypeOK
    BY DEF RegistryInv
  <1> QED BY <1>1, Invariance, PTL

\* A client has at most one live session.
THEOREM SingleSession == Spec => []OneSessionPerClient
  <1>1. RegistryInv => OneSessionPerClient
    BY DEF RegistryInv
  <1> QED BY <1>1, Invariance, PTL

\* A setup key mints at most one session.
THEOREM SingleExchange == Spec => []KeyMintsOnce
  <1>1. RegistryInv => KeyMintsOnce
    BY DEF RegistryInv
  <1> QED BY <1>1, Invariance, PTL

-----------------------------------------------------------------------------

\* The session a key is answered with was minted for it, for the key's client.
IssuedIsOwn == \A k, s \in Id : s \in issued[k] => /\ k \in Minted /\ s \in Minted
                                                   /\ source[s] = {k}
                                                   /\ client[s] = client[k]

\* While the key of an expired session is still in the map, it has expired too.
KeyExpiresFirst == \A s \in expired : source[s] \cap live \subseteq expired

ReissueInv == IssuedIsOwn /\ KeyExpiresFirst

\* A step that mints token new and keeps the data of the others, and issues new
\* at most to the key it came from, keeps both facts.
LEMMA MintKeepsReissue ==
  ASSUME RegistryInv, ReissueInv, NEW new \in Id, new \notin Minted,
         Minted' = Minted \cup {new}, live' \subseteq live \cup {new},
         UNCHANGED expired,
         \A j \in Id : j # new => client'[j] = client[j] /\ source'[j] = source[j],
         \A k \in Id : \/ issued'[k] = issued[k]
                       \/ /\ k \in Minted /\ issued'[k] = {new}
                          /\ source'[new] = {k} /\ client'[new] = client[k]
  PROVE  ReissueInv'
  <1>1. IssuedIsOwn'
    <2> SUFFICES ASSUME NEW k \in Id, NEW s \in Id, s \in issued'[k]
                 PROVE  /\ k \in Minted' /\ s \in Minted'
                        /\ source'[s] = {k} /\ client'[s] = client'[k]
      BY DEF IssuedIsOwn
    <2>1. CASE issued'[k] = issued[k]
      BY <2>1 DEF ReissueInv, IssuedIsOwn
    <2>2. CASE /\ k \in Minted /\ issued'[k] = {new}
               /\ source'[new] = {k} /\ client'[new] = client[k]
      BY <2>2
    <2> QED BY <2>1, <2>2
  <1>2. KeyExpiresFirst'
    <2> SUFFICES ASSUME NEW s \in expired, NEW k \in source'[s], k \in live'
                 PROVE  k \in expired
      BY DEF KeyExpiresFirst
    <2>1. s \in Minted /\ s \in Id /\ s # new
      BY MaxTokensIsNat DEF RegistryInv, TypeOK, Minted, Id
    <2>2. k \in source[s] /\ k \in Id
      BY <2>1 DEF RegistryInv, TypeOK
    <2>3. k \in Minted /\ k # new
      BY <2>1, <2>2 DEF RegistryInv, SourcesAreSpent, TypeOK
    <2> QED BY <2>2, <2>3 DEF ReissueInv, KeyExpiresFirst
  <1> QED BY <1>1, <1>2 DEF ReissueInv

\* Every step keeps both facts.
LEMMA ReissueNext == RegistryInv /\ ReissueInv /\ [Next]_vars => ReissueInv'
  <1> SUFFICES ASSUME RegistryInv, ReissueInv, [Next]_vars PROVE ReissueInv'
    OBVIOUS
  <1> DEFINE new == minted + 1
  <1>0. TypeOK
    BY DEF RegistryInv
  <1>1. ASSUME NEW c \in Clients, CreateToken(c) PROVE ReissueInv'
    <2>1. MintSession(minted + 1, c, {}) /\ UNCHANGED <<issued, expired>>
      BY <1>1 DEF CreateToken
    <2>2. live' \subseteq live \cup {new}
      BY <2>1 DEF MintSession
    <2>3. /\ new \in Id /\ new \notin Minted /\ Minted' = Minted \cup {new}
          /\ \A j \in Id : j # new => client'[j] = client[j] /\ source'[j] = source[j]
      BY <1>0, <2>1, MintedFacts
    <2> HIDE DEF new
    <2> QED BY <2>1, <2>2, <2>3, MintKeepsReissue
  <1>2. ASSUME NEW c \in Clients, CreateSetupKey(c) PROVE ReissueInv'
    <2>1. /\ new \in Id /\ new \notin Minted /\ Minted' = Minted \cup {new}
          /\ live' \subseteq live \cup {new} /\ UNCHANGED <<issued, expired>>
      BY <1>0, <1>2, MaxTokensIsNat DEF CreateSetupKey, TypeOK, Minted, Id
    <2>2. \A j \in Id : j # new => client'[j] = client[j] /\ source'[j] = source[j]
      BY <1>0, <1>2 DEF CreateSetupKey, TypeOK
    <2> HIDE DEF new
    <2> QED BY <2>1, <2>2, MintKeepsReissue
  <1>3. ASSUME NEW k \in Id, Exchange(k) PROVE ReissueInv'
    <2>1. /\ client[k] \in Clients \cup {"nobody"} /\ {k} \in SUBSET Id
          /\ MintSession(minted + 1, client[k], {k})
          /\ issued' = [issued EXCEPT ![k] = {new}] /\ UNCHANGED expired
          /\ k \in Minted
      BY <1>0, <1>3 DEF Exchange, Presentable, TypeOK
    <2>2. live' \subseteq live \cup {new}
      BY <2>1 DEF MintSession
    <2>3. /\ new \in Id /\ new \notin Minted /\ Minted' = Minted \cup {new}
          /\ source'[new] = {k} /\ client'[new] = client[k]
          /\ \A j \in Id : j # new => client'[j] = client[j] /\ source'[j] = source[j]
      BY <1>0, <2>1, MintedFacts
    <2> HIDE DEF new
    <2>4. \A j \in Id : IF j = k THEN issued'[j] = {new} ELSE issued'[j] = issued[j]
      BY <1>0, <2>1 DEF TypeOK
    <2> QED BY <2>1, <2>2, <2>3, <2>4, MintKeepsReissue
  <1>4. ASSUME NEW k \in Id, Expire(k) PROVE ReissueInv'
    BY <1>4 DEF Expire, ReissueInv, IssuedIsOwn, KeyExpiresFirst, Minted
  <1>5. ASSUME \/ \E k \in Id : ExchangeThrows(k) \/ DropExpired(k) \/ Command(k) \/ Batch(k)
               \/ \E c \in Clients : Revoke(c)
               \/ ListTokens \/ RotateRoot \/ Restore \/ UNCHANGED vars
        PROVE  ReissueInv'
    <2>1. UNCHANGED <<minted, client, issued, source, expired>> /\ live' \subseteq live
      BY <1>5 DEF ExchangeThrows, DropExpired, Command, Batch, Revoke, ListTokens,
                  RotateRoot, Restore, vars
    <2> QED BY <2>1 DEF ReissueInv, IssuedIsOwn, KeyExpiresFirst, Minted
  <1> QED BY <1>1, <1>2, <1>3, <1>4, <1>5 DEF Next

\* A spent key is only ever answered with a session of its own client that has
\* not expired: the key would have expired first.
THEOREM LiveReissue == Spec => []ReissueIsLive
  <1>1. Init => ReissueInv
    BY DEF Init, ReissueInv, IssuedIsOwn, KeyExpiresFirst, Id
  <1>2. RegistryInv /\ ReissueInv => ReissueIsLive
    BY DEF ReissueInv, IssuedIsOwn, KeyExpiresFirst, ReissueIsLive, Reissues, Presentable
  <1> QED BY <1>1, <1>2, ReissueNext, Invariance, PTL DEF Spec
=============================================================================
