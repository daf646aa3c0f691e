------------------------- MODULE TokenGrants_proofs -------------------------
(***************************************************************************)
(* Theorems about the grant store for any number of handlers, clients,     *)
(* codes, tokens and sessions, any lifetimes and any caps.                 *)
(***************************************************************************)
EXTENDS TokenGrants, FiniteSetTheorems, TLAPS

\* A sweep replaces some entries of a map by Gone and adds none.
LEMMA RetainFacts ==
  ASSUME NEW K, NEW G, NEW t,
         NEW map \in [K -> G \cup {Fresh, Gone}]
  PROVE  /\ Retain(map, t) \in [K -> G \cup {Fresh, Gone}]
         /\ \A k \in K : Retain(map, t)[k] \in {map[k], Gone}
         /\ \A k \in K : map[k] \in {Fresh, Gone} => Retain(map, t)[k] = map[k]
         /\ \A k \in K : Retain(map, t)[k] # map[k] => Expired(map[k], t)
BY DEF Retain, Live

\* What is present in a map is a grant of the map's kind.
LEMMA LiveFacts ==
  ASSUME NEW K, NEW G, NEW map \in [K -> G \cup {Fresh, Gone}]
  PROVE  /\ Live(map) = {k \in K : map[k] \notin {Fresh, Gone}}
         /\ \A k \in Live(map) : k \in K /\ map[k] \in G
BY DEF Live

\* The expiry of an access grant is a time, and none after the session's end.
LEMMA ExpiryFacts ==
  ASSUME NEW s \in Sessions, NEW t \in Nat
  PROVE  ExpiryAt(s, t) \in Int /\ Within(s, ExpiryAt(s, t))
BY GrantConstants DEF ExpiryAt, Within

\* The fields of what the maps and the handlers hold.
LEMMA StoredFields ==
  ASSUME TypeOK
  PROVE  /\ \A c \in Live(codes) :
              /\ c \in Codes
              /\ codes[c].client \in Clients /\ codes[c].session \in Sessions
         /\ \A t \in Live(access) :
              /\ t \in AccessTokens /\ access[t].origin \in Codes
              /\ access[t].session \in Sessions /\ access[t].expires \in Int
         /\ \A r \in Live(refresh) :
              /\ r \in RefreshTokens /\ refresh[r].origin \in Codes
              /\ refresh[r].client \in Clients
              /\ refresh[r].session \in Sessions /\ refresh[r].expires \in Int
         /\ \A h \in InFlight :
              /\ h \in Handlers /\ carried[h].origin \in Codes
              /\ carried[h].client \in Clients /\ carried[h].session \in Sessions
<1>1. \A c \in Live(codes) : c \in Codes /\ codes[c] \in CodeGrant
  BY LiveFacts DEF TypeOK
<1>2. \A t \in Live(access) : t \in AccessTokens /\ access[t] \in AccessGrant
  BY LiveFacts DEF TypeOK
<1>3. \A r \in Live(refresh) : r \in RefreshTokens /\ refresh[r] \in RefreshGrant
  BY LiveFacts DEF TypeOK
<1>4. \A h \in InFlight : h \in Handlers /\ carried[h] \in Authority
  BY DEF TypeOK, InFlight
<1> QED
  BY <1>1, <1>2, <1>3, <1>4 DEF CodeGrant, AccessGrant, RefreshGrant, Authority

\* What a handler inserts is a grant, hence none of the sentinels.
LEMMA NewGrants ==
  ASSUME TypeOK, NEW h \in Handlers, carried[h] # Nobody
  PROVE  /\ [session |-> carried[h].session, origin |-> carried[h].origin,
             expires |-> accessExpiry[h]] \in AccessGrant
         /\ [session |-> carried[h].session, origin |-> carried[h].origin,
             expires |-> accessExpiry[h]] \notin {Fresh, Gone}
         /\ [client |-> carried[h].client, session |-> carried[h].session,
             origin |-> carried[h].origin, expires |-> RefreshExpiry(h)]
              \in RefreshGrant
         /\ [client |-> carried[h].client, session |-> carried[h].session,
             origin |-> carried[h].origin, expires |-> RefreshExpiry(h)]
              \notin {Fresh, Gone}
<1>1. carried[h] \in Authority /\ accessExpiry[h] \in Int
  BY DEF TypeOK
<1>2. RefreshExpiry(h) \in Int
  BY <1>1, GrantConstants DEF Authority, RefreshExpiry
<1>3. [session |-> carried[h].session, origin |-> carried[h].origin,
       expires |-> accessExpiry[h]] \in AccessGrant
  BY <1>1 DEF Authority, AccessGrant
<1>4. [client |-> carried[h].client, session |-> carried[h].session,
       origin |-> carried[h].origin, expires |-> RefreshExpiry(h)] \in RefreshGrant
  BY <1>1, <1>2 DEF Authority, RefreshGrant
<1> QED
  BY <1>3, <1>4, GrantSentinels

-----------------------------------------------------------------------------
\* The variables start with their types.
LEMMA TypeInit == Init => TypeOK
BY DEF Init, TypeOK, Steps, Issuing

\* A handler that answers or is dropped is idle and carries nothing.
LEMMA ReleaseType ==
  ASSUME TypeOK, NEW h \in Handlers, Release(h)
  PROVE  /\ pc' \in [Handlers -> Steps]
         /\ carried' \in [Handlers -> Authority \cup {Nobody}]
         /\ asOf' \in [Handlers -> Nat]
         /\ accessExpiry' \in [Handlers -> Int]
         /\ \A g \in Handlers : /\ pc'[g] \in Issuing => carried'[g] # Nobody
                                /\ pc'[g] = "idle" => carried'[g] = Nobody
BY DEF TypeOK, Release, Goto, Steps, Issuing

\* Every step keeps the types.
LEMMA TypeStep == TypeOK /\ [Next]_vars => TypeOK'
<1> SUFFICES ASSUME TypeOK, [Next]_vars
             PROVE  TypeOK'
  OBVIOUS
<1> USE DEF Issuing, Steps
<1>1. ASSUME NEW c \in Codes, NEW client \in Clients, NEW redirect \in Redirects,
             NEW v \in Verifiers, NEW s \in Sessions,
             GrantCode(c, client, redirect, v, s)
      PROVE  TypeOK'
  <2>1. PICK asked \in 0..now : codes' = [codes EXCEPT ![c] =
          [client |-> client, redirect |-> redirect, challenge |-> v,
           session |-> s, expires |-> asked + CodeTtl]]
    BY <1>1 DEF GrantCode
  <2>2. codes' \in [Codes -> CodeGrant \cup {Fresh, Gone}]
    <3>1. asked + CodeTtl \in Int
      BY GrantConstants DEF TypeOK
    <3> QED
      BY <2>1, <3>1 DEF TypeOK, CodeGrant
  <2>3. minted' \in [Codes -> Authority \cup {Nobody}]
    BY <1>1 DEF TypeOK, GrantCode, Authority
  <2> QED
    BY <1>1, <2>2, <2>3 DEF TypeOK, GrantCode, locals
<1>2. ASSUME NEW h \in Handlers, CodeRequest(h)
      PROVE  TypeOK'
  <2> PICK c \in Codes, client \in Clients, redirect \in Redirects, v \in Verifiers :
         RedeemCode(h, c, client, redirect, v) \/ RejectCode(c, client, redirect, v)
    BY <1>2 DEF CodeRequest
  <2>1. CASE RedeemCode(h, c, client, redirect, v)
    <3>1. codes[c] \in CodeGrant
      BY <2>1, LiveFacts DEF TypeOK, RedeemCode
    <3>2. [client |-> codes[c].client, session |-> codes[c].session,
           origin |-> c] \in Authority
      BY <3>1 DEF CodeGrant, Authority
    <3> QED
      BY <2>1, <3>2, GrantSentinels DEF TypeOK, RedeemCode, Carry, TakeCode, Goto
  <2>2. CASE RejectCode(c, client, redirect, v)
    BY <2>2 DEF TypeOK, RejectCode, TakeCode, locals
  <2> QED
    BY <2>1, <2>2
<1>3. ASSUME NEW h \in Handlers, RefreshRequest(h)
      PROVE  TypeOK'
  <2> PICK r \in RefreshTokens, client \in Clients \cup {NoClient} :
         RedeemRefresh(h, r, client) \/ RejectRefresh(r, client)
    BY <1>3 DEF RefreshRequest
  <2>1. CASE RedeemRefresh(h, r, client)
    <3>1. refresh[r] \in RefreshGrant
      BY <2>1, LiveFacts DEF TypeOK, RedeemRefresh
    <3>2. [client |-> refresh[r].client, session |-> refresh[r].session,
           origin |-> refresh[r].origin] \in Authority
      BY <3>1 DEF RefreshGrant, Authority
    <3> QED
      BY <2>1, <3>2, GrantSentinels DEF TypeOK, RedeemRefresh, Carry, TakeRefresh, Goto
  <2>2. CASE RejectRefresh(r, client)
    BY <2>2 DEF TypeOK, RejectRefresh, TakeRefresh, locals
  <2> QED
    BY <2>1, <2>2
<1>4. ASSUME NEW h \in Handlers, BeginSweep(h)
      PROVE  TypeOK'
  BY <1>4 DEF TypeOK, BeginSweep, Goto
<1>5. ASSUME NEW h \in Handlers, IssueStep(h)
      PROVE  TypeOK'
  <2>1. CASE SweepCodes(h)
    BY <2>1, RetainFacts DEF TypeOK, SweepCodes, Goto
  <2>2. CASE SweepAccess(h)
    BY <2>2, RetainFacts DEF TypeOK, SweepAccess, Goto
  <2>3. CASE SweepRefresh(h)
    <3>1. refresh' \in [RefreshTokens -> RefreshGrant \cup {Fresh, Gone}]
      BY <2>3, RetainFacts DEF TypeOK, SweepRefresh
    <3>2. CASE Release(h)
      BY <2>3, <3>1, <3>2, ReleaseType DEF TypeOK, SweepRefresh
    <3>3. CASE ~Release(h)
      BY <2>3, <3>1, <3>3 DEF TypeOK, SweepRefresh, Goto
    <3> QED
      BY <3>2, <3>3
  <2>4. CASE CountAccess(h)
    <3>1. CASE Release(h)
      BY <2>4, <3>1, ReleaseType DEF TypeOK, CountAccess
    <3>2. CASE ~Release(h)
      BY <2>4, <3>2 DEF TypeOK, CountAccess, Goto
    <3> QED
      BY <3>1, <3>2
  <2>5. CASE CountRefresh(h)
    <3>1. CASE Release(h)
      BY <2>5, <3>1, ReleaseType DEF TypeOK, CountRefresh
    <3>2. CASE ~Release(h)
      <4>1. carried[h].session \in Sessions
        BY <2>5 DEF TypeOK, CountRefresh, Authority
      <4>2. ExpiryAt(carried[h].session, now) \in Int
        BY <4>1, ExpiryFacts DEF TypeOK
      <4> QED
        BY <2>5, <3>2, <4>2 DEF TypeOK, CountRefresh, Goto
    <3> QED
      BY <3>1, <3>2
  <2>6. ASSUME NEW t \in AccessTokens, InsertAccess(h, t)
        PROVE  TypeOK'
    BY <2>6, NewGrants DEF TypeOK, InsertAccess, Goto
  <2>7. ASSUME NEW r \in RefreshTokens, InsertRefresh(h, r)
        PROVE  TypeOK'
    <3>1. refresh' \in [RefreshTokens -> RefreshGrant \cup {Fresh, Gone}]
      BY <2>7, NewGrants DEF TypeOK, InsertRefresh
    <3> QED
      BY <2>7, <3>1, ReleaseType DEF TypeOK, InsertRefresh
  <2> QED
    BY <1>5, <2>1, <2>2, <2>3, <2>4, <2>5, <2>6, <2>7 DEF IssueStep
<1>6. ASSUME NEW h \in Handlers, Disconnect(h)
      PROVE  TypeOK'
  BY <1>6, ReleaseType DEF TypeOK, Disconnect
<1>7. ASSUME NEW t \in AccessTokens, LookupExpired(t)
      PROVE  TypeOK'
  BY <1>7 DEF TypeOK, LookupExpired, locals
<1>8. CASE Tick
  BY <1>8 DEF TypeOK, Tick, locals
<1>9. CASE UNCHANGED vars
  BY <1>9 DEF TypeOK, vars
<1> QED
  BY <1>1, <1>2, <1>3, <1>4, <1>5, <1>6, <1>7, <1>8, <1>9 DEF Next

\* The maps hold grants of their own kind, and a handler carries an authority
\* while it issues tokens for it and at no time when it is idle.
THEOREM TypeCorrect == Spec => []TypeOK
BY TypeInit, TypeStep, PTL DEF Spec

-----------------------------------------------------------------------------
\* Steps that hand no authority on: redeemed codes stay redeemed, handlers at
\* most let go of what they carry, refresh grants at most disappear.
LEMMA HeldOnceShrinks ==
  ASSUME TypeOK, TypeOK', AuthorityHeldOnce,
         \A c \in Codes : codes[c] = Gone => codes'[c] = Gone,
         \A h \in Handlers : carried'[h] \in {carried[h], Nobody},
         \A r \in RefreshTokens : refresh'[r] \in {refresh[r], Gone}
  PROVE  AuthorityHeldOnce'
<1>1. InFlight' \subseteq InFlight /\ \A h \in InFlight' : carried'[h] = carried[h]
  BY DEF InFlight
<1>2. Live(refresh') \subseteq Live(refresh)
      /\ \A r \in Live(refresh') : refresh'[r] = refresh[r]
  BY DEF TypeOK, Live
<1> QED
  BY <1>1, <1>2, StoredFields DEF AuthorityHeldOnce

\* A handler that takes authority a from a code or a refresh grant nobody else
\* holds is the only one to hold it.
LEMMA HeldOnceTaken ==
  ASSUME TypeOK, TypeOK', AuthorityHeldOnce,
         NEW h \in Handlers, carried[h] = Nobody,
         NEW a \in Authority, carried' = [carried EXCEPT ![h] = a],
         \A c \in Codes : codes[c] = Gone => codes'[c] = Gone,
         codes'[a.origin] = Gone,
         \A r \in RefreshTokens : refresh'[r] \in {refresh[r], Gone},
         \A r \in Live(refresh') : refresh[r].origin # a.origin,
         \A g \in InFlight : carried[g].origin # a.origin
  PROVE  AuthorityHeldOnce'
<1>1. /\ InFlight' = InFlight \cup {h} /\ h \notin InFlight /\ carried'[h] = a
      /\ \A g \in InFlight : carried'[g] = carried[g]
  BY GrantSentinels DEF InFlight, TypeOK
<1>2. Live(refresh') \subseteq Live(refresh)
      /\ \A r \in Live(refresh') : refresh'[r] = refresh[r]
  BY DEF TypeOK, Live
<1>3. \A g \in InFlight' : codes'[carried'[g].origin] = Gone
  BY <1>1, StoredFields DEF AuthorityHeldOnce
<1>4. \A r \in Live(refresh') : codes'[refresh'[r].origin] = Gone
  BY <1>2, StoredFields DEF AuthorityHeldOnce
<1>5. \A g, f \in InFlight' : carried'[g].origin = carried'[f].origin => g = f
  BY <1>1 DEF AuthorityHeldOnce
<1>6. \A r, q \in Live(refresh') :
         refresh'[r].origin = refresh'[q].origin => r = q
  BY <1>2 DEF AuthorityHeldOnce
<1>7. \A g \in InFlight', r \in Live(refresh') :
         carried'[g].origin # refresh'[r].origin
  BY <1>1, <1>2 DEF AuthorityHeldOnce
<1> QED
  BY <1>3, <1>4, <1>5, <1>6, <1>7 DEF AuthorityHeldOnce

\* No authority is held before the first sign-in.
LEMMA HeldOnceInit == Init => AuthorityHeldOnce
BY DEF Init, AuthorityHeldOnce, InFlight, Live

\* Every step keeps an authority in one place.
LEMMA HeldOnceStep ==
  TypeOK /\ TypeOK' /\ AuthorityHeldOnce /\ [Next]_vars => AuthorityHeldOnce'
<1> SUFFICES ASSUME TypeOK, TypeOK', AuthorityHeldOnce, [Next]_vars
             PROVE  AuthorityHeldOnce'
  OBVIOUS
<1>1. ASSUME NEW c \in Codes, NEW client \in Clients, NEW redirect \in Redirects,
             NEW v \in Verifiers, NEW s \in Sessions,
             GrantCode(c, client, redirect, v, s)
      PROVE  AuthorityHeldOnce'
  BY <1>1, GrantSentinels, HeldOnceShrinks DEF TypeOK, GrantCode, locals
<1>2. ASSUME NEW h \in Handlers, CodeRequest(h)
      PROVE  AuthorityHeldOnce'
  <2> PICK c \in Codes, client \in Clients, redirect \in Redirects, v \in Verifiers :
         RedeemCode(h, c, client, redirect, v) \/ RejectCode(c, client, redirect, v)
    BY <1>2 DEF CodeRequest
  <2>1. CASE RedeemCode(h, c, client, redirect, v)
    <3> DEFINE a == [client |-> codes[c].client, session |-> codes[c].session,
                     origin |-> c]
    <3>1. codes[c] \in CodeGrant /\ codes[c] # Gone
      BY <2>1, LiveFacts DEF TypeOK, RedeemCode
    <3>2. a \in Authority /\ a.origin = c
      BY <3>1 DEF CodeGrant, Authority
    <3>3. carried[h] = Nobody /\ carried' = [carried EXCEPT ![h] = a]
      BY <2>1 DEF TypeOK, RedeemCode, Carry
    <3>4. codes'[c] = Gone /\ \A d \in Codes : codes[d] = Gone => codes'[d] = Gone
      BY <2>1 DEF TypeOK, RedeemCode, TakeCode
    <3>5. refresh' = refresh
      BY <2>1 DEF RedeemCode
    <3>6. \A r \in Live(refresh') : refresh[r].origin # c
      BY <3>1, <3>5 DEF AuthorityHeldOnce
    <3>7. \A g \in InFlight : carried[g].origin # c
      BY <3>1 DEF AuthorityHeldOnce
    <3> HIDE DEF a
    <3> QED
      BY <3>2, <3>3, <3>4, <3>5, <3>6, <3>7, HeldOnceTaken
  <2>2. CASE RejectCode(c, client, redirect, v)
    BY <2>2, HeldOnceShrinks DEF TypeOK, RejectCode, TakeCode, locals
  <2> QED
    BY <2>1, <2>2
<1>3. ASSUME NEW h \in Handlers, RefreshRequest(h)
      PROVE  AuthorityHeldOnce'
  <2> PICK r \in RefreshTokens, client \in Clients \cup {NoClient} :
         RedeemRefresh(h, r, client) \/ RejectRefresh(r, client)
    BY <1>3 DEF RefreshRequest
  <2>1. CASE RedeemRefresh(h, r, client)
    <3> DEFINE a == [client |-> refresh[r].client, session |-> refresh[r].session,
                     origin |-> refresh[r].origin]
    <3>1. r \in Live(refresh) /\ refresh[r] \in RefreshGrant
      BY <2>1, LiveFacts DEF TypeOK, RedeemRefresh
    <3>2. a \in Authority /\ a.origin = refresh[r].origin
      BY <3>1 DEF RefreshGrant, Authority
    <3>3. carried[h] = Nobody /\ carried' = [carried EXCEPT ![h] = a]
      BY <2>1 DEF TypeOK, RedeemRefresh, Carry
    <3>4. codes' = codes /\ codes[a.origin] = Gone
      BY <2>1, <3>1, <3>2 DEF RedeemRefresh, AuthorityHeldOnce
    <3>5. \A q \in RefreshTokens : refresh'[q] \in {refresh[q], Gone}
      BY <2>1 DEF TypeOK, RedeemRefresh, TakeRefresh
    <3>6. \A q \in Live(refresh') : refresh[q].origin # a.origin
      BY <2>1, <3>1, <3>2 DEF TypeOK, RedeemRefresh, TakeRefresh, Live, AuthorityHeldOnce
    <3>7. \A g \in InFlight : carried[g].origin # a.origin
      BY <3>1, <3>2 DEF AuthorityHeldOnce
    <3> HIDE DEF a
    <3> QED
      BY <3>2, <3>3, <3>4, <3>5, <3>6, <3>7, HeldOnceTaken
  <2>2. CASE RejectRefresh(r, client)
    BY <2>2, HeldOnceShrinks DEF TypeOK, RejectRefresh, TakeRefresh, locals
  <2> QED
    BY <2>1, <2>2
<1>4. ASSUME NEW h \in Handlers, BeginSweep(h)
      PROVE  AuthorityHeldOnce'
  BY <1>4, HeldOnceShrinks DEF BeginSweep
<1>5. ASSUME NEW h \in Handlers, IssueStep(h)
      PROVE  AuthorityHeldOnce'
  <2>1. CASE SweepCodes(h)
    BY <2>1, RetainFacts, HeldOnceShrinks DEF TypeOK, SweepCodes
  <2>2. CASE SweepAccess(h)
    BY <2>2, HeldOnceShrinks DEF SweepAccess
  <2>3. CASE SweepRefresh(h)
    <3>1. \A r \in RefreshTokens : refresh'[r] \in {refresh[r], Gone}
      BY <2>3, RetainFacts DEF TypeOK, SweepRefresh
    <3>2. \A g \in Handlers : carried'[g] \in {carried[g], Nobody}
      BY <2>3 DEF TypeOK, SweepRefresh, Release
    <3> QED
      BY <2>3, <3>1, <3>2, HeldOnceShrinks DEF SweepRefresh
  <2>4. CASE CountAccess(h)
    BY <2>4, HeldOnceShrinks DEF TypeOK, CountAccess, Release
  <2>5. CASE CountRefresh(h)
    BY <2>5, HeldOnceShrinks DEF TypeOK, CountRefresh, Release
  <2>6. ASSUME NEW t \in AccessTokens, InsertAccess(h, t)
        PROVE  AuthorityHeldOnce'
    BY <2>6, HeldOnceShrinks DEF InsertAccess
  <2>7. ASSUME NEW r \in RefreshTokens, InsertRefresh(h, r)
        PROVE  AuthorityHeldOnce'
    <3>1. h \in InFlight /\ carried[h] \in Authority
      BY <2>7 DEF TypeOK, InsertRefresh, Issuing, InFlight
    <3>2. /\ InFlight' = InFlight \ {h}
          /\ \A g \in InFlight' : carried'[g] = carried[g]
      BY <2>7 DEF TypeOK, InsertRefresh, Release, InFlight
    <3>3. /\ Live(refresh') = Live(refresh) \cup {r} /\ r \notin Live(refresh)
          /\ refresh'[r].origin = carried[h].origin
          /\ \A q \in Live(refresh) : refresh'[q] = refresh[q]
      <4> DEFINE grant == [client |-> carried[h].client,
                           session |-> carried[h].session,
                           origin |-> carried[h].origin,
                           expires |-> RefreshExpiry(h)]
      <4>1. grant \notin {Fresh, Gone} /\ grant.origin = carried[h].origin
        BY <3>1, NewGrants DEF InFlight
      <4>2. refresh[r] = Fresh /\ refresh' = [refresh EXCEPT ![r] = grant]
        BY <2>7 DEF InsertRefresh
      <4> HIDE DEF grant
      <4> QED
        BY <4>1, <4>2 DEF TypeOK, Live
    <3>4. codes' = codes
      BY <2>7 DEF InsertRefresh
    <3> QED
      BY <3>1, <3>2, <3>3, <3>4 DEF AuthorityHeldOnce
  <2> QED
    BY <1>5, <2>1, <2>2, <2>3, <2>4, <2>5, <2>6, <2>7 DEF IssueStep
<1>6. ASSUME NEW h \in Handlers, Disconnect(h)
      PROVE  AuthorityHeldOnce'
  BY <1>6, HeldOnceShrinks DEF TypeOK, Disconnect, Release
<1>7. ASSUME NEW t \in AccessTokens, LookupExpired(t)
      PROVE  AuthorityHeldOnce'
  BY <1>7, HeldOnceShrinks DEF LookupExpired, locals
<1>8. CASE Tick
  BY <1>8, HeldOnceShrinks DEF Tick, locals
<1>9. CASE UNCHANGED vars
  BY <1>9, HeldOnceShrinks DEF vars
<1> QED
  BY <1>1, <1>2, <1>3, <1>4, <1>5, <1>6, <1>7, <1>8, <1>9 DEF Next

\* However requests interleave, the code of a sign-in and the refresh grants
\* that descend from it are redeemable in one place at a time
\* (oauth.rs:696 and 721-727 remove before they check).
THEOREM HeldOnce == Spec => []AuthorityHeldOnce
BY TypeInit, TypeStep, HeldOnceInit, HeldOnceStep, PTL DEF Spec

-----------------------------------------------------------------------------
\* What GrantsKeepTheirSession needs to be inductive: a stored code says what
\* was granted, access grants descend from redeemed codes, and a handler about
\* to insert has an expiry within the session.
Inserting == {"insert_access", "insert_refresh"}

CodesAsMinted ==
  \A c \in Live(codes) :
    minted[c] = [client |-> codes[c].client, session |-> codes[c].session,
                 origin |-> c]

AccessRedeemed == \A t \in Live(access) : codes[access[t].origin] = Gone

ExpiryInSession ==
  \A h \in Handlers :
    pc[h] \in Inserting => Within(carried[h].session, accessExpiry[h])

SessionInv ==
  /\ TypeOK /\ AuthorityHeldOnce
  /\ GrantsKeepTheirSession /\ CodesAsMinted /\ AccessRedeemed /\ ExpiryInSession

\* Steps that grant nothing and insert nothing.
LEMMA SessionShrinks ==
  ASSUME SessionInv, TypeOK',
         minted' = minted,
         \A c \in Codes : codes'[c] \in {codes[c], Gone},
         \A t \in AccessTokens : access'[t] \in {access[t], Gone},
         \A r \in RefreshTokens : refresh'[r] \in {refresh[r], Gone},
         \A h \in Handlers : carried'[h] \in {carried[h], Nobody},
         \A h \in Handlers : pc'[h] \in Inserting =>
           /\ pc[h] \in Inserting
           /\ carried'[h] = carried[h] /\ accessExpiry'[h] = accessExpiry[h]
  PROVE  GrantsKeepTheirSession' /\ CodesAsMinted' /\ AccessRedeemed' /\ ExpiryInSession'
<1>1. /\ \A c \in Live(codes') : c \in Live(codes) /\ codes'[c] = codes[c]
      /\ \A t \in Live(access') : t \in Live(access) /\ access'[t] = access[t]
      /\ \A r \in Live(refresh') : r \in Live(refresh) /\ refresh'[r] = refresh[r]
      /\ \A h \in InFlight' : h \in InFlight /\ carried'[h] = carried[h]
  BY DEF SessionInv, TypeOK, Live, InFlight
<1>2. GrantsKeepTheirSession'
  BY <1>1 DEF SessionInv, GrantsKeepTheirSession, Within
<1>3. CodesAsMinted'
  BY <1>1 DEF SessionInv, CodesAsMinted
<1>4. AccessRedeemed'
  BY <1>1, StoredFields DEF SessionInv, AccessRedeemed
<1>5. ExpiryInSession'
  BY DEF SessionInv, ExpiryInSession, Within
<1> QED
  BY <1>2, <1>3, <1>4, <1>5

\* A handler takes over an authority as it was minted.
LEMMA SessionTaken ==
  ASSUME SessionInv, TypeOK',
         NEW h \in Handlers, carried[h] = Nobody,
         NEW a \in Authority, carried' = [carried EXCEPT ![h] = a],
         minted[a.origin] = a,
         minted' = minted, access' = access,
         \A c \in Codes : codes'[c] \in {codes[c], Gone},
         \A r \in RefreshTokens : refresh'[r] \in {refresh[r], Gone},
         accessExpiry' = accessExpiry,
         pc' = [pc EXCEPT ![h] = "sweep_codes"]
  PROVE  GrantsKeepTheirSession' /\ CodesAsMinted' /\ AccessRedeemed' /\ ExpiryInSession'
<1>1. /\ \A c \in Live(codes') : c \in Live(codes) /\ codes'[c] = codes[c]
      /\ \A r \in Live(refresh') : r \in Live(refresh) /\ refresh'[r] = refresh[r]
      /\ \A g \in InFlight' : g # h => g \in InFlight /\ carried'[g] = carried[g]
      /\ carried'[h] = a
  BY DEF SessionInv, TypeOK, Live, InFlight
<1>2. GrantsKeepTheirSession'
  BY <1>1 DEF SessionInv, GrantsKeepTheirSession, Within
<1>3. CodesAsMinted'
  BY <1>1 DEF SessionInv, CodesAsMinted
<1>4. AccessRedeemed'
  BY <1>1, StoredFields DEF SessionInv, AccessRedeemed
<1>5. ExpiryInSession'
  BY DEF SessionInv, TypeOK, ExpiryInSession, Inserting, Within
<1> QED
  BY <1>2, <1>3, <1>4, <1>5

\* The invariant of sessions holds before the first sign-in.
LEMMA SessionInit == Init => SessionInv
<1> SUFFICES ASSUME Init PROVE SessionInv
  OBVIOUS
<1>1. TypeOK /\ AuthorityHeldOnce
  BY TypeInit, HeldOnceInit
<1>2. Live(codes) = {} /\ Live(access) = {} /\ Live(refresh) = {} /\ InFlight = {}
  BY DEF Init, Live, InFlight
<1>3. ExpiryInSession
  BY DEF Init, ExpiryInSession, Inserting
<1> QED
  BY <1>1, <1>2, <1>3 DEF SessionInv, GrantsKeepTheirSession, CodesAsMinted, AccessRedeemed

\* Every step keeps the invariant of sessions.
LEMMA SessionStep == SessionInv /\ [Next]_vars => SessionInv'
<1> SUFFICES ASSUME SessionInv, [Next]_vars
             PROVE  GrantsKeepTheirSession' /\ CodesAsMinted'
                      /\ AccessRedeemed' /\ ExpiryInSession'
  BY TypeStep, HeldOnceStep DEF SessionInv
<1> DEFINE Goal == GrantsKeepTheirSession' /\ CodesAsMinted'
                     /\ AccessRedeemed' /\ ExpiryInSession'
<1>0. TypeOK /\ TypeOK' /\ AuthorityHeldOnce
  BY TypeStep DEF SessionInv
<1>1. ASSUME NEW c \in Codes, NEW client \in Clients, NEW redirect \in Redirects,
             NEW v \in Verifiers, NEW s \in Sessions,
             GrantCode(c, client, redirect, v, s)
      PROVE  Goal
  <2>1. codes[c] = Fresh /\ \A d \in Codes : d # c => codes'[d] = codes[d] /\ minted'[d] = minted[d]
    BY <1>0, <1>1 DEF TypeOK, GrantCode
  <2>2. \A h \in InFlight : carried[h].origin \in Codes \ {c}
    BY <1>0, <2>1, StoredFields, GrantSentinels DEF AuthorityHeldOnce
  <2>3. \A r \in Live(refresh) : refresh[r].origin \in Codes \ {c}
    BY <1>0, <2>1, StoredFields, GrantSentinels DEF AuthorityHeldOnce
  <2>4. \A t \in Live(access) : access[t].origin \in Codes \ {c}
    BY <1>0, <2>1, StoredFields, GrantSentinels DEF SessionInv, AccessRedeemed
  <2>5. /\ access' = access /\ refresh' = refresh /\ carried' = carried
        /\ pc' = pc /\ accessExpiry' = accessExpiry
    BY <1>1 DEF GrantCode, locals
  <2>6. GrantsKeepTheirSession'
    BY <2>1, <2>2, <2>3, <2>4, <2>5 DEF SessionInv, GrantsKeepTheirSession, InFlight, Within
  <2>7. CodesAsMinted'
    <3>1. minted'[c] = [client |-> codes'[c].client, session |-> codes'[c].session,
                        origin |-> c]
      BY <1>0, <1>1 DEF TypeOK, GrantCode
    <3>2. \A d \in Live(codes') : d # c => d \in Live(codes)
      BY <1>0, <2>1 DEF TypeOK, Live
    <3> QED
      BY <1>0, <2>1, <3>1, <3>2, LiveFacts DEF SessionInv, CodesAsMinted, TypeOK
  <2>8. AccessRedeemed'
    BY <2>1, <2>4, <2>5 DEF SessionInv, AccessRedeemed
  <2>9. ExpiryInSession'
    BY <2>5 DEF SessionInv, ExpiryInSession, Within
  <2> QED
    BY <2>6, <2>7, <2>8, <2>9
<1>2. ASSUME NEW h \in Handlers, CodeRequest(h)
      PROVE  Goal
  <2> PICK c \in Codes, client \in Clients, redirect \in Redirects, v \in Verifiers :
         RedeemCode(h, c, client, redirect, v) \/ RejectCode(c, client, redirect, v)
    BY <1>2 DEF CodeRequest
  <2>1. CASE RedeemCode(h, c, client, redirect, v)
    <3> DEFINE a == [client |-> codes[c].client, session |-> codes[c].session,
                     origin |-> c]
    <3>1. c \in Live(codes) /\ a \in Authority /\ a.origin = c
      BY <1>0, <2>1, StoredFields DEF RedeemCode, Authority
    <3>2. minted[c] = a
      BY <3>1 DEF SessionInv, CodesAsMinted
    <3>3. carried[h] = Nobody /\ carried' = [carried EXCEPT ![h] = a]
          /\ pc' = [pc EXCEPT ![h] = "sweep_codes"]
      BY <1>0, <2>1 DEF TypeOK, RedeemCode, Carry, Goto
    <3>4. \A d \in Codes : codes'[d] \in {codes[d], Gone}
      BY <1>0, <2>1 DEF TypeOK, RedeemCode, TakeCode
    <3>5. access' = access /\ refresh' = refresh /\ minted' = minted
          /\ accessExpiry' = accessExpiry
      BY <2>1 DEF RedeemCode
    <3> HIDE DEF a
    <3> QED
      BY <1>0, <3>1, <3>2, <3>3, <3>4, <3>5, SessionTaken
  <2>2. CASE RejectCode(c, client, redirect, v)
    BY <1>0, <2>2, SessionShrinks DEF TypeOK, RejectCode, TakeCode, locals
  <2> QED
    BY <2>1, <2>2
<1>3. ASSUME NEW h \in Handlers, RefreshRequest(h)
      PROVE  Goal
  <2> PICK r \in RefreshTokens, client \in Clients \cup {NoClient} :
         RedeemRefresh(h, r, client) \/ RejectRefresh(r, client)
    BY <1>3 DEF RefreshRequest
  <2>1. CASE RedeemRefresh(h, r, client)
    <3> DEFINE a == [client |-> refresh[r].client, session |-> refresh[r].session,
                     origin |-> refresh[r].origin]
    <3>1. r \in Live(refresh) /\ a \in Authority /\ a.origin = refresh[r].origin
      BY <1>0, <2>1, StoredFields DEF RedeemRefresh, Authority
    <3>2. minted[a.origin] = a
      BY <3>1 DEF SessionInv, GrantsKeepTheirSession
    <3>3. carried[h] = Nobody /\ carried' = [carried EXCEPT ![h] = a]
          /\ pc' = [pc EXCEPT ![h] = "sweep_codes"]
      BY <1>0, <2>1 DEF TypeOK, RedeemRefresh, Carry, Goto
    <3>4. \A q \in RefreshTokens : refresh'[q] \in {refresh[q], Gone}
      BY <1>0, <2>1 DEF TypeOK, RedeemRefresh, TakeRefresh
    <3>5. access' = access /\ codes' = codes /\ minted' = minted
          /\ accessExpiry' = accessExpiry
      BY <2>1 DEF RedeemRefresh
    <3> HIDE DEF a
    <3> QED
      BY <1>0, <3>1, <3>2, <3>3, <3>4, <3>5, SessionTaken
  <2>2. CASE RejectRefresh(r, client)
    BY <1>0, <2>2, SessionShrinks DEF TypeOK, RejectRefresh, TakeRefresh, locals
  <2> QED
    BY <2>1, <2>2
<1>4. ASSUME NEW h \in Handlers, BeginSweep(h)
      PROVE  Goal
  BY <1>0, <1>4, SessionShrinks DEF TypeOK, BeginSweep, Goto, Inserting
<1>5. ASSUME NEW h \in Handlers, IssueStep(h)
      PROVE  Goal
  <2>1. CASE SweepCodes(h)
    BY <1>0, <2>1, RetainFacts, SessionShrinks DEF TypeOK, SweepCodes, Goto, Inserting
  <2>2. CASE SweepAccess(h)
    BY <1>0, <2>2, RetainFacts, SessionShrinks DEF TypeOK, SweepAccess, Goto, Inserting
  <2>3. CASE SweepRefresh(h)
    <3>1. \A r \in RefreshTokens : refresh'[r] \in {refresh[r], Gone}
      BY <1>0, <2>3, RetainFacts DEF TypeOK, SweepRefresh
    <3>2. codes' = codes /\ access' = access /\ minted' = minted
      BY <2>3 DEF SweepRefresh
    <3>3. \A g \in Handlers : carried'[g] \in {carried[g], Nobody}
      BY <1>0, <2>3 DEF TypeOK, SweepRefresh, Release
    <3>4. \A g \in Handlers : pc'[g] \in Inserting =>
            /\ pc[g] \in Inserting
            /\ carried'[g] = carried[g] /\ accessExpiry'[g] = accessExpiry[g]
      BY <1>0, <2>3 DEF TypeOK, SweepRefresh, Release, Goto, Inserting
    <3> QED
      BY <1>0, <3>1, <3>2, <3>3, <3>4, SessionShrinks
  <2>4. CASE CountAccess(h)
    BY <1>0, <2>4, SessionShrinks DEF TypeOK, CountAccess, Release, Goto, Inserting
  <2>5. CASE CountRefresh(h)
    <3>1. CASE Release(h)
      BY <1>0, <2>5, <3>1, SessionShrinks DEF TypeOK, CountRefresh, Release, Goto, Inserting
    <3>2. CASE ~Release(h)
      <4>1. /\ pc[h] = "count_refresh" /\ pc' = [pc EXCEPT ![h] = "insert_access"]
            /\ accessExpiry' = [accessExpiry EXCEPT ![h] = ExpiryAt(carried[h].session, now)]
            /\ UNCHANGED <<codes, access, refresh, carried, minted>>
        BY <2>5, <3>2 DEF CountRefresh, Goto
      <4>2. Within(carried[h].session, ExpiryAt(carried[h].session, now))
        BY <1>0, <4>1, StoredFields, ExpiryFacts DEF TypeOK, InFlight, Issuing
      <4>3. ExpiryInSession'
        BY <1>0, <4>1, <4>2 DEF SessionInv, TypeOK, ExpiryInSession, Inserting, Within
      <4>4. GrantsKeepTheirSession' /\ CodesAsMinted' /\ AccessRedeemed'
        BY <4>1 DEF SessionInv, GrantsKeepTheirSession, CodesAsMinted, AccessRedeemed,
                    InFlight, Within
      <4> QED
        BY <4>3, <4>4
    <3> QED
      BY <3>1, <3>2
  <2>6. ASSUME NEW t \in AccessTokens, InsertAccess(h, t)
        PROVE  Goal
    <3> DEFINE grant == [session |-> carried[h].session, origin |-> carried[h].origin,
                         expires |-> accessExpiry[h]]
    <3>1. /\ h \in InFlight /\ pc[h] \in Inserting
          /\ access' = [access EXCEPT ![t] = grant]
          /\ pc' = [pc EXCEPT ![h] = "insert_refresh"]
          /\ UNCHANGED <<codes, refresh, carried, accessExpiry, minted>>
      BY <1>0, <2>6 DEF TypeOK, InsertAccess, InFlight, Issuing, Goto, Inserting
    <3>2. /\ grant.session = carried[h].session /\ grant.origin = carried[h].origin
          /\ grant.expires = accessExpiry[h]
      OBVIOUS
    <3> HIDE DEF grant
    <3>3. /\ access'[t] = grant
          /\ \A u \in Live(access') : u # t => u \in Live(access) /\ access'[u] = access[u]
      BY <1>0, <3>1 DEF TypeOK, Live
    <3>4. minted[grant.origin] = carried[h] /\ codes[grant.origin] = Gone
      BY <1>0, <3>1, <3>2 DEF SessionInv, GrantsKeepTheirSession, AuthorityHeldOnce
    <3>5. Within(grant.session, grant.expires)
      BY <3>1, <3>2 DEF SessionInv, ExpiryInSession, InFlight
    <3>6. GrantsKeepTheirSession'
      <4>1. \A u \in Live(access') : u # t =>
               /\ minted[access'[u].origin] # Nobody
               /\ minted[access'[u].origin].session = access'[u].session
               /\ Within(access'[u].session, access'[u].expires)
        BY <3>3 DEF SessionInv, GrantsKeepTheirSession
      <4>2. /\ minted[access'[t].origin] # Nobody
            /\ minted[access'[t].origin].session = access'[t].session
            /\ Within(access'[t].session, access'[t].expires)
        BY <3>1, <3>2, <3>3, <3>4, <3>5 DEF InFlight
      <4>3. InFlight' = InFlight
        BY <3>1 DEF InFlight
      <4> QED
        BY <3>1, <4>1, <4>2, <4>3 DEF SessionInv, GrantsKeepTheirSession, Within
    <3>7. AccessRedeemed'
      BY <3>1, <3>3, <3>4 DEF SessionInv, AccessRedeemed
    <3>8. CodesAsMinted' /\ ExpiryInSession'
      BY <1>0, <3>1 DEF SessionInv, TypeOK, CodesAsMinted, ExpiryInSession, Inserting, Within
    <3> QED
      BY <3>6, <3>7, <3>8
  <2>7. ASSUME NEW r \in RefreshTokens, InsertRefresh(h, r)
        PROVE  Goal
    <3> DEFINE grant == [client |-> carried[h].client, session |-> carried[h].session,
                         origin |-> carried[h].origin, expires |-> RefreshExpiry(h)]
    <3>1. /\ h \in InFlight /\ refresh' = [refresh EXCEPT ![r] = grant]
          /\ carried' = [carried EXCEPT ![h] = Nobody]
          /\ pc' = [pc EXCEPT ![h] = "idle"]
          /\ accessExpiry' = [accessExpiry EXCEPT ![h] = 0]
          /\ UNCHANGED <<codes, access, minted>>
      BY <1>0, <2>7 DEF TypeOK, InsertRefresh, InFlight, Issuing, Goto, Release
    <3>2. /\ grant.client = carried[h].client /\ grant.session = carried[h].session
          /\ grant.origin = carried[h].origin
          /\ [client |-> grant.client, session |-> grant.session,
              origin |-> grant.origin] = carried[h]
      <4>1. carried[h] \in Authority
        BY <1>0, <3>1 DEF TypeOK, InFlight
      <4> QED
        BY <4>1 DEF Authority
    <3>3. Within(grant.session, grant.expires)
      BY <1>0, <3>1, StoredFields, GrantConstants DEF Within, RefreshExpiry
    <3> HIDE DEF grant
    <3>4. /\ refresh'[r] = grant
          /\ \A q \in Live(refresh') : q # r => q \in Live(refresh) /\ refresh'[q] = refresh[q]
          /\ \A g \in InFlight' : g \in InFlight /\ carried'[g] = carried[g]
      BY <1>0, <3>1 DEF TypeOK, Live, InFlight
    <3>5. minted[grant.origin] = carried[h]
      BY <3>1, <3>2 DEF SessionInv, GrantsKeepTheirSession
    <3>6. GrantsKeepTheirSession'
      <4>1. \A q \in Live(refresh') : q # r =>
               /\ minted[refresh'[q].origin] = [client |-> refresh'[q].client,
                     session |-> refresh'[q].session, origin |-> refresh'[q].origin]
               /\ Within(refresh'[q].session, refresh'[q].expires)
        BY <3>4 DEF SessionInv, GrantsKeepTheirSession
      <4>2. /\ minted[refresh'[r].origin] = [client |-> refresh'[r].client,
                  session |-> refresh'[r].session, origin |-> refresh'[r].origin]
            /\ Within(refresh'[r].session, refresh'[r].expires)
        BY <3>2, <3>3, <3>4, <3>5
      <4>3. \A g \in InFlight' : minted[carried'[g].origin] = carried'[g]
        BY <3>4 DEF SessionInv, GrantsKeepTheirSession
      <4> QED
        BY <3>1, <4>1, <4>2, <4>3 DEF SessionInv, GrantsKeepTheirSession, Within
    <3>7. CodesAsMinted' /\ AccessRedeemed'
      BY <3>1 DEF SessionInv, CodesAsMinted, AccessRedeemed
    <3>8. ExpiryInSession'
      BY <1>0, <3>1 DEF SessionInv, TypeOK, ExpiryInSession, Inserting, Within
    <3> QED
      BY <3>6, <3>7, <3>8
  <2> QED
    BY <1>5, <2>1, <2>2, <2>3, <2>4, <2>5, <2>6, <2>7 DEF IssueStep
<1>6. ASSUME NEW h \in Handlers, Disconnect(h)
      PROVE  Goal
  BY <1>0, <1>6, SessionShrinks DEF TypeOK, Disconnect, Release, Goto, Inserting
<1>7. ASSUME NEW t \in AccessTokens, LookupExpired(t)
      PROVE  Goal
  BY <1>0, <1>7, SessionShrinks DEF TypeOK, LookupExpired, locals
<1>8. CASE Tick
  BY <1>0, <1>8, SessionShrinks DEF Tick, locals
<1>9. CASE UNCHANGED vars
  BY <1>0, <1>9, SessionShrinks DEF vars
<1> QED
  BY <1>1, <1>2, <1>3, <1>4, <1>5, <1>6, <1>7, <1>8, <1>9 DEF Next

\* Through any number of rotations a grant stays with the client and the
\* Docmost session its code was granted for, and none outlives that session
\* (oauth.rs:774-789, 800-810).
THEOREM KeepSession == Spec => []GrantsKeepTheirSession
<1>1. SessionInv => GrantsKeepTheirSession
  BY DEF SessionInv
<1> QED
  BY <1>1, SessionInit, SessionStep, PTL DEF Spec

-----------------------------------------------------------------------------
\* A sweep works with a clock reading of the past.
SweepClockInv == TypeOK /\ \A h \in Handlers : asOf[h] <= now

\* No sweep is in progress at the beginning.
LEMMA SweepClockInit == Init => SweepClockInv
BY TypeInit DEF Init, SweepClockInv

\* Every step keeps the clock readings of sweeps in the past.
LEMMA SweepClockStep == SweepClockInv /\ [Next]_vars => SweepClockInv'
<1> SUFFICES ASSUME SweepClockInv, [Next]_vars
             PROVE  \A h \in Handlers : asOf'[h] <= now'
  BY TypeStep DEF SweepClockInv
<1> USE DEF SweepClockInv, TypeOK
<1>1. ASSUME NEW c \in Codes, NEW client \in Clients, NEW redirect \in Redirects,
             NEW v \in Verifiers, NEW s \in Sessions,
             GrantCode(c, client, redirect, v, s)
      PROVE  \A h \in Handlers : asOf'[h] <= now'
  BY <1>1 DEF GrantCode, locals
<1>2. ASSUME NEW h \in Handlers, CodeRequest(h) \/ RefreshRequest(h)
      PROVE  \A g \in Handlers : asOf'[g] <= now'
  BY <1>2 DEF CodeRequest, RefreshRequest, RedeemCode, RejectCode, RedeemRefresh,
              RejectRefresh, Carry, locals
<1>3. ASSUME NEW h \in Handlers, BeginSweep(h)
      PROVE  \A g \in Handlers : asOf'[g] <= now'
  BY <1>3 DEF BeginSweep
<1>4. ASSUME NEW h \in Handlers, IssueStep(h)
      PROVE  \A g \in Handlers : asOf'[g] <= now'
  BY <1>4 DEF IssueStep, SweepCodes, SweepAccess, SweepRefresh, CountAccess,
              CountRefresh, InsertAccess, InsertRefresh, Release
<1>5. ASSUME NEW h \in Handlers, Disconnect(h)
      PROVE  \A g \in Handlers : asOf'[g] <= now'
  BY <1>5 DEF Disconnect, Release
<1>6. ASSUME NEW t \in AccessTokens, LookupExpired(t)
      PROVE  \A g \in Handlers : asOf'[g] <= now'
  BY <1>6 DEF LookupExpired, locals
<1>7. CASE Tick
  BY <1>7 DEF Tick, locals
<1>8. CASE UNCHANGED vars
  BY <1>8 DEF vars
<1> QED
  BY <1>1, <1>2, <1>3, <1>4, <1>5, <1>6, <1>7, <1>8 DEF Next

\* No step removes an access grant that has not expired.
LEMMA HonouredStep ==
  ASSUME SweepClockInv, [Next]_vars
  PROVE  \A t \in Live(access) :
           access'[t] \in {Fresh, Gone} => Expired(access[t], now)
<1> SUFFICES ASSUME NEW t \in Live(access), access'[t] \in {Fresh, Gone}
             PROVE  Expired(access[t], now)
  OBVIOUS
<1>0. /\ t \in AccessTokens /\ access[t].expires \in Int
      /\ access[t] \notin {Fresh, Gone}
  BY StoredFields DEF SweepClockInv, Live
<1>1. access' # access
  BY <1>0
<1>2. ASSUME NEW h \in Handlers, SweepAccess(h)
      PROVE  Expired(access[t], now)
  <2>1. Expired(access[t], asOf[h])
    BY <1>0, <1>2, RetainFacts DEF SweepClockInv, TypeOK, SweepAccess
  <2> QED
    BY <1>0, <2>1 DEF SweepClockInv, TypeOK, Expired
<1>3. ASSUME NEW h \in Handlers, NEW u \in AccessTokens, InsertAccess(h, u)
      PROVE  Expired(access[t], now)
  <2>1. t # u
    BY <1>0, <1>3 DEF InsertAccess
  <2> QED
    BY <1>0, <1>3, <2>1 DEF SweepClockInv, TypeOK, InsertAccess
<1>4. ASSUME NEW u \in AccessTokens, LookupExpired(u)
      PROVE  Expired(access[t], now)
  BY <1>0, <1>4 DEF SweepClockInv, TypeOK, LookupExpired
<1> QED
  BY <1>1, <1>2, <1>3, <1>4
     DEF Next, vars, GrantCode, CodeRequest, RedeemCode, RejectCode, RefreshRequest,
         RedeemRefresh, RejectRefresh, BeginSweep, IssueStep, SweepCodes, SweepRefresh,
         CountAccess, CountRefresh, InsertRefresh, Disconnect, Tick

\* No sweep, rotation or refused request takes away an access grant that has
\* not expired (cleanup_expired and access_session, oauth.rs:254-264, 1193-1235).
THEOREM Honoured == Spec => AccessHonouredUntilExpiry
<1>1. SweepClockInv /\ [Next]_vars =>
        [\A t \in Live(access) :
           access'[t] \in {Fresh, Gone} => Expired(access[t], now)]_vars
  BY HonouredStep
<1> QED
  BY <1>1, SweepClockInit, SweepClockStep, PTL DEF Spec, AccessHonouredUntilExpiry

-----------------------------------------------------------------------------
\* Why the caps hold up to the requests in progress: a handler past the count
\* takes up a slot already, which it keeps by inserting and frees by ending.
AccessSlots ==
  Cardinality(Live(access)) + Cardinality(PastAccessCount)
    <= MaxAccess - 1 + Cardinality(Handlers)

RefreshSlots ==
  Cardinality(Live(refresh)) + Cardinality(PastRefreshCount)
    <= MaxRefresh - 1 + Cardinality(Handlers)

SlotInv == TypeOK /\ AccessSlots /\ RefreshSlots

\* The sets that are counted are finite.
LEMMA SlotsFinite ==
  ASSUME TypeOK
  PROVE  /\ IsFiniteSet(Live(access)) /\ IsFiniteSet(Live(refresh))
         /\ IsFiniteSet(PastAccessCount) /\ IsFiniteSet(PastRefreshCount)
         /\ Cardinality(PastAccessCount) <= Cardinality(Handlers)
         /\ Cardinality(PastRefreshCount) <= Cardinality(Handlers)
         /\ {Cardinality(Live(access)), Cardinality(Live(refresh)),
              Cardinality(PastAccessCount), Cardinality(PastRefreshCount),
              Cardinality(Handlers)} \subseteq Nat
<1>1. Live(access) \subseteq AccessTokens /\ Live(refresh) \subseteq RefreshTokens
  BY StoredFields
<1>2. PastAccessCount \subseteq Handlers /\ PastRefreshCount \subseteq Handlers
  BY DEF PastAccessCount, PastRefreshCount
<1> QED
  BY <1>1, <1>2, GrantFiniteness, FS_Subset, FS_CardinalityType

\* One insertion adds at most one entry.
LEMMA OneMore ==
  ASSUME NEW S, IsFiniteSet(S), NEW x, NEW T, T \subseteq S \cup {x}
  PROVE  Cardinality(T) \in 0..(Cardinality(S) + 1)
<1>1. Cardinality(S) \in Nat
  BY FS_CardinalityType
<1>2. IsFiniteSet(S \cup {x}) /\ Cardinality(S \cup {x}) <= Cardinality(S) + 1
  BY <1>1, FS_AddElement
<1>3. IsFiniteSet(T) /\ Cardinality(T) <= Cardinality(S \cup {x})
  BY <1>2, FS_Subset
<1> QED
  BY <1>1, <1>2, <1>3, FS_CardinalityType

\* A step that stores no grant and lets no handler past a count.
LEMMA AccessSlotsShrink ==
  ASSUME SlotInv, TypeOK',
         Live(access)' \subseteq Live(access),
         PastAccessCount' \subseteq PastAccessCount
  PROVE  AccessSlots'
<1>1. Cardinality(Live(access)') <= Cardinality(Live(access))
      /\ Cardinality(PastAccessCount') <= Cardinality(PastAccessCount)
  BY SlotsFinite, FS_Subset DEF SlotInv
<1>2. {Cardinality(Live(access)'), Cardinality(PastAccessCount')} \subseteq Nat
  BY SlotsFinite, FS_Subset, FS_CardinalityType DEF SlotInv
<1> QED
  BY <1>1, <1>2, SlotsFinite, GrantConstants DEF SlotInv, AccessSlots

\* The same for refresh grants.
LEMMA RefreshSlotsShrink ==
  ASSUME SlotInv, TypeOK',
         Live(refresh)' \subseteq Live(refresh),
         PastRefreshCount' \subseteq PastRefreshCount
  PROVE  RefreshSlots'
<1>1. Cardinality(Live(refresh)') <= Cardinality(Live(refresh))
      /\ Cardinality(PastRefreshCount') <= Cardinality(PastRefreshCount)
  BY SlotsFinite, FS_Subset DEF SlotInv
<1>2. {Cardinality(Live(refresh)'), Cardinality(PastRefreshCount')} \subseteq Nat
  BY SlotsFinite, FS_Subset, FS_CardinalityType DEF SlotInv
<1> QED
  BY <1>1, <1>2, SlotsFinite, GrantConstants DEF SlotInv, RefreshSlots

\* Steps that store no grant: the handlers past a count may only get fewer.
LEMMA SlotsKept ==
  ASSUME SlotInv, TypeOK',
         \A t \in AccessTokens : access'[t] \in {access[t], Gone},
         \A r \in RefreshTokens : refresh'[r] \in {refresh[r], Gone},
         \A h \in Handlers :
           pc'[h] \in {"count_refresh", "insert_access", "insert_refresh"}
             => pc'[h] = pc[h]
  PROVE  AccessSlots' /\ RefreshSlots'
<1>1. Live(access)' \subseteq Live(access) /\ Live(refresh)' \subseteq Live(refresh)
  BY DEF SlotInv, TypeOK, Live
<1>2. PastAccessCount' \subseteq PastAccessCount
      /\ PastRefreshCount' \subseteq PastRefreshCount
  BY DEF PastAccessCount, PastRefreshCount
<1> QED
  BY <1>1, <1>2, AccessSlotsShrink, RefreshSlotsShrink

\* All slots are free at the beginning.
LEMMA SlotInit == Init => SlotInv
<1> SUFFICES ASSUME Init PROVE SlotInv
  OBVIOUS
<1>1. TypeOK
  BY TypeInit
<1>2. Live(access) = {} /\ Live(refresh) = {}
      /\ PastAccessCount = {} /\ PastRefreshCount = {}
  BY DEF Init, Live, PastAccessCount, PastRefreshCount
<1> QED
  BY <1>1, <1>2, FS_EmptySet, SlotsFinite, GrantConstants
     DEF SlotInv, AccessSlots, RefreshSlots

\* A handler that inserts gives up the slot it took when it counted.
LEMMA SlotStep == SlotInv /\ [Next]_vars => SlotInv'
<1> SUFFICES ASSUME SlotInv, [Next]_vars
             PROVE  AccessSlots' /\ RefreshSlots'
  BY TypeStep DEF SlotInv
<1>0. TypeOK /\ TypeOK'
  BY TypeStep DEF SlotInv
<1>1. ASSUME NEW c \in Codes, NEW client \in Clients, NEW redirect \in Redirects,
             NEW v \in Verifiers, NEW s \in Sessions,
             GrantCode(c, client, redirect, v, s)
      PROVE  AccessSlots' /\ RefreshSlots'
  BY <1>0, <1>1, SlotsKept DEF GrantCode, locals
<1>2. ASSUME NEW h \in Handlers, CodeRequest(h) \/ RefreshRequest(h)
      PROVE  AccessSlots' /\ RefreshSlots'
  <2>1. access' = access
    BY <1>2 DEF CodeRequest, RefreshRequest, RedeemCode, RejectCode, RedeemRefresh,
                RejectRefresh
  <2>2. \A r \in RefreshTokens : refresh'[r] \in {refresh[r], Gone}
    BY <1>0, <1>2 DEF TypeOK, CodeRequest, RefreshRequest, RedeemCode, RejectCode,
                      RedeemRefresh, RejectRefresh, TakeRefresh
  <2>3. pc' = pc \/ pc' = [pc EXCEPT ![h] = "sweep_codes"]
    BY <1>2 DEF CodeRequest, RefreshRequest, RedeemCode, RejectCode, RedeemRefresh,
                RejectRefresh, Carry, Goto, locals
  <2> QED
    BY <1>0, <2>1, <2>2, <2>3, SlotsKept DEF TypeOK
<1>3. ASSUME NEW h \in Handlers, BeginSweep(h)
      PROVE  AccessSlots' /\ RefreshSlots'
  BY <1>0, <1>3, SlotsKept DEF TypeOK, BeginSweep, Goto
<1>4. ASSUME NEW h \in Handlers, IssueStep(h)
      PROVE  AccessSlots' /\ RefreshSlots'
  <2>1. CASE SweepCodes(h)
    BY <1>0, <2>1, SlotsKept DEF TypeOK, SweepCodes, Goto
  <2>2. CASE SweepAccess(h)
    BY <1>0, <2>2, RetainFacts, SlotsKept DEF TypeOK, SweepAccess, Goto
  <2>3. CASE SweepRefresh(h)
    BY <1>0, <2>3, RetainFacts, SlotsKept DEF TypeOK, SweepRefresh, Release, Goto
  <2>4. CASE CountAccess(h)
    <3>1. CASE Release(h)
      BY <1>0, <2>4, <3>1, SlotsKept DEF TypeOK, CountAccess, Release, Goto
    <3>2. CASE ~Release(h)
      <4>1. /\ Cardinality(Live(access)) <= MaxAccess - 1
            /\ pc' = [pc EXCEPT ![h] = "count_refresh"]
            /\ UNCHANGED <<access, refresh>>
        BY <1>0, <2>4, <3>2, SlotsFinite, GrantConstants DEF CountAccess, AccessFull, Goto
      <4>2. AccessSlots'
        <5>1. PastAccessCount' \subseteq Handlers
          BY DEF PastAccessCount
        <5>2. Cardinality(PastAccessCount') \in 0..Cardinality(Handlers)
          BY <1>0, <5>1, GrantFiniteness, FS_Subset, FS_CardinalityType
        <5> QED
          BY <1>0, <4>1, <5>2, SlotsFinite, GrantConstants DEF AccessSlots
      <4>3. PastRefreshCount' \subseteq PastRefreshCount
        BY <1>0, <4>1 DEF TypeOK, PastRefreshCount
      <4>4. Live(refresh)' \subseteq Live(refresh)
        BY <4>1
      <4> QED
        BY <1>0, <4>2, <4>3, <4>4, RefreshSlotsShrink
    <3> QED
      BY <3>1, <3>2
  <2>5. CASE CountRefresh(h)
    <3>1. CASE Release(h)
      BY <1>0, <2>5, <3>1, SlotsKept DEF TypeOK, CountRefresh, Release, Goto
    <3>2. CASE ~Release(h)
      <4>1. /\ Cardinality(Live(refresh)) <= MaxRefresh - 1
            /\ pc[h] = "count_refresh" /\ pc' = [pc EXCEPT ![h] = "insert_access"]
            /\ UNCHANGED <<access, refresh>>
        BY <1>0, <2>5, <3>2, SlotsFinite, GrantConstants DEF CountRefresh, RefreshFull, Goto
      <4>2. RefreshSlots'
        <5>1. PastRefreshCount' \subseteq Handlers
          BY DEF PastRefreshCount
        <5>2. Cardinality(PastRefreshCount') \in 0..Cardinality(Handlers)
          BY <1>0, <5>1, GrantFiniteness, FS_Subset, FS_CardinalityType
        <5> QED
          BY <1>0, <4>1, <5>2, SlotsFinite, GrantConstants DEF RefreshSlots
      <4>3. PastAccessCount' \subseteq PastAccessCount
        BY <1>0, <4>1 DEF TypeOK, PastAccessCount
      <4>4. Live(access)' \subseteq Live(access)
        BY <4>1
      <4> QED
        BY <1>0, <4>2, <4>3, <4>4, AccessSlotsShrink
    <3> QED
      BY <3>1, <3>2
  <2>6. ASSUME NEW t \in AccessTokens, InsertAccess(h, t)
        PROVE  AccessSlots' /\ RefreshSlots'
    <3>1. /\ pc[h] = "insert_access" /\ pc' = [pc EXCEPT ![h] = "insert_refresh"]
          /\ refresh' = refresh
      BY <2>6 DEF InsertAccess, Goto
    <3>2. Live(access)' \subseteq Live(access) \cup {t}
      BY <1>0, <2>6 DEF TypeOK, InsertAccess, Live
    <3>3. h \in PastAccessCount /\ PastAccessCount' = PastAccessCount \ {h}
      BY <1>0, <3>1 DEF TypeOK, PastAccessCount
    <3>4. Cardinality(Live(access)') \in 0..(Cardinality(Live(access)) + 1)
      BY <1>0, <3>2, SlotsFinite, OneMore
    <3>5. Cardinality(PastAccessCount') = Cardinality(PastAccessCount) - 1
      BY <1>0, <3>3, SlotsFinite, FS_RemoveElement
    <3>6. AccessSlots'
      BY <1>0, <3>4, <3>5, SlotsFinite, GrantConstants DEF SlotInv, AccessSlots
    <3>7. PastRefreshCount' \subseteq PastRefreshCount
          /\ Live(refresh)' \subseteq Live(refresh)
      BY <1>0, <3>1 DEF TypeOK, PastRefreshCount
    <3> QED
      BY <1>0, <3>6, <3>7, RefreshSlotsShrink
  <2>7. ASSUME NEW r \in RefreshTokens, InsertRefresh(h, r)
        PROVE  AccessSlots' /\ RefreshSlots'
    <3>1. /\ pc[h] = "insert_refresh" /\ pc' = [pc EXCEPT ![h] = "idle"]
          /\ access' = access
      BY <2>7 DEF InsertRefresh, Release, Goto
    <3>2. Live(refresh)' \subseteq Live(refresh) \cup {r}
      BY <1>0, <2>7 DEF TypeOK, InsertRefresh, Live
    <3>3. h \in PastRefreshCount /\ PastRefreshCount' = PastRefreshCount \ {h}
      BY <1>0, <3>1 DEF TypeOK, PastRefreshCount
    <3>4. Cardinality(Live(refresh)') \in 0..(Cardinality(Live(refresh)) + 1)
      BY <1>0, <3>2, SlotsFinite, OneMore
    <3>5. Cardinality(PastRefreshCount') = Cardinality(PastRefreshCount) - 1
      BY <1>0, <3>3, SlotsFinite, FS_RemoveElement
    <3>6. RefreshSlots'
      BY <1>0, <3>4, <3>5, SlotsFinite, GrantConstants DEF SlotInv, RefreshSlots
    <3>7. PastAccessCount' \subseteq PastAccessCount
          /\ Live(access)' \subseteq Live(access)
      BY <1>0, <3>1 DEF TypeOK, PastAccessCount
    <3> QED
      BY <1>0, <3>6, <3>7, AccessSlotsShrink
  <2> QED
    BY <1>4, <2>1, <2>2, <2>3, <2>4, <2>5, <2>6, <2>7 DEF IssueStep
<1>5. ASSUME NEW h \in Handlers, Disconnect(h)
      PROVE  AccessSlots' /\ RefreshSlots'
  BY <1>0, <1>5, SlotsKept DEF TypeOK, Disconnect, Release, Goto
<1>6. ASSUME NEW t \in AccessTokens, LookupExpired(t)
      PROVE  AccessSlots' /\ RefreshSlots'
  BY <1>0, <1>6, SlotsKept DEF TypeOK, LookupExpired, locals
<1>7. CASE Tick
  BY <1>0, <1>7, SlotsKept DEF Tick, locals
<1>8. CASE UNCHANGED vars
  BY <1>0, <1>8, SlotsKept DEF vars
<1> QED
  BY <1>1, <1>2, <1>3, <1>4, <1>5, <1>6, <1>7, <1>8 DEF Next

\* The caps on access and refresh grants can be passed, by at most one grant
\* less than there are requests in progress (oauth.rs:764-772 against 792, 802).
THEOREM Capacity == Spec => []GrantCapacity
<1>1. SlotInv => GrantCapacity
  BY SlotsFinite, GrantConstants
     DEF SlotInv, AccessSlots, RefreshSlots, GrantCapacity, AccessCapacity,
         RefreshCapacity
<1> QED
  BY <1>1, SlotInit, SlotStep, PTL DEF Spec

-----------------------------------------------------------------------------
\* The refinement: every step of the store moves one sign-in, loses some, or
\* leaves every sign-in where it is.
LEMMA PlaceType ==
  place \in [Codes -> OneTime!Places] /\ place' \in [Codes -> OneTime!Places]
BY DEF place, OneTime!Places

\* A sign-in that moves while the others stay.
LEMMA OneMoves ==
  ASSUME NEW c \in Codes, NEW from, NEW to \in OneTime!Places,
         place[c] \in from, place'[c] = to,
         \A d \in Codes \ {c} : place'[d] = place[d]
  PROVE  OneTime!Move(c, from, to)
BY PlaceType DEF OneTime!Move

\* Handlers and refresh grants of other sign-ins do not matter to a sign-in.
LEMMA StaysInPlace ==
  ASSUME TypeOK, TypeOK', NEW c \in Codes, codes'[c] = codes[c],
         \A h \in Handlers :
           \/ /\ carried'[h] = carried[h]
              /\ pc'[h] = "insert_refresh" <=> pc[h] = "insert_refresh"
           \/ /\ carried[h] # Nobody => carried[h].origin # c
              /\ carried'[h] # Nobody => carried'[h].origin # c,
         \A r \in RefreshTokens :
           \/ refresh'[r] = refresh[r]
           \/ /\ r \in Live(refresh) => refresh[r].origin # c
              /\ r \in Live(refresh') => refresh'[r].origin # c
  PROVE  place'[c] = place[c]
<1>1. /\ Live(refresh) = {r \in RefreshTokens : refresh[r] \notin {Fresh, Gone}}
      /\ Live(refresh') = {r \in RefreshTokens : refresh'[r] \notin {Fresh, Gone}}
  BY DEF TypeOK, Live
<1>2. (\E h \in InFlight' : carried'[h].origin = c /\ pc'[h] = "insert_refresh")
        <=> (\E h \in InFlight : carried[h].origin = c /\ pc[h] = "insert_refresh")
  BY DEF InFlight
<1>3. (\E h \in InFlight' : carried'[h].origin = c)
        <=> (\E h \in InFlight : carried[h].origin = c)
  BY DEF InFlight
<1>4. (\E r \in Live(refresh') : refresh'[r].origin = c)
        <=> (\E r \in Live(refresh) : refresh[r].origin = c)
  BY <1>1
<1> QED
  BY <1>2, <1>3, <1>4 DEF place

\* Steps that hand no authority on lose the sign-ins they change.
LEMMA SomeLost ==
  ASSUME TypeOK, TypeOK', AuthorityHeldOnce,
         \A c \in Codes : \/ codes'[c] = codes[c]
                          \/ codes[c] # Fresh /\ codes'[c] = Gone,
         \A h \in Handlers :
           \/ /\ carried'[h] = carried[h]
              /\ pc'[h] = "insert_refresh" <=> pc[h] = "insert_refresh"
           \/ carried'[h] = Nobody,
         \A r \in RefreshTokens : refresh'[r] \in {refresh[r], Gone}
  PROVE  \E S \in SUBSET Codes : OneTime!Lose(S)
<1>1. /\ InFlight' \subseteq InFlight
      /\ \A h \in InFlight' : /\ carried'[h] = carried[h]
                              /\ pc'[h] = "insert_refresh" <=> pc[h] = "insert_refresh"
  BY DEF InFlight
<1>2. Live(refresh') \subseteq Live(refresh)
      /\ \A r \in Live(refresh') : refresh'[r] = refresh[r]
  BY DEF TypeOK, Live
<1>3. ASSUME NEW c \in Codes
      PROVE  /\ place'[c] \in {place[c], "spent"}
             /\ place[c] = "none" => place'[c] = "none"
  <2>1. CASE codes[c] \notin {Fresh, Gone}
    <3>1. /\ \A h \in InFlight : carried[h].origin # c
          /\ \A r \in Live(refresh) : refresh[r].origin # c
      BY <2>1 DEF AuthorityHeldOnce
    <3>2. place[c] = "code"
      BY <2>1 DEF place
    <3>3. CASE codes'[c] = codes[c]
      BY <2>1, <3>2, <3>3 DEF place
    <3>4. CASE codes'[c] = Gone
      <4>1. place'[c] = "spent"
        BY <1>1, <1>2, <3>1, <3>4, GrantSentinels DEF place
      <4> QED
        BY <3>2, <4>1
    <3> QED
      BY <3>3, <3>4
  <2>2. CASE codes[c] = Fresh
    BY <2>2 DEF place
  <2>3. CASE codes[c] = Gone
    <3>1. codes'[c] = Gone /\ Gone # Fresh
      BY <2>3, GrantSentinels
    <3>2. CASE \E h \in InFlight : carried[h].origin = c
      <4> PICK h \in InFlight : carried[h].origin = c
        BY <3>2
      <4>1. /\ \A g \in InFlight : carried[g].origin = c => g = h
            /\ \A r \in Live(refresh) : refresh[r].origin # c
        BY DEF AuthorityHeldOnce
      <4>2. CASE h \in InFlight'
        <5>1. place[c] = IF pc[h] = "insert_refresh" THEN "issued" ELSE "redeeming"
          BY <2>3, <3>1, <4>1 DEF place
        <5>2. place'[c] = IF pc'[h] = "insert_refresh" THEN "issued" ELSE "redeeming"
          BY <1>1, <3>1, <4>1, <4>2 DEF place
        <5> QED
          BY <1>1, <4>2, <5>1, <5>2
      <4>3. CASE h \notin InFlight'
        <5>1. place'[c] = "spent"
          BY <1>1, <1>2, <3>1, <4>1, <4>3 DEF place
        <5>2. place[c] # "none"
          BY <2>3, <3>1 DEF place
        <5> QED
          BY <5>1, <5>2
      <4> QED
        BY <4>2, <4>3
    <3>3. CASE ~\E h \in InFlight : carried[h].origin = c
      BY <1>1, <1>2, <2>3, <3>1, <3>3 DEF place
    <3> QED
      BY <3>2, <3>3
  <2> QED
    BY <2>1, <2>2, <2>3
<1> DEFINE S == {c \in Codes : place'[c] # place[c]}
<1>4. \A c \in S : place[c] # "none"
  BY <1>3
<1>5. place' = [c \in Codes |-> IF c \in S THEN "spent" ELSE place[c]]
  BY <1>3, PlaceType
<1>6. OneTime!Lose(S)
  BY <1>4, <1>5 DEF OneTime!Lose
<1> QED
  BY <1>6

\* A handler that takes a sign-in out of a code or a refresh grant redeems it.
LEMMA Redeemed ==
  ASSUME TypeOK, TypeOK', AuthorityHeldOnce,
         NEW h \in Handlers, carried[h] = Nobody, NEW a \in Authority,
         carried' = [carried EXCEPT ![h] = a],
         pc' = [pc EXCEPT ![h] = "sweep_codes"],
         place[a.origin] \in {"code", "refreshable"}, codes'[a.origin] = Gone,
         \A d \in Codes \ {a.origin} : codes'[d] = codes[d],
         \A r \in RefreshTokens : \/ refresh'[r] = refresh[r]
                                  \/ /\ refresh[r].origin = a.origin
                                     /\ refresh'[r] = Gone
  PROVE  OneTime!Redeem(a.origin)
<1> DEFINE c == a.origin
<1>1. c \in Codes /\ a # Nobody
  BY GrantSentinels DEF Authority
<1>2. \A g \in InFlight : carried[g].origin # c
  <2>1. CASE codes[c] # Gone
    BY <2>1 DEF AuthorityHeldOnce
  <2>2. CASE codes[c] = Gone
    BY <1>1, <2>2, GrantSentinels DEF place
  <2> QED
    BY <2>1, <2>2
<1>3. /\ InFlight' = InFlight \cup {h} /\ carried'[h] = a /\ pc'[h] = "sweep_codes"
      /\ \A g \in Handlers \ {h} : carried'[g] = carried[g] /\ pc'[g] = pc[g]
  BY <1>1 DEF InFlight, TypeOK
<1>4. place'[c] = "redeeming"
  <2>1. \A g \in InFlight' : carried'[g].origin = c => g = h
    BY <1>2, <1>3 DEF InFlight
  <2>2. h \in InFlight' /\ carried'[h].origin = c /\ codes'[c] = Gone /\ Gone # Fresh
    BY <1>3, GrantSentinels
  <2> QED
    BY <1>1, <1>3, <2>1, <2>2 DEF place
<1>5. ASSUME NEW d \in Codes \ {c}
      PROVE  place'[d] = place[d]
  <2>1. \A r \in RefreshTokens : \/ refresh'[r] = refresh[r]
                                 \/ /\ r \in Live(refresh) => refresh[r].origin # d
                                    /\ r \notin Live(refresh')
    BY DEF Live
  <2>2. \A g \in Handlers : \/ carried'[g] = carried[g] /\ pc'[g] = pc[g]
                            \/ g = h
    BY <1>3
  <2> QED
    BY <1>3, <2>1, <2>2, StaysInPlace
<1> QED
  BY <1>1, <1>4, <1>5, OneMoves DEF OneTime!Redeem, OneTime!Places

\* Each step of the store is a step of the one-time authorization, or none.
LEMMA OneTimeStep ==
  TypeOK /\ TypeOK' /\ AuthorityHeldOnce /\ [Next]_vars => [OneTime!Next]_place
<1> SUFFICES ASSUME TypeOK, TypeOK', AuthorityHeldOnce, [Next]_vars
             PROVE  OneTime!Next
  OBVIOUS
<1> DEFINE Losing == \E S \in SUBSET Codes : OneTime!Lose(S)
<1>0. Losing => OneTime!Next
  BY DEF OneTime!Next
<1>1. ASSUME NEW c \in Codes, NEW client \in Clients, NEW redirect \in Redirects,
             NEW v \in Verifiers, NEW s \in Sessions,
             GrantCode(c, client, redirect, v, s)
      PROVE  OneTime!Next
  <2>1. codes[c] = Fresh /\ codes'[c] \in CodeGrant
        /\ \A d \in Codes \ {c} : codes'[d] = codes[d]
    <3>1. PICK asked \in 0..now : codes' = [codes EXCEPT ![c] =
            [client |-> client, redirect |-> redirect, challenge |-> v,
             session |-> s, expires |-> asked + CodeTtl]]
      BY <1>1 DEF GrantCode
    <3>2. [client |-> client, redirect |-> redirect, challenge |-> v,
           session |-> s, expires |-> asked + CodeTtl] \in CodeGrant
      BY GrantConstants DEF CodeGrant, TypeOK
    <3> QED
      BY <1>1, <3>1, <3>2 DEF GrantCode, TypeOK
  <2>2. place[c] = "none" /\ place'[c] = "code"
    BY <2>1, GrantSentinels DEF place
  <2>3. \A d \in Codes \ {c} : place'[d] = place[d]
    BY <1>1, <2>1, StaysInPlace DEF GrantCode, locals
  <2> QED
    BY <2>2, <2>3, OneMoves DEF OneTime!Next, OneTime!Grant, OneTime!Places
<1>2. ASSUME NEW h \in Handlers, CodeRequest(h)
      PROVE  OneTime!Next
  <2> PICK c \in Codes, client \in Clients, redirect \in Redirects, v \in Verifiers :
         RedeemCode(h, c, client, redirect, v) \/ RejectCode(c, client, redirect, v)
    BY <1>2 DEF CodeRequest
  <2>1. CASE RedeemCode(h, c, client, redirect, v)
    <3> DEFINE a == [client |-> codes[c].client, session |-> codes[c].session,
                     origin |-> c]
    <3>1. codes[c] \in CodeGrant /\ codes[c] \notin {Fresh, Gone}
      BY <2>1, LiveFacts DEF TypeOK, RedeemCode
    <3>2. a \in Authority /\ a.origin = c
      BY <3>1 DEF CodeGrant, Authority
    <3>3. /\ carried[h] = Nobody /\ carried' = [carried EXCEPT ![h] = a]
          /\ pc' = [pc EXCEPT ![h] = "sweep_codes"] /\ refresh' = refresh
      BY <2>1 DEF TypeOK, RedeemCode, Carry, Goto
    <3>4. codes'[c] = Gone /\ \A d \in Codes \ {c} : codes'[d] = codes[d]
      BY <2>1 DEF TypeOK, RedeemCode, TakeCode
    <3>5. place[c] = "code"
      BY <3>1 DEF place
    <3> HIDE DEF a
    <3>6. OneTime!Redeem(c)
      BY <3>2, <3>3, <3>4, <3>5, Redeemed
    <3> QED
      BY <3>6 DEF OneTime!Next
  <2>2. CASE RejectCode(c, client, redirect, v)
    <3>1. \A d \in Codes : codes'[d] = codes[d] \/ (codes[d] # Fresh /\ codes'[d] = Gone)
      BY <2>2 DEF RejectCode, TakeCode, Live, TypeOK
    <3> QED
      BY <1>0, <2>2, <3>1, SomeLost DEF RejectCode, locals
  <2> QED
    BY <2>1, <2>2
<1>3. ASSUME NEW h \in Handlers, RefreshRequest(h)
      PROVE  OneTime!Next
  <2> PICK r \in RefreshTokens, client \in Clients \cup {NoClient} :
         RedeemRefresh(h, r, client) \/ RejectRefresh(r, client)
    BY <1>3 DEF RefreshRequest
  <2>1. CASE RedeemRefresh(h, r, client)
    <3> DEFINE a == [client |-> refresh[r].client, session |-> refresh[r].session,
                     origin |-> refresh[r].origin]
    <3>1. refresh[r] \in RefreshGrant /\ r \in Live(refresh)
      BY <2>1, LiveFacts DEF TypeOK, RedeemRefresh
    <3>2. a \in Authority /\ a.origin = refresh[r].origin /\ a.origin \in Codes
      BY <3>1 DEF RefreshGrant, Authority
    <3>3. /\ carried[h] = Nobody /\ carried' = [carried EXCEPT ![h] = a]
          /\ pc' = [pc EXCEPT ![h] = "sweep_codes"] /\ codes' = codes
      BY <2>1 DEF TypeOK, RedeemRefresh, Carry, Goto
    <3>4. \A q \in RefreshTokens : \/ refresh'[q] = refresh[q]
                                   \/ /\ refresh[q].origin = refresh[r].origin
                                      /\ refresh'[q] = Gone
      BY <2>1 DEF TypeOK, RedeemRefresh, TakeRefresh
    <3>5. codes[refresh[r].origin] = Gone /\ Gone # Fresh
      BY <3>1, GrantSentinels DEF AuthorityHeldOnce
    <3>6. place[refresh[r].origin] = "refreshable"
      BY <3>1, <3>2, <3>5 DEF place, AuthorityHeldOnce
    <3> HIDE DEF a
    <3>7. OneTime!Redeem(a.origin)
      BY <3>2, <3>3, <3>4, <3>5, <3>6, Redeemed
    <3> QED
      BY <3>2, <3>7 DEF OneTime!Next
  <2>2. CASE RejectRefresh(r, client)
    <3>1. \A q \in RefreshTokens : refresh'[q] \in {refresh[q], Gone}
      BY <2>2 DEF RejectRefresh, TakeRefresh, TypeOK
    <3> QED
      BY <1>0, <2>2, <3>1, SomeLost DEF RejectRefresh, locals
  <2> QED
    BY <2>1, <2>2
<1>4. ASSUME NEW h \in Handlers,
             \/ /\ UNCHANGED <<carried, codes, refresh>>
                /\ \E step \in Steps \ {"insert_refresh"} :
                     pc[h] # "insert_refresh" /\ pc' = [pc EXCEPT ![h] = step]
             \/ Release(h) /\ UNCHANGED <<codes, refresh>>
      PROVE  OneTime!Next
  <2>1. \A g \in Handlers :
           \/ /\ carried'[g] = carried[g]
              /\ pc'[g] = "insert_refresh" <=> pc[g] = "insert_refresh"
           \/ carried'[g] = Nobody
    BY <1>4 DEF Release, Goto, TypeOK
  <2> QED
    BY <1>0, <1>4, <2>1, SomeLost
<1>5. ASSUME NEW h \in Handlers, IssueStep(h)
      PROVE  OneTime!Next
  <2> USE DEF Steps
  <2>1. CASE SweepCodes(h)
    <3>1. \A d \in Codes : codes'[d] = codes[d] \/ (codes[d] # Fresh /\ codes'[d] = Gone)
      BY <2>1, RetainFacts DEF SweepCodes, TypeOK
    <3>2. UNCHANGED <<carried, refresh>> /\ \A g \in Handlers :
             pc'[g] = "insert_refresh" <=> pc[g] = "insert_refresh"
      BY <2>1 DEF SweepCodes, Goto, TypeOK
    <3> QED
      BY <1>0, <3>1, <3>2, SomeLost
  <2>2. CASE SweepAccess(h)
    BY <1>4, <2>2 DEF SweepAccess, Goto
  <2>3. CASE SweepRefresh(h)
    <3>1. \A q \in RefreshTokens : refresh'[q] \in {refresh[q], Gone}
      BY <2>3, RetainFacts DEF SweepRefresh, TypeOK
    <3>2. \A g \in Handlers :
           \/ /\ carried'[g] = carried[g]
              /\ pc'[g] = "insert_refresh" <=> pc[g] = "insert_refresh"
           \/ carried'[g] = Nobody
      BY <2>3 DEF SweepRefresh, Release, Goto, TypeOK
    <3> QED
      BY <1>0, <2>3, <3>1, <3>2, SomeLost DEF SweepRefresh
  <2>4. CASE CountAccess(h)
    BY <1>4, <2>4 DEF CountAccess, Goto
  <2>5. CASE CountRefresh(h)
    BY <1>4, <2>5 DEF CountRefresh, Goto
  <2>6. ASSUME NEW t \in AccessTokens, InsertAccess(h, t)
        PROVE  OneTime!Next
    <3> DEFINE c == carried[h].origin
    <3>1. /\ pc[h] = "insert_access" /\ pc' = [pc EXCEPT ![h] = "insert_refresh"]
          /\ UNCHANGED <<codes, refresh, carried>>
      BY <2>6 DEF InsertAccess, Goto
    <3>2. h \in InFlight /\ c \in Codes /\ codes[c] = Gone /\ Gone # Fresh
      BY <3>1, StoredFields, GrantSentinels DEF TypeOK, InFlight, Issuing, AuthorityHeldOnce
    <3>3. \A g \in InFlight : carried[g].origin = c => g = h
      BY <3>2 DEF AuthorityHeldOnce
    <3>4. place[c] = "redeeming"
      BY <3>1, <3>2, <3>3 DEF place
    <3>5. h \in InFlight' /\ carried'[h].origin = c /\ pc'[h] = "insert_refresh"
      BY <3>1, <3>2 DEF InFlight, TypeOK
    <3>6. place'[c] = "issued"
      BY <3>1, <3>2, <3>5 DEF place
    <3>7. ASSUME NEW d \in Codes \ {c}
          PROVE  place'[d] = place[d]
      <4>1. \A g \in Handlers : g = h \/ pc'[g] = pc[g]
        BY <3>1 DEF TypeOK
      <4> QED
        BY <3>1, <4>1, StaysInPlace
    <3>8. OneTime!Issue(c)
      BY <3>2, <3>4, <3>6, <3>7, OneMoves DEF OneTime!Issue, OneTime!Places
    <3> QED
      BY <3>2, <3>8 DEF OneTime!Next
  <2>7. ASSUME NEW r \in RefreshTokens, InsertRefresh(h, r)
        PROVE  OneTime!Next
    <3> DEFINE c == carried[h].origin
    <3>1. pc[h] = "insert_refresh" /\ codes' = codes /\ refresh[r] = Fresh /\ Release(h)
      BY <2>7 DEF InsertRefresh
    <3>2. carried[h] # Nobody /\ h \in InFlight /\ c \in Codes
          /\ codes[c] = Gone /\ Gone # Fresh
      BY <3>1, StoredFields, GrantSentinels DEF TypeOK, InFlight, Issuing, AuthorityHeldOnce
    <3>3. refresh'[r].origin = c /\ r \in Live(refresh')
      BY <2>7, <3>2, NewGrants DEF InsertRefresh, TypeOK, Live
    <3>4. \A q \in RefreshTokens \ {r} : refresh'[q] = refresh[q]
      BY <2>7 DEF InsertRefresh, TypeOK
    <3>5. place[c] = "issued"
      BY <3>1, <3>2 DEF place
    <3>6. /\ carried'[h] = Nobody
          /\ \A g \in Handlers \ {h} : carried'[g] = carried[g] /\ pc'[g] = pc[g]
      BY <3>1 DEF Release, Goto, TypeOK
    <3>7. \A g \in InFlight' : carried'[g].origin # c
      BY <3>2, <3>6 DEF InFlight, AuthorityHeldOnce
    <3>8. place'[c] = "refreshable"
      BY <3>1, <3>2, <3>3, <3>7 DEF place
    <3>9. ASSUME NEW d \in Codes \ {c}
          PROVE  place'[d] = place[d]
      <4>1. r \notin Live(refresh)
        BY <3>1 DEF Live
      <4>2. \A q \in RefreshTokens :
              \/ refresh'[q] = refresh[q]
              \/ q = r /\ q \notin Live(refresh) /\ refresh'[q].origin # d
        BY <3>3, <3>4, <4>1
      <4> QED
        BY <3>1, <3>6, <4>2, StaysInPlace
    <3>10. OneTime!Rotate(c)
      BY <3>2, <3>5, <3>8, <3>9, OneMoves DEF OneTime!Rotate, OneTime!Places
    <3> QED
      BY <3>2, <3>10 DEF OneTime!Next
  <2> QED
    BY <1>5, <2>1, <2>2, <2>3, <2>4, <2>5, <2>6, <2>7 DEF IssueStep
<1>6. ASSUME NEW h \in Handlers, BeginSweep(h)
      PROVE  OneTime!Next
  BY <1>4, <1>6 DEF BeginSweep, Goto, Steps
<1>7. ASSUME NEW h \in Handlers, Disconnect(h)
      PROVE  OneTime!Next
  BY <1>4, <1>7 DEF Disconnect
<1>8. CASE (\E t \in AccessTokens : LookupExpired(t)) \/ Tick \/ UNCHANGED vars
  <2>1. UNCHANGED <<codes, refresh, carried, pc>>
    BY <1>8 DEF LookupExpired, Tick, vars, locals
  <2> QED
    BY <1>0, <2>1, SomeLost
<1> QED
  BY <1>1, <1>2, <1>3, <1>5, <1>6, <1>7, <1>8 DEF Next

\* The three maps and the requests that race on them are together one right to
\* obtain tokens per sign-in: it is in one place at a time, moves only forward,
\* and does not come back once it is lost (oauth.rs:683-815).
THEOREM OneTimeRefined == Spec => ImplementsOneTime
<1>1. Init => OneTime!Init
  BY DEF Init, OneTime!Init, place
<1>2. TypeOK /\ TypeOK' /\ AuthorityHeldOnce /\ [Next]_vars => [OneTime!Next]_place
  BY OneTimeStep
<1> QED
  BY <1>1, <1>2, TypeCorrect, HeldOnce, PTL DEF Spec, ImplementsOneTime, OneTime!Spec

-----------------------------------------------------------------------------
\* The code map.

\* What the token endpoint and its surroundings do to the codes.
LEMMA CodesStep ==
  ASSUME SweepClockInv, [Next]_vars
  PROVE  \/ \E c \in Codes, client \in Clients, redirect \in Redirects,
               v \in Verifiers, s \in Sessions :
              GrantCode(c, client, redirect, v, s) /\ now' = now
         \/ \E c \in Live(codes) : codes' = [codes EXCEPT ![c] = Gone] /\ now' = now
         \/ \E t \in 0..now : codes' = Retain(codes, t) /\ now' = now
         \/ codes' = codes /\ now' \in {now, now + 1}
<1>1. ASSUME NEW h \in Handlers, CodeRequest(h)
      PROVE  \E c \in Live(codes) : codes' = [codes EXCEPT ![c] = Gone] /\ now' = now
  BY <1>1 DEF CodeRequest, RedeemCode, RejectCode, TakeCode
<1>2. ASSUME NEW h \in Handlers, SweepCodes(h)
      PROVE  \E t \in 0..now : codes' = Retain(codes, t) /\ now' = now
  BY <1>2 DEF SweepCodes, SweepClockInv, TypeOK
<1>3. ASSUME NEW h \in Handlers,
             RefreshRequest(h) \/ BeginSweep(h) \/ Disconnect(h)
               \/ (IssueStep(h) /\ ~SweepCodes(h))
      PROVE  codes' = codes /\ now' = now
  BY <1>3 DEF RefreshRequest, RedeemRefresh, RejectRefresh, BeginSweep, Disconnect,
              IssueStep, SweepAccess, SweepRefresh, CountAccess, CountRefresh,
              InsertAccess, InsertRefresh
<1>4. ASSUME (\E t \in AccessTokens : LookupExpired(t)) \/ Tick \/ UNCHANGED vars
      PROVE  codes' = codes /\ now' \in {now, now + 1}
  BY <1>4 DEF LookupExpired, Tick, vars
<1>5. ASSUME NEW c \in Codes, NEW client \in Clients, NEW redirect \in Redirects,
             NEW v \in Verifiers, NEW s \in Sessions,
             GrantCode(c, client, redirect, v, s)
      PROVE  now' = now
  BY <1>5 DEF GrantCode
<1> QED
  BY <1>1, <1>2, <1>3, <1>4, <1>5 DEF Next

\* Codes that end together, as the code map sees it.
LEMMA CodesEnd ==
  ASSUME TypeOK, NEW S \in SUBSET Live(codes), now' = now,
         codes' = [c \in Codes |-> IF c \in S THEN Gone ELSE codes[c]]
  PROVE  CodeMap!End(S)
<1>1. \A c \in S : c \in Codes /\ codes[c] \notin {Fresh, Gone}
  BY DEF Live, TypeOK
<1>2. codeStatus' = [c \in Codes |-> IF c \in S THEN "gone" ELSE codeStatus[c]]
  BY <1>1, GrantSentinels DEF codeStatus
<1>3. codeGrant' = [c \in Codes |-> IF c \in S THEN <<>> ELSE codeGrant[c]]
  BY <1>1, GrantSentinels DEF codeGrant
<1> QED
  BY <1>2, <1>3 DEF CodeMap!End

\* A live code's status and grant.
LEMMA LiveCode ==
  ASSUME TypeOK, NEW c \in Codes
  PROVE  /\ codeStatus[c] = "live" <=> c \in Live(codes)
         /\ c \in Live(codes) => codeGrant[c].expires = codes[c].expires
BY DEF codeStatus, codeGrant, Live, TypeOK

\* Every step is one of the code map's or leaves it as it is.
LEMMA CodeMapStep ==
  SweepClockInv /\ SweepClockInv' /\ [Next]_vars => [CodeMap!Next]_(CodeMap!vars)
<1> SUFFICES ASSUME SweepClockInv, SweepClockInv', [Next]_vars
             PROVE  CodeMap!Next \/ UNCHANGED CodeMap!vars
  OBVIOUS
<1>0. TypeOK /\ TypeOK'
  BY DEF SweepClockInv
<1>1. ASSUME NEW c \in Codes, NEW client \in Clients, NEW redirect \in Redirects,
             NEW v \in Verifiers, NEW s \in Sessions,
             GrantCode(c, client, redirect, v, s), now' = now
      PROVE  CodeMap!Next
  <2> DEFINE a == <<client, redirect, v, s>>
             entry(t) == [client |-> client, redirect |-> redirect, challenge |-> v,
                          session |-> s, expires |-> t + CodeTtl]
  <2>1. PICK t \in 0..now : codes' = [codes EXCEPT ![c] = entry(t)]
    BY <1>1 DEF GrantCode
  <2>2. codes[c] = Fresh /\ codes'[c] = entry(t) /\ codes'[c] \in CodeGrant
        /\ \A d \in Codes \ {c} : codes'[d] = codes[d]
    <3>1. t + CodeTtl \in Int
      BY <1>0, GrantConstants DEF TypeOK
    <3> QED
      BY <1>0, <1>1, <2>1, <3>1 DEF GrantCode, TypeOK, CodeGrant
  <2>3. codeStatus[c] = "fresh" /\ codeStatus' = [codeStatus EXCEPT ![c] = "live"]
    BY <2>2, GrantSentinels DEF codeStatus
  <2>4. codeGrant' = [codeGrant EXCEPT ![c] = [stands_for |-> a, expires |-> t + CodeTtl]]
    <3>1. /\ codes'[c].client = client /\ codes'[c].redirect = redirect
          /\ codes'[c].challenge = v /\ codes'[c].session = s
          /\ codes'[c].expires = t + CodeTtl
      BY <2>2
    <3>2. codeGrant'[c] = [stands_for |-> a, expires |-> t + CodeTtl]
      BY <2>2, <3>1, GrantSentinels DEF codeGrant
    <3>3. \A d \in Codes \ {c} : codeGrant'[d] = codeGrant[d]
      BY <2>2 DEF codeGrant
    <3>4. codeGrant = [d \in Codes |-> codeGrant[d]] /\ codeGrant' = [d \in Codes |-> codeGrant'[d]]
      BY DEF codeGrant
    <3> HIDE DEF a
    <3> QED
      BY <3>2, <3>3, <3>4
  <2>5. CodeMap!Store(c, a, t)
    BY <1>1, <2>3, <2>4 DEF CodeMap!Store
  <2>6. a \in Clients \X Redirects \X Verifiers \X Sessions
    OBVIOUS
  <2> HIDE DEF a
  <2> QED
    BY <2>5, <2>6 DEF CodeMap!Next
<1>2. ASSUME NEW c \in Live(codes), codes' = [codes EXCEPT ![c] = Gone], now' = now
      PROVE  CodeMap!Next
  <2>1. c \in Codes /\ codeStatus[c] = "live"
    BY <1>0, <1>2, LiveCode DEF Live, TypeOK
  <2>2. codes' = [d \in Codes |-> IF d \in {c} THEN Gone ELSE codes[d]]
    BY <1>0, <1>2 DEF TypeOK
  <2>3. CodeMap!End({c})
    BY <1>0, <1>2, <2>2, CodesEnd
  <2> QED
    BY <2>1, <2>3 DEF CodeMap!Next, CodeMap!Take
<1>3. ASSUME NEW t \in 0..now, codes' = Retain(codes, t), now' = now
      PROVE  CodeMap!Next
  <2> DEFINE S == {c \in Codes : codeStatus[c] = "live" /\ codeGrant[c].expires <= t}
  <2>1. \A c \in Codes : c \in S <=> c \in Live(codes) /\ Expired(codes[c], t)
    BY <1>0, LiveCode DEF Expired
  <2>2. S \in SUBSET Live(codes)
    BY <2>1
  <2>3. codes' = [c \in Codes |-> IF c \in S THEN Gone ELSE codes[c]]
    BY <1>0, <1>3, <2>1 DEF Retain, TypeOK
  <2>4. CodeMap!End(S)
    <3> HIDE DEF S
    <3> QED
      BY <1>0, <1>3, <2>2, <2>3, CodesEnd
  <2> QED
    BY <1>3, <2>4 DEF CodeMap!Next, CodeMap!Sweep
<1>4. ASSUME codes' = codes, now' \in {now, now + 1}
      PROVE  CodeMap!Next \/ UNCHANGED CodeMap!vars
  BY <1>4 DEF CodeMap!Next, CodeMap!Tick, CodeMap!vars, codeStatus, codeGrant
<1> QED
  BY <1>1, <1>2, <1>3, <1>4, CodesStep

\* The token endpoint takes the codes that it finds, sweeps expired ones and
\* changes none: it lives up to what AuthorizationFlow_proofs!CodesStored shows
\* the authorization endpoints to expect of it, and assumes no more of what they
\* store (oauth.rs:568-579, 696, 846-858).
THEOREM CodesTaken == Spec => ImplementsCodes
<1>1. Init => CodeMap!Init
  BY DEF Init, CodeMap!Init, codeStatus, codeGrant
<1>2. Init /\ [][Next]_vars => []SweepClockInv
  BY SweepClockInit, SweepClockStep, PTL
<1> QED
  BY <1>1, <1>2, CodeMapStep, PTL DEF Spec, ImplementsCodes, CodeMap!Spec
=============================================================================
