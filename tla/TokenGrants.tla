---------------------------- MODULE TokenGrants ----------------------------
(***************************************************************************)
(* The grant store behind POST /oauth/token (src/src/oauth.rs).            *)
(*                                                                         *)
(* Authorization codes, access grants and refresh grants live in three     *)
(* maps, each behind a lock of its own.  A token request takes the locks   *)
(* one after the other and awaits each of them, so any number of requests  *)
(* interleave between two lock operations:                                 *)
(*                                                                         *)
(*   remove the code or refresh grant -> sweep the maps -> count the       *)
(*   access grants -> count the refresh grants and compute the expiry ->   *)
(*   insert the access grant -> insert the refresh grant                   *)
(*                                                                         *)
(* One action is what the code does between two awaits.  A connection that *)
(* is closed drops the request at an await (Disconnect).                   *)
(***************************************************************************)
EXTENDS Integers, FiniteSets

CONSTANTS
  Handlers,       \* token requests (and sweeping requests) in progress at once
  Clients,        \* registered client ids
  Redirects,      \* redirect URIs
  Verifiers,      \* PKCE verifiers; a challenge is named by its verifier
  Sessions,       \* Docmost sessions
  Codes,          \* values random_token may return for a code ...
  AccessTokens,   \* ... for an access token ...
  RefreshTokens,  \* ... and for a refresh token: bounds how many are issued
  SessionExpiry,  \* when each Docmost session ends, or NoExpiry
  NoExpiry,       \* the session token carries no expiry
  NoClient,       \* a refresh request without client_id
  Fresh,          \* no grant: the token has never been generated
  Gone,           \* no grant: it was redeemed, refused or swept
  Nobody,         \* what a handler carries outside a redemption
  CodeTtl,        \* AUTHORIZATION_CODE_TTL_MINUTES
  AccessTtl,      \* ACCESS_TOKEN_TTL_MINUTES
  MinLife,        \* 30 seconds: the shortest access token worth issuing
  MaxAccess,      \* MAX_ACCESS_GRANTS
  MaxRefresh,     \* MAX_REFRESH_GRANTS
  MaxTime         \* bound on the clock

\* What a grant authorizes, and the code it descends from.  origin is a
\* history component: the program does not store it.
Authority == [client : Clients, session : Sessions, origin : Codes]

CodeGrant == [client : Clients, redirect : Redirects, challenge : Verifiers,
              session : Sessions, expires : Int]

AccessGrant == [session : Sessions, origin : Codes, expires : Int]

RefreshGrant == [client : Clients, session : Sessions, origin : Codes,
                 expires : Int]

ASSUME GrantConstants ==
  /\ SessionExpiry \in [Sessions -> Nat \cup {NoExpiry}]
  /\ NoExpiry \notin Nat
  /\ CodeTtl \in Nat /\ AccessTtl \in Nat /\ MinLife \in Nat
  /\ MaxAccess \in Nat \ {0} /\ MaxRefresh \in Nat \ {0}
  /\ MaxTime \in Nat
  /\ NoClient \notin Clients

ASSUME GrantSentinels ==
  /\ Fresh # Gone
  /\ {Fresh, Gone} \cap (CodeGrant \cup AccessGrant \cup RefreshGrant) = {}
  /\ Nobody \notin Authority

ASSUME GrantFiniteness ==
  /\ IsFiniteSet(Handlers) /\ IsFiniteSet(Codes)
  /\ IsFiniteSet(AccessTokens) /\ IsFiniteSet(RefreshTokens)

VARIABLES
  now,           \* the clock
  codes,         \* the codes map
  access,        \* the access_tokens map
  refresh,       \* the refresh_tokens map
  pc,            \* where each handler is
  carried,       \* the authority a handler took out of a grant
  asOf,          \* the time at which a handler began its sweep
  accessExpiry,  \* the expiry a handler computed for its access grant
  minted         \* history: what each code was granted for, once granted

vars == <<now, codes, access, refresh, pc, carried, asOf, accessExpiry, minted>>

-----------------------------------------------------------------------------
\* Entries present in a map.
Live(map) == {k \in DOMAIN map : map[k] \notin {Fresh, Gone}}

Expired(grant, t) == grant.expires <= t

\* Mutant of Retain: entries are dropped a minute early.
RetainEarly(map, t) ==
  [k \in DOMAIN map |-> IF k \in Live(map) /\ Expired(map[k], t + 1)
                        THEN Gone ELSE map[k]]

\* retain(|_, grant| grant.expires_at > t)
Retain(map, t) ==
  [k \in DOMAIN map |-> IF k \in Live(map) /\ Expired(map[k], t)
                        THEN Gone ELSE map[k]]

\* min(Docmost expiry, t + 60 minutes)
ExpiryAt(s, t) ==
  IF SessionExpiry[s] # NoExpiry /\ SessionExpiry[s] < t + AccessTtl
  THEN SessionExpiry[s] ELSE t + AccessTtl

Steps == {"idle", "sweep_codes", "sweep_access", "sweep_refresh",
          "count_access", "count_refresh", "insert_access", "insert_refresh"}

locals == <<pc, carried, asOf, accessExpiry>>

Goto(h, step) == pc' = [pc EXCEPT ![h] = step]

\* A handler answers, or is dropped, and keeps nothing.
Release(h) ==
  /\ Goto(h, "idle")
  /\ carried' = [carried EXCEPT ![h] = Nobody]
  /\ asOf' = [asOf EXCEPT ![h] = 0]
  /\ accessExpiry' = [accessExpiry EXCEPT ![h] = 0]

Init ==
  /\ now = 0
  /\ codes = [c \in Codes |-> Fresh]
  /\ access = [t \in AccessTokens |-> Fresh]
  /\ refresh = [r \in RefreshTokens |-> Fresh]
  /\ pc = [h \in Handlers |-> "idle"]
  /\ carried = [h \in Handlers |-> Nobody]
  /\ asOf = [h \in Handlers |-> 0]
  /\ accessExpiry = [h \in Handlers |-> 0]
  /\ minted = [c \in Codes |-> Nobody]

-----------------------------------------------------------------------------
\* The authorization flow stores a code for a Docmost session.  It read the clock
\* before it waited for the lock.
GrantCode(c, client, redirect, verifier, session) ==
  /\ codes[c] = Fresh
  /\ \E asked \in 0..now :
       codes' = [codes EXCEPT ![c] =
         [client |-> client, redirect |-> redirect, challenge |-> verifier,
          session |-> session, expires |-> asked + CodeTtl]]
  /\ minted' = [minted EXCEPT ![c] =
       [client |-> client, session |-> session, origin |-> c]]
  /\ UNCHANGED <<now, access, refresh, locals>>

\* A handler that took authority a out of the store starts issue_tokens,
\* whose first call is the sweep.
Carry(h, a) ==
  /\ carried' = [carried EXCEPT ![h] = a]
  /\ asOf' = [asOf EXCEPT ![h] = now]
  /\ Goto(h, "sweep_codes")

CodeMatches(c, client, redirect, verifier) ==
  /\ ~Expired(codes[c], now)
  /\ codes[c].client = client
  /\ codes[c].redirect = redirect
  /\ codes[c].challenge = verifier

\* Mutant of TakeCode: the code is looked up, not removed.
LookUpCode(c) == UNCHANGED codes

TakeCode(c) == codes' = [codes EXCEPT ![c] = Gone]

\* exchange_authorization_code: the code leaves the map before it is checked.
RedeemCode(h, c, client, redirect, verifier) ==
  /\ pc[h] = "idle"
  /\ c \in Live(codes)
  /\ CodeMatches(c, client, redirect, verifier)
  /\ Carry(h, [client |-> codes[c].client, session |-> codes[c].session,
               origin |-> c])
  /\ TakeCode(c)
  /\ UNCHANGED <<now, access, refresh, accessExpiry, minted>>

RejectCode(c, client, redirect, verifier) ==
  /\ c \in Live(codes)
  /\ ~CodeMatches(c, client, redirect, verifier)
  /\ TakeCode(c)
  /\ UNCHANGED <<now, access, refresh, minted, locals>>

RefreshMatches(r, client) ==
  /\ ~Expired(refresh[r], now)
  /\ client \in {NoClient, refresh[r].client}

\* Mutant of TakeRefresh: the refresh grant is looked up, not removed.
LookUpRefresh(r) == UNCHANGED refresh

TakeRefresh(r) == refresh' = [refresh EXCEPT ![r] = Gone]

\* exchange_refresh_token: the grant leaves the map before it is checked.
RedeemRefresh(h, r, client) ==
  /\ pc[h] = "idle"
  /\ r \in Live(refresh)
  /\ RefreshMatches(r, client)
  /\ Carry(h, [client |-> refresh[r].client, session |-> refresh[r].session,
               origin |-> refresh[r].origin])
  /\ TakeRefresh(r)
  /\ UNCHANGED <<now, codes, access, accessExpiry, minted>>

RejectRefresh(r, client) ==
  /\ r \in Live(refresh)
  /\ ~RefreshMatches(r, client)
  /\ TakeRefresh(r)
  /\ UNCHANGED <<now, codes, access, minted, locals>>

-----------------------------------------------------------------------------
\* Other endpoints (authorize, the login throttle, the MCP gateway) sweep too.
BeginSweep(h) ==
  /\ pc[h] = "idle"
  /\ asOf' = [asOf EXCEPT ![h] = now]
  /\ Goto(h, "sweep_codes")
  /\ UNCHANGED <<now, codes, access, refresh, carried, accessExpiry, minted>>

\* cleanup_expired: one clock reading, then one lock after another.
SweepCodes(h) ==
  /\ pc[h] = "sweep_codes"
  /\ codes' = Retain(codes, asOf[h])
  /\ Goto(h, "sweep_access")
  /\ UNCHANGED <<now, access, refresh, carried, asOf, accessExpiry, minted>>

SweepAccess(h) ==
  /\ pc[h] = "sweep_access"
  /\ access' = Retain(access, asOf[h])
  /\ Goto(h, "sweep_refresh")
  /\ UNCHANGED <<now, codes, refresh, carried, asOf, accessExpiry, minted>>

\* Mutant of SweepRefresh: every sweep goes on to issue tokens.
SweepThenIssue(h) ==
  /\ pc[h] = "sweep_refresh"
  /\ refresh' = Retain(refresh, asOf[h])
  /\ Goto(h, "count_access")
  /\ UNCHANGED <<now, codes, access, carried, asOf, accessExpiry, minted>>

SweepRefresh(h) ==
  /\ pc[h] = "sweep_refresh"
  /\ refresh' = Retain(refresh, asOf[h])
  /\ \/ carried[h] = Nobody /\ Release(h)
     \/ /\ carried[h] # Nobody
        /\ Goto(h, "count_access")
        /\ UNCHANGED <<carried, asOf, accessExpiry>>
  /\ UNCHANGED <<now, codes, access, minted>>

\* Mutant of AccessFull: off by one.
AccessOverfull == Cardinality(Live(access)) > MaxAccess

\* issue_tokens: refuse when the access map is full.
AccessFull == Cardinality(Live(access)) >= MaxAccess

CountAccess(h) ==
  /\ pc[h] = "count_access"
  /\ \/ AccessFull /\ Release(h)
     \/ /\ ~AccessFull
        /\ Goto(h, "count_refresh")
        /\ UNCHANGED <<carried, asOf, accessExpiry>>
  /\ UNCHANGED <<now, codes, access, refresh, minted>>

\* issue_tokens: refuse when the refresh map is full or the Docmost session
\* is about to end, else fix the expiry of the access grant.
RefreshFull == Cardinality(Live(refresh)) >= MaxRefresh

CountRefresh(h) ==
  LET expiry == ExpiryAt(carried[h].session, now) IN
  /\ pc[h] = "count_refresh"
  /\ \/ (RefreshFull \/ expiry <= now + MinLife) /\ Release(h)
     \/ /\ ~RefreshFull /\ expiry > now + MinLife
        /\ accessExpiry' = [accessExpiry EXCEPT ![h] = expiry]
        /\ Goto(h, "insert_access")
        /\ UNCHANGED <<carried, asOf>>
  /\ UNCHANGED <<now, codes, access, refresh, minted>>

InsertAccess(h, t) ==
  /\ pc[h] = "insert_access"
  /\ access[t] = Fresh
  /\ access' = [access EXCEPT ![t] =
       [session |-> carried[h].session, origin |-> carried[h].origin,
        expires |-> accessExpiry[h]]]
  /\ Goto(h, "insert_refresh")
  /\ UNCHANGED <<now, codes, refresh, minted, carried, asOf, accessExpiry>>

\* Mutant of RefreshExpiry: a full lifetime again at every rotation.
RenewedExpiry(h) == now + AccessTtl

\* docmost_expiry.unwrap_or(access_expiry)
RefreshExpiry(h) ==
  IF SessionExpiry[carried[h].session] = NoExpiry
  THEN accessExpiry[h] ELSE SessionExpiry[carried[h].session]

InsertRefresh(h, r) ==
  /\ pc[h] = "insert_refresh"
  /\ refresh[r] = Fresh
  /\ refresh' = [refresh EXCEPT ![r] =
       [client |-> carried[h].client, session |-> carried[h].session,
        origin |-> carried[h].origin, expires |-> RefreshExpiry(h)]]
  /\ Release(h)
  /\ UNCHANGED <<now, codes, access, minted>>

-----------------------------------------------------------------------------
\* The client closes its connection: the server drops the request's future
\* at the await it has reached.
Disconnect(h) ==
  /\ pc[h] # "idle"
  /\ Release(h)
  /\ UNCHANGED <<now, codes, access, refresh, minted>>

\* access_session: a bearer token is looked up, an expired grant is removed.
\* Looking up a grant that has not expired changes nothing.
LookupExpired(t) ==
  /\ t \in Live(access)
  /\ Expired(access[t], now)
  /\ access' = [access EXCEPT ![t] = Gone]
  /\ UNCHANGED <<now, codes, refresh, minted, locals>>

Tick ==
  /\ now < MaxTime
  /\ now' = now + 1
  /\ UNCHANGED <<codes, access, refresh, minted, locals>>

CodeRequest(h) ==
  \E c \in Codes, client \in Clients, redirect \in Redirects, v \in Verifiers :
    RedeemCode(h, c, client, redirect, v) \/ RejectCode(c, client, redirect, v)

RefreshRequest(h) ==
  \E r \in RefreshTokens, client \in Clients \cup {NoClient} :
    RedeemRefresh(h, r, client) \/ RejectRefresh(r, client)

IssueStep(h) ==
  \/ SweepCodes(h) \/ SweepAccess(h) \/ SweepRefresh(h)
  \/ CountAccess(h) \/ CountRefresh(h)
  \/ \E t \in AccessTokens : InsertAccess(h, t)
  \/ \E r \in RefreshTokens : InsertRefresh(h, r)

Next ==
  \/ \E c \in Codes, client \in Clients, redirect \in Redirects,
        v \in Verifiers, s \in Sessions :
       GrantCode(c, client, redirect, v, s)
  \/ \E h \in Handlers : \/ CodeRequest(h) \/ RefreshRequest(h)
                         \/ BeginSweep(h) \/ IssueStep(h) \/ Disconnect(h)
  \/ \E t \in AccessTokens : LookupExpired(t)
  \/ Tick

Spec == Init /\ [][Next]_vars

-----------------------------------------------------------------------------
\* The values of the variables: the maps hold grants of their own kind, and a
\* handler carries an authority exactly while it issues tokens for it.
Issuing == {"count_access", "count_refresh", "insert_access", "insert_refresh"}

TypeOK ==
  /\ now \in Nat
  /\ codes \in [Codes -> CodeGrant \cup {Fresh, Gone}]
  /\ access \in [AccessTokens -> AccessGrant \cup {Fresh, Gone}]
  /\ refresh \in [RefreshTokens -> RefreshGrant \cup {Fresh, Gone}]
  /\ pc \in [Handlers -> Steps]
  /\ carried \in [Handlers -> Authority \cup {Nobody}]
  /\ asOf \in [Handlers -> Nat]
  /\ accessExpiry \in [Handlers -> Int]
  /\ minted \in [Codes -> Authority \cup {Nobody}]
  /\ \A h \in Handlers :
       /\ pc[h] \in Issuing => carried[h] # Nobody
       /\ pc[h] = "idle" => carried[h] = Nobody

-----------------------------------------------------------------------------
InFlight == {h \in Handlers : carried[h] # Nobody}

\* One sign-in is redeemable in one place: while its code is stored nobody
\* else holds it, and afterwards it is in the hands of one handler or in one
\* refresh grant.  (Codes and refresh grants are removed under the write lock
\* before they are checked, oauth.rs:696 and 721-727.)
AuthorityHeldOnce ==
  /\ \A h \in InFlight : codes[carried[h].origin] = Gone
  /\ \A r \in Live(refresh) : codes[refresh[r].origin] = Gone
  /\ \A h, g \in InFlight : carried[h].origin = carried[g].origin => h = g
  /\ \A r, q \in Live(refresh) : refresh[r].origin = refresh[q].origin => r = q
  /\ \A h \in InFlight, r \in Live(refresh) :
       carried[h].origin # refresh[r].origin

\* The expiry e outlives no session s.
Within(s, e) == SessionExpiry[s] = NoExpiry \/ e <= SessionExpiry[s]

\* Through any number of rotations a grant stays with the client and the
\* Docmost session its code was granted for, and none outlives that session
\* (oauth.rs:774-789, 800-810).
GrantsKeepTheirSession ==
  /\ \A h \in InFlight : minted[carried[h].origin] = carried[h]
  /\ \A r \in Live(refresh) :
       /\ minted[refresh[r].origin] = [client |-> refresh[r].client,
             session |-> refresh[r].session, origin |-> refresh[r].origin]
       /\ Within(refresh[r].session, refresh[r].expires)
  /\ \A t \in Live(access) :
       /\ minted[access[t].origin] # Nobody
       /\ minted[access[t].origin].session = access[t].session
       /\ Within(access[t].session, access[t].expires)

\* Handlers that were let past the count of the access (refresh) map and have
\* yet to insert.
PastAccessCount == {h \in Handlers : pc[h] \in {"count_refresh", "insert_access"}}
PastRefreshCount == {h \in Handlers : pc[h] \in {"insert_access", "insert_refresh"}}

AccessCapacity ==
  Cardinality(Live(access)) <= MaxAccess - 1 + Cardinality(Handlers)

RefreshCapacity ==
  Cardinality(Live(refresh)) <= MaxRefresh - 1 + Cardinality(Handlers)

\* The maps are counted under one lock and filled under another, so the caps
\* can be passed, but only by the requests in progress (oauth.rs:764-772
\* against 792 and 802).
GrantCapacity == AccessCapacity /\ RefreshCapacity

\* An access grant stays until it has expired: a sweep that read the clock
\* long ago, a rotation or a refused request never takes it away.
AccessHonouredUntilExpiry ==
  [][\A t \in Live(access) :
       access'[t] \in {Fresh, Gone} => Expired(access[t], now)]_vars

\* The place of each sign-in, read off the maps and the handlers.
place ==
  [c \in Codes |->
     IF codes[c] = Fresh THEN "none"
     ELSE IF codes[c] # Gone THEN "code"
     ELSE IF \E h \in InFlight : carried[h].origin = c /\ pc[h] = "insert_refresh"
          THEN "issued"
     ELSE IF \E h \in InFlight : carried[h].origin = c THEN "redeeming"
     ELSE IF \E r \in Live(refresh) : refresh[r].origin = c THEN "refreshable"
     ELSE "spent"]

OneTime == INSTANCE OneTimeAuthorization WITH Authorizations <- Codes

\* The three maps and their handlers implement the one-time authorization.
ImplementsOneTime == OneTime!Spec

\* The codes as the authorization endpoints know them.
codeStatus ==
  [c \in Codes |-> IF codes[c] = Fresh THEN "fresh"
                   ELSE IF codes[c] = Gone THEN "gone" ELSE "live"]

codeGrant ==
  [c \in Codes |->
     IF codes[c] \in {Fresh, Gone} THEN <<>>
     ELSE [stands_for |-> <<codes[c].client, codes[c].redirect,
                           codes[c].challenge, codes[c].session>>,
           expires |-> codes[c].expires]]

CodeMap == INSTANCE AuthorizationCodes WITH
  Authorities <- Clients \X Redirects \X Verifiers \X Sessions,
  status <- codeStatus, grant <- codeGrant

\* The token endpoint takes codes that the authorization endpoints store, and
\* changes none.
ImplementsCodes == CodeMap!Spec
=============================================================================
