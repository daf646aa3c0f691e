------------------------- MODULE McpGateway_proofs -------------------------
(***************************************************************************)
(* Theorems about the MCP services of the gateway for any number of        *)
(* requests, sessions and grants, any lifetimes and any caps.              *)
(***************************************************************************)
EXTENDS McpGateway, TokenGrants_proofs

\* A gateway request is a handler that sweeps, and is idle while it reads.
ScanInv(h) ==
  call[h] # Nobody =>
    /\ carried[h] = Nobody
    /\ pc[h] \in {"sweep_codes", "sweep_access", "sweep_refresh", "idle"}
    /\ call[h].at # "scan" => pc[h] = "idle"

\* The sessions read so far include those of the grants that stayed.
HeldInv(h) ==
  /\ held[h] \subseteq Grants
  /\ call[h] # Nobody =>
       /\ call[h].at # "scan" =>
            \A t \in Live(access) :
              <<"access", t>> \in held[h] => access[t].session \in call[h].active
       /\ call[h].at = "route" =>
            \A r \in Live(refresh) :
              <<"refresh", r>> \in held[h] => refresh[r].session \in call[h].active

\* What is left of a dead session's grants is removed by the request's sweep
\* before the request reads.
DeadInv(h) ==
  call[h] # Nobody =>
    /\ call[h].session \notin dead[h]
    /\ call[h].at = "scan" \/ call[h].active \cap dead[h] = {}
    /\ \A t \in Live(access) : access[t].session \in dead[h] =>
         /\ pc[h] \in {"sweep_codes", "sweep_access"}
         /\ access[t].expires <= asOf[h]
    /\ \A r \in Live(refresh) : refresh[r].session \in dead[h] =>
         /\ pc[h] \in {"sweep_codes", "sweep_access", "sweep_refresh"}
         /\ refresh[r].expires <= asOf[h]

CallType ==
  services \subseteq Sessions /\ call \in [Handlers -> Call \cup {Nobody}]

GatewayInv ==
  /\ CallType
  /\ \A h \in Handlers : ScanInv(h) /\ HeldInv(h) /\ DeadInv(h)

-----------------------------------------------------------------------------
\* The gateway does nothing to the grant store that the store does not do.
LEMMA ActsAsStore == GatewayNext => [Next]_vars
BY DEF GatewayNext, TokenStep, GatewayStep, Admit, ScanSweep, ReadAccess,
   ReadRefresh, Route, DropCall, Next, IssueStep

\* The gateway's requests sweep the maps and read them, and the grants are in
\* every respect as the token endpoint alone would leave them: what is proved of
\* TokenGrants holds of them in the gateway too (http_server.rs:197-231).
THEOREM GatewayKeepsStore == GatewaySpec => Spec
<1>1. GatewayInit => Init
  BY DEF GatewayInit
<1>2. [GatewayNext]_gatewayVars => [Next]_vars
  BY ActsAsStore DEF gatewayVars
<1> QED
  BY <1>1, <1>2, PTL DEF GatewaySpec, Spec

\* A token has one grant, which does not change until it is removed.
LEMMA EntriesFixed ==
  ASSUME TypeOK, [Next]_vars
  PROVE  /\ \A t \in AccessTokens : access'[t] \in {access[t], Gone} \/ access[t] = Fresh
         /\ \A r \in RefreshTokens : refresh'[r] \in {refresh[r], Gone} \/ refresh[r] = Fresh
<1>1. ASSUME NEW h \in Handlers, CodeRequest(h) \/ RefreshRequest(h)
      PROVE  /\ access' = access
             /\ \A r \in RefreshTokens : refresh'[r] \in {refresh[r], Gone}
  BY <1>1 DEF CodeRequest, RefreshRequest, RedeemCode, RejectCode, RedeemRefresh,
     RejectRefresh, TakeRefresh, TypeOK
<1>2. ASSUME NEW h \in Handlers, IssueStep(h)
      PROVE  /\ \A t \in AccessTokens :
                  access'[t] \in {access[t], Gone} \/ access[t] = Fresh
             /\ \A r \in RefreshTokens :
                  refresh'[r] \in {refresh[r], Gone} \/ refresh[r] = Fresh
  <2>1. CASE SweepAccess(h)
    BY <2>1, RetainFacts DEF SweepAccess, TypeOK
  <2>2. CASE SweepRefresh(h)
    BY <2>2, RetainFacts DEF SweepRefresh, TypeOK
  <2>3. CASE ~SweepAccess(h) /\ ~SweepRefresh(h)
    BY <1>2, <2>3 DEF IssueStep, SweepCodes, CountAccess, CountRefresh, InsertAccess,
       InsertRefresh, TypeOK
  <2> QED
    BY <2>1, <2>2, <2>3
<1>3. ASSUME NEW t \in AccessTokens, LookupExpired(t)
      PROVE  refresh' = refresh /\ access' = [access EXCEPT ![t] = Gone]
  BY <1>3 DEF LookupExpired
<1>4. CASE ~\/ \E h \in Handlers : CodeRequest(h) \/ RefreshRequest(h) \/ IssueStep(h)
            \/ \E t \in AccessTokens : LookupExpired(t)
  BY <1>4 DEF Next, GrantCode, BeginSweep, Disconnect, Tick, vars
<1> QED
  BY <1>1, <1>2, <1>3, <1>4 DEF TypeOK

\* A grant is found in Grants by its token.
LEMMA GrantPairs ==
  /\ \A t : <<"access", t>> \in Grants <=> t \in Live(access)
  /\ \A r : <<"refresh", r>> \in Grants <=> r \in Live(refresh)
  /\ \A t : <<"access", t>> \in Grants' <=> t \in Live(access')
  /\ \A r : <<"refresh", r>> \in Grants' <=> r \in Live(refresh')
BY DEF Grants, Live

\* A grant present before and after a step is the same grant; one that is new
\* takes its session off the dead ones.
LEMMA GrantChange ==
  ASSUME TypeOK, TypeOK', [Next]_vars
  PROVE  /\ \A t \in Live(access') :
              \/ t \in Live(access) /\ access'[t] = access[t]
              \/ access'[t].session \in Granted
         /\ \A r \in Live(refresh') :
              \/ r \in Live(refresh) /\ refresh'[r] = refresh[r]
              \/ refresh'[r].session \in Granted
<1>1. ASSUME NEW t \in Live(access'), t \in Live(access)
      PROVE  access'[t] = access[t]
  BY <1>1, EntriesFixed DEF Live, TypeOK
<1>2. ASSUME NEW r \in Live(refresh'), r \in Live(refresh)
      PROVE  refresh'[r] = refresh[r]
  BY <1>2, EntriesFixed DEF Live, TypeOK
<1>3. ASSUME NEW t \in Live(access'), t \notin Live(access)
      PROVE  access'[t].session \in Granted
  <2> DEFINE g == <<"access", t>>
  <2>1. g \in Grants' \ Grants /\ SessionOf(g)' = access'[t].session
    BY <1>3, GrantPairs DEF SessionOf
  <2> QED
    BY <2>1 DEF Granted
<1>4. ASSUME NEW r \in Live(refresh'), r \notin Live(refresh)
      PROVE  refresh'[r].session \in Granted
  <2> DEFINE g == <<"refresh", r>>
  <2>1. g \in Grants' \ Grants /\ SessionOf(g)' = refresh'[r].session
    BY <1>4, GrantPairs DEF SessionOf
  <2> QED
    BY <2>1 DEF Granted
<1> QED
  BY <1>1, <1>2, <1>3, <1>4

\* What is left of an expelled session has expired.
LEMMA ExpelledFacts ==
  /\ \A t \in Live(access) :
       access[t].session \in Expelled => access[t].expires <= now
  /\ \A r \in Live(refresh) :
       refresh[r].session \in Expelled => refresh[r].expires <= now
<1>1. ASSUME NEW t \in Live(access), access[t].session \in Expelled
      PROVE  access[t].expires <= now
  <2> DEFINE g == <<"access", t>>
  <2>1. g \in Grants /\ SessionOf(g) = access[t].session
    BY GrantPairs DEF SessionOf
  <2>2. ~Unexpired(g)
    BY <1>1, <2>1 DEF Expelled
  <2> QED
    BY <2>2 DEF Unexpired, Expired
<1>2. ASSUME NEW r \in Live(refresh), refresh[r].session \in Expelled
      PROVE  refresh[r].expires <= now
  <2> DEFINE g == <<"refresh", r>>
  <2>1. g \in Grants /\ SessionOf(g) = refresh[r].session
    BY GrantPairs DEF SessionOf
  <2>2. ~Unexpired(g)
    BY <1>2, <2>1 DEF Expelled
  <2> QED
    BY <2>2 DEF Unexpired, Expired
<1> QED
  BY <1>1, <1>2

\* A handler of the token endpoint leaves the other handlers alone.
LEMMA OthersKept ==
  ASSUME TypeOK, NEW g \in Handlers, NEW h \in Handlers \ {g},
         \/ CodeRequest(g) \/ RefreshRequest(g) \/ BeginSweep(g)
         \/ IssueStep(g) \/ Disconnect(g)
  PROVE  pc'[h] = pc[h] /\ carried'[h] = carried[h] /\ asOf'[h] = asOf[h]
<1>1. CASE CodeRequest(g) \/ RefreshRequest(g)
  BY <1>1 DEF CodeRequest, RefreshRequest, RedeemCode, RejectCode, RedeemRefresh,
     RejectRefresh, Carry, Goto, locals, TypeOK
<1>2. CASE BeginSweep(g) \/ Disconnect(g)
  BY <1>2 DEF BeginSweep, Disconnect, Release, Goto, TypeOK
<1>3. CASE IssueStep(g)
  BY <1>3 DEF IssueStep, SweepCodes, SweepAccess, SweepRefresh, CountAccess,
     CountRefresh, InsertAccess, InsertRefresh, Release, Goto, TypeOK
<1> QED
  BY <1>1, <1>2, <1>3

\* What a step may do to the gateway request of a handler.
LEMMA CallStep ==
  ASSUME TypeOK, GatewayInv, GatewayNext, NEW h \in Handlers
  PROVE  \/ call'[h] = Nobody
         \/ \E t \in AccessTokens : Admit(h, t)
         \/ /\ call'[h] = call[h] /\ call[h] # Nobody
            /\ pc'[h] = pc[h] /\ carried'[h] = carried[h] /\ asOf'[h] = asOf[h]
         \/ ScanSweep(h) \/ ReadAccess(h) \/ ReadRefresh(h)
<1>1. CASE TokenStep
  <2>1. call' = call
    BY <1>1 DEF TokenStep
  <2>2. CASE call[h] = Nobody
    BY <2>1, <2>2
  <2>3. CASE call[h] # Nobody
    <3>1. ASSUME NEW g \in Handlers, call[g] = Nobody,
                 \/ CodeRequest(g) \/ RefreshRequest(g) \/ BeginSweep(g)
                 \/ IssueStep(g) \/ Disconnect(g)
          PROVE  pc'[h] = pc[h] /\ carried'[h] = carried[h] /\ asOf'[h] = asOf[h]
      BY <2>3, <3>1, OthersKept
    <3>2. ASSUME \/ \E c \in Codes, client \in Clients, redirect \in Redirects,
                       v \in Verifiers, s \in Sessions :
                      GrantCode(c, client, redirect, v, s)
                 \/ \E t \in AccessTokens : LookupExpired(t)
                 \/ Tick
          PROVE  UNCHANGED locals
      BY <3>2 DEF GrantCode, LookupExpired, Tick
    <3>3. UNCHANGED locals =>
            pc'[h] = pc[h] /\ carried'[h] = carried[h] /\ asOf'[h] = asOf[h]
      BY DEF locals
    <3> QED
      BY <1>1, <2>1, <2>3, <3>1, <3>2, <3>3 DEF TokenStep
  <2> QED
    BY <2>2, <2>3
<1>2. ASSUME NEW g \in Handlers, g # h,
             \/ \E t \in AccessTokens : Admit(g, t)
             \/ ScanSweep(g) \/ ReadAccess(g) \/ ReadRefresh(g) \/ Route(g)
             \/ DropCall(g)
      PROVE  /\ call'[h] = call[h]
             /\ pc'[h] = pc[h] /\ carried'[h] = carried[h] /\ asOf'[h] = asOf[h]
  <2>1. call'[h] = call[h]
    BY <1>2 DEF Admit, ScanSweep, ReadAccess, ReadRefresh, Route, DropCall,
       GatewayInv, CallType
  <2>2. \/ BeginSweep(g) \/ IssueStep(g) \/ Disconnect(g)
        \/ UNCHANGED vars
    BY <1>2 DEF Admit, ScanSweep, ReadAccess, ReadRefresh, Route, DropCall, IssueStep
  <2> QED
    BY <1>2, <2>1, <2>2, OthersKept DEF vars
<1>3. Route(h) \/ DropCall(h) => call'[h] = Nobody
  BY DEF Route, DropCall, GatewayInv, CallType
<1> QED
  BY <1>1, <1>2, <1>3 DEF GatewayNext, GatewayStep

-----------------------------------------------------------------------------
\* The gateway's variables keep their types.
LEMMA CallTypeStep ==
  ASSUME TypeOK, TypeOK', CallType, GatewayNext
  PROVE  CallType'
<1>1. ASSUME NEW h \in Handlers, NEW t \in AccessTokens, Admit(h, t)
      PROVE  CallType'
  <2>1. access[t].session \in Sessions
    BY <1>1, StoredFields DEF Admit
  <2>2. [at |-> "scan", session |-> access[t].session, active |-> {}] \in Call
    BY <2>1 DEF Call, CallSteps
  <2> QED
    BY <1>1, <2>2 DEF Admit, CallType
<1>2. ASSUME NEW h \in Handlers, ReadAccess(h)
      PROVE  CallType'
  <2>1. call[h] \in Call /\ {access[t].session : t \in Live(access)} \subseteq Sessions
    BY <1>2, StoredFields DEF ReadAccess, CallAt, CallType
  <2>2. [call[h] EXCEPT !.at = "read_refresh",
           !.active = {access[t].session : t \in Live(access)}] \in Call
    BY <2>1 DEF Call, CallSteps
  <2> QED
    BY <1>2, <2>2 DEF ReadAccess, CallType
<1>3. ASSUME NEW h \in Handlers, ReadRefresh(h)
      PROVE  CallType'
  <2>1. call[h] \in Call /\ {refresh[r].session : r \in Live(refresh)} \subseteq Sessions
    BY <1>3, StoredFields DEF ReadRefresh, CallAt, CallType
  <2>2. [call[h] EXCEPT !.at = "route",
           !.active = @ \cup {refresh[r].session : r \in Live(refresh)}] \in Call
    BY <2>1 DEF Call, CallSteps
  <2> QED
    BY <1>3, <2>2 DEF ReadRefresh, CallType
<1>4. ASSUME NEW h \in Handlers, Route(h)
      PROVE  CallType'
  <2>1. call[h] \in Call
    BY <1>4 DEF Route, CallAt, CallType
  <2> QED
    BY <1>4, <2>1 DEF Route, CallType, Call
<1>5. ASSUME NEW h \in Handlers, DropCall(h)
      PROVE  CallType'
  BY <1>5 DEF DropCall, CallType
<1>6. CASE TokenStep \/ \E h \in Handlers : ScanSweep(h)
  BY <1>6 DEF TokenStep, ScanSweep, CallType
<1> QED
  BY <1>1, <1>2, <1>3, <1>4, <1>5, <1>6 DEF GatewayNext, GatewayStep

\* The fields of a request that was admitted.
LEMMA CallFields ==
  ASSUME GatewayInv, NEW h \in Handlers, call[h] # Nobody
  PROVE  /\ call[h] \in Call
         /\ call[h].at \in CallSteps /\ call[h].session \in Sessions
         /\ call[h].active \subseteq Sessions
BY DEF GatewayInv, CallType, Call

\* What the two reads of an admitted request collect.
LEMMA ReadFacts ==
  ASSUME GatewayInv, NEW h \in Handlers
  PROVE  /\ ReadAccess(h) =>
              /\ call'[h].at = "read_refresh" /\ call'[h].session = call[h].session
              /\ call'[h].active = {access[t].session : t \in Live(access)}
              /\ call[h] # Nobody /\ pc[h] = "idle" /\ UNCHANGED vars
         /\ ReadRefresh(h) =>
              /\ call'[h].at = "route" /\ call'[h].session = call[h].session
              /\ call'[h].active = call[h].active
                                     \cup {refresh[r].session : r \in Live(refresh)}
              /\ call[h] # Nobody /\ call[h].at = "read_refresh" /\ UNCHANGED vars
<1> DEFINE A == {access[t].session : t \in Live(access)}
           R == {refresh[r].session : r \in Live(refresh)}
<1> HIDE DEF A, R
<1>1. ASSUME ReadAccess(h)
      PROVE  /\ call'[h].at = "read_refresh" /\ call'[h].session = call[h].session
             /\ call'[h].active = A
             /\ call[h] # Nobody /\ pc[h] = "idle" /\ UNCHANGED vars
  <2>1. call[h] \in Call /\ call[h] # Nobody /\ pc[h] = "idle" /\ UNCHANGED vars
    BY <1>1, CallFields DEF ReadAccess, CallAt
  <2>2. call' = [call EXCEPT ![h].at = "read_refresh", ![h].active = A]
    BY <1>1 DEF ReadAccess, A
  <2> QED
    BY <2>1, <2>2 DEF GatewayInv, CallType, Call
<1>2. ASSUME ReadRefresh(h)
      PROVE  /\ call'[h].at = "route" /\ call'[h].session = call[h].session
             /\ call'[h].active = call[h].active \cup R
             /\ call[h] # Nobody /\ call[h].at = "read_refresh" /\ UNCHANGED vars
  <2>1. call[h] \in Call /\ call[h] # Nobody /\ call[h].at = "read_refresh"
        /\ UNCHANGED vars
    BY <1>2, CallFields DEF ReadRefresh, CallAt
  <2>2. call' = [call EXCEPT ![h].at = "route", ![h].active = @ \cup R]
    BY <1>2 DEF ReadRefresh, R
  <2> QED
    BY <2>1, <2>2 DEF GatewayInv, CallType, Call
<1> QED
  BY <1>1, <1>2 DEF A, R

\* What the steps of a request's own sweep do.
LEMMA ScanFacts ==
  ASSUME TypeOK, GatewayInv, NEW h \in Handlers, ScanSweep(h)
  PROVE  /\ call[h] # Nobody /\ call[h].at = "scan" /\ call'[h] = call[h]
         /\ carried'[h] = Nobody
         /\ \/ /\ pc'[h] = "sweep_access" /\ asOf' = asOf
               /\ pc[h] = "sweep_codes" /\ UNCHANGED <<access, refresh>>
            \/ /\ pc'[h] = "sweep_refresh" /\ asOf' = asOf /\ pc[h] = "sweep_access"
               /\ access' = Retain(access, asOf[h]) /\ refresh' = refresh
            \/ /\ pc'[h] = "idle" /\ pc[h] = "sweep_refresh"
               /\ access' = access /\ refresh' = Retain(refresh, asOf[h])
<1>1. call[h] # Nobody /\ carried[h] = Nobody /\ call' = call
  BY DEF ScanSweep, GatewayInv, ScanInv
<1>2. pc[h] # "idle"
  BY DEF ScanSweep, SweepCodes, SweepAccess, SweepRefresh
<1>3. call[h].at = "scan"
  BY <1>1, <1>2 DEF GatewayInv, ScanInv
<1> QED
  BY <1>1, <1>3 DEF ScanSweep, SweepCodes, SweepAccess, SweepRefresh, Release, Goto, TypeOK

\* An admitted request has an access token that has not expired, and sweeps.
LEMMA AdmitFacts ==
  ASSUME TypeOK, GatewayInv, NEW h \in Handlers, NEW t \in AccessTokens, Admit(h, t)
  PROVE  /\ call[h] = Nobody /\ t \in Live(access) /\ ~Expired(access[t], now)
         /\ call'[h].at = "scan" /\ call'[h].active = {}
         /\ call'[h].session = access[t].session
         /\ pc'[h] = "sweep_codes" /\ asOf'[h] = now /\ carried'[h] = Nobody
         /\ UNCHANGED <<now, access, refresh>>
BY DEF Admit, BeginSweep, Goto, TypeOK, GatewayInv, CallType

\* Every request keeps the parts of the invariant.
LEMMA ScanStep ==
  ASSUME TypeOK, TypeOK', GatewayInv, GatewayNext, NEW h \in Handlers
  PROVE  ScanInv(h)'
<1>0. ScanInv(h)
  BY DEF GatewayInv
<1>1. ASSUME NEW t \in AccessTokens, Admit(h, t)
      PROVE  ScanInv(h)'
  BY <1>1, AdmitFacts DEF ScanInv
<1>2. CASE ScanSweep(h)
  BY <1>2, ScanFacts DEF ScanInv
<1>3. CASE ReadAccess(h) \/ ReadRefresh(h)
  BY <1>0, <1>3, ReadFacts DEF ScanInv, vars
<1> QED
  BY <1>0, <1>1, <1>2, <1>3, CallStep DEF ScanInv

\* The grants a request has seen throughout stay among those it read.
LEMMA HeldStep ==
  ASSUME TypeOK, TypeOK', GatewayInv, GatewayNext, NEW h \in Handlers
  PROVE  HeldInv(h)'
<1>0. HeldInv(h) /\ ScanInv(h) /\ [Next]_vars
  BY ActsAsStore DEF GatewayInv
<1>1. held'[h] = IF call'[h] = Nobody THEN {}
                 ELSE IF call[h] = Nobody THEN Grants ELSE held[h] \cap Grants'
  BY DEF GatewayNext, Observe
<1>2. CASE call'[h] = Nobody
  BY <1>1, <1>2 DEF HeldInv
<1>3. ASSUME NEW t \in AccessTokens, Admit(h, t), call'[h] # Nobody
      PROVE  HeldInv(h)'
  <2>1. Grants' = Grants
    BY <1>3, AdmitFacts DEF Grants
  <2> QED
    BY <1>1, <1>3, <2>1, AdmitFacts DEF HeldInv
<1>4. CASE call'[h] # Nobody /\ call[h] # Nobody
  <2>0. held'[h] = held[h] \cap Grants'
    BY <1>1, <1>4
  <2>1. \A t \in Live(access') : <<"access", t>> \in held'[h] =>
          <<"access", t>> \in held[h] /\ t \in Live(access) /\ access'[t] = access[t]
    BY <1>0, <2>0, GrantPairs, EntriesFixed DEF HeldInv, Live, TypeOK
  <2>2. \A r \in Live(refresh') : <<"refresh", r>> \in held'[h] =>
          <<"refresh", r>> \in held[h] /\ r \in Live(refresh) /\ refresh'[r] = refresh[r]
    BY <1>0, <2>0, GrantPairs, EntriesFixed DEF HeldInv, Live, TypeOK
  <2>3. CASE call'[h] = call[h]
    BY <1>0, <1>4, <2>0, <2>1, <2>2, <2>3 DEF HeldInv
  <2>4. CASE ReadAccess(h)
    <3>1. \A t \in Live(access') : <<"access", t>> \in held'[h] =>
            access'[t].session \in call'[h].active
      BY <2>1, <2>4, ReadFacts
    <3>2. call'[h].at # "route"
      BY <2>4, ReadFacts
    <3> QED
      BY <2>0, <3>1, <3>2 DEF HeldInv
  <2>5. CASE ReadRefresh(h)
    <3>1. \A t \in Live(access') : <<"access", t>> \in held'[h] =>
            access'[t].session \in call'[h].active
      BY <1>0, <1>4, <2>1, <2>5, ReadFacts DEF HeldInv
    <3>2. \A r \in Live(refresh') : <<"refresh", r>> \in held'[h] =>
            refresh'[r].session \in call'[h].active
      BY <2>2, <2>5, ReadFacts
    <3> QED
      BY <2>0, <3>1, <3>2 DEF HeldInv
  <2> QED
    BY <1>4, <2>3, <2>4, <2>5, CallStep, ScanFacts DEF Admit
<1> QED
  BY <1>2, <1>3, <1>4, CallStep DEF ScanSweep, ReadAccess, ReadRefresh, CallAt

\* A session whose grants were over when a request was admitted is not read.
LEMMA DeadStep ==
  ASSUME TypeOK, TypeOK', GatewayInv, GatewayNext, NEW h \in Handlers
  PROVE  DeadInv(h)'
<1>0. DeadInv(h) /\ ScanInv(h) /\ [Next]_vars
  BY ActsAsStore DEF GatewayInv
<1>1. dead'[h] = IF call'[h] = Nobody THEN {}
                 ELSE IF call[h] = Nobody THEN Expelled ELSE dead[h] \ Granted
  BY DEF GatewayNext, Observe
<1>2. CASE call'[h] = Nobody
  BY <1>2 DEF DeadInv
<1>3. ASSUME NEW t \in AccessTokens, Admit(h, t), call'[h] # Nobody
      PROVE  DeadInv(h)'
  <2>1. dead'[h] = Expelled /\ Live(access') = Live(access) /\ Live(refresh') = Live(refresh)
    BY <1>1, <1>3, AdmitFacts DEF Live
  <2>2. access[t].session \notin Expelled
    BY <1>3, AdmitFacts, ExpelledFacts DEF Expired
  <2> QED
    BY <1>3, <2>1, <2>2, AdmitFacts, ExpelledFacts DEF DeadInv
<1>4. CASE call'[h] # Nobody /\ call[h] # Nobody
  <2>0. dead'[h] = dead[h] \ Granted
    BY <1>1, <1>4
  <2>1. \A t \in Live(access') : access'[t].session \in dead'[h] =>
          /\ t \in Live(access) /\ access'[t] = access[t]
          /\ pc[h] \in {"sweep_codes", "sweep_access"} /\ access[t].expires <= asOf[h]
    BY <1>0, <1>4, <2>0, GrantChange DEF DeadInv
  <2>2. \A r \in Live(refresh') : refresh'[r].session \in dead'[h] =>
          /\ r \in Live(refresh) /\ refresh'[r] = refresh[r]
          /\ pc[h] \in {"sweep_codes", "sweep_access", "sweep_refresh"}
          /\ refresh[r].expires <= asOf[h]
    BY <1>0, <1>4, <2>0, GrantChange DEF DeadInv
  <2>3. CASE call'[h] = call[h] /\ pc'[h] = pc[h] /\ asOf'[h] = asOf[h]
    BY <1>0, <1>4, <2>0, <2>1, <2>2, <2>3 DEF DeadInv
  <2>4. CASE ScanSweep(h)
    <3>1. \A t \in Live(access') : access'[t].session \in dead'[h] =>
            pc'[h] = "sweep_access" /\ asOf' = asOf
      BY <2>1, <2>4, ScanFacts DEF Retain, Live, Expired
    <3>2. \A r \in Live(refresh') : refresh'[r].session \in dead'[h] =>
            pc'[h] \in {"sweep_access", "sweep_refresh"} /\ asOf' = asOf
      BY <2>2, <2>4, ScanFacts DEF Retain, Live, Expired
    <3> QED
      BY <1>0, <1>4, <2>0, <2>1, <2>2, <2>4, <3>1, <3>2, ScanFacts DEF DeadInv
  <2>5. CASE ReadAccess(h)
    <3>1. call'[h].active \cap dead'[h] = {}
      <4>1. \A t \in Live(access) : access[t].session \notin dead[h]
        BY <1>0, <2>5, ReadFacts DEF DeadInv
      <4>2. call'[h].active = {access[t].session : t \in Live(access)}
        BY <2>5, ReadFacts
      <4> QED
        BY <2>0, <4>1, <4>2
    <3> QED
      BY <1>0, <1>4, <2>0, <2>1, <2>2, <2>5, <3>1, ReadFacts DEF DeadInv
  <2>6. CASE ReadRefresh(h)
    <3>1. pc[h] = "idle"
      BY <1>0, <2>6, ReadFacts DEF ScanInv
    <3>2. call'[h].active \cap dead'[h] = {}
      <4>1. /\ \A r \in Live(refresh) : refresh[r].session \notin dead[h]
            /\ call[h].active \cap dead[h] = {}
        BY <1>0, <2>6, <3>1, ReadFacts DEF DeadInv
      <4>2. call'[h].active = call[h].active
                                \cup {refresh[r].session : r \in Live(refresh)}
        BY <2>6, ReadFacts
      <4> QED
        BY <2>0, <4>1, <4>2
    <3> QED
      BY <1>0, <1>4, <2>0, <2>1, <2>2, <2>6, <3>1, <3>2, ReadFacts DEF DeadInv
  <2> QED
    BY <1>4, <2>3, <2>4, <2>5, <2>6, CallStep DEF Admit
<1> QED
  BY <1>2, <1>3, <1>4, CallStep DEF ScanSweep, ReadAccess, ReadRefresh, CallAt

\* In every state the types and the invariant of the gateway hold.
THEOREM GatewayInvariant == GatewaySpec => [](TypeOK /\ GatewayInv)
<1>1. GatewayInit => TypeOK /\ GatewayInv
  <2> SUFFICES ASSUME GatewayInit
               PROVE  GatewayInv
    BY TypeInit DEF GatewayInit
  <2> QED
    BY DEF GatewayInit, GatewayInv, CallType, ScanInv, HeldInv, DeadInv
<1>2. TypeOK /\ GatewayInv /\ [GatewayNext]_gatewayVars => TypeOK' /\ GatewayInv'
  <2> SUFFICES ASSUME TypeOK, GatewayInv, [GatewayNext]_gatewayVars
               PROVE  TypeOK' /\ GatewayInv'
    OBVIOUS
  <2>1. CASE GatewayNext
    <3>1. TypeOK'
      BY <2>1, ActsAsStore, TypeStep
    <3>2. CallType'
      BY <2>1, <3>1, CallTypeStep DEF GatewayInv
    <3> QED
      BY <2>1, <3>1, <3>2, ScanStep, HeldStep, DeadStep DEF GatewayInv
  <2>2. CASE UNCHANGED gatewayVars
    <3>1. TypeOK'
      BY <2>2, TypeStep DEF gatewayVars
    <3>2. UNCHANGED <<access, refresh, pc, carried, asOf, services, call, held, dead>>
      BY <2>2 DEF gatewayVars, vars
    <3> QED
      BY <3>1, <3>2 DEF GatewayInv, CallType, ScanInv, HeldInv, DeadInv, Grants, Live
  <2> QED
    BY <2>1, <2>2
<1> QED
  BY <1>1, <1>2, PTL DEF GatewaySpec

\* Whatever is granted, redeemed and swept between the two reads of a request
\* and its use of them, it drops no service of a session that has a grant all
\* that while (http_server.rs:218-221).
THEOREM ServiceKept == GatewaySpec => ServiceKeptWhileGranted
<1>1. TypeOK /\ GatewayInv /\ [GatewayNext]_gatewayVars =>
        [\A h \in Handlers : Route(h) =>
           \A s \in services \ services', g \in held[h] : SessionOf(g) # s]_gatewayVars
  <2> SUFFICES ASSUME TypeOK, GatewayInv, NEW h \in Handlers, Route(h),
                      NEW s \in services \ services', NEW g \in held[h]
               PROVE  SessionOf(g) # s
    OBVIOUS
  <2>1. call[h] # Nobody /\ call[h].at = "route" /\ s \notin call[h].active
    BY DEF Route, CallAt
  <2>2. HeldInv(h) /\ g \in Grants
    BY DEF GatewayInv, HeldInv
  <2>3. CASE g \in {<<"access", t>> : t \in Live(access)}
    BY <2>1, <2>2, <2>3 DEF HeldInv, SessionOf
  <2>4. CASE g \in {<<"refresh", r>> : r \in Live(refresh)}
    BY <2>1, <2>2, <2>4 DEF HeldInv, SessionOf
  <2> QED
    BY <2>2, <2>3, <2>4 DEF Grants
<1> QED
  BY <1>1, GatewayInvariant, PTL DEF GatewaySpec, ServiceKeptWhileGranted

\* The sweep that comes before the reads removes what is left of a session
\* whose grants have expired, so a request drops its service.
THEOREM NoOrphan == GatewaySpec => NoOrphanService
<1>1. TypeOK /\ GatewayInv /\ [GatewayNext]_gatewayVars =>
        [\A h \in Handlers : Route(h) => services' \cap dead[h] = {}]_gatewayVars
  <2> SUFFICES ASSUME TypeOK, GatewayInv, NEW h \in Handlers, Route(h)
               PROVE  services' \cap dead[h] = {}
    OBVIOUS
  <2>1. /\ call[h] # Nobody /\ call[h].at = "route"
        /\ services' = (services \cap call[h].active) \cup {call[h].session}
    BY DEF Route, CallAt
  <2>2. DeadInv(h)
    BY DEF GatewayInv
  <2> QED
    BY <2>1, <2>2 DEF DeadInv
<1> QED
  BY <1>1, GatewayInvariant, PTL DEF GatewaySpec, NoOrphanService
=============================================================================
