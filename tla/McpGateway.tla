---------------------------- MODULE McpGateway ----------------------------
(***************************************************************************)
(* handle_mcp (src/src/http_server.rs) on top of the grant store: a request *)
(* with an access token is routed to the MCP service of the token's Docmost *)
(* session.  Services are kept in a map; each request drops from it the    *)
(* services of the sessions it found no grant for.                         *)
(*                                                                         *)
(* The set of sessions with a grant is read from two maps under two locks, *)
(* after a sweep, and used under a third lock: grants come and go between  *)
(* these steps.  A gateway request is a handler of TokenGrants while it    *)
(* sweeps the maps.                                                        *)
(***************************************************************************)
EXTENDS TokenGrants

VARIABLES
  services,  \* user_services: the sessions that have an MCP service
  call,      \* the gateway request of a handler, or Nobody
  held,      \* history: grants present ever since a request was admitted
  dead       \* history: sessions whose grants had all expired when a request
             \* was admitted, and that were given no grant since

gatewayVars == <<vars, services, call, held, dead>>

CallSteps == {"scan", "read_refresh", "route"}

Call == [at : CallSteps, session : Sessions, active : SUBSET Sessions]

\* Every grant present: access and refresh grants by token.
Grants == {<<"access", t>> : t \in Live(access)}
            \cup {<<"refresh", r>> : r \in Live(refresh)}

SessionOf(g) ==
  IF g[1] = "access" THEN access[g[2]].session ELSE refresh[g[2]].session

Unexpired(g) ==
  ~Expired(IF g[1] = "access" THEN access[g[2]] ELSE refresh[g[2]], now)

\* Sessions without an unexpired grant.
Expelled == Sessions \ {SessionOf(g) : g \in {g \in Grants : Unexpired(g)}}

\* Sessions a step stores a grant for.
Granted == {SessionOf(g)' : g \in Grants' \ Grants}

Observe ==
  /\ held' = [h \in Handlers |->
       IF call'[h] = Nobody THEN {}
       ELSE IF call[h] = Nobody THEN Grants ELSE held[h] \cap Grants']
  /\ dead' = [h \in Handlers |->
       IF call'[h] = Nobody THEN {}
       ELSE IF call[h] = Nobody THEN Expelled ELSE dead[h] \ Granted]

GatewayInit ==
  /\ Init
  /\ services = {}
  /\ call = [h \in Handlers |-> Nobody]
  /\ held = [h \in Handlers |-> {}]
  /\ dead = [h \in Handlers |-> {}]

-----------------------------------------------------------------------------
\* Mutant of Admit: the scan starts without a sweep.
AdmitUnswept(h, t) ==
  /\ call[h] = Nobody
  /\ pc[h] = "idle"
  /\ t \in Live(access)
  /\ ~Expired(access[t], now)
  /\ call' = [call EXCEPT ![h] =
       [at |-> "scan", session |-> access[t].session, active |-> {}]]
  /\ UNCHANGED <<vars, services>>

\* access_session finds an unexpired grant; active_session_fingerprints then
\* starts with a sweep.  Without such a grant the answer is 401 (LookupExpired
\* removes the grant when it is an expired one).
Admit(h, t) ==
  /\ call[h] = Nobody
  /\ t \in Live(access)
  /\ ~Expired(access[t], now)
  /\ BeginSweep(h)
  /\ call' = [call EXCEPT ![h] =
       [at |-> "scan", session |-> access[t].session, active |-> {}]]
  /\ UNCHANGED services

ScanSweep(h) ==
  /\ call[h] # Nobody
  /\ SweepCodes(h) \/ SweepAccess(h) \/ SweepRefresh(h)
  /\ UNCHANGED <<services, call>>

CallAt(h, step) == call[h] # Nobody /\ call[h].at = step

ReadAccess(h) ==
  /\ CallAt(h, "scan")
  /\ pc[h] = "idle"
  /\ call' = [call EXCEPT ![h].at = "read_refresh",
       ![h].active = {access[t].session : t \in Live(access)}]
  /\ UNCHANGED <<vars, services>>

\* Mutant of ReadRefresh: the second map replaces the first.
ReadRefreshOnly(h) ==
  /\ CallAt(h, "read_refresh")
  /\ call' = [call EXCEPT ![h].at = "route",
       ![h].active = {refresh[r].session : r \in Live(refresh)}]
  /\ UNCHANGED <<vars, services>>

ReadRefresh(h) ==
  /\ CallAt(h, "read_refresh")
  /\ call' = [call EXCEPT ![h].at = "route",
       ![h].active = @ \cup {refresh[r].session : r \in Live(refresh)}]
  /\ UNCHANGED <<vars, services>>

\* Under the write lock: drop the services of other sessions, find or create
\* this one, and hand it the request.
Route(h) ==
  /\ CallAt(h, "route")
  /\ services' = (services \cap call[h].active) \cup {call[h].session}
  /\ call' = [call EXCEPT ![h] = Nobody]
  /\ UNCHANGED vars

DropCall(h) ==
  /\ call[h] # Nobody
  /\ IF pc[h] = "idle" THEN UNCHANGED vars ELSE Disconnect(h)
  /\ call' = [call EXCEPT ![h] = Nobody]
  /\ UNCHANGED services

\* A step of the token endpoint by a handler without a gateway request.
TokenStep ==
  /\ \/ \E c \in Codes, client \in Clients, redirect \in Redirects,
           v \in Verifiers, s \in Sessions :
          GrantCode(c, client, redirect, v, s)
     \/ \E h \in {h \in Handlers : call[h] = Nobody} :
          \/ CodeRequest(h) \/ RefreshRequest(h)
          \/ BeginSweep(h) \/ IssueStep(h) \/ Disconnect(h)
     \/ \E t \in AccessTokens : LookupExpired(t)
     \/ Tick
  /\ UNCHANGED <<services, call>>

GatewayStep ==
  \E h \in Handlers :
    \/ \E t \in AccessTokens : Admit(h, t)
    \/ ScanSweep(h) \/ ReadAccess(h) \/ ReadRefresh(h) \/ Route(h) \/ DropCall(h)

GatewayNext == (TokenStep \/ GatewayStep) /\ Observe

GatewaySpec == GatewayInit /\ [][GatewayNext]_gatewayVars

-----------------------------------------------------------------------------
\* The values of the gateway's variables.
GatewayTypeOK ==
  /\ services \subseteq Sessions
  /\ call \in [Handlers -> Call \cup {Nobody}]
  /\ \A h \in Handlers : held[h] \subseteq Grants

\* A request never drops the service of a session, and with it the MCP
\* conversations of a user, when one grant of the session was there from the
\* beginning of its scan to the end (http_server.rs:218-221).
ServiceKeptWhileGranted ==
  [][\A h \in Handlers : Route(h) =>
       \A s \in services \ services', g \in held[h] : SessionOf(g) # s]_gatewayVars

\* A request leaves no service of a session whose grants had all expired when
\* it was admitted, unless the session was granted again meanwhile.
NoOrphanService ==
  [][\A h \in Handlers : Route(h) => services' \cap dead[h] = {}]_gatewayVars
=============================================================================
