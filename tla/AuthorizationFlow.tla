------------------------- MODULE AuthorizationFlow -------------------------
(***************************************************************************)
(* The authorization endpoints of src/src/oauth.rs: a client is            *)
(* registered, GET /oauth/authorize stores a pending request and renders a *)
(* page, POST /oauth/authorize authenticates the user and stores an        *)
(* authorization code, GET /oauth/resume renders the native page again.    *)
(*                                                                         *)
(* In password mode the user types the Docmost password into the page and  *)
(* failed attempts are throttled per account.  In native mode (Native) the *)
(* browser's Docmost cookie identifies the user, and the page binds the    *)
(* session it shows to the request.                                        *)
(*                                                                         *)
(* pending, completed, codes and the login failures have a lock each: one  *)
(* action is what a request does between two awaits.  A submission works   *)
(* on a clone of the pending request taken before the login.               *)
(***************************************************************************)
EXTENDS Integers, FiniteSets, Sequences

CONSTANTS
  Native,        \* whether browser_url is configured
  Handlers,      \* requests in progress at once
  Browsers,
  Clients,       \* a client id with its redirect URI and PKCE challenge
  Requests,      \* request ids random_token may return; each has its csrf token
  Codes,         \* codes random_token may return
  Sessions,      \* Docmost sessions; in password mode, named by the account
  MaxClients,    \* MAX_REGISTERED_CLIENTS
  MaxPending,    \* MAX_PENDING_AUTHORIZATIONS
  MaxCompleted,  \* MAX_COMPLETED_AUTHORIZATIONS
  MaxFailures,   \* MAX_LOGIN_FAILURES_PER_ACCOUNT
  PendingTtl,    \* PENDING_LOGIN_TTL_MINUTES
  CodeTtl,       \* AUTHORIZATION_CODE_TTL_MINUTES
  FailureWindow, \* LOGIN_FAILURE_WINDOW_MINUTES
  MaxTime,       \* bound on the clock
  Fresh,         \* no entry: the id has never been generated
  Gone,          \* no entry: it was removed
  None,          \* Option::None
  Free           \* a handler without a request

SessionOrNone == Sessions \cup {None}

Pending == [client : Clients, consent : SessionOrNone, expires : Int]
Completed == [code : Codes, expires : Int]
CodeGrant == [client : Clients, session : Sessions, expires : Int]

Steps == {"sweep_pending", "sweep_completed", "sweep_codes", "sweep_failures",
          "count_pending", "count_completed", "insert_pending", "fetch", "bind",
          "render", "check_failures", "authenticate", "record_failure",
          "clear_failures", "insert_code", "insert_completed",
          "remove_pending", "answer"}

\* session is the cookie's session or the account typed in; consent is the
\* clone of the pending request's; expires belongs to the entry to insert.
Job == [at : Steps, for : {"authorize", "resume", "complete"},
        browser : Browsers, request : Requests \cup {None}, client : Clients,
        session : SessionOrNone, consent : SessionOrNone, expires : Int,
        asOf : Int, code : Codes \cup {None}]

\* What the history records of a request that is begun and of a code.
Start == [browser : Browsers, client : Clients, expires : Int]
Issue == [request : Requests, browser : Browsers]

ASSUME FlowConstants ==
  /\ Native \in BOOLEAN
  /\ {MaxClients, MaxPending, MaxCompleted, MaxFailures} \subseteq Nat \ {0}
  /\ {PendingTtl, CodeTtl, FailureWindow, MaxTime} \subseteq Nat
  /\ None \notin Sessions \cup Requests \cup Codes

ASSUME FlowSentinels ==
  /\ Fresh # Gone
  /\ {Fresh, Gone} \cap (Pending \cup Completed \cup CodeGrant) = {}
  /\ Free \notin Job
  /\ None \notin Start \cup Issue

ASSUME FlowFiniteness == IsFiniteSet(Handlers) /\ IsFiniteSet(Requests)

VARIABLES
  now,
  clients,    \* registered clients
  pending,    \* the pending map
  completed,  \* the completed map
  codes,      \* the codes map
  failures,   \* login_failures: the times of an account's recent failures
  job,        \* what each handler is doing
  cookie,     \* each browser's mcp_auth_csrf, named by its request
  account,    \* each browser's Docmost session (its authToken cookie)
  begun,      \* history: who began a request, for which client, until when
  shown,      \* history: the sessions a request's consent pages named
  issued,     \* history: for which request and browser each code was issued
  answered    \* history: requests that a submission has carried to their answer

store == <<clients, pending, completed, codes, failures>>
browser == <<cookie, account>>
history == <<begun, shown, issued, answered>>
vars == <<now, store, job, browser, history>>

-----------------------------------------------------------------------------
Live(map) == {k \in DOMAIN map : map[k] \notin {Fresh, Gone}}

Expired(entry, t) == entry.expires <= t

\* retain(|_, grant| grant.expires_at > t)
Retain(map, t) ==
  [k \in DOMAIN map |-> IF k \in Live(map) /\ Expired(map[k], t)
                        THEN Gone ELSE map[k]]

Goto(h, step) == job' = [job EXCEPT ![h].at = step]
Finish(h) == job' = [job EXCEPT ![h] = Free]
At(h, step) == job[h] # Free /\ job[h].at = step

Init ==
  /\ now = 0
  /\ clients = {}
  /\ pending = [r \in Requests |-> Fresh]
  /\ completed = [r \in Requests |-> Fresh]
  /\ codes = [c \in Codes |-> Fresh]
  /\ failures = [s \in Sessions |-> <<>>]
  /\ job = [h \in Handlers |-> Free]
  /\ cookie = [b \in Browsers |-> None]
  /\ account = [b \in Browsers |-> None]
  /\ begun = [r \in Requests |-> None]
  /\ shown = [r \in Requests |-> {}]
  /\ issued = [c \in Codes |-> None]
  /\ answered = {}

-----------------------------------------------------------------------------
\* register_client: counted and inserted under one write lock.
RegisterClient(c) ==
  /\ c \notin clients
  /\ Cardinality(clients) < MaxClients
  /\ clients' = clients \cup {c}
  /\ UNCHANGED <<now, pending, completed, codes, failures, job, browser, history>>

\* authorize, up to the sweep: the client is validated, the expiry is fixed.
BeginAuthorize(h, b, c) ==
  /\ job[h] = Free
  /\ c \in clients
  /\ job' = [job EXCEPT ![h] =
       [at |-> "sweep_pending", for |-> "authorize", browser |-> b,
        request |-> None, client |-> c, session |-> account[b],
        consent |-> None, expires |-> now + PendingTtl, asOf |-> now,
        code |-> None]]
  /\ UNCHANGED <<now, store, browser, history>>

\* cleanup_expired, the maps of this module: one clock reading, four locks.
SweepPending(h) ==
  /\ At(h, "sweep_pending")
  /\ pending' = Retain(pending, job[h].asOf)
  /\ Goto(h, "sweep_completed")
  /\ UNCHANGED <<now, clients, completed, codes, failures, browser, history>>

SweepCompleted(h) ==
  /\ At(h, "sweep_completed")
  /\ completed' = Retain(completed, job[h].asOf)
  /\ Goto(h, "sweep_codes")
  /\ UNCHANGED <<now, clients, pending, codes, failures, browser, history>>

SweepCodes(h) ==
  /\ At(h, "sweep_codes")
  /\ codes' = Retain(codes, job[h].asOf)
  /\ Goto(h, "sweep_failures")
  /\ UNCHANGED <<now, clients, pending, completed, failures, browser, history>>

\* retain(|time| *time > t - window), one time after the other
Recent(times, t) ==
  LET kept[n \in 0..Len(times)] ==
        IF n = 0 THEN <<>>
        ELSE IF times[n] > t - FailureWindow THEN Append(kept[n - 1], times[n])
        ELSE kept[n - 1]
  IN kept[Len(times)]

SweepFailures(h) ==
  /\ At(h, "sweep_failures")
  /\ failures' = [s \in Sessions |-> Recent(failures[s], job[h].asOf)]
  /\ job' = [job EXCEPT
       ![h].at = IF job[h].for = "authorize"
                 THEN "count_pending" ELSE "check_failures",
       ![h].asOf = 0]
  /\ UNCHANGED <<now, clients, pending, completed, codes, browser, history>>

\* Mutant of CountPending: off by one.
CountPendingLoosely(h) ==
  /\ At(h, "count_pending")
  /\ IF Cardinality(Live(pending)) > MaxPending
     THEN Finish(h) ELSE Goto(h, "count_completed")
  /\ UNCHANGED <<now, store, browser, history>>

\* authorize: refused with 503 when one of the two maps is full.
CountPending(h) ==
  /\ At(h, "count_pending")
  /\ IF Cardinality(Live(pending)) >= MaxPending
     THEN Finish(h) ELSE Goto(h, "count_completed")
  /\ UNCHANGED <<now, store, browser, history>>

CountCompleted(h) ==
  /\ At(h, "count_completed")
  /\ IF Cardinality(Live(completed)) >= MaxCompleted
     THEN Finish(h) ELSE Goto(h, "insert_pending")
  /\ UNCHANGED <<now, store, browser, history>>

InsertPending(h, r) ==
  /\ At(h, "insert_pending")
  /\ pending[r] = Fresh
  /\ pending' = [pending EXCEPT ![r] =
       [client |-> job[h].client, consent |-> None, expires |-> job[h].expires]]
  /\ begun' = [begun EXCEPT ![r] =
       [browser |-> job[h].browser, client |-> job[h].client,
        expires |-> job[h].expires]]
  /\ job' = [job EXCEPT ![h].at = IF Native THEN "fetch" ELSE "render",
                        ![h].request = r, ![h].expires = 0]
  /\ UNCHANGED <<now, clients, completed, codes, failures, browser,
                 shown, issued, answered>>

-----------------------------------------------------------------------------
\* What resume and a submission ask of the pending request: it has not
\* expired and the browser's cookie matches its csrf token.  The csrf field of
\* a form is that of the page it comes from, a page of this request.
Open(r) == r \in Live(pending) /\ ~Expired(pending[r], now)

BeginResume(h, b, r) ==
  /\ Native
  /\ job[h] = Free
  /\ Open(r) /\ cookie[b] = r
  /\ job' = [job EXCEPT ![h] =
       [at |-> "fetch", for |-> "resume", browser |-> b, request |-> r,
        client |-> pending[r].client, session |-> account[b],
        consent |-> None, expires |-> 0, asOf |-> 0, code |-> None]]
  /\ UNCHANGED <<now, store, browser, history>>

\* Mutant of FetchSession: the session is not compared with the bound one.
FetchAnySession(h) ==
  /\ At(h, "fetch")
  /\ \E found \in {job[h].session, None} :
       IF job[h].for # "complete"
       THEN job' = [job EXCEPT ![h].at = "bind", ![h].session = found]
       ELSE IF found # None
       THEN job' = [job EXCEPT ![h].at = "insert_code",
                               ![h].expires = now + CodeTtl]
       ELSE Finish(h)
  /\ UNCHANGED <<now, store, browser, history>>

\* native_session: Docmost confirms the cookie the request came with, or the
\* handler goes on without a session.  A submission answers 401 without one,
\* and 400 when it is not the session its clone of the request was bound to;
\* otherwise the expiry of its code is fixed.
FetchSession(h) ==
  /\ At(h, "fetch")
  /\ \E found \in {job[h].session, None} :
       IF job[h].for # "complete"
       THEN job' = [job EXCEPT ![h].at = "bind", ![h].session = found]
       ELSE IF found # None /\ found = job[h].consent
       THEN job' = [job EXCEPT ![h].at = "insert_code",
                               ![h].expires = now + CodeTtl]
       ELSE Finish(h)
  /\ UNCHANGED <<now, store, browser, history>>

\* bind_native_consent; the page about to be rendered names the session.
BindConsent(h) ==
  LET r == job[h].request IN
  /\ At(h, "bind")
  /\ pending' = IF r \in Live(pending)
                THEN [pending EXCEPT ![r].consent = job[h].session]
                ELSE pending
  /\ shown' = [shown EXCEPT ![r] = @ \cup ({job[h].session} \ {None})]
  /\ Goto(h, "render")
  /\ UNCHANGED <<now, clients, completed, codes, failures, browser,
                 begun, issued, answered>>

\* The page reaches the browser; the first page of a request sets its cookie.
RenderPage(h) ==
  /\ At(h, "render")
  /\ cookie' = IF job[h].for = "authorize"
               THEN [cookie EXCEPT ![job[h].browser] = job[h].request]
               ELSE cookie
  /\ Finish(h)
  /\ UNCHANGED <<now, store, account, history>>

-----------------------------------------------------------------------------
\* Mutant of BeginComplete: the csrf cookie is not asked for.
BeginWithoutCookie(h, b, r, s) ==
  /\ job[h] = Free
  /\ Open(r)
  /\ IF Native THEN s = account[b] ELSE s \in Sessions
  /\ job' = [job EXCEPT ![h] =
       [at |-> IF Native THEN "fetch" ELSE "sweep_pending",
        for |-> "complete", browser |-> b, request |-> r,
        client |-> pending[r].client, session |-> s,
        consent |-> pending[r].consent, expires |-> 0,
        asOf |-> IF Native THEN 0 ELSE now, code |-> None]]
  /\ UNCHANGED <<now, store, browser, history>>

\* complete_authorization: the pending request is cloned; in native mode the
\* session is that of the browser, otherwise the account the user types.
BeginComplete(h, b, r, s) ==
  /\ job[h] = Free
  /\ Open(r) /\ cookie[b] = r
  /\ IF Native THEN s = account[b] ELSE s \in Sessions
  /\ job' = [job EXCEPT ![h] =
       [at |-> IF Native THEN "fetch" ELSE "sweep_pending",
        for |-> "complete", browser |-> b, request |-> r,
        client |-> pending[r].client, session |-> s,
        consent |-> pending[r].consent, expires |-> 0,
        asOf |-> IF Native THEN 0 ELSE now, code |-> None]]
  /\ UNCHANGED <<now, store, browser, history>>

\* A submission for an expired request removes it.
DropExpired(r) ==
  /\ r \in Live(pending)
  /\ Expired(pending[r], now)
  /\ pending' = [pending EXCEPT ![r] = Gone]
  /\ UNCHANGED <<now, clients, completed, codes, failures, job, browser, history>>

\* A submission for a request that is no longer pending replays its answer;
\* the page clears the csrf cookie.
Replay(b, r) ==
  /\ r \notin Live(pending)
  /\ r \in Live(completed)
  /\ ~Expired(completed[r], now)
  /\ cookie' = [cookie EXCEPT ![b] = None]
  /\ UNCHANGED <<now, store, job, account, history>>

\* Mutant of CheckFailures: off by one.
CheckFailuresLoosely(h) ==
  /\ At(h, "check_failures")
  /\ IF Len(failures[job[h].session]) > MaxFailures
     THEN Finish(h) ELSE Goto(h, "authenticate")
  /\ UNCHANGED <<now, store, browser, history>>

\* login_is_rate_limited, after its sweep: 429 when the account is locked out.
CheckFailures(h) ==
  /\ At(h, "check_failures")
  /\ IF Len(failures[job[h].session]) >= MaxFailures
     THEN Finish(h) ELSE Goto(h, "authenticate")
  /\ UNCHANGED <<now, store, browser, history>>

\* Docmost accepts the password, or refuses it or cannot be reached.
Authenticate(h) ==
  /\ At(h, "authenticate")
  /\ \E step \in {"clear_failures", "record_failure"} : Goto(h, step)
  /\ UNCHANGED <<now, store, browser, history>>

RecordFailure(h) ==
  /\ At(h, "record_failure")
  /\ failures' = [failures EXCEPT ![job[h].session] = Append(@, now)]
  /\ Finish(h)
  /\ UNCHANGED <<now, clients, pending, completed, codes, browser, history>>

ClearFailures(h) ==
  /\ At(h, "clear_failures")
  /\ failures' = [failures EXCEPT ![job[h].session] = <<>>]
  /\ job' = [job EXCEPT ![h].at = "insert_code", ![h].expires = now + CodeTtl]
  /\ UNCHANGED <<now, clients, pending, completed, codes, browser, history>>

InsertCode(h, c) ==
  /\ At(h, "insert_code")
  /\ codes[c] = Fresh
  /\ codes' = [codes EXCEPT ![c] =
       [client |-> job[h].client, session |-> job[h].session,
        expires |-> job[h].expires]]
  /\ issued' = [issued EXCEPT ![c] =
       [request |-> job[h].request, browser |-> job[h].browser]]
  /\ job' = [job EXCEPT ![h].at = "insert_completed", ![h].code = c]
  /\ UNCHANGED <<now, clients, pending, completed, failures, browser,
                 begun, shown, answered>>

\* Mutant of InsertCompleted: the pending request goes before its answer is
\* stored.
RemoveBeforeCompleting(h) ==
  /\ At(h, "insert_completed")
  /\ pending' = [pending EXCEPT ![job[h].request] = Gone]
  /\ Goto(h, "remove_pending")
  /\ UNCHANGED <<now, clients, completed, codes, failures, browser, history>>

InsertCompleted(h) ==
  /\ At(h, "insert_completed")
  /\ completed' = [completed EXCEPT ![job[h].request] =
       [code |-> job[h].code, expires |-> job[h].expires]]
  /\ Goto(h, "remove_pending")
  /\ UNCHANGED <<now, clients, pending, codes, failures, browser, history>>

\* Mutant of RemovePending: the completed request stays pending.
KeepPending(h) ==
  /\ At(h, "remove_pending")
  /\ answered' = answered \cup {job[h].request}
  /\ Goto(h, "answer")
  /\ UNCHANGED <<now, store, browser, begun, shown, issued>>

RemovePending(h) ==
  /\ At(h, "remove_pending")
  /\ pending' = [pending EXCEPT ![job[h].request] = Gone]
  /\ answered' = answered \cup {job[h].request}
  /\ Goto(h, "answer")
  /\ UNCHANGED <<now, clients, completed, codes, failures, browser,
                 begun, shown, issued>>

\* The page that leads back to the client, which clears the csrf cookie.
Answer(h) ==
  /\ At(h, "answer")
  /\ cookie' = [cookie EXCEPT ![job[h].browser] = None]
  /\ Finish(h)
  /\ UNCHANGED <<now, store, account, history>>

-----------------------------------------------------------------------------
\* The browser closes its connection: the request's future is dropped at the
\* await it has reached.
Disconnect(h) ==
  /\ job[h] # Free
  /\ Finish(h)
  /\ UNCHANGED <<now, store, browser, history>>

\* The client redeems (or spoils) a code at the token endpoint.
TakeCode(c) ==
  /\ c \in Live(codes)
  /\ codes' = [codes EXCEPT ![c] = Gone]
  /\ UNCHANGED <<now, clients, pending, completed, failures, job, browser, history>>

\* The user signs in to Docmost, out of it, or to another account.
SwitchAccount(b, s) ==
  /\ Native
  /\ account' = [account EXCEPT ![b] = s]
  /\ UNCHANGED <<now, store, job, cookie, history>>

Tick ==
  /\ now < MaxTime
  /\ now' = now + 1
  /\ UNCHANGED <<store, job, browser, history>>

BeginStep(h) ==
  \E b \in Browsers :
    \/ \E c \in Clients : BeginAuthorize(h, b, c)
    \/ \E r \in Requests : \/ BeginResume(h, b, r)
                           \/ \E s \in SessionOrNone : BeginComplete(h, b, r, s)

HandlerStep(h) ==
  \/ SweepPending(h) \/ SweepCompleted(h) \/ SweepCodes(h) \/ SweepFailures(h)
  \/ CountPending(h) \/ CountCompleted(h)
  \/ \E r \in Requests : InsertPending(h, r)
  \/ FetchSession(h) \/ BindConsent(h) \/ RenderPage(h)
  \/ CheckFailures(h) \/ Authenticate(h) \/ RecordFailure(h) \/ ClearFailures(h)
  \/ \E c \in Codes : InsertCode(h, c)
  \/ InsertCompleted(h) \/ RemovePending(h) \/ Answer(h)

NextConnected ==
  \/ \E h \in Handlers : BeginStep(h) \/ HandlerStep(h)
  \/ \E c \in Clients : RegisterClient(c)
  \/ \E r \in Requests : DropExpired(r) \/ \E b \in Browsers : Replay(b, r)
  \/ \E c \in Codes : TakeCode(c)
  \/ \E b \in Browsers, s \in SessionOrNone : SwitchAccount(b, s)
  \/ Tick

Next == NextConnected \/ \E h \in Handlers : Disconnect(h)

Spec == Init /\ [][Next]_vars

\* Behaviours in which no connection is dropped.
ConnectedSpec == Init /\ [][NextConnected]_vars

-----------------------------------------------------------------------------
\* The values of the variables.
TypeOK ==
  /\ now \in 0..MaxTime
  /\ clients \subseteq Clients
  /\ pending \in [Requests -> Pending \cup {Fresh, Gone}]
  /\ completed \in [Requests -> Completed \cup {Fresh, Gone}]
  /\ codes \in [Codes -> CodeGrant \cup {Fresh, Gone}]
  /\ failures \in [Sessions -> Seq(Int)]
  /\ job \in [Handlers -> Job \cup {Free}]
  /\ cookie \in [Browsers -> Requests \cup {None}]
  /\ account \in [Browsers -> SessionOrNone]
  /\ begun \in [Requests -> Start \cup {None}]
  /\ shown \in [Requests -> SUBSET Sessions]
  /\ issued \in [Codes -> Issue \cup {None}]
  /\ answered \subseteq Requests

\* The pending map is counted under one lock and filled under another: its cap
\* can be passed, but only by the requests in progress (oauth.rs:388-389
\* against 402-407).
PendingCapacity ==
  Cardinality(Live(pending)) <= MaxPending - 1 + Cardinality(Handlers)

\* A code goes to the browser and the client that began its request, and the
\* completed entry that is replayed for a request holds a code of that request.
CodeGoesToStarter ==
  /\ \A c \in Codes : issued[c] # None =>
       LET start == begun[issued[c].request] IN
       /\ start # None
       /\ issued[c].browser = start.browser
       /\ c \in Live(codes) => codes[c].client = start.client
  /\ \A r \in Live(completed) : issued[completed[r].code].request = r

\* In native mode a code stands for a session that a consent page of its
\* request named, whatever account the browser switches to meanwhile
\* (oauth.rs:503 compares with the clone taken at 455-461).
CodeForShownSession ==
  Native => \A c \in Live(codes) : codes[c].session \in shown[issued[c].request]

\* A request that left the pending map before its time was completed: there is
\* no moment at which a reload finds neither the pending request nor the
\* answer to replay (oauth.rs:580 precedes 588).
NoReplayGap ==
  \A r \in Requests :
    pending[r] = Gone /\ begun[r].expires > now => completed[r] # Fresh

\* Once a submission was carried to its answer, no later one of that request
\* starts an authorization, even if the answer was lost and the browser still
\* holds the csrf cookie (oauth.rs:462-481 and 588).
AnsweredNeverReopened ==
  [][\A h \in Handlers :
       job[h] = Free /\ job'[h] # Free => job'[h].request \notin answered]_vars

\* The failures that count against an account are at most those the throttle
\* allows and the attempts in progress when it closed (oauth.rs:519 against 535).
LockoutBound ==
  \A s \in Sessions :
    Len(Recent(failures[s], now)) <= MaxFailures - 1 + Cardinality(Handlers)

\* A duplicate submission replays the completed callback rather than trying to
\* authorize the account again (oauth.rs:1751-1753).
OneCodePerRequest ==
  \A c, d \in Codes :
    issued[c] # None /\ issued[d] # None /\ issued[c].request = issued[d].request
      => c = d

\* The codes as the token endpoint knows them.  A client stands for its redirect
\* URI and its challenge here.
codeStatus ==
  [c \in Codes |-> IF codes[c] = Fresh THEN "fresh"
                   ELSE IF codes[c] = Gone THEN "gone" ELSE "live"]

codeGrant ==
  [c \in Codes |->
     IF codes[c] \in {Fresh, Gone} THEN <<>>
     ELSE [stands_for |-> <<codes[c].client, codes[c].session>>,
           expires |-> codes[c].expires]]

CodeMap == INSTANCE AuthorizationCodes WITH
  Authorities <- Clients \X Sessions,
  status <- codeStatus, grant <- codeGrant

\* The authorization endpoints store codes as the token endpoint expects them, and
\* change none.
ImplementsCodes == CodeMap!Spec
=============================================================================
