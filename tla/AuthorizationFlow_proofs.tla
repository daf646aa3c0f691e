---------------------- MODULE AuthorizationFlow_proofs ----------------------
(***************************************************************************)
(* Theorems about the authorization endpoints for any number of requests   *)
(* in progress, browsers, clients and sessions, any lifetimes and caps.    *)
(***************************************************************************)
EXTENDS AuthorizationFlow, FiniteSetTheorems, WellFoundedInduction, TLAPS

Begun(r) == r \in Requests /\ begun[r] # None

\* A submission knows the request it is about as its starter began it.
OfStarter(j) ==
  /\ Begun(j.request)
  /\ j.browser = begun[j.request].browser
  /\ j.for = "complete" => j.client = begun[j.request].client

Sweeps == {"sweep_pending", "sweep_completed", "sweep_codes", "sweep_failures"}
Admission == {"count_pending", "count_completed", "insert_pending"}
Throttle == {"check_failures", "authenticate", "record_failure", "clear_failures"}
Storing == {"insert_code", "insert_completed", "remove_pending"}

\* What a request in progress has established at each of its steps.
JobInv(h) ==
  LET j == job[h] IN
  j # Free =>
    /\ j.asOf <= now
    /\ OfStarter(j) \/ (j.for = "authorize" /\ j.at \in Sweeps \cup Admission)
    /\ j.at \in Admission => j.for = "authorize"
    /\ j.at \in Throttle => j.for = "complete" /\ ~Native /\ j.session # None
    /\ j.at \in Sweeps /\ j.for # "authorize" =>
         j.for = "complete" /\ ~Native /\ j.session # None
    /\ j.at \in {"bind", "render"} => j.for # "complete"
    /\ j.at \in Storing => j.for = "complete" /\ j.session # None
    /\ j.for = "complete" => j.consent \in shown[j.request] \cup {None}
    /\ Native /\ j.at \in Storing => j.session \in shown[j.request]
    /\ j.at \in {"insert_completed", "remove_pending"} =>
         /\ j.code # None
         /\ issued[j.code] = [request |-> j.request, browser |-> j.browser]
    /\ j.at = "remove_pending" => completed[j.request] # Fresh

\* A pending request is as it was begun, and is replaced by its answer.
RequestInv(r) ==
  /\ pending[r] = Fresh <=> begun[r] = None
  /\ r \in Live(pending) =>
       /\ pending[r].client = begun[r].client
       /\ pending[r].expires = begun[r].expires
       /\ pending[r].consent \in shown[r] \cup {None}
  /\ pending[r] = Gone /\ begun[r].expires > now => completed[r] # Fresh
  /\ r \in answered => pending[r] = Gone
  /\ r \in Live(completed) =>
       /\ issued[completed[r].code] # None
       /\ issued[completed[r].code].request = r

\* A code is of a request that was begun, and goes to its starter.
CodeInv(c) ==
  /\ codes[c] = Fresh <=> issued[c] = None
  /\ issued[c] # None =>
       /\ Begun(issued[c].request)
       /\ issued[c].browser = begun[issued[c].request].browser
  /\ c \in Live(codes) =>
       /\ codes[c].client = begun[issued[c].request].client
       /\ Native => codes[c].session \in shown[issued[c].request]

\* Only the browser that began a request has its csrf cookie.
CookieInv(b) ==
  cookie[b] # None => Begun(cookie[b]) /\ begun[cookie[b]].browser = b

FlowInv ==
  /\ \A h \in Handlers : JobInv(h)
  /\ \A r \in Requests : RequestInv(r)
  /\ \A c \in Codes : CodeInv(c)
  /\ \A b \in Browsers : CookieInv(b)

-----------------------------------------------------------------------------
\* The fields of what a handler works on and of what is stored.
LEMMA JobFields ==
  ASSUME TypeOK, NEW h \in Handlers, job[h] # Free
  PROVE  /\ job[h] \in Job
         /\ job[h].at \in Steps /\ job[h].browser \in Browsers
         /\ job[h].request \in Requests \cup {None} /\ job[h].client \in Clients
         /\ job[h].session \in SessionOrNone /\ job[h].consent \in SessionOrNone
         /\ job[h].expires \in Int /\ job[h].asOf \in Int
         /\ job[h].code \in Codes \cup {None}
<1>1. job[h] \in Job
  BY DEF TypeOK
<1> QED
  BY <1>1 DEF Job

\* The fields of live entries of the maps and of begun requests.
LEMMA StoredFields ==
  ASSUME TypeOK
  PROVE  /\ \A r \in Live(pending) :
              /\ r \in Requests /\ pending[r] \in Pending
              /\ pending[r].client \in Clients /\ pending[r].consent \in SessionOrNone
              /\ pending[r].expires \in Int
         /\ \A r \in Live(completed) :
              /\ r \in Requests /\ completed[r] \in Completed
              /\ completed[r].code \in Codes
         /\ \A c \in Live(codes) : c \in Codes /\ codes[c] \in CodeGrant
         /\ \A r \in Requests : begun[r] # None => begun[r].expires \in Int
<1>1. \A r \in Live(pending) : r \in Requests /\ pending[r] \in Pending
  BY DEF TypeOK, Live
<1>2. \A r \in Live(completed) : r \in Requests /\ completed[r] \in Completed
  BY DEF TypeOK, Live
<1>3. \A c \in Live(codes) : c \in Codes /\ codes[c] \in CodeGrant
  BY DEF TypeOK, Live
<1>4. \A r \in Requests : begun[r] # None => begun[r] \in Start
  BY DEF TypeOK
<1> QED
  BY <1>1, <1>2, <1>3, <1>4 DEF Pending, Completed, Start

\* A step that goes to the next one of its request changes nothing else of it.
LEMMA GotoFacts ==
  ASSUME TypeOK, NEW h \in Handlers, job[h] # Free, NEW step \in Steps, Goto(h, step)
  PROVE  /\ job' \in [Handlers -> Job \cup {Free}]
         /\ \A g \in Handlers \ {h} : job'[g] = job[g]
         /\ job'[h] # Free /\ job'[h] = [job[h] EXCEPT !.at = step]
<1>1. job[h] \in Job
  BY DEF TypeOK
<1>2. [job[h] EXCEPT !.at = step] \in Job
  BY <1>1 DEF Job
<1> QED
  BY <1>2, FlowSentinels DEF TypeOK, Goto

\* A sweep replaces expired entries of a map by Gone and does nothing else.
LEMMA RetainFacts ==
  ASSUME NEW K, NEW G, NEW t,
         NEW map \in [K -> G \cup {Fresh, Gone}]
  PROVE  /\ Retain(map, t) \in [K -> G \cup {Fresh, Gone}]
         /\ \A k \in K : Retain(map, t)[k] \in {map[k], Gone}
         /\ \A k \in K : map[k] \in {Fresh, Gone} => Retain(map, t)[k] = map[k]
         /\ \A k \in K : Retain(map, t)[k] # map[k]
              => k \in Live(map) /\ Expired(map[k], t)
BY DEF Retain, Live

\* What the admission of a request and of a submission puts into its handler.
LEMMA BeginFacts ==
  ASSUME TypeOK, NEW h \in Handlers, BeginStep(h)
  PROVE  /\ job' \in [Handlers -> Job \cup {Free}]
         /\ \A g \in Handlers \ {h} : job'[g] = job[g]
         /\ UNCHANGED <<now, store, browser, history>>
<1> USE FlowConstants, StoredFields DEF TypeOK, Job, Steps, SessionOrNone
<1>1. ASSUME NEW b \in Browsers, NEW c \in Clients, BeginAuthorize(h, b, c)
      PROVE  job' \in [Handlers -> Job \cup {Free}]
             /\ \A g \in Handlers \ {h} : job'[g] = job[g]
  BY <1>1 DEF BeginAuthorize
<1>2. ASSUME NEW b \in Browsers, NEW r \in Requests, BeginResume(h, b, r)
      PROVE  job' \in [Handlers -> Job \cup {Free}]
             /\ \A g \in Handlers \ {h} : job'[g] = job[g]
  BY <1>2 DEF BeginResume, Open
<1>3. ASSUME NEW b \in Browsers, NEW r \in Requests, NEW s \in SessionOrNone,
             BeginComplete(h, b, r, s)
      PROVE  job' \in [Handlers -> Job \cup {Free}]
             /\ \A g \in Handlers \ {h} : job'[g] = job[g]
  BY <1>3 DEF BeginComplete, Open
<1>4. UNCHANGED <<now, store, browser, history>>
  BY DEF BeginStep, BeginAuthorize, BeginResume, BeginComplete
<1> QED
  BY <1>1, <1>2, <1>3, <1>4 DEF BeginStep

\* The variables start with their types.
LEMMA TypeInit == Init => TypeOK
BY FlowConstants DEF Init, TypeOK, SessionOrNone

\* The step of a handler leaves the other handlers alone.
LEMMA HandlerJob ==
  ASSUME TypeOK, FlowInv, NEW h \in Handlers, HandlerStep(h)
  PROVE  /\ job[h] # Free
         /\ job' \in [Handlers -> Job \cup {Free}]
         /\ \A g \in Handlers \ {h} : job'[g] = job[g]
<1> DEFINE J == /\ job' \in [Handlers -> Job \cup {Free}]
                /\ \A g \in Handlers \ {h} : job'[g] = job[g]
<1>0. job[h] # Free
  BY DEF HandlerStep, At, SweepPending, SweepCompleted, SweepCodes, SweepFailures,
     CountPending, CountCompleted, InsertPending, FetchSession, BindConsent,
     RenderPage, CheckFailures, Authenticate, RecordFailure, ClearFailures,
     InsertCode, InsertCompleted, RemovePending, Answer
<1>1. CASE \E step \in Steps : Goto(h, step)
  BY <1>0, <1>1, GotoFacts
<1>2. CASE Finish(h)
  BY <1>0, <1>2 DEF Finish, TypeOK
<1>3. job[h] \in Job
  BY <1>0 DEF TypeOK
<1>4. CASE SweepFailures(h)
  <2>1. \E step \in {"count_pending", "check_failures"} :
          job' = [job EXCEPT ![h].at = step, ![h].asOf = 0]
    BY <1>4 DEF SweepFailures
  <2>2. ASSUME NEW step \in {"count_pending", "check_failures"}
        PROVE  [job[h] EXCEPT !.at = step, !.asOf = 0] \in Job
    <3>1. step \in Steps /\ 0 \in Int
      BY DEF Steps
    <3> QED
      BY <1>3, <3>1 DEF Job
  <2> QED
    BY <1>0, <2>1, <2>2 DEF TypeOK
<1>5. ASSUME NEW r \in Requests, InsertPending(h, r)
      PROVE  J
  <2>1. \E step \in {"fetch", "render"} :
          job' = [job EXCEPT ![h].at = step, ![h].request = r, ![h].expires = 0]
    BY <1>5 DEF InsertPending
  <2>2. ASSUME NEW step \in {"fetch", "render"}
        PROVE  [job[h] EXCEPT !.at = step, !.request = r, !.expires = 0] \in Job
    <3>1. step \in Steps /\ 0 \in Int
      BY DEF Steps
    <3> QED
      BY <1>3, <3>1 DEF Job
  <2> QED
    BY <2>1, <2>2 DEF TypeOK
<1>6. now + CodeTtl \in Int
  BY FlowConstants DEF TypeOK
<1>7. CASE FetchSession(h)
  <2>1. PICK found \in {job[h].session, None} :
          \/ job' = [job EXCEPT ![h].at = "bind", ![h].session = found]
          \/ job' = [job EXCEPT ![h].at = "insert_code", ![h].expires = now + CodeTtl]
          \/ Finish(h)
    BY <1>7 DEF FetchSession
  <2>2. [job[h] EXCEPT !.at = "bind", !.session = found] \in Job
    BY <1>3 DEF Job, Steps, SessionOrNone
  <2>3. [job[h] EXCEPT !.at = "insert_code", !.expires = now + CodeTtl] \in Job
    BY <1>3, <1>6 DEF Job, Steps
  <2> QED
    BY <1>0, <1>2, <2>1, <2>2, <2>3 DEF TypeOK
<1>8. CASE ClearFailures(h)
  <2>1. [job[h] EXCEPT !.at = "insert_code", !.expires = now + CodeTtl] \in Job
    BY <1>3, <1>6 DEF Job, Steps
  <2> QED
    BY <1>0, <1>8, <2>1 DEF ClearFailures, TypeOK
<1>9. ASSUME NEW c \in Codes, InsertCode(h, c)
      PROVE  J
  <2>1. [job[h] EXCEPT !.at = "insert_completed", !.code = c] \in Job
    BY <1>3 DEF Job, Steps
  <2> QED
    BY <1>9, <2>1 DEF InsertCode, TypeOK
<1>10. CASE \/ SweepPending(h) \/ SweepCompleted(h) \/ SweepCodes(h)
            \/ CountPending(h) \/ CountCompleted(h) \/ BindConsent(h)
            \/ RenderPage(h) \/ CheckFailures(h) \/ Authenticate(h)
            \/ RecordFailure(h) \/ InsertCompleted(h) \/ RemovePending(h)
            \/ Answer(h)
  <2>1. Finish(h) \/ \E step \in Steps : Goto(h, step)
    BY <1>10 DEF SweepPending, SweepCompleted, SweepCodes, CountPending,
       CountCompleted, BindConsent, RenderPage, CheckFailures, Authenticate,
       RecordFailure, InsertCompleted, RemovePending, Answer, Steps
  <2> QED
    BY <1>0, <1>1, <1>2, <2>1
<1> QED
  BY <1>0, <1>4, <1>5, <1>7, <1>8, <1>9, <1>10 DEF HandlerStep

\* What one more element adds.
Keep(before, x, t) == IF x > t - FailureWindow THEN Append(before, x) ELSE before

\* The function by which Recent is defined, for the first N times.
KeptUpTo(F, times, t, N) ==
  F = [n \in 0..N |-> IF n = 0 THEN <<>> ELSE Keep(F[n - 1], times[n], t)]

\* A set of numbers that is not empty has a least element: what induction over
\* the length of a sequence comes down to.
LEMMA LeastNat ==
  ASSUME NEW S, S \subseteq Nat, S # {}
  PROVE  \E x \in S : \A y \in S : x <= y
<1>1. PICK x \in S : \A y \in S : ~(<<y, x>> \in OpToRel(<, Nat))
  BY NatLessThanWellFounded, WFMin
<1>2. \A y \in S : y < x => <<y, x>> \in OpToRel(<, Nat)
  BY <1>1 DEF OpToRel
<1>3. \A y \in S : ~(y < x)
  BY <1>1, <1>2
<1>4. x \in Nat /\ \A y \in S : y \in Nat
  OBVIOUS
<1>5. \A y \in S : x <= y
  BY <1>3, <1>4
<1> QED
  BY <1>5

\* The failures that are still recent are numbers, and no more than there were.
LEMMA RecentType ==
  ASSUME NEW times \in Seq(Int), NEW t
  PROVE  Recent(times, t) \in Seq(Int) /\ Len(Recent(times, t)) <= Len(times)
<1> DEFINE Some(N) == \E F : KeptUpTo(F, times, t, N)
           Bad == {N \in 0..Len(times) : ~Some(N)}
<1>1. Len(times) \in Nat /\ \A n \in 1..Len(times) : times[n] \in Int
  OBVIOUS
<1>2. Bad = {}
  <2> SUFFICES ASSUME Bad # {}
               PROVE  FALSE
    OBVIOUS
  <2>1. PICK N \in Bad : \A n \in Bad : N <= n
    <3>1. Bad \subseteq Nat
      OBVIOUS
    <3> HIDE DEF Bad
    <3> QED
      BY <1>1, <3>1, LeastNat
  <2>2. N # 0
    <3>1. KeptUpTo([n \in 0..0 |-> <<>>], times, t, 0)
      BY DEF KeptUpTo
    <3> QED
      BY <2>1, <3>1
  <2>3. N \in 1..Len(times) /\ N - 1 \in 0..Len(times) /\ N - 1 \notin Bad
    BY <1>1, <2>1, <2>2
  <2>4. PICK G : KeptUpTo(G, times, t, N - 1)
    BY <2>3
  <2> DEFINE F == [n \in 0..N |-> IF n = N THEN Keep(G[N - 1], times[N], t) ELSE G[n]]
  <2>5. ASSUME NEW n \in 0..N
        PROVE  F[n] = IF n = 0 THEN <<>> ELSE Keep(F[n - 1], times[n], t)
    <3>1. CASE n = N
      BY <2>3, <3>1
    <3>2. CASE n # N
      <4>1. n \in 0..(N - 1) /\ (n # 0 => n - 1 \in 0..N /\ n - 1 # N)
        BY <1>1, <2>3, <3>2
      <4> QED
        BY <2>4, <3>2, <4>1 DEF KeptUpTo
    <3> QED
      BY <3>1, <3>2
  <2>6. KeptUpTo(F, times, t, N)
    <3> HIDE DEF F
    <3>1. F = [n \in 0..N |-> F[n]]
      BY DEF F
    <3> QED
      BY <2>5, <3>1 DEF KeptUpTo
  <2> QED
    BY <2>1, <2>6
<1>3. PICK kept : KeptUpTo(kept, times, t, Len(times)) /\ Recent(times, t) = kept[Len(times)]
  <2> DEFINE chosen == CHOOSE F : KeptUpTo(F, times, t, Len(times))
  <2>1. KeptUpTo(chosen, times, t, Len(times))
    BY <1>1, <1>2
  <2>2. Recent(times, t) = chosen[Len(times)]
    BY DEF Recent, KeptUpTo, Keep
  <2> QED
    BY <2>1, <2>2
<1> DEFINE Wrong == {n \in 0..Len(times) : ~(kept[n] \in Seq(Int) /\ Len(kept[n]) <= n)}
<1>4. Wrong = {}
  <2> SUFFICES ASSUME Wrong # {}
               PROVE  FALSE
    OBVIOUS
  <2>1. PICK N \in Wrong : \A n \in Wrong : N <= n
    <3>1. Wrong \subseteq Nat
      OBVIOUS
    <3> HIDE DEF Wrong
    <3> QED
      BY <1>1, <3>1, LeastNat
  <2>2. kept[0] = <<>>
    BY <1>1, <1>3 DEF KeptUpTo
  <2>3. 0 \notin Wrong
    <3>1. kept[0] \in Seq(Int) /\ Len(kept[0]) = 0
      BY <2>2
    <3> QED
      BY <3>1
  <2>4. N \in 1..Len(times) /\ N - 1 \in 0..Len(times) /\ N - 1 \notin Wrong
    <3>1. N \in 0..Len(times) /\ N # 0
      BY <2>3
    <3>2. N \in 1..Len(times) /\ N - 1 \in 0..Len(times) /\ ~(N <= N - 1)
      BY <1>1, <3>1
    <3> HIDE DEF Wrong
    <3> QED
      BY <2>1, <3>2
  <2>5. kept[N - 1] \in Seq(Int) /\ Len(kept[N - 1]) <= N - 1
    BY <2>4
  <2>6. kept[N] = Keep(kept[N - 1], times[N], t)
    <3>1. \A n \in 0..Len(times) :
            kept[n] = IF n = 0 THEN <<>> ELSE Keep(kept[n - 1], times[n], t)
      BY <1>3 DEF KeptUpTo
    <3> QED
      BY <1>1, <2>4, <3>1
  <2>7. kept[N] \in Seq(Int) /\ Len(kept[N]) <= N
    BY <1>1, <2>4, <2>5, <2>6 DEF Keep
  <2> QED
    BY <2>1, <2>7
<1> QED
  BY <1>1, <1>3, <1>4

\* The times of failures are numbers, of accounts that tried to log in.
LEMMA FailuresType ==
  ASSUME TypeOK, FlowInv, [Next]_vars
  PROVE  failures' \in [Sessions -> Seq(Int)]
<1>0. failures \in [Sessions -> Seq(Int)] /\ now \in Int
  BY FlowConstants DEF TypeOK
<1>1. ASSUME NEW h \in Handlers, SweepFailures(h)
      PROVE  failures' \in [Sessions -> Seq(Int)]
  <2>1. failures' = [s \in Sessions |-> Recent(failures[s], job[h].asOf)]
    BY <1>1 DEF SweepFailures
  <2>2. \A s \in Sessions : Recent(failures[s], job[h].asOf) \in Seq(Int)
    BY <1>0, RecentType
  <2> QED
    BY <2>1, <2>2
<1>2. ASSUME NEW h \in Handlers, RecordFailure(h)
      PROVE  failures' \in [Sessions -> Seq(Int)]
  <2>1. \A s \in Sessions : Append(failures[s], now) \in Seq(Int)
    BY <1>0
  <2> QED
    BY <1>0, <1>2, <2>1 DEF RecordFailure
<1>3. ASSUME NEW h \in Handlers, ClearFailures(h)
      PROVE  failures' \in [Sessions -> Seq(Int)]
  <2>1. <<>> \in Seq(Int)
    OBVIOUS
  <2>2. failures' = [failures EXCEPT ![job[h].session] = <<>>]
    BY <1>3 DEF ClearFailures
  <2> QED
    BY <1>0, <2>1, <2>2
<1>4. CASE ~\E h \in Handlers : SweepFailures(h) \/ RecordFailure(h) \/ ClearFailures(h)
  <2>1. failures' = failures
    BY <1>4, BeginFacts DEF Next, NextConnected, HandlerStep, SweepPending,
       SweepCompleted, SweepCodes, CountPending, CountCompleted, InsertPending,
       FetchSession, BindConsent, RenderPage, CheckFailures, Authenticate,
       InsertCode, InsertCompleted, RemovePending, Answer, RegisterClient,
       DropExpired, Replay, TakeCode, SwitchAccount, Tick, Disconnect, store, vars
  <2> QED
    BY <1>0, <2>1
<1> QED
  BY <1>1, <1>2, <1>3, <1>4

\* Every step keeps the types.
LEMMA TypeStep == TypeOK /\ FlowInv /\ [Next]_vars => TypeOK'
<1> SUFFICES ASSUME TypeOK, FlowInv, [Next]_vars
             PROVE  TypeOK'
  OBVIOUS
<1>0. failures' \in [Sessions -> Seq(Int)]
  BY FailuresType
<1> USE <1>0 DEF store, browser, history
<1>1. ASSUME NEW h \in Handlers, BeginStep(h)
      PROVE  TypeOK'
  BY <1>1, BeginFacts DEF TypeOK
<1>2. ASSUME NEW h \in Handlers, HandlerStep(h)
      PROVE  TypeOK'
  <2>0. /\ job[h] # Free /\ job' \in [Handlers -> Job \cup {Free}] /\ JobInv(h)
        /\ job[h] \in Job
    BY <1>2, HandlerJob DEF FlowInv, TypeOK
  <2>1. CASE SweepPending(h)
    BY <2>0, <2>1, RetainFacts DEF SweepPending, TypeOK
  <2>2. CASE SweepCompleted(h)
    BY <2>0, <2>2, RetainFacts DEF SweepCompleted, TypeOK
  <2>3. CASE SweepCodes(h)
    BY <2>0, <2>3, RetainFacts DEF SweepCodes, TypeOK
  <2>4. ASSUME NEW r \in Requests, InsertPending(h, r)
        PROVE  TypeOK'
    <3>1. [client |-> job[h].client, consent |-> None, expires |-> job[h].expires]
            \in Pending
      BY <2>0 DEF Job, Pending, SessionOrNone
    <3>2. [browser |-> job[h].browser, client |-> job[h].client,
           expires |-> job[h].expires] \in Start
      BY <2>0 DEF Job, Start
    <3> QED
      BY <2>0, <2>4, <3>1, <3>2 DEF InsertPending, TypeOK
  <2>5. CASE BindConsent(h)
    <3>1. \A r \in Live(pending) : [pending[r] EXCEPT !.consent = job[h].session] \in Pending
      BY <2>0, StoredFields, JobFields DEF Pending
    <3>2. job[h].session \in Sessions \cup {None}
      BY <2>0, JobFields DEF SessionOrNone
    <3> QED
      BY <2>0, <2>5, <3>1, <3>2 DEF BindConsent, TypeOK
  <2>6. CASE RenderPage(h)
    BY <2>0, <2>6, JobFields DEF RenderPage, TypeOK
  <2>7. ASSUME NEW c \in Codes, InsertCode(h, c)
        PROVE  TypeOK'
    <3>1. job[h].session \in Sessions /\ job[h].request \in Requests
      BY <2>0, <2>7, JobFields DEF InsertCode, At, JobInv, Storing, OfStarter,
         SessionOrNone, Begun, Sweeps, Admission
    <3>2. [client |-> job[h].client, session |-> job[h].session,
           expires |-> job[h].expires] \in CodeGrant
      BY <2>0, <3>1 DEF Job, CodeGrant
    <3>3. [request |-> job[h].request, browser |-> job[h].browser] \in Issue
      BY <2>0, <3>1 DEF Job, Issue
    <3> QED
      BY <2>0, <2>7, <3>2, <3>3 DEF InsertCode, TypeOK
  <2>8. CASE InsertCompleted(h)
    <3>1. job[h].code \in Codes
      BY <2>0, <2>8, JobFields DEF InsertCompleted, At, JobInv
    <3>2. [code |-> job[h].code, expires |-> job[h].expires] \in Completed
      BY <2>0, <3>1 DEF Job, Completed
    <3> QED
      BY <2>0, <2>8, <3>2 DEF InsertCompleted, TypeOK
  <2>9. CASE RemovePending(h)
    <3>1. job[h].request \in Requests
      BY <2>0, <2>9 DEF RemovePending, At, JobInv, OfStarter, Begun, Storing, Sweeps,
         Admission
    <3> QED
      BY <2>0, <2>9, <3>1 DEF RemovePending, TypeOK
  <2>10. CASE Answer(h)
    BY <2>0, <2>10, JobFields DEF Answer, TypeOK
  <2>11. CASE \/ SweepFailures(h) \/ CountPending(h) \/ CountCompleted(h)
              \/ FetchSession(h) \/ CheckFailures(h) \/ Authenticate(h)
              \/ RecordFailure(h) \/ ClearFailures(h)
    <3>1. UNCHANGED <<now, clients, pending, completed, codes, browser, history>>
      BY <2>11 DEF SweepFailures, CountPending, CountCompleted, FetchSession,
         CheckFailures, Authenticate, RecordFailure, ClearFailures
    <3> QED
      BY <2>0, <3>1 DEF TypeOK
  <2> QED
    BY <1>2, <2>1, <2>2, <2>3, <2>4, <2>5, <2>6, <2>7, <2>8, <2>9, <2>10, <2>11
    DEF HandlerStep
<1>3. CASE \/ \E c \in Clients : RegisterClient(c)
           \/ \E c \in Codes : TakeCode(c)
           \/ Tick
  BY <1>3, FlowConstants DEF RegisterClient, TakeCode, Tick, TypeOK
<1>4. CASE \E r \in Requests : DropExpired(r) \/ \E b \in Browsers : Replay(b, r)
  BY <1>4 DEF DropExpired, Replay, TypeOK
<1>5. CASE \E b \in Browsers, s \in SessionOrNone : SwitchAccount(b, s)
  BY <1>5 DEF SwitchAccount, TypeOK
<1>6. CASE \E h \in Handlers : Disconnect(h)
  BY <1>6 DEF Disconnect, Finish, TypeOK
<1>7. CASE UNCHANGED vars
  BY <1>7 DEF vars, TypeOK
<1> QED
  BY <1>1, <1>2, <1>3, <1>4, <1>5, <1>6, <1>7 DEF Next, NextConnected

\* What the history and the completed map say of a request or a code stays so.
Grows ==
  /\ now <= now'
  /\ \A r \in Requests : begun[r] # None => begun'[r] = begun[r]
  /\ \A c \in Codes : issued[c] # None => issued'[c] = issued[c]
  /\ \A r \in Requests : shown[r] \subseteq shown'[r]
  /\ \A r \in Requests : completed[r] # Fresh => completed'[r] # Fresh

\* Every step only adds to the history.
LEMMA GrowStep == TypeOK /\ FlowInv /\ [Next]_vars => Grows
<1> SUFFICES ASSUME TypeOK, FlowInv, [Next]_vars
             PROVE  Grows
  OBVIOUS
<1> USE DEF store, browser, history
<1>0. now \in 0..MaxTime /\ MaxTime \in Nat
  BY FlowConstants DEF TypeOK
<1>1. CASE UNCHANGED <<now, completed, history>>
  BY <1>0, <1>1 DEF Grows
<1>2. ASSUME NEW h \in Handlers, HandlerStep(h)
      PROVE  Grows
  <2>0. job[h] # Free /\ job[h] \in Job /\ JobInv(h)
    BY <1>2, HandlerJob DEF TypeOK, FlowInv
  <2>1. CASE SweepCompleted(h)
    <3>1. \A r \in Requests : completed[r] # Fresh => completed'[r] # Fresh
      <4>1. completed \in [Requests -> Completed \cup {Fresh, Gone}]
        BY DEF TypeOK
      <4>2. \A r \in Requests : completed'[r] \in {completed[r], Gone}
        BY <2>1, <4>1, RetainFacts DEF SweepCompleted
      <4> QED
        BY <4>2, FlowSentinels
    <3> QED
      BY <1>0, <2>1, <3>1 DEF SweepCompleted, Grows
  <2>2. ASSUME NEW r \in Requests, InsertPending(h, r)
        PROVE  Grows
    <3>1. begun[r] = None
      BY <2>2 DEF InsertPending, FlowInv, RequestInv
    <3> QED
      BY <1>0, <2>2, <3>1 DEF InsertPending, Grows, TypeOK
  <2>3. CASE BindConsent(h)
    BY <1>0, <2>3 DEF BindConsent, Grows, TypeOK
  <2>4. ASSUME NEW c \in Codes, InsertCode(h, c)
        PROVE  Grows
    <3>1. issued[c] = None
      BY <2>4 DEF InsertCode, FlowInv, CodeInv
    <3> QED
      BY <1>0, <2>4, <3>1 DEF InsertCode, Grows, TypeOK
  <2>5. CASE InsertCompleted(h)
    <3>1. job[h].code \in Codes
      BY <2>0, <2>5, JobFields DEF InsertCompleted, At, JobInv
    <3>2. [code |-> job[h].code, expires |-> job[h].expires] \in Completed
      BY <2>0, <3>1 DEF Job, Completed
    <3>3. [code |-> job[h].code, expires |-> job[h].expires] # Fresh
      BY <3>2, FlowSentinels
    <3> QED
      BY <1>0, <2>5, <3>3 DEF InsertCompleted, Grows, TypeOK
  <2>6. CASE RemovePending(h)
    BY <1>0, <2>6 DEF RemovePending, Grows
  <2>7. CASE \/ SweepPending(h) \/ SweepCodes(h) \/ SweepFailures(h)
             \/ CountPending(h) \/ CountCompleted(h) \/ FetchSession(h)
             \/ RenderPage(h) \/ CheckFailures(h) \/ Authenticate(h)
             \/ RecordFailure(h) \/ ClearFailures(h) \/ Answer(h)
    BY <1>1, <2>7 DEF SweepPending, SweepCodes, SweepFailures, CountPending,
       CountCompleted, FetchSession, RenderPage, CheckFailures, Authenticate,
       RecordFailure, ClearFailures, Answer
  <2> QED
    BY <1>2, <2>1, <2>2, <2>3, <2>4, <2>5, <2>6, <2>7 DEF HandlerStep
<1>3. CASE Tick
  BY <1>0, <1>3 DEF Tick, Grows
<1>4. CASE ~Tick /\ ~\E h \in Handlers : HandlerStep(h)
  <2>1. UNCHANGED <<now, completed, history>>
    BY <1>4, BeginFacts DEF Next, NextConnected, RegisterClient, DropExpired, Replay,
       TakeCode, SwitchAccount, Disconnect, vars
  <2> QED
    BY <1>1, <2>1
<1> QED
  BY <1>2, <1>3, <1>4

\* A request in progress that waits, or that ends, keeps what it established.
LEMMA JobKept ==
  ASSUME TypeOK, TypeOK', Grows, NEW h \in Handlers, JobInv(h),
         job'[h] \in {job[h], Free}
  PROVE  JobInv(h)'
<1> SUFFICES ASSUME job'[h] = job[h], job[h] # Free
             PROVE  JobInv(h)'
  BY DEF JobInv
<1> PICK j : j = job[h]
  OBVIOUS
<1>0. /\ j.asOf \in Int /\ now \in Int /\ now' \in Int /\ now <= now'
      /\ j.request \in Requests \cup {None} /\ j.code \in Codes \cup {None}
      /\ j.browser \in Browsers
  BY JobFields, FlowConstants DEF TypeOK, Grows
<1>1. OfStarter(j) => OfStarter(j)'
  BY DEF OfStarter, Begun, Grows
<1>2. OfStarter(j) =>
        /\ j.request \in Requests
        /\ shown[j.request] \subseteq shown'[j.request]
        /\ completed[j.request] # Fresh => completed'[j.request] # Fresh
  BY DEF OfStarter, Begun, Grows
<1>3. OfStarter(j) /\ j.code # None
        /\ issued[j.code] = [request |-> j.request, browser |-> j.browser]
        => issued'[j.code] = issued[j.code]
  <2>1. j.request \in Requests
          => [request |-> j.request, browser |-> j.browser] \in Issue
    BY <1>0 DEF Issue
  <2> QED
    BY <1>0, <1>2, <2>1, FlowSentinels DEF Grows
<1>4. /\ j.asOf <= now'
      /\ OfStarter(j)' \/ (j.for = "authorize" /\ j.at \in Sweeps \cup Admission)
  BY <1>0, <1>1 DEF JobInv
<1>5. j.at \in Storing \cup {"insert_completed", "remove_pending"} \/ j.for = "complete"
        => OfStarter(j)
  BY DEF JobInv, Storing, Sweeps, Admission
<1>6. job'[h] = j /\ job[h] = j
  OBVIOUS
<1>7. j.at \in {"insert_completed", "remove_pending"} =>
        issued'[j.code] = [request |-> j.request, browser |-> j.browser]
  BY <1>3, <1>5, <1>6 DEF JobInv
<1>8. j.for = "complete" => j.consent \in shown'[j.request] \cup {None}
  BY <1>2, <1>5, <1>6 DEF JobInv
<1>9. Native /\ j.at \in Storing => j.session \in shown'[j.request]
  BY <1>2, <1>5, <1>6 DEF JobInv
<1>10. j.at = "remove_pending" => completed'[j.request] # Fresh
  BY <1>2, <1>5, <1>6 DEF JobInv
<1> QED
  BY <1>4, <1>6, <1>7, <1>8, <1>9, <1>10 DEF JobInv

\* A request that the endpoints admit is of the browser that holds its cookie.
LEMMA BeginJob ==
  ASSUME TypeOK, FlowInv, NEW h \in Handlers, BeginStep(h)
  PROVE  JobInv(h)'
<1>0. UNCHANGED <<now, store, browser, history>> /\ now \in Nat
  BY BeginFacts, FlowConstants DEF TypeOK
<1> USE DEF store, browser, history, TypeOK, Sweeps, Admission, Throttle, Storing
<1>1. ASSUME NEW b \in Browsers, NEW c \in Clients, BeginAuthorize(h, b, c)
      PROVE  JobInv(h)'
  BY <1>0, <1>1 DEF BeginAuthorize, JobInv
<1>2. ASSUME NEW b \in Browsers, NEW r \in Requests, Open(r), cookie[b] = r
      PROVE  /\ Begun(r) /\ begun[r].browser = b
             /\ pending[r].client = begun[r].client
             /\ pending[r].consent \in shown[r] \cup {None}
  <2>1. RequestInv(r) /\ CookieInv(b) /\ r \in Live(pending) /\ r # None
    BY <1>2, FlowConstants DEF FlowInv, Open
  <2> QED
    BY <1>2, <2>1 DEF RequestInv, CookieInv
<1>3. ASSUME NEW b \in Browsers, NEW r \in Requests, BeginResume(h, b, r)
      PROVE  JobInv(h)'
  <2>1. Begun(r) /\ begun[r].browser = b
    BY <1>2, <1>3 DEF BeginResume
  <2> QED
    BY <1>0, <1>3, <2>1 DEF BeginResume, JobInv, OfStarter, Begun
<1>4. ASSUME NEW b \in Browsers, NEW r \in Requests, NEW s \in SessionOrNone,
             BeginComplete(h, b, r, s)
      PROVE  JobInv(h)'
  <2>1. /\ Begun(r) /\ begun[r].browser = b
        /\ pending[r].client = begun[r].client
        /\ pending[r].consent \in shown[r] \cup {None}
    BY <1>2, <1>4 DEF BeginComplete
  <2>2. CASE Native
    BY <1>0, <1>4, <2>1, <2>2 DEF BeginComplete, JobInv, OfStarter, Begun
  <2>3. CASE ~Native
    <3>1. s # None
      BY <1>4, <2>3, FlowConstants DEF BeginComplete
    <3> QED
      BY <1>0, <1>4, <2>1, <2>3, <3>1 DEF BeginComplete, JobInv, OfStarter, Begun
  <2> QED
    BY <2>2, <2>3
<1> QED
  BY <1>1, <1>3, <1>4 DEF BeginStep

\* A request that goes to its next step keeps the rest when that step asks for
\* nothing new.
LEMMA GotoKeeps ==
  ASSUME TypeOK, FlowInv, NEW h \in Handlers, job[h] # Free, NEW step \in Steps,
         Goto(h, step), UNCHANGED <<now, begun, issued>>,
         \A r \in Requests : shown[r] \subseteq shown'[r],
         \A r \in Requests : completed[r] # Fresh => completed'[r] # Fresh,
         \/ job[h].at \in Sweeps /\ step \in Sweeps
         \/ job[h].at \in Admission /\ step \in Admission
         \/ job[h].at \in Throttle /\ step \in Throttle
         \/ job[h].at = "bind" /\ step = "render"
         \/ job[h].at = "insert_completed" /\ step = "remove_pending"
              /\ completed'[job[h].request] # Fresh
         \/ job[h].at = "remove_pending" /\ step = "answer"
  PROVE  JobInv(h)'
<1> PICK j : j = job[h]
  OBVIOUS
<1> PICK k : k = job'[h]
  OBVIOUS
<1>1. /\ k # Free /\ k.at = step /\ k.for = j.for /\ k.browser = j.browser
      /\ k.request = j.request /\ k.client = j.client /\ k.session = j.session
      /\ k.consent = j.consent /\ k.asOf = j.asOf /\ k.code = j.code
  <2>1. j \in Job /\ k # Free /\ k = [j EXCEPT !.at = step]
    BY GotoFacts DEF TypeOK
  <2> QED
    BY <2>1 DEF Job
<1>2. JobInv(h)
  BY DEF FlowInv
<1> USE DEF Sweeps, Admission, Throttle, Storing
<1>3. OfStarter(j) => OfStarter(k)'
  BY <1>1 DEF OfStarter, Begun
<1>4. k.for = "complete" => k.request \in Requests
  BY <1>1, <1>2 DEF JobInv, OfStarter, Begun
<1> QED
  BY <1>1, <1>2, <1>3, <1>4 DEF JobInv

\* Each step of a request in progress establishes what the next one relies on.
LEMMA HandlerKeeps ==
  ASSUME TypeOK, FlowInv, Grows, NEW h \in Handlers, HandlerStep(h)
  PROVE  JobInv(h)'
<1> USE DEF store, browser, history
<1> PICK j : j = job[h]
  OBVIOUS
<1>0. j # Free /\ j \in Job /\ JobInv(h) /\ now \in Nat
  BY HandlerJob, FlowConstants DEF TypeOK, FlowInv
<1>a. CASE Finish(h)
  BY <1>a DEF Finish, JobInv, TypeOK
<1>1. CASE \/ SweepPending(h) \/ SweepCompleted(h) \/ SweepCodes(h)
           \/ CountPending(h) \/ CountCompleted(h) \/ CheckFailures(h)
           \/ Authenticate(h) \/ RecordFailure(h) \/ RenderPage(h) \/ Answer(h)
  <2>1. CASE ~Finish(h)
    <3>1. PICK step \in Steps :
            /\ Goto(h, step)
            /\ \/ j.at \in Sweeps /\ step \in Sweeps
               \/ j.at \in Admission /\ step \in Admission
               \/ j.at \in Throttle /\ step \in Throttle
      BY <1>1, <2>1 DEF SweepPending, SweepCompleted, SweepCodes, CountPending,
         CountCompleted, CheckFailures, Authenticate, RecordFailure, RenderPage,
         Answer, Sweeps, Admission, Throttle, Steps, At
    <3>2. UNCHANGED <<now, begun, issued, shown>>
      BY <1>1, <2>1 DEF SweepPending, SweepCompleted, SweepCodes, CountPending,
         CountCompleted, CheckFailures, Authenticate, RecordFailure, RenderPage, Answer
    <3> QED
      BY <1>0, <3>1, <3>2, GotoKeeps DEF Grows
  <2> QED
    BY <1>a, <2>1
<1>2. CASE BindConsent(h)
  <2>1. Goto(h, "render") /\ j.at = "bind" /\ UNCHANGED <<now, begun, issued>>
    BY <1>2 DEF BindConsent, At
  <2> QED
    BY <1>0, <2>1, GotoKeeps DEF Grows, Steps
<1>3. CASE InsertCompleted(h)
  <2>1. Goto(h, "remove_pending") /\ j.at = "insert_completed"
        /\ UNCHANGED <<now, begun, issued, shown>>
    BY <1>3 DEF InsertCompleted, At
  <2>2. completed'[j.request] # Fresh
    <3>1. j.request \in Requests /\ j.code \in Codes /\ j.expires \in Int
      BY <1>0, <2>1, JobFields DEF JobInv, Storing, Sweeps, Admission, OfStarter, Begun
    <3>2. [code |-> j.code, expires |-> j.expires] \in Completed
      BY <3>1 DEF Completed
    <3> QED
      BY <1>3, <3>1, <3>2, FlowSentinels DEF InsertCompleted, TypeOK
  <2> QED
    BY <1>0, <2>1, <2>2, GotoKeeps DEF Grows, Steps
<1>4. CASE RemovePending(h)
  <2>1. Goto(h, "answer") /\ j.at = "remove_pending"
        /\ UNCHANGED <<now, begun, issued, shown>>
    BY <1>4 DEF RemovePending, At
  <2> QED
    BY <1>0, <2>1, GotoKeeps DEF Grows, Steps
<1> PICK k : k = job'[h]
  OBVIOUS
<1> USE DEF Sweeps, Admission, Throttle, Storing
<1>5. CASE SweepFailures(h)
  <2>1. PICK step \in {"count_pending", "check_failures"} :
          /\ step = IF j.for = "authorize" THEN "count_pending" ELSE "check_failures"
          /\ job' = [job EXCEPT ![h].at = step, ![h].asOf = 0]
          /\ j.at = "sweep_failures" /\ UNCHANGED <<now, begun, issued, shown, completed>>
    BY <1>5 DEF SweepFailures, At
  <2>2. k = [j EXCEPT !.at = step, !.asOf = 0]
    BY <2>1 DEF TypeOK
  <2>3. /\ k.at = step /\ k.for = j.for /\ k.browser = j.browser
        /\ k.request = j.request /\ k.client = j.client /\ k.session = j.session
        /\ k.consent = j.consent /\ k.asOf = 0 /\ k.code = j.code
    BY <1>0, <2>2 DEF Job
  <2>4. OfStarter(j) => OfStarter(k)'
    BY <2>1, <2>3 DEF OfStarter, Begun
  <2> QED
    BY <1>0, <2>1, <2>3, <2>4 DEF JobInv
<1>6. ASSUME NEW r \in Requests, InsertPending(h, r)
      PROVE  JobInv(h)'
  <2>1. PICK step \in {"fetch", "render"} :
          job' = [job EXCEPT ![h].at = step, ![h].request = r, ![h].expires = 0]
    BY <1>6 DEF InsertPending
  <2>2. k = [j EXCEPT !.at = step, !.request = r, !.expires = 0]
    BY <2>1 DEF TypeOK
  <2>3. /\ k.at = step /\ k.for = j.for /\ k.browser = j.browser
        /\ k.request = r /\ k.asOf = j.asOf
    BY <1>0, <2>2 DEF Job
  <2>4. j.at = "insert_pending" /\ j.for = "authorize" /\ now' = now
    BY <1>0, <1>6 DEF InsertPending, At, JobInv
  <2>5. [browser |-> j.browser, client |-> j.client, expires |-> j.expires] \in Start
    BY <1>0, JobFields DEF Start
  <2>6. begun'[r] # None /\ begun'[r].browser = j.browser
    BY <1>6, <2>5, FlowSentinels DEF InsertPending, TypeOK
  <2> QED
    BY <1>0, <2>3, <2>4, <2>6 DEF JobInv, OfStarter, Begun
<1>7. CASE FetchSession(h)
  <2>0. j.at = "fetch" /\ UNCHANGED <<now, begun, issued, shown, completed>>
    BY <1>7 DEF FetchSession, At
  <2>1. PICK found \in {j.session, None} :
          \/ j.for # "complete"
               /\ job' = [job EXCEPT ![h].at = "bind", ![h].session = found]
          \/ j.for = "complete" /\ found # None /\ found = j.consent
               /\ job' = [job EXCEPT ![h].at = "insert_code",
                                     ![h].expires = now + CodeTtl]
          \/ Finish(h)
    BY <1>7 DEF FetchSession
  <2>2. CASE j.for # "complete"
               /\ job' = [job EXCEPT ![h].at = "bind", ![h].session = found]
    <3>1. k = [j EXCEPT !.at = "bind", !.session = found]
      BY <2>2 DEF TypeOK
    <3>2. /\ k.at = "bind" /\ k.for = j.for /\ k.browser = j.browser
          /\ k.request = j.request /\ k.asOf = j.asOf /\ k.client = j.client
      BY <1>0, <3>1 DEF Job
    <3>3. OfStarter(j) => OfStarter(k)'
      BY <2>0, <3>2 DEF OfStarter, Begun
    <3> QED
      BY <1>0, <2>0, <2>2, <3>2, <3>3 DEF JobInv
  <2>3. CASE j.for = "complete" /\ found # None /\ found = j.consent
               /\ job' = [job EXCEPT ![h].at = "insert_code",
                                     ![h].expires = now + CodeTtl]
    <3>1. k = [j EXCEPT !.at = "insert_code", !.expires = now + CodeTtl]
      BY <2>3 DEF TypeOK
    <3>2. /\ k.at = "insert_code" /\ k.for = j.for /\ k.browser = j.browser
          /\ k.request = j.request /\ k.asOf = j.asOf /\ k.client = j.client
          /\ k.session = j.session /\ k.consent = j.consent
      BY <1>0, <3>1 DEF Job
    <3>3. OfStarter(j) => OfStarter(k)'
      BY <2>0, <3>2 DEF OfStarter, Begun
    <3> QED
      BY <1>0, <2>0, <2>1, <2>3, <3>2, <3>3 DEF JobInv
  <2> QED
    BY <1>a, <2>1, <2>2, <2>3
<1>8. CASE ClearFailures(h)
  <2>0. j.at = "clear_failures" /\ UNCHANGED <<now, begun, issued, shown, completed>>
        /\ job' = [job EXCEPT ![h].at = "insert_code", ![h].expires = now + CodeTtl]
    BY <1>8 DEF ClearFailures, At
  <2>1. k = [j EXCEPT !.at = "insert_code", !.expires = now + CodeTtl]
    BY <2>0 DEF TypeOK
  <2>2. /\ k.at = "insert_code" /\ k.for = j.for /\ k.browser = j.browser
        /\ k.request = j.request /\ k.asOf = j.asOf /\ k.client = j.client
        /\ k.session = j.session /\ k.consent = j.consent
    BY <1>0, <2>1 DEF Job
  <2>3. OfStarter(j) => OfStarter(k)'
    BY <2>0, <2>2 DEF OfStarter, Begun
  <2> QED
    BY <1>0, <2>0, <2>2, <2>3 DEF JobInv
<1>9. ASSUME NEW c \in Codes, InsertCode(h, c)
      PROVE  JobInv(h)'
  <2>0. j.at = "insert_code" /\ UNCHANGED <<now, begun, shown, completed>>
        /\ job' = [job EXCEPT ![h].at = "insert_completed", ![h].code = c]
        /\ issued' = [issued EXCEPT ![c] = [request |-> j.request, browser |-> j.browser]]
    BY <1>9 DEF InsertCode, At
  <2>1. k = [j EXCEPT !.at = "insert_completed", !.code = c]
    BY <2>0 DEF TypeOK
  <2>2. /\ k.at = "insert_completed" /\ k.for = j.for /\ k.browser = j.browser
        /\ k.request = j.request /\ k.asOf = j.asOf /\ k.client = j.client
        /\ k.session = j.session /\ k.consent = j.consent /\ k.code = c
    BY <1>0, <2>1 DEF Job
  <2>3. OfStarter(j) => OfStarter(k)'
    BY <2>0, <2>2 DEF OfStarter, Begun
  <2>4. issued'[c] = [request |-> k.request, browser |-> k.browser] /\ c # None
    BY <2>0, <2>2, FlowConstants DEF TypeOK
  <2> QED
    BY <1>0, <2>0, <2>2, <2>3, <2>4 DEF JobInv
<1> QED
  BY <1>1, <1>2, <1>3, <1>4, <1>5, <1>6, <1>7, <1>8, <1>9 DEF HandlerStep

\* Every request in progress keeps its part.
LEMMA JobStep ==
  ASSUME TypeOK, TypeOK', FlowInv, Grows, [Next]_vars, NEW g \in Handlers
  PROVE  JobInv(g)'
<1>1. JobInv(g)
  BY DEF FlowInv
<1>2. CASE job'[g] \in {job[g], Free}
  BY <1>1, <1>2, JobKept
<1>3. ASSUME NEW h \in Handlers, BeginStep(h)
      PROVE  JobInv(g)'
  BY <1>2, <1>3, BeginFacts, BeginJob
<1>4. ASSUME NEW h \in Handlers, HandlerStep(h)
      PROVE  JobInv(g)'
  BY <1>2, <1>4, HandlerJob, HandlerKeeps
<1>5. CASE ~\E h \in Handlers : BeginStep(h) \/ HandlerStep(h)
  <2>1. job'[g] \in {job[g], Free}
    BY <1>5 DEF Next, NextConnected, RegisterClient, DropExpired, Replay, TakeCode,
       SwitchAccount, Tick, Disconnect, Finish, vars, TypeOK
  <2> QED
    BY <1>2, <2>1
<1> QED
  BY <1>3, <1>4, <1>5

\* A pending request that is not touched keeps its part; it is removed when it
\* has expired or been answered, and bound to a session that its page shows.
LEMMA RequestKept ==
  ASSUME TypeOK, TypeOK', Grows, NEW r \in Requests, RequestInv(r),
         begun'[r] = begun[r],
         r \in answered' => r \in answered \/ pending'[r] = Gone,
         \/ pending'[r] = pending[r]
         \/ r \in Live(pending) /\ pending'[r] = Gone /\ Expired(pending[r], now)
         \/ pending[r] # Fresh /\ pending'[r] = Gone /\ completed[r] # Fresh
         \/ /\ r \in Live(pending)
            /\ \E s \in shown'[r] \cup {None} :
                 pending'[r] = [pending[r] EXCEPT !.consent = s],
         \/ completed'[r] \in {completed[r], Gone}
         \/ /\ completed'[r] \in Completed
            /\ issued[completed'[r].code] # None
            /\ issued[completed'[r].code].request = r
  PROVE  RequestInv(r)'
<1> USE FlowSentinels
<1>0. now \in Int /\ now' \in Int /\ now <= now'
  BY FlowConstants DEF TypeOK, Grows
<1>1. begun[r] # None => begun[r].expires \in Int
  BY StoredFields
<1>2. pending[r] = Fresh <=> begun[r] = None
  BY DEF RequestInv
<1>3. /\ r \in Live(pending)  <=> pending[r] \notin {Fresh, Gone}
      /\ r \in Live(pending)' <=> pending'[r] \notin {Fresh, Gone}
      /\ r \in Live(completed)  <=> completed[r] \notin {Fresh, Gone}
      /\ r \in Live(completed)' <=> completed'[r] \notin {Fresh, Gone}
  BY DEF TypeOK, Live
<1>4. r \in Live(completed)' => issued'[completed'[r].code] # None
                                /\ issued'[completed'[r].code].request = r
  <2>1. r \in Live(completed)' => completed'[r].code \in Codes
    BY <1>3 DEF TypeOK, Completed
  <2>2. r \in Live(completed)' => /\ issued[completed'[r].code] # None
                                  /\ issued[completed'[r].code].request = r
    BY <1>3 DEF RequestInv
  <2> QED
    BY <2>1, <2>2 DEF Grows
<1>5. /\ pending'[r] = Fresh <=> begun'[r] = None
      /\ r \in Live(pending)' =>
           /\ pending'[r].client = begun'[r].client
           /\ pending'[r].expires = begun'[r].expires
           /\ pending'[r].consent \in shown'[r] \cup {None}
  <2>1. CASE pending'[r] \in {pending[r], Gone}
    <3>1. pending'[r] = Gone => pending[r] # Fresh
      BY <1>3, <2>1
    <3> QED
      BY <1>2, <1>3, <2>1, <3>1 DEF RequestInv, Grows
  <2>2. ASSUME r \in Live(pending), NEW s \in shown'[r] \cup {None},
               pending'[r] = [pending[r] EXCEPT !.consent = s]
        PROVE  /\ pending'[r] # Fresh /\ begun[r] # None
               /\ pending'[r].client = begun'[r].client
               /\ pending'[r].expires = begun'[r].expires
               /\ pending'[r].consent \in shown'[r] \cup {None}
    <3>1. pending[r] \in Pending
      BY <2>2, StoredFields
    <3>2. s \in SessionOrNone
      BY DEF TypeOK, SessionOrNone
    <3>3. pending'[r] \in Pending /\ pending'[r].client = pending[r].client
          /\ pending'[r].expires = pending[r].expires /\ pending'[r].consent = s
      BY <2>2, <3>1, <3>2 DEF Pending
    <3> QED
      BY <1>2, <1>3, <2>2, <3>3 DEF RequestInv
  <2> QED
    BY <2>1, <2>2
<1>6. pending'[r] = Gone /\ begun'[r].expires > now' => completed'[r] # Fresh
  <2> SUFFICES ASSUME pending'[r] = Gone, begun[r].expires > now'
               PROVE  completed[r] # Fresh
    BY DEF Grows
  <2>1. begun[r] # None /\ begun[r].expires > now
    BY <1>0, <1>1, <1>5
  <2>2. CASE pending[r] = Gone
    BY <2>1, <2>2 DEF RequestInv
  <2>3. CASE r \in Live(pending) /\ Expired(pending[r], now)
    BY <1>0, <1>1, <2>1, <2>3 DEF RequestInv, Expired
  <2>4. CASE r \in Live(pending) /\ \E s \in shown'[r] \cup {None} :
                 pending'[r] = [pending[r] EXCEPT !.consent = s]
    <3>1. PICK s \in shown'[r] \cup {None} :
            pending'[r] = [pending[r] EXCEPT !.consent = s]
      BY <2>4
    <3>2. pending[r] \in Pending /\ s \in SessionOrNone
      BY <2>4, StoredFields DEF TypeOK, SessionOrNone
    <3>3. pending'[r] \in Pending
      BY <3>1, <3>2 DEF Pending
    <3> QED
      BY <3>3
  <2> QED
    BY <2>2, <2>3, <2>4
<1>7. r \in answered' => pending'[r] = Gone
  <2>1. r \in answered => pending[r] = Gone
    BY DEF RequestInv
  <2>2. pending[r] = Gone => pending'[r] = Gone
    BY <1>3
  <2> QED
    BY <2>1, <2>2
<1> QED
  BY <1>4, <1>5, <1>6, <1>7 DEF RequestInv

\* Every request keeps its part.
LEMMA RequestStep ==
  ASSUME TypeOK, TypeOK', FlowInv, Grows, [Next]_vars, NEW r \in Requests
  PROVE  RequestInv(r)'
<1> USE DEF store, browser, history
<1>0. RequestInv(r)
  BY DEF FlowInv
<1>1. CASE UNCHANGED <<pending, completed, begun, answered>>
  BY <1>0, <1>1, RequestKept
<1>2. ASSUME NEW h \in Handlers, HandlerStep(h)
      PROVE  RequestInv(r)'
  <2> PICK j : j = job[h]
    OBVIOUS
  <2>0. /\ j # Free /\ JobInv(h) /\ now \in Int
        /\ j.at \in Steps /\ j.browser \in Browsers /\ j.client \in Clients
        /\ j.session \in SessionOrNone /\ j.expires \in Int /\ j.asOf \in Int
        /\ j.code \in Codes \cup {None}
    BY <1>2, HandlerJob, JobFields, FlowConstants DEF FlowInv, TypeOK
  <2>1. CASE SweepPending(h)
    <3>1. pending \in [Requests -> Pending \cup {Fresh, Gone}]
      BY DEF TypeOK
    <3>2. /\ pending'[r] \in {pending[r], Gone}
          /\ pending'[r] # pending[r] => r \in Live(pending) /\ Expired(pending[r], j.asOf)
          /\ UNCHANGED <<completed, begun, answered>>
      BY <2>1, <3>1, RetainFacts DEF SweepPending
    <3>3. j.asOf <= now
      BY <2>0 DEF JobInv
    <3>4. pending'[r] # pending[r] => Expired(pending[r], now)
      BY <2>0, <3>2, <3>3, StoredFields DEF Expired
    <3> QED
      BY <1>0, <3>2, <3>4, RequestKept
  <2>2. CASE SweepCompleted(h)
    <3>1. completed \in [Requests -> Completed \cup {Fresh, Gone}]
      BY DEF TypeOK
    <3>2. /\ completed'[r] \in {completed[r], Gone}
          /\ UNCHANGED <<pending, begun, answered>>
      BY <2>2, <3>1, RetainFacts DEF SweepCompleted
    <3> QED
      BY <1>0, <3>2, RequestKept
  <2>3. ASSUME NEW q \in Requests, InsertPending(h, q)
        PROVE  RequestInv(r)'
    <3>1. CASE q = r
      <4>1. /\ pending'[r] = [client |-> j.client, consent |-> None, expires |-> j.expires]
            /\ begun'[r] = [browser |-> j.browser, client |-> j.client,
                            expires |-> j.expires]
            /\ pending[r] = Fresh /\ UNCHANGED <<completed, issued, answered>>
        BY <2>3, <3>1 DEF InsertPending, TypeOK
      <4>2. pending'[r] \in Pending /\ begun'[r] \in Start
        BY <2>0, <4>1 DEF Pending, Start, SessionOrNone
      <4>3. pending'[r] \notin {Fresh, Gone} /\ begun'[r] # None
        BY <4>2, FlowSentinels
      <4>4. r \notin answered
        BY <1>0, <4>1, FlowSentinels DEF RequestInv
      <4>5. r \in Live(completed)' <=> r \in Live(completed)
        BY <4>1 DEF Live
      <4> QED
        BY <1>0, <4>1, <4>3, <4>4, <4>5 DEF RequestInv
    <3>2. CASE q # r
      <4>1. pending'[r] = pending[r] /\ begun'[r] = begun[r]
            /\ UNCHANGED <<completed, answered>>
        BY <2>3, <3>2 DEF InsertPending, TypeOK
      <4> QED
        BY <1>0, <4>1, RequestKept
    <3> QED
      BY <3>1, <3>2
  <2>4. CASE BindConsent(h)
    <3>1. UNCHANGED <<completed, begun, answered>>
      BY <2>4 DEF BindConsent
    <3>2. CASE r = j.request /\ r \in Live(pending)
      <4>1. pending'[r] = [pending[r] EXCEPT !.consent = j.session]
            /\ j.session \in shown'[r] \cup {None}
        BY <2>4, <3>2 DEF BindConsent, TypeOK
      <4> QED
        BY <1>0, <3>1, <3>2, <4>1, RequestKept
    <3>3. CASE r # j.request \/ r \notin Live(pending)
      <4>1. pending'[r] = pending[r]
        BY <2>4, <3>3 DEF BindConsent, TypeOK
      <4> QED
        BY <1>0, <3>1, <4>1, RequestKept
    <3> QED
      BY <3>2, <3>3
  <2>5. CASE InsertCompleted(h)
    <3>1. UNCHANGED <<pending, begun, answered>>
      BY <2>5 DEF InsertCompleted
    <3>2. CASE r = j.request
      <4>1. /\ completed'[r] = [code |-> j.code, expires |-> j.expires]
            /\ j.code # None
            /\ issued[j.code] = [request |-> r, browser |-> j.browser]
        BY <2>0, <2>5, <3>2 DEF InsertCompleted, At, JobInv, TypeOK
      <4>2. completed'[r] \in Completed
        BY <2>0, <4>1 DEF Completed
      <4>3. issued[j.code] \in Issue
        BY <2>0, <4>1 DEF Issue
      <4> QED
        BY <1>0, <3>1, <4>1, <4>2, <4>3, FlowSentinels, RequestKept
    <3>3. CASE r # j.request
      <4>1. completed'[r] = completed[r]
        BY <2>5, <3>3 DEF InsertCompleted, TypeOK
      <4> QED
        BY <1>0, <3>1, <4>1, RequestKept
    <3> QED
      BY <3>2, <3>3
  <2>6. CASE RemovePending(h)
    <3>1. UNCHANGED <<completed, begun>> /\ answered' = answered \cup {j.request}
      BY <2>6 DEF RemovePending
    <3>2. CASE r = j.request
      <4>1. begun[r] # None /\ completed[r] # Fresh
        BY <2>0, <2>6, <3>2
        DEF RemovePending, At, JobInv, OfStarter, Begun, Storing, Sweeps, Admission
      <4>2. pending[r] # Fresh /\ pending'[r] = Gone
        BY <1>0, <2>6, <3>2, <4>1 DEF RequestInv, RemovePending, TypeOK
      <4> QED
        BY <1>0, <3>1, <4>1, <4>2, RequestKept
    <3>3. CASE r # j.request
      <4>1. pending'[r] = pending[r]
        BY <2>6, <3>3 DEF RemovePending, TypeOK
      <4> QED
        BY <1>0, <3>1, <3>3, <4>1, RequestKept
    <3> QED
      BY <3>2, <3>3
  <2>7. CASE ~(\/ SweepPending(h) \/ SweepCompleted(h) \/ BindConsent(h)
               \/ \E q \in Requests : InsertPending(h, q)
               \/ InsertCompleted(h) \/ RemovePending(h))
    <3>1. UNCHANGED <<pending, completed, begun, answered>>
      BY <1>2, <2>7 DEF HandlerStep, SweepCodes, SweepFailures, CountPending,
         CountCompleted, FetchSession, RenderPage, CheckFailures, Authenticate,
         RecordFailure, ClearFailures, InsertCode, Answer
    <3> QED
      BY <1>1, <3>1
  <2> QED
    BY <2>1, <2>2, <2>3, <2>4, <2>5, <2>6, <2>7
<1>3. ASSUME NEW q \in Requests, DropExpired(q)
      PROVE  RequestInv(r)'
  <2>1. \/ pending'[r] = pending[r]
        \/ r \in Live(pending) /\ pending'[r] = Gone /\ Expired(pending[r], now)
    BY <1>3 DEF DropExpired, TypeOK
  <2>2. UNCHANGED <<completed, begun, answered>>
    BY <1>3 DEF DropExpired
  <2> QED
    BY <1>0, <2>1, <2>2, RequestKept
<1>4. CASE ~\/ \E h \in Handlers : HandlerStep(h)
            \/ \E q \in Requests : DropExpired(q)
  <2>1. UNCHANGED <<pending, completed, begun, answered>>
    BY <1>4, BeginFacts DEF Next, NextConnected, RegisterClient, Replay, TakeCode,
       SwitchAccount, Tick, Disconnect, vars
  <2> QED
    BY <1>1, <2>1
<1> QED
  BY <1>2, <1>3, <1>4

\* Every code keeps its part.
LEMMA CodeStep ==
  ASSUME TypeOK, TypeOK', FlowInv, Grows, [Next]_vars, NEW c \in Codes
  PROVE  CodeInv(c)'
<1> USE DEF store, browser, history
<1>0. CodeInv(c)
  BY DEF FlowInv
<1>1. /\ c \in Live(codes)  <=> codes[c]  \notin {Fresh, Gone}
      /\ c \in Live(codes)' <=> codes'[c] \notin {Fresh, Gone}
  BY DEF TypeOK, Live
<1>2. CASE /\ issued'[c] = issued[c]
           /\ codes'[c] = codes[c] \/ (codes[c] # Fresh /\ codes'[c] = Gone)
  <2>1. \A r : Begun(r) => Begun(r)' /\ begun'[r] = begun[r] /\ shown[r] \subseteq shown'[r]
    BY DEF Begun, Grows
  <2>2. codes'[c] = Fresh <=> issued'[c] = None
    BY <1>0, <1>2, FlowSentinels DEF CodeInv
  <2>3. issued'[c] # None =>
           /\ Begun(issued[c].request) /\ Begun(issued[c].request)'
           /\ issued'[c].browser = begun'[issued'[c].request].browser
    BY <1>0, <1>2, <2>1 DEF CodeInv
  <2>4. c \in Live(codes)' => codes'[c] = codes[c] /\ c \in Live(codes)
                              /\ issued[c] # None
    BY <1>0, <1>1, <1>2 DEF CodeInv
  <2>5. c \in Live(codes)' => codes'[c].client = begun'[issued'[c].request].client
    BY <1>0, <1>2, <2>1, <2>3, <2>4 DEF CodeInv
  <2>6. c \in Live(codes)' /\ Native => codes'[c].session \in shown'[issued'[c].request]
    BY <1>0, <1>2, <2>1, <2>3, <2>4 DEF CodeInv
  <2> QED
    BY <1>2, <2>2, <2>3, <2>5, <2>6 DEF CodeInv
<1>3. ASSUME NEW h \in Handlers, HandlerStep(h)
      PROVE  CodeInv(c)'
  <2> PICK j : j = job[h]
    OBVIOUS
  <2>0. /\ j # Free /\ JobInv(h)
        /\ j.browser \in Browsers /\ j.client \in Clients
        /\ j.session \in SessionOrNone /\ j.expires \in Int
    BY <1>3, HandlerJob, JobFields DEF FlowInv
  <2>1. CASE SweepCodes(h)
    <3>1. codes \in [Codes -> CodeGrant \cup {Fresh, Gone}]
      BY DEF TypeOK
    <3>2. /\ codes'[c] \in {codes[c], Gone}
          /\ codes[c] = Fresh => codes'[c] = codes[c]
          /\ issued' = issued
      BY <2>1, <3>1, RetainFacts DEF SweepCodes
    <3> QED
      BY <1>2, <3>2
  <2>2. ASSUME NEW d \in Codes, InsertCode(h, d)
        PROVE  CodeInv(c)'
    <3>1. CASE d = c
      <4>1. /\ codes'[c] = [client |-> j.client, session |-> j.session,
                            expires |-> j.expires]
            /\ issued'[c] = [request |-> j.request, browser |-> j.browser]
            /\ j.at = "insert_code" /\ UNCHANGED <<begun, shown>>
        BY <2>2, <3>1 DEF InsertCode, At, TypeOK
      <4>2. /\ OfStarter(j) /\ j.for = "complete" /\ j.session # None
            /\ Native => j.session \in shown[j.request]
        BY <2>0, <4>1 DEF JobInv, Storing, Sweeps, Admission
      <4>3. codes'[c] \in CodeGrant /\ issued'[c] \in Issue
        BY <2>0, <4>1, <4>2 DEF CodeGrant, Issue, SessionOrNone, OfStarter, Begun
      <4>4. codes'[c] # Fresh /\ issued'[c] # None
        BY <4>3, FlowSentinels
      <4>5. issued'[c].request = j.request /\ issued'[c].browser = j.browser
            /\ codes'[c].client = j.client /\ codes'[c].session = j.session
        BY <4>1
      <4>6. Begun(j.request)' /\ UNCHANGED <<begun, shown>>
        BY <4>1, <4>2 DEF OfStarter, Begun
      <4> QED
        BY <4>2, <4>4, <4>5, <4>6 DEF CodeInv, OfStarter, Begun
    <3>2. CASE d # c
      <4>1. codes'[c] = codes[c] /\ issued'[c] = issued[c]
        BY <2>2, <3>2 DEF InsertCode, TypeOK
      <4> QED
        BY <1>2, <4>1
    <3> QED
      BY <3>1, <3>2
  <2>3. CASE ~SweepCodes(h) /\ ~\E d \in Codes : InsertCode(h, d)
    <3>1. UNCHANGED <<codes, issued>>
      BY <1>3, <2>3 DEF HandlerStep, SweepPending, SweepCompleted, SweepFailures,
         CountPending, CountCompleted, InsertPending, FetchSession, BindConsent,
         RenderPage, CheckFailures, Authenticate, RecordFailure, ClearFailures,
         InsertCompleted, RemovePending, Answer
    <3> QED
      BY <1>2, <3>1
  <2> QED
    BY <2>1, <2>2, <2>3
<1>4. ASSUME NEW d \in Codes, TakeCode(d)
      PROVE  CodeInv(c)'
  <2>1. issued' = issued /\ (codes'[c] = codes[c] \/ (codes[c] # Fresh /\ codes'[c] = Gone))
    BY <1>4 DEF TakeCode, TypeOK, Live
  <2> QED
    BY <1>2, <2>1
<1>5. CASE ~\/ \E h \in Handlers : HandlerStep(h)
            \/ \E d \in Codes : TakeCode(d)
  <2>1. UNCHANGED <<codes, issued>>
    BY <1>5, BeginFacts DEF Next, NextConnected, RegisterClient, DropExpired, Replay,
       SwitchAccount, Tick, Disconnect, vars
  <2> QED
    BY <1>2, <2>1
<1> QED
  BY <1>3, <1>4, <1>5

\* Every browser keeps its part: the cookie is set by the page of a request the
\* browser has begun.
LEMMA CookieStep ==
  ASSUME TypeOK, TypeOK', FlowInv, Grows, [Next]_vars, NEW b \in Browsers
  PROVE  CookieInv(b)'
<1> USE DEF store, browser, history
<1>0. CookieInv(b)
  BY DEF FlowInv
<1>1. CASE cookie'[b] \in {cookie[b], None}
  BY <1>0, <1>1 DEF CookieInv, Begun, Grows
<1>2. ASSUME NEW h \in Handlers, RenderPage(h)
      PROVE  CookieInv(b)'
  <2>1. JobInv(h) /\ At(h, "render") /\ begun' = begun
    BY <1>2 DEF FlowInv, RenderPage
  <2>2. OfStarter(job[h])
    BY <2>1 DEF JobInv, At, Sweeps, Admission
  <2>3. cookie'[b] = cookie[b]
        \/ (b = job[h].browser /\ cookie'[b] = job[h].request)
    BY <1>2 DEF RenderPage, TypeOK
  <2> QED
    BY <1>1, <2>1, <2>2, <2>3 DEF CookieInv, OfStarter, Begun
<1>3. ASSUME NEW h \in Handlers, Answer(h)
      PROVE  CookieInv(b)'
  BY <1>1, <1>3 DEF Answer, TypeOK
<1>4. ASSUME NEW a \in Browsers, NEW r \in Requests, Replay(a, r)
      PROVE  CookieInv(b)'
  BY <1>1, <1>4 DEF Replay, TypeOK
<1>5. CASE ~\/ \E h \in Handlers : RenderPage(h) \/ Answer(h)
            \/ \E a \in Browsers, r \in Requests : Replay(a, r)
  <2>1. UNCHANGED cookie
    BY <1>5, BeginFacts DEF Next, NextConnected, HandlerStep, SweepPending,
       SweepCompleted, SweepCodes, SweepFailures, CountPending, CountCompleted,
       InsertPending, FetchSession, BindConsent, CheckFailures, Authenticate,
       RecordFailure, ClearFailures, InsertCode, InsertCompleted, RemovePending,
       RegisterClient, DropExpired, TakeCode, SwitchAccount, Tick, Disconnect, vars
  <2> QED
    BY <1>1, <2>1
<1> QED
  BY <1>2, <1>3, <1>4, <1>5

\* In every state the types and the invariant hold.
THEOREM FlowInvariant == Spec => [](TypeOK /\ FlowInv)
<1>1. Init => TypeOK /\ FlowInv
  <2> SUFFICES ASSUME Init
               PROVE  FlowInv
    BY TypeInit
  <2>1. Live(pending) = {} /\ Live(completed) = {} /\ Live(codes) = {}
    BY DEF Init, Live
  <2> QED
    BY <2>1, FlowSentinels
    DEF Init, FlowInv, JobInv, RequestInv, CodeInv, CookieInv
<1>2. TypeOK /\ FlowInv /\ [Next]_vars => TypeOK' /\ FlowInv'
  BY TypeStep, GrowStep, JobStep, RequestStep, CodeStep, CookieStep DEF FlowInv
<1> QED
  BY <1>1, <1>2, PTL DEF Spec

\* A code goes to the browser and the client that began its request, however
\* many requests, browsers and submissions there are.
THEOREM GoesToStarter == Spec => []CodeGoesToStarter
<1>1. TypeOK /\ FlowInv => CodeGoesToStarter
  <2> SUFFICES ASSUME TypeOK, FlowInv
               PROVE  CodeGoesToStarter
    OBVIOUS
  <2>1. \A c \in Codes : CodeInv(c)
    BY DEF FlowInv
  <2>2. \A r \in Live(completed) : r \in Requests /\ RequestInv(r)
    BY StoredFields DEF FlowInv
  <2> QED
    BY <2>1, <2>2 DEF CodeGoesToStarter, CodeInv, RequestInv, Begun
<1> QED
  BY <1>1, FlowInvariant, PTL

\* In native mode a code stands for a session that a page of its request named,
\* however the user switches accounts between the pages and the submission.
THEOREM ForShownSession == Spec => []CodeForShownSession
<1>1. TypeOK /\ FlowInv => CodeForShownSession
  BY StoredFields DEF FlowInv, CodeInv, CodeForShownSession
<1> QED
  BY <1>1, FlowInvariant, PTL

\* A request leaves the pending map before its time only once its answer is
\* stored, also when submissions race or are dropped (oauth.rs:580 and 588).
THEOREM NoGap == Spec => []NoReplayGap
<1>1. FlowInv => NoReplayGap
  BY DEF FlowInv, RequestInv, NoReplayGap
<1> QED
  BY <1>1, FlowInvariant, PTL

\* Only a pending request starts an authorization, and an answered one is not
\* pending any more.
THEOREM NeverReopened == Spec => AnsweredNeverReopened
<1>1. TypeOK /\ FlowInv /\ [Next]_vars =>
        [\A h \in Handlers :
           job[h] = Free /\ job'[h] # Free => job'[h].request \notin answered]_vars
  <2> SUFFICES ASSUME TypeOK, FlowInv, [Next]_vars,
                      NEW h \in Handlers, job[h] = Free, job'[h] # Free
               PROVE  job'[h].request \notin answered
    OBVIOUS
  <2>1. BeginStep(h)
    <3>1. ASSUME NEW g \in Handlers, HandlerStep(g)
          PROVE  FALSE
      BY <3>1, HandlerJob
    <3>2. ASSUME NEW g \in Handlers, BeginStep(g)
          PROVE  g = h
      BY <3>2, BeginFacts
    <3>3. CASE ~\E g \in Handlers : BeginStep(g) \/ HandlerStep(g)
      BY <3>3 DEF Next, NextConnected, RegisterClient, DropExpired, Replay, TakeCode,
         SwitchAccount, Tick, Disconnect, Finish, vars, TypeOK
    <3> QED
      BY <3>1, <3>2, <3>3
  <2>2. \A r \in Requests : Open(r) => r \notin answered
    BY DEF FlowInv, RequestInv, Open, Live
  <2>3. None \notin answered
    BY FlowConstants DEF TypeOK
  <2>4. job'[h].request = None
        \/ \E r \in Requests : Open(r) /\ job'[h].request = r
    BY <2>1 DEF BeginStep, BeginAuthorize, BeginResume, BeginComplete, TypeOK
  <2> QED
    BY <2>2, <2>3, <2>4
<1> QED
  BY <1>1, FlowInvariant, PTL DEF Spec, AnsweredNeverReopened

-----------------------------------------------------------------------------
\* Why the cap on pending requests holds up to the requests in progress: a
\* handler past the count takes up a slot already.
PastCount == {h \in Handlers : job[h] # Free /\ job[h].at \in {"count_completed", "insert_pending"}}

Slots ==
  Cardinality(Live(pending)) + Cardinality(PastCount)
    <= MaxPending - 1 + Cardinality(Handlers)

\* The sets that are counted are finite.
LEMMA SlotsFinite ==
  ASSUME TypeOK
  PROVE  /\ IsFiniteSet(Live(pending)) /\ IsFiniteSet(PastCount)
         /\ Cardinality(PastCount) <= Cardinality(Handlers)
         /\ {Cardinality(Live(pending)), Cardinality(PastCount),
              Cardinality(Handlers)} \subseteq Nat
<1>1. Live(pending) \subseteq Requests /\ PastCount \subseteq Handlers
  BY StoredFields DEF PastCount
<1> QED
  BY <1>1, FlowFiniteness, FS_Subset, FS_CardinalityType

\* A step that begins no request and lets no handler past the count.
LEMMA SlotsKept ==
  ASSUME TypeOK, TypeOK', Slots,
         Live(pending)' \subseteq Live(pending), PastCount' \subseteq PastCount
  PROVE  Slots'
<1>1. Cardinality(Live(pending)') <= Cardinality(Live(pending))
      /\ Cardinality(PastCount') <= Cardinality(PastCount)
  BY SlotsFinite, FS_Subset
<1>2. {Cardinality(Live(pending)'), Cardinality(PastCount')} \subseteq Nat
  BY SlotsFinite, FS_Subset, FS_CardinalityType
<1> QED
  BY <1>1, <1>2, SlotsFinite, FlowConstants DEF Slots

\* One insertion adds at most one entry.
LEMMA OneMore ==
  ASSUME NEW S, IsFiniteSet(S), NEW x, NEW T, T \subseteq S \cup {x}
  PROVE  Cardinality(T) \in 0..(Cardinality(S) + 1)
<1>1. Cardinality(S) \in Nat
  BY FS_CardinalityType
<1>2. IsFiniteSet(S \cup {x}) /\ Cardinality(S \cup {x}) <= Cardinality(S) + 1
  BY <1>1, FS_AddElement
<1>3. IsFiniteSet(T) /\ Cardinality(T) <= Cardinality(S \cup {x})
  BY <1>2, FS_Subset
<1> QED
  BY <1>1, <1>2, <1>3, FS_CardinalityType

\* Only the two counts take a handler past the first of them.
LEMMA PastStep ==
  ASSUME TypeOK, TypeOK', FlowInv, [Next]_vars
  PROVE  \/ PastCount' \subseteq PastCount
         \/ \E h \in Handlers : CountPending(h) /\ Cardinality(Live(pending)) < MaxPending
<1>1. ASSUME NEW h \in Handlers,
             h \in PastCount' => h \in PastCount,
             \A g \in Handlers \ {h} : job'[g] = job[g]
      PROVE  PastCount' \subseteq PastCount
  BY <1>1 DEF PastCount
<1>2. ASSUME NEW h \in Handlers, Goto(h, "count_completed") \/ Goto(h, "insert_pending"),
             At(h, "count_completed")
      PROVE  PastCount' \subseteq PastCount
  BY <1>2 DEF PastCount, At, Goto, TypeOK
<1>3. ASSUME NEW h \in Handlers, HandlerStep(h),
             ~(CountPending(h) /\ Cardinality(Live(pending)) < MaxPending)
      PROVE  PastCount' \subseteq PastCount
  <2>0. job[h] \in Job /\ job[h] # Free /\ \A g \in Handlers \ {h} : job'[g] = job[g]
    BY <1>3, HandlerJob DEF TypeOK
  <2>1. CASE CountCompleted(h)
    <3>1. At(h, "count_completed")
      BY <2>1 DEF CountCompleted
    <3> QED
      BY <1>1, <2>0, <3>1 DEF PastCount, At
  <2>2. CASE Finish(h)
    BY <1>1, <2>0, <2>2 DEF Finish, PastCount, TypeOK
  <2>3. CASE CountPending(h) /\ ~Finish(h)
    <3>1. ~(Cardinality(Live(pending)) >= MaxPending)
      BY <2>3 DEF CountPending
    <3>2. Cardinality(Live(pending)) < MaxPending
      BY <3>1, SlotsFinite, FlowConstants
    <3> QED
      BY <1>3, <2>3, <3>2
  <2>4. CASE ~CountPending(h) /\ ~CountCompleted(h) /\ ~Finish(h)
    <3>1. ASSUME NEW step \in Steps \ {"count_completed", "insert_pending"}, Goto(h, step)
          PROVE  job'[h].at \notin {"count_completed", "insert_pending"}
      BY <2>0, <3>1 DEF Goto, TypeOK, Job
    <3>2. ASSUME SweepFailures(h) \/ \E r \in Requests : InsertPending(h, r)
          PROVE  job'[h].at \notin {"count_completed", "insert_pending"}
      <4>1. job'[h].at \in {"count_pending", "check_failures"}
            \/ job'[h].at \in {"fetch", "render"}
        <5>1. CASE SweepFailures(h)
          BY <2>0, <5>1 DEF SweepFailures, TypeOK, Job
        <5>2. ASSUME NEW r \in Requests, InsertPending(h, r)
              PROVE  job'[h].at \in {"fetch", "render"}
          BY <2>0, <5>2 DEF InsertPending, TypeOK, Job
        <5> QED
          BY <3>2, <5>1, <5>2
      <4> QED
        BY <4>1
    <3>3. ASSUME FetchSession(h) \/ ClearFailures(h) \/ \E c \in Codes : InsertCode(h, c)
          PROVE  job'[h].at \notin {"count_completed", "insert_pending"}
      BY <2>0, <2>4, <3>3 DEF FetchSession, ClearFailures, InsertCode, TypeOK, Job
    <3>4. job'[h].at \notin {"count_completed", "insert_pending"}
      BY <1>3, <2>4, <3>1, <3>2, <3>3 DEF HandlerStep, SweepPending, SweepCompleted,
         SweepCodes, BindConsent, RenderPage, CheckFailures, Authenticate,
         RecordFailure, InsertCompleted, RemovePending, Answer, Steps
    <3> QED
      BY <1>1, <2>0, <3>4 DEF PastCount
  <2> QED
    BY <2>1, <2>2, <2>3, <2>4
<1>4. ASSUME NEW h \in Handlers, BeginStep(h)
      PROVE  PastCount' \subseteq PastCount
  <2>1. job'[h].at \in {"sweep_pending", "fetch"}
    BY <1>4 DEF BeginStep, BeginAuthorize, BeginResume, BeginComplete, TypeOK
  <2> QED
    BY <1>1, <1>4, <2>1, BeginFacts DEF PastCount
<1>5. ASSUME NEW h \in Handlers, Disconnect(h)
      PROVE  PastCount' \subseteq PastCount
  BY <1>5 DEF Disconnect, Finish, PastCount, TypeOK
<1>6. CASE ~\E h \in Handlers : HandlerStep(h) \/ BeginStep(h) \/ Disconnect(h)
  <2>1. job' = job
    BY <1>6 DEF Next, NextConnected, RegisterClient, DropExpired, Replay, TakeCode,
       SwitchAccount, Tick, vars
  <2> QED
    BY <2>1 DEF PastCount
<1> QED
  BY <1>3, <1>4, <1>5, <1>6

\* Only InsertPending makes a request pending.
LEMMA LiveStep ==
  ASSUME TypeOK, TypeOK', FlowInv, [Next]_vars
  PROVE  \/ Live(pending)' \subseteq Live(pending)
         \/ \E h \in Handlers, r \in Requests : InsertPending(h, r)
<1> USE DEF store
<1>1. ASSUME NEW h \in Handlers, HandlerStep(h),
             ~\E r \in Requests : InsertPending(h, r)
      PROVE  Live(pending)' \subseteq Live(pending)
  <2>1. CASE SweepPending(h)
    <3>0. pending \in [Requests -> Pending \cup {Fresh, Gone}]
      BY DEF TypeOK
    <3>1. \A r \in Requests : pending'[r] \in {pending[r], Gone}
      BY <2>1, <3>0, RetainFacts DEF SweepPending
    <3> QED
      BY <3>1 DEF Live, TypeOK
  <2>2. CASE BindConsent(h)
    BY <2>2 DEF BindConsent, Live, TypeOK
  <2>3. CASE RemovePending(h)
    BY <2>3 DEF RemovePending, Live, TypeOK
  <2>4. CASE ~SweepPending(h) /\ ~BindConsent(h) /\ ~RemovePending(h)
    <3>1. pending' = pending
      BY <1>1, <2>4 DEF HandlerStep, SweepCompleted, SweepCodes, SweepFailures,
         CountPending, CountCompleted, FetchSession, RenderPage, CheckFailures,
         Authenticate, RecordFailure, ClearFailures, InsertCode, InsertCompleted,
         Answer
    <3> QED
      BY <3>1 DEF Live
  <2> QED
    BY <2>1, <2>2, <2>3, <2>4
<1>2. ASSUME NEW r \in Requests, DropExpired(r)
      PROVE  Live(pending)' \subseteq Live(pending)
  BY <1>2 DEF DropExpired, Live, TypeOK
<1>3. CASE ~\/ \E h \in Handlers : HandlerStep(h)
            \/ \E r \in Requests : DropExpired(r)
  <2>1. pending' = pending
    BY <1>3, BeginFacts DEF Next, NextConnected, RegisterClient, Replay, TakeCode,
       SwitchAccount, Tick, Disconnect, vars
  <2> QED
    BY <2>1 DEF Live
<1> QED
  BY <1>1, <1>2, <1>3

\* A handler that inserts gives up the slot it took when it counted.
LEMMA SlotStep ==
  ASSUME TypeOK, TypeOK', FlowInv, [Next]_vars, Slots
  PROVE  Slots'
<1>1. ASSUME NEW h \in Handlers, CountPending(h), Cardinality(Live(pending)) < MaxPending
      PROVE  Slots'
  <2>1. pending' = pending
    BY <1>1 DEF CountPending, store
  <2>2. PastCount' \subseteq Handlers /\ IsFiniteSet(Handlers)
    BY FlowFiniteness DEF PastCount
  <2>3. Cardinality(PastCount') \in 0..Cardinality(Handlers)
    BY <2>2, FS_Subset, FS_CardinalityType
  <2>4. Cardinality(Live(pending)') = Cardinality(Live(pending))
    BY <2>1
  <2> QED
    BY <1>1, <2>3, <2>4, SlotsFinite, FlowConstants DEF Slots
<1>2. ASSUME NEW h \in Handlers, NEW r \in Requests, InsertPending(h, r)
      PROVE  Slots'
  <2>1. Live(pending)' \subseteq Live(pending) \cup {r}
    BY <1>2 DEF InsertPending, Live, TypeOK
  <2>2. /\ h \in PastCount
        /\ job' = [job EXCEPT ![h].at = IF Native THEN "fetch" ELSE "render",
                              ![h].request = r, ![h].expires = 0]
    BY <1>2 DEF InsertPending, At, PastCount
  <2>3. job[h] \in Job
    BY <2>2 DEF PastCount, TypeOK
  <2>4. job'[h].at \in {"fetch", "render"} /\ \A g \in Handlers \ {h} : job'[g] = job[g]
    BY <2>2, <2>3 DEF TypeOK, Job
  <2>5. PastCount' = PastCount \ {h}
    BY <2>4 DEF PastCount
  <2>6. Cardinality(Live(pending)') \in 0..(Cardinality(Live(pending)) + 1)
    BY <2>1, SlotsFinite, OneMore
  <2>7. Cardinality(PastCount') = Cardinality(PastCount) - 1
    BY <2>2, <2>5, SlotsFinite, FS_RemoveElement
  <2> QED
    BY <2>6, <2>7, SlotsFinite, FlowConstants DEF Slots
<1> QED
  BY <1>1, <1>2, PastStep, LiveStep, SlotsKept

\* The cap on pending requests can be passed, by at most one less than there
\* are requests in progress.
THEOREM Capacity == Spec => []PendingCapacity
<1>1. Init => Slots
  <2> SUFFICES ASSUME Init
               PROVE  Slots
    OBVIOUS
  <2>1. Live(pending) = {} /\ PastCount = {}
    BY DEF Init, Live, PastCount
  <2> QED
    BY <2>1, TypeInit, SlotsFinite, FS_EmptySet, FlowConstants DEF Slots
<1>2. TypeOK /\ FlowInv /\ TypeOK' /\ [Next]_vars /\ Slots => Slots'
  <2> SUFFICES ASSUME TypeOK, FlowInv, TypeOK', [Next]_vars, Slots
               PROVE  Slots'
    OBVIOUS
  <2> QED
    BY SlotStep
<1>3. TypeOK /\ Slots => PendingCapacity
  BY SlotsFinite, FlowConstants DEF Slots, PendingCapacity
<1> QED
  BY <1>1, <1>2, <1>3, FlowInvariant, PTL DEF Spec

-----------------------------------------------------------------------------
\* Why the throttle holds up to the attempts in progress: an attempt that was let
\* through counts as a failure already.
Attempts(s) ==
  {h \in Handlers : /\ job[h] # Free
                    /\ job[h].at \in {"authenticate", "record_failure"}
                    /\ job[h].session = s}

ThrottleInv ==
  \A s \in Sessions :
    Len(failures[s]) + Cardinality(Attempts(s))
      <= MaxFailures - 1 + Cardinality(Handlers)

\* Attempts are finitely many, failures are counted.
LEMMA AttemptsFinite ==
  ASSUME TypeOK, NEW s \in Sessions
  PROVE  /\ IsFiniteSet(Attempts(s)) /\ Cardinality(Attempts(s)) \in Nat
         /\ Cardinality(Attempts(s)) <= Cardinality(Handlers)
         /\ Cardinality(Handlers) \in Nat
         /\ failures[s] \in Seq(Int) /\ Len(failures[s]) \in Nat
<1>1. Attempts(s) \in SUBSET Handlers
  BY DEF Attempts
<1>2. IsFiniteSet(Attempts(s)) /\ Cardinality(Attempts(s)) <= Cardinality(Handlers)
  BY <1>1, FlowFiniteness, FS_Subset
<1>3. Cardinality(Attempts(s)) \in Nat /\ Cardinality(Handlers) \in Nat
  BY <1>2, FlowFiniteness, FS_CardinalityType
<1>4. failures[s] \in Seq(Int)
  BY DEF TypeOK
<1>5. Len(failures[s]) \in Nat
  BY <1>4
<1> QED
  BY <1>2, <1>3, <1>4, <1>5

\* No step adds a failure but RecordFailure.
LEMMA FailuresStep ==
  ASSUME TypeOK, FlowInv, [Next]_vars, NEW s \in Sessions
  PROVE  \/ Len(failures'[s]) <= Len(failures[s])
         \/ \E h \in Handlers : RecordFailure(h) /\ job[h].session = s
<1>0. failures \in [Sessions -> Seq(Int)] /\ Len(failures[s]) \in Nat
  BY AttemptsFinite DEF TypeOK
<1>1. ASSUME NEW h \in Handlers, SweepFailures(h)
      PROVE  Len(failures'[s]) <= Len(failures[s])
  <2>1. failures'[s] = Recent(failures[s], job[h].asOf)
    BY <1>1 DEF SweepFailures
  <2> QED
    BY <1>0, <2>1, RecentType
<1>2. ASSUME NEW h \in Handlers, RecordFailure(h), job[h].session # s
      PROVE  Len(failures'[s]) <= Len(failures[s])
  BY <1>0, <1>2 DEF RecordFailure
<1>3. ASSUME NEW h \in Handlers, ClearFailures(h)
      PROVE  Len(failures'[s]) <= Len(failures[s])
  <2>1. failures'[s] \in {failures[s], <<>>}
    BY <1>0, <1>3 DEF ClearFailures
  <2> QED
    BY <1>0, <2>1
<1>4. CASE ~\E h \in Handlers : SweepFailures(h) \/ RecordFailure(h) \/ ClearFailures(h)
  <2>1. failures' = failures
    BY <1>4, BeginFacts DEF Next, NextConnected, HandlerStep, SweepPending,
       SweepCompleted, SweepCodes, CountPending, CountCompleted, InsertPending,
       FetchSession, BindConsent, RenderPage, CheckFailures, Authenticate,
       InsertCode, InsertCompleted, RemovePending, Answer, RegisterClient,
       DropExpired, Replay, TakeCode, SwitchAccount, Tick, Disconnect, store, vars
  <2> QED
    BY <1>0, <2>1
<1> QED
  BY <1>1, <1>2, <1>3, <1>4

\* No step lets an attempt through but CheckFailures.
LEMMA AttemptsStep ==
  ASSUME TypeOK, TypeOK', FlowInv, [Next]_vars, NEW s \in Sessions
  PROVE  \/ Attempts(s)' \subseteq Attempts(s)
         \/ \E h \in Handlers :
              CheckFailures(h) /\ job[h].session = s /\ Len(failures[s]) < MaxFailures
<1>1. ASSUME NEW h \in Handlers,
             h \in Attempts(s)' => h \in Attempts(s),
             \A g \in Handlers \ {h} : job'[g] = job[g]
      PROVE  Attempts(s)' \subseteq Attempts(s)
  BY <1>1 DEF Attempts
<1>2. ASSUME NEW h \in Handlers, HandlerStep(h),
             ~(CheckFailures(h) /\ job[h].session = s /\ Len(failures[s]) < MaxFailures)
      PROVE  Attempts(s)' \subseteq Attempts(s)
  <2>0. job[h] \in Job /\ job[h] # Free /\ \A g \in Handlers \ {h} : job'[g] = job[g]
    BY <1>2, HandlerJob DEF TypeOK
  <2>1. CASE Finish(h)
    BY <1>1, <2>0, <2>1 DEF Finish, Attempts, TypeOK
  <2>2. CASE Authenticate(h)
    <3>1. PICK step \in {"clear_failures", "record_failure"} : Goto(h, step)
      BY <2>2 DEF Authenticate
    <3>2. step \in Steps /\ At(h, "authenticate")
      BY <2>2 DEF Authenticate, Steps
    <3>3. job'[h].session = job[h].session /\ job[h].at = "authenticate"
      BY <2>0, <3>1, <3>2, GotoFacts DEF At, Job
    <3> QED
      BY <1>1, <2>0, <3>3 DEF Attempts
  <2>3. CASE CheckFailures(h) /\ ~Finish(h)
    <3>1. Goto(h, "authenticate") /\ ~(Len(failures[job[h].session]) >= MaxFailures)
      BY <2>3 DEF CheckFailures
    <3>2. job'[h].session = job[h].session
      <4>1. job'[h] = [job[h] EXCEPT !.at = "authenticate"]
        BY <2>0, <3>1, GotoFacts DEF Steps
      <4> QED
        BY <2>0, <4>1 DEF Job
    <3>3. job[h].session # s
      BY <1>2, <2>3, <3>1, AttemptsFinite, FlowConstants
    <3> QED
      BY <1>1, <2>0, <3>2, <3>3 DEF Attempts
  <2>4. CASE ~CheckFailures(h) /\ ~Authenticate(h) /\ ~Finish(h)
    <3>1. ASSUME NEW step \in Steps \ {"authenticate", "record_failure"}, Goto(h, step)
          PROVE  job'[h].at \notin {"authenticate", "record_failure"}
      BY <2>0, <3>1 DEF Goto, TypeOK, Job
    <3>2. ASSUME SweepFailures(h)
          PROVE  job'[h].at \notin {"authenticate", "record_failure"}
      BY <2>0, <3>2 DEF SweepFailures, TypeOK, Job
    <3>3. ASSUME NEW r \in Requests, InsertPending(h, r)
          PROVE  job'[h].at \notin {"authenticate", "record_failure"}
      BY <2>0, <3>3 DEF InsertPending, TypeOK, Job
    <3>4. ASSUME FetchSession(h) \/ ClearFailures(h) \/ \E c \in Codes : InsertCode(h, c)
          PROVE  job'[h].at \notin {"authenticate", "record_failure"}
      BY <2>0, <2>4, <3>4 DEF FetchSession, ClearFailures, InsertCode, TypeOK, Job
    <3>5. job'[h].at \notin {"authenticate", "record_failure"}
      BY <1>2, <2>4, <3>1, <3>2, <3>3, <3>4 DEF HandlerStep, SweepPending,
         SweepCompleted, SweepCodes, CountPending, CountCompleted, BindConsent,
         RenderPage, RecordFailure, InsertCompleted, RemovePending, Answer, Steps
    <3> QED
      BY <1>1, <2>0, <3>5 DEF Attempts
  <2> QED
    BY <2>1, <2>2, <2>3, <2>4
<1>3. ASSUME NEW h \in Handlers, BeginStep(h)
      PROVE  Attempts(s)' \subseteq Attempts(s)
  <2>1. job'[h].at \in {"sweep_pending", "fetch"}
    BY <1>3 DEF BeginStep, BeginAuthorize, BeginResume, BeginComplete, TypeOK
  <2> QED
    BY <1>1, <1>3, <2>1, BeginFacts DEF Attempts
<1>4. ASSUME NEW h \in Handlers, Disconnect(h)
      PROVE  Attempts(s)' \subseteq Attempts(s)
  BY <1>4 DEF Disconnect, Finish, Attempts, TypeOK
<1>5. CASE ~\E h \in Handlers : HandlerStep(h) \/ BeginStep(h) \/ Disconnect(h)
  <2>1. job' = job
    BY <1>5 DEF Next, NextConnected, RegisterClient, DropExpired, Replay, TakeCode,
       SwitchAccount, Tick, vars
  <2> QED
    BY <2>1 DEF Attempts
<1> QED
  BY <1>2, <1>3, <1>4, <1>5

\* An attempt is let through only while there are fewer failures than the
\* throttle allows, and gives up its place when it is recorded.
LEMMA ThrottleStep ==
  ASSUME TypeOK, TypeOK', FlowInv, [Next]_vars, ThrottleInv
  PROVE  ThrottleInv'
<1> SUFFICES ASSUME NEW s \in Sessions
             PROVE  Len(failures'[s]) + Cardinality(Attempts(s)')
                      <= MaxFailures - 1 + Cardinality(Handlers)
  BY DEF ThrottleInv
<1>0. /\ IsFiniteSet(Attempts(s)) /\ Cardinality(Attempts(s)) \in Nat
      /\ Cardinality(Attempts(s)') \in Nat
      /\ Cardinality(Attempts(s)') <= Cardinality(Handlers)
      /\ Cardinality(Handlers) \in Nat /\ MaxFailures \in Nat \ {0}
      /\ Len(failures[s]) \in Nat /\ Len(failures'[s]) \in Nat
      /\ Len(failures[s]) + Cardinality(Attempts(s))
           <= MaxFailures - 1 + Cardinality(Handlers)
  <2>1. Attempts(s)' \in SUBSET Handlers /\ failures'[s] \in Seq(Int)
    BY DEF Attempts, TypeOK
  <2>2. /\ IsFiniteSet(Attempts(s)')
        /\ Cardinality(Attempts(s)') <= Cardinality(Handlers)
    BY <2>1, FlowFiniteness, FS_Subset
  <2>3. Cardinality(Attempts(s)') \in Nat
    BY <2>2, FS_CardinalityType
  <2>4. Len(failures'[s]) \in Nat
    BY <2>1
  <2> QED
    BY <2>2, <2>3, <2>4, AttemptsFinite, FlowConstants DEF ThrottleInv
<1>1. ASSUME NEW h \in Handlers, CheckFailures(h), Len(failures[s]) < MaxFailures
      PROVE  Len(failures'[s]) + Cardinality(Attempts(s)')
               <= MaxFailures - 1 + Cardinality(Handlers)
  <2>1. failures' = failures
    BY <1>1 DEF CheckFailures, store
  <2> QED
    BY <1>0, <1>1, <2>1
<1>2. ASSUME NEW h \in Handlers, RecordFailure(h), job[h].session = s
      PROVE  Len(failures'[s]) + Cardinality(Attempts(s)')
               <= MaxFailures - 1 + Cardinality(Handlers)
  <2>1. failures'[s] = Append(failures[s], now) /\ failures[s] \in Seq(Int)
    BY <1>2 DEF RecordFailure, TypeOK
  <2>2. Len(failures'[s]) = Len(failures[s]) + 1
    BY <2>1
  <2>3. h \in Attempts(s) /\ Attempts(s)' = Attempts(s) \ {h}
    BY <1>2 DEF RecordFailure, At, Finish, Attempts, TypeOK
  <2>4. Cardinality(Attempts(s)') = Cardinality(Attempts(s)) - 1
    BY <1>0, <2>3, FS_RemoveElement
  <2> QED
    BY <1>0, <2>2, <2>4
<1>3. CASE Attempts(s)' \subseteq Attempts(s) /\ Len(failures'[s]) <= Len(failures[s])
  <2>1. Attempts(s)' \in SUBSET Attempts(s)
    BY <1>3
  <2>2. Cardinality(Attempts(s)') <= Cardinality(Attempts(s))
    BY <1>0, <2>1, FS_Subset
  <2> QED
    BY <1>0, <1>3, <2>2
<1> QED
  BY <1>1, <1>2, <1>3, AttemptsStep, FailuresStep

\* The failures that count against an account exceed those the throttle allows
\* by fewer than there are requests in progress.
THEOREM Lockout == Spec => []LockoutBound
<1>1. Init => ThrottleInv
  <2> SUFFICES ASSUME Init, NEW s \in Sessions
               PROVE  Len(failures[s]) + Cardinality(Attempts(s))
                        <= MaxFailures - 1 + Cardinality(Handlers)
    BY DEF ThrottleInv
  <2>1. Attempts(s) = {} /\ failures[s] = <<>>
    BY DEF Init, Attempts
  <2> QED
    BY <2>1, TypeInit, AttemptsFinite, FS_EmptySet, FlowConstants
<1>2. TypeOK /\ FlowInv /\ TypeOK' /\ [Next]_vars /\ ThrottleInv => ThrottleInv'
  <2> SUFFICES ASSUME TypeOK, FlowInv, TypeOK', [Next]_vars, ThrottleInv
               PROVE  ThrottleInv'
    OBVIOUS
  <2> QED
    BY ThrottleStep
<1>3. TypeOK /\ ThrottleInv => LockoutBound
  <2> SUFFICES ASSUME TypeOK, ThrottleInv, NEW s \in Sessions
               PROVE  Len(Recent(failures[s], now)) <= MaxFailures - 1 + Cardinality(Handlers)
    BY DEF LockoutBound
  <2>1. /\ Recent(failures[s], now) \in Seq(Int)
        /\ Len(Recent(failures[s], now)) <= Len(failures[s])
    BY AttemptsFinite, RecentType
  <2>2. Len(Recent(failures[s], now)) \in Nat
    BY <2>1
  <2>3. Len(failures[s]) + Cardinality(Attempts(s)) <= MaxFailures - 1 + Cardinality(Handlers)
    BY DEF ThrottleInv
  <2> HIDE DEF Recent
  <2> QED
    BY <2>1, <2>2, <2>3, AttemptsFinite, FlowConstants
<1> QED
  BY <1>1, <1>2, <1>3, FlowInvariant, PTL DEF Spec

-----------------------------------------------------------------------------
\* The code map.

\* A request sweeps, and stores a code, with a clock reading of the past.
ReadingInv(h) ==
  job[h] # Free =>
    /\ 0 <= job[h].asOf /\ job[h].asOf <= now
    /\ job[h].at = "insert_code" =>
         CodeTtl <= job[h].expires /\ job[h].expires <= now + CodeTtl

\* The clock only advances, one by one.
LEMMA ClockStep == TypeOK /\ FlowInv /\ [Next]_vars => now' \in {now, now + 1}
BY BeginFacts DEF Next, NextConnected, HandlerStep, SweepPending, SweepCompleted,
   SweepCodes, SweepFailures, CountPending, CountCompleted, InsertPending,
   FetchSession, BindConsent, RenderPage, CheckFailures, Authenticate,
   RecordFailure, ClearFailures, InsertCode, InsertCompleted, RemovePending,
   Answer, RegisterClient, DropExpired, Replay, TakeCode, SwitchAccount, Tick,
   Disconnect, vars

\* Every step keeps its readings: they are made of the present time.
LEMMA ReadingStep ==
  ASSUME TypeOK, FlowInv, [Next]_vars, NEW g \in Handlers, ReadingInv(g)
  PROVE  ReadingInv(g)'
<1>0. now \in Nat /\ now' \in {now, now + 1} /\ CodeTtl \in Nat
  BY ClockStep, FlowConstants DEF TypeOK
<1>1. CASE job'[g] \in {job[g], Free}
  <2>1. job[g] # Free => job[g].asOf \in Int /\ job[g].expires \in Int
    BY JobFields
  <2> QED
    BY <1>0, <1>1, <2>1 DEF ReadingInv
<1>2. ASSUME BeginStep(g)
      PROVE  ReadingInv(g)'
  <2>1. job'[g].asOf \in {0, now} /\ job'[g].at # "insert_code"
    BY <1>2 DEF BeginStep, BeginAuthorize, BeginResume, BeginComplete, TypeOK
  <2> QED
    BY <1>0, <2>1 DEF ReadingInv
<1>3. ASSUME HandlerStep(g)
      PROVE  ReadingInv(g)'
  <2> PICK j : j = job[g]
    OBVIOUS
  <2>0. j # Free /\ j \in Job /\ j.asOf \in Int /\ j.expires \in Int
        /\ 0 <= j.asOf /\ j.asOf <= now
    BY <1>3, HandlerJob, JobFields DEF ReadingInv
  <2>1. CASE ClearFailures(g) \/ FetchSession(g)
    <3>1. \/ job'[g] = Free
          \/ job'[g].asOf = j.asOf
             /\ (job'[g].at = "insert_code" => job'[g].expires = now + CodeTtl)
      BY <2>0, <2>1 DEF ClearFailures, FetchSession, Finish, TypeOK, Job
    <3> QED
      BY <1>0, <2>0, <3>1 DEF ReadingInv
  <2>2. CASE SweepFailures(g) \/ (\E r \in Requests : InsertPending(g, r))
             \/ (\E c \in Codes : InsertCode(g, c))
    <3>1. CASE SweepFailures(g)
      <4>1. \E step \in {"count_pending", "check_failures"} :
              job' = [job EXCEPT ![g].at = step, ![g].asOf = 0]
        BY <3>1 DEF SweepFailures
      <4> QED
        BY <1>0, <2>0, <4>1 DEF ReadingInv, TypeOK, Job
    <3>2. ASSUME NEW r \in Requests, InsertPending(g, r)
          PROVE  ReadingInv(g)'
      <4>1. \E step \in {"fetch", "render"} :
              job' = [job EXCEPT ![g].at = step, ![g].request = r, ![g].expires = 0]
        BY <3>2 DEF InsertPending
      <4> QED
        BY <1>0, <2>0, <4>1 DEF ReadingInv, TypeOK, Job
    <3>3. ASSUME NEW c \in Codes, InsertCode(g, c)
          PROVE  ReadingInv(g)'
      <4>1. job' = [job EXCEPT ![g].at = "insert_completed", ![g].code = c]
        BY <3>3 DEF InsertCode
      <4> QED
        BY <1>0, <2>0, <4>1 DEF ReadingInv, TypeOK, Job
    <3> QED
      BY <2>2, <3>1, <3>2, <3>3
  <2>3. CASE \/ SweepPending(g) \/ SweepCompleted(g) \/ SweepCodes(g)
             \/ CountPending(g) \/ CountCompleted(g) \/ BindConsent(g)
             \/ RenderPage(g) \/ CheckFailures(g) \/ Authenticate(g)
             \/ RecordFailure(g) \/ InsertCompleted(g) \/ RemovePending(g)
             \/ Answer(g)
    <3>1. Finish(g) \/ \E step \in Steps \ {"insert_code"} : Goto(g, step)
      BY <2>3 DEF SweepPending, SweepCompleted, SweepCodes, CountPending,
         CountCompleted, BindConsent, RenderPage, CheckFailures, Authenticate,
         RecordFailure, InsertCompleted, RemovePending, Answer, Steps
    <3>2. CASE Finish(g)
      BY <1>1, <3>2 DEF Finish, TypeOK
    <3>3. ASSUME NEW step \in Steps \ {"insert_code"}, Goto(g, step)
          PROVE  ReadingInv(g)'
      <4>1. job'[g] = [j EXCEPT !.at = step]
        BY <2>0, <3>3, GotoFacts
      <4>2. job'[g].asOf = j.asOf /\ job'[g].at # "insert_code"
        BY <2>0, <4>1 DEF Job
      <4> QED
        BY <1>0, <2>0, <4>2 DEF ReadingInv
    <3> QED
      BY <3>1, <3>2, <3>3
  <2> QED
    BY <1>3, <2>1, <2>2, <2>3 DEF HandlerStep
<1>4. ASSUME NEW h \in Handlers \ {g}, BeginStep(h) \/ HandlerStep(h)
      PROVE  ReadingInv(g)'
  BY <1>1, <1>4, BeginFacts, HandlerJob
<1>5. CASE ~\E h \in Handlers : BeginStep(h) \/ HandlerStep(h)
  <2>1. job'[g] \in {job[g], Free}
    BY <1>5 DEF Next, NextConnected, RegisterClient, DropExpired, Replay, TakeCode,
       SwitchAccount, Tick, Disconnect, Finish, vars, TypeOK
  <2> QED
    BY <1>1, <2>1
<1> QED
  BY <1>2, <1>3, <1>4, <1>5

\* What the authorization endpoints and their surroundings do to the codes.
LEMMA CodesStep ==
  ASSUME TypeOK, FlowInv, [Next]_vars, \A h \in Handlers : ReadingInv(h)
  PROVE  \/ \E c \in Codes, client \in Clients, s \in Sessions, t \in 0..now :
              /\ codes[c] = Fresh /\ now' = now
              /\ codes' = [codes EXCEPT ![c] =
                   [client |-> client, session |-> s, expires |-> t + CodeTtl]]
         \/ \E c \in Live(codes) : codes' = [codes EXCEPT ![c] = Gone] /\ now' = now
         \/ \E t \in 0..now : codes' = Retain(codes, t) /\ now' = now
         \/ codes' = codes /\ now' \in {now, now + 1}
<1>0. now \in Nat /\ CodeTtl \in Nat
  BY FlowConstants DEF TypeOK
<1>1. ASSUME NEW h \in Handlers, NEW c \in Codes, InsertCode(h, c)
      PROVE  \E client \in Clients, s \in Sessions, t \in 0..now :
               /\ codes[c] = Fresh /\ now' = now
               /\ codes' = [codes EXCEPT ![c] =
                    [client |-> client, session |-> s, expires |-> t + CodeTtl]]
  <2>1. job[h] # Free /\ job[h].at = "insert_code" /\ codes[c] = Fresh /\ now' = now
        /\ codes' = [codes EXCEPT ![c] =
             [client |-> job[h].client, session |-> job[h].session,
              expires |-> job[h].expires]]
    BY <1>1 DEF InsertCode, At
  <2>2. job[h].client \in Clients /\ job[h].session \in Sessions /\ job[h].expires \in Int
    BY <2>1, JobFields DEF FlowInv, JobInv, Storing, SessionOrNone
  <2>3. CodeTtl <= job[h].expires /\ job[h].expires <= now + CodeTtl
    BY <2>1 DEF ReadingInv
  <2>4. PICK t \in 0..now : job[h].expires = t + CodeTtl
    <3>1. /\ job[h].expires - CodeTtl \in 0..now
          /\ job[h].expires = (job[h].expires - CodeTtl) + CodeTtl
      BY <1>0, <2>2, <2>3
    <3> QED
      BY <3>1
  <2> QED
    BY <2>1, <2>2, <2>4
<1>2. ASSUME NEW h \in Handlers, SweepCodes(h)
      PROVE  \E t \in 0..now : codes' = Retain(codes, t) /\ now' = now
  <2>1. job[h] # Free /\ codes' = Retain(codes, job[h].asOf) /\ now' = now
    BY <1>2 DEF SweepCodes, At
  <2>2. job[h].asOf \in 0..now
    BY <1>0, <2>1, JobFields DEF ReadingInv
  <2> QED
    BY <2>1, <2>2
<1>3. ASSUME NEW c \in Codes, TakeCode(c)
      PROVE  c \in Live(codes) /\ codes' = [codes EXCEPT ![c] = Gone] /\ now' = now
  BY <1>3 DEF TakeCode
<1>4. CASE ~\/ \E h \in Handlers : SweepCodes(h) \/ \E c \in Codes : InsertCode(h, c)
            \/ \E c \in Codes : TakeCode(c)
  <2>1. codes' = codes
    BY <1>4, BeginFacts DEF Next, NextConnected, HandlerStep, SweepPending,
       SweepCompleted, SweepFailures, CountPending, CountCompleted, InsertPending,
       FetchSession, BindConsent, RenderPage, CheckFailures, Authenticate,
       RecordFailure, ClearFailures, InsertCompleted, RemovePending, Answer,
       RegisterClient, DropExpired, Replay, SwitchAccount, Tick, Disconnect, store, vars
  <2> QED
    BY <2>1, ClockStep
<1> QED
  BY <1>1, <1>2, <1>3, <1>4

\* Codes that end together, as the code map sees it.
LEMMA CodesEnd ==
  ASSUME TypeOK, NEW S \in SUBSET Live(codes), now' = now,
         codes' = [c \in Codes |-> IF c \in S THEN Gone ELSE codes[c]]
  PROVE  CodeMap!End(S)
<1>1. \A c \in S : c \in Codes /\ codes[c] \notin {Fresh, Gone}
  BY DEF Live, TypeOK
<1>2. codeStatus' = [c \in Codes |-> IF c \in S THEN "gone" ELSE codeStatus[c]]
  BY <1>1, FlowSentinels DEF codeStatus
<1>3. codeGrant' = [c \in Codes |-> IF c \in S THEN <<>> ELSE codeGrant[c]]
  BY <1>1, FlowSentinels DEF codeGrant
<1> QED
  BY <1>2, <1>3 DEF CodeMap!End

\* A live code's status and grant.
LEMMA LiveCode ==
  ASSUME TypeOK, NEW c \in Codes
  PROVE  /\ codeStatus[c] = "live" <=> c \in Live(codes)
         /\ c \in Live(codes) => codeGrant[c].expires = codes[c].expires
BY DEF codeStatus, codeGrant, Live, TypeOK

\* Every step is one of the code map's or leaves it as it is.
LEMMA CodeMapStep ==
  TypeOK /\ TypeOK' /\ FlowInv /\ [Next]_vars /\ (\A h \in Handlers : ReadingInv(h))
    => [CodeMap!Next]_(CodeMap!vars)
<1> SUFFICES ASSUME TypeOK, TypeOK', FlowInv, [Next]_vars,
                    \A h \in Handlers : ReadingInv(h)
             PROVE  CodeMap!Next \/ UNCHANGED CodeMap!vars
  OBVIOUS
<1>1. ASSUME NEW c \in Codes, NEW client \in Clients, NEW s \in Sessions, NEW t \in 0..now,
             codes[c] = Fresh, now' = now,
             codes' = [codes EXCEPT ![c] =
               [client |-> client, session |-> s, expires |-> t + CodeTtl]]
      PROVE  CodeMap!Next
  <2> DEFINE a == <<client, s>>
             entry == [client |-> client, session |-> s, expires |-> t + CodeTtl]
  <2>1. codes'[c] = entry /\ codes'[c] \notin {Fresh, Gone}
        /\ \A d \in Codes \ {c} : codes'[d] = codes[d]
    <3>1. t + CodeTtl \in Int
      BY FlowConstants DEF TypeOK
    <3>2. entry \in CodeGrant
      BY <3>1 DEF CodeGrant
    <3> QED
      BY <1>1, <3>2, FlowSentinels DEF TypeOK
  <2>2. codeStatus[c] = "fresh" /\ codeStatus' = [codeStatus EXCEPT ![c] = "live"]
    BY <1>1, <2>1 DEF codeStatus
  <2>3. codeGrant' = [codeGrant EXCEPT ![c] = [stands_for |-> a, expires |-> t + CodeTtl]]
    <3>1. codes'[c].client = client /\ codes'[c].session = s
          /\ codes'[c].expires = t + CodeTtl
      BY <2>1
    <3>2. codeGrant'[c] = [stands_for |-> a, expires |-> t + CodeTtl]
      BY <2>1, <3>1 DEF codeGrant
    <3>3. \A d \in Codes \ {c} : codeGrant'[d] = codeGrant[d]
      BY <2>1 DEF codeGrant
    <3>4. codeGrant = [d \in Codes |-> codeGrant[d]] /\ codeGrant' = [d \in Codes |-> codeGrant'[d]]
      BY DEF codeGrant
    <3> HIDE DEF a
    <3> QED
      BY <3>2, <3>3, <3>4
  <2>4. CodeMap!Store(c, a, t)
    BY <1>1, <2>2, <2>3 DEF CodeMap!Store
  <2>5. a \in Clients \X Sessions
    OBVIOUS
  <2> HIDE DEF a
  <2> QED
    BY <2>4, <2>5 DEF CodeMap!Next
<1>2. ASSUME NEW c \in Live(codes), codes' = [codes EXCEPT ![c] = Gone], now' = now
      PROVE  CodeMap!Next
  <2>1. c \in Codes /\ codeStatus[c] = "live"
    BY <1>2, LiveCode DEF Live, TypeOK
  <2>2. codes' = [d \in Codes |-> IF d \in {c} THEN Gone ELSE codes[d]]
    BY <1>2 DEF TypeOK
  <2>3. CodeMap!End({c})
    BY <1>2, <2>2, CodesEnd
  <2> QED
    BY <2>1, <2>3 DEF CodeMap!Next, CodeMap!Take
<1>3. ASSUME NEW t \in 0..now, codes' = Retain(codes, t), now' = now
      PROVE  CodeMap!Next
  <2> DEFINE S == {c \in Codes : codeStatus[c] = "live" /\ codeGrant[c].expires <= t}
  <2>1. \A c \in Codes : c \in S <=> c \in Live(codes) /\ Expired(codes[c], t)
    BY LiveCode DEF Expired
  <2>2. S \in SUBSET Live(codes)
    BY <2>1
  <2>3. codes' = [c \in Codes |-> IF c \in S THEN Gone ELSE codes[c]]
    BY <1>3, <2>1 DEF Retain, TypeOK
  <2>4. CodeMap!End(S)
    <3> HIDE DEF S
    <3> QED
      BY <1>3, <2>2, <2>3, CodesEnd
  <2> QED
    BY <1>3, <2>4 DEF CodeMap!Next, CodeMap!Sweep
<1>4. ASSUME codes' = codes, now' \in {now, now + 1}
      PROVE  CodeMap!Next \/ UNCHANGED CodeMap!vars
  BY <1>4 DEF CodeMap!Next, CodeMap!Tick, CodeMap!vars, codeStatus, codeGrant
<1> QED
  BY <1>1, <1>2, <1>3, <1>4, CodesStep

\* The authorization endpoints store codes as the token endpoint expects them, with
\* an expiry that was fixed when the user was signed in, and sweep none before its
\* time: TokenGrants_proofs!CodesTaken shows the token endpoint to treat the same map
\* by the same rules (oauth.rs:568-579, 1193-1212).
THEOREM CodesStored == Spec => ImplementsCodes
<1> DEFINE Inv == TypeOK /\ FlowInv
           Readings == \A h \in Handlers : ReadingInv(h)
<1>1. Init => CodeMap!Init
  BY DEF Init, CodeMap!Init, codeStatus, codeGrant
<1>2. Init => Readings
  BY DEF Init, ReadingInv
<1>3. Inv /\ Readings /\ [Next]_vars => Readings'
  BY ReadingStep
<1>4. Inv /\ Inv' /\ Readings /\ [Next]_vars => [CodeMap!Next]_(CodeMap!vars)
  BY CodeMapStep
<1>5. Spec => []Inv
  BY FlowInvariant
<1> HIDE DEF Inv, Readings
<1> QED
  BY <1>1, <1>2, <1>3, <1>4, <1>5, PTL DEF Spec, ImplementsCodes, CodeMap!Spec

-----------------------------------------------------------------------------
\* One code per request.

\* h is a submission of r in progress.
Submission(h, r) == job[h] # Free /\ job[h].for = "complete" /\ job[h].request = r

OneAtATime ==
  \A h, g \in Handlers, r \in Requests : Submission(h, r) /\ Submission(g, r) => h = g

\* The steps after the code is stored.
Stored == {"insert_completed", "remove_pending", "answer"}

\* h has stored the code of r, and r is still pending.
CodeStored(h, r) == Submission(h, r) /\ job[h].at \in {"insert_completed", "remove_pending"}

\* A code of a request that is pending is that of a submission which has yet to
\* remove it, and one that has not stored its code yet is of a request without one.
OneCodeInv ==
  /\ \A c \in Codes : issued[c] # None =>
       \/ pending[issued[c].request] = Gone
       \/ \E h \in Handlers : CodeStored(h, issued[c].request)
  /\ \A h \in Handlers, r \in Requests, c \in Codes :
       Submission(h, r) /\ job[h].at \notin Stored /\ issued[c] # None
         => issued[c].request # r
  /\ OneCodePerRequest

\* A request that is not pending any more does not come back.
LEMMA GoneStays ==
  ASSUME TypeOK, FlowInv, [Next]_vars, NEW r \in Requests, pending[r] = Gone
  PROVE  pending'[r] = Gone
<1>1. ASSUME NEW h \in Handlers, SweepPending(h)
      PROVE  pending'[r] = Gone
  BY <1>1 DEF SweepPending, Retain, Live, TypeOK
<1>2. ASSUME NEW h \in Handlers, BindConsent(h)
      PROVE  pending'[r] = Gone
  BY <1>2 DEF BindConsent, Live, TypeOK
<1>3. ASSUME NEW h \in Handlers, NEW q \in Requests, InsertPending(h, q)
      PROVE  pending'[r] = Gone
  BY <1>3, FlowSentinels DEF InsertPending, TypeOK
<1>4. ASSUME NEW h \in Handlers, RemovePending(h)
      PROVE  pending'[r] = Gone
  BY <1>4 DEF RemovePending, TypeOK
<1>5. ASSUME NEW q \in Requests, DropExpired(q)
      PROVE  pending'[r] = Gone
  BY <1>5 DEF DropExpired, TypeOK
<1>6. CASE ~\/ \E h \in Handlers : \/ SweepPending(h) \/ BindConsent(h) \/ RemovePending(h)
                                   \/ \E q \in Requests : InsertPending(h, q)
            \/ \E q \in Requests : DropExpired(q)
  <2>1. pending' = pending
    BY <1>6, BeginFacts DEF Next, NextConnected, HandlerStep, SweepCompleted,
       SweepCodes, SweepFailures, CountPending, CountCompleted, FetchSession,
       RenderPage, CheckFailures, Authenticate, RecordFailure, ClearFailures,
       InsertCode, InsertCompleted, Answer, RegisterClient, Replay, TakeCode,
       SwitchAccount, Tick, Disconnect, store, vars
  <2> QED
    BY <2>1
<1> QED
  BY <1>1, <1>2, <1>3, <1>4, <1>5, <1>6

\* A submission stores one code, in a step of its own.
LEMMA IssueStep ==
  ASSUME TypeOK, FlowInv, [Next]_vars
  PROVE  \/ issued' = issued
         \/ \E h \in Handlers, c \in Codes, r \in Requests :
              /\ InsertCode(h, c) /\ job[h].at = "insert_code"
              /\ Submission(h, r) /\ CodeStored(h, r)'
              /\ issued'[c].request = r
              /\ \A d \in Codes \ {c} : issued'[d] = issued[d]
<1>1. ASSUME NEW h \in Handlers, NEW c \in Codes, InsertCode(h, c)
      PROVE  \E r \in Requests :
               /\ job[h].at = "insert_code" /\ Submission(h, r) /\ CodeStored(h, r)'
               /\ issued'[c].request = r
               /\ \A d \in Codes \ {c} : issued'[d] = issued[d]
  <2>1. job[h] # Free /\ job[h].at = "insert_code" /\ job[h] \in Job
    BY <1>1 DEF InsertCode, At, TypeOK
  <2>2. job[h].for = "complete" /\ job[h].request \in Requests
    BY <2>1 DEF FlowInv, JobInv, OfStarter, Begun, Storing, Sweeps, Admission
  <2>3. [job[h] EXCEPT !.at = "insert_completed", !.code = c] \in Job
    BY <2>1 DEF Job, Steps
  <2>4. job'[h] = [job[h] EXCEPT !.at = "insert_completed", !.code = c]
        /\ job'[h] # Free
    BY <1>1, <2>3, FlowSentinels DEF InsertCode, TypeOK
  <2>5. PICK r \in Requests : r = job[h].request
    BY <2>2
  <2>6. job'[h].at = "insert_completed" /\ job'[h].for = "complete"
        /\ job'[h].request = r
    BY <2>1, <2>2, <2>4, <2>5 DEF Job
  <2>7. issued'[c].request = r /\ \A d \in Codes \ {c} : issued'[d] = issued[d]
    BY <1>1, <2>5 DEF InsertCode, TypeOK
  <2> QED
    BY <2>1, <2>2, <2>4, <2>5, <2>6, <2>7 DEF Submission, CodeStored
<1>2. CASE ~\E h \in Handlers, c \in Codes : InsertCode(h, c)
  BY <1>2, BeginFacts DEF Next, NextConnected, HandlerStep, SweepPending,
     SweepCompleted, SweepCodes, SweepFailures, CountPending, CountCompleted,
     InsertPending, FetchSession, BindConsent, RenderPage, CheckFailures,
     Authenticate, RecordFailure, ClearFailures, InsertCompleted, RemovePending,
     Answer, RegisterClient, DropExpired, Replay, TakeCode, SwitchAccount, Tick,
     Disconnect, history, vars
<1> QED
  BY <1>1, <1>2

\* What a handler in progress is about does not change, and a submission stores its
\* code once.
LEMMA JobGoesOn ==
  ASSUME TypeOK, FlowInv, NEW h \in Handlers, HandlerStep(h), job'[h] # Free,
         NEW r \in Requests
  PROVE  /\ Submission(h, r)' => Submission(h, r)
         /\ Submission(h, r) => Submission(h, r)'
         /\ Submission(h, r) /\ job'[h].at \notin Stored => job[h].at \notin Stored
         /\ CodeStored(h, r) => CodeStored(h, r)' \/ RemovePending(h)
<1> PICK j : j = job[h]
  OBVIOUS
<1>0. j # Free /\ j \in Job /\ JobInv(h)
  BY HandlerJob DEF TypeOK, FlowInv
<1> SUFFICES /\ job'[h].for = j.for
             /\ j.for = "complete" => job'[h].request = j.request
             /\ j.for = "complete" /\ job'[h].at \notin Stored => j.at \notin Stored
             /\ j.at \in {"insert_completed", "remove_pending"} =>
                  job'[h].at \in {"insert_completed", "remove_pending"} \/ RemovePending(h)
  BY <1>0 DEF Submission, CodeStored
<1>1. CASE SweepFailures(h)
  <2>1. \E step \in {"count_pending", "check_failures"} :
          job' = [job EXCEPT ![h].at = step, ![h].asOf = 0]
    BY <1>1 DEF SweepFailures
  <2> QED
    BY <1>0, <1>1, <2>1 DEF SweepFailures, At, TypeOK, Job, Stored
<1>2. ASSUME NEW q \in Requests, InsertPending(h, q)
      PROVE  job'[h].for = "authorize" /\ j.for = "authorize" /\ j.at = "insert_pending"
  <2>1. \E step \in {"fetch", "render"} :
          job' = [job EXCEPT ![h].at = step, ![h].request = q, ![h].expires = 0]
    BY <1>2 DEF InsertPending
  <2>2. j.at = "insert_pending" /\ j.for = "authorize"
    BY <1>0, <1>2 DEF InsertPending, At, JobInv, Admission
  <2> QED
    BY <1>0, <2>1, <2>2 DEF TypeOK, Job
<1>3. CASE FetchSession(h) \/ ClearFailures(h)
  <2>1. j.at \in {"fetch", "clear_failures"}
        /\ job'[h].for = j.for /\ job'[h].request = j.request
    BY <1>0, <1>3 DEF FetchSession, ClearFailures, At, Finish, TypeOK, Job
  <2> QED
    BY <2>1 DEF Stored
<1>4. ASSUME NEW c \in Codes, InsertCode(h, c)
      PROVE  /\ j.at = "insert_code" /\ job'[h].at = "insert_completed"
             /\ job'[h].for = j.for /\ job'[h].request = j.request
  BY <1>0, <1>4 DEF InsertCode, At, TypeOK, Job
<1>5. CASE \/ SweepPending(h) \/ SweepCompleted(h) \/ SweepCodes(h)
           \/ CountPending(h) \/ CountCompleted(h) \/ BindConsent(h)
           \/ RenderPage(h) \/ CheckFailures(h) \/ Authenticate(h)
           \/ RecordFailure(h) \/ InsertCompleted(h) \/ RemovePending(h)
           \/ Answer(h)
  <2>1. ~Finish(h)
    BY DEF Finish, TypeOK
  <2>2. PICK step \in Steps :
          /\ Goto(h, step)
          /\ \/ j.at \notin Stored
             \/ j.at = "insert_completed" /\ step = "remove_pending"
             \/ RemovePending(h) /\ step = "answer"
    BY <1>5, <2>1 DEF SweepPending, SweepCompleted, SweepCodes, CountPending,
       CountCompleted, BindConsent, RenderPage, CheckFailures, Authenticate,
       RecordFailure, InsertCompleted, RemovePending, Answer, At, Steps, Stored
  <2>3. job'[h] = [j EXCEPT !.at = step]
    BY <1>0, <2>2, GotoFacts
  <2>4. job'[h].at = step /\ job'[h].for = j.for /\ job'[h].request = j.request
    BY <1>0, <2>3 DEF Job
  <2> QED
    BY <2>2, <2>4 DEF Stored
<1> QED
  BY <1>1, <1>2, <1>3, <1>4, <1>5 DEF HandlerStep, Stored

\* A submission begins with a pending request, and leaves all else as it is.
LEMMA SubmissionBegins ==
  ASSUME TypeOK, NEW h \in Handlers, BeginStep(h), NEW r \in Requests, Submission(h, r)'
  PROVE  /\ job[h] = Free /\ r \in Live(pending) /\ issued' = issued
         /\ \A g \in Handlers \ {h} : job'[g] = job[g]
<1>1. ASSUME NEW b \in Browsers, NEW q \in Requests, NEW s \in SessionOrNone,
             BeginComplete(h, b, q, s)
      PROVE  job[h] = Free /\ r \in Live(pending)
  BY <1>1 DEF BeginComplete, Open, Submission, TypeOK
<1>2. ASSUME NEW b \in Browsers, NEW c \in Clients, BeginAuthorize(h, b, c)
      PROVE  FALSE
  BY <1>2 DEF BeginAuthorize, Submission, TypeOK
<1>3. ASSUME NEW b \in Browsers, NEW q \in Requests, BeginResume(h, b, q)
      PROVE  FALSE
  BY <1>3 DEF BeginResume, Submission, TypeOK
<1> QED
  BY <1>1, <1>2, <1>3, BeginFacts DEF BeginStep, history

\* As long as no connection is dropped, a submission that stored its code goes on
\* to remove the request.
LEMMA StoredGoesOn ==
  ASSUME TypeOK, FlowInv, [NextConnected]_vars, NEW h \in Handlers, NEW r \in Requests,
         CodeStored(h, r)
  PROVE  pending'[r] = Gone \/ CodeStored(h, r)'
<1>0. job[h] # Free /\ job[h].request = r
  BY DEF CodeStored, Submission
<1>1. CASE job'[h] = job[h]
  BY <1>1 DEF CodeStored, Submission
<1>2. CASE HandlerStep(h)
  <2>1. CASE RemovePending(h)
    BY <1>0, <2>1 DEF RemovePending, TypeOK
  <2>2. CASE ~RemovePending(h)
    <3>1. job[h].at \in {"insert_completed", "remove_pending"}
      BY DEF CodeStored
    <3>2. InsertCompleted(h)
      BY <1>2, <2>2, <3>1 DEF HandlerStep, SweepPending, SweepCompleted, SweepCodes,
         SweepFailures, CountPending, CountCompleted, InsertPending, FetchSession,
         BindConsent, RenderPage, CheckFailures, Authenticate, RecordFailure,
         ClearFailures, InsertCode, Answer, At
    <3>3. job'[h] # Free
      BY <1>0, <3>2, GotoFacts DEF InsertCompleted, Steps
    <3> QED
      BY <1>2, <2>2, <3>3, JobGoesOn
  <2> QED
    BY <2>1, <2>2
<1>3. CASE BeginStep(h)
  BY <1>0, <1>3 DEF BeginStep, BeginAuthorize, BeginResume, BeginComplete
<1>4. CASE ~(HandlerStep(h) \/ BeginStep(h))
  <2>1. ASSUME NEW g \in Handlers \ {h}, HandlerStep(g) \/ BeginStep(g)
        PROVE  job'[h] = job[h]
    BY <2>1, HandlerJob, BeginFacts
  <2>2. CASE ~\E g \in Handlers : HandlerStep(g) \/ BeginStep(g)
    BY <1>1, <2>2 DEF NextConnected, RegisterClient, DropExpired, Replay, TakeCode,
       SwitchAccount, Tick, vars
  <2> QED
    BY <1>1, <1>4, <2>1, <2>2
<1> QED
  BY <1>2, <1>3, <1>4

\* Every step keeps the invariant while submissions of a request come one after
\* the other.
LEMMA OneCodeStep ==
  ASSUME TypeOK, TypeOK', FlowInv, [NextConnected]_vars, OneAtATime', OneCodeInv
  PROVE  OneCodeInv'
<1>0. [Next]_vars
  BY DEF Next
<1>1. \A c \in Codes : issued[c] # None => issued[c].request \in Requests
  BY DEF FlowInv, CodeInv, Begun
<1>2. ASSUME NEW c \in Codes, issued'[c] # None,
             NEW r \in Requests, issued'[c].request = r
      PROVE  pending'[r] = Gone \/ \E h \in Handlers : CodeStored(h, r)'
  <2>1. CASE issued'[c] = issued[c]
    <3>1. pending[r] = Gone \/ \E h \in Handlers : CodeStored(h, r)
      BY <1>2, <2>1 DEF OneCodeInv
    <3>2. pending[r] = Gone => pending'[r] = Gone
      BY <1>0, GoneStays
    <3>3. \A h \in Handlers : CodeStored(h, r) => pending'[r] = Gone \/ CodeStored(h, r)'
      BY StoredGoesOn
    <3> QED
      BY <3>1, <3>2, <3>3
  <2>2. CASE issued'[c] # issued[c]
    <3>1. PICK h \in Handlers, d \in Codes, q \in Requests :
            /\ CodeStored(h, q)' /\ issued'[d].request = q
            /\ \A e \in Codes \ {d} : issued'[e] = issued[e]
      BY <1>0, <2>2, IssueStep
    <3>2. q = r
      BY <1>2, <2>2, <3>1
    <3> QED
      BY <3>1, <3>2
  <2> QED
    BY <2>1, <2>2
<1>3. ASSUME NEW g \in Handlers, NEW r \in Requests, Submission(g, r)',
             job'[g].at \notin Stored, NEW c \in Codes, issued'[c] # None
      PROVE  issued'[c].request # r
  <2>1. CASE BeginStep(g)
    <3>1. /\ job[g] = Free /\ pending[r] # Gone /\ issued' = issued
          /\ \A h \in Handlers \ {g} : job'[h] = job[h]
      BY <1>3, <2>1, SubmissionBegins DEF Live
    <3>2. ASSUME issued[c].request = r
          PROVE  FALSE
      <4>1. PICK h \in Handlers : CodeStored(h, r)
        BY <1>3, <3>1, <3>2 DEF OneCodeInv
      <4>2. h # g /\ Submission(h, r)'
        BY <3>1, <4>1 DEF CodeStored, Submission
      <4> QED
        BY <1>3, <4>2 DEF OneAtATime
    <3> QED
      BY <3>1, <3>2
  <2>2. CASE ~BeginStep(g)
    <3>1. Submission(g, r) /\ job[g].at \notin Stored
      <4>1. CASE HandlerStep(g)
        <5>1. job'[g] # Free
          BY <1>3 DEF Submission
        <5> QED
          BY <1>3, <4>1, <5>1, JobGoesOn
      <4>2. CASE job'[g] = job[g]
        BY <1>3, <4>2 DEF Submission
      <4>3. ASSUME NEW h \in Handlers \ {g}, HandlerStep(h) \/ BeginStep(h)
            PROVE  job'[g] = job[g]
        BY <4>3, HandlerJob, BeginFacts
      <4>4. CASE ~\E h \in Handlers : HandlerStep(h) \/ BeginStep(h)
        BY <4>2, <4>4 DEF NextConnected, RegisterClient, DropExpired, Replay, TakeCode,
           SwitchAccount, Tick, vars
      <4> QED
        BY <2>2, <4>1, <4>2, <4>3, <4>4
    <3>2. CASE issued'[c] = issued[c]
      BY <1>3, <3>1, <3>2 DEF OneCodeInv
    <3>3. CASE issued'[c] # issued[c]
      <4>1. PICK h \in Handlers, d \in Codes, q \in Requests :
              /\ CodeStored(h, q)' /\ issued'[d].request = q
              /\ \A e \in Codes \ {d} : issued'[e] = issued[e]
        BY <1>0, <3>3, IssueStep
      <4>2. issued'[c].request = q
        BY <3>3, <4>1
      <4>3. h # g
        BY <1>3, <4>1 DEF CodeStored, Stored
      <4>4. Submission(h, q)'
        BY <4>1 DEF CodeStored
      <4> QED
        BY <1>3, <4>2, <4>3, <4>4 DEF OneAtATime
    <3> QED
      BY <3>2, <3>3
  <2> QED
    BY <2>1, <2>2
<1>4. OneCodePerRequest'
  <2>1. CASE issued' = issued
    BY <2>1 DEF OneCodeInv, OneCodePerRequest
  <2>2. CASE issued' # issued
    <3>1. PICK h \in Handlers, c \in Codes, r \in Requests :
            /\ job[h].at = "insert_code" /\ Submission(h, r)
            /\ issued'[c].request = r
            /\ \A d \in Codes \ {c} : issued'[d] = issued[d]
      BY <1>0, <2>2, IssueStep
    <3>2. \A d \in Codes \ {c} : issued'[d] # None => issued'[d].request # r
      BY <3>1 DEF OneCodeInv, Stored
    <3> QED
      BY <3>1, <3>2 DEF OneCodeInv, OneCodePerRequest
  <2> QED
    BY <2>1, <2>2
<1>5. \A c \in Codes : issued'[c] # None =>
        \/ pending'[issued'[c].request] = Gone
        \/ (\E h \in Handlers : CodeStored(h, issued[c].request))'
  <2> SUFFICES ASSUME NEW c \in Codes, issued'[c] # None
               PROVE  \/ pending'[issued'[c].request] = Gone
                      \/ (\E h \in Handlers : CodeStored(h, issued[c].request))'
    OBVIOUS
  <2>1. PICK r \in Requests : r = issued'[c].request
    <3>1. CASE issued'[c] = issued[c]
      BY <1>1, <3>1
    <3>2. CASE issued'[c] # issued[c]
      <4>1. PICK d \in Codes, q \in Requests :
              issued'[d].request = q /\ \A e \in Codes \ {d} : issued'[e] = issued[e]
        BY <1>0, <3>2, IssueStep
      <4> QED
        BY <3>2, <4>1
    <3> QED
      BY <3>1, <3>2
  <2> QED
    BY <1>2, <2>1 DEF CodeStored, Submission
<1> QED
  BY <1>3, <1>4, <1>5 DEF OneCodeInv

\* A duplicate submission does not authorize the account again as long as it comes
\* after the first one was answered and no connection is dropped: what the test at
\* oauth.rs:1751-1753 says holds then, and the run DoubleSubmit shows that it does
\* not when two submissions are in progress at once.
THEOREM OneCodeAlone == ConnectedSpec /\ []OneAtATime => []OneCodePerRequest
<1> DEFINE Inv == TypeOK /\ FlowInv
<1>1. [NextConnected]_vars => [Next]_vars
  BY DEF Next
<1>2. ConnectedSpec => []Inv
  BY <1>1, FlowInvariant, PTL DEF ConnectedSpec, Spec
<1>3. Init => OneCodeInv
  BY DEF Init, OneCodeInv, OneCodePerRequest, Submission
<1>4. Inv /\ Inv' /\ OneAtATime' /\ [NextConnected]_vars /\ OneCodeInv => OneCodeInv'
  BY OneCodeStep
<1>5. OneCodeInv => OneCodePerRequest
  BY DEF OneCodeInv
<1> HIDE DEF Inv
<1> QED
  BY <1>2, <1>3, <1>4, <1>5, PTL DEF ConnectedSpec
=============================================================================
