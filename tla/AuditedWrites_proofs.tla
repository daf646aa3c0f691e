------------------------ MODULE AuditedWrites_proofs ------------------------
(***************************************************************************)
(* Theorems about the write gate for any set of mutating tool calls.       *)
(***************************************************************************)
EXTENDS AuditedWrites, SequenceTheorems, TLAPS

Entry == [call : Calls, status : {"authorized", "succeeded", "failed"}]

\* Appending a line to the log adds what it says and loses nothing.
LEMMA LoggedAppend ==
  ASSUME NEW S, NEW old \in Seq(S), NEW line \in S, NEW e
  PROVE  Contains(Append(old, line), e) <=> Contains(old, e) \/ e = line
<1>1. /\ Append(old, line) \in Seq(S) /\ Len(Append(old, line)) = Len(old) + 1
      /\ Len(old) \in Nat
      /\ \A i \in 1..Len(old) : Append(old, line)[i] = old[i]
      /\ Append(old, line)[Len(old) + 1] = line
  BY AppendProperties, LenProperties
<1> QED
  BY <1>1 DEF Contains

-----------------------------------------------------------------------------
\* The variables start with their types.
LEMMA TypeInit == Init => TypeOK
BY DEF Init, TypeOK, Call, Steps, Kinds

\* Writing the audit line, or failing to, moves one call to one of two steps.
LEMMA AuditFacts ==
  ASSUME TypeOK, NEW c \in Calls, NEW status \in {"authorized", "succeeded", "failed"},
         NEW done \in Steps, NEW error \in Steps, Audit(c, status, done, error)
  PROVE  /\ \E step \in {done, error} : call' = [call EXCEPT ![c].at = step]
         /\ call' \in [Calls -> Call]
         /\ log' \in Seq(Entry)
         /\ log' \in {log, Append(log, [call |-> c, status |-> status])}
<1>1. [call |-> c, status |-> status] \in Entry /\ log \in Seq(Entry)
  BY DEF TypeOK, Entry
<1>2. log' \in {log, Append(log, [call |-> c, status |-> status])}
  BY DEF Audit, Record
<1>3. PICK step \in {done, error} : call' = [call EXCEPT ![c].at = step]
  BY DEF Audit, Goto
<1>4. call' \in [Calls -> Call]
  BY <1>3 DEF TypeOK, Call
<1>5. Append(log, [call |-> c, status |-> status]) \in Seq(Entry)
  BY <1>1, AppendProperties
<1> QED
  BY <1>1, <1>2, <1>3, <1>4, <1>5

\* Sending moves the call to its attempt and puts one request on the wire.
LEMMA SendFacts ==
  ASSUME TypeOK, NEW c \in Calls, NEW attempt \in 1..2, Send(c, attempt)
  PROVE  /\ call' \in [Calls -> Call]
         /\ wire' \subseteq Calls \X (1..2)
<1>1. call' = [call EXCEPT ![c] = [call[c] EXCEPT !.at = "waiting", !.attempt = attempt]]
  BY DEF TypeOK, Send
<1>2. [call[c] EXCEPT !.at = "waiting", !.attempt = attempt] \in Call
  BY DEF TypeOK, Call, Steps
<1> QED
  BY <1>1, <1>2 DEF TypeOK, Send

\* Every step keeps the types.
LEMMA TypeStep == TypeOK /\ [Next]_vars => TypeOK'
<1> SUFFICES ASSUME TypeOK, [Next]_vars
             PROVE  TypeOK'
  OBVIOUS
<1>1. ASSUME NEW c \in Calls, ServerStep(c), UNCHANGED writesEnabled
      PROVE  TypeOK'
  <2>1. CASE Gate(c)
    BY <1>1, <2>1 DEF TypeOK, Gate, Goto, Call, Steps
  <2>2. CASE Authorize(c)
    <3>1. Audit(c, "authorized",
                IF call[c].kind = "move" THEN "locate" ELSE "session", "blocked")
      BY <2>2 DEF Authorize
    <3>2. call' \in [Calls -> Call] /\ log' \in Seq(Entry)
      BY <3>1, AuditFacts DEF Steps
    <3> QED
      BY <1>1, <2>2, <3>2 DEF TypeOK, Authorize, Entry
  <2>3. CASE Locate(c)
    BY <1>1, <2>3 DEF TypeOK, Locate, Goto, Call, Steps
  <2>4. CASE Dispatch(c)
    <3>1. CASE Send(c, 1)
      BY <1>1, <2>4, <3>1, SendFacts DEF TypeOK, Dispatch
    <3>2. CASE ~Send(c, 1)
      BY <1>1, <2>4, <3>2 DEF TypeOK, Dispatch, Goto, Call, Steps
    <3> QED
      BY <3>1, <3>2
  <2>5. CASE Retry(c)
    <3>1. CASE Send(c, 2)
      BY <1>1, <2>5, <3>1, SendFacts DEF TypeOK, Retry
    <3>2. CASE ~Send(c, 2)
      BY <1>1, <2>5, <3>2 DEF TypeOK, Retry, Goto, Call, Steps
    <3> QED
      BY <3>1, <3>2
  <2>6. CASE LoseConnection(c)
    BY <1>1, <2>6 DEF TypeOK, LoseConnection, Goto, Call, Steps
  <2>7. CASE Verify(c)
    BY <1>1, <2>7 DEF TypeOK, Verify, Goto, Call, Steps
  <2>8. CASE Conclude(c)
    <3>1. call[c].at \in {"succeeded", "failed"} /\ Audit(c, call[c].at, "done", "done")
      BY <2>8 DEF Conclude, At
    <3>2. call' \in [Calls -> Call] /\ log' \in Seq(Entry)
      BY <3>1, AuditFacts DEF Steps
    <3> QED
      BY <1>1, <2>8, <3>2 DEF TypeOK, Conclude, Entry
  <2> QED
    BY <1>1, <2>1, <2>2, <2>3, <2>4, <2>5, <2>6, <2>7, <2>8 DEF ServerStep
<1>2. ASSUME NEW m \in wire, UNCHANGED writesEnabled,
             DocmostApplies(m) \/ DocmostRefuses(m) \/ DocmostUnauthorized(m)
      PROVE  TypeOK'
  <2>1. m[1] \in Calls /\ Accepted(m[1]) \in Steps
    BY DEF TypeOK, Accepted, Steps
  <2>2. \E step \in Steps : Reply(m, step)
    BY <1>2, <2>1 DEF DocmostApplies, DocmostRefuses, DocmostUnauthorized, Steps
  <2>3. call' \in [Calls -> Call] /\ wire' \subseteq Calls \X (1..2)
    <3> PICK step \in Steps : Reply(m, step)
      BY <2>2
    <3>1. [call[m[1]] EXCEPT !.at = step] \in Call
      BY <2>1 DEF TypeOK, Call
    <3> QED
      BY <2>1, <3>1 DEF TypeOK, Reply
  <2>4. applied' \in [Calls -> Nat] /\ log' = log
    BY <1>2, <2>1 DEF TypeOK, DocmostApplies, DocmostRefuses, DocmostUnauthorized
  <2> QED
    BY <1>2, <2>3, <2>4 DEF TypeOK
<1>3. CASE Crash /\ UNCHANGED writesEnabled
  BY <1>3 DEF TypeOK, Crash, Call, Steps, At
<1>4. CASE UNCHANGED vars
  BY <1>4 DEF TypeOK, vars
<1> QED
  BY <1>1, <1>2, <1>3, <1>4 DEF Next, DocmostStep

\* The log, the wire and the calls hold what belongs there.
THEOREM TypeCorrect == Spec => []TypeOK
BY TypeInit, TypeStep, PTL DEF Spec
-----------------------------------------------------------------------------
(***************************************************************************)
(* The inductive invariant.  A call that waits has one request on the wire, *)
(* not carried out; one that has a good reply was carried out; a request   *)
(* that nobody waits for any more can be carried out once.  From the audit *)
(* line on, the log says that the call was authorized, and once it has its *)
(* outcome the call is over.                                               *)
(***************************************************************************)
BeforeRequest == {"new", "refused", "authorize", "blocked", "locate",
                  "session", "unauthorized"}

Sent(c) == {n \in 1..2 : <<c, n>> \in wire}

OneRequest(c) ==
  /\ call[c].at \in BeforeRequest => Sent(c) = {} /\ applied[c] = 0
  /\ At(c, "waiting") => Sent(c) = {call[c].attempt} /\ applied[c] = 0
  /\ call[c].at \in {"verify", "succeeded"} => applied[c] = 1
  /\ \/ applied[c] = 0 /\ \E n \in 1..2 : Sent(c) \subseteq {n}
     \/ applied[c] = 1 /\ Sent(c) = {}

AfterAudit == {"locate", "session", "waiting", "unauthorized", "verify",
               "succeeded", "failed", "done"}

LogTellsTruth(c) ==
  /\ call[c].at \in AfterAudit \cup {"authorize"} =>
       writesEnabled /\ call[c].confirmed
  /\ call[c].at \in AfterAudit => Logged(c, "authorized")
  /\ applied[c] > 0 \/ Sent(c) # {} =>
       writesEnabled /\ call[c].confirmed /\ Logged(c, "authorized")
  /\ Logged(c, "succeeded") => applied[c] = 1
  /\ Logged(c, "succeeded") \/ Logged(c, "failed") => call[c].at \in {"done", "dead"}

WriteInv == \A c \in Calls : OneRequest(c) /\ LogTellsTruth(c)

\* The invariant holds before the first call.
LEMMA WriteInit == Init => WriteInv
BY DEF Init, WriteInv, OneRequest, LogTellsTruth, Sent, Logged, Contains, At,
       BeforeRequest, AfterAudit

\* A step keeps the invariant for a call it does not concern.
LEMMA Untouched ==
  ASSUME NEW d \in Calls, OneRequest(d), LogTellsTruth(d),
         writesEnabled' = writesEnabled, call'[d] = call[d],
         applied'[d] = applied[d], Sent(d)' = Sent(d),
         \A status \in {"authorized", "succeeded", "failed"} :
           Logged(d, status)' <=> Logged(d, status)
  PROVE  OneRequest(d)' /\ LogTellsTruth(d)'
BY DEF OneRequest, LogTellsTruth, At

\* What a step of the server does to the calls it is not a step of.
LEMMA ServerTouchesOne ==
  ASSUME TypeOK, NEW c \in Calls, NEW d \in Calls \ {c}, ServerStep(c)
  PROVE  /\ call'[d] = call[d] /\ applied'[d] = applied[d] /\ Sent(d)' = Sent(d)
         /\ \A status \in {"authorized", "succeeded", "failed"} :
              Logged(d, status)' <=> Logged(d, status)
<1>1. call'[d] = call[d]
  BY DEF TypeOK, ServerStep, Gate, Authorize, Locate, Dispatch, Retry,
         LoseConnection, Verify, Conclude, Audit, Goto, Send
<1>2. applied' = applied
  BY DEF ServerStep, Gate, Authorize, Locate, Dispatch, Retry, LoseConnection,
         Verify, Conclude
<1>3. \A n \in 1..2 : <<d, n>> \in wire' <=> <<d, n>> \in wire
  BY DEF ServerStep, Gate, Authorize, Locate, Dispatch, Retry, LoseConnection,
         Verify, Conclude, Audit, Goto, Send
<1>4. \/ log' = log
      \/ \E status \in {"authorized", "succeeded", "failed"} :
           log' = Append(log, [call |-> c, status |-> status])
  BY DEF ServerStep, Gate, Authorize, Locate, Dispatch, Retry, LoseConnection,
         Verify, Conclude, Audit, Record, At
<1>5. \A status \in {"authorized", "succeeded", "failed"} :
        Logged(d, status)' <=> Logged(d, status)
  <2>1. CASE log' = log
    BY <2>1 DEF Logged
  <2>2. ASSUME NEW told \in {"authorized", "succeeded", "failed"},
               log' = Append(log, [call |-> c, status |-> told]),
               NEW status \in {"authorized", "succeeded", "failed"}
        PROVE  Logged(d, status)' <=> Logged(d, status)
    <3>1. log \in Seq(Entry) /\ [call |-> c, status |-> told] \in Entry
          /\ [call |-> d, status |-> status] # [call |-> c, status |-> told]
      BY DEF TypeOK, Entry
    <3> QED
      BY <2>2, <3>1, LoggedAppend DEF Logged
  <2> QED
    BY <1>4, <2>1, <2>2
<1> QED
  BY <1>1, <1>2, <1>3, <1>5 DEF Sent

\* The line that an audit write appends, if it does.
LEMMA AuditLogs ==
  ASSUME TypeOK, NEW c \in Calls, NEW told \in {"authorized", "succeeded", "failed"},
         NEW done, NEW error, Audit(c, told, done, error)
  PROVE  /\ \A status \in {"authorized", "succeeded", "failed"} :
              /\ Logged(c, status) => Logged(c, status)'
              /\ status # told => (Logged(c, status)' => Logged(c, status))
         /\ call'[c].confirmed = call[c].confirmed
         /\ \/ call'[c].at = done /\ Logged(c, told)'
            \/ call'[c].at = error
<1> DEFINE line == [call |-> c, status |-> told]
<1>1. log \in Seq(Entry) /\ line \in Entry
  BY DEF TypeOK, Entry
<1>2. \A e : Contains(Append(log, line), e) <=> Contains(log, e) \/ e = line
  BY <1>1, LoggedAppend
<1>3. \A status \in {"authorized", "succeeded", "failed"} :
        status # told => [call |-> c, status |-> status] # line
  OBVIOUS
<1>4. \/ log' = Append(log, line) /\ call' = [call EXCEPT ![c].at = done]
      \/ log' = Append(log, line) /\ call' = [call EXCEPT ![c].at = error]
      \/ log' = log /\ call' = [call EXCEPT ![c].at = error]
  BY DEF Audit, Record, Goto
<1>5. /\ call'[c].confirmed = call[c].confirmed
      /\ \/ call'[c].at = done /\ log' = Append(log, line)
         \/ call'[c].at = error
  BY <1>4 DEF TypeOK, Call
<1> HIDE DEF line
<1>6. Logged(c, told)' <=> Contains(log', line)
  BY DEF Logged, line
<1> QED
  BY <1>2, <1>3, <1>4, <1>5, <1>6 DEF Logged

\* A step of a call keeps what is true of its requests and of its log lines.
LEMMA ServerKeeps ==
  ASSUME TypeOK, NEW c \in Calls, OneRequest(c), LogTellsTruth(c),
         ServerStep(c), UNCHANGED writesEnabled
  PROVE  OneRequest(c)' /\ LogTellsTruth(c)'
<1> USE DEF BeforeRequest, AfterAudit
<1>0. /\ call[c].at \in Steps /\ call[c].attempt \in 1..2 /\ applied[c] \in Nat
      /\ Sent(c) \subseteq 1..2
      /\ \A step : [call EXCEPT ![c].at = step][c].at = step
      /\ \A step : [call EXCEPT ![c].at = step][c].attempt = call[c].attempt
      /\ \A step : [call EXCEPT ![c].at = step][c].confirmed = call[c].confirmed
      /\ \A step : [call EXCEPT ![c].at = step][c].kind = call[c].kind
  BY DEF TypeOK, Call, Sent
<1>1. CASE Gate(c)
  <2>1. Sent(c)' = Sent(c) /\ applied' = applied /\ log' = log
    BY <1>1 DEF Gate, Sent
  <2>2. /\ call'[c].at \in {"authorize", "refused"}
        /\ call'[c].confirmed = call[c].confirmed
        /\ call'[c].at = "authorize" => writesEnabled /\ call[c].confirmed
    BY <1>0, <1>1 DEF Gate, Goto
  <2> QED
    BY <1>1, <2>1, <2>2 DEF Gate, At, OneRequest, LogTellsTruth, Logged
<1>2. CASE Authorize(c)
  <2> DEFINE done == IF call[c].kind = "move" THEN "locate" ELSE "session"
  <2>1. Audit(c, "authorized", done, "blocked") /\ At(c, "authorize")
    BY <1>2 DEF Authorize
  <2>2. done \in {"locate", "session"}
    OBVIOUS
  <2> HIDE DEF done
  <2>3. /\ \A status \in {"succeeded", "failed"} : Logged(c, status)' => Logged(c, status)
        /\ call'[c].at \in {"locate", "session", "blocked"}
        /\ call'[c].at # "blocked" => Logged(c, "authorized")'
        /\ call'[c].confirmed = call[c].confirmed
    BY <1>0, <2>1, <2>2, AuditLogs
  <2>4. Sent(c)' = Sent(c) /\ applied' = applied
    BY <1>2 DEF Authorize, Sent
  <2> QED
    BY <2>1, <2>3, <2>4 DEF At, OneRequest, LogTellsTruth
<1>3. CASE Locate(c)
  <2>1. Sent(c)' = Sent(c) /\ applied' = applied /\ log' = log
    BY <1>3 DEF Locate, Sent
  <2>2. call[c].at = "locate" /\ call'[c].at \in {"session", "failed"}
        /\ call'[c].confirmed = call[c].confirmed
    BY <1>0, <1>3 DEF Locate, Goto, At
  <2> QED
    BY <2>1, <2>2 DEF At, OneRequest, LogTellsTruth, Logged
<1>4. ASSUME NEW n \in 1..2, Send(c, n), UNCHANGED <<log, applied>>,
             call[c].at \in {"session", "unauthorized"}
      PROVE  OneRequest(c)' /\ LogTellsTruth(c)'
  <2>1. call'[c].at = "waiting" /\ call'[c].attempt = n
        /\ call'[c].confirmed = call[c].confirmed
    BY <1>0, <1>4 DEF Send, TypeOK, Call
  <2>2. Sent(c)' = Sent(c) \cup {n}
    BY <1>4 DEF Send, Sent
  <2> QED
    BY <1>4, <2>1, <2>2 DEF At, OneRequest, LogTellsTruth, Logged
<1>5. ASSUME Goto(c, "failed"), UNCHANGED <<log, applied, wire>>,
             call[c].at \in {"session", "unauthorized"}
      PROVE  OneRequest(c)' /\ LogTellsTruth(c)'
  <2>1. call'[c].at = "failed" /\ call'[c].confirmed = call[c].confirmed
    BY <1>0, <1>5 DEF Goto
  <2>2. Sent(c)' = Sent(c)
    BY <1>5 DEF Sent
  <2> QED
    BY <1>5, <2>1, <2>2 DEF At, OneRequest, LogTellsTruth, Logged
<1>6. CASE Dispatch(c)
  BY <1>4, <1>5, <1>6 DEF Dispatch, At
<1>7. CASE Retry(c)
  BY <1>4, <1>5, <1>7 DEF Retry, At
<1>8. CASE LoseConnection(c)
  <2>1. Sent(c)' \subseteq Sent(c) /\ applied' = applied /\ log' = log
    BY <1>8 DEF LoseConnection, Sent
  <2>2. call[c].at = "waiting" /\ call'[c].at = "failed"
        /\ call'[c].confirmed = call[c].confirmed
    BY <1>0, <1>8 DEF LoseConnection, Goto, At
  <2> QED
    BY <1>0, <2>1, <2>2 DEF At, OneRequest, LogTellsTruth, Logged
<1>9. CASE Verify(c)
  <2>1. Sent(c)' = Sent(c) /\ applied' = applied /\ log' = log
    BY <1>9 DEF Verify, Sent
  <2>2. call[c].at = "verify" /\ call'[c].at \in {"succeeded", "failed"}
        /\ call'[c].confirmed = call[c].confirmed
    BY <1>0, <1>9 DEF Verify, Goto, At
  <2> QED
    BY <2>1, <2>2 DEF At, OneRequest, LogTellsTruth, Logged
<1>10. CASE Conclude(c)
  <2>1. Audit(c, call[c].at, "done", "done") /\ call[c].at \in {"succeeded", "failed"}
    BY <1>10 DEF Conclude, At
  <2>2. /\ \A status \in {"authorized", "succeeded", "failed"} :
             /\ Logged(c, status) => Logged(c, status)'
             /\ status # call[c].at => (Logged(c, status)' => Logged(c, status))
        /\ call'[c].at = "done" /\ call'[c].confirmed = call[c].confirmed
    BY <1>0, <2>1, AuditLogs
  <2>3. Sent(c)' = Sent(c) /\ applied' = applied
    BY <1>10 DEF Conclude, Sent
  <2> QED
    BY <2>1, <2>2, <2>3 DEF At, OneRequest, LogTellsTruth
<1> QED
  BY <1>1, <1>2, <1>3, <1>6, <1>7, <1>8, <1>9, <1>10 DEF ServerStep

\* Docmost's handling of a request keeps the invariant of every call.
LEMMA DocmostKeeps ==
  ASSUME TypeOK, WriteInv, NEW m \in wire, UNCHANGED writesEnabled,
         DocmostApplies(m) \/ DocmostRefuses(m) \/ DocmostUnauthorized(m)
  PROVE  WriteInv'
<1> DEFINE c == m[1]
<1> USE DEF BeforeRequest, AfterAudit
<1>0. /\ c \in Calls /\ m[2] \in 1..2 /\ m = <<c, m[2]>> /\ log' = log
      /\ m[2] \in Sent(c)
  <2>1. c \in Calls /\ m[2] \in 1..2 /\ m = <<c, m[2]>>
    BY DEF TypeOK
  <2>2. log' = log
    BY DEF DocmostApplies, DocmostRefuses, DocmostUnauthorized
  <2> QED
    BY <2>1, <2>2 DEF Sent
<1>1. \A d \in Calls \ {c} :
        /\ call'[d] = call[d] /\ applied'[d] = applied[d] /\ Sent(d)' = Sent(d)
  <2> TAKE d \in Calls \ {c}
  <2>1. call'[d] = call[d] /\ wire' = wire \ {m}
    BY <1>0 DEF TypeOK, DocmostApplies, DocmostRefuses, DocmostUnauthorized, Reply
  <2>2. applied'[d] = applied[d]
    BY <1>0 DEF TypeOK, DocmostApplies, DocmostRefuses, DocmostUnauthorized
  <2>3. \A n \in 1..2 : <<d, n>> # m
    BY <1>0
  <2> QED
    BY <2>1, <2>2, <2>3 DEF Sent
<1>2. \A d \in Calls \ {c} : OneRequest(d)' /\ LogTellsTruth(d)'
  BY <1>0, <1>1, Untouched DEF WriteInv, Logged
<1>3. OneRequest(c) /\ LogTellsTruth(c)
  BY <1>0 DEF WriteInv
<1>4. applied[c] = 0 /\ Sent(c) = {m[2]} /\ Sent(c)' = {}
      /\ call[c].at \notin BeforeRequest \cup {"verify", "succeeded"}
  <2>1. applied[c] = 0 /\ Sent(c) = {m[2]}
        /\ call[c].at \notin BeforeRequest \cup {"verify", "succeeded"}
    BY <1>0, <1>3 DEF OneRequest
  <2>2. wire' = wire \ {m}
    BY DEF DocmostApplies, DocmostRefuses, DocmostUnauthorized, Reply
  <2> QED
    BY <1>0, <2>1, <2>2 DEF Sent
<1>5. \/ ~At(c, "waiting") /\ call'[c] = call[c]
      \/ /\ At(c, "waiting") /\ call'[c].confirmed = call[c].confirmed
         /\ call'[c].at \in {"verify", "succeeded", "failed", "unauthorized"}
         /\ applied' = applied => call'[c].at \in {"failed", "unauthorized"}
         /\ applied' # applied => call'[c].at # "unauthorized"
  <2>0. applied' = [applied EXCEPT ![c] = @ + 1] => applied' # applied
    BY <1>0, <1>4 DEF TypeOK
  <2>1. \E step \in {"verify", "succeeded", "failed", "unauthorized"} :
          /\ Reply(m, step)
          /\ applied' = applied => step \in {"failed", "unauthorized"}
          /\ applied' # applied => step # "unauthorized"
    BY <2>0 DEF DocmostApplies, DocmostRefuses, DocmostUnauthorized, Accepted
  <2> PICK step \in {"verify", "succeeded", "failed", "unauthorized"} :
         /\ Reply(m, step)
         /\ applied' = applied => step \in {"failed", "unauthorized"}
         /\ applied' # applied => step # "unauthorized"
    BY <2>1
  <2>2. CASE At(c, "waiting")
    <3>1. call[c].attempt = m[2]
      BY <1>3, <1>4, <2>2 DEF OneRequest
    <3>2. call' = [call EXCEPT ![c].at = step]
      BY <2>2, <3>1 DEF Reply
    <3> QED
      BY <1>0, <2>2, <3>2 DEF TypeOK, Call
  <2>3. CASE ~At(c, "waiting")
    BY <2>3 DEF Reply
  <2> QED
    BY <2>2, <2>3
<1>6. \/ applied'[c] = 0 /\ applied' = applied
      \/ applied'[c] = 1 /\ applied' # applied
  <2>1. applied' = applied \/ applied' = [applied EXCEPT ![c] = applied[c] + 1]
    BY DEF DocmostApplies, DocmostRefuses, DocmostUnauthorized
  <2> HIDE DEF c
  <2>2. applied[c] = 0
    BY <1>4
  <2>3. [applied EXCEPT ![c] = applied[c] + 1][c] = 1
    BY <1>0, <2>2 DEF TypeOK
  <2>4. CASE applied' = applied
    BY <2>2, <2>4
  <2>5. CASE applied' = [applied EXCEPT ![c] = applied[c] + 1]
    <3>1. applied'[c] = 1
      BY <2>3, <2>5, Zenon
    <3> QED
      BY <2>2, <3>1
  <2> QED
    BY <2>1, <2>4, <2>5
<1>7. \A status : Logged(c, status)' <=> Logged(c, status)
  BY <1>0 DEF Logged
<1> HIDE DEF c
<1>8. OneRequest(c)'
  BY <1>3, <1>4, <1>5, <1>6 DEF OneRequest, At
<1>9. LogTellsTruth(c)'
  BY <1>0, <1>3, <1>4, <1>5, <1>6, <1>7 DEF LogTellsTruth, At
<1> QED
  BY <1>0, <1>2, <1>8, <1>9 DEF WriteInv

\* A crash stops calls where they are, whatever is on the wire.
LEMMA CrashKeeps ==
  ASSUME TypeOK, WriteInv, Crash, UNCHANGED writesEnabled
  PROVE  WriteInv'
<1> SUFFICES ASSUME NEW c \in Calls
             PROVE  OneRequest(c)' /\ LogTellsTruth(c)'
  BY DEF WriteInv
<1>1. /\ UNCHANGED <<writesEnabled, log, applied>> /\ Sent(c)' = Sent(c)
      /\ OneRequest(c) /\ LogTellsTruth(c)
  BY DEF Crash, WriteInv, Sent
<1>2. CASE At(c, "new")
  BY <1>1, <1>2, Untouched DEF Crash, Logged
<1>3. CASE ~At(c, "new")
  <2>1. call'[c].at = "dead" /\ call'[c].confirmed = call[c].confirmed
    BY <1>3 DEF TypeOK, Crash, Call
  <2>2. applied[c] \in {0, 1}
    BY <1>1 DEF OneRequest
  <2>3. OneRequest(c)'
    BY <1>1, <2>1 DEF OneRequest, BeforeRequest, At
  <2>4. LogTellsTruth(c)'
    BY <1>1, <2>1 DEF LogTellsTruth, AfterAudit, Logged
  <2> QED
    BY <2>3, <2>4
<1> QED
  BY <1>2, <1>3

\* Every step keeps the invariant.
LEMMA WriteStep == TypeOK /\ WriteInv /\ [Next]_vars => WriteInv'
<1> SUFFICES ASSUME TypeOK, WriteInv, [Next]_vars
             PROVE  WriteInv'
  OBVIOUS
<1>1. ASSUME NEW c \in Calls, ServerStep(c), UNCHANGED writesEnabled
      PROVE  WriteInv'
  <2>1. OneRequest(c)' /\ LogTellsTruth(c)'
    BY <1>1, ServerKeeps DEF WriteInv
  <2>2. \A d \in Calls \ {c} : OneRequest(d)' /\ LogTellsTruth(d)'
    BY <1>1, ServerTouchesOne, Untouched DEF WriteInv
  <2> QED
    BY <2>1, <2>2 DEF WriteInv
<1>2. CASE DocmostStep /\ UNCHANGED writesEnabled
  BY <1>2, DocmostKeeps DEF DocmostStep
<1>3. CASE Crash /\ UNCHANGED writesEnabled
  BY <1>3, CrashKeeps
<1>4. CASE UNCHANGED vars
  BY <1>4 DEF vars, WriteInv, OneRequest, LogTellsTruth, Sent, At, Logged
<1> QED
  BY <1>1, <1>2, <1>3, <1>4 DEF Next

\* In every state the types and the invariant hold.
LEMMA WriteInvariant == Spec => [](TypeOK /\ WriteInv)
<1>1. Init => TypeOK /\ WriteInv
  BY TypeInit, WriteInit
<1>2. TypeOK /\ WriteInv /\ [Next]_vars => (TypeOK /\ WriteInv)'
  BY TypeStep, WriteStep
<1> QED
  BY <1>1, <1>2, PTL DEF Spec

-----------------------------------------------------------------------------
\* Whatever reaches Docmost is a confirmed mutation on a server with writes
\* enabled, and the log says so already (server.rs:54-71).
THEOREM Authorized == Spec => []AuthorizedBeforeDispatch
<1>1. TypeOK /\ WriteInv => AuthorizedBeforeDispatch
  <2> SUFFICES ASSUME WriteInv, NEW c \in Calls,
                      applied[c] > 0 \/ (\E n \in 1..2 : <<c, n>> \in wire)
               PROVE  writesEnabled /\ call[c].confirmed /\ Logged(c, "authorized")
    BY DEF AuthorizedBeforeDispatch
  <2>1. applied[c] > 0 \/ Sent(c) # {}
    BY DEF Sent
  <2> QED
    BY <2>1 DEF WriteInv, LogTellsTruth
<1> QED
  BY <1>1, WriteInvariant, PTL

\* The retry after a 401 never makes Docmost carry out a call twice
\* (docmost_client/mod.rs:323-332).
THEOREM AppliedOnce == Spec => []AppliedAtMostOnce
<1>1. TypeOK /\ WriteInv => AppliedAtMostOnce
  BY DEF WriteInv, OneRequest, AppliedAtMostOnce
<1> QED
  BY <1>1, WriteInvariant, PTL

\* A mutation that the log calls succeeded was carried out (server.rs:72-80).
THEOREM SucceededApplied == Spec => []SucceededWasApplied
<1>1. TypeOK /\ WriteInv => SucceededWasApplied
  BY DEF WriteInv, LogTellsTruth, SucceededWasApplied
<1> QED
  BY <1>1, WriteInvariant, PTL

\* Nothing is sent for a call that was blocked or whose outcome is logged: a
\* request is put on the wire by a step of its own call only, which has then
\* no outcome yet.
THEOREM Final == Spec => OutcomeIsFinal
<1> DEFINE Over(c) == Logged(c, "succeeded") \/ Logged(c, "failed") \/ At(c, "blocked")
           Sends(c) == \E n \in 1..2 : <<c, n>> \in wire' /\ <<c, n>> \notin wire
<1>1. TypeOK /\ WriteInv /\ [Next]_vars => \A c \in Calls : Over(c) => ~Sends(c)
  <2> SUFFICES ASSUME TypeOK, WriteInv, [Next]_vars, NEW c \in Calls, Sends(c)
               PROVE  ~Over(c)
    OBVIOUS
  <2>1. \E d \in Calls : ServerStep(d)
    BY DEF Next, vars, DocmostStep, DocmostApplies, DocmostRefuses,
           DocmostUnauthorized, Reply, Crash
  <2> PICK d \in Calls : ServerStep(d)
    BY <2>1
  <2>2. /\ Dispatch(d) \/ Retry(d)
        /\ \E n \in 1..2 : Send(d, n)
    BY DEF ServerStep, Gate, Authorize, Locate, Dispatch, Retry, LoseConnection,
           Verify, Conclude
  <2>3. d = c
    BY <2>2 DEF Send
  <2>4. call[c].at \in {"session", "unauthorized"}
    BY <2>2, <2>3 DEF Dispatch, Retry, At
  <2> QED
    BY <2>4 DEF WriteInv, LogTellsTruth, At
<1>2. TypeOK /\ WriteInv /\ [Next]_vars
        => [\A c \in Calls :
              Logged(c, "succeeded") \/ Logged(c, "failed") \/ At(c, "blocked")
                => \A n \in 1..2 : <<c, n>> \in wire' => <<c, n>> \in wire]_vars
  BY <1>1
<1> QED
  BY <1>2, WriteInvariant, PTL DEF Spec, OutcomeIsFinal

=============================================================================
