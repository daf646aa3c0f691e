--------------------------- MODULE AuditedWrites ---------------------------
(***************************************************************************)
(* The write gate (run_write, src/src/server.rs), the audit log it writes  *)
(* (src/src/audit.rs) and the POST with its single retry after a 401       *)
(* (src/src/docmost_client/), for concurrent mutating tool calls.          *)
(*                                                                         *)
(* Docmost is external: a request on the wire may be refused, applied, or  *)
(* applied after the client has given it up.  A 401 means not applied.     *)
(***************************************************************************)
EXTENDS Naturals, Sequences, SequencesExt

CONSTANT Calls  \* mutating tool calls

VARIABLES
  writesEnabled,  \* DOCMOST_MCP_ENABLE_WRITES, read when the server starts
  call,           \* each tool call: where it is, what it is, what it learnt
  log,            \* the audit log
  wire,           \* requests sent to Docmost and not yet processed
  applied         \* how many times Docmost carried out each call

vars == <<writesEnabled, call, log, wire, applied>>

\* "plain": a POST whose reply carries data; "discard": one whose reply is
\* only checked for its status; "move": reads, a "discard" POST, a read.
Kinds == {"plain", "discard", "move"}

Steps == {"new", "refused", "authorize", "blocked", "locate", "session",
          "waiting", "unauthorized", "verify", "succeeded", "failed",
          "done", "dead"}

Call == [at : Steps, kind : Kinds, confirmed : BOOLEAN, attempt : 1..2]

Init ==
  /\ writesEnabled \in BOOLEAN
  /\ call \in [Calls -> {[at |-> "new", kind |-> k, confirmed |-> f, attempt |-> 1] :
                           k \in Kinds, f \in BOOLEAN}]
  /\ log = <<>>
  /\ wire = {}
  /\ applied = [c \in Calls |-> 0]

At(c, step) == call[c].at = step
Goto(c, step) == call' = [call EXCEPT ![c].at = step]
Record(c, status) == log' = Append(log, [call |-> c, status |-> status])

\* record_mutation appends a line, or fails before or after the append.
Audit(c, status, done, error) ==
  \/ Record(c, status) /\ Goto(c, done)
  \/ Record(c, status) /\ Goto(c, error)
  \/ UNCHANGED log /\ Goto(c, error)

-----------------------------------------------------------------------------
\* Mutant of Gate: either condition is enough.
LaxGate(c) ==
  /\ At(c, "new")
  /\ Goto(c, IF writesEnabled \/ call[c].confirmed THEN "authorize" ELSE "refused")
  /\ UNCHANGED <<log, wire, applied>>

\* run_write: disabled and unconfirmed mutations are refused.
Gate(c) ==
  /\ At(c, "new")
  /\ Goto(c, IF writesEnabled /\ call[c].confirmed THEN "authorize" ELSE "refused")
  /\ UNCHANGED <<log, wire, applied>>

\* A mutation that cannot be recorded as authorized is blocked.
Authorize(c) ==
  /\ At(c, "authorize")
  /\ Audit(c, "authorized",
           IF call[c].kind = "move" THEN "locate" ELSE "session", "blocked")
  /\ UNCHANGED <<wire, applied>>

\* move_page reads the page, the parent and the siblings first.
Locate(c) ==
  /\ At(c, "locate")
  /\ \E step \in {"session", "failed"} : Goto(c, step)
  /\ UNCHANGED <<log, wire, applied>>

Send(c, attempt) ==
  /\ wire' = wire \cup {<<c, attempt>>}
  /\ call' = [call EXCEPT ![c].at = "waiting", ![c].attempt = attempt]

\* get_authenticated_session, then the POST.
Dispatch(c) ==
  /\ At(c, "session")
  /\ \/ Send(c, 1)
     \/ Goto(c, "failed") /\ UNCHANGED wire
  /\ UNCHANGED <<log, applied>>

\* After a 401, reauthenticate and send once more; a second 401 is an error.
Retry(c) ==
  /\ At(c, "unauthorized")
  /\ \/ call[c].attempt = 1 /\ Send(c, 2)
     \/ Goto(c, "failed") /\ UNCHANGED wire
  /\ UNCHANGED <<log, applied>>

\* Mutant of LoseConnection: a broken connection is retried like a 401.
RetryLostConnection(c) ==
  /\ At(c, "waiting")
  /\ Goto(c, "unauthorized")
  /\ wire' \in {wire, wire \ {<<c, call[c].attempt>>}}
  /\ UNCHANGED <<log, applied>>

\* send() fails: the connection broke, the request may still be under way.
LoseConnection(c) ==
  /\ At(c, "waiting")
  /\ Goto(c, "failed")
  /\ wire' \in {wire, wire \ {<<c, call[c].attempt>>}}
  /\ UNCHANGED <<log, applied>>

\* move_page reads the page back; a failure is reported as that of the move.
Verify(c) ==
  /\ At(c, "verify")
  /\ \E step \in {"succeeded", "failed"} : Goto(c, step)
  /\ UNCHANGED <<log, wire, applied>>

\* Mutant of Conclude: whatever the outcome, it is logged as a success.
ConcludeSucceeded(c) ==
  /\ At(c, "succeeded") \/ At(c, "failed")
  /\ Audit(c, "succeeded", "done", "done")
  /\ UNCHANGED <<wire, applied>>

\* Mutant of Conclude: a failed mutation is dispatched once more.
ConcludeAndRepeat(c) ==
  /\ At(c, "succeeded") \/ At(c, "failed")
  /\ Audit(c, call[c].at, IF At(c, "failed") THEN "session" ELSE "done", "done")
  /\ UNCHANGED <<wire, applied>>

\* The outcome is recorded; failing to do so is only logged by the server.
Conclude(c) ==
  /\ At(c, "succeeded") \/ At(c, "failed")
  /\ Audit(c, call[c].at, "done", "done")
  /\ UNCHANGED <<wire, applied>>

-----------------------------------------------------------------------------
\* Docmost's reply reaches the call that waits for it, if it still does.
Reply(m, step) ==
  /\ wire' = wire \ {m}
  /\ call' = IF At(m[1], "waiting") /\ call[m[1]].attempt = m[2]
             THEN [call EXCEPT ![m[1]].at = step] ELSE call

\* What a successful reply is for each kind of call.
Accepted(c) ==
  CASE call[c].kind = "move" -> "verify" [] OTHER -> "succeeded"

\* Docmost carries out the request; its reply may be lost, or unreadable to a
\* call that needs the data in it.
DocmostApplies(m) ==
  /\ applied' = [applied EXCEPT ![m[1]] = @ + 1]
  /\ \/ Reply(m, Accepted(m[1]))
     \/ Reply(m, "failed")
  /\ UNCHANGED log

DocmostRefuses(m) ==
  /\ Reply(m, "failed")
  /\ UNCHANGED <<log, applied>>

DocmostUnauthorized(m) ==
  /\ Reply(m, "unauthorized")
  /\ UNCHANGED <<log, applied>>

\* The server exits: its calls stop where they are, the log stays.
Crash ==
  /\ \E c \in Calls : call[c].at \notin {"new", "dead"}
  /\ call' = [c \in Calls |->
       IF At(c, "new") THEN call[c] ELSE [call[c] EXCEPT !.at = "dead"]]
  /\ UNCHANGED <<log, wire, applied>>

ServerStep(c) ==
  \/ Gate(c) \/ Authorize(c) \/ Locate(c) \/ Dispatch(c) \/ Retry(c)
  \/ LoseConnection(c) \/ Verify(c) \/ Conclude(c)

DocmostStep ==
  \E m \in wire : DocmostApplies(m) \/ DocmostRefuses(m) \/ DocmostUnauthorized(m)

Next ==
  /\ (\E c \in Calls : ServerStep(c)) \/ DocmostStep \/ Crash
  /\ UNCHANGED writesEnabled

Spec == Init /\ [][Next]_vars

-----------------------------------------------------------------------------
\* The values of the variables.
TypeOK ==
  /\ writesEnabled \in BOOLEAN
  /\ call \in [Calls -> Call]
  /\ log \in Seq([call : Calls, status : {"authorized", "succeeded", "failed"}])
  /\ wire \subseteq Calls \X (1..2)
  /\ applied \in [Calls -> Nat]

Logged(c, status) == Contains(log, [call |-> c, status |-> status])

\* Whatever reaches Docmost is a confirmed mutation on a server with writes
\* enabled, and the log says so already (server.rs:54-70 precede 71; also in
\* docs/write-tools.md:25-28).
AuthorizedBeforeDispatch ==
  \A c \in Calls :
    applied[c] > 0 \/ (\E n \in 1..2 : <<c, n>> \in wire)
      => writesEnabled /\ call[c].confirmed /\ Logged(c, "authorized")

\* The retry never makes Docmost carry out a call twice
\* (docmost_client/mod.rs:323-332 resend after a 401 only).
AppliedAtMostOnce == \A c \in Calls : applied[c] <= 1

\* A mutation the log calls succeeded was carried out.
SucceededWasApplied ==
  \A c \in Calls : Logged(c, "succeeded") => applied[c] = 1

\* Once the log holds the outcome of a call, or the call was blocked, nothing
\* more is sent for it.
OutcomeIsFinal ==
  [][\A c \in Calls :
       Logged(c, "succeeded") \/ Logged(c, "failed") \/ At(c, "blocked")
         => \A n \in 1..2 : <<c, n>> \in wire' => <<c, n>> \in wire]_vars
=============================================================================
