---------------------------- MODULE LocalSignIn ----------------------------
(***************************************************************************)
(* Interactive sign-in of the local server: prompt_for_login               *)
(* (src/src/auth/manager.rs) starts a LocalAuthServer                      *)
(* (src/src/auth/local_server.rs), opens its page in the browser and waits *)
(* for one outcome.  A form submission, a visit to /success or the timer   *)
(* may settle it; whoever swaps `settled` first sends the outcome and then *)
(* asks the server to shut down.  A submission stores the config, the      *)
(* session and the credentials in three writes; the prompt reads the       *)
(* config and the session back when it is told of success.                 *)
(***************************************************************************)
EXTENDS Naturals, FiniteSets

CONSTANTS
  Submissions,  \* POST /auth requests
  Visits,       \* GET /success requests
  Timer,        \* the timeout task
  Accounts,     \* accounts a form may name
  Old,          \* the account of an earlier sign-in
  None

ASSUME SignInConstants ==
  /\ Old \notin Accounts /\ None \notin Accounts \cup {Old}
  /\ Timer \notin Submissions \cup Visits /\ Submissions \cap Visits = {}

VARIABLES
  store,      \* the account in the config and in the session file
  settled,    \* the flag of SharedState
  outcome,    \* what the completion channel carries
  shutdown,   \* the shutdown signal was sent
  server,     \* the axum task
  timer,      \* the timeout task
  form,       \* each submission
  finisher,   \* each call of finish
  prompt,     \* prompt_for_login
  result      \* what prompt_for_login returns

channel == <<settled, outcome, shutdown>>
tasks == <<server, timer>>
caller == <<prompt, result>>
vars == <<store, channel, tasks, form, finisher, caller>>

Stored == Accounts \cup {Old, None}

Finishers == Submissions \cup Visits \cup {Timer}

Handled == {"login", "write_config", "write_session", "write_credentials"}

\* The handler is gone and the write of one file is still to land.
Late == {"late_config", "late_session"}

FormSteps == {"idle", "answered", "over"} \cup Handled \cup Late

PromptSteps == {"launch", "gave_up", "wait", "read_config", "read_session",
                "abort_timer", "signal", "drain", "returned"}

Init ==
  /\ \E old \in {Old, None} : store = [config |-> old, session |-> old]
  /\ settled = FALSE
  /\ outcome = "empty"
  /\ shutdown = FALSE
  /\ server = "running"
  /\ timer = "sleeping"
  /\ form = [s \in Submissions |-> [at |-> "idle", account |-> None]]
  /\ finisher = [f \in Finishers |-> "idle"]
  /\ prompt = "launch"
  /\ result = [config |-> None, session |-> None]

\* axum takes new connections until the shutdown signal.
Accepting == server = "running" /\ ~shutdown

-----------------------------------------------------------------------------
\* auth: the submission logs in at Docmost through AuthManager::login.
Submit(s, a) ==
  /\ Accepting
  /\ form[s].at = "idle"
  /\ form' = [form EXCEPT ![s] = [at |-> "login", account |-> a]]
  /\ UNCHANGED <<store, channel, tasks, finisher, caller>>

FormGoto(s, step) == form' = [form EXCEPT ![s].at = step]

LogIn(s) ==
  /\ form[s].at = "login"
  /\ FormGoto(s, "write_config")
  /\ UNCHANGED <<store, channel, tasks, finisher, caller>>

\* Mutant of WriteConfig: the sign-in is settled when the config is stored.
WriteConfigAndSettle(s) ==
  /\ form[s].at = "write_config"
  /\ store' = [store EXCEPT !.config = form[s].account]
  /\ finisher' = [finisher EXCEPT ![s] = "settle"]
  /\ FormGoto(s, "write_session")
  /\ UNCHANGED <<channel, tasks, caller>>

WriteConfig(s) ==
  /\ form[s].at = "write_config"
  /\ store' = [store EXCEPT !.config = form[s].account]
  /\ FormGoto(s, "write_session")
  /\ UNCHANGED <<channel, tasks, finisher, caller>>

WriteSession(s) ==
  /\ form[s].at = "write_session"
  /\ store' = [store EXCEPT !.session = form[s].account]
  /\ FormGoto(s, "write_credentials")
  /\ UNCHANGED <<channel, tasks, finisher, caller>>

\* The credentials are stored; a task is spawned to settle the sign-in, and
\* the form is told of success.
WriteCredentials(s) ==
  /\ form[s].at = "write_credentials"
  /\ finisher' = [finisher EXCEPT ![s] = "settle"]
  /\ FormGoto(s, "answered")
  /\ UNCHANGED <<store, channel, tasks, caller>>

InProgress(s) == form[s].at \in Handled

\* Docmost refuses the login or a write fails: the answer is 400, and earlier
\* writes stay.
FormFails(s) ==
  /\ InProgress(s)
  /\ FormGoto(s, "over")
  /\ UNCHANGED <<store, channel, tasks, finisher, caller>>

\* The browser closes the connection and the handler is dropped where it is.
\* The file operation it awaits goes on: when that is the rename, the file is
\* replaced all the same (the credentials are not part of the store).
CloseConnection(s) ==
  /\ InProgress(s)
  /\ \/ FormGoto(s, "over")
     \/ form[s].at = "write_config" /\ FormGoto(s, "late_config")
     \/ form[s].at = "write_session" /\ FormGoto(s, "late_session")
  /\ UNCHANGED <<store, channel, tasks, finisher, caller>>

\* The file operation of a dropped handler ends, perhaps when the server has
\* stopped and the prompt has returned.
Land(s) ==
  /\ \/ form[s].at = "late_config"
        /\ store' = [store EXCEPT !.config = form[s].account]
     \/ form[s].at = "late_session"
        /\ store' = [store EXCEPT !.session = form[s].account]
  /\ FormGoto(s, "over")
  /\ UNCHANGED <<channel, tasks, finisher, caller>>

\* success: the page settles the sign-in, whether or not anyone logged in.
VisitSuccess(v) ==
  /\ Accepting
  /\ finisher[v] = "idle"
  /\ finisher' = [finisher EXCEPT ![v] = "settle"]
  /\ UNCHANGED <<store, channel, tasks, form, caller>>

\* Mutant of TimerFires: the timeout settles nothing.
TimerOnlyLogs ==
  /\ timer = "sleeping"
  /\ timer' = "fired"
  /\ UNCHANGED <<store, channel, server, form, finisher, caller>>

TimerFires ==
  /\ timer = "sleeping"
  /\ timer' = "fired"
  /\ finisher' = [finisher EXCEPT ![Timer] = "settle"]
  /\ UNCHANGED <<store, channel, server, form, caller>>

-----------------------------------------------------------------------------
\* Mutant of Settle: the flag is set without looking at it.
SettleAlways(f) ==
  /\ finisher[f] = "settle"
  /\ settled' = TRUE
  /\ finisher' = [finisher EXCEPT ![f] = "send"]
  /\ UNCHANGED <<store, outcome, shutdown, tasks, form, caller>>

\* finish: swap the flag, send the outcome, send the shutdown signal.
Settle(f) ==
  /\ finisher[f] = "settle"
  /\ settled' = TRUE
  /\ finisher' = [finisher EXCEPT ![f] = IF settled THEN "late" ELSE "send"]
  /\ UNCHANGED <<store, outcome, shutdown, tasks, form, caller>>

SendOutcome(f) ==
  /\ finisher[f] = "send"
  /\ outcome' = IF f = Timer THEN "timed_out" ELSE "signed_in"
  /\ finisher' = [finisher EXCEPT ![f] = "signal"]
  /\ UNCHANGED <<store, settled, shutdown, tasks, form, caller>>

\* Mutant of SendShutdown: the winner does not stop the server.
SkipShutdown(f) ==
  /\ finisher[f] = "signal"
  /\ finisher' = [finisher EXCEPT ![f] = "won"]
  /\ UNCHANGED <<store, channel, tasks, form, caller>>

SendShutdown(f) ==
  /\ finisher[f] = "signal"
  /\ shutdown' = TRUE
  /\ finisher' = [finisher EXCEPT ![f] = "won"]
  /\ UNCHANGED <<store, settled, outcome, tasks, form, caller>>

\* Mutant of ServerStops: requests in progress are not waited for.
ServerStopsAtOnce ==
  /\ server = "running" /\ shutdown
  /\ server' = "stopped"
  /\ UNCHANGED <<store, channel, timer, form, finisher, caller>>

\* Graceful shutdown: the requests in progress are answered first; axum knows
\* nothing of the file operation of a closed connection.
ServerStops ==
  /\ server = "running" /\ shutdown
  /\ ~\E s \in Submissions : InProgress(s)
  /\ server' = "stopped"
  /\ UNCHANGED <<store, channel, timer, form, finisher, caller>>

-----------------------------------------------------------------------------
NoSession == [config |-> None, session |-> None]

\* The page is opened in the browser; when that fails prompt_for_login returns
\* at once and leaves the server to its timer.
Launch ==
  /\ prompt = "launch"
  /\ prompt' \in {"wait", "gave_up"}
  /\ UNCHANGED <<store, channel, tasks, form, finisher, result>>

Receive ==
  /\ prompt = "wait"
  /\ outcome # "empty"
  /\ prompt' = IF outcome = "signed_in" THEN "read_config" ELSE "abort_timer"
  /\ UNCHANGED <<store, channel, tasks, form, finisher, result>>

\* The saved config and session are read one after the other; an absent file
\* is an error.
ReadConfig ==
  /\ prompt = "read_config"
  /\ result' = [result EXCEPT !.config = store.config]
  /\ prompt' = IF store.config = None THEN "abort_timer" ELSE "read_session"
  /\ UNCHANGED <<store, channel, tasks, form, finisher>>

ReadSession ==
  /\ prompt = "read_session"
  /\ result' = IF store.session = None THEN NoSession
               ELSE [result EXCEPT !.session = store.session]
  /\ prompt' = "abort_timer"
  /\ UNCHANGED <<store, channel, tasks, form, finisher>>

\* stop: abort the timer wherever it is, signal, await the server.
AbortTimer ==
  /\ prompt = "abort_timer"
  /\ timer' = "aborted"
  /\ finisher' = [finisher EXCEPT ![Timer] =
       IF @ \in {"settle", "send", "signal"} THEN "aborted" ELSE @]
  /\ prompt' = "signal"
  /\ UNCHANGED <<store, channel, server, form, result>>

Signal ==
  /\ prompt = "signal"
  /\ shutdown' = TRUE
  /\ prompt' = "drain"
  /\ UNCHANGED <<store, settled, outcome, tasks, form, finisher, result>>

Drain ==
  /\ prompt = "drain"
  /\ server = "stopped"
  /\ prompt' = "returned"
  /\ UNCHANGED <<store, channel, tasks, form, finisher, result>>

FormStep(s) ==
  \/ \E a \in Accounts : Submit(s, a)
  \/ LogIn(s) \/ WriteConfig(s) \/ WriteSession(s) \/ WriteCredentials(s)
  \/ FormFails(s) \/ CloseConnection(s) \/ Land(s)

Finish(f) == Settle(f) \/ SendOutcome(f) \/ SendShutdown(f)

PromptStep ==
  \/ Launch \/ Receive \/ ReadConfig \/ ReadSession \/ AbortTimer \/ Signal \/ Drain

Next ==
  \/ \E s \in Submissions : FormStep(s)
  \/ \E v \in Visits : VisitSuccess(v)
  \/ TimerFires
  \/ \E f \in Finishers : Finish(f)
  \/ ServerStops
  \/ PromptStep

\* The timer fires, spawned tasks run and the prompt goes on; nothing is
\* assumed of the user, and a login may hang (its HTTP client has no timeout).
Fairness ==
  /\ WF_vars(TimerFires)
  /\ \A f \in Finishers : WF_vars(Finish(f))
  /\ WF_vars(PromptStep)

Spec == Init /\ [][Next]_vars /\ Fairness

-----------------------------------------------------------------------------
\* The values of the variables.
TypeOK ==
  /\ store \in [config : Stored, session : Stored]
  /\ settled \in BOOLEAN /\ shutdown \in BOOLEAN
  /\ outcome \in {"empty", "signed_in", "timed_out"}
  /\ server \in {"running", "stopped"}
  /\ timer \in {"sleeping", "fired", "aborted"}
  /\ form \in [Submissions -> [at : FormSteps, account : Accounts \cup {None}]]
  /\ finisher \in [Finishers -> {"idle", "settle", "send", "signal", "won",
                                 "late", "aborted"}]
  /\ prompt \in PromptSteps
  /\ result \in [config : Stored, session : Stored]

\* The outcome the prompt acts on is the first one: a form that succeeds as the
\* timer fires, or a second form, does not replace it (local_server.rs:315).
FirstOutcomeStands ==
  [][outcome # "empty" => outcome' = outcome]_vars

\* When prompt_for_login returns after waiting, every submission is answered,
\* refused or dropped: the graceful shutdown has drained them
\* (manager.rs:326-329).  What may still be written is one file for each closed
\* connection, and nothing follows that file.
NoSubmissionLeftBehind ==
  prompt = "returned" =>
    \A s \in Submissions : form[s].at \in {"idle", "answered", "over"} \cup Late

\* A sign-in settled by a form returns the config and the token of one account,
\* an account signed in here, as long as the forms name no other one.
FormsAgree ==
  \A s, t \in Submissions :
    None \notin {form[s].account, form[t].account}
      => form[s].account = form[t].account

SessionOfNamedAccount ==
  /\ FormsAgree
  /\ \E s \in Submissions : finisher[s] \in {"send", "signal", "won"}
  /\ prompt \in {"abort_timer", "signal", "drain", "returned"}
  => result.config = result.session /\ result.session \in Accounts

\* The prompt does not wait for ever: the timer settles what nobody settles,
\* even if a login hangs.
WaitEnds == prompt = "wait" ~> prompt # "wait"

\* The server is always told to shut down, also when its page never opened and
\* prompt_for_login has long returned.
ServerToldToStop == <>shutdown
=============================================================================
