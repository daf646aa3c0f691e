------------------------- MODULE LocalSignIn_proofs -------------------------
(***************************************************************************)
(* Theorems about the interactive sign-in for any number of submissions,   *)
(* visits and accounts.                                                    *)
(***************************************************************************)
EXTENDS LocalSignIn, TLAPS

Winning == {"send", "signal", "won"}
Told == {"read_config", "read_session", "abort_timer", "signal", "drain", "returned"}
Read == {"abort_timer", "signal", "drain", "returned"}

\* One call of finish at most wins the flag, and the outcome is its outcome.
OneWinner ==
  /\ \A f, g \in Finishers :
       finisher[f] \in Winning /\ finisher[g] \in Winning => f = g
  /\ \A f \in Finishers : finisher[f] \in Winning => settled
  /\ outcome # "empty" => settled /\ \A f \in Finishers : finisher[f] # "send"
  /\ outcome = "timed_out" => \A s \in Submissions : finisher[s] \notin Winning
  /\ prompt \in Told => outcome # "empty"
  /\ prompt \in {"read_config", "read_session"} => outcome = "signed_in"

\* A server that stopped has no request in progress and takes no other one.
Drained ==
  /\ server = "stopped" => shutdown /\ ~\E s \in Submissions : InProgress(s)
  /\ prompt = "returned" => server = "stopped"

\* A submission settles the sign-in when it has written everything.
Answered ==
  \A s \in Submissions :
    /\ finisher[s] # "idle" => form[s].at = "answered"
    /\ form[s].account = None <=> form[s].at = "idle"

\* While the forms name one account, the store has it where a form wrote it.
Written(s) ==
  /\ form[s].at \in {"write_session", "write_credentials", "answered"}
       => store.config = form[s].account
  /\ form[s].at \in {"write_credentials", "answered"}
       => store.session = form[s].account

\* The prompt that follows a form reads what the form has written.
ReadBack(s) ==
  finisher[s] \in Winning =>
    /\ prompt \in {"read_session"} \cup Read => result.config = form[s].account
    /\ prompt \in Read => result.session = form[s].account

FormInv == FormsAgree => \A s \in Submissions : Written(s) /\ ReadBack(s)

SignInInv == OneWinner /\ Drained /\ Answered /\ FormInv

-----------------------------------------------------------------------------
\* The variables start with their types.
LEMMA TypeInit == Init => TypeOK
<1> SUFFICES ASSUME Init
             PROVE  TypeOK
  OBVIOUS
<1>1. store \in [config : Stored, session : Stored]
  BY DEF Init, Stored
<1>2. result \in [config : Stored, session : Stored]
  BY DEF Init, Stored
<1>3. form \in [Submissions -> [at : FormSteps, account : Accounts \cup {None}]]
  BY DEF Init, FormSteps
<1> QED
  BY <1>1, <1>2, <1>3 DEF Init, TypeOK, PromptSteps

\* Every step keeps the types.
LEMMA TypeStep == TypeOK /\ [Next]_vars => TypeOK'
<1> SUFFICES ASSUME TypeOK, [Next]_vars
             PROVE  TypeOK'
  OBVIOUS
<1> USE DEF TypeOK, channel, tasks, caller, FormGoto, FormSteps, Handled, Late,
          PromptSteps
<1>1. ASSUME NEW s \in Submissions, FormStep(s)
      PROVE  TypeOK'
  <2>1. s \in Finishers
    BY DEF Finishers
  <2>2. ASSUME NEW a \in Accounts, Submit(s, a)
        PROVE  TypeOK'
    BY <2>2 DEF Submit
  <2>3. CASE LogIn(s) \/ FormFails(s) \/ CloseConnection(s)
    BY <2>3 DEF LogIn, FormFails, CloseConnection
  <2>4. CASE WriteConfig(s) \/ WriteSession(s) \/ Land(s)
    BY <2>4 DEF WriteConfig, WriteSession, Land, Stored
  <2>5. CASE WriteCredentials(s)
    BY <2>1, <2>5 DEF WriteCredentials
  <2> QED
    BY <1>1, <2>2, <2>3, <2>4, <2>5 DEF FormStep
<1>2. ASSUME NEW v \in Visits, VisitSuccess(v)
      PROVE  TypeOK'
  BY <1>2 DEF VisitSuccess, Finishers
<1>3. CASE TimerFires
  BY <1>3 DEF TimerFires, Finishers
<1>4. ASSUME NEW f \in Finishers, Finish(f)
      PROVE  TypeOK'
  BY <1>4 DEF Finish, Settle, SendOutcome, SendShutdown
<1>5. CASE ServerStops
  BY <1>5 DEF ServerStops
<1>6. CASE PromptStep
  <2>1. CASE Launch \/ Receive \/ Signal \/ Drain
    BY <2>1 DEF Launch, Receive, Signal, Drain
  <2>2. CASE ReadConfig \/ ReadSession
    BY <2>2 DEF ReadConfig, ReadSession, NoSession, Stored
  <2>3. CASE AbortTimer
    BY <2>3 DEF AbortTimer, Finishers
  <2> QED
    BY <1>6, <2>1, <2>2, <2>3 DEF PromptStep
<1>7. CASE UNCHANGED vars
  BY <1>7 DEF vars
<1> QED
  BY <1>1, <1>2, <1>3, <1>4, <1>5, <1>6, <1>7 DEF Next

\* The variables keep their types.
THEOREM TypeCorrect == Spec => []TypeOK
BY TypeInit, TypeStep, PTL DEF Spec

-----------------------------------------------------------------------------
\* The flag is swapped once, and the outcome is sent by who swapped it.
LEMMA WinnerStep == TypeOK /\ OneWinner /\ [Next]_vars => OneWinner'
<1> SUFFICES ASSUME TypeOK, OneWinner, [Next]_vars
             PROVE  OneWinner'
  OBVIOUS
<1> USE DEF TypeOK, OneWinner, channel, tasks, caller, Winning, Told
<1>1. ASSUME NEW s \in Submissions, FormStep(s)
      PROVE  OneWinner'
  <2>1. s \in Finishers
    BY DEF Finishers
  <2>2. CASE UNCHANGED <<finisher, channel, prompt>>
    BY <2>2
  <2>3. CASE WriteCredentials(s)
    BY <2>1, <2>3 DEF WriteCredentials, Finishers
  <2> QED
    BY <1>1, <2>2, <2>3 DEF FormStep, Submit, LogIn, WriteConfig, WriteSession, FormFails,
                      CloseConnection, Land
<1>2. ASSUME NEW v \in Visits, VisitSuccess(v)
      PROVE  OneWinner'
  BY <1>2 DEF VisitSuccess, Finishers
<1>3. CASE TimerFires
  BY <1>3 DEF TimerFires, Finishers
<1>4. ASSUME NEW f \in Finishers, Finish(f)
      PROVE  OneWinner'
  <2>1. CASE Settle(f)
    BY <2>1 DEF Settle, Finishers
  <2>2. CASE SendOutcome(f)
    <3>1. f = Timer => \A s \in Submissions : s # f
      BY SignInConstants
    <3> QED
      BY <2>2, <3>1 DEF SendOutcome, Finishers
  <2>3. CASE SendShutdown(f)
    BY <2>3 DEF SendShutdown, Finishers
  <2> QED
    BY <1>4, <2>1, <2>2, <2>3 DEF Finish
<1>5. CASE ServerStops
  BY <1>5 DEF ServerStops
<1>6. CASE PromptStep
  <2>1. CASE AbortTimer
    BY <2>1 DEF AbortTimer, Finishers
  <2>2. CASE Launch \/ Receive \/ ReadConfig \/ ReadSession \/ Signal \/ Drain
    BY <2>2 DEF Launch, Receive, ReadConfig, ReadSession, Signal, Drain
  <2> QED
    BY <1>6, <2>1, <2>2 DEF PromptStep
<1>7. CASE UNCHANGED vars
  BY <1>7 DEF vars
<1> QED
  BY <1>1, <1>2, <1>3, <1>4, <1>5, <1>6, <1>7 DEF Next

\* The server stops when nothing is in progress, and takes nothing after that.
LEMMA DrainedStep == TypeOK /\ Drained /\ [Next]_vars => Drained'
<1> SUFFICES ASSUME TypeOK, Drained, [Next]_vars
             PROVE  Drained'
  OBVIOUS
<1> USE DEF TypeOK, Drained, channel, tasks, caller, InProgress
<1>1. ASSUME NEW s \in Submissions, FormStep(s)
      PROVE  Drained'
  <2>1. UNCHANGED <<server, prompt, shutdown>>
    BY <1>1 DEF FormStep, Submit, LogIn, WriteConfig, WriteSession,
                WriteCredentials, FormFails, CloseConnection, Land
  <2>2. \/ server = "running"
        \/ \A t \in Submissions : InProgress(t)' => InProgress(t)
    BY <1>1 DEF FormStep, Submit, Accepting, LogIn, WriteConfig, WriteSession,
                WriteCredentials, FormFails, CloseConnection, Land, FormGoto,
                Handled
  <2> QED
    BY <2>1, <2>2
<1>2. CASE \/ \E v \in Visits : VisitSuccess(v)
           \/ TimerFires
           \/ \E f \in Finishers : Finish(f)
  BY <1>2 DEF VisitSuccess, TimerFires, Finish, Settle, SendOutcome, SendShutdown
<1>3. CASE ServerStops
  BY <1>3 DEF ServerStops
<1>4. CASE PromptStep
  BY <1>4 DEF PromptStep, Launch, Receive, ReadConfig, ReadSession, AbortTimer,
              Signal, Drain
<1>5. CASE UNCHANGED vars
  BY <1>5 DEF vars
<1> QED
  BY <1>1, <1>2, <1>3, <1>4, <1>5 DEF Next

\* A submission calls finish after its last write.
LEMMA AnsweredStep == TypeOK /\ Answered /\ [Next]_vars => Answered'
<1> SUFFICES ASSUME TypeOK, Answered, [Next]_vars
             PROVE  Answered'
  OBVIOUS
<1> USE SignInConstants
    DEF TypeOK, Answered, channel, tasks, caller, FormGoto, Finishers
<1>1. ASSUME NEW s \in Submissions, FormStep(s)
      PROVE  Answered'
  <2>1. CASE WriteCredentials(s)
    BY <2>1 DEF WriteCredentials
  <2>2. CASE ~WriteCredentials(s)
    BY <1>1, <2>2 DEF FormStep, Submit, LogIn, WriteConfig, WriteSession, FormFails,
                      CloseConnection, Land, InProgress, Handled
  <2> QED
    BY <2>1, <2>2
<1>2. CASE \E v \in Visits : VisitSuccess(v)
  BY <1>2 DEF VisitSuccess
<1>3. CASE TimerFires
  BY <1>3 DEF TimerFires
<1>4. CASE \E f \in Finishers : Finish(f)
  BY <1>4 DEF Finish, Settle, SendOutcome, SendShutdown
<1>5. CASE ServerStops \/ UNCHANGED vars
  BY <1>5 DEF ServerStops, vars
<1>6. CASE PromptStep
  BY <1>6 DEF PromptStep, Launch, Receive, ReadConfig, ReadSession, AbortTimer,
              Signal, Drain
<1> QED
  BY <1>1, <1>2, <1>3, <1>4, <1>5, <1>6 DEF Next

\* A form keeps the account it was sent with, so that forms that agree now
\* have agreed all along.
LEMMA AgreeBack == TypeOK /\ Answered /\ [Next]_vars /\ FormsAgree' => FormsAgree
<1> SUFFICES ASSUME TypeOK, Answered, [Next]_vars,
                    NEW s \in Submissions, form[s].account # None
             PROVE  form'[s].account = form[s].account
  BY DEF FormsAgree
<1>1. form[s].at # "idle"
  BY DEF Answered
<1>2. ASSUME NEW t \in Submissions, FormStep(t)
      PROVE  form'[s].account = form[s].account
  BY <1>1, <1>2 DEF FormStep, Submit, LogIn, WriteConfig, WriteSession,
                    WriteCredentials, FormFails, CloseConnection, Land, FormGoto,
                    TypeOK
<1>3. CASE form' = form
  BY <1>3
<1> QED
  BY <1>2, <1>3 DEF Next, VisitSuccess, TimerFires, Finish, Settle, SendOutcome,
     SendShutdown, ServerStops, PromptStep, Launch, Receive, ReadConfig,
     ReadSession, AbortTimer, Signal, Drain, vars

\* Forms that agree write one account, and the prompt that a form has told of
\* success finds that account in both files.
LEMMA FormStepKeeps == TypeOK /\ SignInInv /\ [Next]_vars => FormInv'
<1> SUFFICES ASSUME TypeOK, SignInInv, [Next]_vars, FormsAgree',
                    NEW s \in Submissions
             PROVE  Written(s)' /\ ReadBack(s)'
  BY DEF FormInv
<1>1. /\ FormsAgree /\ Written(s) /\ ReadBack(s)
      /\ finisher[s] # "idle" => form[s].at = "answered"
      /\ s \in Finishers /\ s # Timer /\ s \notin Visits
  BY AgreeBack, SignInConstants DEF SignInInv, FormInv, Answered, Finishers
<1> USE <1>1 DEF TypeOK, channel, tasks, caller
<1>2. ASSUME NEW t \in Submissions, FormStep(t)
      PROVE  Written(s)' /\ ReadBack(s)'
  <2>1. UNCHANGED <<caller, channel>>
    BY <1>2 DEF FormStep, Submit, LogIn, WriteConfig, WriteSession,
                WriteCredentials, FormFails, CloseConnection, Land
  <2>2. /\ form[t].account = None <=> form[t].at = "idle"
        /\ form[s].account = None <=> form[s].at = "idle"
        /\ finisher[t] # "idle" => form[t].at = "answered"
    BY DEF SignInInv, Answered
  <2>3. form[t].at # "idle" /\ form[s].at # "idle" => form[s].account = form[t].account
    BY <2>2 DEF FormsAgree
  <2>4. CASE \E a \in Accounts : Submit(t, a)
    BY <2>1, <2>2, <2>4 DEF Submit, Written, ReadBack, Winning, FormSteps
  <2>5. CASE LogIn(t) \/ FormFails(t) \/ CloseConnection(t)
    BY <2>1, <2>2, <2>5 DEF LogIn, FormFails, CloseConnection, FormGoto, InProgress,
                            Handled, Written, ReadBack, Winning, FormSteps
  <2>6. CASE WriteConfig(t) \/ WriteSession(t) \/ Land(t)
    BY <2>1, <2>2, <2>3, <2>6 DEF WriteConfig, WriteSession, Land, FormGoto, Written,
                                  ReadBack, Winning, FormSteps
  <2>7. CASE WriteCredentials(t)
    BY <2>1, <2>2, <2>7 DEF WriteCredentials, FormGoto, Written, ReadBack, Winning,
                            FormSteps
  <2> QED
    BY <1>2, <2>4, <2>5, <2>6, <2>7 DEF FormStep
<1>3. ASSUME NEW f \in Finishers, Finish(f)
      PROVE  Written(s)' /\ ReadBack(s)'
  <2>1. UNCHANGED <<store, form, caller>>
    BY <1>3 DEF Finish, Settle, SendOutcome, SendShutdown
  <2>2. \/ finisher'[s] \in Winning => finisher[s] \in Winning
        \/ ~settled
    BY <1>3 DEF Finish, Settle, SendOutcome, SendShutdown, Winning
  <2>3. ~settled => prompt \notin {"read_session"} \cup Read
    BY DEF SignInInv, OneWinner, Told, Read
  <2> QED
    BY <2>1, <2>2, <2>3 DEF Written, ReadBack
<1>4. CASE \E v \in Visits : VisitSuccess(v)
  BY <1>4 DEF VisitSuccess, Written, ReadBack
<1>5. CASE TimerFires
  BY <1>5 DEF TimerFires, Written, ReadBack
<1>6. CASE ServerStops \/ UNCHANGED vars
  BY <1>6 DEF ServerStops, vars, Written, ReadBack
<1>7. CASE PromptStep
  <2> USE DEF Written, ReadBack, Read
  <2>1. finisher[s] \in Winning => form[s].at = "answered" /\ form[s].account # None
    BY DEF SignInInv, Answered, Winning
  <2>2. CASE Launch \/ Signal \/ Drain
    BY <2>2 DEF Launch, Signal, Drain
  <2>3. CASE Receive
    <3>1. outcome = "timed_out" => finisher[s] \notin Winning
      BY DEF SignInInv, OneWinner
    <3> QED
      BY <2>3, <3>1 DEF Receive
  <2>4. CASE ReadConfig
    BY <2>1, <2>4 DEF ReadConfig
  <2>5. CASE ReadSession
    BY <2>1, <2>5 DEF ReadSession
  <2>6. CASE AbortTimer
    BY <2>6 DEF AbortTimer
  <2> QED
    BY <1>7, <2>2, <2>3, <2>4, <2>5, <2>6 DEF PromptStep
<1> QED
  BY <1>2, <1>3, <1>4, <1>5, <1>6, <1>7 DEF Next

\* In every state the invariant holds.
LEMMA SignInInvariant == Spec => [](TypeOK /\ SignInInv)
<1>1. Init => SignInInv
  BY SignInConstants DEF Init, SignInInv, OneWinner, Drained, Answered, FormInv,
     FormsAgree, Written, ReadBack, Winning, Told, Finishers
<1>2. TypeOK /\ SignInInv /\ [Next]_vars => TypeOK' /\ SignInInv'
  BY TypeStep, WinnerStep, DrainedStep, AnsweredStep, FormStepKeeps DEF SignInInv
<1> QED
  BY TypeInit, <1>1, <1>2, PTL DEF Spec

\* When prompt_for_login returns after waiting, its submissions are answered,
\* refused or dropped, and a dropped one has one file at most still to land
\* (manager.rs:326-329).
THEOREM NoSubmissionLeft == Spec => []NoSubmissionLeftBehind
<1>1. TypeOK /\ SignInInv => NoSubmissionLeftBehind
  BY DEF TypeOK, SignInInv, Drained, InProgress, FormSteps, NoSubmissionLeftBehind
<1> QED
  BY <1>1, SignInInvariant, PTL

\* The outcome is sent once: whoever finds the flag set sends nothing
\* (local_server.rs:315).
THEOREM FirstOutcome == Spec => FirstOutcomeStands
<1>1. TypeOK /\ SignInInv /\ [Next]_vars => [outcome # "empty" => outcome' = outcome]_vars
  <2> SUFFICES ASSUME SignInInv, [Next]_vars, outcome # "empty"
               PROVE  outcome' = outcome
    OBVIOUS
  <2>1. \A f \in Finishers : finisher[f] # "send"
    BY DEF SignInInv, OneWinner
  <2> QED
    BY <2>1 DEF Next, FormStep, Submit, LogIn, WriteConfig, WriteSession,
       WriteCredentials, FormFails, CloseConnection, Land, VisitSuccess, TimerFires, Finish, Settle,
       SendOutcome, SendShutdown, ServerStops, PromptStep, Launch, Receive,
       ReadConfig, ReadSession, AbortTimer, Signal, Drain, vars, channel
<1> QED
  BY <1>1, SignInInvariant, PTL DEF Spec, FirstOutcomeStands

\* What is returned after a form settled the sign-in is the config and the
\* session of one account, named in a form, when the forms name no other one.
THEOREM NamedAccount == Spec => []SessionOfNamedAccount
<1>1. TypeOK /\ SignInInv => SessionOfNamedAccount
  <2> SUFFICES ASSUME TypeOK, SignInInv, FormsAgree, NEW s \in Submissions,
                      finisher[s] \in Winning, prompt \in Read
               PROVE  result.config = result.session /\ result.session \in Accounts
    BY DEF SessionOfNamedAccount, Winning, Read
  <2>1. form[s].at = "answered" /\ form[s].account # None
    BY DEF SignInInv, Answered, Winning
  <2>2. result.config = form[s].account /\ result.session = form[s].account
    BY DEF SignInInv, FormInv, ReadBack
  <2>3. form[s].account \in Accounts
    BY <2>1 DEF TypeOK
  <2> QED
    BY <2>2, <2>3
<1> QED
  BY <1>1, SignInInvariant, PTL
=============================================================================
