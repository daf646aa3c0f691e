---------------------------- MODULE AuthManager ----------------------------
(***************************************************************************)
(* AuthManager (src/src/auth/manager.rs) and the request that uses it      *)
(* (send_json, src/src/docmost_client/mod.rs): a configured API token is   *)
(* used, or a saved session is reused, or renewed with the account of the  *)
(* environment, with saved credentials or by asking the user; a request    *)
(* that Docmost answers with 401 is sent once more after a renewal.        *)
(*                                                                         *)
(* The config, the session and the credentials are three files, read and   *)
(* written one at a time by concurrent requests (StateStore has the writes *)
(* of one file).  The shared account goes through the files; a user of the *)
(* HTTP server has a manager with a fixed session.  Several server         *)
(* processes, started with different environments, may use the same files  *)
(* at the same time or one after the other.                                *)
(*                                                                         *)
(* A request that asks the user waits for its local page to be settled     *)
(* (LocalSignIn has the page): by a form, which logs in beside it, or by a *)
(* bare visit to /success, before which nobody may have logged in.         *)
(***************************************************************************)
EXTENDS Naturals, FiniteSets

CONSTANTS
  Calls,         \* requests and sign-in forms in progress at once
  Servers,       \* Docmost base URLs
  Accounts,
  Tokens,        \* tokens: Docmost never issues one twice
  Given,         \* those that were issued beforehand
  GivenSession,  \* what they are: [server, account, expires]
  Users,         \* users of the HTTP server
  UserToken,     \* the token each user's manager was built from
  Deployments,   \* the environments that servers are started with
  Shared,        \* the owner of requests that are not a user's
  Life,          \* how long a session issued by Docmost lives
  Window,        \* REFRESH_WINDOW_MS
  MaxTime,       \* bound on the clock
  None

Config == [server : Servers, account : Accounts]
Session == [server : Servers, account : Accounts, expires : Nat]

\* DOCMOST_BASE_URL, the account of DOCMOST_EMAIL and DOCMOST_PASSWORD, and
\* DOCMOST_API_TOKEN.
Environment == [url : Servers \cup {None}, account : Accounts \cup {None},
                api : Given \cup {None}]

ASSUME ManagerConstants ==
  /\ Given \subseteq Tokens /\ GivenSession \in [Given -> Session]
  /\ UserToken \in [Users -> Given]
  /\ Deployments \subseteq Environment
  /\ Life \in Nat /\ Window \in Nat /\ MaxTime \in Nat
  /\ Shared \notin Users
  /\ None \notin Servers \cup Accounts \cup Tokens \cup Config \cup Session
                  \cup Calls \cup Environment

VARIABLES
  now,
  configFile,   \* the saved config
  sessionFile,  \* the saved session token
  credentials,  \* the account whose password is saved
  sessions,     \* what Docmost knows of each token, None when not issued
  call,         \* each request or form
  typed,        \* history: accounts a user typed into a sign-in page
  torn          \* history: a login was cut between its first two writes, or
                \* another one for a different server wrote in between

files == <<configFile, sessionFile, credentials>>
history == <<typed, torn>>
vars == <<now, files, sessions, call, history>>

-----------------------------------------------------------------------------
WriteSteps == {"write_config", "write_session", "write_credentials"}

\* prompt_for_login: its page is up, and stays up when the request is dropped.
Asking == {"wait", "reread_config", "reread_session", "drain"}

Steps == {"idle", "read_config", "read_session", "re_config", "re_credentials",
          "login", "settled", "left", "send"} \cup WriteSteps \cup Asking

Idle == [at |-> "idle", owner |-> Shared, run |-> None, config |-> None,
         server |-> None, account |-> None, token |-> None, persist |-> FALSE,
         asker |-> None, asked |-> "no", dropped |-> FALSE, rejected |-> None]

\* A request, or a form on the page of the request `asker`.
Request == [at : Steps, owner : Users \cup {Shared}, run : Deployments \cup {None},
            config : Config \cup {None}, server : Servers \cup {None},
            account : Accounts \cup {None}, token : Tokens \cup {None},
            persist : BOOLEAN, asker : Calls \cup {None},
            asked : {"no", "form", "visit"}, dropped : BOOLEAN,
            rejected : Tokens \cup {None}]

\* The values of the variables.
TypeOK ==
  /\ now \in Nat
  /\ configFile \in Config \cup {None}
  /\ sessionFile \in Tokens \cup {None}
  /\ credentials \in Accounts \cup {None}
  /\ sessions \in [Tokens -> Session \cup {None}]
  /\ call \in [Calls -> Request]
  /\ typed \subseteq Accounts /\ torn \in BOOLEAN

At(c, step) == call[c].at = step
Goto(c, step) == call' = [call EXCEPT ![c].at = step]
Return(c) == call' = [call EXCEPT ![c] = Idle]

\* get_preferred_base_url
Preferred(run, config) ==
  IF run.url # None THEN run.url
  ELSE IF config # None THEN config.server ELSE None

\* is_session_expiring
Expiring(token) == sessions[token].expires <= now + Window

\* Nothing is saved before the first sign-in; users have signed in already.
Init ==
  /\ now = 0
  /\ configFile = None /\ sessionFile = None /\ credentials = None
  /\ sessions = [t \in Tokens |-> IF t \in Given THEN GivenSession[t] ELSE None]
  /\ call = [c \in Calls |-> Idle]
  /\ typed = {}
  /\ torn = FALSE

-----------------------------------------------------------------------------
\* get_authenticated_session of a manager with a fixed session: an error when
\* the session is about to expire.
BeginUser(c, u) ==
  /\ At(c, "idle")
  /\ ~Expiring(UserToken[u])
  /\ call' = [call EXCEPT
       ![c] = [Idle EXCEPT !.at = "send", !.owner = u, !.token = UserToken[u],
                           !.server = GivenSession[UserToken[u]].server]]
  /\ UNCHANGED <<now, files, sessions, history>>

\* configured_api_token_session: a configured API token is taken as it is;
\* without a base URL it is an error.
ApiSession(run) ==
  [Idle EXCEPT !.at = "send", !.token = run.api, !.server = run.url]

BeginWithApiToken(c, run) ==
  /\ At(c, "idle")
  /\ run.api # None /\ run.url # None
  /\ call' = [call EXCEPT ![c] = [ApiSession(run) EXCEPT !.run = run]]
  /\ UNCHANGED <<now, files, sessions, history>>

BeginShared(c, run) ==
  /\ At(c, "idle")
  /\ run.api = None
  /\ call' = [call EXCEPT ![c] = [Idle EXCEPT !.at = "read_config", !.run = run]]
  /\ UNCHANGED <<now, files, sessions, history>>

ReadConfig(c) ==
  /\ At(c, "read_config")
  /\ call' = [call EXCEPT ![c].at = "read_session", ![c].config = configFile]
  /\ UNCHANGED <<now, files, sessions, history>>

\* Mutant of Usable: the saved config is taken as it is.
UsableAnywhere(run, config, token) ==
  config # None /\ token # None /\ ~Expiring(token)

Usable(run, config, token) ==
  /\ config # None /\ token # None
  /\ Preferred(run, config) = config.server
  /\ ~Expiring(token)

\* The saved session is used, or reauthenticate is called.
ReadSession(c) ==
  LET config == call[c].config IN
  /\ At(c, "read_session")
  /\ call' = IF Usable(call[c].run, config, sessionFile)
             THEN [call EXCEPT ![c].at = "send", ![c].token = sessionFile,
                               ![c].server = config.server, ![c].config = None]
             ELSE [call EXCEPT ![c].at = "re_config", ![c].config = None]
  /\ UNCHANGED <<now, files, sessions, history>>

-----------------------------------------------------------------------------
\* Mutant of LogInTo: what was used to sign in is always saved.
LogInAndPersist(c, server, account, persist) ==
  call' = [call EXCEPT ![c].at = "login", ![c].server = server,
             ![c].account = account, ![c].persist = TRUE, ![c].config = None]

\* login_internal at the server, with the account's password.
LogInTo(c, server, account, persist) ==
  call' = [call EXCEPT ![c].at = "login", ![c].server = server,
             ![c].account = account, ![c].persist = persist, ![c].config = None]

\* Mutant of RenewFixed: a user's manager falls back to the saved credentials.
RenewFixedWithSaved(c) ==
  IF configFile # None /\ credentials # None
  THEN LogInTo(c, configFile.server, credentials, TRUE)
  ELSE Return(c)

\* A fixed session is not renewed: an error.
RenewFixed(c) == Return(c)

\* reauthenticate: a fixed session is not renewed; otherwise a configured API token as it
\* is, once more; or the account of the environment, whose password is not
\* persisted; or the saved credentials.
Reauthenticate(c) ==
  LET run == call[c].run
      server == Preferred(run, configFile)
  IN
  /\ At(c, "re_config")
  /\ \/ call[c].owner # Shared /\ RenewFixed(c)
     \/ /\ call[c].owner = Shared
        /\ \/ /\ run.api # None
              /\ call' = [call EXCEPT ![c] = [ApiSession(run) EXCEPT
                            !.run = run, !.rejected = call[c].rejected]]
           \/ run.api = None /\ run.account # None /\ server = None /\ Return(c)
           \/ /\ run.api = None /\ run.account # None /\ server # None
              /\ LogInTo(c, server, run.account, FALSE)
           \/ /\ run.api = None /\ run.account = None
              /\ call' = [call EXCEPT ![c].at = "re_credentials",
                                      ![c].config = configFile]
  /\ UNCHANGED <<now, files, sessions, history>>

UseCredentials(c) ==
  LET server == Preferred(call[c].run, call[c].config) IN
  /\ At(c, "re_credentials")
  /\ server # None /\ credentials # None
  /\ LogInTo(c, server, credentials, TRUE)
  /\ UNCHANGED <<now, files, sessions, history>>

\* prompt_for_login: the page is opened.  A headless server returns an error
\* instead: Fail.
Prompt(c) ==
  /\ At(c, "re_credentials")
  /\ Preferred(call[c].run, call[c].config) = None \/ credentials = None
  /\ call' = [call EXCEPT ![c].at = "wait", ![c].config = None]
  /\ UNCHANGED <<now, files, sessions, history>>

-----------------------------------------------------------------------------
\* auth: a form on the page of c names an account and a server, which the code
\* prefers to the configured one (the page shows that one as read-only).
SubmitForm(f, c, server, account) ==
  /\ At(f, "idle")
  /\ call[c].at \in (Asking \ {"drain"}) \cup {"left"}
  /\ call' = [call EXCEPT
       ![f] = [Idle EXCEPT !.at = "login", !.server = server, !.account = account,
                           !.persist = TRUE, !.asker = c]]
  /\ typed' = typed \cup {account}
  /\ UNCHANGED <<now, files, sessions, torn>>

\* success: a visit settles the page, whether or not anyone logged in.
VisitSuccess(c) ==
  /\ At(c, "wait")
  /\ call' = [call EXCEPT ![c].at = "reread_config", ![c].asked = "visit"]
  /\ UNCHANGED <<now, files, sessions, history>>

\* The page is settled by a form that has logged in and saved everything.
Receive(c, f) ==
  /\ At(c, "wait")
  /\ At(f, "settled") /\ call[f].asker = c
  /\ call' = [call EXCEPT ![c].at = "reread_config", ![c].asked = "form"]
  /\ UNCHANGED <<now, files, sessions, history>>

\* A form that settled the page, or came too late to, is over.
FormOver(f) ==
  /\ At(f, "settled") /\ ~At(call[f].asker, "wait")
  /\ Return(f)
  /\ UNCHANGED <<now, files, sessions, history>>

\* After a prompt the result is what the files hold by then, whoever wrote it;
\* an absent file is an error: Fail.
RereadConfig(c) ==
  /\ At(c, "reread_config") /\ configFile # None
  /\ call' = [call EXCEPT ![c].at = "reread_session", ![c].server = configFile.server]
  /\ UNCHANGED <<now, files, sessions, history>>

RereadSession(c) ==
  /\ At(c, "reread_session") /\ sessionFile # None
  /\ call' = [call EXCEPT ![c].at = "drain", ![c].token = sessionFile]
  /\ UNCHANGED <<now, files, sessions, history>>

\* stop: the forms in progress on the page are over.
Drained(c) == \A f \in Calls : call[f].asker # c

Drain(c) ==
  /\ At(c, "drain") /\ Drained(c)
  /\ Goto(c, "send")
  /\ UNCHANGED <<now, files, sessions, history>>

\* The page of a request that was dropped closes after its timeout.
ClosePage(c) ==
  /\ At(c, "left") /\ Drained(c)
  /\ Return(c)
  /\ UNCHANGED <<now, files, sessions, history>>

-----------------------------------------------------------------------------
\* exchange_credentials: Docmost issues a session.
LogIn(c, token) ==
  /\ At(c, "login")
  /\ sessions[token] = None
  /\ sessions' = [sessions EXCEPT ![token] =
       [server |-> call[c].server, account |-> call[c].account,
        expires |-> now + Life]]
  /\ call' = [call EXCEPT ![c].at = "write_config", ![c].token = token]
  /\ UNCHANGED <<now, files, history>>

\* A login goes on after a write, unless its request was dropped meanwhile.
Written(c, next) ==
  call' = [call EXCEPT ![c] = IF @.dropped THEN Idle ELSE [@ EXCEPT !.at = next]]

\* It returns its session to the request, or to the form.
LoggedIn(c, next) ==
  call' = [call EXCEPT ![c] = IF @.dropped THEN Idle
             ELSE [@ EXCEPT !.at = next, !.account = None, !.persist = FALSE]]

\* The config and the session file may be of two logins from here on.
Torn(c) ==
  \/ call[c].dropped
  \/ \E d \in Calls : At(d, "write_session") /\ call[d].server # call[c].server

\* Mutant of WriteConfig: a config that is there already is kept.
WriteFirstConfig(c) ==
  /\ At(c, "write_config")
  /\ configFile' = IF configFile # None THEN configFile
                   ELSE [server |-> call[c].server, account |-> call[c].account]
  /\ torn' = (torn \/ Torn(c))
  /\ Written(c, "write_session")
  /\ UNCHANGED <<now, sessionFile, credentials, sessions, typed>>

\* login_internal: the config, the session, and the credentials when they are
\* to be persisted.
WriteConfig(c) ==
  /\ At(c, "write_config")
  /\ configFile' = [server |-> call[c].server, account |-> call[c].account]
  /\ torn' = (torn \/ Torn(c))
  /\ Written(c, "write_session")
  /\ UNCHANGED <<now, sessionFile, credentials, sessions, typed>>

WriteSession(c) ==
  /\ At(c, "write_session")
  /\ sessionFile' = call[c].token
  /\ IF call[c].persist THEN Written(c, "write_credentials") ELSE LoggedIn(c, "send")
  /\ UNCHANGED <<now, configFile, credentials, sessions, history>>

WriteCredentials(c) ==
  /\ At(c, "write_credentials")
  /\ credentials' = call[c].account
  /\ LoggedIn(c, IF call[c].asker # None THEN "settled" ELSE "send")
  /\ UNCHANGED <<now, configFile, sessionFile, sessions, history>>

-----------------------------------------------------------------------------
\* Docmost answers; a token of another server it answers with 401.
Answer(c) ==
  /\ At(c, "send")
  /\ sessions[call[c].token].server = call[c].server
  /\ Return(c)
  /\ UNCHANGED <<now, files, sessions, history>>

\* What is left of a request while its session is renewed.
Rejected(request) ==
  [Idle EXCEPT !.at = "re_config", !.owner = request.owner, !.run = request.run,
               !.rejected = request.token]

\* Mutant of Unauthorized: the retry takes the saved session again.
RetryWithSaved(c) ==
  /\ At(c, "send")
  /\ IF call[c].rejected = None
     THEN call' = [call EXCEPT ![c] = [Rejected(@) EXCEPT
            !.at = IF call[c].owner = Shared /\ call[c].run.api = None
                   THEN "read_config" ELSE "re_config"]]
     ELSE Return(c)
  /\ UNCHANGED <<now, files, sessions, history>>

\* Docmost answers 401: the first time the request is sent again after
\* reauthenticate, the second time the answer stands.
Unauthorized(c) ==
  /\ At(c, "send")
  /\ IF call[c].rejected = None
     THEN call' = [call EXCEPT ![c] = Rejected(@)]
     ELSE Return(c)
  /\ UNCHANGED <<now, files, sessions, history>>

Cut(c) == At(c, "write_session")

\* A read, a write or a login fails, nobody signs in in time, or the request is
\* dropped or its server exits between two file operations.
Fail(c) ==
  /\ ~At(c, "idle") /\ ~At(c, "left")
  /\ IF call[c].at \in Asking
     THEN call' = [call EXCEPT ![c] = [Idle EXCEPT !.at = "left"]]
     ELSE Return(c)
  /\ torn' = (torn \/ Cut(c))
  /\ UNCHANGED <<now, files, sessions, typed>>

\* The request or the form's connection is dropped during a write, which goes
\* on; nothing follows it.
Drop(c) ==
  /\ call[c].at \in WriteSteps /\ ~call[c].dropped
  /\ call' = [call EXCEPT ![c].dropped = TRUE, ![c].asker = None, ![c].run = None,
                          ![c].rejected = None]
  /\ UNCHANGED <<now, files, sessions, history>>

Tick ==
  /\ now < MaxTime
  /\ now' = now + 1
  /\ UNCHANGED <<files, sessions, call, history>>

CallStep(c) ==
  \/ \E u \in Users : BeginUser(c, u)
  \/ \E run \in Deployments : BeginWithApiToken(c, run) \/ BeginShared(c, run)
  \/ ReadConfig(c) \/ ReadSession(c)
  \/ Reauthenticate(c) \/ UseCredentials(c)
  \/ Prompt(c) \/ VisitSuccess(c) \/ \E f \in Calls : Receive(c, f)
  \/ RereadConfig(c) \/ RereadSession(c) \/ Drain(c) \/ ClosePage(c)
  \/ Answer(c) \/ Unauthorized(c)

FormStep(f) ==
  \/ \E c \in Calls, s \in Servers, a \in Accounts : SubmitForm(f, c, s, a)
  \/ FormOver(f)

LoginStep(c) ==
  \/ \E t \in Tokens : LogIn(c, t)
  \/ WriteConfig(c) \/ WriteSession(c) \/ WriteCredentials(c)
  \/ Drop(c)

Next ==
  \/ \E c \in Calls : CallStep(c) \/ FormStep(c) \/ LoginStep(c) \/ Fail(c)
  \/ Tick

Spec == Init /\ [][Next]_vars

-----------------------------------------------------------------------------
\* A user's request acts for that user only: it never uses the saved session,
\* the environment's account or the saved credentials, not even after a 401
\* (manager.rs:69-73, 94-101 and 141-145).
UserActsAlone ==
  \A c \in Calls : call[c].owner # Shared =>
    \/ At(c, "send") /\ call[c].token = UserToken[call[c].owner]
    \/ At(c, "re_config") /\ call[c].rejected = UserToken[call[c].owner]

\* Where a server is configured, a request goes to no other one, whatever the
\* files say and whoever wrote them, unless the user was asked during it: then
\* it goes wherever the saved config says, which a form may have changed
\* (local_server.rs:288-295) and which nobody compares (manager.rs:309-324).
ConfiguredServerOnly ==
  \A c \in Calls :
    LET request == call[c] IN
    At(c, "send") /\ request.owner = Shared /\ request.asked = "no"
        /\ request.run.url # None
      => request.server = request.run.url

\* A request that is sent again after a 401 carries another token than the one
\* that was rejected, and, when the user was not asked, a token of the server
\* it goes to: a first attempt with files of two logins repairs itself.  There
\* are two exceptions: a configured API token is all there is and is sent again
\* (manager.rs:146-148), and a visit to /success settles a prompt without a
\* login, so that the files may still hold the rejected token (manager.rs:312-322).
RetryIsFresh ==
  \A c \in Calls :
    LET request == call[c] IN
    At(c, "send") /\ request.owner = Shared /\ request.run.api = None
        /\ request.rejected # None
      => /\ request.asked # "visit" => request.token # request.rejected
         /\ request.asked = "no" =>
              sessions[request.token].server = request.server

\* The password of the environment's account is never saved; what is saved was
\* typed in by a user (SECURITY.md, "does not persist the password when supplied
\* via environment variables").
OnlyTypedPasswordsSaved == credentials # None => credentials \in typed

\* Between logins the saved config and the saved session belong to one server,
\* unless a login was cut short or met one for another server.
FilesAgree ==
  (\A c \in Calls : call[c].at \notin {"write_session"}) /\ ~torn
    /\ sessionFile # None
  => configFile # None /\ sessions[sessionFile].server = configFile.server
=============================================================================
