------------------------- MODULE AuthManager_proofs -------------------------
(***************************************************************************)
(* Theorems about the authentication manager for any number of requests,   *)
(* forms, users, servers, accounts, tokens and environments and any        *)
(* lifetime of a session.                                                  *)
(***************************************************************************)
EXTENDS AuthManager, TLAPS

Issued(token) == token \in Tokens /\ sessions[token] # None

\* What a request or a form holds at each step of its way.
Holds(c) ==
  LET r == call[c] IN
  /\ r.token # None => Issued(r.token)
  /\ r.rejected # None => Issued(r.rejected)
  /\ r.at \in {"idle", "read_config", "read_session", "left"} => r.rejected = None
  /\ r.at \in {"login"} \cup WriteSteps => r.server # None /\ r.account # None
  /\ r.at \in WriteSteps => r.token # None /\ sessions[r.token].server = r.server
  /\ r.at \in {"reread_session", "drain", "send"} => r.server # None
  /\ r.at \in {"drain", "send"} => r.token # None

\* What it is: a request of the shared account knows its server's environment,
\* until it is dropped; a form logs in for the page of a request that asked.
Kind(c) ==
  LET r == call[c] IN
  /\ r.owner = Shared /\ r.at \notin {"idle", "left", "settled"}
       => r.run # None \/ r.asker # None \/ (r.dropped /\ r.at \in WriteSteps)
  /\ r.run # None /\ r.run.api # None => r.run.url # None
  /\ r.dropped => r.rejected = None /\ r.run = None
  /\ r.asker # None =>
       /\ r.owner = Shared /\ r.run = None /\ r.rejected = None
       /\ r.at \in {"login", "settled"} \cup WriteSteps
       /\ r.at \in {"login"} \cup WriteSteps => r.persist
       /\ call[r.asker].at \in Asking \cup {"left"}
  /\ r.at \in {"reread_config", "reread_session", "drain"} => r.asked # "no"
  /\ r.at \notin {"reread_config", "reread_session", "drain", "send"} => r.asked = "no"
  /\ r.at \in {"idle", "left"} => r.owner = Shared

\* A user's request has the user's token and is sent once.
Alone(c) ==
  LET r == call[c] IN
  r.owner # Shared =>
    \/ r.at = "send" /\ r.token = UserToken[r.owner] /\ r.rejected = None
    \/ r.at = "re_config" /\ r.rejected = UserToken[r.owner]

\* While the user is not asked, a request that logs in, and the one that is
\* sent, is for the server of its environment.
AtConfigured(c) ==
  LET r == call[c] IN
  r.owner = Shared /\ r.run # None /\ r.run.url # None /\ r.asked = "no"
      /\ r.at \in {"login", "send"} \cup WriteSteps
    => r.server = r.run.url

\* The token of a login that has not saved it yet is nowhere else.
NewToken(c) ==
  LET r == call[c] IN
  r.at \in {"write_config", "write_session"} =>
    /\ r.token # sessionFile /\ r.token \notin Given
    /\ \A d \in Calls : call[d].rejected # r.token
    /\ \A d \in Calls \ {c} : call[d].token # r.token

\* After a 401 a login brings another token, which goes from its form through
\* the session file to the request when the page was settled by a form.
Renewed(c) ==
  LET r == call[c] IN
  r.rejected # None /\ r.owner = Shared /\ r.run.api = None =>
    /\ r.at = "write_credentials" => r.token # r.rejected
    /\ r.at \in {"reread_config", "reread_session"} /\ r.asked = "form"
         => sessionFile # r.rejected
    /\ r.at \in {"drain", "send"} /\ r.asked # "visit" => r.token # r.rejected
    /\ r.at = "send" /\ r.asked = "no" => sessions[r.token].server = r.server

\* Once a form has saved its session, the saved one is not the one that the
\* request on whose page it is was refused.
FormSaved(f) ==
  LET r == call[f] IN
  r.asker # None /\ r.at \in {"write_credentials", "settled"}
      /\ call[r.asker].rejected # None
    => sessionFile # call[r.asker].rejected

\* What is going to be saved was typed in.
SavesTyped(c) ==
  LET r == call[c] IN
  /\ r.at \in {"login", "write_config", "write_session"} /\ r.persist
       => r.account \in typed
  /\ r.at = "write_credentials" => r.account \in typed

\* What is in the files: a session that Docmost issued, credentials that were
\* typed in and, when no login was cut, a config and a session of one server
\* or a login that is about to write the session of the config's server.
Files ==
  /\ sessionFile # None => Issued(sessionFile)
  /\ \A t \in Given : Issued(t)
  /\ credentials # None => credentials \in typed
  /\ ~torn =>
       /\ \A c \in Calls : At(c, "write_session") =>
            configFile # None /\ configFile.server = call[c].server
       /\ \/ \E c \in Calls : At(c, "write_session")
          \/ sessionFile = None
          \/ configFile # None /\ sessions[sessionFile].server = configFile.server

CallInv(c) ==
  /\ Holds(c) /\ Kind(c) /\ Alone(c) /\ AtConfigured(c) /\ NewToken(c)
  /\ Renewed(c) /\ FormSaved(c) /\ SavesTyped(c)

SignInInv == Files /\ \A c \in Calls : CallInv(c)

-----------------------------------------------------------------------------
\* The fields of the records that the code builds.
LEMMA RequestFields ==
  ASSUME TypeOK, NEW c \in Calls
  PROVE  /\ call[c] \in Request
         /\ call[c].server # None => call[c].server \in Servers
         /\ call[c].account # None => call[c].account \in Accounts
         /\ call[c].token # None => call[c].token \in Tokens
         /\ call[c].config # None => call[c].config.server \in Servers
         /\ call[c].run # None =>
              /\ call[c].run \in Deployments
              /\ call[c].run.url \in Servers \cup {None}
              /\ call[c].run.account \in Accounts \cup {None}
              /\ call[c].run.api \in Given \cup {None}
         /\ configFile # None =>
              configFile.server \in Servers /\ configFile.account \in Accounts
<1>1. call[c] \in Request /\ configFile \in Config \cup {None}
  BY DEF TypeOK
<1>2. \A run \in Deployments : run \in Environment
  BY ManagerConstants
<1> QED
  BY <1>1, <1>2 DEF Request, Config, Environment

\* A request or form that does nothing has its part of the invariant.
LEMMA IdleKeeps ==
  ASSUME NEW c \in Calls, call'[c] = Idle
  PROVE  CallInv(c)'
BY DEF CallInv, Holds, Kind, Alone, AtConfigured, NewToken, Renewed, FormSaved,
       SavesTyped, Idle, WriteSteps

\* Before the first request the invariant holds.
LEMMA InitEstablishes == Init => TypeOK /\ SignInInv
<1> SUFFICES ASSUME Init
             PROVE  TypeOK /\ SignInInv
  OBVIOUS
<1>1. \A t \in Given : Issued(t)
  <2>1. \A t \in Given : GivenSession[t] \in Session /\ GivenSession[t] # None
    BY ManagerConstants
  <2> QED
    BY <2>1, ManagerConstants DEF Init, Issued
<1>2. sessions \in [Tokens -> Session \cup {None}]
  BY ManagerConstants DEF Init
<1>3. Idle \in Request
  BY DEF Idle, Request, Steps
<1>4. TypeOK
  BY <1>2, <1>3 DEF Init, TypeOK
<1>5. \A c \in Calls : call[c] = Idle
  BY DEF Init
<1>6. Files
  BY <1>1, <1>5 DEF Init, Files, At, Idle
<1>7. \A c \in Calls : CallInv(c)
  BY <1>5 DEF CallInv, Holds, Kind, Alone, AtConfigured, NewToken, Renewed,
              FormSaved, SavesTyped, Idle, WriteSteps
<1> QED
  BY <1>4, <1>6, <1>7 DEF SignInInv

\* Requests that do not move keep their part of the invariant when another one
\* takes a token that is its own, the saved one, a given or a new one, keeps its
\* page as long as forms are on it, and saves its own session if any.
LEMMA OthersKeep ==
  ASSUME TypeOK, SignInInv, NEW c \in Calls,
         \A e \in Calls \ {c} : call'[e] = call[e],
         typed \subseteq typed',
         \A t \in Tokens : sessions[t] # None => sessions'[t] = sessions[t],
         \/ sessionFile' = sessionFile
         \/ call[c].at = "write_session" /\ sessionFile' = call[c].token,
         \/ call'[c].token \in {call[c].token, None, sessionFile} \cup Given
         \/ call'[c].token \in Tokens /\ sessions[call'[c].token] = None,
         call'[c].rejected \in {call[c].rejected, call[c].token, None},
         call[c].at \in Asking \cup {"left"} =>
           \/ Drained(c)
           \/ /\ call'[c].at \in Asking \cup {"left"}
              /\ call'[c].rejected \in {call[c].rejected, None}
  PROVE  \A d \in Calls \ {c} : CallInv(d)'
<1> SUFFICES ASSUME NEW d \in Calls \ {c}
             PROVE  CallInv(d)'
  OBVIOUS
<1>1. CallInv(d) /\ CallInv(c) /\ call'[d] = call[d]
  BY DEF SignInInv
<1>2. \A t : Issued(t) => Issued(t)' /\ sessions'[t] = sessions[t]
  BY DEF Issued
<1>3. call[d].token # None => Issued(call[d].token)
  BY <1>1 DEF CallInv, Holds
<1>4. call[d].at \in {"write_config", "write_session"} => call[d].token # None
  BY <1>1 DEF CallInv, Holds, WriteSteps
<1>5. call[d].asker # None =>
        /\ call[d].asker \in Calls /\ call[call[d].asker].at \in Asking \cup {"left"}
        /\ call'[call[d].asker].at \in Asking \cup {"left"}
        /\ call'[call[d].asker].rejected \in {call[call[d].asker].rejected, None}
  <2> SUFFICES ASSUME call[d].asker # None
               PROVE  /\ call[d].asker \in Calls
                      /\ call[call[d].asker].at \in Asking \cup {"left"}
                      /\ call'[call[d].asker].at \in Asking \cup {"left"}
                      /\ call'[call[d].asker].rejected
                           \in {call[call[d].asker].rejected, None}
    OBVIOUS
  <2>1. call[d].asker \in Calls
    BY DEF TypeOK, Request
  <2>2. call[call[d].asker].at \in Asking \cup {"left"}
    BY <1>1 DEF CallInv, Kind
  <2>3. CASE call[d].asker = c
    BY <2>2, <2>3 DEF Drained
  <2>4. CASE call[d].asker # c
    BY <2>1, <2>2, <2>4
  <2> QED
    BY <2>1, <2>2, <2>3, <2>4
<1>6. Holds(d)'
  BY <1>1, <1>2 DEF CallInv, Holds, WriteSteps
<1>7. Kind(d)'
  BY <1>1, <1>5 DEF CallInv, Kind
<1>8. Alone(d)' /\ AtConfigured(d)'
  BY <1>1 DEF CallInv, Alone, AtConfigured
<1>9. NewToken(d)'
  <2> SUFFICES ASSUME call[d].at \in {"write_config", "write_session"}
               PROVE  /\ call[d].token # sessionFile' /\ call[d].token \notin Given
                      /\ \A e \in Calls : call'[e].rejected # call[d].token
                      /\ \A e \in Calls \ {d} : call'[e].token # call[d].token
    BY <1>1 DEF NewToken
  <2>1. NewToken(d)
    BY <1>1 DEF CallInv
  <2>2. call[d].token # None /\ sessions[call[d].token] # None
    BY <1>3, <1>4 DEF Issued
  <2>3. call'[c].token # call[d].token
    BY <2>1, <2>2 DEF NewToken
  <2>4. call'[c].rejected # call[d].token
    BY <2>1, <2>2 DEF NewToken
  <2>5. call[d].token # sessionFile'
    BY <2>1 DEF NewToken
  <2> QED
    BY <2>1, <2>3, <2>4, <2>5 DEF NewToken
<1>10. \A e \in Calls : call[e].rejected # None /\ sessionFile # call[e].rejected
          => sessionFile' # call[e].rejected
  BY <1>1 DEF CallInv, NewToken
<1>11. Renewed(d)'
  <2>1. Renewed(d) /\ Holds(d)
    BY <1>1 DEF CallInv
  <2> QED
    BY <1>1, <1>2, <1>3, <1>10, <2>1 DEF Renewed, Holds
<1>12. FormSaved(d)'
  <2>1. FormSaved(d)
    BY <1>1 DEF CallInv
  <2> QED
    BY <1>1, <1>5, <1>10, <2>1 DEF FormSaved
<1>13. SavesTyped(d)'
  BY <1>1 DEF CallInv, SavesTyped
<1> QED
  BY <1>6, <1>7, <1>8, <1>9, <1>11, <1>12, <1>13 DEF CallInv

\* The files keep their part when a step writes none of them and, unless it
\* cuts a login, leaves the request that is about to write the session there.
LEMMA FilesKeep ==
  ASSUME TypeOK, SignInInv, NEW c \in Calls,
         \A e \in Calls \ {c} : call'[e] = call[e],
         UNCHANGED <<configFile, sessionFile>>,
         torn => torn',
         \/ torn'
         \/ /\ call[c].at = "write_session" <=> call'[c].at = "write_session"
            /\ call[c].at = "write_session" => call'[c].server = call[c].server,
         typed \subseteq typed',
         credentials' # None => credentials' \in typed',
         \A t \in Tokens : sessions[t] # None => sessions'[t] = sessions[t]
  PROVE  Files'
<1>1. Files
  BY DEF SignInInv
<1>2. \A t : Issued(t) => Issued(t)' /\ sessions'[t] = sessions[t]
  BY DEF Issued
<1>3. (\A t \in Given : Issued(t)') /\ (sessionFile' # None => Issued(sessionFile)')
  BY <1>1, <1>2 DEF Files
<1>4. ~torn' =>
        /\ \A e \in Calls : At(e, "write_session")' =>
             configFile # None /\ configFile.server = call'[e].server
        /\ (\E e \in Calls : At(e, "write_session")) =>
             \E e \in Calls : At(e, "write_session")'
  BY <1>1 DEF Files, At
<1> QED
  BY <1>1, <1>2, <1>3, <1>4 DEF Files

\* What a step of one request establishes when no file is written.
LEMMA OwnStep ==
  ASSUME TypeOK, SignInInv, NEW c \in Calls,
         NEW r \in Request, call' = [call EXCEPT ![c] = r],
         UNCHANGED <<now, configFile, sessionFile, credentials, sessions>>,
         torn => torn', torn' \in BOOLEAN,
         \/ torn'
         \/ /\ call[c].at = "write_session" <=> r.at = "write_session"
            /\ call[c].at = "write_session" => r.server = call[c].server,
         typed \subseteq typed', typed' \subseteq Accounts,
         r.token \in {call[c].token, None, sessionFile} \cup Given,
         r.rejected \in {call[c].rejected, call[c].token, None},
         call[c].at \in Asking \cup {"left"} =>
           \/ Drained(c)
           \/ /\ r.at \in Asking \cup {"left"}
              /\ r.rejected \in {call[c].rejected, None}
  PROVE  /\ TypeOK' /\ Files' /\ call'[c] = r
         /\ \A d \in Calls \ {c} : CallInv(d)'
<1>1. call'[c] = r /\ \A e \in Calls \ {c} : call'[e] = call[e]
  BY DEF TypeOK
<1>2. TypeOK'
  BY DEF TypeOK
<1>3. credentials' # None => credentials' \in typed'
  BY DEF SignInInv, Files
<1>4. Files'
  BY <1>1, <1>3, FilesKeep
<1>5. \A d \in Calls \ {c} : CallInv(d)'
  BY <1>1, OthersKeep
<1> QED
  BY <1>1, <1>2, <1>4, <1>5

\* A user's request starts with the user's own session.
LEMMA BeginUserKeeps ==
  ASSUME TypeOK, SignInInv, NEW c \in Calls, NEW u \in Users, BeginUser(c, u)
  PROVE  TypeOK' /\ SignInInv'
<1> DEFINE r == [Idle EXCEPT !.at = "send",
                 !.owner = u,
                 !.token = UserToken[u],
                 !.server = GivenSession[UserToken[u]].server]
<1>1. CallInv(c) /\ Files
  BY DEF SignInInv
<1>2. /\ call[c].at = "idle"
      /\ UNCHANGED <<now, configFile, sessionFile, credentials, sessions>>
      /\ UNCHANGED <<typed, torn>>
      /\ torn \in BOOLEAN /\ typed \subseteq Accounts
      /\ u # Shared /\ UserToken[u] \in Given \cap Tokens /\ UserToken[u] # None
      /\ GivenSession[UserToken[u]] \in Session
      /\ GivenSession[UserToken[u]].server \in Servers
      /\ GivenSession[UserToken[u]].server # None
  <2>1. u # Shared /\ UserToken[u] \in Given \cap Tokens /\ UserToken[u] # None
    BY ManagerConstants
  <2>2. GivenSession[UserToken[u]] \in Session
    BY <2>1, ManagerConstants
  <2>3. GivenSession[UserToken[u]].server \in Servers
    BY <2>2 DEF Session
  <2>4. GivenSession[UserToken[u]].server # None
    BY <2>3, ManagerConstants
  <2>5. /\ call[c].at = "idle"
        /\ UNCHANGED <<now, configFile, sessionFile, credentials, sessions>>
        /\ UNCHANGED <<typed, torn>>
        /\ torn \in BOOLEAN /\ typed \subseteq Accounts
    BY DEF BeginUser, At, files, history, TypeOK
  <2> QED
    BY <2>1, <2>2, <2>3, <2>4, <2>5
<1>3. r \in Request
  <2>1. Idle \in Request
    BY DEF TypeOK, Idle, Request, Steps
  <2> QED
    BY <1>2, <2>1, ManagerConstants DEF Request, Steps
<1>4. call' = [call EXCEPT ![c] = r]
  BY <1>2 DEF BeginUser, TypeOK
<1>5. /\ r.at = "send" /\ r.owner = u /\ r.run = None /\ r.config = None
      /\ r.server = GivenSession[UserToken[u]].server /\ r.account = None
      /\ r.token = UserToken[u] /\ r.persist = FALSE /\ r.asker = None
      /\ r.asked = "no" /\ r.dropped = FALSE /\ r.rejected = None
  BY DEF Idle
<1> HIDE DEF r
<1>6. TypeOK' /\ Files' /\ call'[c] = r /\ \A d \in Calls \ {c} : CallInv(d)'
  BY <1>2, <1>3, <1>4, <1>5, OwnStep DEF WriteSteps, Asking
<1>7. CallInv(c)'
  <2> USE <1>1, <1>2, <1>5, <1>6 DEF WriteSteps, Asking
  <2>1. Holds(c)'
    BY RequestFields, ManagerConstants DEF CallInv, Holds, Issued, Files
  <2>2. Kind(c)'
    BY DEF CallInv, Kind
  <2>3. Alone(c)'
    BY DEF CallInv, Alone
  <2>4. AtConfigured(c)'
    BY DEF CallInv, Kind, AtConfigured
  <2>5. NewToken(c)'
    BY DEF NewToken
  <2>6. Renewed(c)'
    BY DEF CallInv, Holds, Kind, Renewed
  <2>7. FormSaved(c)'
    BY DEF CallInv, Kind, FormSaved
  <2>8. SavesTyped(c)'
    BY DEF CallInv, SavesTyped
  <2> QED
    BY <2>1, <2>2, <2>3, <2>4, <2>5, <2>6, <2>7, <2>8 DEF CallInv
<1> QED
  BY <1>6, <1>7 DEF SignInInv

\* A request with a configured API token has that token and the configured server.
LEMMA BeginApiKeeps ==
  ASSUME TypeOK, SignInInv, NEW c \in Calls, NEW run \in Deployments,
         BeginWithApiToken(c, run)
  PROVE  TypeOK' /\ SignInInv'
<1> DEFINE r == [Idle EXCEPT !.at = "send",
                 !.run = run,
                 !.token = run.api,
                 !.server = run.url]
<1>1. CallInv(c) /\ Files
  BY DEF SignInInv
<1>2. /\ call[c].at = "idle"
      /\ run.api # None /\ run.url # None
      /\ UNCHANGED <<now, configFile, sessionFile, credentials, sessions>>
      /\ UNCHANGED <<typed, torn>>
      /\ torn \in BOOLEAN /\ typed \subseteq Accounts
      /\ run \in Environment /\ run # None
      /\ run.api \in Given \cup {None} /\ run.url \in Servers \cup {None}
  <2>1. run \in Environment /\ run # None
    BY ManagerConstants
  <2>2. run.api \in Given \cup {None} /\ run.url \in Servers \cup {None}
    BY <2>1 DEF Environment
  <2>3. /\ call[c].at = "idle"
        /\ run.api # None /\ run.url # None
        /\ UNCHANGED <<now, configFile, sessionFile, credentials, sessions>>
        /\ UNCHANGED <<typed, torn>>
        /\ torn \in BOOLEAN /\ typed \subseteq Accounts
    BY DEF BeginWithApiToken, At, files, history, TypeOK
  <2> QED
    BY <2>1, <2>2, <2>3
<1>3. r \in Request
  <2>1. Idle \in Request
    BY DEF TypeOK, Idle, Request, Steps
  <2> QED
    BY <1>2, <2>1, ManagerConstants DEF Request, Steps
<1>4. call' = [call EXCEPT ![c] = r]
  BY <1>2 DEF BeginWithApiToken, ApiSession, Idle, TypeOK
<1>5. /\ r.at = "send" /\ r.owner = Shared /\ r.run = run /\ r.config = None
      /\ r.server = run.url /\ r.account = None /\ r.token = run.api
      /\ r.persist = FALSE /\ r.asker = None /\ r.asked = "no" /\ r.dropped = FALSE
      /\ r.rejected = None
  BY DEF Idle
<1> HIDE DEF r
<1>6. TypeOK' /\ Files' /\ call'[c] = r /\ \A d \in Calls \ {c} : CallInv(d)'
  BY <1>2, <1>3, <1>4, <1>5, OwnStep DEF WriteSteps, Asking
<1>7. CallInv(c)'
  <2> USE <1>1, <1>2, <1>5, <1>6 DEF WriteSteps, Asking
  <2>1. Holds(c)'
    BY RequestFields, ManagerConstants DEF CallInv, Holds, Issued, Files
  <2>2. Kind(c)'
    BY DEF CallInv, Kind
  <2>3. Alone(c)'
    BY DEF CallInv, Alone
  <2>4. AtConfigured(c)'
    BY DEF CallInv, Kind, AtConfigured
  <2>5. NewToken(c)'
    BY DEF NewToken
  <2>6. Renewed(c)'
    BY DEF CallInv, Holds, Kind, Renewed
  <2>7. FormSaved(c)'
    BY DEF CallInv, Kind, FormSaved
  <2>8. SavesTyped(c)'
    BY DEF CallInv, SavesTyped
  <2> QED
    BY <2>1, <2>2, <2>3, <2>4, <2>5, <2>6, <2>7, <2>8 DEF CallInv
<1> QED
  BY <1>6, <1>7 DEF SignInInv

\* A request of the shared account starts with its server's environment only.
LEMMA BeginSharedKeeps ==
  ASSUME TypeOK, SignInInv, NEW c \in Calls, NEW run \in Deployments,
         BeginShared(c, run)
  PROVE  TypeOK' /\ SignInInv'
<1> DEFINE r == [Idle EXCEPT !.at = "read_config", !.run = run]
<1>1. CallInv(c) /\ Files
  BY DEF SignInInv
<1>2. /\ call[c].at = "idle"
      /\ run.api = None
      /\ UNCHANGED <<now, configFile, sessionFile, credentials, sessions>>
      /\ UNCHANGED <<typed, torn>>
      /\ torn \in BOOLEAN /\ typed \subseteq Accounts
      /\ run # None
  <2>1. run # None
    BY ManagerConstants
  <2>2. /\ call[c].at = "idle"
        /\ run.api = None
        /\ UNCHANGED <<now, configFile, sessionFile, credentials, sessions>>
        /\ UNCHANGED <<typed, torn>>
        /\ torn \in BOOLEAN /\ typed \subseteq Accounts
    BY DEF BeginShared, At, files, history, TypeOK
  <2> QED
    BY <2>1, <2>2
<1>3. r \in Request
  <2>1. Idle \in Request
    BY DEF TypeOK, Idle, Request, Steps
  <2> QED
    BY <2>1 DEF Request, Steps
<1>4. call' = [call EXCEPT ![c] = r]
  BY <1>2 DEF BeginShared, Idle, TypeOK
<1>5. /\ r.at = "read_config" /\ r.owner = Shared /\ r.run = run /\ r.config = None
      /\ r.server = None /\ r.account = None /\ r.token = None /\ r.persist = FALSE
      /\ r.asker = None /\ r.asked = "no" /\ r.dropped = FALSE /\ r.rejected = None
  BY DEF Idle
<1> HIDE DEF r
<1>6. TypeOK' /\ Files' /\ call'[c] = r /\ \A d \in Calls \ {c} : CallInv(d)'
  BY <1>2, <1>3, <1>4, <1>5, OwnStep DEF WriteSteps, Asking
<1>7. CallInv(c)'
  <2> USE <1>1, <1>2, <1>5, <1>6 DEF WriteSteps, Asking
  <2>1. Holds(c)'
    BY RequestFields, ManagerConstants DEF CallInv, Holds, Issued, Files
  <2>2. Kind(c)'
    BY DEF CallInv, Kind
  <2>3. Alone(c)'
    BY DEF CallInv, Alone
  <2>4. AtConfigured(c)'
    BY DEF CallInv, Kind, AtConfigured
  <2>5. NewToken(c)'
    BY DEF NewToken
  <2>6. Renewed(c)'
    BY DEF CallInv, Holds, Kind, Renewed
  <2>7. FormSaved(c)'
    BY DEF CallInv, Kind, FormSaved
  <2>8. SavesTyped(c)'
    BY DEF CallInv, SavesTyped
  <2> QED
    BY <2>1, <2>2, <2>3, <2>4, <2>5, <2>6, <2>7, <2>8 DEF CallInv
<1> QED
  BY <1>6, <1>7 DEF SignInInv

\* Reading the config takes a copy of it.
LEMMA ReadConfigKeeps ==
  ASSUME TypeOK, SignInInv, NEW c \in Calls, ReadConfig(c)
  PROVE  TypeOK' /\ SignInInv'
<1> DEFINE r == [call[c] EXCEPT !.at = "read_session", !.config = configFile]
<1>1. CallInv(c) /\ Files
  BY DEF SignInInv
<1>2. /\ call[c].at = "read_config"
      /\ configFile \in Config \cup {None}
      /\ UNCHANGED <<now, configFile, sessionFile, credentials, sessions>>
      /\ UNCHANGED <<typed, torn>>
      /\ torn \in BOOLEAN /\ typed \subseteq Accounts
  BY DEF ReadConfig, At, files, history, TypeOK
<1>3. r \in Request
  <2>1. call[c] \in Request
    BY DEF TypeOK
  <2> QED
    BY <1>2, <2>1 DEF Request, Steps
<1>4. call' = [call EXCEPT ![c] = r]
  BY <1>2 DEF ReadConfig, TypeOK
<1>5. /\ r.at = "read_session" /\ r.owner = call[c].owner /\ r.run = call[c].run
      /\ r.config = configFile /\ r.server = call[c].server
      /\ r.account = call[c].account /\ r.token = call[c].token
      /\ r.persist = call[c].persist /\ r.asker = call[c].asker
      /\ r.asked = call[c].asked /\ r.dropped = call[c].dropped
      /\ r.rejected = call[c].rejected
  BY RequestFields DEF Request
<1> HIDE DEF r
<1>6. TypeOK' /\ Files' /\ call'[c] = r /\ \A d \in Calls \ {c} : CallInv(d)'
  BY <1>2, <1>3, <1>4, <1>5, OwnStep DEF WriteSteps, Asking
<1>7. CallInv(c)'
  <2> USE <1>1, <1>2, <1>5, <1>6 DEF WriteSteps, Asking
  <2>1. Holds(c)'
    BY RequestFields, ManagerConstants DEF CallInv, Holds, Issued, Files
  <2>2. Kind(c)'
    BY DEF CallInv, Kind
  <2>3. Alone(c)'
    BY DEF CallInv, Alone
  <2>4. AtConfigured(c)'
    BY DEF CallInv, Kind, AtConfigured
  <2>5. NewToken(c)'
    BY DEF NewToken
  <2>6. Renewed(c)'
    BY DEF CallInv, Holds, Kind, Renewed
  <2>7. FormSaved(c)'
    BY DEF CallInv, Kind, FormSaved
  <2>8. SavesTyped(c)'
    BY DEF CallInv, SavesTyped
  <2> QED
    BY <2>1, <2>2, <2>3, <2>4, <2>5, <2>6, <2>7, <2>8 DEF CallInv
<1> QED
  BY <1>6, <1>7 DEF SignInInv

\* A visit settles the page without a login.
LEMMA VisitKeeps ==
  ASSUME TypeOK, SignInInv, NEW c \in Calls, VisitSuccess(c)
  PROVE  TypeOK' /\ SignInInv'
<1> DEFINE r == [call[c] EXCEPT !.at = "reread_config", !.asked = "visit"]
<1>1. CallInv(c) /\ Files
  BY DEF SignInInv
<1>2. /\ call[c].at = "wait"
      /\ UNCHANGED <<now, configFile, sessionFile, credentials, sessions>>
      /\ UNCHANGED <<typed, torn>>
      /\ torn \in BOOLEAN /\ typed \subseteq Accounts
  BY DEF VisitSuccess, At, files, history, TypeOK
<1>3. r \in Request
  <2>1. call[c] \in Request
    BY DEF TypeOK
  <2> QED
    BY <1>2, <2>1 DEF Request, Steps, Asking
<1>4. call' = [call EXCEPT ![c] = r]
  BY <1>2 DEF VisitSuccess, TypeOK
<1>5. /\ r.at = "reread_config" /\ r.owner = call[c].owner /\ r.run = call[c].run
      /\ r.config = call[c].config /\ r.server = call[c].server
      /\ r.account = call[c].account /\ r.token = call[c].token
      /\ r.persist = call[c].persist /\ r.asker = call[c].asker /\ r.asked = "visit"
      /\ r.dropped = call[c].dropped /\ r.rejected = call[c].rejected
  BY RequestFields DEF Request
<1> HIDE DEF r
<1>6. TypeOK' /\ Files' /\ call'[c] = r /\ \A d \in Calls \ {c} : CallInv(d)'
  BY <1>2, <1>3, <1>4, <1>5, OwnStep DEF WriteSteps, Asking
<1>7. CallInv(c)'
  <2> USE <1>1, <1>2, <1>5, <1>6 DEF WriteSteps, Asking
  <2>1. Holds(c)'
    BY RequestFields, ManagerConstants DEF CallInv, Holds, Issued, Files
  <2>2. Kind(c)'
    BY DEF CallInv, Kind
  <2>3. Alone(c)'
    BY DEF CallInv, Alone
  <2>4. AtConfigured(c)'
    BY DEF CallInv, Kind, AtConfigured
  <2>5. NewToken(c)'
    BY DEF NewToken
  <2>6. Renewed(c)'
    BY DEF CallInv, Holds, Kind, Renewed
  <2>7. FormSaved(c)'
    BY DEF CallInv, Kind, FormSaved
  <2>8. SavesTyped(c)'
    BY DEF CallInv, SavesTyped
  <2> QED
    BY <2>1, <2>2, <2>3, <2>4, <2>5, <2>6, <2>7, <2>8 DEF CallInv
<1> QED
  BY <1>6, <1>7 DEF SignInInv

\* A form that has saved its session settles the page: the saved one is not the
\* one that was rejected.
LEMMA ReceiveKeeps ==
  ASSUME TypeOK, SignInInv, NEW c \in Calls, NEW f \in Calls, Receive(c, f)
  PROVE  TypeOK' /\ SignInInv'
<1> DEFINE r == [call[c] EXCEPT !.at = "reread_config", !.asked = "form"]
<1>1. CallInv(c) /\ Files
  BY DEF SignInInv
<1>2. /\ call[c].at = "wait"
      /\ UNCHANGED <<now, configFile, sessionFile, credentials, sessions>>
      /\ UNCHANGED <<typed, torn>>
      /\ torn \in BOOLEAN /\ typed \subseteq Accounts
      /\ call[c].rejected # None => sessionFile # call[c].rejected
  <2>1. call[c].rejected # None => sessionFile # call[c].rejected
    BY ManagerConstants DEF SignInInv, CallInv, FormSaved, Receive, At
  <2>2. /\ call[c].at = "wait"
        /\ UNCHANGED <<now, configFile, sessionFile, credentials, sessions>>
        /\ UNCHANGED <<typed, torn>>
        /\ torn \in BOOLEAN /\ typed \subseteq Accounts
    BY DEF Receive, At, files, history, TypeOK
  <2> QED
    BY <2>1, <2>2
<1>3. r \in Request
  <2>1. call[c] \in Request
    BY DEF TypeOK
  <2> QED
    BY <1>2, <2>1 DEF Request, Steps, Asking
<1>4. call' = [call EXCEPT ![c] = r]
  BY <1>2 DEF Receive, TypeOK
<1>5. /\ r.at = "reread_config" /\ r.owner = call[c].owner /\ r.run = call[c].run
      /\ r.config = call[c].config /\ r.server = call[c].server
      /\ r.account = call[c].account /\ r.token = call[c].token
      /\ r.persist = call[c].persist /\ r.asker = call[c].asker /\ r.asked = "form"
      /\ r.dropped = call[c].dropped /\ r.rejected = call[c].rejected
  BY RequestFields DEF Request
<1> HIDE DEF r
<1>6. TypeOK' /\ Files' /\ call'[c] = r /\ \A d \in Calls \ {c} : CallInv(d)'
  BY <1>2, <1>3, <1>4, <1>5, OwnStep DEF WriteSteps, Asking
<1>7. CallInv(c)'
  <2> USE <1>1, <1>2, <1>5, <1>6 DEF WriteSteps, Asking
  <2>1. Holds(c)'
    BY RequestFields, ManagerConstants DEF CallInv, Holds, Issued, Files
  <2>2. Kind(c)'
    BY DEF CallInv, Kind
  <2>3. Alone(c)'
    BY DEF CallInv, Alone
  <2>4. AtConfigured(c)'
    BY DEF CallInv, Kind, AtConfigured
  <2>5. NewToken(c)'
    BY DEF NewToken
  <2>6. Renewed(c)'
    BY DEF CallInv, Holds, Kind, Renewed
  <2>7. FormSaved(c)'
    BY DEF CallInv, Kind, FormSaved
  <2>8. SavesTyped(c)'
    BY DEF CallInv, SavesTyped
  <2> QED
    BY <2>1, <2>2, <2>3, <2>4, <2>5, <2>6, <2>7, <2>8 DEF CallInv
<1> QED
  BY <1>6, <1>7 DEF SignInInv

\* The config that is read again exists.
LEMMA RereadConfigKeeps ==
  ASSUME TypeOK, SignInInv, NEW c \in Calls, RereadConfig(c)
  PROVE  TypeOK' /\ SignInInv'
<1> DEFINE r == [call[c] EXCEPT !.at = "reread_session",
                 !.server = configFile.server]
<1>1. CallInv(c) /\ Files
  BY DEF SignInInv
<1>2. /\ call[c].at = "reread_config"
      /\ configFile.server \in Servers /\ configFile.server # None
      /\ UNCHANGED <<now, configFile, sessionFile, credentials, sessions>>
      /\ UNCHANGED <<typed, torn>>
      /\ torn \in BOOLEAN /\ typed \subseteq Accounts
  BY RequestFields, ManagerConstants DEF RereadConfig, At, files, history, TypeOK
<1>3. r \in Request
  <2>1. call[c] \in Request
    BY DEF TypeOK
  <2> QED
    BY <1>2, <2>1 DEF Request, Steps, Asking
<1>4. call' = [call EXCEPT ![c] = r]
  BY <1>2 DEF RereadConfig, TypeOK
<1>5. /\ r.at = "reread_session" /\ r.owner = call[c].owner /\ r.run = call[c].run
      /\ r.config = call[c].config /\ r.server = configFile.server
      /\ r.account = call[c].account /\ r.token = call[c].token
      /\ r.persist = call[c].persist /\ r.asker = call[c].asker
      /\ r.asked = call[c].asked /\ r.dropped = call[c].dropped
      /\ r.rejected = call[c].rejected
  BY RequestFields DEF Request
<1> HIDE DEF r
<1>6. TypeOK' /\ Files' /\ call'[c] = r /\ \A d \in Calls \ {c} : CallInv(d)'
  BY <1>2, <1>3, <1>4, <1>5, OwnStep DEF WriteSteps, Asking
<1>7. CallInv(c)'
  <2> USE <1>1, <1>2, <1>5, <1>6 DEF WriteSteps, Asking
  <2>1. Holds(c)'
    BY RequestFields, ManagerConstants DEF CallInv, Holds, Issued, Files
  <2>2. Kind(c)'
    BY DEF CallInv, Kind
  <2>3. Alone(c)'
    BY DEF CallInv, Alone
  <2>4. AtConfigured(c)'
    BY DEF CallInv, Kind, AtConfigured
  <2>5. NewToken(c)'
    BY DEF NewToken
  <2>6. Renewed(c)'
    BY DEF CallInv, Holds, Kind, Renewed
  <2>7. FormSaved(c)'
    BY DEF CallInv, Kind, FormSaved
  <2>8. SavesTyped(c)'
    BY DEF CallInv, SavesTyped
  <2> QED
    BY <2>1, <2>2, <2>3, <2>4, <2>5, <2>6, <2>7, <2>8 DEF CallInv
<1> QED
  BY <1>6, <1>7 DEF SignInInv

\* The session that is read again exists, and is not the rejected one when a
\* form settled the page.
LEMMA RereadSessionKeeps ==
  ASSUME TypeOK, SignInInv, NEW c \in Calls, RereadSession(c)
  PROVE  TypeOK' /\ SignInInv'
<1> DEFINE r == [call[c] EXCEPT !.at = "drain", !.token = sessionFile]
<1>1. CallInv(c) /\ Files
  BY DEF SignInInv
<1>2. /\ call[c].at = "reread_session"
      /\ sessionFile # None
      /\ UNCHANGED <<now, configFile, sessionFile, credentials, sessions>>
      /\ UNCHANGED <<typed, torn>>
      /\ torn \in BOOLEAN /\ typed \subseteq Accounts
  BY DEF RereadSession, At, files, history, TypeOK
<1>3. r \in Request
  <2>1. call[c] \in Request /\ sessionFile \in Tokens \cup {None}
    BY DEF TypeOK
  <2> QED
    BY <1>2, <2>1 DEF Request, Steps, Asking
<1>4. call' = [call EXCEPT ![c] = r]
  BY <1>2 DEF RereadSession, TypeOK
<1>5. /\ r.at = "drain" /\ r.owner = call[c].owner /\ r.run = call[c].run
      /\ r.config = call[c].config /\ r.server = call[c].server
      /\ r.account = call[c].account /\ r.token = sessionFile
      /\ r.persist = call[c].persist /\ r.asker = call[c].asker
      /\ r.asked = call[c].asked /\ r.dropped = call[c].dropped
      /\ r.rejected = call[c].rejected
  BY RequestFields DEF Request
<1> HIDE DEF r
<1>6. TypeOK' /\ Files' /\ call'[c] = r /\ \A d \in Calls \ {c} : CallInv(d)'
  BY <1>2, <1>3, <1>4, <1>5, OwnStep DEF WriteSteps, Asking
<1>7. CallInv(c)'
  <2> USE <1>1, <1>2, <1>5, <1>6 DEF WriteSteps, Asking
  <2>1. Holds(c)'
    BY RequestFields, ManagerConstants DEF CallInv, Holds, Issued, Files
  <2>2. Kind(c)'
    BY DEF CallInv, Kind
  <2>3. Alone(c)'
    BY DEF CallInv, Alone
  <2>4. AtConfigured(c)'
    BY DEF CallInv, Kind, AtConfigured
  <2>5. NewToken(c)'
    BY DEF NewToken
  <2>6. Renewed(c)'
    BY RequestFields DEF Request, CallInv, Kind, Renewed
  <2>7. FormSaved(c)'
    BY DEF CallInv, Kind, FormSaved
  <2>8. SavesTyped(c)'
    BY DEF CallInv, SavesTyped
  <2> QED
    BY <2>1, <2>2, <2>3, <2>4, <2>5, <2>6, <2>7, <2>8 DEF CallInv
<1> QED
  BY <1>6, <1>7 DEF SignInInv

\* The request goes on when the forms on its page are over.
LEMMA DrainKeeps ==
  ASSUME TypeOK, SignInInv, NEW c \in Calls, Drain(c)
  PROVE  TypeOK' /\ SignInInv'
<1> DEFINE r == [call[c] EXCEPT !.at = "send"]
<1>1. CallInv(c) /\ Files
  BY DEF SignInInv
<1>2. /\ call[c].at = "drain"
      /\ Drained(c)
      /\ UNCHANGED <<now, configFile, sessionFile, credentials, sessions>>
      /\ UNCHANGED <<typed, torn>>
      /\ torn \in BOOLEAN /\ typed \subseteq Accounts
  BY DEF Drain, At, files, history, TypeOK
<1>3. r \in Request
  <2>1. call[c] \in Request
    BY DEF TypeOK
  <2> QED
    BY <1>2, <2>1 DEF Request, Steps
<1>4. call' = [call EXCEPT ![c] = r]
  BY <1>2 DEF Drain, Goto, TypeOK
<1>5. /\ r.at = "send" /\ r.owner = call[c].owner /\ r.run = call[c].run
      /\ r.config = call[c].config /\ r.server = call[c].server
      /\ r.account = call[c].account /\ r.token = call[c].token
      /\ r.persist = call[c].persist /\ r.asker = call[c].asker
      /\ r.asked = call[c].asked /\ r.dropped = call[c].dropped
      /\ r.rejected = call[c].rejected
  BY RequestFields DEF Request
<1> HIDE DEF r
<1>6. TypeOK' /\ Files' /\ call'[c] = r /\ \A d \in Calls \ {c} : CallInv(d)'
  BY <1>2, <1>3, <1>4, <1>5, OwnStep DEF WriteSteps, Asking
<1>7. CallInv(c)'
  <2> USE <1>1, <1>2, <1>5, <1>6 DEF WriteSteps, Asking
  <2>1. Holds(c)'
    BY RequestFields, ManagerConstants DEF CallInv, Holds, Issued, Files
  <2>2. Kind(c)'
    BY DEF CallInv, Kind
  <2>3. Alone(c)'
    BY DEF CallInv, Alone
  <2>4. AtConfigured(c)'
    BY DEF CallInv, Kind, AtConfigured
  <2>5. NewToken(c)'
    BY DEF NewToken
  <2>6. Renewed(c)'
    BY DEF CallInv, Holds, Kind, Renewed
  <2>7. FormSaved(c)'
    BY DEF CallInv, Kind, FormSaved
  <2>8. SavesTyped(c)'
    BY DEF CallInv, SavesTyped
  <2> QED
    BY <2>1, <2>2, <2>3, <2>4, <2>5, <2>6, <2>7, <2>8 DEF CallInv
<1> QED
  BY <1>6, <1>7 DEF SignInInv

\* The page is opened for a request that knows its server's environment.
LEMMA PromptKeeps ==
  ASSUME TypeOK, SignInInv, NEW c \in Calls, Prompt(c)
  PROVE  TypeOK' /\ SignInInv'
<1> DEFINE r == [call[c] EXCEPT !.at = "wait", !.config = None]
<1>1. CallInv(c) /\ Files
  BY DEF SignInInv
<1>2. /\ call[c].at = "re_credentials"
      /\ UNCHANGED <<now, configFile, sessionFile, credentials, sessions>>
      /\ UNCHANGED <<typed, torn>>
      /\ torn \in BOOLEAN /\ typed \subseteq Accounts
  BY DEF Prompt, At, files, history, TypeOK
<1>3. r \in Request
  <2>1. call[c] \in Request
    BY DEF TypeOK
  <2> QED
    BY <1>2, <2>1 DEF Request, Steps, Asking
<1>4. call' = [call EXCEPT ![c] = r]
  BY <1>2 DEF Prompt, TypeOK
<1>5. /\ r.at = "wait" /\ r.owner = call[c].owner /\ r.run = call[c].run
      /\ r.config = None /\ r.server = call[c].server /\ r.account = call[c].account
      /\ r.token = call[c].token /\ r.persist = call[c].persist
      /\ r.asker = call[c].asker /\ r.asked = call[c].asked
      /\ r.dropped = call[c].dropped /\ r.rejected = call[c].rejected
  BY RequestFields DEF Request
<1> HIDE DEF r
<1>6. TypeOK' /\ Files' /\ call'[c] = r /\ \A d \in Calls \ {c} : CallInv(d)'
  BY <1>2, <1>3, <1>4, <1>5, OwnStep DEF WriteSteps, Asking
<1>7. CallInv(c)'
  <2> USE <1>1, <1>2, <1>5, <1>6 DEF WriteSteps, Asking
  <2>1. Holds(c)'
    BY RequestFields, ManagerConstants DEF CallInv, Holds, Issued, Files
  <2>2. Kind(c)'
    BY DEF CallInv, Kind
  <2>3. Alone(c)'
    BY DEF CallInv, Alone
  <2>4. AtConfigured(c)'
    BY DEF CallInv, Kind, AtConfigured
  <2>5. NewToken(c)'
    BY DEF NewToken
  <2>6. Renewed(c)'
    BY DEF CallInv, Holds, Kind, Renewed
  <2>7. FormSaved(c)'
    BY DEF CallInv, Kind, FormSaved
  <2>8. SavesTyped(c)'
    BY DEF CallInv, SavesTyped
  <2> QED
    BY <2>1, <2>2, <2>3, <2>4, <2>5, <2>6, <2>7, <2>8 DEF CallInv
<1> QED
  BY <1>6, <1>7 DEF SignInInv

\* A saved session that is used is of the preferred server.
LEMMA UseSavedKeeps ==
  ASSUME TypeOK, SignInInv, NEW c \in Calls,
         Usable(call[c].run, call[c].config, sessionFile), ReadSession(c)
  PROVE  TypeOK' /\ SignInInv'
<1> DEFINE r == [call[c] EXCEPT !.at = "send",
                 !.token = sessionFile,
                 !.server = call[c].config.server,
                 !.config = None]
<1>1. CallInv(c) /\ Files
  BY DEF SignInInv
<1>2. /\ call[c].at = "read_session"
      /\ UNCHANGED <<now, configFile, sessionFile, credentials, sessions>>
      /\ UNCHANGED <<typed, torn>>
      /\ torn \in BOOLEAN /\ typed \subseteq Accounts
      /\ call[c].config.server \in Servers /\ sessionFile # None
      /\ call[c].config.server # None
      /\ call[c].run.url # None => call[c].config.server = call[c].run.url
  <2>1. call[c].config.server \in Servers /\ sessionFile # None
    BY RequestFields DEF Usable
  <2>2. call[c].config.server # None
    BY <2>1, ManagerConstants
  <2>3. call[c].run.url # None => call[c].config.server = call[c].run.url
    BY DEF Usable, Preferred
  <2>4. /\ call[c].at = "read_session"
        /\ UNCHANGED <<now, configFile, sessionFile, credentials, sessions>>
        /\ UNCHANGED <<typed, torn>>
        /\ torn \in BOOLEAN /\ typed \subseteq Accounts
    BY DEF ReadSession, At, files, history, TypeOK
  <2> QED
    BY <2>1, <2>2, <2>3, <2>4
<1>3. r \in Request
  <2>1. call[c] \in Request /\ sessionFile \in Tokens \cup {None}
    BY DEF TypeOK
  <2> QED
    BY <1>2, <2>1 DEF Request, Steps
<1>4. call' = [call EXCEPT ![c] = r]
  BY <1>2 DEF ReadSession, TypeOK
<1>5. /\ r.at = "send" /\ r.owner = call[c].owner /\ r.run = call[c].run
      /\ r.config = None /\ r.server = call[c].config.server
      /\ r.account = call[c].account /\ r.token = sessionFile
      /\ r.persist = call[c].persist /\ r.asker = call[c].asker
      /\ r.asked = call[c].asked /\ r.dropped = call[c].dropped
      /\ r.rejected = call[c].rejected
  BY RequestFields DEF Request
<1> HIDE DEF r
<1>6. TypeOK' /\ Files' /\ call'[c] = r /\ \A d \in Calls \ {c} : CallInv(d)'
  BY <1>2, <1>3, <1>4, <1>5, OwnStep DEF WriteSteps, Asking
<1>7. CallInv(c)'
  <2> USE <1>1, <1>2, <1>5, <1>6 DEF WriteSteps, Asking
  <2>1. Holds(c)'
    BY RequestFields, ManagerConstants DEF CallInv, Holds, Issued, Files
  <2>2. Kind(c)'
    BY DEF CallInv, Kind
  <2>3. Alone(c)'
    BY DEF CallInv, Alone
  <2>4. AtConfigured(c)'
    BY DEF CallInv, Kind, AtConfigured
  <2>5. NewToken(c)'
    BY DEF NewToken
  <2>6. Renewed(c)'
    BY DEF CallInv, Holds, Kind, Renewed
  <2>7. FormSaved(c)'
    BY DEF CallInv, Kind, FormSaved
  <2>8. SavesTyped(c)'
    BY DEF CallInv, SavesTyped
  <2> QED
    BY <2>1, <2>2, <2>3, <2>4, <2>5, <2>6, <2>7, <2>8 DEF CallInv
<1> QED
  BY <1>6, <1>7 DEF SignInInv

\* Without a usable session the request goes on to sign in.
LEMMA RenewKeeps ==
  ASSUME TypeOK, SignInInv, NEW c \in Calls,
         ~Usable(call[c].run, call[c].config, sessionFile), ReadSession(c)
  PROVE  TypeOK' /\ SignInInv'
<1> DEFINE r == [call[c] EXCEPT !.at = "re_config", !.config = None]
<1>1. CallInv(c) /\ Files
  BY DEF SignInInv
<1>2. /\ call[c].at = "read_session"
      /\ UNCHANGED <<now, configFile, sessionFile, credentials, sessions>>
      /\ UNCHANGED <<typed, torn>>
      /\ torn \in BOOLEAN /\ typed \subseteq Accounts
  BY DEF ReadSession, At, files, history, TypeOK
<1>3. r \in Request
  <2>1. call[c] \in Request
    BY DEF TypeOK
  <2> QED
    BY <1>2, <2>1 DEF Request, Steps
<1>4. call' = [call EXCEPT ![c] = r]
  BY <1>2 DEF ReadSession, TypeOK
<1>5. /\ r.at = "re_config" /\ r.owner = call[c].owner /\ r.run = call[c].run
      /\ r.config = None /\ r.server = call[c].server /\ r.account = call[c].account
      /\ r.token = call[c].token /\ r.persist = call[c].persist
      /\ r.asker = call[c].asker /\ r.asked = call[c].asked
      /\ r.dropped = call[c].dropped /\ r.rejected = call[c].rejected
  BY RequestFields DEF Request
<1> HIDE DEF r
<1>6. TypeOK' /\ Files' /\ call'[c] = r /\ \A d \in Calls \ {c} : CallInv(d)'
  BY <1>2, <1>3, <1>4, <1>5, OwnStep DEF WriteSteps, Asking
<1>7. CallInv(c)'
  <2> USE <1>1, <1>2, <1>5, <1>6 DEF WriteSteps, Asking
  <2>1. Holds(c)'
    BY RequestFields, ManagerConstants DEF CallInv, Holds, Issued, Files
  <2>2. Kind(c)'
    BY DEF CallInv, Kind
  <2>3. Alone(c)'
    BY DEF CallInv, Alone
  <2>4. AtConfigured(c)'
    BY DEF CallInv, Kind, AtConfigured
  <2>5. NewToken(c)'
    BY DEF NewToken
  <2>6. Renewed(c)'
    BY DEF CallInv, Holds, Kind, Renewed
  <2>7. FormSaved(c)'
    BY DEF CallInv, Kind, FormSaved
  <2>8. SavesTyped(c)'
    BY DEF CallInv, SavesTyped
  <2> QED
    BY <2>1, <2>2, <2>3, <2>4, <2>5, <2>6, <2>7, <2>8 DEF CallInv
<1> QED
  BY <1>6, <1>7 DEF SignInInv

\* Without an account in the environment the saved credentials are read.
LEMMA FetchKeeps ==
  ASSUME TypeOK, SignInInv, NEW c \in Calls, call[c].owner = Shared,
         call[c].run.api = None, call[c].run.account = None, Reauthenticate(c)
  PROVE  TypeOK' /\ SignInInv'
<1> DEFINE r == [call[c] EXCEPT !.at = "re_credentials", !.config = configFile]
<1>1. CallInv(c) /\ Files
  BY DEF SignInInv
<1>2. /\ call[c].at = "re_config"
      /\ call[c].owner = Shared
      /\ configFile \in Config \cup {None}
      /\ UNCHANGED <<now, configFile, sessionFile, credentials, sessions>>
      /\ UNCHANGED <<typed, torn>>
      /\ torn \in BOOLEAN /\ typed \subseteq Accounts
  BY DEF Reauthenticate, At, files, history, TypeOK
<1>3. r \in Request
  <2>1. call[c] \in Request
    BY DEF TypeOK
  <2> QED
    BY <1>2, <2>1 DEF Request, Steps
<1>4. call' = [call EXCEPT ![c] = r]
  BY <1>2 DEF Reauthenticate, TypeOK
<1>5. /\ r.at = "re_credentials" /\ r.owner = call[c].owner /\ r.run = call[c].run
      /\ r.config = configFile /\ r.server = call[c].server
      /\ r.account = call[c].account /\ r.token = call[c].token
      /\ r.persist = call[c].persist /\ r.asker = call[c].asker
      /\ r.asked = call[c].asked /\ r.dropped = call[c].dropped
      /\ r.rejected = call[c].rejected
  BY RequestFields DEF Request
<1> HIDE DEF r
<1>6. TypeOK' /\ Files' /\ call'[c] = r /\ \A d \in Calls \ {c} : CallInv(d)'
  BY <1>2, <1>3, <1>4, <1>5, OwnStep DEF WriteSteps, Asking
<1>7. CallInv(c)'
  <2> USE <1>1, <1>2, <1>5, <1>6 DEF WriteSteps, Asking
  <2>1. Holds(c)'
    BY RequestFields, ManagerConstants DEF CallInv, Holds, Issued, Files
  <2>2. Kind(c)'
    BY DEF CallInv, Kind
  <2>3. Alone(c)'
    BY DEF CallInv, Alone
  <2>4. AtConfigured(c)'
    BY DEF CallInv, Kind, AtConfigured
  <2>5. NewToken(c)'
    BY DEF NewToken
  <2>6. Renewed(c)'
    BY DEF CallInv, Holds, Kind, Renewed
  <2>7. FormSaved(c)'
    BY DEF CallInv, Kind, FormSaved
  <2>8. SavesTyped(c)'
    BY DEF CallInv, SavesTyped
  <2> QED
    BY <2>1, <2>2, <2>3, <2>4, <2>5, <2>6, <2>7, <2>8 DEF CallInv
<1> QED
  BY <1>6, <1>7 DEF SignInInv

\* A sign-in goes to the server of the environment.
LEMMA LogInToKeeps ==
  ASSUME TypeOK, SignInInv, NEW c \in Calls, NEW server \in Servers,
         NEW account \in Accounts, NEW persist \in BOOLEAN,
         call[c].at \in {"re_config", "re_credentials"},
         call[c].owner \notin Users,
         call[c].run.url # None => server = call[c].run.url,
         persist = TRUE => account \in typed, LogInTo(c, server, account, persist),
         UNCHANGED <<now, configFile, sessionFile, credentials, sessions>>,
         UNCHANGED <<typed, torn>>
  PROVE  TypeOK' /\ SignInInv'
<1> DEFINE r == [call[c] EXCEPT !.at = "login",
                 !.server = server,
                 !.account = account,
                 !.persist = persist,
                 !.config = None]
<1>1. CallInv(c) /\ Files
  BY DEF SignInInv
<1>2. /\ call[c].at \in {"re_config", "re_credentials"}
      /\ UNCHANGED <<typed, torn>>
      /\ torn \in BOOLEAN /\ typed \subseteq Accounts
      /\ server # None /\ account # None
  BY ManagerConstants DEF TypeOK
<1>3. r \in Request
  <2>1. call[c] \in Request
    BY DEF TypeOK
  <2> QED
    BY <2>1 DEF Request, Steps
<1>4. call' = [call EXCEPT ![c] = r]
  BY <1>2 DEF LogInTo, TypeOK
<1>5. /\ r.at = "login" /\ r.owner = call[c].owner /\ r.run = call[c].run
      /\ r.config = None /\ r.server = server /\ r.account = account
      /\ r.token = call[c].token /\ r.persist = persist /\ r.asker = call[c].asker
      /\ r.asked = call[c].asked /\ r.dropped = call[c].dropped
      /\ r.rejected = call[c].rejected
  BY RequestFields DEF Request
<1> HIDE DEF r
<1>6. TypeOK' /\ Files' /\ call'[c] = r /\ \A d \in Calls \ {c} : CallInv(d)'
  <2>1. r.at = "login" /\ r.token = call[c].token /\ r.rejected = call[c].rejected
    BY <1>5
  <2>2. /\ torn => torn'
        /\ torn' \in BOOLEAN
        /\ typed \subseteq typed' /\ typed' \subseteq Accounts
        /\ call[c].at \notin Asking \cup {"left", "write_session"}
    BY <1>2 DEF Asking
  <2>3. UNCHANGED <<now, configFile, sessionFile, credentials, sessions>>
    OBVIOUS
  <2> QED
    BY <2>1, <2>2, <2>3, <1>3, <1>4, OwnStep
<1>7. CallInv(c)'
  <2> USE <1>1, <1>2, <1>5, <1>6 DEF WriteSteps, Asking
  <2>9. call[c].owner = Shared
    BY RequestFields DEF Request
  <2> USE <2>9
  <2>1. Holds(c)'
    BY RequestFields, ManagerConstants DEF CallInv, Holds, Issued, Files
  <2>2. Kind(c)'
    BY DEF CallInv, Kind
  <2>3. Alone(c)'
    BY DEF CallInv, Alone
  <2>4. AtConfigured(c)'
    BY DEF CallInv, Kind, AtConfigured
  <2>5. NewToken(c)'
    BY DEF NewToken
  <2>6. Renewed(c)'
    BY DEF CallInv, Holds, Kind, Renewed
  <2>7. FormSaved(c)'
    BY DEF CallInv, Kind, FormSaved
  <2>8. SavesTyped(c)'
    BY DEF CallInv, SavesTyped
  <2> QED
    BY <2>1, <2>2, <2>3, <2>4, <2>5, <2>6, <2>7, <2>8 DEF CallInv
<1> QED
  BY <1>6, <1>7 DEF SignInInv

\* After a 401 a configured API token is all there is.
LEMMA ApiAgainKeeps ==
  ASSUME TypeOK, SignInInv, NEW c \in Calls, call[c].owner = Shared,
         call[c].run.api # None, call[c].run.url # None, call[c].run # None,
         Reauthenticate(c)
  PROVE  TypeOK' /\ SignInInv'
<1> DEFINE r == [Idle EXCEPT !.at = "send",
                 !.run = call[c].run,
                 !.token = call[c].run.api,
                 !.server = call[c].run.url,
                 !.rejected = call[c].rejected]
<1>1. CallInv(c) /\ Files
  BY DEF SignInInv
<1>2. /\ call[c].at = "re_config"
      /\ UNCHANGED <<now, configFile, sessionFile, credentials, sessions>>
      /\ UNCHANGED <<typed, torn>>
      /\ torn \in BOOLEAN /\ typed \subseteq Accounts
      /\ call[c].run \in Deployments /\ call[c].run.url \in Servers
      /\ call[c].run.api \in Given /\ call[c].run.api \in Tokens
  <2>1. call[c].run \in Deployments /\ call[c].run.url \in Servers
    BY RequestFields
  <2>2. call[c].run.api \in Given /\ call[c].run.api \in Tokens
    BY RequestFields, ManagerConstants
  <2>3. /\ call[c].at = "re_config"
        /\ UNCHANGED <<now, configFile, sessionFile, credentials, sessions>>
        /\ UNCHANGED <<typed, torn>>
        /\ torn \in BOOLEAN /\ typed \subseteq Accounts
    BY DEF Reauthenticate, At, files, history, TypeOK
  <2> QED
    BY <2>1, <2>2, <2>3
<1>3. r \in Request
  <2>1. Idle \in Request
    BY DEF TypeOK, Idle, Request, Steps
  <2> QED
    BY <1>2, <2>1, RequestFields DEF Request, Steps
<1>4. call' = [call EXCEPT ![c] = r]
  BY <1>2 DEF Reauthenticate, ApiSession, Idle, TypeOK
<1>5. /\ r.at = "send" /\ r.owner = Shared /\ r.run = call[c].run /\ r.config = None
      /\ r.server = call[c].run.url /\ r.account = None /\ r.token = call[c].run.api
      /\ r.persist = FALSE /\ r.asker = None /\ r.asked = "no" /\ r.dropped = FALSE
      /\ r.rejected = call[c].rejected
  BY DEF Idle
<1> HIDE DEF r
<1>6. TypeOK' /\ Files' /\ call'[c] = r /\ \A d \in Calls \ {c} : CallInv(d)'
  BY <1>2, <1>3, <1>4, <1>5, OwnStep DEF WriteSteps, Asking
<1>7. CallInv(c)'
  <2> USE <1>1, <1>2, <1>5, <1>6 DEF WriteSteps, Asking
  <2>1. Holds(c)'
    BY RequestFields, ManagerConstants DEF CallInv, Holds, Issued, Files
  <2>2. Kind(c)'
    BY DEF CallInv, Kind
  <2>3. Alone(c)'
    BY DEF CallInv, Alone
  <2>4. AtConfigured(c)'
    BY DEF CallInv, Kind, AtConfigured
  <2>5. NewToken(c)'
    BY DEF NewToken
  <2>6. Renewed(c)'
    BY DEF CallInv, Holds, Kind, Renewed
  <2>7. FormSaved(c)'
    BY DEF CallInv, Kind, FormSaved
  <2>8. SavesTyped(c)'
    BY DEF CallInv, SavesTyped
  <2> QED
    BY <2>1, <2>2, <2>3, <2>4, <2>5, <2>6, <2>7, <2>8 DEF CallInv
<1> QED
  BY <1>6, <1>7 DEF SignInInv

\* After the first 401 the rejected token is kept and the session is renewed.
LEMMA RejectKeeps ==
  ASSUME TypeOK, SignInInv, NEW c \in Calls, call[c].rejected = None,
         Unauthorized(c)
  PROVE  TypeOK' /\ SignInInv'
<1> DEFINE r == [Idle EXCEPT !.at = "re_config",
                 !.owner = call[c].owner,
                 !.run = call[c].run,
                 !.rejected = call[c].token]
<1>1. CallInv(c) /\ Files
  BY DEF SignInInv
<1>2. /\ call[c].at = "send"
      /\ call[c].rejected = None
      /\ UNCHANGED <<now, configFile, sessionFile, credentials, sessions>>
      /\ UNCHANGED <<typed, torn>>
      /\ torn \in BOOLEAN /\ typed \subseteq Accounts
  BY DEF Unauthorized, At, files, history, TypeOK
<1>3. r \in Request
  <2>1. Idle \in Request
    BY DEF TypeOK, Idle, Request, Steps
  <2> QED
    BY <1>2, <2>1, RequestFields DEF Request, Steps
<1>4. call' = [call EXCEPT ![c] = r]
  BY <1>2 DEF Unauthorized, Rejected, Idle, TypeOK
<1>5. /\ r.at = "re_config" /\ r.owner = call[c].owner /\ r.run = call[c].run
      /\ r.config = None /\ r.server = None /\ r.account = None /\ r.token = None
      /\ r.persist = FALSE /\ r.asker = None /\ r.asked = "no" /\ r.dropped = FALSE
      /\ r.rejected = call[c].token
  BY DEF Idle
<1> HIDE DEF r
<1>6. TypeOK' /\ Files' /\ call'[c] = r /\ \A d \in Calls \ {c} : CallInv(d)'
  BY <1>2, <1>3, <1>4, <1>5, OwnStep DEF WriteSteps, Asking
<1>7. CallInv(c)'
  <2> USE <1>1, <1>2, <1>5, <1>6 DEF WriteSteps, Asking
  <2>1. Holds(c)'
    BY RequestFields, ManagerConstants DEF CallInv, Holds, Issued, Files
  <2>2. Kind(c)'
    BY DEF CallInv, Kind
  <2>3. Alone(c)'
    BY DEF CallInv, Alone
  <2>4. AtConfigured(c)'
    BY DEF CallInv, Kind, AtConfigured
  <2>5. NewToken(c)'
    BY DEF NewToken
  <2>6. Renewed(c)'
    BY DEF CallInv, Holds, Kind, Renewed
  <2>7. FormSaved(c)'
    BY DEF CallInv, Kind, FormSaved
  <2>8. SavesTyped(c)'
    BY DEF CallInv, SavesTyped
  <2> QED
    BY <2>1, <2>2, <2>3, <2>4, <2>5, <2>6, <2>7, <2>8 DEF CallInv
<1> QED
  BY <1>6, <1>7 DEF SignInInv

\* What the user types into a form is what it is going to save.
LEMMA SubmitKeeps ==
  ASSUME TypeOK, SignInInv, NEW c \in Calls, NEW d \in Calls, NEW s \in Servers,
         NEW a \in Accounts, SubmitForm(c, d, s, a)
  PROVE  TypeOK' /\ SignInInv'
<1> DEFINE r == [Idle EXCEPT !.at = "login",
                 !.server = s,
                 !.account = a,
                 !.persist = TRUE,
                 !.asker = d]
<1>1. CallInv(c) /\ Files
  BY DEF SignInInv
<1>2. /\ call[c].at = "idle"
      /\ UNCHANGED <<now, configFile, sessionFile, credentials, sessions, torn>>
      /\ typed' = typed \cup {a}
      /\ torn \in BOOLEAN /\ typed \subseteq Accounts
      /\ call'[d] = call[d]
      /\ call[d].at \in Asking \cup {"left"} /\ d # c
      /\ s # None /\ a # None /\ d # None
  <2>1. call'[d] = call[d]
    BY ManagerConstants DEF SubmitForm, At, Asking, TypeOK
  <2>2. call[d].at \in Asking \cup {"left"} /\ d # c
    BY DEF SubmitForm, At, Asking
  <2>3. s # None /\ a # None /\ d # None
    BY ManagerConstants
  <2>4. /\ call[c].at = "idle"
        /\ UNCHANGED <<now, configFile, sessionFile, credentials, sessions, torn>>
        /\ typed' = typed \cup {a}
        /\ torn \in BOOLEAN /\ typed \subseteq Accounts
    BY DEF SubmitForm, At, files, TypeOK
  <2> QED
    BY <2>1, <2>2, <2>3, <2>4
<1>3. r \in Request
  <2>1. Idle \in Request
    BY DEF TypeOK, Idle, Request, Steps
  <2> QED
    BY <1>2, <2>1 DEF Request, Steps
<1>4. call' = [call EXCEPT ![c] = r]
  BY <1>2 DEF SubmitForm, Idle, TypeOK
<1>5. /\ r.at = "login" /\ r.owner = Shared /\ r.run = None /\ r.config = None
      /\ r.server = s /\ r.account = a /\ r.token = None /\ r.persist = TRUE
      /\ r.asker = d /\ r.asked = "no" /\ r.dropped = FALSE /\ r.rejected = None
  BY DEF Idle
<1> HIDE DEF r
<1>6. TypeOK' /\ Files' /\ call'[c] = r /\ \A e \in Calls \ {c} : CallInv(e)'
  BY <1>2, <1>3, <1>4, <1>5, OwnStep DEF WriteSteps, Asking
<1>7. CallInv(c)'
  <2> USE <1>1, <1>2, <1>5, <1>6 DEF WriteSteps, Asking
  <2>1. Holds(c)'
    BY RequestFields, ManagerConstants DEF CallInv, Holds, Issued, Files
  <2>2. Kind(c)'
    BY DEF CallInv, Kind
  <2>3. Alone(c)'
    BY DEF CallInv, Alone
  <2>4. AtConfigured(c)'
    BY DEF CallInv, Kind, AtConfigured
  <2>5. NewToken(c)'
    BY DEF NewToken
  <2>6. Renewed(c)'
    BY DEF CallInv, Holds, Kind, Renewed
  <2>7. FormSaved(c)'
    BY DEF CallInv, Kind, FormSaved
  <2>8. SavesTyped(c)'
    BY DEF CallInv, SavesTyped
  <2> QED
    BY <2>1, <2>2, <2>3, <2>4, <2>5, <2>6, <2>7, <2>8 DEF CallInv
<1> QED
  BY <1>6, <1>7 DEF SignInInv

\* A login whose request was dropped during a write keeps its session only.
LEMMA DropKeeps ==
  ASSUME TypeOK, SignInInv, NEW c \in Calls, Drop(c)
  PROVE  TypeOK' /\ SignInInv'
<1> DEFINE r == [call[c] EXCEPT !.dropped = TRUE,
                 !.asker = None,
                 !.run = None,
                 !.rejected = None]
<1>1. CallInv(c) /\ Files
  BY DEF SignInInv
<1>2. /\ call[c].at \in WriteSteps
      /\ UNCHANGED <<now, configFile, sessionFile, credentials, sessions>>
      /\ UNCHANGED <<typed, torn>>
      /\ torn \in BOOLEAN /\ typed \subseteq Accounts
      /\ \A d \in Calls \ {c} : call'[d] = call[d]
  <2>1. \A d \in Calls \ {c} : call'[d] = call[d]
    BY DEF Drop, TypeOK
  <2>2. /\ call[c].at \in WriteSteps
        /\ UNCHANGED <<now, configFile, sessionFile, credentials, sessions>>
        /\ UNCHANGED <<typed, torn>>
        /\ torn \in BOOLEAN /\ typed \subseteq Accounts
    BY DEF Drop, At, files, history, TypeOK
  <2> QED
    BY <2>1, <2>2
<1>3. r \in Request
  <2>1. call[c] \in Request
    BY DEF TypeOK
  <2> QED
    BY <1>2, <2>1 DEF Request, Steps
<1>4. call' = [call EXCEPT ![c] = r]
  BY <1>2 DEF Drop, TypeOK
<1>5. /\ r.at = call[c].at /\ r.owner = call[c].owner /\ r.run = None
      /\ r.config = call[c].config /\ r.server = call[c].server
      /\ r.account = call[c].account /\ r.token = call[c].token
      /\ r.persist = call[c].persist /\ r.asker = None /\ r.asked = call[c].asked
      /\ r.dropped = TRUE /\ r.rejected = None
  BY RequestFields DEF Request
<1> HIDE DEF r
<1>6. TypeOK' /\ Files' /\ call'[c] = r /\ \A d \in Calls \ {c} : CallInv(d)'
  BY <1>2, <1>3, <1>4, <1>5, OwnStep DEF WriteSteps, Asking
<1>7. CallInv(c)'
  <2> USE <1>1, <1>2, <1>5, <1>6 DEF WriteSteps, Asking
  <2>1. Holds(c)'
    BY RequestFields, ManagerConstants DEF CallInv, Holds, Issued, Files
  <2>2. Kind(c)'
    BY DEF CallInv, Kind
  <2>3. Alone(c)'
    BY DEF CallInv, Alone
  <2>4. AtConfigured(c)'
    BY DEF CallInv, Kind, AtConfigured
  <2>5. NewToken(c)'
    BY DEF CallInv, Holds, NewToken
  <2>6. Renewed(c)'
    BY DEF CallInv, Holds, Kind, Renewed
  <2>7. FormSaved(c)'
    BY DEF CallInv, Kind, FormSaved
  <2>8. SavesTyped(c)'
    BY DEF CallInv, SavesTyped
  <2> QED
    BY <2>1, <2>2, <2>3, <2>4, <2>5, <2>6, <2>7, <2>8 DEF CallInv
<1> QED
  BY <1>6, <1>7 DEF SignInInv

\* A request that is answered or fails, and a form that is over, does nothing.
LEMMA ReturnKeeps ==
  ASSUME TypeOK, SignInInv, NEW c \in Calls, Return(c),
         UNCHANGED <<now, configFile, sessionFile, credentials, sessions, typed>>,
         torn' = (torn \/ Cut(c)),
         call[c].at \in Asking \cup {"left"} => Drained(c)
  PROVE  TypeOK' /\ SignInInv'
<1>1. Idle \in Request /\ call' = [call EXCEPT ![c] = Idle]
  BY DEF Return, Idle, Request, Steps
<1>2. /\ torn => torn'
      /\ torn' \in BOOLEAN
      /\ torn' \/ call[c].at # "write_session"
      /\ typed \subseteq Accounts
  BY DEF TypeOK, Cut, At
<1>3. TypeOK' /\ Files' /\ call'[c] = Idle /\ \A d \in Calls \ {c} : CallInv(d)'
  BY <1>1, <1>2, OwnStep DEF Idle
<1>4. CallInv(c)'
  BY <1>3, IdleKeeps
<1> QED
  BY <1>3, <1>4 DEF SignInInv

\* The page of a request that was dropped stays up with the forms on it.
LEMMA LeaveKeeps ==
  ASSUME TypeOK, SignInInv, NEW c \in Calls, call[c].at \in Asking,
         call' = [call EXCEPT ![c] = [Idle EXCEPT !.at = "left"]],
         UNCHANGED <<now, files, sessions, history>>
  PROVE  TypeOK' /\ SignInInv'
<1> DEFINE r == [Idle EXCEPT !.at = "left"]
<1>1. r \in Request
  BY DEF Idle, Request, Steps
<1>2. /\ r.at = "left" /\ r.owner = Shared /\ r.run = None /\ r.server = None
      /\ r.token = None /\ r.asker = None /\ r.asked = "no" /\ r.dropped = FALSE
      /\ r.rejected = None
  BY DEF Idle
<1> HIDE DEF r
<1>3. /\ UNCHANGED <<now, configFile, sessionFile, credentials, sessions, typed, torn>>
      /\ torn \in BOOLEAN /\ typed \subseteq Accounts
      /\ call[c].at # "write_session"
  BY DEF files, history, TypeOK, Asking
<1>4. TypeOK' /\ Files' /\ call'[c] = r /\ \A d \in Calls \ {c} : CallInv(d)'
  <2>1. call' = [call EXCEPT ![c] = r]
    BY DEF r
  <2> QED
    BY <1>1, <1>2, <1>3, <2>1, OwnStep
<1>5. CallInv(c)'
  BY <1>2, <1>4 DEF CallInv, Holds, Kind, Alone, AtConfigured, NewToken, Renewed,
     FormSaved, SavesTyped, WriteSteps
<1> QED
  BY <1>4, <1>5 DEF SignInInv

\* Docmost issues a token that was nowhere before.
LEMMA LogInKeeps ==
  ASSUME TypeOK, SignInInv, NEW c \in Calls, NEW t \in Tokens, LogIn(c, t)
  PROVE  TypeOK' /\ SignInInv'
<1> DEFINE r == [call[c] EXCEPT !.at = "write_config", !.token = t]
           session == [server |-> call[c].server, account |-> call[c].account,
                       expires |-> now + Life]
<1>1. CallInv(c) /\ Files /\ call[c].at = "login"
  BY DEF SignInInv, LogIn, At
<1>2. r \in Request
  <2>1. call[c] \in Request
    BY DEF TypeOK
  <2> QED
    BY <2>1 DEF Request, Steps, WriteSteps
<1>3. /\ r.at = "write_config" /\ r.token = t /\ r.owner = call[c].owner
      /\ r.run = call[c].run /\ r.server = call[c].server /\ r.account = call[c].account
      /\ r.persist = call[c].persist /\ r.asker = call[c].asker
      /\ r.asked = call[c].asked /\ r.dropped = call[c].dropped
      /\ r.rejected = call[c].rejected
  BY RequestFields DEF Request
<1>4. session \in Session /\ session # None /\ session.server = call[c].server
  <2>1. call[c].server \in Servers /\ call[c].account \in Accounts
    BY <1>1, RequestFields DEF CallInv, Holds
  <2>2. now + Life \in Nat
    BY ManagerConstants DEF TypeOK
  <2>3. session \in Session
    BY <2>1, <2>2 DEF Session
  <2> QED
    BY <2>3, ManagerConstants
<1>5. /\ call' = [call EXCEPT ![c] = r] /\ sessions' = [sessions EXCEPT ![t] = session]
      /\ sessions[t] = None
      /\ UNCHANGED <<now, configFile, sessionFile, credentials, typed, torn>>
  BY DEF LogIn, TypeOK, files, history
<1> HIDE DEF r, session
<1>6. /\ call'[c] = r /\ \A d \in Calls \ {c} : call'[d] = call[d]
      /\ sessions'[t] = session
      /\ \A u \in Tokens : sessions[u] # None => sessions'[u] = sessions[u]
  BY <1>5 DEF TypeOK
<1>7. TypeOK'
  BY <1>2, <1>4, <1>5 DEF TypeOK
<1>8. Files'
  <2>1. credentials' # None => credentials' \in typed'
    BY <1>1, <1>5 DEF Files
  <2>2. call[c].at # "write_session" /\ call'[c].at # "write_session"
    BY <1>1, <1>3, <1>6
  <2> QED
    BY <1>5, <1>6, <2>1, <2>2, FilesKeep
<1>9. \A d \in Calls \ {c} : CallInv(d)'
  <2>1. call[c].at \notin Asking \cup {"left"}
    BY <1>1 DEF Asking
  <2> QED
    BY <1>3, <1>5, <1>6, <2>1, OthersKeep
<1>10. CallInv(c)'
  <2> USE <1>1, <1>3, <1>4, <1>5, <1>6 DEF WriteSteps, Asking
  <2>1. \A u : Issued(u) => u # t /\ Issued(u)'
    BY DEF Issued
  <2>2. Holds(c)'
    BY <2>1, ManagerConstants DEF CallInv, Holds, Issued
  <2>3. Kind(c)'
    BY RequestFields DEF Request, CallInv, Kind
  <2>4. Alone(c)' /\ AtConfigured(c)' /\ FormSaved(c)' /\ SavesTyped(c)'
    BY DEF CallInv, Alone, AtConfigured, FormSaved, SavesTyped
  <2>5. NewToken(c)'
    <3>1. sessionFile # t /\ t \notin Given
      BY <2>1, ManagerConstants DEF Files
    <3>2. \A d \in Calls : call[d].rejected # t /\ call[d].token # t
      BY <2>1, ManagerConstants DEF SignInInv, CallInv, Holds
    <3>3. \A d \in Calls : call'[d].rejected = call[d].rejected
      OBVIOUS
    <3> QED
      BY <3>1, <3>2, <3>3 DEF NewToken
  <2>6. Renewed(c)'
    BY DEF CallInv, Renewed
  <2> QED
    BY <2>2, <2>3, <2>4, <2>5, <2>6 DEF CallInv
<1> QED
  BY <1>7, <1>8, <1>9, <1>10 DEF SignInInv

\* A login that goes on after a write is what it was, one step further; one that
\* was dropped is over.
LEMMA WrittenRequest ==
  ASSUME TypeOK, SignInInv, NEW c \in Calls, NEW next \in Steps,
         call[c].at \in WriteSteps,
         Written(c, next) \/ LoggedIn(c, next)
  PROVE  /\ call' \in [Calls -> Request]
         /\ \A d \in Calls \ {c} : call'[d] = call[d]
         /\ call[c].dropped => call'[c] = Idle
         /\ ~call[c].dropped =>
              /\ call'[c].at = next /\ call'[c].owner = call[c].owner
              /\ call'[c].run = call[c].run /\ call'[c].server = call[c].server
              /\ call'[c].token = call[c].token /\ call'[c].asker = call[c].asker
              /\ call'[c].asked = call[c].asked /\ call'[c].rejected = call[c].rejected
              /\ call'[c].dropped = FALSE
              /\ Written(c, next) => /\ call'[c].account = call[c].account
                                     /\ call'[c].persist = call[c].persist
         /\ call'[c].token \in {call[c].token, None}
         /\ call'[c].rejected \in {call[c].rejected, None}
<1>1. Idle \in Request /\ Idle.token = None /\ Idle.rejected = None
  BY DEF Idle, Request, Steps
<1>2. call[c] \in Request
  BY DEF TypeOK
<1>3. CASE call[c].dropped
  <2>1. call' = [call EXCEPT ![c] = Idle]
    BY <1>3 DEF Written, LoggedIn, TypeOK
  <2> QED
    BY <1>1, <1>3, <2>1 DEF TypeOK
<1>4. CASE ~call[c].dropped /\ Written(c, next)
  <2> DEFINE r == [call[c] EXCEPT !.at = next]
  <2>1. call' = [call EXCEPT ![c] = r]
    BY <1>4 DEF Written, TypeOK
  <2>2. r \in Request
    BY <1>2 DEF Request
  <2>3. /\ r.at = next /\ r.owner = call[c].owner /\ r.run = call[c].run
        /\ r.server = call[c].server /\ r.token = call[c].token
        /\ r.asker = call[c].asker /\ r.asked = call[c].asked
        /\ r.rejected = call[c].rejected /\ r.dropped = call[c].dropped
        /\ r.account = call[c].account /\ r.persist = call[c].persist
    BY <1>2 DEF Request
  <2>4. call[c].dropped = FALSE
    BY <1>2, <1>4 DEF Request
  <2> HIDE DEF r
  <2> QED
    BY <1>4, <2>1, <2>2, <2>3, <2>4 DEF TypeOK
<1>5. CASE ~call[c].dropped /\ LoggedIn(c, next) /\ ~Written(c, next)
  <2> DEFINE r == [call[c] EXCEPT !.at = next, !.account = None, !.persist = FALSE]
  <2>1. call' = [call EXCEPT ![c] = r]
    BY <1>5 DEF LoggedIn, TypeOK
  <2>2. r \in Request
    BY <1>2 DEF Request
  <2>3. /\ r.at = next /\ r.owner = call[c].owner /\ r.run = call[c].run
        /\ r.server = call[c].server /\ r.token = call[c].token
        /\ r.asker = call[c].asker /\ r.asked = call[c].asked
        /\ r.rejected = call[c].rejected /\ r.dropped = call[c].dropped
    BY <1>2 DEF Request
  <2>4. call[c].dropped = FALSE
    BY <1>2, <1>5 DEF Request
  <2> HIDE DEF r
  <2> QED
    BY <1>5, <2>1, <2>2, <2>3, <2>4 DEF TypeOK
<1> QED
  BY <1>3, <1>4, <1>5

\* Writing the config ends the agreement with the session until that is written.
LEMMA WriteConfigKeeps ==
  ASSUME TypeOK, SignInInv, NEW c \in Calls, WriteConfig(c)
  PROVE  TypeOK' /\ SignInInv'
<1> DEFINE new == [server |-> call[c].server, account |-> call[c].account]
<1>1. CallInv(c) /\ Files /\ call[c].at = "write_config"
  BY DEF SignInInv, WriteConfig, At
<1>2. new \in Config /\ new # None /\ new.server = call[c].server
  <2>1. call[c].server \in Servers /\ call[c].account \in Accounts
    BY <1>1, RequestFields DEF CallInv, Holds, WriteSteps
  <2>2. new \in Config
    BY <2>1 DEF Config
  <2> QED
    BY <2>2, ManagerConstants
<1>3. /\ configFile' = new /\ Written(c, "write_session")
      /\ UNCHANGED <<now, sessionFile, credentials, sessions, typed>>
  BY DEF WriteConfig
<1> HIDE DEF new
<1>4. /\ torn' \in BOOLEAN /\ (call[c].dropped => torn')
      /\ ~torn' => ~torn /\ \A d \in Calls : At(d, "write_session")
                                                => call[d].server = call[c].server
  BY DEF WriteConfig, Torn, TypeOK
<1>5. /\ call' \in [Calls -> Request]
      /\ \A d \in Calls \ {c} : call'[d] = call[d]
      /\ call[c].dropped => call'[c] = Idle
      /\ ~call[c].dropped =>
           /\ call'[c].at = "write_session" /\ call'[c].owner = call[c].owner
           /\ call'[c].run = call[c].run /\ call'[c].server = call[c].server
           /\ call'[c].token = call[c].token /\ call'[c].asker = call[c].asker
           /\ call'[c].asked = call[c].asked /\ call'[c].rejected = call[c].rejected
           /\ call'[c].dropped = FALSE
           /\ call'[c].account = call[c].account /\ call'[c].persist = call[c].persist
      /\ call'[c].token \in {call[c].token, None}
      /\ call'[c].rejected \in {call[c].rejected, None}
  <2>1. "write_session" \in Steps /\ call[c].at \in WriteSteps
    BY <1>1 DEF Steps, WriteSteps
  <2> QED
    BY <1>3, <2>1, WrittenRequest
<1>6. TypeOK'
  BY <1>2, <1>3, <1>4, <1>5 DEF TypeOK
<1>7. Files'
  <2>1. CASE torn'
    BY <1>1, <1>3, <2>1 DEF Files, Issued
  <2>2. CASE ~torn'
    <3>1. At(c, "write_session")' /\ call'[c].server = call[c].server
      BY <1>4, <1>5, <2>2 DEF At
    <3>2. \A d \in Calls : At(d, "write_session")'
            => configFile' # None /\ configFile'.server = call'[d].server
      BY <1>2, <1>3, <1>4, <1>5, <2>2, <3>1 DEF At
    <3> QED
      BY <1>1, <1>3, <3>1, <3>2 DEF Files, Issued
  <2> QED
    BY <2>1, <2>2
<1>8. \A d \in Calls \ {c} : CallInv(d)'
  <2>1. call[c].at \notin Asking \cup {"left"}
    BY <1>1 DEF Asking
  <2> QED
    BY <1>3, <1>5, <2>1, OthersKeep
<1>9. CallInv(c)'
  <2>1. CASE call[c].dropped
    BY <1>5, <2>1, IdleKeeps
  <2>2. CASE ~call[c].dropped
    <3> USE <1>1, <1>3, <1>5, <2>2 DEF WriteSteps, Asking
    <3>1. Holds(c)'
      BY DEF CallInv, Holds, Issued
    <3>2. Kind(c)'
      BY RequestFields DEF Request, CallInv, Kind
    <3>3. Alone(c)' /\ AtConfigured(c)' /\ SavesTyped(c)' /\ FormSaved(c)'
      BY DEF CallInv, Alone, AtConfigured, SavesTyped, FormSaved
    <3>4. NewToken(c)'
      BY DEF CallInv, NewToken
    <3>5. Renewed(c)'
      BY DEF CallInv, Renewed
    <3> QED
      BY <3>1, <3>2, <3>3, <3>4, <3>5 DEF CallInv
  <2> QED
    BY <2>1, <2>2
<1> QED
  BY <1>6, <1>7, <1>8, <1>9 DEF SignInInv

\* Writing the session restores the agreement, and makes the saved session
\* another one than every session that was rejected.
LEMMA WriteSessionKeeps ==
  ASSUME TypeOK, SignInInv, NEW c \in Calls, WriteSession(c)
  PROVE  TypeOK' /\ SignInInv'
<1>1. CallInv(c) /\ Files /\ call[c].at = "write_session"
  BY DEF SignInInv, WriteSession, At
<1>2. /\ sessionFile' = call[c].token
      /\ call[c].persist => Written(c, "write_credentials")
      /\ ~call[c].persist => LoggedIn(c, "send")
      /\ UNCHANGED <<now, configFile, credentials, sessions, typed, torn>>
  BY DEF WriteSession, history
<1> DEFINE next == IF call[c].persist THEN "write_credentials" ELSE "send"
<1>3. /\ call' \in [Calls -> Request]
      /\ \A d \in Calls \ {c} : call'[d] = call[d]
      /\ call[c].dropped => call'[c] = Idle
      /\ ~call[c].dropped =>
           /\ call'[c].at = next /\ call'[c].owner = call[c].owner
           /\ call'[c].run = call[c].run /\ call'[c].server = call[c].server
           /\ call'[c].token = call[c].token /\ call'[c].asker = call[c].asker
           /\ call'[c].asked = call[c].asked /\ call'[c].rejected = call[c].rejected
           /\ call'[c].dropped = FALSE
           /\ call[c].persist => /\ call'[c].account = call[c].account
                                 /\ call'[c].persist = call[c].persist
      /\ call'[c].token \in {call[c].token, None}
      /\ call'[c].rejected \in {call[c].rejected, None}
  <2>1. next \in Steps /\ call[c].at \in WriteSteps
    BY <1>1 DEF Steps, WriteSteps
  <2>2. CASE call[c].persist
    BY <1>2, <2>1, <2>2, WrittenRequest
  <2>3. CASE ~call[c].persist
    BY <1>2, <2>1, <2>3, WrittenRequest
  <2> QED
    BY <2>2, <2>3
<1>4. /\ Issued(call[c].token) /\ call[c].token # None
      /\ sessions[call[c].token].server = call[c].server
  BY <1>1 DEF CallInv, Holds, WriteSteps
<1>5. TypeOK'
  BY <1>2, <1>3, <1>4 DEF TypeOK, Issued
<1>6. Files'
  <2>1. \A d \in Calls : At(d, "write_session")' => At(d, "write_session") /\ d # c
    BY <1>3 DEF At, Idle
  <2>2. ~torn => configFile # None /\ configFile.server = call[c].server
    BY <1>1 DEF Files, At
  <2> QED
    BY <1>1, <1>2, <1>3, <1>4, <2>1, <2>2 DEF Files, Issued
<1>7. \A d \in Calls \ {c} : CallInv(d)'
  <2>1. call[c].at \notin Asking \cup {"left"}
    BY <1>1 DEF Asking
  <2> QED
    BY <1>1, <1>2, <1>3, <2>1, OthersKeep
<1>8. CallInv(c)'
  <2>1. CASE call[c].dropped
    BY <1>3, <2>1, IdleKeeps
  <2>2. CASE ~call[c].dropped
    <3> USE <1>1, <1>2, <1>3, <1>4, <2>2 DEF WriteSteps, Asking
    <3>1. Holds(c)'
      BY DEF CallInv, Holds, Issued
    <3>2. Kind(c)'
      BY RequestFields DEF Request, CallInv, Kind
    <3>3. Alone(c)' /\ AtConfigured(c)' /\ SavesTyped(c)'
      BY DEF CallInv, Alone, AtConfigured, SavesTyped
    <3>4. NewToken(c)'
      BY DEF NewToken
    <3>5. Renewed(c)'
      BY DEF CallInv, Kind, NewToken, Renewed
    <3>6. FormSaved(c)'
      <4> SUFFICES ASSUME call[c].asker # None
                   PROVE  call'[call[c].asker].rejected # call[c].token
        BY DEF FormSaved
      <4>1. call[c].asker \in Calls \ {c}
        BY RequestFields DEF Request, CallInv, Kind
      <4> QED
        BY <4>1 DEF CallInv, NewToken
    <3> QED
      BY <3>1, <3>2, <3>3, <3>4, <3>5, <3>6 DEF CallInv
  <2> QED
    BY <2>1, <2>2
<1> QED
  BY <1>5, <1>6, <1>7, <1>8 DEF SignInInv

\* The credentials that are saved were typed in.
LEMMA WriteCredentialsKeeps ==
  ASSUME TypeOK, SignInInv, NEW c \in Calls, WriteCredentials(c)
  PROVE  TypeOK' /\ SignInInv'
<1> DEFINE next == IF call[c].asker # None THEN "settled" ELSE "send"
<1>1. CallInv(c) /\ Files /\ call[c].at = "write_credentials"
  BY DEF SignInInv, WriteCredentials, At
<1>2. /\ credentials' = call[c].account /\ LoggedIn(c, next)
      /\ UNCHANGED <<now, configFile, sessionFile, sessions, typed, torn>>
  BY DEF WriteCredentials, history
<1>3. /\ call' \in [Calls -> Request]
      /\ \A d \in Calls \ {c} : call'[d] = call[d]
      /\ call[c].dropped => call'[c] = Idle
      /\ ~call[c].dropped =>
           /\ call'[c].at = next /\ call'[c].owner = call[c].owner
           /\ call'[c].run = call[c].run /\ call'[c].server = call[c].server
           /\ call'[c].token = call[c].token /\ call'[c].asker = call[c].asker
           /\ call'[c].asked = call[c].asked /\ call'[c].rejected = call[c].rejected
           /\ call'[c].dropped = FALSE
      /\ call'[c].token \in {call[c].token, None}
      /\ call'[c].rejected \in {call[c].rejected, None}
  <2>1. next \in Steps /\ call[c].at \in WriteSteps
    BY <1>1 DEF Steps, WriteSteps
  <2> QED
    BY <1>2, <2>1, WrittenRequest
<1>4. call[c].account \in Accounts /\ call[c].account \in typed
  BY <1>1, RequestFields DEF CallInv, Holds, SavesTyped, WriteSteps
<1>5. TypeOK'
  BY <1>2, <1>3, <1>4 DEF TypeOK
<1>6. Files'
  <2>1. call[c].at # "write_session" /\ call'[c].at # "write_session"
    BY <1>1, <1>3 DEF Idle
  <2> QED
    BY <1>2, <1>3, <1>4, <2>1, FilesKeep
<1>7. \A d \in Calls \ {c} : CallInv(d)'
  <2>1. call[c].at \notin Asking \cup {"left"}
    BY <1>1 DEF Asking
  <2> QED
    BY <1>2, <1>3, <2>1, OthersKeep
<1>8. CallInv(c)'
  <2>1. CASE call[c].dropped
    BY <1>3, <2>1, IdleKeeps
  <2>2. CASE ~call[c].dropped
    <3> USE <1>1, <1>2, <1>3, <2>2 DEF WriteSteps, Asking
    <3>1. Holds(c)'
      BY DEF CallInv, Holds, Issued
    <3>2. Kind(c)'
      BY RequestFields DEF Request, CallInv, Kind
    <3>3. Alone(c)' /\ AtConfigured(c)' /\ SavesTyped(c)'
      BY DEF CallInv, Alone, Kind, AtConfigured, SavesTyped
    <3>4. NewToken(c)'
      BY DEF NewToken
    <3>5. Renewed(c)'
      BY DEF CallInv, Holds, Kind, Renewed
    <3>6. FormSaved(c)'
      BY RequestFields DEF Request, CallInv, Kind, FormSaved
    <3> QED
      BY <3>1, <3>2, <3>3, <3>4, <3>5, <3>6 DEF CallInv
  <2> QED
    BY <2>1, <2>2
<1> QED
  BY <1>5, <1>6, <1>7, <1>8 DEF SignInInv

\* A request renews its session in one of the ways its server's environment has.
LEMMA ReauthenticateKeeps ==
  ASSUME TypeOK, SignInInv, NEW c \in Calls, Reauthenticate(c)
  PROVE  TypeOK' /\ SignInInv'
<1> DEFINE run == call[c].run
           server == Preferred(run, configFile)
<1>1. /\ At(c, "re_config") /\ CallInv(c)
      /\ UNCHANGED <<now, configFile, sessionFile, credentials, sessions>>
      /\ UNCHANGED <<typed, torn>> /\ torn \in BOOLEAN
  BY DEF Reauthenticate, SignInInv, files, history, TypeOK
<1>2. call[c].at = "re_config" /\ call[c].at \notin Asking \cup {"left"}
  BY <1>1 DEF At, Asking
<1>3. call[c].owner = Shared => run # None
  BY <1>1, <1>2 DEF CallInv, Kind, WriteSteps
<1>4. CASE call[c].owner # Shared \/ (run.api = None /\ run.account # None /\ server = None)
  <2>1. Return(c)
    BY <1>4 DEF Reauthenticate, RenewFixed
  <2>2. torn' = (torn \/ Cut(c))
    BY <1>1, <1>2 DEF Cut, At
  <2> QED
    BY <1>1, <1>2, <2>1, <2>2, ReturnKeeps
<1>5. CASE call[c].owner = Shared /\ run.api # None
  BY <1>1, <1>3, <1>5, ApiAgainKeeps DEF CallInv, Kind
<1>6. CASE call[c].owner = Shared /\ run.api = None /\ run.account # None /\ server # None
  <2>1. LogInTo(c, server, run.account, FALSE)
    BY <1>6 DEF Reauthenticate
  <2>2. server \in Servers /\ run.account \in Accounts
    BY <1>3, <1>6, RequestFields DEF Preferred
  <2>3. run.url # None => server = run.url
    BY DEF Preferred
  <2>4. call[c].owner \notin Users
    BY <1>6, ManagerConstants
  <2> QED
    BY <1>1, <1>2, <2>1, <2>2, <2>3, <2>4, LogInToKeeps
<1>7. CASE call[c].owner = Shared /\ run.api = None /\ run.account = None
  BY <1>7, FetchKeeps
<1> QED
  BY <1>4, <1>5, <1>6, <1>7

\* The saved credentials were typed in, and are used at the preferred server.
LEMMA UseCredentialsKeeps ==
  ASSUME TypeOK, SignInInv, NEW c \in Calls, UseCredentials(c)
  PROVE  TypeOK' /\ SignInInv'
<1> DEFINE server == Preferred(call[c].run, call[c].config)
<1>1. /\ call[c].at = "re_credentials" /\ server # None /\ credentials # None
      /\ LogInTo(c, server, credentials, TRUE)
      /\ UNCHANGED <<now, configFile, sessionFile, credentials, sessions>>
      /\ UNCHANGED <<typed, torn>>
  BY DEF UseCredentials, At, files, history
<1>2. call[c].owner = Shared /\ call[c].run # None /\ credentials \in typed
  BY <1>1 DEF SignInInv, CallInv, Alone, Kind, Files, WriteSteps
<1>3. server \in Servers /\ credentials \in Accounts
  BY <1>1, <1>2, RequestFields DEF Preferred, TypeOK
<1>4. call[c].run.url # None => server = call[c].run.url
  BY DEF Preferred
<1>5. call[c].owner \notin Users
  BY <1>2, ManagerConstants
<1> QED
  BY <1>1, <1>2, <1>3, <1>4, <1>5, LogInToKeeps

\* A request that is answered, fails or is over, and a form that is over.
LEMMA OverKeeps ==
  ASSUME TypeOK, SignInInv, NEW c \in Calls,
         Answer(c) \/ Unauthorized(c) \/ FormOver(c) \/ ClosePage(c) \/ Fail(c)
  PROVE  TypeOK' /\ SignInInv'
<1> USE DEF files, history
<1>1. torn \in BOOLEAN
  BY DEF TypeOK
<1>2. CASE Answer(c) \/ (Unauthorized(c) /\ call[c].rejected # None) \/ FormOver(c)
  <2>1. /\ Return(c) /\ call[c].at \in {"send", "settled"}
        /\ UNCHANGED <<now, configFile, sessionFile, credentials, sessions, typed, torn>>
    BY <1>2 DEF Answer, Unauthorized, FormOver, At
  <2>2. call[c].at \notin Asking \cup {"left"} /\ torn' = (torn \/ Cut(c))
    BY <1>1, <2>1 DEF Asking, Cut, At
  <2> QED
    BY <2>1, <2>2, ReturnKeeps
<1>3. CASE Unauthorized(c) /\ call[c].rejected = None
  BY <1>3, RejectKeeps
<1>4. CASE ClosePage(c)
  <2>1. /\ Return(c) /\ call[c].at = "left" /\ Drained(c)
        /\ UNCHANGED <<now, configFile, sessionFile, credentials, sessions, typed, torn>>
    BY <1>4 DEF ClosePage, At
  <2>2. torn' = (torn \/ Cut(c))
    BY <1>1, <2>1 DEF Cut, At
  <2> QED
    BY <2>1, <2>2, ReturnKeeps
<1>5. CASE Fail(c)
  <2>1. /\ UNCHANGED <<now, configFile, sessionFile, credentials, sessions, typed>>
        /\ torn' = (torn \/ Cut(c)) /\ call[c].at # "left"
    BY <1>5 DEF Fail, At
  <2>2. CASE call[c].at \in Asking
    <3>1. torn' = torn
      BY <1>1, <2>1, <2>2 DEF Cut, At, Asking
    <3>2. call' = [call EXCEPT ![c] = [Idle EXCEPT !.at = "left"]]
      BY <1>5, <2>2 DEF Fail
    <3> QED
      BY <2>1, <2>2, <3>1, <3>2, LeaveKeeps
  <2>3. CASE call[c].at \notin Asking
    <3>1. Return(c)
      BY <1>5, <2>3 DEF Fail
    <3> QED
      BY <2>1, <2>3, <3>1, ReturnKeeps
  <2> QED
    BY <2>2, <2>3
<1> QED
  BY <1>2, <1>3, <1>4, <1>5

\* The invariant says nothing of the clock.
LEMMA ClockKeeps ==
  ASSUME TypeOK, SignInInv, now' \in Nat,
         UNCHANGED <<files, sessions, call, history>>
  PROVE  TypeOK' /\ SignInInv'
<1> USE DEF files, history
<1>1. TypeOK'
  BY DEF TypeOK
<1>2. Files'
  BY DEF SignInInv, Files, Issued, At
<1>3. \A c \in Calls : CallInv(c)'
  BY DEF SignInInv, CallInv, Holds, Kind, Alone, AtConfigured, NewToken, Renewed,
         FormSaved, SavesTyped, Issued
<1> QED
  BY <1>1, <1>2, <1>3 DEF SignInInv

-----------------------------------------------------------------------------
\* Every step keeps the invariant.
LEMMA Step == TypeOK /\ SignInInv /\ [Next]_vars => TypeOK' /\ SignInInv'
<1> SUFFICES ASSUME TypeOK, SignInInv, [Next]_vars
             PROVE  TypeOK' /\ SignInInv'
  OBVIOUS
<1>1. ASSUME NEW c \in Calls, CallStep(c)
      PROVE  TypeOK' /\ SignInInv'
  <2>1. CASE \E u \in Users : BeginUser(c, u)
    BY <2>1, BeginUserKeeps
  <2>2. CASE \E run \in Deployments : BeginWithApiToken(c, run) \/ BeginShared(c, run)
    BY <2>2, BeginApiKeeps, BeginSharedKeeps
  <2>3. CASE ReadConfig(c)
    BY <2>3, ReadConfigKeeps
  <2>4. CASE ReadSession(c)
    BY <2>4, UseSavedKeeps, RenewKeeps
  <2>5. CASE Reauthenticate(c) \/ UseCredentials(c)
    BY <2>5, ReauthenticateKeeps, UseCredentialsKeeps
  <2>6. CASE Prompt(c) \/ VisitSuccess(c) \/ \E f \in Calls : Receive(c, f)
    BY <2>6, PromptKeeps, VisitKeeps, ReceiveKeeps
  <2>7. CASE RereadConfig(c) \/ RereadSession(c) \/ Drain(c)
    BY <2>7, RereadConfigKeeps, RereadSessionKeeps, DrainKeeps
  <2>8. CASE ClosePage(c) \/ Answer(c) \/ Unauthorized(c)
    BY <2>8, OverKeeps
  <2> QED
    BY <1>1, <2>1, <2>2, <2>3, <2>4, <2>5, <2>6, <2>7, <2>8 DEF CallStep
<1>2. ASSUME NEW f \in Calls, FormStep(f)
      PROVE  TypeOK' /\ SignInInv'
  BY <1>2, SubmitKeeps, OverKeeps DEF FormStep
<1>3. ASSUME NEW c \in Calls, LoginStep(c)
      PROVE  TypeOK' /\ SignInInv'
  BY <1>3, LogInKeeps, WriteConfigKeeps, WriteSessionKeeps, WriteCredentialsKeeps,
     DropKeeps DEF LoginStep
<1>4. ASSUME NEW c \in Calls, Fail(c)
      PROVE  TypeOK' /\ SignInInv'
  BY <1>4, OverKeeps
<1>5. CASE Tick
  BY <1>5, ClockKeeps DEF Tick, TypeOK
<1>6. CASE UNCHANGED vars
  BY <1>6, ClockKeeps DEF vars, TypeOK
<1> QED
  BY <1>1, <1>2, <1>3, <1>4, <1>5, <1>6 DEF Next

\* In every state the variables have their types and the invariant holds.
THEOREM SignInInvariant == Spec => [](TypeOK /\ SignInInv)
BY InitEstablishes, Step, PTL DEF Spec

\* A user's request acts for that user only, whatever the shared account's
\* requests do with the files meanwhile (manager.rs:69-73, 94-101, 141-145).
THEOREM ActsAlone == Spec => []UserActsAlone
<1>1. SignInInv => UserActsAlone
  BY DEF SignInInv, CallInv, Alone, UserActsAlone, At
<1> QED
  BY <1>1, SignInInvariant, PTL

\* A request during which the user is not asked goes to the server of its own
\* environment, however servers with other environments and forms that name
\* other servers change the files (manager.rs:116-127, 150-163, 187-198).
THEOREM ConfiguredOnly == Spec => []ConfiguredServerOnly
<1>1. SignInInv => ConfiguredServerOnly
  BY DEF SignInInv, CallInv, Kind, AtConfigured, ConfiguredServerOnly, At, WriteSteps
<1> QED
  BY <1>1, SignInInvariant, PTL

\* The second attempt of a request has another token than the rejected one and,
\* when the user was not asked, one of the server it goes to, however the logins
\* of other requests and forms interleave with its own.  A configured API token
\* (manager.rs:146-148) and a page settled by a bare visit to /success
\* (manager.rs:309-324) are the exceptions that the property names.
THEOREM FreshRetry == Spec => []RetryIsFresh
<1>1. SignInInv => RetryIsFresh
  BY DEF SignInInv, CallInv, Renewed, RetryIsFresh, At
<1> QED
  BY <1>1, SignInInvariant, PTL

\* A password is saved only when a user typed it in.
THEOREM TypedOnly == Spec => []OnlyTypedPasswordsSaved
<1>1. SignInInv => OnlyTypedPasswordsSaved
  BY DEF SignInInv, Files, OnlyTypedPasswordsSaved
<1> QED
  BY <1>1, SignInInvariant, PTL

\* The files of complete logins for one server agree once no login is between
\* its first two writes.
THEOREM Agreement == Spec => []FilesAgree
<1>1. SignInInv => FilesAgree
  BY DEF SignInInv, Files, FilesAgree, At
<1> QED
  BY <1>1, SignInInvariant, PTL
=============================================================================
