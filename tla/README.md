# A TLA+ verification of docmost-mcp

docmost-mcp is an MCP server in Rust that lets an MCP client search, read and
change a Docmost wiki. It runs in one of two ways. Over stdio it serves one
user, whose Docmost session it keeps on disk and renews by itself, if need be
through a sign-in page on the loopback interface. Over HTTP it is an OAuth
authorization server as well: each user connects an MCP client with their own
Docmost account, and every request is served with that account's session.

Almost everything that is hard about it happens between two `await`s. A request
of the token endpoint takes five locks one after the other; a form submission
holds a clone of state that others change while it logs in; a closed connection
drops a request where it happens to be. That is what the modules here model.
Paths below are relative to the repository; `oauth.rs:696` is line 696 of
`src/oauth.rs`.

## The system

| Part | State | Operations | Interacts with |
|---|---|---|---|
| OAuth authorization (`oauth.rs`) | registered clients, pending and completed authorizations, login failures; the browser's csrf cookie | register, authorize, resume, submit | Docmost (login, `users/me`), the code map |
| OAuth token grants (`oauth.rs`) | codes, access grants, refresh grants | redeem a code, rotate a refresh token, look up a bearer token, sweep | authorization stores codes; the gateway reads grants |
| MCP gateway (`http_server.rs`) | one MCP service per Docmost session | route a request, evict services | token grants |
| Local sign-in (`auth/local_server.rs`, `auth/webview.rs`, part of `auth/manager.rs`) | the settled flag, completion and shutdown channels, timer, server task | submit, visit `/success`, time out, stop | state store, Docmost login |
| Authentication manager (`auth/manager.rs`) | none of its own: the files of the state store | get session, reauthenticate, log in | state store, Docmost client |
| State store and keyring (`storage/`) | config, session and credential files, encryption key, OS keyring | read, write, clear | file system |
| Write gate and audit log (`server.rs`, `audit.rs`) | the append-only audit log | run a mutation | Docmost client |
| Docmost client (`docmost_client/`) | cached server version | POST with one retry after a 401, move, import, version probe | authentication manager, Docmost |
| Position keys (`position/`) | none (pure) | key between two keys | move |
| Pagination and rendering (`server/render.rs`, `server/tools.rs`) | none; the agent carries the cursor from call to call | fetch a page of results, show it, name the cursor | Docmost client |
| Markdown and ProseMirror (`prosemirror/`) | a `DocBuilder` per document | handle a parser event, read a document | create and update page, get page |
| Start-up, configuration, logging | read once | - | - |

What makes each part correct:

* Authorization: a code goes to the browser and client that began, and stands
  for the account a consent page named; a finished request can be replayed but
  not reopened; the throttle's limit is exceeded only by attempts in progress.
* Token grants: one sign-in is redeemable in one place; grants keep their
  client and session and end with it; nothing takes away an access token early;
  the caps hold up to the requests in progress.
* Gateway: a request evicts no service of a session that is granted throughout,
  and keeps none of a session that is over.
* Local sign-in: one outcome; the config and token returned belong together;
  the wait ends; the server is told to stop; no submission is left behind.
* Authentication manager: a user's request acts for that user only; requests go
  to the configured server unless the user was asked; a retry carries a fresh
  session unless there is none to be had; no password of the environment is
  saved; config and session on disk belong together.
* Position keys: a page lies strictly between the siblings it was placed
  between, with a key that later moves can start from and Docmost accepts.
* Pagination: an agent that is told of the end has everything or was told of
  what it was not shown; it does not page for ever.
* Markdown and ProseMirror: what is written is a well-formed document with every
  word in its place and under its marks; what the reader shows of it has the
  depth, numbers and states that were written.
* State store: a reader sees a whole file, and a saved file does not go missing,
  whoever dies; credentials fit their key.
* Write gate: nothing reaches Docmost unauthorized or unlogged, nothing is
  applied twice, and the logged outcome is true and final.

The hazards behind these properties are listed, each at its line, in
`PROJECT.json` under `hazards`.

## Modules

**OneTimeAuthorization** is the abstract promise about one sign-in: the right to
obtain tokens is in one place (`code`, with a handler that is `redeeming` or has
`issued`, `refreshable`) until it is `spent`.

**TokenGrants** is the grant store of `oauth.rs`: `exchange_token`, its two
grant types, `issue_tokens`, `cleanup_expired` and `access_session`. The three
maps are functions from the tokens that may be generated to a grant, `Fresh`
(never generated) or `Gone` (removed); hence tokens are never reused, as with
32 random bytes. Each lock operation is an action, so requests interleave
between any two of them, and `Disconnect` drops a request at any await.
`carried` is the authority a request took out of a grant and holds on its
stack. `origin` and `minted` are history. A PKCE challenge is named by its
verifier (SHA-256 is injective here); a redirect URI is a model value.
`GrantCode` is what this half sees of the authorization endpoints: a code
appears, with the lifetime of a clock reading taken before the lock
(`oauth.rs:568-579`).

**AuthorizationCodes** is the contract between the two halves of `oauth.rs`: a map
of codes that one stores into, the other takes from, and both sweep. A code is
stored once, and gone for good when it is taken or has expired. TokenGrants and
AuthorizationFlow each model the map with what their half knows of a code, and
each implements this module (`ImplementsCodes`).

**AuthorizationFlow** is the rest of `oauth.rs`. `job[h]` is the stack frame of
a request: the step it is at, its browser, its clone of the pending request,
and the values it computed before an await. The csrf token of a request is
named by the request, so a cookie is a request id. `account[b]` is the browser's
own Docmost session, which the user may change at any time (`SwitchAccount`);
`native_session` confirms it or fails. In password mode the account is what the
user types, and `Authenticate` lets Docmost accept or refuse it.

**McpGateway** EXTENDS TokenGrants by the routing of `handle_mcp`. A gateway
request is a handler of TokenGrants while it sweeps; then it reads the two maps
under two locks and changes the service map under a third. `held` and `dead`
are history: the grants that were there throughout, and the sessions whose
grants were over when the request was admitted.

**LocalSignIn** is `prompt_for_login` with the server, the timer and the forms
it waits for. `finisher[f]` is a call of `finish` (a swap, a send, a send), by a
form, a visit to `/success` or the timer. The store is reduced to the account
named in the config and in the session file. A form may fail, which ends its
writes, or its connection may close: then the handler is dropped, but the file
operation it was in goes on (`Late`, `Land`), and the graceful shutdown, which
waits for requests, does not wait for it. The prompt may have returned by then.

**AuditedWrites** is `run_write`, `record_mutation` and `send_json`. `wire` holds
requests sent and not yet processed. Docmost is external: it applies, refuses
or answers 401, and its reply may find nobody. Audit writes may fail before or
after the line is in the file. `move` calls read before and after the POST.

**AtomicFile** is what a caller of the state store relies on, as a register with
clients: a save takes effect in one step between its call and its answer, a
client is told of success after that step only, and a reader sees the document
that the file held when it was opened. `saving[w]` is where a client's save is and
which document it carries, so that the file can hold nothing but what a save in
progress puts there. **StateStore** is `write_json_file`,
`get_or_create_encryption_key`, `read_json_file` and `clear_session` on a file
system of names and inodes. An inode's content is a sequence of blocks, each
tagged with the value it belongs to and the key it was encrypted with; `Open`
truncates, `Fill` writes all blocks of a value over what is there, `Rename`
moves the name. The temporary name is the same for all writers of a file
(`with_extension("tmp")`), so a second writer opens the inode that the first is
filling, and may rename it before the first has filled it. `overlapped` records
that two writers had the temporary file at once, `keyRaced` that two found no
key; after that the code makes no promise, and the properties say so. A writer may die between any two steps.
A writer that was told of success is `returned`; that, its progress and what is
in the open inodes make up the state of AtomicFile (`saving`, `seen`, `file`).

**AuthManager** is `get_authenticated_session`, `reauthenticate`,
`login_internal` and `prompt_for_login` together with the request that calls
them (`send_json`), for concurrent `Calls`: requests, and the forms on the pages
that requests opened. The three files are atomic here; a read of a torn one is a
`Fail`. `sessions` is what Docmost issued; a token is accepted by its own server
only, and any request may be answered 401. A manager built by `from_session` for
a user of the HTTP server is a call with an owner. `Deployments` are the
environments of server processes (base URL, account, API token); each request
runs in one of them, so that several processes use one state directory at the same
time or one after the other. An API token is taken as it is, and again after a 401.

A prompt waits until its page is settled, by a form that has logged in and saved
everything, or by a bare visit to `/success`; then it reads the files, whoever wrote
them. A form may name any Docmost: `parse_login_input` takes the posted
base URL first, and the page only shows the configured one as read-only. `asked`
notes which way it was. A request that is dropped while it asks leaves its page
behind (`left`); one that is dropped during a write still ends that write
(`Drop`). `torn` records that a login was cut between its first two writes, or met
one for another server there.

**VersionProbe** is the note of `docmost_update_page`: `server_version` with its
once-cell, shared by concurrent calls, and `body_update_note`, which consults it
twice. Docmost's version is `old` or `new`, before and since v0.70.0; an
upgrade happens between calls only. The cell's rules (one call fills it, a
failure or a drop lets the next one try) are tokio's.

**Position** is `position/mod.rs` and `position/arith.rs` as operators: a key is
a sequence of digits, in a base that is a constant, and each Rust function has an
operator. Strings are added and compared through the numbers they stand for
(`Number`, `Digits`), with the widths the code gives them; a distance saturates at
`MaxNumber`. The recursion of
`integer_length_second_level` is unrolled over the run of extreme heads. In
base 62 the operators give the test vectors of `position/mod.rs`. **MovePage**
is `move_page` with `last_sibling_position` on top: `ReadLast` and `Move` are its
two requests, between which people drag, delete and move pages; Docmost's own
keys come from the same scheme, so `Drag` uses it with both bounds. `placed` is
history: what a page was placed after and before.

**PageList** is a walk through one of the four lists that are read page by page.
`Answer` is Docmost, in every combination of what its versions send: a flag, a
cursor when there is more or for every page, in `meta` or beside it, or nothing.
`IntoPage` folds the shapes, `Markdown` and `Json` are what the agent is shown,
and `Call` is a tool call with the cursor that the one before named. Items come
and go in between (`Change`); `kept` and `ever` are history. A server that sends
no flag is assumed to send a cursor only when there is more, which `into_page`
infers. `cap` is one display cap for a walk: a list is shown by one renderer.

**ProseMirror** has the nodes of a document and the reader
(`prosemirror_to_markdown`) as recursive operators, from nodes to lines of
tokens. **DocBuilder** has the writer: an operator for each method of `DocBuilder`
in `writer/build.rs`, from builder to builder. **PageBody** is the life of one
body: the events of the Markdown parser are handled one per step (`HandleEvent`),
the document is finished (`FinishPage`), and the properties look at it and at what
is shown of it. Markdown is given as the tree CommonMark makes of it; `Walk` is
the parser's event stream for that tree, with the words numbered and each event
placed in the blocks around it, so that the properties can say what has to come
out without running the writer or the reader a second time. `Readable` names
what the reader shows at all. Task markers come in tight lists only: where the
parser reports the one of a loose item is not to be seen in this repository.

**RequestTools** puts MovePage, PageList and VersionProbe side by side, and
**PageTools** adds PageBody. The tools share no state, so a behaviour is one of one
of them, chosen at the beginning (`tool`), and the state space is the sum of
theirs. RequestTools is a module of its own because PageBody's operators are
recursive, which proofs cannot reach; a behaviour of PageTools is one of RequestTools,
in which a body adds variables and changes no other.

The `*_proofs` modules hold the theorems, each those of the module it is named
after, and **RequestTools_proofs** those of PageList, VersionProbe, Position and
MovePage. The `MC_*` modules add symmetry and, where needed, the expiry of each
session; **MC_Documents** has the Markdown that is written.

## Runs

| Run | What it asks | Bounds |
|---|---|---|
| TokenGrants | TypeOK, AuthorityHeldOnce, GrantsKeepTheirSession, AccessHonouredUntilExpiry, GrantCapacity, ImplementsOneTime | 2 requests, 2 clients, 2 sessions (one ends at 3, one has no expiry), 2 codes, 3 access and 2 refresh tokens, caps of 1, clock to 3 |
| AuthorizationNative | CodeGoesToStarter, CodeForShownSession | 2 browsers, 2 accounts, 2 requests in progress, 1 authorization |
| AuthorizationPassword | LockoutBound, NoReplayGap, AnsweredNeverReopened, PendingCapacity | 1 browser, 1 account, 3 request ids with a cap of 1, 2 requests in progress, 2 codes, 1 failure allowed, clock to 1 |
| DoubleSubmit | OneCodePerRequest, violated | 1 authorization, 2 submissions |
| McpGateway | ServiceKeptWhileGranted, NoOrphanService | 2 requests, 2 sessions, 2 codes, 2+2 tokens |
| AuditedWrites | AuthorizedBeforeDispatch, AppliedAtMostOnce, SucceededWasApplied, OutcomeIsFinal | 2 calls of every kind |
| LocalSignIn | SessionOfNamedAccount, FirstOutcomeStands, NoSubmissionLeftBehind, WaitEnds, ServerToldToStop | 2 forms, 2 accounts, 1 visit, the timer |
| StateStore | WholeUnlessOverlapped, CredentialsFitKey, NeverMissing, ImplementsAtomicFile | either file, 2 writers, 1 reader, values of 1 and 2 blocks, 5 inodes |
| AuthManager | UserActsAlone, ConfiguredServerOnly, RetryIsFresh, OnlyTypedPasswordsSaved, FilesAgree | 2 calls (requests or forms), 2 servers, 2 accounts, 1 user, 1 token issued beforehand and 2 logins, 4 environments, clock to 1 |
| FalseNote | NotChangedIsTrue, violated | 1 call, no upgrade |
| PageTools | NothingWithheld, NeverPagesForever | lists of up to 4 items, limits 1 to 3, display caps 1 and 2, 2 changes, 10 kinds of servers |
| | MovedBetween, MovedKeyAccepted | base 10, 3 pages, 1 call, 3 moves, 3 first keys, shifts 0, 1 and 199 of 0..199, a list of at most 2 pages |
| | SilenceMeansApplied | 3 calls, an upgrade |
| | WellFormed, WriterKeepsText, ReadBack | 1494 bodies of up to 4 blocks |
| RoundTrip | RoundTrips, violated | 9 bodies: a list in a list |

Two requests are the smallest number at which every race of this code shows:
each check is separated from its use by awaits of one request, and a second one
suffices to get between. The proofs take most of the safety properties to any
number. Two codes with two refresh tokens allow a rotation of one sign-in while
the other is redeemed; three access tokens let a sweep meet one that has expired
and one that has not. Where a cap matters it is 1, so that two requests pass
the check together. The clock stops at MaxTime, which
exceeds the shortest lifetimes, so that expiry happens within the bound; the real
lifetimes differ only in scale. Symmetry is used over handlers, tokens and
clients, which the specifications do not distinguish, and never in a run with
liveness.

The four environments of AuthManager are a configured Docmost without an account,
the other one with an account, none, and one with an API token. One call that
asks and one that fills in its form are what a prompt needs; two requests are
what the other races need.

Two values of different length are what makes overlapping writers visible: the
tail of the longer one survives behind the shorter. In AuthManager a session
that Docmost issued lives for 2 and the window is 1, so that after one tick a
saved session is about to expire.

In PageTools, the lists have display caps of 1 and 2 for the 10 and 20 of the
code, and limits below, at and above them: whether a page is cut, and whether a
walk takes one call, several, or one more than there are items to show, does not
depend on the numbers. The bodies of MC_Documents have every kind of block, runs
of text with every inline node (marks in marks, code in marks, mentions, links
that look like mentions, images alone, among text and with code in their text),
lists of one and two items of every kind and state in lists of every kind and
state, to the third level, loose items with every block, and lists in
quotations. The builder treats all levels of a list alike and passes only the
frame above to a marker, so a fourth level shows nothing the third does not.

MovePage scales the number system down to 10 digits, of which 1 to 4 and 5 to 9
are heads of negative and other integers, and the jitter with it: a fifth of
10^3, as 47665 is a fifth of 62^3, so that the padding has three digits in both.
The first keys have neighbours of another sign or length. The shifts are the
least two, which give keys at distance one, and the greatest, which carries
furthest. People drag pages between keys of at most 5 digits (MaxKey): each drag
between the same two keys makes the next key longer, and numbers of more than 31
bits are out of TLC's reach. The greatest number (2^64 - 1 in the code,
`arith.rs:117`) is 3000 here, so that distances saturate as they do in the code.
`MovedKeyAccepted` speaks of integers of fewer than 10 digits, which in base 62 take
more than 62^8 moves to exceed. After the third placement a behaviour ends: what
could still happen moves no page.

CHECK_DEADLOCK is off in AuditedWrites (every call ends), LocalSignIn (the
prompt returns), PageTools and RoundTrip (a walk or a body comes to its end). In the others the system can always take another request.

**DoubleSubmit** is a real disagreement between the code and what it says. A test in `oauth.rs:1751-1753` says that
a duplicate submission must replay the completed callback "rather than trying
to authorize the account again". That holds when the duplicate comes after the
first answer (`AnsweredNeverReopened`); when both are in flight, each works on
its clone of the pending request (`oauth.rs:455-461`) and each stores a code.
The run excludes dropped connections, so the trace needs no failure.

**FalseNote** is another. `tools_page_write.rs:100` promises to tell the caller
"honestly whether this server actually applies REST body updates". The first
probe fails, which counts as an old server; the second, which only looks for the
version to print, succeeds: the note then says of a recent server that the body
was not changed.

**RoundTrip** is the third. `writer/mod.rs:13-16` calls the writer the inverse of
the reader, "so the two round-trip". The reader shows of an item its first
paragraph and its lists, and of a plain item no task lists (`reader.rs:219-226`):
tasks below a plain item are written and then not shown, and an agent that reads
the page and writes it back deletes them. `ReadBack` states what does come back.
It also shows what changes shape: two paragraphs of a quotation come back as
lines of one (`reader.rs:83-88`), and nested lists are indented by two
(`reader.rs:237`), which CommonMark takes for a list of its own below "1. ".

## Fairness

Only LocalSignIn states liveness. Weak fairness is assumed of the timer (a tokio
sleep), of each spawned call of `finish` and of the prompt's own steps: tokio
runs a task that is ready. Nothing is assumed of the user, of Docmost, or of a
login in progress, whose HTTP client has no timeout; hence the prompt's last
step (`Drain`) may wait for ever, and no property claims otherwise.

## Proofs

TLAPS proves 35 of the 40 properties that passing runs check for every value of the
constants: any number of requests, browsers, tokens, writers and items, any cap
and any lifetime. The assumptions are those that the modules name and TLC
evaluates in every run:

* TokenGrants and McpGateway: GrantConstants, GrantSentinels, GrantFiniteness
  (lifetimes are naturals, caps are positive, sentinels are no grants, finitely
  many requests and tokens).
* AuthorizationFlow: FlowConstants, FlowSentinels, FlowFiniteness, of the same
  kind.
* LocalSignIn: SignInConstants. Forms, visits and the timer are different
  finishers, and the account of an earlier sign-in is none of those signed in
  here.
* StateStore: StoreConstants. Values have at least one block, and there are two
  inodes more than writers and readers, so that one is always free.
* AuthManager: ManagerConstants. A user's token, and an API token, was issued
  beforehand.
* RequestTools: ToolConstants. Of PageList, that the items are finitely many and
  that Docmost refuses a limit of 0. Of Position, DigitConstants: a base of at
  least 6, the heads in the order of `arith.rs:7-14`, a jitter of a fifth of its
  third power, and a greatest number above that. Of MovePage, MoveConstants: the
  first keys are valid, and the pages finitely many.
* AuditedWrites: none.

Where there are theorems, the type invariant is proved first. Then each property
needs an invariant that a step keeps; all of these were checked by TLC on the
configurations of the runs before they were proved.

**TokenGrants.** `HeldOnce` is inductive with TypeOK: a redemption moves an
authority, and all other steps only shrink the sets of handlers and refresh
grants that hold one. `KeepSession` needs SessionInv: stored codes are as they
were minted, an access grant's code was redeemed, and the expiry a handler
computed lies within its session; without the last, InsertAccess is not
inductive. `Honoured` needs SweepClockInv: no sweep holds a time that is yet to
come. `Capacity` needs SlotInv: a handler past the count takes up a slot already;
the cap alone forgets the handlers that are still to insert. `OneTimeRefined`
shows that every step is a move of OneTimeAuthorization for one code and leaves the
place of all others alone: AuthorityHeldOnce is what makes the place of a code
well defined, hence what every case of that proof rests on. `CodesTaken` shows that
the steps on the code map are those of AuthorizationCodes; for the sweep, whose clock
reading may be old, that again takes SweepClockInv.

**AuthorizationFlow.** FlowInv says of each submission that its clone is of the
request that its browser began, and what that request's consent page showed; of
each code that it was issued for that request; of a request that left the pending
map early that its answer was stored. The copies are the point: a submission
acts on what it read five awaits earlier, and the properties follow because
nothing it copied changes. `Capacity` and `Lockout` are proved like the caps of
the grants, by Slots and ThrottleInv; an attempt that was let through counts as a
failure before it failed. `Lockout` also needs to know what a filter does to the
length of a sequence. That is an induction, done by the least-element principle
on lengths (`RecentType`), which is why `Recent` is a recursive function.
`CodesStored` shows the other half of the code map to implement AuthorizationCodes. It
needs ReadingInv: a request that is about to store a code, or to sweep, computed
its times from a reading that is not ahead of the clock.

`OneCodeAlone` is the counterpart of the run DoubleSubmit: a request is given
one code only, if at most one of its submissions is in progress at a time
(`OneAtATime`) and no connection is dropped. Without either hypothesis it is
false: two submissions each store a code, and a connection that closes between the
code and the stored answer leaves the request open to another. OneCodeInv says that
once a code was issued the request is no longer pending, or the one submission
that stored it is still on its way to removing it.

**McpGateway.** Its steps are steps of the grant store or leave it alone
(`ActsAsStore`), so that all that is proved of TokenGrants carries over
(`GatewayKeepsStore`). HeldInv says
that, of the grants that were there throughout, a request has noted the session
of each one in a map that it has read; the maps are read one after the other, and
a grant that goes in between was not there throughout. DeadInv says that what it
has noted is of no session that was over when it was admitted: what is left of
such a session is for its own sweep to remove, before it reads.

**AuditedWrites.** WriteInv says at each step of a call which of its requests is on
the wire and how often it was applied: a request is sent again only after a 401,
when the first is off the wire and was not applied, and never after a lost
connection, when it may be either. The other half keeps the log: what is on the
wire was logged before, and an outcome is logged last.

**LocalSignIn.** SignInInv has four parts: one finisher wins the flag and its
outcome is the one sent; a stopped server has no form in progress, only writes
of connections that closed; a form
finishes after its last write; and while all forms name one account, the store
has it where a form wrote it, and a late write puts nothing else there. The last is the
hypothesis of the property itself.

**StateStore.** StoreInv is conditional, as the properties are. Until writers
overlap, AloneInv: one writer at a time has the temporary inode and finds it as
it left it. Until two writers find no key, OneKeyInv: one writer creates it and
every block on disk is encrypted under it. `AtomicRefined` shows, until writers
overlap, that a rename is the one step at which a save takes effect, with the
value the caller gave, that success is told after it, and that no step changes what an
open reader sees; the steps on keys and on the temporary file are stutters of
AtomicFile. It takes AloneInv: the inode that is renamed is whole and is the
writer's own.

**AuthManager.** SignInInv says of each call what it holds at each step (`Holds`) and
what it is (`Kind`: a form belongs to a page that is up; a request knows its
environment), and of the files that a login between its two writes is the only
reason for them to disagree. For RetryIsFresh it has to follow a token from the
login that obtained it: before it is saved it is nowhere else (`NewToken`); once
a form has saved it, the saved session is not the one that the request on whose
page it is was refused (`FormSaved`), and stays so until that request has read it
(`Renewed`), whatever other logins write in between. The exceptions are those of the
code: ConfiguredServerOnly holds of a request during which the user was not
asked, RetryIsFresh of one without an API token and not settled by a bare visit.

**PageList.** CursorInv explains both properties: a cursor stands for all that
was shown, so that what was in the list throughout and lies before it was shown
or announced as withheld; and each call moved the cursor past one more item, so
that there were at least as many items as calls. **VersionProbe**: a version that
a call uses is never newer than Docmost, and Docmost does not change during a
call.

**Position and MovePage.** The properties are about strings, the code computes with
numbers, and neither is bounded. The bridge is that of two keys filled up with
zeros to one length the greater string is the greater number
(`NumbersInOrder`), which rests on two facts about recursive functions: the digits
of a number stand for it (`DigitsOfNumber`) and digits can be read off their number
(`NumberTells`). Both are inductions over lengths, done by the least-element
principle in `Induction`. The order of strings is total (`OrderTotal`). On
that bridge stand the facts about each operation. The next integer is of the form
the code accepts, after the key, and at a distance of one or of a whole power
(`NextOfInteger`, `NextDistance`); the one before it likewise
(`PreviousOfInteger`). The padding is what makes the shift fit: after it the
distance to the next integer, and to the upper bound, exceeds the jitter
(`PaddingMakesRoom`, `RoomForShift`), also where the distance has saturated. The
middle of two bounds lies between them if there is room (`MidPointBetween`).
Together they say what a jittered key is, for each of the four ways of placing a page
(`JitteredFirst`, `JitteredAfter`, `JitteredBefore`, `JitteredBetween`).

MoveInv then says of each page that its key is valid and between what it was
placed between, and of each call that the last key it read is the greatest of
those it listed and is valid. It holds of what a call read and not of what is there
when it moves, which is why the theorems hold however stale that is.

The theorems have a hypothesis. At an extreme head of a negative integer ("A",
"AA") the next integer is not the next key (`increment_integer_head`,
`arith.rs:213-225`): such keys have 26 digits or more, and Docmost stores 12.
`MovesBetween` and `MovedKeysAccepted` are about behaviours in which no page has a key
with an extreme head (`OrdinaryKeys`). `ShortKeysSuffice` replaces that by a
bound on the length of keys, 25 digits in base 62, which what Docmost accepts
implies. In the run PageTools OrdinaryKeys holds in every state.

Proving this found what the run did not. `mid_point` between a key and the same
key with zeros after it, such as "a0" and "a000", returns the upper bound itself
and not, as `position/mod.rs:27` has it, a key strictly between. Their numbers
are equal, and there is in fact no key between them. `docmost_move_page` is not
affected, since it never has an upper bound; only a drag between two such keys is.
The property therefore claims the upper half only where there is room
(`RoomBetween`).

The two theorems on ImplementsCodes, OneCodeAlone and GatewayKeepsStore state no
property of a passing run: ImplementsCodes was checked by TLC with the constants of
the runs TokenGrants, AuthorizationNative and AuthorizationPassword before it was
proved, and OneCodeInv on small instances of ConnectedSpec.

Model-checked only:

* liveness: WaitEnds and ServerToldToStop;
* WellFormed, WriterKeepsText and ReadBack: documents are trees, and the operators
  on them are RECURSIVE, as the functions of the reader are;
* the three properties that are violated, of course.

## Not modelled

* HTML, redirect URI syntax, metadata documents: text without state.
* The administrator's bearer token: a comparison in front of a fixed service.
* The order in which the platform's keyrings are tried. That the saved
  credentials do not name their server: they are tried at the preferred one.
* Partial writes of one audit line, and the order of lines of two processes.
* Restart of the HTTP server: all OAuth state is in memory and is lost
  (`README.md:73-74`, `SECURITY.md:27`), which is the initial state again.
* Search results and the list of spaces: one request and its text. The list of
  spaces asks for 100 and calls what it got the total (`docmost_client/mod.rs:146`).
* Characters of Markdown: words are opaque, since neither direction of the code
  escapes; the parser itself (pulldown_cmark) is external.
* The parts with status `not_modelled` in `PROJECT.json`: start-up reads the
  environment once and changes nothing afterwards.

The type invariants of AuthorizationFlow, McpGateway, AuditedWrites, LocalSignIn,
StateStore and AuthManager are proved, not listed among the properties of the runs.

## Plan

Parsing what the reader shows, so that a second round of reading and writing can
be compared with the first.
