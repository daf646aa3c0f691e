---------------------------- MODULE VersionProbe ----------------------------
(***************************************************************************)
(* The note that docmost_update_page adds when a page body was sent        *)
(* (src/src/server/tools_page_write.rs): whether this Docmost applies such *)
(* updates depends on its version, which server_version                    *)
(* (src/src/docmost_client/mod.rs) asks for and keeps in a once-cell that  *)
(* the concurrent calls of a client share.  A probe that fails leaves the  *)
(* cell empty.  The note consults the cell twice.                          *)
(***************************************************************************)
CONSTANTS
  Calls,     \* calls of docmost_update_page with a body
  Upgrades,  \* whether Docmost may be upgraded while this server runs
  None

Versions == {"old", "new"}  \* before v0.70.0, and since

ProbeConstants == None \notin Versions

VARIABLES
  docmost,  \* the version of Docmost
  cell,     \* the cached version, or None
  holder,   \* the call that fills the cell, or None
  call      \* each call

vars == <<docmost, cell, holder, call>>

-----------------------------------------------------------------------------
Steps == {"idle", "probe_capability", "probe_version", "answered"}
Notes == {"none", "not_changed", "unknown"}

Idle == [at |-> "idle", applied |-> FALSE, note |-> "none"]

At(c, step) == call[c].at = step
Probing(c) == call[c].at \in {"probe_capability", "probe_version"}
Answer(c, note) == call' = [call EXCEPT ![c].at = "answered", ![c].note = note]

Init ==
  /\ docmost \in Versions
  /\ cell = None
  /\ holder = None
  /\ call = [c \in Calls |-> Idle]

\* The body is sent; a Docmost before v0.70.0 ignores it without an error.
UpdatePage(c) ==
  /\ At(c, "idle")
  /\ call' = [call EXCEPT ![c].at = "probe_capability",
                          ![c].applied = (docmost = "new")]
  /\ UNCHANGED <<docmost, cell, holder>>

-----------------------------------------------------------------------------
\* Mutant of RestPageBodyUpdate: an unknown version is taken for a recent one.
AssumeRecent(version) == version # "old"

\* Capabilities::for_version
RestPageBodyUpdate(version) == version = "new"

\* body_update_note: what each of its two calls of server_version is for.
UseVersion(c, version) ==
  \/ /\ At(c, "probe_capability")
     /\ IF RestPageBodyUpdate(version) THEN Answer(c, "none")
        ELSE call' = [call EXCEPT ![c].at = "probe_version"]
  \/ /\ At(c, "probe_version")
     /\ Answer(c, IF version = None THEN "unknown" ELSE "not_changed")

\* get_or_try_init finds the cell filled.
ReadCell(c) ==
  /\ Probing(c) /\ holder # c /\ cell # None
  /\ UseVersion(c, cell)
  /\ UNCHANGED <<docmost, cell, holder>>

\* get_or_try_init: one call fills the cell, the others wait for it.
Acquire(c) ==
  /\ Probing(c) /\ cell = None /\ holder = None
  /\ holder' = c
  /\ UNCHANGED <<docmost, cell, call>>

\* /api/version answers.
ProbeSucceeds(c) ==
  /\ holder = c
  /\ cell' = docmost
  /\ holder' = None
  /\ UseVersion(c, docmost)
  /\ UNCHANGED docmost

\* /api/version is unavailable, fails, or answers with no readable version.
ProbeFails(c) ==
  /\ holder = c
  /\ holder' = None
  /\ UseVersion(c, None)
  /\ UNCHANGED <<docmost, cell>>

\* The call is dropped; another one may fill the cell.
Drop(c) ==
  /\ Probing(c)
  /\ call' = [call EXCEPT ![c] = Idle]
  /\ holder' = IF holder = c THEN None ELSE holder
  /\ UNCHANGED <<docmost, cell>>

Finish(c) ==
  /\ At(c, "answered")
  /\ call' = [call EXCEPT ![c] = Idle]
  /\ UNCHANGED <<docmost, cell, holder>>

\* Docmost restarts with a newer version, between two calls.
Upgrade ==
  /\ Upgrades /\ docmost = "old"
  /\ \A c \in Calls : ~Probing(c)
  /\ docmost' = "new"
  /\ UNCHANGED <<cell, holder, call>>

CallStep(c) ==
  \/ UpdatePage(c) \/ ReadCell(c) \/ Acquire(c)
  \/ ProbeSucceeds(c) \/ ProbeFails(c) \/ Drop(c) \/ Finish(c)

Next == Upgrade \/ \E c \in Calls : CallStep(c)

Spec == Init /\ [][Next]_vars

-----------------------------------------------------------------------------
\* A call that is answered without a note has changed the body: whatever
\* probes failed, were shared with other calls or dropped, no capability is
\* claimed that the server lacks (version.rs:7-8, tools_page_write.rs:111-113).
SilenceMeansApplied ==
  \A c \in Calls : At(c, "answered") /\ call[c].note = "none" => call[c].applied

\* "Tell the caller honestly whether this server actually applies REST body
\* updates" (tools_page_write.rs:100): a note that the body was not changed is
\* true.  It is false when the first probe fails and the second finds a recent
\* version.
NotChangedIsTrue ==
  \A c \in Calls :
    At(c, "answered") /\ call[c].note = "not_changed" => ~call[c].applied
=============================================================================
