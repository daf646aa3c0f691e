---------------------------- MODULE RequestTools ----------------------------
(***************************************************************************)
(* The tools of this server whose work on pages is a sequence of requests, *)
(* checked together: the lists (PageList), docmost_move_page (MovePage)    *)
(* and the note of docmost_update_page (VersionProbe).  They share no      *)
(* state, so a behaviour is one of one kind of tool, the others staying as *)
(* they began.  The kind "body" is left to PageTools.                      *)
(***************************************************************************)
EXTENDS MovePage

CONSTANTS
  Items, Limits, Caps, MaxChanges,  \* of PageList
  UpdateCalls, Upgrades             \* of VersionProbe

VARIABLES
  tool,  \* the kind of tool that is used
  list, server, walk, changes, kept, ever,
  docmost, cell, holder, update

List == INSTANCE PageList
Update == INSTANCE VersionProbe WITH Calls <- UpdateCalls, call <- update

ASSUME ToolConstants == List!ListConstants /\ Update!ProbeConstants

listVars == <<list, server, walk, changes, kept, ever>>
updateVars == <<docmost, cell, holder, update>>
requestVars == <<tool, listVars, vars, updateVars>>

\* A tool that is not used.
NoList ==
  /\ list = None /\ server = None /\ walk = None
  /\ changes = None /\ kept = None /\ ever = None
NoMove == position = None /\ call = None /\ moves = None /\ placed = None
NoUpdate == docmost = None /\ cell = None /\ holder = None /\ update = None

RequestInit ==
  \/ tool = "list" /\ List!ListInit /\ NoMove /\ NoUpdate
  \/ tool = "move" /\ Init /\ NoList /\ NoUpdate
  \/ tool = "update" /\ Update!Init /\ NoList /\ NoMove
  \/ tool = "body" /\ NoList /\ NoMove /\ NoUpdate

RequestNext ==
  /\ UNCHANGED tool
  /\ \/ tool = "list" /\ List!ListNext /\ UNCHANGED <<vars, updateVars>>
     \/ tool = "move" /\ Next /\ UNCHANGED <<listVars, updateVars>>
     \/ tool = "update" /\ Update!Next /\ UNCHANGED <<listVars, vars>>

RequestSpec == RequestInit /\ [][RequestNext]_requestVars

-----------------------------------------------------------------------------
\* An agent never concludes from its pages that it has everything when it has
\* not (README.md:142-144).
NothingWithheld == tool = "list" => List!NothingWithheld

\* An agent never pages forever (README.md:143-144).
NeverPagesForever == tool = "list" => List!NeverPagesForever

\* A page lies between the siblings it was placed between, wherever there is
\* room (position/mod.rs:27; writes.rs:157-160).
MovedBetween == tool = "move" => PlacedBetween

\* A page moved after its siblings gets a key that Docmost accepts
\* (position/mod.rs:3-4, 12-13).
MovedKeyAccepted == tool = "move" => EndKeyAccepted

\* A call that is answered without a note has changed the body
\* (version.rs:7-8, tools_page_write.rs:111-113).
SilenceMeansApplied == tool = "update" => Update!SilenceMeansApplied
=============================================================================
