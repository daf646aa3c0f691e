------------------------------ MODULE PageList ------------------------------
(***************************************************************************)
(* Lists that an agent reads page by page: docmost_list_pages,             *)
(* docmost_list_child_pages, docmost_get_comments and                      *)
(* docmost_list_workspace_members (src/src/server/tools.rs).  A call is    *)
(* answered with one page of Docmost's list, as JSON or as Markdown, which *)
(* shows at most so many items, with a footer that says what there is      *)
(* besides.  The agent passes the cursor it was told to the next call.     *)
(*                                                                         *)
(* Docmost is external: it answers with the items after the cursor, and    *)
(* with as much about the rest as its version says, in one of two places.  *)
(***************************************************************************)
EXTENDS Integers, FiniteSetsExt

CONSTANTS
  Items,       \* what may be in the list, numbered in its order
  Limits,      \* the limits that agents pass, or Docmost's when they pass none
  Caps,        \* DISPLAY_CAP and MEMBER_DISPLAY_CAP: 10 and 20
  MaxChanges,  \* bound on the changes of the list during a walk
  None

\* What is assumed of the constants: Docmost refuses a limit of 0.
ListConstants ==
  /\ Items \subseteq Int /\ IsFiniteSet(Items)
  /\ Limits \subseteq Nat \ {0} /\ Caps \subseteq Nat
  /\ None \notin Items /\ None \notin BOOLEAN

VARIABLES
  list,     \* the items in Docmost's list
  server,   \* what this Docmost says of the rest, and where
  walk,     \* the agent's walk: what it was shown, and told last
  changes,  \* the number of changes so far
  kept,     \* history: the items in the list ever since the walk began
  ever      \* history: the items that were in the list during the walk

listVars == <<list, server, walk, changes, kept, ever>>

\* Servers that send hasNextPage, a cursor when there is more, both, neither,
\* or a flag and a cursor for every page.
Servers ==
  [nested : BOOLEAN, flag : BOOLEAN, cursor : {"never", "more", "always"}]
    \ [nested : BOOLEAN, flag : {FALSE}, cursor : {"always"}]

NewWalk(cap) == [cap |-> cap, calls |-> 0, shown |-> {}, withheld |-> FALSE,
                 cursor |-> None, says |-> "nothing"]

ListInit ==
  /\ list \in SUBSET Items
  /\ server \in Servers
  /\ walk \in {NewWalk(cap) : cap \in Caps}
  /\ changes = 0
  /\ kept = list
  /\ ever = list

-----------------------------------------------------------------------------
\* Docmost's answer.
Answer(cursor, limit) ==
  LET rest == {i \in list : cursor = None \/ i > cursor}
      items == {i \in rest : Cardinality({j \in rest : j < i}) < limit}
      more == items # rest
      sent == \/ server.cursor = "more" /\ more
              \/ server.cursor = "always" /\ items # {}
      said == [next_cursor |-> IF sent THEN Max(items) ELSE None,
               has_next_page |-> IF server.flag THEN more ELSE None]
      silent == [next_cursor |-> None, has_next_page |-> None]
  IN [items |-> items,
      meta |-> IF server.nested THEN said ELSE silent,
      flat |-> IF server.nested THEN silent ELSE said]

\* What of a and b is said.
Or(a, b) == IF a # None THEN a ELSE b

\* into_page: what is not said stays unknown, but a cursor implies more.
IntoPage(result) ==
  LET cursor == Or(result.meta.next_cursor, result.flat.next_cursor)
      flag == Or(result.meta.has_next_page, result.flat.has_next_page)
  IN [items |-> result.items, next_cursor |-> cursor,
      has_more |-> Or(flag, IF cursor # None THEN TRUE ELSE None)]

\* list_pages, list_child_pages, get_comments and list_workspace_members of the
\* client.
Fetch(cursor, limit) == IntoPage(Answer(cursor, limit))

Says(page) ==
  IF page.has_more = None THEN "nothing"
  ELSE IF page.has_more THEN "more" ELSE "end"

\* Mutant of NamedCursor: the cursor is named whenever there is one.
AnyCursor(page) == page.next_cursor

\* The cursor that format_pagination names.
NamedCursor(page) == IF Says(page) = "end" THEN None ELSE page.next_cursor

\* Mutant of Withheld: what the display cap leaves out is not announced.
NeverWithheld(page, shown) == FALSE

\* "Showing {shown} of {len} fetched"
Withheld(page, shown) == Cardinality(shown) < Cardinality(page.items)

\* format_page_list, format_comments and format_workspace_members: the first
\* items and a footer; an empty page has no footer.
Markdown(page, cap) ==
  LET shown == {i \in page.items : Cardinality({j \in page.items : j < i}) < cap}
  IN IF page.items = {}
     THEN [shown |-> {}, withheld |-> FALSE, cursor |-> None, says |-> "none_found"]
     ELSE [shown |-> shown, withheld |-> Withheld(page, shown),
           cursor |-> NamedCursor(page), says |-> Says(page)]

\* page_to_json; the agent stops where has_more is false.
Json(page) ==
  [shown |-> page.items, withheld |-> FALSE,
   cursor |-> IF page.has_more = FALSE THEN None ELSE page.next_cursor,
   says |-> Says(page)]

-----------------------------------------------------------------------------
\* A call of a list tool, the first one without a cursor, the next ones with
\* the cursor the agent was told.
Call(limit, json) ==
  /\ walk.calls = 0 \/ walk.cursor # None
  /\ LET page == Fetch(walk.cursor, limit)
         view == IF json THEN Json(page) ELSE Markdown(page, walk.cap)
     IN walk' = [walk EXCEPT !.calls = @ + 1,
                             !.shown = @ \cup view.shown,
                             !.withheld = @ \/ view.withheld,
                             !.cursor = view.cursor,
                             !.says = view.says]
  /\ UNCHANGED <<list, server, changes, kept, ever>>

\* Somebody adds an item or removes one while the agent walks.
Change(i) ==
  /\ changes < MaxChanges /\ changes' = changes + 1
  /\ list' = IF i \in list THEN list \ {i} ELSE list \cup {i}
  /\ kept' = kept \cap list'
  /\ ever' = ever \cup list'
  /\ UNCHANGED <<server, walk>>

ListNext ==
  \/ \E limit \in Limits, json \in BOOLEAN : Call(limit, json)
  \/ \E i \in Items : Change(i)

ListSpec == ListInit /\ [][ListNext]_listVars

-----------------------------------------------------------------------------
\* An agent never concludes that it has everything when it has not
\* (README.md:142-144): once it is told that the results end there, it was
\* shown all that was in the list throughout its walk, or was told of a page
\* that not all of it was shown.
NothingWithheld ==
  walk.says \in {"end", "none_found"} /\ ~walk.withheld => kept \subseteq walk.shown

\* An agent never pages forever (README.md:143-144): the cursors it is told
\* lead through the list once, without a call that must come back empty.
NeverPagesForever ==
  walk.calls <= 1 \/ walk.calls <= Cardinality(ever)
=============================================================================
