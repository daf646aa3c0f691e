------------------------------ MODULE MovePage ------------------------------
(***************************************************************************)
(* The pages under one parent, moved about by docmost_move_page            *)
(* (move_page and last_sibling_position, src/src/docmost_client/writes.rs) *)
(* and dragged by people in Docmost, whose keys come from the same scheme. *)
(*                                                                         *)
(* docmost_move_page reads the greatest position among the siblings,       *)
(* computes a key after it and sends the move; people and other calls move *)
(* pages in between.                                                       *)
(***************************************************************************)
EXTENDS Position, FiniteSets

CONSTANTS
  Pages,
  Calls,   \* calls of docmost_move_page in progress
  Shifts,  \* what the random shift may be, out of 0..JITTER_RANGE-1
  FirstKeys,  \* where a page may have been put by the long history before
  Limit,   \* the page size of /api/pages/sidebar-pages: 100
  MaxMoves, \* bound on the number of moves
  MaxKey   \* bound on the length of the keys people drag pages between

ASSUME MoveConstants ==
  /\ Shifts \subseteq 0..(JITTER_RANGE - 1)
  /\ FirstKeys \subseteq Seq(Digit) \ {<<>>}
  /\ \A key \in FirstKeys : Valid(key)
  /\ IsFiniteSet(Pages)
  /\ Limit \in Nat \ {0} /\ MaxKey \in Nat /\ MaxMoves \in Nat

VARIABLES
  position,  \* the key of each page under the parent, None for other pages
  call,      \* each call: the page it moves and the last position it read;
             \* and as history the positions it was to be after
  moves,     \* the number of moves so far
  placed     \* history: the positions each page was placed after and before

vars == <<position, call, moves, placed>>

-----------------------------------------------------------------------------
Idle == [page |-> None, last |-> None, listed |-> {}]

Siblings(p) == {q \in Pages \ {p} : position[q] # None}

Greatest(keys) == CHOOSE k \in keys : \A other \in keys : ~Before(k, other)

Init ==
  /\ \E p \in Pages, key \in FirstKeys :
       position = [q \in Pages |-> IF q = p THEN key ELSE None]
  /\ call = [c \in Calls |-> Idle]
  /\ moves = 0
  /\ placed = [p \in Pages |-> [after |-> {}, before |-> {}]]

Place(p, lower, upper, after, before, shift) ==
  /\ moves' = moves + 1
  /\ position' = [position EXCEPT ![p] = Jittered(lower, upper, shift)]
  /\ placed' = [placed EXCEPT ![p] = [after |-> after, before |-> before]]

-----------------------------------------------------------------------------
\* What sidebar-pages lists: the first siblings, at most so many.
Listed(p) ==
  {q \in Pages : /\ position[q] # None
                 /\ Cardinality({r \in Pages : position[r] # None
                                  /\ Before(position[r], position[q])}) < Limit}

SiblingKeys(p) == {position[q] : q \in Listed(p) \ {p}}

\* Mutant of LastSibling: the first page of the list.
FirstSibling(p) ==
  IF SiblingKeys(p) = {} THEN None
  ELSE CHOOSE k \in SiblingKeys(p) : \A other \in SiblingKeys(p) : ~Before(other, k)

\* last_sibling_position: the greatest position listed, without the page itself.
LastSibling(p) ==
  IF SiblingKeys(p) = {} THEN None ELSE Greatest(SiblingKeys(p))

ReadLast(c, p) ==
  /\ call[c] = Idle
  /\ \A d \in Calls : call[d].page # p
  /\ call' = [call EXCEPT ![c] = [page |-> p, last |-> LastSibling(p),
                                   listed |-> SiblingKeys(p)]]
  /\ UNCHANGED <<position, moves, placed>>

\* /api/pages/move with a position after the one that was read.
Move(c, shift) ==
  /\ call[c] # Idle
  /\ Place(call[c].page, call[c].last, None, call[c].listed, {}, shift)
  /\ call' = [call EXCEPT ![c] = Idle]

\* A request fails or is dropped.
Fail(c) ==
  /\ call[c] # Idle
  /\ call' = [call EXCEPT ![c] = Idle]
  /\ UNCHANGED <<position, moves, placed>>

-----------------------------------------------------------------------------
\* A person drags a page between two neighbours, or to an end.
Drag(p, shift) ==
  LET keys == {position[q] : q \in Siblings(p)} IN
  \E lower, upper \in keys \cup {None} :
    LET after == IF lower = None THEN {}
                 ELSE {k \in keys : k = lower \/ Before(k, lower)}
        before == IF upper = None THEN {}
                  ELSE {k \in keys : k = upper \/ Before(upper, k)}
    IN /\ keys # {} /\ after \cup before = keys /\ after \cap before = {}
       /\ \A bound \in {lower, upper} \ {None} : Len(bound) <= MaxKey
       /\ Place(p, lower, upper, after, before, shift)
       /\ UNCHANGED call

\* A page is deleted or moved under another parent.
Leave(p) ==
  /\ position[p] # None
  /\ position' = [position EXCEPT ![p] = None]
  /\ placed' = [placed EXCEPT ![p] = [after |-> {}, before |-> {}]]
  /\ UNCHANGED <<call, moves>>

\* The other steps place no page: nothing is left to see after the last move.
Next ==
  /\ moves < MaxMoves
  /\ \/ \E c \in Calls :
          \/ \E p \in Pages : ReadLast(c, p)
          \/ \E s \in Shifts : Move(c, s)
          \/ Fail(c)
     \/ \E p \in Pages : Leave(p) \/ \E s \in Shifts : Drag(p, s)

Spec == Init /\ [][Next]_vars

-----------------------------------------------------------------------------
\* mid_point finds no key below one that is the other bound with zeros after it.
RoomBetween(lower, upper) == Distance(lower, upper) # 0

\* However pages were moved before, a page lies after the siblings it was placed
\* after, a moved one after all that were listed, and before those it was placed
\* before wherever there was room, with a key that later moves can start from
\* (position/mod.rs:27; writes.rs:157-160, "the moved page lands after the
\* current last sibling").
PlacedBetween ==
  \A p \in Pages : position[p] # None =>
    LET after == placed[p].after
        before == placed[p].before
    IN /\ Valid(position[p])
       /\ \A k \in after : Before(k, position[p])
       /\ (\A lower \in after, upper \in before : RoomBetween(lower, upper))
            => \A k \in before : Before(position[p], k)

\* A page moved after its siblings gets a key of a length that Docmost accepts
\* (position/mod.rs:3-4, 12-13) while the integer has less than 10 digits and
\* no extreme head comes next (in base 62 such an integer has 26 digits).
EndKeyAccepted ==
  \A p \in Pages : placed[p].after # {} /\ placed[p].before = {} =>
    LET integer == IntegerPart(position[p])
    IN Len(integer) < 10 /\ integer[1] < MOST_POSITIVE - 1
         => Len(position[p]) \in 5..12
=============================================================================
