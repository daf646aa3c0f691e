------------------------ MODULE RequestTools_proofs ------------------------
(***************************************************************************)
(* Theorems about the lists (PageList), the note of docmost_update_page    *)
(* (VersionProbe) and the keys of moved pages (Position, MovePage), as     *)
(* tools of RequestTools.                                                  *)
(***************************************************************************)
EXTENDS RequestTools, FiniteSetTheorems, WellFoundedInduction, TLAPS

-----------------------------------------------------------------------------
\* PageList has an instance of the finite sets of its own, which are the same.
LEMMA SameSets ==
  ASSUME NEW S
  PROVE  /\ List!IsFiniteSet(S) <=> IsFiniteSet(S)
         /\ List!Cardinality(S) = Cardinality(S)
<1>1. \A A, B : List!ExistsBijection(A, B) <=> ExistsBijection(A, B)
  BY DEF List!ExistsBijection, ExistsBijection, List!Bijection, Bijection,
     List!Injection, Injection, List!Surjection, Surjection, List!IsInjective,
     IsInjective
<1> QED
  BY <1>1 DEF List!IsFiniteSet, IsFiniteSet, List!Cardinality, Cardinality

-----------------------------------------------------------------------------
\* A finite set of numbers that is not empty has a least element.
LEMMA LeastElement ==
  ASSUME NEW S, S \subseteq Int, IsFiniteSet(S), S # {}
  PROVE  \E x \in S : \A y \in S : x <= y
<1> DEFINE Below(x) == {y \in S : y < x}
           Counts == {Cardinality(Below(x)) : x \in S}
<1>1. \A x \in S : IsFiniteSet(Below(x)) /\ Cardinality(Below(x)) \in Nat
  <2>1. ASSUME NEW x \in S
        PROVE  IsFiniteSet(Below(x)) /\ Cardinality(Below(x)) \in Nat
    <3>1. Below(x) \in SUBSET S
      OBVIOUS
    <3>2. IsFiniteSet(Below(x))
      BY <3>1, FS_Subset
    <3> QED
      BY <3>2, FS_CardinalityType
  <2> QED
    BY <2>1
<1>2. Counts \subseteq Nat /\ Counts # {}
  BY <1>1
<1>3. PICK n \in Counts : \A m \in Counts : ~(<<m, n>> \in OpToRel(<, Nat))
  <2> HIDE DEF Counts
  <2> QED
    BY <1>2, NatLessThanWellFounded, WFMin
<1>4. \A m \in Counts : ~(m < n)
  <2>1. \A m \in Nat : m < n => <<m, n>> \in OpToRel(<, Nat)
    BY <1>2, <1>3 DEF OpToRel
  <2> QED
    BY <1>2, <1>3, <2>1
<1>5. PICK x \in S : n = Cardinality(Below(x))
  BY <1>3
<1>6. ASSUME NEW y \in S, y < x
      PROVE  FALSE
  <2>1. Below(y) \in SUBSET Below(x) /\ y \in Below(x) /\ y \notin Below(y)
    <3>1. \A z \in S : z < y => z < x
      BY <1>6
    <3>2. y \in Below(x) /\ y \notin Below(y)
      BY <1>6
    <3> QED
      BY <3>1, <3>2
  <2>2. Cardinality(Below(y)) <= Cardinality(Below(x)) /\ Below(y) # Below(x)
    BY <1>1, <2>1, FS_Subset
  <2>3. Cardinality(Below(y)) # Cardinality(Below(x))
    BY <1>1, <2>1, <2>2, FS_Subset
  <2>4. Cardinality(Below(y)) < Cardinality(Below(x))
    <3>1. Cardinality(Below(x)) \in Nat /\ Cardinality(Below(y)) \in Nat
      BY <1>1, <1>6
    <3> HIDE DEF Below
    <3> QED
      BY <2>2, <2>3, <3>1
  <2> QED
    BY <1>4, <1>5, <1>6, <2>4
<1> QED
  BY <1>6

\* It has a greatest element, which is Max.
LEMMA GreatestElement ==
  ASSUME NEW S, S \subseteq Int, IsFiniteSet(S), S # {}
  PROVE  List!Max(S) \in S /\ \A y \in S : y <= List!Max(S)
<1> DEFINE Opposite == {-x : x \in S}
<1>1. Opposite \subseteq Int /\ Opposite # {}
  <2>1. \A x \in S : -x \in Int
    OBVIOUS
  <2>2. PICK x \in S : TRUE
    OBVIOUS
  <2> QED
    BY <2>1, <2>2
<1>2. IsFiniteSet(Opposite)
  <2> DEFINE f == [x \in S |-> -x]
  <2>1. f \in Surjection(S, Opposite)
    BY DEF Surjection
  <2> QED
    BY <2>1, FS_Surjection
<1>3. PICK z \in Opposite : \A y \in Opposite : z <= y
  <2> HIDE DEF Opposite
  <2> QED
    BY <1>1, <1>2, LeastElement
<1>4. PICK x \in S : z = -x
  BY <1>3
<1>5. \A y \in S : x >= y
  BY <1>3, <1>4
<1> QED
  BY <1>5 DEF List!Max

-----------------------------------------------------------------------------
\* What the agent has not read yet when it passes a cursor.
Rest(cursor) == {i \in list : cursor = None \/ i > cursor}

\* What a page is, whatever Docmost says with it: the first of the rest, all of
\* it when there is said to be no more, and a cursor to follow is that of its
\* last item, with more behind it.
PageOf(page, cursor) ==
  /\ page.items \subseteq Rest(cursor)
  /\ \A i \in Rest(cursor), j \in page.items : i <= j => i \in page.items
  /\ page.items = {} => Rest(cursor) = {}
  /\ page.has_more \in BOOLEAN \cup {None}
  /\ page.has_more = FALSE => page.items = Rest(cursor)
  /\ page.next_cursor # None /\ page.has_more # FALSE =>
       /\ page.next_cursor \in page.items
       /\ \A i \in page.items : i <= page.next_cursor
       /\ page.items # Rest(cursor)

\* What a tool answers for a page: all of it unless it says otherwise, a cursor
\* only if it is one to follow, and the end only if it is the end.
ViewOf(view, page) ==
  /\ view.shown \subseteq page.items
  /\ view.withheld \in BOOLEAN
  /\ view.withheld \/ view.shown = page.items
  /\ view.cursor # None => view.cursor = page.next_cursor /\ page.has_more # FALSE
  /\ view.says = "end" => page.has_more = FALSE
  /\ view.says = "none_found" => page.items = {}

\* Docmost's answers, as the client understands them.
LEMMA FetchGivesPage ==
  ASSUME list \subseteq Items, server \in List!Servers,
         NEW limit \in Limits, NEW cursor \in Items \cup {None}
  PROVE  PageOf(List!Fetch(cursor, limit), cursor)
<1> DEFINE rest == Rest(cursor)
           Lower(i) == {j \in rest : j < i}
           items == {i \in rest : Cardinality(Lower(i)) < limit}
           more == items # rest
           sent == \/ server.cursor = "more" /\ more
                   \/ server.cursor = "always" /\ items # {}
           next == IF sent THEN List!Max(items) ELSE None
           page == List!Fetch(cursor, limit)
<1>1. rest \subseteq Int /\ IsFiniteSet(rest)
  <2>1. rest \in SUBSET Items
    BY DEF Rest
  <2> QED
    BY SameSets, ToolConstants, <2>1, FS_Subset DEF List!ListConstants
<1>2. \A i \in rest : IsFiniteSet(Lower(i)) /\ Cardinality(Lower(i)) \in Nat
  <2>1. ASSUME NEW i \in rest
        PROVE  IsFiniteSet(Lower(i)) /\ Cardinality(Lower(i)) \in Nat
    <3>1. Lower(i) \in SUBSET rest
      OBVIOUS
    <3>2. IsFiniteSet(Lower(i))
      BY <1>1, <3>1, FS_Subset
    <3> QED
      BY <3>2, FS_CardinalityType
  <2> QED
    BY <2>1
<1>3. ASSUME NEW i \in rest, NEW j \in items, i <= j
      PROVE  i \in items
  <2>1. Lower(i) \in SUBSET Lower(j)
    BY <1>1, <1>3
  <2>2. Cardinality(Lower(i)) <= Cardinality(Lower(j))
    BY <1>2, <2>1, FS_Subset
  <2>3. Cardinality(Lower(i)) < limit
    <3>1. Cardinality(Lower(j)) < limit /\ j \in rest
      BY <1>3
    <3>2. limit \in Nat
      BY ToolConstants DEF List!ListConstants
    <3> HIDE DEF Lower, rest
    <3> QED
      BY <1>2, <2>2, <3>1, <3>2
  <2> QED
    BY <2>3
<1>4. rest # {} => items # {}
  <2> SUFFICES ASSUME rest # {}
               PROVE  items # {}
    OBVIOUS
  <2>1. PICK i \in rest : \A j \in rest : i <= j
    <3> HIDE DEF rest
    <3> QED
      BY <1>1, LeastElement
  <2>2. Lower(i) = {}
    BY <1>1, <2>1
  <2>3. Cardinality(Lower(i)) = 0
    BY <2>2, FS_EmptySet
  <2> QED
    BY ToolConstants, <2>3 DEF List!ListConstants
<1>5. items # {} => List!Max(items) \in items /\ \A i \in items : i <= List!Max(items)
  <2>1. items \in SUBSET rest
    OBVIOUS
  <2>2. IsFiniteSet(items) /\ items \subseteq Int
    BY <1>1, <2>1, FS_Subset
  <2> HIDE DEF items
  <2> QED
    BY <2>2, GreatestElement
<1>6. sent => items # {}
  BY <1>4
<1>7. /\ page.items = items
      /\ page.next_cursor = next
      /\ page.has_more = IF server.flag THEN more
                         ELSE IF next # None THEN TRUE ELSE None
  <2>1. server.nested \in BOOLEAN /\ server.flag \in BOOLEAN
    BY DEF List!Servers
  <2>2. None \notin BOOLEAN
    BY ToolConstants DEF List!ListConstants
  <2>3. items = {i \in rest : List!Cardinality(Lower(i)) < limit}
    BY SameSets
  <2> QED
    BY <2>1, <2>2, <2>3 DEF List!Fetch, List!IntoPage, List!Answer, List!Or, Rest
<1>8. server.flag \/ server.cursor # "always"
  BY DEF List!Servers
<1>9. next # None /\ page.has_more # FALSE => more /\ sent
  BY ToolConstants, <1>7, <1>8 DEF List!ListConstants
<1>10. page.has_more \in BOOLEAN \cup {None} /\ (page.has_more = FALSE => ~more)
  BY ToolConstants, <1>7 DEF List!ListConstants
<1> HIDE DEF page, rest, items, next, more, sent
<1>11. PageOf(page, cursor)
  <2>1. page.items \subseteq rest /\ (page.items = {} => rest = {})
    BY <1>4, <1>7 DEF items
  <2>2. \A i \in rest, j \in page.items : i <= j => i \in page.items
    BY <1>3, <1>7
  <2>3. page.has_more = FALSE => page.items = rest
    BY <1>7, <1>10 DEF more
  <2>4. page.next_cursor # None /\ page.has_more # FALSE =>
          /\ page.next_cursor \in page.items
          /\ \A i \in page.items : i <= page.next_cursor
          /\ page.items # rest
    BY <1>5, <1>6, <1>7, <1>9 DEF next, more
  <2> QED
    BY <1>10, <2>1, <2>2, <2>3, <2>4 DEF PageOf, rest
<1> QED
  BY <1>11 DEF page

\* The JSON and the Markdown of a page.
LEMMA ToolsGiveViews ==
  ASSUME list \subseteq Items, NEW cursor,
         NEW page, PageOf(page, cursor), NEW cap \in Nat
  PROVE  ViewOf(List!Json(page), page) /\ ViewOf(List!Markdown(page, cap), page)
<1>1. page.has_more \in BOOLEAN \cup {None} /\ None \notin BOOLEAN
  BY ToolConstants DEF PageOf, List!ListConstants
<1>2. ViewOf(List!Json(page), page)
  BY <1>1 DEF ViewOf, List!Json, List!Says
<1>3. CASE page.items = {}
  BY <1>1, <1>2, <1>3 DEF ViewOf, List!Markdown
<1>4. CASE page.items # {}
  <2> DEFINE shown == {i \in page.items :
                         Cardinality({j \in page.items : j < i}) < cap}
             view == List!Markdown(page, cap)
  <2>1. shown \in SUBSET page.items
    OBVIOUS
  <2>2. IsFiniteSet(page.items)
    <3>1. page.items \in SUBSET Items
      BY DEF PageOf, Rest
    <3> QED
      BY SameSets, ToolConstants, <3>1, FS_Subset DEF List!ListConstants
  <2>3. /\ IsFiniteSet(shown) /\ Cardinality(shown) <= Cardinality(page.items)
        /\ Cardinality(page.items) = Cardinality(shown) => page.items = shown
    BY <2>1, <2>2, FS_Subset
  <2>4. Cardinality(shown) \in Nat /\ Cardinality(page.items) \in Nat
    BY <2>2, <2>3, FS_CardinalityType
  <2>5. List!Withheld(page, shown) \/ shown = page.items
    BY SameSets, <2>3, <2>4 DEF List!Withheld
  <2>6. /\ view.shown = shown /\ view.withheld = List!Withheld(page, shown)
        /\ view.cursor = List!NamedCursor(page) /\ view.says = List!Says(page)
    <3>1. shown = {i \in page.items :
                     List!Cardinality({j \in page.items : j < i}) < cap}
      BY SameSets
    <3> QED
      BY <1>4, <3>1 DEF List!Markdown
  <2>7. view.cursor # None => view.cursor = page.next_cursor /\ page.has_more # FALSE
    BY <1>1, <2>6 DEF List!NamedCursor, List!Says
  <2>8. (view.says = "end" => page.has_more = FALSE) /\ view.says # "none_found"
    BY <1>1, <2>6 DEF List!Says
  <2>9. List!Withheld(page, shown) \in BOOLEAN
    BY DEF List!Withheld
  <2> QED
    BY <1>2, <2>1, <2>5, <2>6, <2>7, <2>8, <2>9 DEF ViewOf
<1> QED
  BY <1>3, <1>4

-----------------------------------------------------------------------------
Walks ==
  [cap : Caps, calls : Nat, shown : SUBSET Items, withheld : BOOLEAN,
   cursor : Items \cup {None}, says : {"nothing", "more", "end", "none_found"}]

\* The values of the variables.
ListTypes ==
  /\ list \subseteq Items /\ server \in List!Servers /\ walk \in Walks
  /\ kept \subseteq list /\ list \subseteq ever /\ ever \subseteq Items

UpTo(items, cursor) == {i \in items : i <= cursor}

\* A cursor to follow stands for all that was shown: what remained in the list
\* up to it, at most one call for each item up to it; and there was an item
\* behind it.
CursorInv ==
  /\ walk.calls = 0 => walk.cursor = None
  /\ walk.cursor # None =>
       /\ walk.withheld \/ UpTo(kept, walk.cursor) \subseteq walk.shown
       /\ walk.calls <= Cardinality(UpTo(ever, walk.cursor))
       /\ \E j \in ever : j > walk.cursor

ListInv == ListTypes /\ CursorInv /\ List!NothingWithheld /\ List!NeverPagesForever

\* Sets of items are finite, and a larger one has no fewer items.
LEMMA ItemSets ==
  ASSUME NEW T, T \subseteq Items, NEW S, S \subseteq T
  PROVE  /\ IsFiniteSet(T) /\ Cardinality(S) \in Nat /\ Cardinality(T) \in Nat
         /\ Cardinality(S) <= Cardinality(T)
         /\ S # T => Cardinality(S) < Cardinality(T)
<1>1. IsFiniteSet(T)
  <2>1. T \in SUBSET Items
    OBVIOUS
  <2> QED
    BY SameSets, ToolConstants, <2>1, FS_Subset DEF List!ListConstants
<1>2. S \in SUBSET T
  OBVIOUS
<1>3. /\ IsFiniteSet(S) /\ Cardinality(S) <= Cardinality(T)
      /\ Cardinality(T) = Cardinality(S) => T = S
  BY <1>1, <1>2, FS_Subset
<1>4. Cardinality(S) \in Nat /\ Cardinality(T) \in Nat
  BY <1>1, <1>3, FS_CardinalityType
<1> QED
  BY <1>1, <1>3, <1>4

\* A call of a tool shows what comes next, and says no more than is true.
LEMMA CallStep ==
  ASSUME ListInv,
         NEW limit \in Limits, NEW json \in BOOLEAN, List!Call(limit, json)
  PROVE  ListInv'
<1> DEFINE cursor == walk.cursor
           page == List!Fetch(cursor, limit)
           view == IF json THEN List!Json(page) ELSE List!Markdown(page, walk.cap)
<1>1. /\ walk' = [walk EXCEPT !.calls = @ + 1, !.shown = @ \cup view.shown,
                              !.withheld = @ \/ view.withheld,
                              !.cursor = view.cursor, !.says = view.says]
      /\ UNCHANGED <<list, server, kept, ever>>
  BY DEF List!Call
<1>2. /\ list \subseteq Items /\ server \in List!Servers /\ walk \in Walks
      /\ kept \subseteq list /\ list \subseteq ever /\ ever \subseteq Items
  BY DEF ListInv, ListTypes
<1>3. cursor \in Items \cup {None} /\ walk.cap \in Nat
  BY ToolConstants, <1>2 DEF Walks, List!ListConstants
<1>4. PageOf(page, cursor)
  BY <1>2, <1>3, FetchGivesPage
<1>5. ViewOf(view, page)
  BY <1>2, <1>3, <1>4, ToolsGiveViews
<1>6. view.says \in {"nothing", "more", "end", "none_found"}
  BY DEF List!Json, List!Markdown, List!Says
<1> HIDE DEF view, page
<1>7. /\ walk'.calls = walk.calls + 1 /\ walk'.shown = walk.shown \cup view.shown
      /\ walk'.withheld = (walk.withheld \/ view.withheld)
      /\ walk'.cursor = view.cursor /\ walk'.says = view.says
      /\ walk'.cap = walk.cap
  BY <1>1, <1>2 DEF Walks
<1>8. page.items \subseteq list /\ list \subseteq Int /\ None \notin Items
  BY ToolConstants, <1>2, <1>4 DEF PageOf, Rest, List!ListConstants
<1>9. view.cursor # None =>
        /\ view.cursor \in page.items
        /\ \A i \in page.items : i <= view.cursor
        /\ page.items # Rest(cursor)
  BY <1>4, <1>5 DEF PageOf, ViewOf
<1>10. ListTypes'
  <2>1. walk' \in Walks
    <3>1. view.cursor \in Items \cup {None}
      BY <1>2, <1>8, <1>9
    <3>2. view.shown \subseteq Items /\ view.withheld \in BOOLEAN
      BY <1>2, <1>5, <1>8 DEF ViewOf
    <3>3. /\ walk.calls + 1 \in Nat /\ walk.shown \cup view.shown \subseteq Items
          /\ (walk.withheld \/ view.withheld) \in BOOLEAN
      BY <1>2, <3>2 DEF Walks
    <3> QED
      BY <1>1, <1>2, <1>6, <3>1, <3>3 DEF Walks
  <2> QED
    BY <1>1, <1>2, <2>1 DEF ListTypes
\* What was there throughout up to here was shown before.
<1>11. walk'.withheld \/ \A i \in kept : i \in Rest(cursor) \/ i \in walk.shown
  <2>1. CASE cursor = None
    BY <1>2, <2>1 DEF Rest
  <2>2. CASE cursor # None
    <3>1. cursor \in Int
      BY ToolConstants, <1>3, <2>2 DEF List!ListConstants
    <3>2. walk'.withheld \/ \A i \in kept : i <= cursor => i \in walk.shown
      BY <1>7, <2>2 DEF ListInv, CursorInv, UpTo
    <3>3. \A i \in kept : i \in list /\ (i <= cursor \/ i > cursor)
      BY <1>2, <1>8, <3>1
    <3> QED
      BY <3>2, <3>3 DEF Rest
  <2> QED
    BY <2>1, <2>2
<1>12. walk'.withheld \/ page.items \subseteq walk'.shown
  BY <1>5, <1>7 DEF ViewOf
<1>13. List!NothingWithheld'
  <2>1. view.says \in {"end", "none_found"} => page.items = Rest(cursor)
    BY <1>4, <1>5 DEF PageOf, ViewOf
  <2> QED
    BY <1>1, <1>7, <1>11, <1>12, <2>1 DEF List!NothingWithheld
\* The call is one of an item behind the cursor.
<1>14. /\ walk.calls \in Nat
       /\ cursor = None => walk.calls = 0
       /\ cursor # None =>
            /\ walk.calls <= Cardinality(UpTo(ever, cursor))
            /\ \E j \in ever : j > cursor
  BY <1>2 DEF ListInv, CursorInv, Walks, List!Call
<1>15. ever \subseteq Items /\ ever \subseteq Int
  BY ToolConstants, <1>2 DEF List!ListConstants
<1>16. List!NeverPagesForever'
  <2>1. CASE cursor = None
    BY <1>7, <1>14, <2>1 DEF List!NeverPagesForever
  <2>2. CASE cursor # None
    <3>1. cursor \in Int
      BY ToolConstants, <1>3, <2>2 DEF List!ListConstants
    <3>2. UpTo(ever, cursor) \subseteq ever /\ UpTo(ever, cursor) # ever
      BY <1>14, <1>15, <2>2, <3>1 DEF UpTo
    <3>3. /\ Cardinality(UpTo(ever, cursor)) < Cardinality(ever)
          /\ Cardinality(UpTo(ever, cursor)) \in Nat /\ Cardinality(ever) \in Nat
      BY <1>15, <3>2, ItemSets
    <3>4. walk.calls + 1 <= Cardinality(ever)
      BY <1>14, <2>2, <3>3
    <3> QED
      BY SameSets, <1>1, <1>7, <3>4 DEF List!NeverPagesForever
  <2> QED
    BY <2>1, <2>2
<1>17. ASSUME view.cursor # None
       PROVE  /\ walk'.withheld \/ UpTo(kept, view.cursor) \subseteq walk'.shown
              /\ walk.calls + 1 <= Cardinality(UpTo(ever, view.cursor))
              /\ \E j \in ever : j > view.cursor
  <2>1. view.cursor \in Int /\ view.cursor \in ever /\ view.cursor \in Rest(cursor)
    BY <1>2, <1>4, <1>8, <1>9, <1>17 DEF PageOf
  <2>2. \A i \in Rest(cursor) : i <= view.cursor => i \in page.items
    BY <1>4, <1>9, <1>17 DEF PageOf
  <2>3. walk'.withheld \/ UpTo(kept, view.cursor) \subseteq walk'.shown
    BY <1>7, <1>11, <1>12, <2>2 DEF UpTo
  <2>4. \E j \in ever : j > view.cursor
    <3>1. PICK j \in Rest(cursor) : j \notin page.items
      BY <1>4, <1>9, <1>17 DEF PageOf
    <3>2. j \in ever /\ j \in Int
      BY <1>2, <1>8 DEF Rest
    <3> QED
      BY <2>1, <2>2, <3>1, <3>2
  <2>5. UpTo(ever, view.cursor) \subseteq Items
    BY <1>15 DEF UpTo
  <2>6. walk.calls + 1 <= Cardinality(UpTo(ever, view.cursor))
    <3>1. CASE cursor = None
      <4>1. {} \subseteq UpTo(ever, view.cursor) /\ {} # UpTo(ever, view.cursor)
        BY <2>1 DEF UpTo
      <4>2. Cardinality({}) < Cardinality(UpTo(ever, view.cursor))
            /\ Cardinality(UpTo(ever, view.cursor)) \in Nat
        BY <2>5, <4>1, ItemSets
      <4> QED
        BY <1>14, <3>1, <4>2, FS_EmptySet
    <3>2. CASE cursor # None
      <4>1. cursor \in Int /\ cursor < view.cursor
        BY ToolConstants, <1>3, <2>1, <3>2 DEF List!ListConstants, Rest
      <4>2. /\ UpTo(ever, cursor) \subseteq UpTo(ever, view.cursor)
            /\ UpTo(ever, cursor) # UpTo(ever, view.cursor)
        <5>1. \A i \in ever : i <= cursor => i <= view.cursor
          BY <1>15, <2>1, <4>1
        <5>2. view.cursor \in UpTo(ever, view.cursor)
              /\ view.cursor \notin UpTo(ever, cursor)
          BY <2>1, <4>1 DEF UpTo
        <5> QED
          BY <5>1, <5>2 DEF UpTo
      <4>3. /\ Cardinality(UpTo(ever, cursor)) < Cardinality(UpTo(ever, view.cursor))
            /\ Cardinality(UpTo(ever, cursor)) \in Nat
            /\ Cardinality(UpTo(ever, view.cursor)) \in Nat
        BY <2>5, <4>2, ItemSets
      <4> QED
        BY <1>14, <3>2, <4>3
    <3> QED
      BY <3>1, <3>2
  <2> QED
    BY <2>3, <2>4, <2>6
<1>18. CursorInv'
  BY <1>1, <1>7, <1>14, <1>17 DEF CursorInv, UpTo
<1> QED
  BY <1>10, <1>13, <1>16, <1>18 DEF ListInv

\* A change of the list takes away nothing that was said.
LEMMA ChangeStep ==
  ASSUME ListInv, NEW i \in Items, List!Change(i)
  PROVE  ListInv'
<1>1. /\ kept' \subseteq kept /\ kept' \subseteq list' /\ ever \subseteq ever'
      /\ list' \subseteq ever' /\ list' \subseteq Items /\ ever' \subseteq Items
      /\ UNCHANGED <<server, walk>>
  BY DEF List!Change, ListInv, ListTypes
<1>2. ListTypes'
  BY <1>1 DEF ListInv, ListTypes
<1>3. Cardinality(ever) <= Cardinality(ever')
      /\ Cardinality(ever) \in Nat /\ Cardinality(ever') \in Nat
  BY <1>1, ItemSets
<1>4. walk.calls \in Nat
  BY DEF ListInv, ListTypes, Walks
<1>5. List!NothingWithheld' /\ List!NeverPagesForever'
  BY SameSets, <1>1, <1>3, <1>4 DEF ListInv, List!NothingWithheld, List!NeverPagesForever
<1>6. ASSUME walk.cursor # None
      PROVE  /\ walk.withheld \/ UpTo(kept', walk.cursor) \subseteq walk.shown
             /\ walk.calls <= Cardinality(UpTo(ever', walk.cursor))
             /\ \E j \in ever' : j > walk.cursor
  <2>1. /\ UpTo(ever, walk.cursor) \subseteq UpTo(ever', walk.cursor)
        /\ UpTo(ever', walk.cursor) \subseteq Items
        /\ UpTo(kept', walk.cursor) \subseteq UpTo(kept, walk.cursor)
    BY <1>1 DEF UpTo
  <2>2. /\ Cardinality(UpTo(ever, walk.cursor)) <= Cardinality(UpTo(ever', walk.cursor))
        /\ Cardinality(UpTo(ever, walk.cursor)) \in Nat
        /\ Cardinality(UpTo(ever', walk.cursor)) \in Nat
    BY <2>1, ItemSets
  <2>3. /\ walk.withheld \/ UpTo(kept, walk.cursor) \subseteq walk.shown
        /\ walk.calls <= Cardinality(UpTo(ever, walk.cursor))
        /\ \E j \in ever : j > walk.cursor
    BY <1>6 DEF ListInv, CursorInv
  <2> QED
    BY <1>1, <1>4, <2>1, <2>2, <2>3
<1>7. walk.calls = 0 => walk.cursor = None
  BY DEF ListInv, CursorInv
<1>8. CursorInv'
  BY <1>1, <1>6, <1>7 DEF CursorInv, UpTo
<1> QED
  BY <1>2, <1>5, <1>8 DEF ListInv

\* A walk begins with the invariant, and every step of it keeps it.
LEMMA ListBegins == List!ListInit => ListInv
<1> SUFFICES ASSUME List!ListInit
             PROVE  ListInv
  OBVIOUS
<1>1. PICK cap \in Caps : walk = List!NewWalk(cap)
  BY DEF List!ListInit
<1>2. /\ walk.calls = 0 /\ walk.cursor = None /\ walk.says = "nothing"
      /\ walk \in Walks
  BY <1>1 DEF List!NewWalk, Walks
<1> QED
  BY <1>2 DEF List!ListInit, ListInv, ListTypes, CursorInv, List!NothingWithheld,
     List!NeverPagesForever

\* Calls and changes of the list are all there is; what is not read is not changed.
LEMMA ListStep == ListInv /\ (List!ListNext \/ UNCHANGED listVars) => ListInv'
<1> SUFFICES ASSUME ListInv, List!ListNext \/ UNCHANGED listVars
             PROVE  ListInv'
  OBVIOUS
<1>1. CASE UNCHANGED listVars
  BY <1>1 DEF listVars, ListInv, ListTypes, CursorInv, UpTo, List!NothingWithheld,
     List!NeverPagesForever
<1> QED
  BY <1>1, CallStep, ChangeStep DEF List!ListNext

-----------------------------------------------------------------------------
\* Docmost does not change while a call is answered, and is never older than
\* what the cell says.
UpdateInv ==
  /\ docmost \in Update!Versions /\ cell \in Update!Versions \cup {None}
  /\ update \in [UpdateCalls -> [at : Update!Steps, applied : BOOLEAN,
                                 note : Update!Notes]]
  /\ cell = "new" => docmost = "new"
  /\ \A c \in UpdateCalls :
       Update!Probing(c) => (update[c].applied <=> docmost = "new")
  /\ Update!SilenceMeansApplied

\* A version that was asked for or remembered answers a call truthfully.
LEMMA UseVersionTruly ==
  ASSUME UpdateInv, NEW c \in UpdateCalls,
         NEW version \in Update!Versions \cup {None},
         version = "new" => docmost = "new",
         Update!UseVersion(c, version), docmost' = docmost,
         cell' \in Update!Versions \cup {None}, cell' = "new" => docmost = "new"
  PROVE  UpdateInv'
<1>1. PICK step \in Update!Steps, note \in Update!Notes :
        /\ update' = [update EXCEPT ![c].at = step, ![c].note = note]
        /\ step = "answered" /\ note = "none" => update[c].applied
        /\ Update!Probing(c)
  <2>1. update[c].note \in Update!Notes /\ Update!Probing(c)
    BY DEF UpdateInv, Update!UseVersion, Update!Probing, Update!At
  <2>2. CASE Update!Answer(c, "none") /\ Update!RestPageBodyUpdate(version)
    BY <2>1, <2>2 DEF Update!Answer, Update!RestPageBodyUpdate, UpdateInv,
       Update!Steps, Update!Notes
  <2>3. CASE update' = [update EXCEPT ![c].at = "probe_version"]
    <3>1. update' = [update EXCEPT ![c].at = "probe_version", ![c].note = update[c].note]
      BY <2>3 DEF UpdateInv
    <3> QED
      BY <2>1, <3>1 DEF Update!Steps
  <2>4. ASSUME NEW note \in {"unknown", "not_changed"}, Update!Answer(c, note)
        PROVE  \E step \in Update!Steps, n \in Update!Notes :
                 /\ update' = [update EXCEPT ![c].at = step, ![c].note = n]
                 /\ step = "answered" /\ n = "none" => update[c].applied
    BY <2>4 DEF Update!Answer, Update!Steps, Update!Notes
  <2> QED
    BY <2>1, <2>2, <2>3, <2>4 DEF Update!UseVersion
<1>2. /\ update' \in [UpdateCalls -> [at : Update!Steps, applied : BOOLEAN,
                                      note : Update!Notes]]
      /\ update'[c].at = step /\ update'[c].note = note
      /\ update'[c].applied = update[c].applied
      /\ \A d \in UpdateCalls \ {c} : update'[d] = update[d]
  BY <1>1 DEF UpdateInv
<1>3. ASSUME NEW d \in UpdateCalls
      PROVE  /\ Update!Probing(d)' => (update'[d].applied <=> docmost' = "new")
             /\ Update!At(d, "answered")' /\ update'[d].note = "none" => update'[d].applied
  <2>1. CASE d = c
    BY <1>1, <1>2, <2>1 DEF UpdateInv, Update!At
  <2>2. CASE d # c
    BY <1>2, <2>2 DEF UpdateInv, Update!Probing, Update!At, Update!SilenceMeansApplied
  <2> QED
    BY <2>1, <2>2
<1> QED
  BY <1>2, <1>3 DEF UpdateInv, Update!SilenceMeansApplied

\* No call has begun.
LEMMA UpdateBegins == Update!Init => UpdateInv
BY ToolConstants DEF Update!Init, UpdateInv, Update!Idle, Update!Probing, Update!At,
   Update!SilenceMeansApplied, Update!Versions, Update!Steps, Update!Notes,
   Update!ProbeConstants

\* Every step of a call, and an upgrade between calls, keeps the invariant.
LEMMA UpdateStep == UpdateInv /\ (Update!Next \/ UNCHANGED updateVars) => UpdateInv'
<1> SUFFICES ASSUME UpdateInv, Update!Next \/ UNCHANGED updateVars
             PROVE  UpdateInv'
  OBVIOUS
<1>1. ASSUME NEW c \in UpdateCalls, Update!UpdatePage(c)
      PROVE  UpdateInv'
  <2>1. /\ update' = [update EXCEPT ![c].at = "probe_capability",
                                   ![c].applied = (docmost = "new")]
        /\ UNCHANGED <<docmost, cell>>
    BY <1>1 DEF Update!UpdatePage
  <2>2. /\ update' \in [UpdateCalls -> [at : Update!Steps, applied : BOOLEAN,
                                        note : Update!Notes]]
        /\ update'[c].at = "probe_capability"
        /\ update'[c].applied = (docmost = "new")
        /\ \A d \in UpdateCalls \ {c} : update'[d] = update[d]
    BY <2>1 DEF UpdateInv, Update!Steps
  <2>3. \A d \in UpdateCalls :
           /\ Update!Probing(d)' => (update'[d].applied <=> docmost' = "new")
           /\ Update!At(d, "answered")' /\ update'[d].note = "none" => update'[d].applied
    BY <2>1, <2>2 DEF UpdateInv, Update!Probing, Update!At, Update!SilenceMeansApplied
  <2> QED
    BY <2>1, <2>2, <2>3 DEF UpdateInv, Update!SilenceMeansApplied
<1>2. ASSUME NEW c \in UpdateCalls, Update!ReadCell(c)
      PROVE  UpdateInv'
  BY <1>2, UseVersionTruly DEF Update!ReadCell, UpdateInv
<1>3. ASSUME NEW c \in UpdateCalls, Update!Acquire(c)
      PROVE  UpdateInv'
  BY <1>3 DEF Update!Acquire, UpdateInv, Update!Probing, Update!At,
     Update!SilenceMeansApplied
<1>4. ASSUME NEW c \in UpdateCalls, Update!ProbeSucceeds(c)
      PROVE  UpdateInv'
  BY <1>4, UseVersionTruly DEF Update!ProbeSucceeds, UpdateInv
<1>5. ASSUME NEW c \in UpdateCalls, Update!ProbeFails(c)
      PROVE  UpdateInv'
  BY ToolConstants, <1>5, UseVersionTruly DEF Update!ProbeFails, UpdateInv, Update!ProbeConstants,
     Update!Versions
<1>6. ASSUME NEW c \in UpdateCalls, Update!Drop(c) \/ Update!Finish(c)
      PROVE  UpdateInv'
  <2>1. /\ update' = [update EXCEPT ![c] = Update!Idle]
        /\ UNCHANGED <<docmost, cell>>
    BY <1>6 DEF Update!Drop, Update!Finish
  <2> QED
    BY <2>1 DEF UpdateInv, Update!Idle, Update!Probing, Update!At,
       Update!SilenceMeansApplied, Update!Steps, Update!Notes
<1>7. CASE Update!Upgrade
  BY <1>7 DEF Update!Upgrade, UpdateInv, Update!Probing, Update!At,
     Update!SilenceMeansApplied, Update!Versions
<1>8. CASE UNCHANGED updateVars
  BY <1>8 DEF updateVars, UpdateInv, Update!Probing, Update!At,
     Update!SilenceMeansApplied
<1> QED
  BY <1>1, <1>2, <1>3, <1>4, <1>5, <1>6, <1>7, <1>8 DEF Update!Next, Update!CallStep

-----------------------------------------------------------------------------
\* The tool that is used has its invariant; the others stay as they began.
ToolInv == (tool = "list" => ListInv) /\ (tool = "update" => UpdateInv)

\* Whichever tool is used.
LEMMA ToolInvariant == RequestSpec => []ToolInv
<1>1. RequestInit => ToolInv
  BY ListBegins, UpdateBegins DEF RequestInit, ToolInv
<1>2. ToolInv /\ [RequestNext]_requestVars => ToolInv'
  <2> SUFFICES ASSUME ToolInv, [RequestNext]_requestVars
               PROVE  ToolInv'
    OBVIOUS
  <2>1. tool' = tool
    BY DEF RequestNext, requestVars
  <2>2. tool = "list" => List!ListNext \/ UNCHANGED listVars
    BY DEF RequestNext, requestVars
  <2>3. tool = "update" => Update!Next \/ UNCHANGED updateVars
    BY DEF RequestNext, requestVars
  <2> QED
    BY <2>1, <2>2, <2>3, ListStep, UpdateStep DEF ToolInv
<1> QED
  BY <1>1, <1>2, PTL DEF RequestSpec

\* An agent never concludes from its pages that it has everything when it has
\* not, whatever the server says of the rest, whoever changes the list
\* meanwhile (README.md:142-144; render.rs, format_pagination).
THEOREM NothingWithheldFromAgent == RequestSpec => []NothingWithheld
<1>1. ToolInv => NothingWithheld
  BY DEF ToolInv, ListInv, NothingWithheld
<1> QED
  BY <1>1, ToolInvariant, PTL

\* An agent makes at most one call for each item there was, or one call
\* (README.md:143-144).
THEOREM AgentNeverPagesForever == RequestSpec => []NeverPagesForever
<1>1. ToolInv => NeverPagesForever
  BY DEF ToolInv, ListInv, NeverPagesForever
<1> QED
  BY <1>1, ToolInvariant, PTL

\* A call that is answered without a note has changed the body: whatever
\* probes failed, were shared with other calls or dropped, and however often
\* Docmost was upgraded between calls (version.rs:7-8, tools_page_write.rs:111-113).
THEOREM SilentUpdateApplied == RequestSpec => []SilenceMeansApplied
<1>1. ToolInv => SilenceMeansApplied
  BY DEF ToolInv, UpdateInv, SilenceMeansApplied
<1> QED
  BY <1>1, ToolInvariant, PTL

-----------------------------------------------------------------------------
\* Recursive functions and the numbers of keys.

\* A set of natural numbers that is not empty has a least one.
LEMMA LeastNat ==
  ASSUME NEW S, S \subseteq Nat, S # {}
  PROVE  \E x \in S : \A y \in S : x <= y
<1>1. PICK x \in S : \A y \in S : ~(<<y, x>> \in OpToRel(<, Nat))
  BY NatLessThanWellFounded, WFMin
<1>2. \A y \in S : y < x => <<y, x>> \in OpToRel(<, Nat)
  BY <1>1 DEF OpToRel
<1>3. x \in Nat /\ \A y \in S : y \in Nat /\ ~(y < x)
  BY <1>1, <1>2
<1>4. \A y \in S : x <= y
  BY <1>3
<1> QED
  BY <1>4

\* Induction up to N, for the set of numbers that have a property.
LEMMA Induction ==
  ASSUME NEW N \in Nat, NEW S, 0 \in S,
         \A n \in 0..(N - 1) : n \in S => n + 1 \in S
  PROVE  \A n \in 0..N : n \in S
<1> SUFFICES ASSUME NEW m \in 0..N, m \notin S
             PROVE  FALSE
  OBVIOUS
<1> DEFINE Outside == {n \in 0..N : n \notin S}
<1>1. Outside \subseteq Nat /\ Outside # {}
  OBVIOUS
<1>2. PICK n \in Outside : \A k \in Outside : n <= k
  BY <1>1, LeastNat
<1>3. n \in 1..N /\ n - 1 \in 0..(N - 1) /\ n - 1 \notin Outside
  BY <1>2
<1>4. n - 1 \in S
  BY <1>3
<1>5. n \in S
  BY <1>3, <1>4
<1> QED
  BY <1>5

\* A function on 0..N may be defined by its value at 0 and by each value from
\* the one before.
LEMMA RecursionExists ==
  ASSUME NEW N \in Nat, NEW start \in Nat,
         NEW step \in [1..N -> [Nat -> Nat]]
  PROVE  \E F \in [0..N -> Nat] :
           F[0] = start /\ \A n \in 1..N : F[n] = step[n][F[n - 1]]
<1> DEFINE Upto(F, m) == /\ F \in [0..m -> Nat]
                         /\ F[0] = start
                         /\ \A n \in 1..m : F[n] = step[n][F[n - 1]]
           S == {m \in 0..N : \E F : Upto(F, m)}
<1>1. 0 \in S
  <2>1. Upto([n \in 0..0 |-> start], 0)
    OBVIOUS
  <2> HIDE DEF Upto
  <2>2. \E F : Upto(F, 0)
    BY <2>1
  <2> QED
    BY <2>2
<1>2. ASSUME NEW m \in 0..(N - 1), m \in S
      PROVE  m + 1 \in S
  <2>1. PICK G : Upto(G, m)
    BY <1>2
  <2> DEFINE F == [n \in 0..(m + 1) |-> IF n = m + 1 THEN step[m + 1][G[m]] ELSE G[n]]
  <2>2. F \in [0..(m + 1) -> Nat]
    <3>1. G[m] \in Nat /\ m + 1 \in 1..N
      BY <1>2, <2>1
    <3>2. step[m + 1][G[m]] \in Nat
      BY <3>1
    <3>3. \A n \in 0..(m + 1) : n # m + 1 => n \in 0..m
      BY <3>1
    <3>4. \A n \in 0..(m + 1) : F[n] \in Nat
      BY <2>1, <3>2, <3>3
    <3> QED
      BY <3>4
  <2>3. F[0] = start
    BY <2>1
  <2>4. ASSUME NEW n \in 1..(m + 1)
        PROVE  F[n] = step[n][F[n - 1]]
    <3>1. CASE n = m + 1
      <4>1. n - 1 = m /\ m # m + 1 /\ m \in 0..(m + 1) /\ n \in 0..(m + 1)
        BY <3>1
      <4> QED
        BY <3>1, <4>1
    <3>2. CASE n # m + 1
      <4>1. /\ n \in 1..m /\ n \in 0..(m + 1) /\ n - 1 \in 0..(m + 1)
            /\ n - 1 # m + 1
        BY <3>2
      <4> QED
        BY <2>1, <3>2, <4>1
    <3> QED
      BY <3>1, <3>2
  <2>5. Upto(F, m + 1)
    BY <2>2, <2>3, <2>4
  <2> HIDE DEF F
  <2>6. m + 1 \in 0..N
    OBVIOUS
  <2> QED
    BY <2>5, <2>6
<1>3. N \in S
  <2>1. \A n \in 0..(N - 1) : n \in S => n + 1 \in S
    BY <1>2
  <2> HIDE DEF S
  <2>2. \A n \in 0..N : n \in S
    BY <1>1, <2>1, Induction
  <2> QED
    BY <2>2
<1> QED
  BY <1>3

DigitKeys == Seq(Digit)

\* The values of the beginnings of a key.
LEMMA ValuesStep ==
  ASSUME NEW key \in DigitKeys
  PROVE  /\ Values(key) \in [0..Len(key) -> Nat]
         /\ Values(key)[0] = 0
         /\ \A n \in 1..Len(key) :
              Values(key)[n] = LEN * Values(key)[n - 1] + key[n]
<1> DEFINE step == [n \in 1..Len(key) |-> [v \in Nat |-> LEN * v + key[n]]]
           Eqn(f) == f = [n \in 0..Len(key) |->
                            IF n = 0 THEN 0 ELSE LEN * f[n - 1] + key[n]]
<1>1. Len(key) \in Nat /\ \A n \in 1..Len(key) : key[n] \in Nat
  BY DigitConstants DEF DigitKeys, Digit
<1>2. LEN \in Nat
  BY DigitConstants
<1>3. step \in [1..Len(key) -> [Nat -> Nat]]
  <2>1. \A n \in 1..Len(key), v \in Nat : LEN * v + key[n] \in Nat
    BY <1>1, <1>2
  <2>2. \A n \in 1..Len(key) : [v \in Nat |-> LEN * v + key[n]] \in [Nat -> Nat]
    BY <2>1
  <2> QED
    BY <2>2
<1>4. PICK F \in [0..Len(key) -> Nat] :
        F[0] = 0 /\ \A n \in 1..Len(key) : F[n] = step[n][F[n - 1]]
  <2> DEFINE N == Len(key)
  <2>1. N \in Nat /\ 0 \in Nat /\ step \in [1..N -> [Nat -> Nat]]
    BY <1>1, <1>3
  <2> HIDE DEF step, N
  <2>2. \E F \in [0..N -> Nat] :
          F[0] = 0 /\ \A n \in 1..N : F[n] = step[n][F[n - 1]]
    BY <2>1, RecursionExists
  <2> QED
    BY <2>2 DEF N
<1>5. \A n \in 1..Len(key) : F[n] = LEN * F[n - 1] + key[n]
  <2>1. \A n \in 1..Len(key) : F[n - 1] \in Nat
    OBVIOUS
  <2> QED
    BY <1>4, <2>1
<1>6. Eqn(F)
  <2>1. \A n \in 0..Len(key) : n # 0 => n \in 1..Len(key)
    BY <1>1
  <2> QED
    BY <1>4, <1>5, <2>1
<1>7. Eqn(Values(key))
  <2>1. Values(key) = CHOOSE f : Eqn(f)
    BY DEF Values
  <2> HIDE DEF Eqn
  <2> QED
    BY <1>6, <2>1
<1> DEFINE V == Values(key)
<1>8. V[0] = 0 /\ \A n \in 1..Len(key) : V[n] = LEN * V[n - 1] + key[n]
  <2> HIDE DEF V
  <2>1. V = [n \in 0..Len(key) |-> IF n = 0 THEN 0 ELSE LEN * V[n - 1] + key[n]]
    BY <1>7 DEF V
  <2>2. \A n \in 0..Len(key) : V[n] = IF n = 0 THEN 0 ELSE LEN * V[n - 1] + key[n]
    BY <2>1
  <2>3. 0 \in 0..Len(key) /\ \A n \in 1..Len(key) : n \in 0..Len(key) /\ n # 0
    BY <1>1
  <2> QED
    BY <2>2, <2>3
<1>9. \A n \in 0..Len(key) : V[n] \in Nat
  <2> DEFINE S == {n \in 0..Len(key) : V[n] \in Nat}
  <2> HIDE DEF V
  <2>1. 0 \in S
    BY <1>1, <1>8
  <2>2. ASSUME NEW n \in 0..(Len(key) - 1), n \in S
        PROVE  n + 1 \in S
    <3>1. n + 1 \in 1..Len(key) /\ n + 1 \in 0..Len(key) /\ (n + 1) - 1 = n
      BY <1>1
    <3>2. V[n + 1] = LEN * V[n] + key[n + 1]
      BY <1>8, <3>1
    <3>3. V[n] \in Nat /\ key[n + 1] \in Nat
      BY <1>1, <2>2, <3>1
    <3>4. LEN * V[n] \in Nat
      BY <1>2, <3>3
    <3> QED
      BY <3>1, <3>2, <3>3, <3>4
  <2> HIDE DEF S
  <2>3. \A n \in 0..Len(key) : n \in S
    BY <1>1, <2>1, <2>2, Induction
  <2> QED
    BY <2>3 DEF S
<1> QED
  <2>1. V = [n \in 0..Len(key) |-> V[n]]
    BY <1>7
  <2> QED
    BY <1>8, <1>9, <2>1

-----------------------------------------------------------------------------
\* Powers of the base.

\* A product of natural numbers grows with each of them.
LEMMA ProductGrows ==
  ASSUME NEW a \in Nat, NEW b \in Nat, NEW c \in Nat, a <= b
  PROVE  c * a <= c * b /\ a * c <= b * c /\ c * a \in Nat /\ a * c \in Nat
<1>1. PICK d \in Nat : b = a + d
  <2>1. b - a \in Nat /\ b = a + (b - a)
    OBVIOUS
  <2> QED
    BY <2>1
<1>2. c * b = c * a + c * d /\ c * d \in Nat /\ c * a \in Nat /\ c * a = a * c /\ c * b = b * c
  BY <1>1
<1> QED
  BY <1>2

\* The digits, without the jitter.
LEMMA Base ==
  /\ LEN \in Nat /\ LEN >= 6
  /\ MOST_NEGATIVE \in Nat /\ 0 < MOST_NEGATIVE
  /\ FIRST_NEGATIVE \in Nat /\ MOST_NEGATIVE < FIRST_NEGATIVE
  /\ FIRST_POSITIVE = FIRST_NEGATIVE + 1
  /\ FIRST_POSITIVE < MOST_POSITIVE /\ MOST_POSITIVE = LEN - 1
BY DigitConstants

\* The powers of the base.
LEMMA PowerStep ==
  /\ Power(0) = 1
  /\ \A n \in Nat : Power(n) \in Nat /\ Power(n) > 0 /\ Power(n + 1) = LEN * Power(n)
<1> DEFINE Eqn(f, n) == f = [m \in 0..n |-> IF m = 0 THEN 1 ELSE LEN * f[m - 1]]
           P(n) == CHOOSE f : Eqn(f, n)
<1>1. LEN \in Nat /\ LEN > 0
  BY Base
<1>2. ASSUME NEW n \in Nat
      PROVE  Eqn(P(n), n)
  <2> DEFINE step == [m \in 1..n |-> [v \in Nat |-> LEN * v]]
  <2>1. step \in [1..n -> [Nat -> Nat]]
    <3>1. \A v \in Nat : LEN * v \in Nat
      BY <1>1
    <3> QED
      BY <3>1
  <2>2. PICK F \in [0..n -> Nat] :
          F[0] = 1 /\ \A m \in 1..n : F[m] = step[m][F[m - 1]]
    <3> HIDE DEF step
    <3>1. 1 \in Nat
      OBVIOUS
    <3> QED
      BY <2>1, <3>1, RecursionExists
  <2>3. \A m \in 1..n : F[m] = LEN * F[m - 1]
    <3>1. \A m \in 1..n : F[m - 1] \in Nat
      OBVIOUS
    <3> QED
      BY <2>2, <3>1
  <2>4. Eqn(F, n)
    <3>1. \A m \in 0..n : m # 0 => m \in 1..n
      OBVIOUS
    <3> QED
      BY <2>2, <2>3, <3>1
  <2> HIDE DEF Eqn
  <2> QED
    BY <2>4
<1>3. ASSUME NEW n \in Nat
      PROVE  P(n)[0] = 1 /\ \A m \in 1..n : P(n)[m] = LEN * P(n)[m - 1]
  <2> DEFINE Q == P(n)
  <2>1. Q = [m \in 0..n |-> IF m = 0 THEN 1 ELSE LEN * Q[m - 1]]
    BY <1>2
  <2> HIDE DEF Q
  <2>2. \A m \in 0..n : Q[m] = IF m = 0 THEN 1 ELSE LEN * Q[m - 1]
    BY <2>1
  <2>3. 0 \in 0..n /\ \A m \in 1..n : m \in 0..n /\ m # 0
    OBVIOUS
  <2>4. Q[0] = 1 /\ \A m \in 1..n : Q[m] = LEN * Q[m - 1]
    BY <2>2, <2>3
  <2> QED
    BY <2>4 DEF Q
<1>4. \A n : Power(n) = P(n)[n]
  BY DEF Power
<1> HIDE DEF P
<1>5. ASSUME NEW n \in Nat
      PROVE  P(n + 1)[n] = P(n)[n] /\ P(n)[n] \in Nat /\ P(n)[n] > 0
  <2> DEFINE S == {m \in 0..n : P(n + 1)[m] = P(n)[m] /\ P(n)[m] \in Nat /\ P(n)[m] > 0}
  <2>1. 0 \in S
    BY <1>3
  <2>2. ASSUME NEW m \in 0..(n - 1), m \in S
        PROVE  m + 1 \in S
    <3>1. /\ m + 1 \in 1..n /\ m + 1 \in 1..(n + 1) /\ (m + 1) - 1 = m /\ n + 1 \in Nat
          /\ m + 1 \in 0..n
      OBVIOUS
    <3>2. P(n + 1)[m + 1] = LEN * P(n + 1)[m] /\ P(n)[m + 1] = LEN * P(n)[m]
      BY <1>3, <3>1
    <3>3. LEN * P(n)[m] \in Nat /\ LEN * P(n)[m] > 0
      BY <1>1, <2>2
    <3> QED
      BY <2>2, <3>1, <3>2, <3>3
  <2> HIDE DEF S
  <2>3. \A m \in 0..n : m \in S
    BY <2>1, <2>2, Induction
  <2> QED
    BY <2>3 DEF S
<1>6. ASSUME NEW n \in Nat
      PROVE  Power(n + 1) = LEN * Power(n)
  <2>1. n + 1 \in Nat /\ n + 1 \in 1..(n + 1) /\ (n + 1) - 1 = n
    OBVIOUS
  <2>2. P(n + 1)[n + 1] = LEN * P(n + 1)[n]
    BY <1>3, <2>1
  <2> QED
    BY <1>4, <1>5, <2>2
<1>7. Power(0) = 1
  BY <1>3, <1>4
<1>8. \A n \in Nat : Power(n) \in Nat /\ Power(n) > 0
  BY <1>4, <1>5
<1> QED
  BY <1>6, <1>7, <1>8

\* Powers are positive.
LEMMA PowerType ==
  ASSUME NEW n \in Nat
  PROVE  Power(n) \in Nat /\ Power(n) >= 1
BY PowerStep

\* Times the base.
LEMMA TimesBase ==
  ASSUME NEW a \in Nat, NEW b \in Nat
  PROVE  /\ LEN * a \in Nat /\ LEN * b \in Nat
         /\ a <= b => LEN * a <= LEN * b
         /\ a < b => LEN * a + LEN <= LEN * b
<1>1. LEN \in Nat
  BY Base
<1>2. a <= b => LEN * a <= LEN * b
  BY <1>1, ProductGrows
<1>3. ASSUME a < b
      PROVE  LEN * a + LEN <= LEN * b
  <2>1. a + 1 \in Nat /\ a + 1 <= b
    BY <1>3
  <2>2. LEN * (a + 1) <= LEN * b
    BY <1>1, <2>1, ProductGrows
  <2>3. LEN * (a + 1) = LEN * a + LEN
    BY <1>1
  <2> QED
    BY <2>2, <2>3
<1>4. LEN * a \in Nat /\ LEN * b \in Nat
  BY <1>1
<1> QED
  BY <1>2, <1>3, <1>4

\* One digit, and one digit more.
LEMMA PowerZero == Power(0) = 1
BY PowerStep

\* The next power.
LEMMA PowerNext ==
  ASSUME NEW n \in Nat
  PROVE  Power(n + 1) = LEN * Power(n) /\ Power(n) \in Nat
BY PowerStep

\* Powers of the base multiply.
LEMMA PowerSum ==
  ASSUME NEW m \in Nat, NEW n \in Nat
  PROVE  Power(m + n) = Power(m) * Power(n)
<1> DEFINE S == {k \in 0..n : Power(m + k) = Power(m) * Power(k)}
<1>1. 0 \in S
  <2>1. Power(m) * 1 = Power(m) /\ m + 0 = m
    BY PowerStep
  <2> QED
    BY <2>1, PowerStep
<1>2. ASSUME NEW k \in 0..(n - 1), k \in S
      PROVE  k + 1 \in S
  <2>1. Power(m + (k + 1)) = LEN * Power(m + k) /\ Power(k + 1) = LEN * Power(k)
    <3>1. m + (k + 1) = (m + k) + 1 /\ m + k \in Nat /\ k \in Nat
      OBVIOUS
    <3> QED
      BY <3>1, PowerStep
  <2>2. LEN * (Power(m) * Power(k)) = Power(m) * (LEN * Power(k))
    <3>1. LEN \in Nat /\ Power(m) \in Nat /\ Power(k) \in Nat
      BY PowerType, Base
    <3> QED
      BY <3>1
  <2> QED
    BY <1>2, <2>1, <2>2
<1> HIDE DEF S
<1>3. n \in S
  BY <1>1, <1>2, Induction
<1> QED
  BY <1>3 DEF S

\* Powers of the base grow, and are greater than their exponents.
LEMMA PowerGrows ==
  ASSUME NEW m \in Nat, NEW n \in Nat
  PROVE  /\ n < Power(n)
         /\ m <= n => Power(m) <= Power(n)
         /\ m < n => LEN * Power(m) <= Power(n)
<1>1. \A a \in Nat : Power(a) <= Power(m + a) /\ a < Power(a)
  <2> SUFFICES ASSUME NEW a \in Nat
               PROVE  Power(a) <= Power(m + a) /\ a < Power(a)
    OBVIOUS
  <2> DEFINE S == {k \in 0..a : k < Power(k)}
  <2>1. 0 \in S
    BY PowerStep
  <2>2. ASSUME NEW k \in 0..(a - 1), k \in S
        PROVE  k + 1 \in S
    <3>1. Power(k + 1) = LEN * Power(k) /\ Power(k) \in Nat
      BY PowerStep
    <3>2. LEN * Power(k) >= 2 * Power(k)
      BY <3>1, ProductGrows, Base
    <3>3. k + 1 \in 0..a /\ k < Power(k) /\ k \in Nat
      BY <2>2
    <3>4. k + 1 < Power(k + 1)
      <4>1. \A p, q \in Nat : k < p /\ q >= 2 * p => k + 1 < q
        BY <3>3
      <4>2. Power(k + 1) >= 2 * Power(k)
        BY <3>1, <3>2
      <4>3. Power(k + 1) \in Nat
        BY <3>3, PowerType
      <4> QED
        BY <3>1, <3>3, <4>1, <4>2, <4>3
    <3> QED
      BY <3>3, <3>4
  <2>3. a \in S
    <3> HIDE DEF S
    <3> QED
      BY <2>1, <2>2, Induction
  <2>4. Power(m + a) = Power(m) * Power(a) /\ Power(m) >= 1
        /\ Power(m) \in Nat /\ Power(a) \in Nat
    BY PowerSum, PowerType
  <2>5. Power(m) * Power(a) >= 1 * Power(a)
    BY <2>4, ProductGrows
  <2> QED
    BY <2>3, <2>4, <2>5
<1>2. n < Power(n)
  BY <1>1
<1>3. \A i, j \in Nat : i <= j => Power(i) <= Power(j)
  <2> SUFFICES ASSUME NEW i \in Nat, NEW j \in Nat, i <= j
               PROVE  Power(i) <= Power(j)
    OBVIOUS
  <2>1. PICK d \in Nat : j = d + i
    <3>1. j - i \in Nat /\ j = (j - i) + i
      OBVIOUS
    <3> QED
      BY <3>1
  <2>2. Power(j) = Power(d) * Power(i) /\ Power(d) >= 1
        /\ Power(d) \in Nat /\ Power(i) \in Nat
    BY <2>1, PowerSum, PowerType
  <2>3. Power(d) * Power(i) >= 1 * Power(i)
    BY <2>2, ProductGrows
  <2> QED
    BY <2>2, <2>3
<1>4. m < n => LEN * Power(m) <= Power(n)
  <2>1. m < n => Power(m + 1) <= Power(n)
    BY <1>3
  <2> QED
    BY <2>1, PowerStep
<1> QED
  BY <1>2, <1>3, <1>4

\* The first powers.
LEMMA SmallPowers ==
  Power(1) = LEN /\ Power(2) = LEN * LEN /\ Power(3) = LEN * LEN * LEN
<1>1. LEN \in Nat
  BY Base
<1>2. Power(1) = LEN
  <2>1. Power(0 + 1) = LEN * 1
    BY PowerStep
  <2> QED
    BY <1>1, <2>1
<1>3. Power(2) = LEN * LEN
  <2>1. Power(1 + 1) = LEN * Power(1)
    BY PowerStep
  <2> QED
    BY <1>2, <2>1
<1>4. Power(3) = LEN * LEN * LEN
  <2>1. Power(2 + 1) = LEN * (LEN * LEN)
    BY <1>3, PowerStep
  <2>2. LEN * (LEN * LEN) = LEN * LEN * LEN
    BY <1>1
  <2> QED
    BY <2>1, <2>2
<1> QED
  BY <1>2, <1>3, <1>4

-----------------------------------------------------------------------------
\* The numbers of the beginnings of keys.

\* Keys as sequences of digits.
LEMMA KeyType ==
  ASSUME NEW key \in DigitKeys
  PROVE  /\ Len(key) \in Nat
         /\ \A i \in 1..Len(key) : key[i] \in Nat /\ key[i] <= LEN - 1 /\ key[i] < LEN
         /\ \A n \in 0..Len(key) : Values(key)[n] \in Nat
<1>1. Len(key) \in Nat /\ \A i \in 1..Len(key) : key[i] \in Digit
  BY DEF DigitKeys
<1>2. \A d \in Digit : d \in Nat /\ d <= LEN - 1 /\ d < LEN
  BY Base DEF Digit
<1> QED
  BY <1>1, <1>2, ValuesStep

\* A digit does not make up for one of the place before.
LEMMA DigitCarries ==
  ASSUME NEW x \in Nat, NEW y \in Nat, NEW c \in Nat, NEW d \in Nat,
         x + LEN <= y, c <= LEN - 1
  PROVE  x + c < y + d /\ x + c < y
BY Base

\* The next digit of a key.
LEMMA NextValue ==
  ASSUME NEW key \in DigitKeys, NEW n \in 0..(Len(key) - 1)
  PROVE  /\ Values(key)[n + 1] = LEN * Values(key)[n] + key[n + 1]
         /\ Values(key)[n] \in Nat /\ Values(key)[n + 1] \in Nat
         /\ key[n + 1] \in Nat /\ key[n + 1] <= LEN - 1
         /\ LEN * Values(key)[n] \in Nat
<1>1. n + 1 \in 1..Len(key) /\ (n + 1) - 1 = n /\ n \in 0..Len(key) /\ n + 1 \in 0..Len(key)
  BY KeyType
<1>2. Values(key)[n + 1] = LEN * Values(key)[n] + key[n + 1]
  BY <1>1, ValuesStep
<1>3. Values(key)[n] \in Nat /\ Values(key)[n + 1] \in Nat
  BY <1>1, KeyType
<1>4. key[n + 1] \in Nat /\ key[n + 1] <= LEN - 1
  BY <1>1, KeyType
<1>5. LEN * Values(key)[n] \in Nat
  BY <1>3, Base
<1> QED
  BY <1>2, <1>3, <1>4, <1>5

\* So many digits make a number below that power of the base.
LEMMA ValuesBound ==
  ASSUME NEW key \in DigitKeys, NEW n \in 0..Len(key)
  PROVE  Values(key)[n] \in Nat /\ Values(key)[n] < Power(n)
<1> DEFINE S == {k \in 0..Len(key) : Values(key)[k] < Power(k)}
<1>1. 0 \in S
  <2>1. 0 \in 0..Len(key) /\ Values(key)[0] = 0 /\ Power(0) = 1
    BY KeyType, ValuesStep, PowerZero
  <2> QED
    BY <2>1
<1>2. ASSUME NEW k \in 0..(Len(key) - 1), k \in S
      PROVE  k + 1 \in S
  <2>1. /\ Values(key)[k + 1] = LEN * Values(key)[k] + key[k + 1]
        /\ Values(key)[k] \in Nat /\ key[k + 1] \in Nat /\ key[k + 1] <= LEN - 1
    BY NextValue
  <2>2. /\ k \in Nat /\ k + 1 \in 0..Len(key) /\ Values(key)[k] < Power(k)
        /\ LEN \in Nat
    BY <1>2, Base, KeyType
  <2>3. Power(k) \in Nat /\ Power(k + 1) = LEN * Power(k)
    BY <2>2, PowerNext
  <2>4. LEN * Values(key)[k] + LEN <= LEN * Power(k)
        /\ LEN * Values(key)[k] \in Nat /\ LEN * Power(k) \in Nat
    BY <2>1, <2>2, <2>3, TimesBase
  <2>5. Values(key)[k + 1] < Power(k + 1)
    BY <2>1, <2>2, <2>3, <2>4, DigitCarries
  <2> QED
    BY <2>2, <2>5
<1>3. n \in S
  <2> HIDE DEF S
  <2> QED
    BY <1>1, <1>2, KeyType, Induction
<1> QED
  BY <1>3, KeyType

\* From one place to a later one, the order of two keys stays as long as the
\* digits of the greater are no less.
LEMMA ValuesMonotone ==
  ASSUME NEW a \in DigitKeys, NEW b \in DigitKeys,
         NEW n \in 0..Len(a), n <= Len(b), NEW m \in 0..n,
         Values(a)[m] <= Values(b)[m],
         \A i \in (m + 1)..n : a[i] <= b[i]
  PROVE  Values(a)[n] <= Values(b)[n]
<1>0. Len(a) \in Nat /\ Len(b) \in Nat
  BY KeyType
<1> DEFINE S == {k \in 0..(n - m) : Values(a)[m + k] <= Values(b)[m + k]}
<1>1. 0 \in S
  BY <1>0
<1>2. ASSUME NEW k \in 0..((n - m) - 1), k \in S
      PROVE  k + 1 \in S
  <2>1. /\ m + k \in 0..(Len(a) - 1) /\ m + k \in 0..(Len(b) - 1)
        /\ (m + k) + 1 = m + (k + 1) /\ m + (k + 1) \in (m + 1)..n /\ k + 1 \in 0..(n - m)
    BY <1>0
  <2>2. /\ Values(a)[m + (k + 1)] = LEN * Values(a)[m + k] + a[m + (k + 1)]
        /\ Values(b)[m + (k + 1)] = LEN * Values(b)[m + k] + b[m + (k + 1)]
        /\ Values(a)[m + k] \in Nat /\ Values(b)[m + k] \in Nat
        /\ a[m + (k + 1)] \in Nat /\ b[m + (k + 1)] \in Nat
    BY <2>1, NextValue
  <2>3. Values(a)[m + k] <= Values(b)[m + k] /\ a[m + (k + 1)] <= b[m + (k + 1)]
    BY <1>2, <2>1
  <2>4. LEN * Values(a)[m + k] <= LEN * Values(b)[m + k]
        /\ LEN * Values(a)[m + k] \in Nat /\ LEN * Values(b)[m + k] \in Nat
    BY <2>2, <2>3, TimesBase
  <2> QED
    BY <2>1, <2>2, <2>3, <2>4
<1>3. n - m \in S
  <2>1. n - m \in Nat /\ n - m \in 0..(n - m)
    BY <1>0
  <2> HIDE DEF S
  <2> QED
    BY <1>1, <1>2, <2>1, Induction
<1>4. m + (n - m) = n
  BY <1>0
<1> QED
  BY <1>3, <1>4

\* A beginning that is less makes the whole less.
LEMMA ValuesStrict ==
  ASSUME NEW a \in DigitKeys, NEW b \in DigitKeys,
         NEW n \in 0..Len(a), n <= Len(b), NEW m \in 0..n,
         Values(a)[m] < Values(b)[m]
  PROVE  Values(a)[n] < Values(b)[n]
<1>0. Len(a) \in Nat /\ Len(b) \in Nat
  BY KeyType
<1> DEFINE S == {k \in 0..(n - m) : Values(a)[m + k] < Values(b)[m + k]}
<1>1. 0 \in S
  BY <1>0
<1>2. ASSUME NEW k \in 0..((n - m) - 1), k \in S
      PROVE  k + 1 \in S
  <2>1. /\ m + k \in 0..(Len(a) - 1) /\ m + k \in 0..(Len(b) - 1)
        /\ (m + k) + 1 = m + (k + 1) /\ k + 1 \in 0..(n - m)
    BY <1>0
  <2>2. /\ Values(a)[m + (k + 1)] = LEN * Values(a)[m + k] + a[m + (k + 1)]
        /\ Values(b)[m + (k + 1)] = LEN * Values(b)[m + k] + b[m + (k + 1)]
        /\ Values(a)[m + k] \in Nat /\ Values(b)[m + k] \in Nat
        /\ a[m + (k + 1)] \in Nat /\ b[m + (k + 1)] \in Nat
        /\ a[m + (k + 1)] <= LEN - 1
    BY <2>1, NextValue
  <2>3. Values(a)[m + k] < Values(b)[m + k]
    BY <1>2
  <2>4. LEN * Values(a)[m + k] + LEN <= LEN * Values(b)[m + k]
        /\ LEN * Values(a)[m + k] \in Nat /\ LEN * Values(b)[m + k] \in Nat
    BY <2>2, <2>3, TimesBase
  <2>5. Values(a)[m + (k + 1)] < Values(b)[m + (k + 1)]
    BY <2>2, <2>4, DigitCarries
  <2> QED
    BY <2>1, <2>5
<1>3. n - m \in S
  <2>1. n - m \in Nat /\ n - m \in 0..(n - m)
    BY <1>0
  <2> HIDE DEF S
  <2> QED
    BY <1>1, <1>2, <2>1, Induction
<1>4. m + (n - m) = n
  BY <1>0
<1> QED
  BY <1>3, <1>4

\* Zeros multiply by the base.
LEMMA ValuesZeros ==
  ASSUME NEW a \in DigitKeys, NEW n \in 0..Len(a), NEW m \in 0..n,
         \A i \in (m + 1)..n : a[i] = 0
  PROVE  Values(a)[n] = Values(a)[m] * Power(n - m)
<1>0. Len(a) \in Nat /\ Values(a)[m] \in Nat
  BY KeyType
<1> DEFINE S == {k \in 0..(n - m) : Values(a)[m + k] = Values(a)[m] * Power(k)}
<1>1. 0 \in S
  <2>1. Power(0) = 1 /\ 0 \in 0..(n - m) /\ m + 0 = m
    BY <1>0, PowerZero
  <2>2. Values(a)[m] * 1 = Values(a)[m]
    BY <1>0
  <2> QED
    BY <2>1, <2>2
<1>2. ASSUME NEW k \in 0..((n - m) - 1), k \in S
      PROVE  k + 1 \in S
  <2>1. /\ m + k \in 0..(Len(a) - 1) /\ (m + k) + 1 = m + (k + 1)
        /\ m + (k + 1) \in (m + 1)..n /\ k + 1 \in 0..(n - m) /\ k \in Nat
    BY <1>0
  <2>2. /\ Values(a)[m + (k + 1)] = LEN * Values(a)[m + k] + a[m + (k + 1)]
        /\ Values(a)[m + k] \in Nat /\ LEN * Values(a)[m + k] \in Nat
    BY <2>1, NextValue
  <2>3. a[m + (k + 1)] = 0 /\ Values(a)[m + k] = Values(a)[m] * Power(k)
    BY <1>2, <2>1
  <2>4. Power(k + 1) = LEN * Power(k) /\ Power(k) \in Nat
    BY <2>1, PowerNext
  <2>5. LEN * (Values(a)[m] * Power(k)) = Values(a)[m] * (LEN * Power(k))
    BY <1>0, <2>4, Base
  <2> QED
    BY <2>1, <2>2, <2>3, <2>4, <2>5
<1>3. n - m \in S
  <2>1. n - m \in Nat /\ n - m \in 0..(n - m)
    BY <1>0
  <2> HIDE DEF S
  <2> QED
    BY <1>1, <1>2, <2>1, Induction
<1>4. m + (n - m) = n
  BY <1>0
<1> QED
  BY <1>3, <1>4

\* The first place where two keys differ.
LEMMA FirstDifference ==
  ASSUME NEW a \in DigitKeys, NEW b \in DigitKeys,
         NEW n \in 0..Len(a), n <= Len(b), \E i \in 1..n : a[i] # b[i]
  PROVE  \E i \in 1..n : a[i] # b[i] /\ \A j \in 1..(i - 1) : a[j] = b[j]
<1>0. Len(a) \in Nat /\ Len(b) \in Nat
  BY KeyType
<1> DEFINE S == {i \in 1..n : a[i] # b[i]}
<1>1. S \subseteq Nat /\ S # {}
  BY <1>0
<1>2. PICK i \in S : \A j \in S : i <= j
  BY <1>1, LeastNat
<1>3. \A j \in 1..(i - 1) : j \in 1..n /\ ~(i <= j)
  BY <1>0, <1>2
<1> QED
  BY <1>2, <1>3

\* Keys that begin alike have the same value there.
LEMMA ValuesAgree ==
  ASSUME NEW a \in DigitKeys, NEW b \in DigitKeys,
         NEW n \in 0..Len(a), n <= Len(b), \A i \in 1..n : a[i] = b[i]
  PROVE  Values(a)[n] = Values(b)[n]
<1>1. /\ Len(a) \in Nat /\ Len(b) \in Nat /\ n \in Nat
      /\ Values(a)[0] = 0 /\ Values(b)[0] = 0 /\ 0 \in 0..n
      /\ \A i \in (0 + 1)..n : a[i] = b[i] /\ a[i] \in Nat
  BY KeyType, ValuesStep
<1>2. n \in 0..Len(b) /\ n <= Len(a) /\ Values(a)[n] \in Nat /\ Values(b)[n] \in Nat
  BY <1>1, KeyType
<1>3. \A i \in (0 + 1)..n : a[i] <= b[i] /\ b[i] <= a[i]
  BY <1>1
<1>4. Values(a)[n] <= Values(b)[n]
  BY <1>1, <1>3, ValuesMonotone
<1>5. Values(b)[n] <= Values(a)[n]
  BY <1>1, <1>2, <1>3, ValuesMonotone
<1> QED
  BY <1>2, <1>4, <1>5

\* The order of two numbers is that of the first digits that differ.
LEMMA DifferenceDecides ==
  ASSUME NEW a \in DigitKeys, NEW b \in DigitKeys,
         NEW n \in 0..Len(a), n <= Len(b), NEW i \in 1..n,
         a[i] < b[i], \A j \in 1..(i - 1) : a[j] = b[j]
  PROVE  Values(a)[n] < Values(b)[n]
<1>0. Len(a) \in Nat /\ Len(b) \in Nat
  BY KeyType
<1>1. i - 1 \in 0..(Len(a) - 1) /\ i - 1 \in 0..(Len(b) - 1) /\ (i - 1) + 1 = i
      /\ i - 1 \in 0..Len(a) /\ i - 1 <= Len(b)
  BY <1>0
<1>2. Values(a)[i - 1] = Values(b)[i - 1]
  BY <1>1, ValuesAgree
<1>3. /\ Values(a)[i] = LEN * Values(a)[i - 1] + a[i]
      /\ Values(b)[i] = LEN * Values(b)[i - 1] + b[i]
      /\ LEN * Values(a)[i - 1] \in Nat /\ a[i] \in Nat /\ b[i] \in Nat
  <2>1. /\ Values(a)[(i - 1) + 1] = LEN * Values(a)[i - 1] + a[(i - 1) + 1]
        /\ LEN * Values(a)[i - 1] \in Nat /\ a[(i - 1) + 1] \in Nat
    BY <1>1, NextValue
  <2>2. /\ Values(b)[(i - 1) + 1] = LEN * Values(b)[i - 1] + b[(i - 1) + 1]
        /\ b[(i - 1) + 1] \in Nat
    BY <1>1, NextValue
  <2> QED
    BY <1>1, <2>1, <2>2
<1>4. Values(a)[i] < Values(b)[i]
  BY <1>2, <1>3
<1>5. i \in 0..n
  BY <1>0
<1> QED
  BY <1>4, <1>5, ValuesStrict

-----------------------------------------------------------------------------
\* Padding, and the digits of a number.

\* What the number of a key is.
LEMMA NumberType ==
  ASSUME NEW key \in DigitKeys
  PROVE  Number(key) \in Nat /\ Number(key) < Power(Len(key))
<1>1. Len(key) \in 0..Len(key)
  BY KeyType
<1> QED
  BY <1>1, ValuesBound DEF Number

\* A key with zeros at its end.
LEMMA WithZeros ==
  ASSUME NEW key \in DigitKeys, NEW n \in Nat
  PROVE  /\ key \o Zeros(n) \in DigitKeys
         /\ Len(key \o Zeros(n)) = Len(key) + n
         /\ \A i \in 1..Len(key) : (key \o Zeros(n))[i] = key[i]
         /\ \A i \in (Len(key) + 1)..(Len(key) + n) : (key \o Zeros(n))[i] = 0
         /\ Values(key \o Zeros(n))[Len(key)] = Number(key)
         /\ Number(key \o Zeros(n)) = Number(key) * Power(n)
<1>1. Zeros(n) \in DigitKeys /\ Len(Zeros(n)) = n /\ \A i \in 1..n : Zeros(n)[i] = 0
  <2>1. 0 \in Digit
    BY Base DEF Digit
  <2> QED
    BY <2>1 DEF Zeros, DigitKeys
<1> DEFINE long == key \o Zeros(n)
<1>2. Len(key) \in Nat
  BY KeyType
<1>3. long \in DigitKeys /\ Len(long) = Len(key) + n
  BY <1>1 DEF DigitKeys
<1>4. \A i \in 1..Len(key) : long[i] = key[i]
  BY <1>1 DEF DigitKeys
<1>5. \A i \in (Len(key) + 1)..(Len(key) + n) : long[i] = 0
  <2>1. ASSUME NEW i \in (Len(key) + 1)..(Len(key) + n)
        PROVE  long[i] = 0
    <3>1. i - Len(key) \in 1..n /\ ~(i <= Len(key)) /\ i \in 1..(Len(key) + n)
      BY <1>2
    <3>2. long[i] = Zeros(n)[i - Len(key)]
      BY <1>1, <1>2, <3>1 DEF DigitKeys
    <3> QED
      BY <1>1, <3>1, <3>2
  <2> QED
    BY <2>1
<1> HIDE DEF long
<1>6. Len(key) \in 0..Len(key) /\ Len(key) <= Len(long) /\ Len(key) \in 0..Len(long)
      /\ Len(long) \in 0..Len(long)
  BY <1>2, <1>3
<1>7. Values(long)[Len(key)] = Values(key)[Len(key)]
  <2>1. \A i \in 1..Len(key) : key[i] = long[i]
    BY <1>4
  <2> QED
    BY <1>3, <1>6, <2>1, ValuesAgree
<1>8. Values(long)[Len(long)] = Values(long)[Len(key)] * Power(Len(long) - Len(key))
  <2>1. \A i \in (Len(key) + 1)..Len(long) : long[i] = 0
    BY <1>3, <1>5
  <2> QED
    BY <1>3, <1>6, <2>1, ValuesZeros
<1>9. Len(long) - Len(key) = n
  BY <1>2, <1>3
<1> QED
  BY <1>3, <1>4, <1>5, <1>7, <1>8, <1>9 DEF long, Number

\* A key that is padded to a width.
LEMMA Padded ==
  ASSUME NEW key \in DigitKeys, NEW width \in Nat, Len(key) <= width
  PROVE  /\ PadTo(key, width) \in DigitKeys /\ Len(PadTo(key, width)) = width
         /\ \A i \in 1..Len(key) : PadTo(key, width)[i] = key[i]
         /\ \A i \in (Len(key) + 1)..width : PadTo(key, width)[i] = 0
         /\ Values(PadTo(key, width))[Len(key)] = Number(key)
         /\ Number(PadTo(key, width)) = Number(key) * Power(width - Len(key))
<1>1. width - Len(key) \in Nat /\ Len(key) + (width - Len(key)) = width
  BY KeyType
<1> QED
  BY <1>1, WithZeros DEF PadTo

\* Division by a product.
LEMMA DivideTwice ==
  ASSUME NEW n \in Nat, NEW a \in Nat, NEW b \in Nat, a > 0, b > 0
  PROVE  n \div (a * b) = (n \div b) \div a
<1> DEFINE q == n \div b
           r == n % b
           p == q \div a
           s == q % a
<1>1. n = b * q + r /\ q \in Nat /\ r \in Nat /\ r < b
  OBVIOUS
<1> HIDE DEF q, r
<1>2. q = a * p + s /\ p \in Nat /\ s \in Nat /\ s < a
  BY <1>1
<1> HIDE DEF p, s
<1>3. n = (a * b) * p + (b * s + r)
  <2>1. b * q = b * (a * p) + b * s
    BY <1>1, <1>2
  <2>2. b * (a * p) = (a * b) * p
    BY <1>2
  <2>3. b * s \in Nat /\ b * q \in Nat /\ (a * b) * p \in Nat
    BY <1>1, <1>2
  <2> QED
    BY <1>1, <2>1, <2>2, <2>3
<1>4. b * s + r \in Nat /\ b * s + r < a * b
  <2>1. s + 1 \in Nat /\ s + 1 <= a
    BY <1>2
  <2>2. b * (s + 1) <= b * a
    BY <2>1, ProductGrows
  <2>3. b * (s + 1) = b * s + b /\ b * a = a * b /\ b * s \in Nat
    BY <1>2
  <2> QED
    BY <1>1, <2>2, <2>3
<1>5. \A d, t \in Nat : d * p + t = n /\ t < d => n \div d = p
  BY <1>2
<1>6. a * b \in Nat
  OBVIOUS
<1>7. n \div (a * b) = p
  BY <1>3, <1>4, <1>5, <1>6
<1> QED
  BY <1>7 DEF p, q

\* A number in enough digits.
LEMMA DigitsOfNumber ==
  ASSUME NEW n \in Nat, NEW width \in Nat, n < Power(width)
  PROVE  /\ Digits(n, width) \in DigitKeys
         /\ Len(Digits(n, width)) = width
         /\ Number(Digits(n, width)) = n
<1> DEFINE D == Digits(n, width)
<1>1. \A i \in 1..width : (n \div Power(width - i)) % LEN \in Digit
  <2>1. ASSUME NEW i \in 1..width
        PROVE  (n \div Power(width - i)) % LEN \in Digit
    <3>1. width - i \in Nat
      OBVIOUS
    <3>2. Power(width - i) \in Nat /\ Power(width - i) >= 1
      BY <3>1, PowerType
    <3>3. n \div Power(width - i) \in Nat
      BY <3>2
    <3> QED
      BY <3>3, Base DEF Digit
  <2> QED
    BY <2>1
<1>2. D \in DigitKeys /\ Len(D) = width
      /\ \A i \in 1..width : D[i] = (n \div Power(width - i)) % LEN
  BY <1>1 DEF Digits, DigitKeys
<1> HIDE DEF D
<1> DEFINE S == {k \in 0..width : Values(D)[k] = n \div Power(width - k)}
<1>3. 0 \in S
  <2>1. Values(D)[0] = 0 /\ 0 \in 0..width /\ width - 0 = width
    BY <1>2, ValuesStep
  <2>2. Power(width) \in Nat /\ Power(width) >= 1
    BY PowerType
  <2>3. n \div Power(width) = 0
    BY <2>2
  <2> QED
    BY <2>1, <2>3
<1>4. ASSUME NEW k \in 0..(width - 1), k \in S
      PROVE  k + 1 \in S
  <2>1. width - (k + 1) \in Nat /\ (width - (k + 1)) + 1 = width - k /\ k + 1 \in 1..width
        /\ k + 1 \in 0..width
    OBVIOUS
  <2> DEFINE p == Power(width - (k + 1))
             q == n \div p
  <2>2. Power(width - k) = LEN * p /\ p \in Nat /\ p >= 1
    BY <2>1, PowerNext, PowerType
  <2>3. q \in Nat
    BY <2>2
  <2>4. n \div (LEN * p) = q \div LEN
    <3>1. LEN \in Nat /\ LEN > 0 /\ p \in Nat /\ p > 0
      BY <2>2, Base
    <3> HIDE DEF p
    <3>2. n \div (LEN * p) = (n \div p) \div LEN
      BY <3>1, DivideTwice
    <3> QED
      BY <3>2
  <2>5. Values(D)[k + 1] = LEN * Values(D)[k] + D[k + 1]
    BY <1>2, NextValue
  <2>6. Values(D)[k] = q \div LEN /\ D[k + 1] = q % LEN
    BY <1>2, <1>4, <2>1, <2>2, <2>4
  <2>7. LEN * (q \div LEN) + (q % LEN) = q
    <3> HIDE DEF q
    <3> QED
      BY <2>3, Base
  <2> QED
    BY <2>1, <2>5, <2>6, <2>7
<1>5. width \in S
  <2> HIDE DEF S
  <2> QED
    BY <1>3, <1>4, Induction
<1>6. Number(D) = n
  <2>1. Number(D) = n \div Power(width - width) /\ width - width = 0 /\ Power(0) = 1
    BY <1>2, <1>5, PowerZero DEF Number
  <2>2. n \div 1 = n
    OBVIOUS
  <2> QED
    BY <2>1, <2>2
<1> QED
  BY <1>2, <1>6 DEF D

\* Keys of one length with the same number are the same.
LEMMA NumberTells ==
  ASSUME NEW a \in DigitKeys, NEW b \in DigitKeys, Len(a) = Len(b),
         Number(a) = Number(b)
  PROVE  a = b
<1>1. Len(a) \in Nat /\ Len(a) \in 0..Len(a) /\ Len(b) <= Len(a) /\ Len(a) \in 0..Len(b)
  BY KeyType
<1>2. ASSUME NEW i \in 1..Len(a), a[i] # b[i]
      PROVE  FALSE
  <2>1. PICK k \in 1..Len(a) : a[k] # b[k] /\ \A j \in 1..(k - 1) : a[j] = b[j]
    BY <1>1, <1>2, FirstDifference
  <2>2. a[k] \in Nat /\ b[k] \in Nat /\ Number(a) \in Nat
    BY KeyType, NumberType
  <2>3. CASE a[k] < b[k]
    <3>1. Number(a) < Number(b)
      BY <1>1, <2>1, <2>3, DifferenceDecides DEF Number
    <3> QED
      BY <2>2, <3>1
  <2>4. CASE b[k] < a[k]
    <3>1. Number(b) < Number(a)
      BY <1>1, <2>1, <2>4, DifferenceDecides DEF Number
    <3> QED
      BY <2>2, <3>1
  <2> QED
    BY <2>1, <2>2, <2>3, <2>4
<1> QED
  BY <1>2 DEF DigitKeys

-----------------------------------------------------------------------------
\* The order of keys.

\* Place i decides that a comes before b: a ends there, or has a lesser digit.
DecidedAt(a, b, i) ==
  /\ i \in 1..Len(b) /\ i <= Len(a) + 1
  /\ \A j \in 1..(i - 1) : a[j] = b[j]
  /\ i <= Len(a) => a[i] < b[i]

\* The order of strings is decided at one place.
LEMMA OrderDecided ==
  ASSUME NEW a \in DigitKeys, NEW b \in DigitKeys
  PROVE  Before(a, b) <=> \E i \in 1..Len(b) : DecidedAt(a, b, i)
<1>0. Len(a) \in Nat /\ Len(b) \in Nat
  BY KeyType
<1>1. /\ DOMAIN a = 1..Len(a) /\ DOMAIN b = 1..Len(b) /\ SubSeq(a, 1, Len(a)) = a
  BY DEF DigitKeys
<1>2. ASSUME Before(a, b)
      PROVE  \E i \in 1..Len(b) : DecidedAt(a, b, i)
  <2>1. CASE IsStrictPrefix(a, b)
    <3>1. Len(a) <= Len(b) /\ a = SubSeq(b, 1, Len(a)) /\ a # b
      BY <1>1, <2>1 DEF IsStrictPrefix, IsPrefix
    <3>2. \A j \in 1..Len(a) : a[j] = b[j]
      BY <1>1, <3>1 DEF DigitKeys
    <3>3. Len(a) # Len(b)
      BY <3>1, <3>2 DEF DigitKeys
    <3>4. DecidedAt(a, b, Len(a) + 1) /\ Len(a) + 1 \in 1..Len(b)
      BY <1>0, <3>1, <3>2, <3>3 DEF DecidedAt
    <3> QED
      BY <3>4
  <2>2. CASE \E i \in DOMAIN a \cap DOMAIN b :
               a[i] < b[i] /\ \A j \in 1..(i - 1) : a[j] = b[j]
    <3>1. PICK i \in DOMAIN a \cap DOMAIN b :
            a[i] < b[i] /\ \A j \in 1..(i - 1) : a[j] = b[j]
      BY <2>2
    <3>2. DecidedAt(a, b, i)
      BY <1>1, <3>1 DEF DecidedAt
    <3> QED
      BY <3>2 DEF DecidedAt
  <2> QED
    BY <1>2, <2>1, <2>2 DEF Before
<1>3. ASSUME NEW i \in 1..Len(b), DecidedAt(a, b, i)
      PROVE  Before(a, b)
  <2>1. CASE i <= Len(a)
    <3>1. i \in DOMAIN a \cap DOMAIN b
      BY <1>1, <2>1
    <3> QED
      BY <1>3, <2>1, <3>1 DEF Before, DecidedAt
  <2>2. CASE ~(i <= Len(a))
    <3>1. i = Len(a) + 1 /\ Len(a) <= Len(b) /\ Len(a) # Len(b) /\ i - 1 = Len(a)
      BY <1>0, <1>3, <2>2 DEF DecidedAt
    <3>2. \A j \in 1..Len(a) : a[j] = b[j]
      BY <1>0, <1>3, <3>1 DEF DecidedAt
    <3>3. SubSeq(b, 1, Len(a)) = a
      BY <1>0, <3>1, <3>2 DEF DigitKeys
    <3>4. IsStrictPrefix(a, b)
      BY <1>1, <3>1, <3>3 DEF IsStrictPrefix, IsPrefix
    <3> QED
      BY <3>4 DEF Before
  <2> QED
    BY <2>1, <2>2
<1> QED
  BY <1>2, <1>3

\* It is a strict order ...
LEMMA OrderIrreflexive ==
  ASSUME NEW a \in DigitKeys
  PROVE  ~Before(a, a)
<1>1. Len(a) \in Nat /\ \A i \in 1..Len(a) : a[i] \in Nat
  BY KeyType
<1>2. \A i \in 1..Len(a) : ~DecidedAt(a, a, i)
  BY <1>1 DEF DecidedAt
<1> QED
  BY <1>2, OrderDecided

\* ... that is transitive ...
LEMMA OrderTransitive ==
  ASSUME NEW a \in DigitKeys, NEW b \in DigitKeys, NEW c \in DigitKeys,
         Before(a, b), Before(b, c)
  PROVE  Before(a, c)
<1>1. /\ Len(a) \in Nat /\ Len(b) \in Nat /\ Len(c) \in Nat
      /\ \A i \in 1..Len(a) : a[i] \in Nat
      /\ \A i \in 1..Len(b) : b[i] \in Nat
      /\ \A i \in 1..Len(c) : c[i] \in Nat
  BY KeyType
<1>2. PICK i \in 1..Len(b) : DecidedAt(a, b, i)
  BY OrderDecided
<1>3. PICK k \in 1..Len(c) : DecidedAt(b, c, k)
  BY OrderDecided
<1>4. CASE i < k
  <2>1. i \in 1..Len(c) /\ i \in 1..(k - 1) /\ b[i] = c[i] /\ i <= Len(a) + 1
    BY <1>1, <1>2, <1>3, <1>4 DEF DecidedAt
  <2>2. \A j \in 1..(i - 1) : a[j] = c[j]
    <3>1. \A j \in 1..(i - 1) : j \in 1..(k - 1)
      BY <1>1, <1>4
    <3> QED
      BY <1>2, <1>3, <3>1 DEF DecidedAt
  <2>3. DecidedAt(a, c, i)
    BY <1>2, <2>1, <2>2 DEF DecidedAt
  <2> QED
    BY <2>1, <2>3, OrderDecided
<1>6. CASE k < i
  <2>1. k \in 1..Len(b) /\ k <= Len(a) /\ k \in 1..(i - 1) /\ a[k] = b[k] /\ b[k] < c[k]
    BY <1>1, <1>2, <1>3, <1>6 DEF DecidedAt
  <2>2. \A j \in 1..(k - 1) : a[j] = c[j]
    <3>1. \A j \in 1..(k - 1) : j \in 1..(i - 1)
      BY <1>1, <1>6
    <3> QED
      BY <1>2, <1>3, <3>1 DEF DecidedAt
  <2>3. DecidedAt(a, c, k)
    BY <1>1, <2>1, <2>2 DEF DecidedAt
  <2> QED
    BY <2>3, OrderDecided
<1>7. CASE k = i
  <2>1. i <= Len(a) => a[i] < c[i]
    <3>1. i <= Len(a) => a[i] < b[i] /\ b[i] < c[i] /\ i \in 1..Len(a)
      BY <1>1, <1>2, <1>3, <1>7 DEF DecidedAt
    <3> QED
      BY <1>1, <1>3, <1>7, <3>1
  <2>2. DecidedAt(a, c, i)
    BY <1>2, <1>3, <1>7, <2>1 DEF DecidedAt
  <2> QED
    BY <1>3, <1>7, <2>2, OrderDecided
<1> QED
  BY <1>2, <1>3, <1>4, <1>6, <1>7

\* ... of all keys.
LEMMA OrderTotal ==
  ASSUME NEW a \in DigitKeys, NEW b \in DigitKeys
  PROVE  a = b \/ Before(a, b) \/ Before(b, a)
<1>1. /\ Len(a) \in Nat /\ Len(b) \in Nat
      /\ \A i \in 1..Len(a) : a[i] \in Nat
      /\ \A i \in 1..Len(b) : b[i] \in Nat
  BY KeyType
<1> DEFINE n == IF Len(a) <= Len(b) THEN Len(a) ELSE Len(b)
<1>2. n \in 0..Len(a) /\ n \in 0..Len(b) /\ n <= Len(a) /\ n <= Len(b)
  BY <1>1
<1>3. CASE \E i \in 1..n : a[i] # b[i]
  <2>1. PICK i \in 1..n : a[i] # b[i] /\ \A j \in 1..(i - 1) : a[j] = b[j]
    BY <1>2, <1>3, FirstDifference
  <2>2. i \in 1..Len(a) /\ i \in 1..Len(b)
    BY <1>1
  <2>3. CASE a[i] < b[i]
    <3>1. DecidedAt(a, b, i)
      BY <1>1, <2>1, <2>2, <2>3 DEF DecidedAt
    <3> QED
      BY <2>2, <3>1, OrderDecided
  <2>4. CASE b[i] < a[i]
    <3>1. DecidedAt(b, a, i)
      BY <1>1, <2>1, <2>2, <2>4 DEF DecidedAt
    <3> QED
      BY <2>2, <3>1, OrderDecided
  <2> QED
    BY <1>1, <2>1, <2>2, <2>3, <2>4
<1>4. CASE \A i \in 1..n : a[i] = b[i]
  <2>1. CASE Len(a) = Len(b)
    BY <1>4, <2>1 DEF DigitKeys
  <2>2. CASE Len(a) < Len(b)
    <3>1. DecidedAt(a, b, Len(a) + 1) /\ Len(a) + 1 \in 1..Len(b)
      BY <1>1, <1>4, <2>2 DEF DecidedAt
    <3> QED
      BY <3>1, OrderDecided
  <2>3. CASE Len(b) < Len(a)
    <3>1. DecidedAt(b, a, Len(b) + 1) /\ Len(b) + 1 \in 1..Len(a)
      BY <1>1, <1>4, <2>3 DEF DecidedAt
    <3> QED
      BY <3>1, OrderDecided
  <2> QED
    BY <1>1, <2>1, <2>2, <2>3
<1> QED
  BY <1>3, <1>4

\* The numbers of padded keys have the order of the keys, up to zeros at the end.
LEMMA NumbersInOrder ==
  ASSUME NEW a \in DigitKeys, NEW b \in DigitKeys,
         NEW width \in Nat, Len(a) <= width, Len(b) <= width
  PROVE  /\ Number(PadTo(a, width)) < Number(PadTo(b, width)) => Before(a, b)
         /\ Before(a, b) => Number(PadTo(a, width)) <= Number(PadTo(b, width))
<1> DEFINE p == PadTo(a, width)
           q == PadTo(b, width)
<1>1. /\ Len(a) \in Nat /\ Len(b) \in Nat
      /\ \A i \in 1..Len(a) : a[i] \in Nat
      /\ \A i \in 1..Len(b) : b[i] \in Nat
  BY KeyType
<1>2. /\ p \in DigitKeys /\ Len(p) = width
      /\ \A i \in 1..Len(a) : p[i] = a[i]
      /\ \A i \in (Len(a) + 1)..width : p[i] = 0
  BY Padded
<1>3. /\ q \in DigitKeys /\ Len(q) = width
      /\ \A i \in 1..Len(b) : q[i] = b[i]
      /\ \A i \in (Len(b) + 1)..width : q[i] = 0
  BY Padded
<1> HIDE DEF p, q
<1>4. /\ Number(p) \in Nat /\ Number(q) \in Nat
      /\ \A i \in 1..width : p[i] \in Nat /\ q[i] \in Nat
      /\ width \in 0..Len(p) /\ width \in 0..Len(q)
      /\ Number(p) = Values(p)[width] /\ Number(q) = Values(q)[width]
  <2>1. \A i \in 1..width : p[i] \in Nat
    BY <1>2, KeyType
  <2>2. \A i \in 1..width : q[i] \in Nat
    BY <1>3, KeyType
  <2>3. Number(p) \in Nat /\ Number(q) \in Nat
    BY <1>2, <1>3, NumberType
  <2>4. width \in 0..width
    OBVIOUS
  <2> QED
    BY <1>2, <1>3, <2>1, <2>2, <2>3, <2>4 DEF Number
<1>5. width \in 0..Len(p) /\ width <= Len(q) /\ width \in 0..Len(q) /\ width <= Len(p)
      /\ p \in DigitKeys /\ q \in DigitKeys
  BY <1>2, <1>3
<1>6. ASSUME Number(p) < Number(q)
      PROVE  Before(a, b)
  <2>1. \E i \in 1..width : p[i] # q[i]
    <3>1. p # q
      BY <1>4, <1>6
    <3> QED
      BY <1>2, <1>3, <3>1 DEF DigitKeys
  <2>2. PICK i \in 1..width : p[i] # q[i] /\ \A j \in 1..(i - 1) : p[j] = q[j]
    BY <1>5, <2>1, FirstDifference
  <2>3. p[i] < q[i]
    <3>1. ASSUME q[i] < p[i]
          PROVE  FALSE
      <4>1. \A j \in 1..(i - 1) : q[j] = p[j]
        BY <2>2
      <4>2. Values(q)[width] < Values(p)[width]
        BY <1>5, <3>1, <4>1, DifferenceDecides
      <4> QED
        BY <1>4, <1>6, <4>2
    <3> QED
      BY <1>4, <2>2, <3>1
  <2>4. i <= Len(b)
    <3>1. ~(i <= Len(b)) => i \in (Len(b) + 1)..width
      BY <1>1
    <3> QED
      BY <1>3, <1>4, <2>3, <3>1
  <2>5. CASE i <= Len(a)
    <3>1. DecidedAt(a, b, i) /\ i \in 1..Len(b)
      <4>1. \A j \in 1..i : j \in 1..Len(a) /\ j \in 1..Len(b)
        BY <1>1, <2>4, <2>5
      <4>2. \A j \in 1..(i - 1) : j \in 1..i
        OBVIOUS
      <4> QED
        BY <1>1, <1>2, <1>3, <2>2, <2>3, <2>4, <2>5, <4>1, <4>2 DEF DecidedAt
    <3> QED
      BY <3>1, OrderDecided
  <2>6. CASE ~(i <= Len(a))
    <3>1. \A j \in 1..Len(a) : j \in 1..(i - 1) /\ j \in 1..Len(b)
      BY <1>1, <2>4, <2>6
    <3>2. \A j \in 1..Len(a) : a[j] = b[j]
      BY <1>2, <1>3, <2>2, <3>1
    <3>3. DecidedAt(a, b, Len(a) + 1) /\ Len(a) + 1 \in 1..Len(b)
      BY <1>1, <2>4, <2>6, <3>2 DEF DecidedAt
    <3> QED
      BY <3>3, OrderDecided
  <2> QED
    BY <2>5, <2>6
<1>7. ASSUME Before(a, b)
      PROVE  Number(p) <= Number(q)
  <2>1. PICK i \in 1..Len(b) : DecidedAt(a, b, i)
    BY <1>7, OrderDecided
  <2>2. CASE i <= Len(a)
    <3>1. i \in 1..width /\ p[i] < q[i] /\ \A j \in 1..(i - 1) : p[j] = q[j]
      <4>1. \A j \in 1..i : j \in 1..Len(a) /\ j \in 1..Len(b)
        BY <1>1, <2>2
      <4>2. \A j \in 1..(i - 1) : j \in 1..i
        OBVIOUS
      <4> QED
        BY <1>1, <1>2, <1>3, <2>1, <2>2, <4>1, <4>2 DEF DecidedAt
    <3>2. Values(p)[width] < Values(q)[width]
      BY <1>5, <3>1, DifferenceDecides
    <3> QED
      BY <1>4, <3>2
  <2>3. CASE ~(i <= Len(a))
    <3>1. /\ Len(a) \in 0..width /\ Len(a) <= Len(b)
          /\ \A j \in 1..Len(a) : a[j] = b[j]
      BY <1>1, <2>1, <2>3 DEF DecidedAt
    <3>2. \A j \in 1..Len(a) : p[j] = q[j]
      <4>1. \A j \in 1..Len(a) : j \in 1..Len(b)
        BY <1>1, <3>1
      <4> QED
        BY <1>2, <1>3, <3>1, <4>1
    <3>3. Values(p)[Len(a)] = Values(q)[Len(a)] /\ Values(p)[Len(a)] \in Nat
      BY <1>1, <1>2, <1>3, <3>1, <3>2, ValuesAgree, KeyType
    <3>4. \A j \in (Len(a) + 1)..width : p[j] <= q[j]
      <4>1. \A j \in (Len(a) + 1)..width : j \in 1..width
        BY <1>1
      <4> QED
        BY <1>2, <1>4, <4>1
    <3>5. Values(p)[width] <= Values(q)[width]
      BY <1>5, <3>1, <3>3, <3>4, ValuesMonotone
    <3> QED
      BY <1>4, <3>5
  <2> QED
    BY <2>2, <2>3
<1> QED
  BY <1>6, <1>7 DEF p, q

-----------------------------------------------------------------------------
\* Addition.

\* The number of a key that is put together.
LEMMA NumberOfBoth ==
  ASSUME NEW a \in DigitKeys, NEW b \in DigitKeys
  PROVE  /\ a \o b \in DigitKeys /\ Len(a \o b) = Len(a) + Len(b)
         /\ \A i \in 1..Len(a) : (a \o b)[i] = a[i]
         /\ \A i \in 1..Len(b) : (a \o b)[Len(a) + i] = b[i]
         /\ Number(a \o b) = Number(a) * Power(Len(b)) + Number(b)
<1> DEFINE c == a \o b
<1>1. Len(a) \in Nat /\ Len(b) \in Nat /\ Number(a) \in Nat
  BY KeyType, NumberType
<1>2. /\ c \in DigitKeys /\ Len(c) = Len(a) + Len(b)
      /\ \A i \in 1..Len(a) : c[i] = a[i]
  BY DEF DigitKeys
<1>3. ASSUME NEW i \in 1..Len(b)
      PROVE  c[Len(a) + i] = b[i]
  <2>1. Len(a) + i \in 1..(Len(a) + Len(b)) /\ ~(Len(a) + i <= Len(a))
        /\ (Len(a) + i) - Len(a) = i
    BY <1>1
  <2> QED
    BY <1>1, <2>1 DEF DigitKeys
<1> HIDE DEF c
<1> DEFINE S == {k \in 0..Len(b) :
                   Values(c)[Len(a) + k] = Number(a) * Power(k) + Values(b)[k]}
<1>4. 0 \in S
  <2>1. /\ Len(a) \in 0..Len(a) /\ Len(a) <= Len(c) /\ Len(a) + 0 = Len(a)
        /\ 0 \in 0..Len(b)
    BY <1>1, <1>2
  <2>2. Values(a)[Len(a)] = Values(c)[Len(a)]
    BY <1>2, <2>1, ValuesAgree
  <2>3. Values(b)[0] = 0 /\ Power(0) = 1 /\ Number(a) * 1 + 0 = Number(a)
    BY <1>1, ValuesStep, PowerZero
  <2> QED
    BY <2>1, <2>2, <2>3 DEF Number
<1>5. ASSUME NEW k \in 0..(Len(b) - 1), k \in S
      PROVE  k + 1 \in S
  <2>1. /\ Len(a) + k \in 0..(Len(c) - 1) /\ (Len(a) + k) + 1 = Len(a) + (k + 1)
        /\ k + 1 \in 1..Len(b) /\ k + 1 \in 0..Len(b) /\ k \in Nat
    BY <1>1, <1>2
  <2>2. Values(c)[Len(a) + (k + 1)] = LEN * Values(c)[Len(a) + k] + c[Len(a) + (k + 1)]
    BY <1>2, <2>1, NextValue
  <2>3. Values(b)[k + 1] = LEN * Values(b)[k] + b[k + 1] /\ Values(b)[k] \in Nat
        /\ b[k + 1] \in Nat
    BY NextValue
  <2>4. c[Len(a) + (k + 1)] = b[k + 1]
        /\ Values(c)[Len(a) + k] = Number(a) * Power(k) + Values(b)[k]
    BY <1>3, <1>5, <2>1
  <2>5. Power(k + 1) = LEN * Power(k) /\ Power(k) \in Nat /\ LEN \in Nat
    BY <2>1, PowerNext, Base
  <2>6. LEN * (Number(a) * Power(k) + Values(b)[k])
          = Number(a) * (LEN * Power(k)) + LEN * Values(b)[k]
    BY <1>1, <2>3, <2>5
  <2>7. \A x, y, z \in Nat : (x + y) + z = x + (y + z)
    OBVIOUS
  <2>8. Number(a) * (LEN * Power(k)) \in Nat /\ LEN * Values(b)[k] \in Nat
    BY <1>1, <2>3, <2>5
  <2>9. Values(c)[Len(a) + (k + 1)] = Number(a) * Power(k + 1) + Values(b)[k + 1]
    BY <2>2, <2>3, <2>4, <2>5, <2>6, <2>7, <2>8
  <2> QED
    BY <2>1, <2>9
<1>6. Len(b) \in S
  <2>1. Len(b) \in 0..Len(b)
    BY <1>1
  <2> HIDE DEF S
  <2> QED
    BY <1>1, <1>4, <1>5, <2>1, Induction
<1>7. Number(c) = Number(a) * Power(Len(b)) + Number(b)
  BY <1>2, <1>6 DEF Number
<1> QED
  BY <1>2, <1>3, <1>7 DEF c

\* One digit is its own number.
LEMMA OneDigit ==
  ASSUME NEW d \in Digit
  PROVE  <<d>> \in DigitKeys /\ Len(<<d>>) = 1 /\ Number(<<d>>) = d
<1>1. <<d>> \in DigitKeys /\ Len(<<d>>) = 1 /\ <<d>>[1] = d
  BY DEF DigitKeys
<1>2. d \in Nat
  BY Base DEF Digit
<1>3. Values(<<d>>)[0 + 1] = LEN * Values(<<d>>)[0] + <<d>>[0 + 1]
  <2>1. 0 \in 0..(Len(<<d>>) - 1)
    BY <1>1
  <2> QED
    BY <1>1, <2>1, NextValue
<1>4. Values(<<d>>)[0] = 0
  BY <1>1, ValuesStep
<1>5. LEN * 0 = 0
  BY Base
<1> QED
  BY <1>1, <1>2, <1>3, <1>4, <1>5 DEF Number

\* What is added without a carry past the first digit keeps the length.
LEMMA AddFits ==
  ASSUME NEW a \in DigitKeys, NEW b \in DigitKeys, Len(b) <= Len(a),
         Number(a) + Number(b) < Power(Len(a))
  PROVE  /\ Add(a, b) \in DigitKeys /\ Len(Add(a, b)) = Len(a)
         /\ Number(Add(a, b)) = Number(a) + Number(b)
<1>1. /\ Len(a) \in Nat /\ Len(b) \in Nat /\ Number(a) \in Nat /\ Number(b) \in Nat
      /\ Power(Len(a)) \in Nat
  BY KeyType, NumberType, PowerType
<1>2. Longer(a, b) = Len(a)
  BY <1>1 DEF Longer
<1>3. Add(a, b) = Digits(Number(a) + Number(b), Len(a))
  BY <1>1, <1>2 DEF Add
<1> QED
  BY <1>1, <1>3, DigitsOfNumber

\* A number is encoded in as few digits as it takes.
LEMMA EncodeFits ==
  ASSUME NEW n \in Nat, NEW width \in Nat \ {0}, n < Power(width)
  PROVE  /\ Encode(n) \in DigitKeys /\ Number(Encode(n)) = n
         /\ Len(Encode(n)) <= width
<1> DEFINE Fits(w) == n < Power(w) /\ (w = 1 \/ n >= Power(w - 1))
           v == CHOOSE w \in 1..(n + 1) : Fits(w)
           S == {w \in 1..(n + 1) : n < Power(w)}
<1>1. \E w \in 1..(n + 1) : Fits(w)
  <2>1. n + 1 \in S
    <3>1. n + 1 \in Nat /\ n + 1 < Power(n + 1) /\ Power(n + 1) \in Nat
      BY PowerGrows, PowerType
    <3> QED
      BY <3>1
  <2>2. S \subseteq Nat /\ S # {}
    BY <2>1
  <2>3. PICK w \in S : \A u \in S : w <= u
    <3> HIDE DEF S
    <3> QED
      BY <2>2, LeastNat
  <2>4. w = 1 \/ n >= Power(w - 1)
    <3> SUFFICES ASSUME w # 1, ~(n >= Power(w - 1))
                 PROVE  FALSE
      OBVIOUS
    <3>1. w - 1 \in 1..(n + 1) /\ w - 1 \in Nat /\ ~(w <= w - 1)
      BY <2>3
    <3>2. Power(w - 1) \in Nat
      BY <3>1, PowerType
    <3>3. w - 1 \in S
      BY <3>1, <3>2
    <3> QED
      BY <2>3, <3>1, <3>3
  <2> QED
    BY <2>3, <2>4
<1>2. v \in 1..(n + 1) /\ Fits(v)
  <2> HIDE DEF Fits
  <2> QED
    BY <1>1
<1>3. Encode(n) = Digits(n, v)
  BY DEF Encode
<1> HIDE DEF v
<1>4. v \in Nat /\ n < Power(v)
  BY <1>2
<1>5. v <= width
  <2> SUFFICES ASSUME ~(v <= width)
               PROVE  FALSE
    OBVIOUS
  <2>1. v - 1 \in Nat /\ width <= v - 1 /\ v # 1
    BY <1>4
  <2>2. Power(width) <= Power(v - 1)
    BY <2>1, PowerGrows
  <2>3. Power(width) \in Nat /\ Power(v - 1) \in Nat
    BY <2>1, PowerType
  <2> QED
    BY <1>2, <2>1, <2>2, <2>3
<1> QED
  BY <1>3, <1>4, <1>5, DigitsOfNumber

\* A number is added to a key without a carry past its first digit.
LEMMA AddNumber ==
  ASSUME NEW a \in DigitKeys, a # <<>>, NEW n \in Nat, Number(a) + n < Power(Len(a))
  PROVE  /\ Add(a, Encode(n)) \in DigitKeys /\ Len(Add(a, Encode(n))) = Len(a)
         /\ Number(Add(a, Encode(n))) = Number(a) + n
<1>1. Len(a) \in Nat \ {0} /\ Number(a) \in Nat
  BY NumberType DEF DigitKeys
<1>2. n < Power(Len(a))
  BY <1>1, PowerType
<1> QED
  BY <1>1, <1>2, AddFits, EncodeFits

\* A key whose digits are not all the greatest is not the last of its length.
LEMMA NotAllGreatest ==
  ASSUME NEW a \in DigitKeys, NEW i \in 1..Len(a), a[i] # MOST_POSITIVE
  PROVE  Number(a) + 1 < Power(Len(a))
<1>1. Len(a) \in Nat /\ \A k \in 1..Len(a) : a[k] \in Nat /\ a[k] <= LEN - 1
  BY KeyType
<1> DEFINE m == [k \in 1..Len(a) |-> LEN - 1]
<1>2. m \in DigitKeys /\ Len(m) = Len(a) /\ \A k \in 1..Len(a) : m[k] = LEN - 1
  BY <1>1, Base DEF DigitKeys, Digit
<1> HIDE DEF m
<1>3. /\ Len(a) \in 0..Len(a) /\ Len(a) <= Len(m) /\ Len(m) \in Nat
      /\ a[i] # m[i]
  BY <1>1, <1>2, Base
<1>4. PICK k \in 1..Len(a) : a[k] # m[k] /\ \A j \in 1..(k - 1) : a[j] = m[j]
  BY <1>2, <1>3, FirstDifference
<1>5. a[k] < m[k]
  BY <1>1, <1>2, <1>4, Base
<1>6. Number(a) < Number(m)
  BY <1>2, <1>3, <1>4, <1>5, DifferenceDecides DEF Number
<1>7. Number(m) \in Nat /\ Number(a) \in Nat /\ Number(m) < Power(Len(a))
  BY <1>2, NumberType
<1>8. Power(Len(a)) \in Nat
  BY <1>1, PowerType
<1> QED
  BY <1>6, <1>7, <1>8

\* A key of which all digits are the greatest is the last.
LEMMA AllGreatest ==
  ASSUME NEW a \in DigitKeys, \A i \in 1..Len(a) : a[i] = MOST_POSITIVE
  PROVE  Number(a) = Power(Len(a)) - 1
<1>1. Len(a) \in Nat /\ Number(a) \in Nat /\ Number(a) < Power(Len(a))
      /\ Power(Len(a)) \in Nat
  BY KeyType, NumberType, PowerType
<1> DEFINE n == Power(Len(a)) - 1
           d == Digits(n, Len(a))
<1>2. n \in Nat /\ n < Power(Len(a))
  BY <1>1
<1>3. d \in DigitKeys /\ Len(d) = Len(a) /\ Number(d) = n
  BY <1>1, <1>2, DigitsOfNumber
<1> HIDE DEF d
<1>4. ASSUME NEW i \in 1..Len(a), d[i] # a[i]
      PROVE  FALSE
  <2>1. d[i] # MOST_POSITIVE /\ i \in 1..Len(d)
    BY <1>3, <1>4
  <2>2. Number(d) + 1 < Power(Len(d))
    BY <1>3, <2>1, NotAllGreatest
  <2> QED
    BY <1>1, <1>3, <2>2
<1>5. d = a
  BY <1>3, <1>4 DEF DigitKeys
<1> QED
  BY <1>3, <1>5

\* A key with a digit that is not zero has a number below its own.
LEMMA NotAllZero ==
  ASSUME NEW a \in DigitKeys, NEW i \in 1..Len(a), a[i] # 0
  PROVE  Number(a) >= 1
<1>1. Len(a) \in Nat /\ \A k \in 1..Len(a) : a[k] \in Nat
  BY KeyType
<1> DEFINE z == Zeros(Len(a))
<1>2. z \in DigitKeys /\ Len(z) = Len(a) /\ \A k \in 1..Len(a) : z[k] = 0
  BY <1>1, Base DEF DigitKeys, Digit, Zeros
<1> HIDE DEF z
<1>3. Len(z) \in 0..Len(z) /\ Len(z) <= Len(a) /\ z[i] # a[i] /\ i \in 1..Len(z)
  BY <1>1, <1>2
<1>4. PICK k \in 1..Len(z) : z[k] # a[k] /\ \A j \in 1..(k - 1) : z[j] = a[j]
  BY <1>2, <1>3, FirstDifference
<1>5. z[k] < a[k]
  BY <1>1, <1>2, <1>4
<1>6. Number(z) < Number(a)
  BY <1>2, <1>3, <1>4, <1>5, DifferenceDecides DEF Number
<1>7. Number(z) \in Nat /\ Number(a) \in Nat
  BY <1>2, NumberType
<1> QED
  BY <1>6, <1>7

\* A lesser number in the last places leaves the first places as they were.
LEMMA BeginningKept ==
  ASSUME NEW a \in DigitKeys, NEW k \in Nat, NEW r \in DigitKeys,
         Len(r) = Len(a) + k, NEW s \in Nat, s < Power(k),
         Number(r) = Number(a) * Power(k) + s
  PROVE  \A i \in 1..Len(a) : r[i] = a[i]
<1> DEFINE b == SubSeq(r, 1, Len(a))
           c == SubSeq(r, Len(a) + 1, Len(r))
<1>1. Len(a) \in Nat
  BY KeyType
<1>2. b \in DigitKeys /\ Len(b) = Len(a) /\ \A i \in 1..Len(a) : b[i] = r[i]
  BY <1>1 DEF DigitKeys
<1>3. c \in DigitKeys /\ Len(c) = k /\ \A i \in 1..k : c[i] = r[Len(a) + i]
  <2>1. Len(r) \in Nat /\ Len(a) + 1 \in Nat /\ Len(r) - (Len(a) + 1) + 1 = k
    BY <1>1
  <2>2. c \in DigitKeys /\ Len(c) = k
    BY <1>1, <2>1 DEF DigitKeys
  <2>3. \A i \in 1..k : c[i] = r[(Len(a) + 1) + i - 1]
    BY <1>1, <2>1 DEF DigitKeys
  <2>4. \A i \in 1..k : (Len(a) + 1) + i - 1 = Len(a) + i
    BY <1>1
  <2> QED
    BY <2>2, <2>3, <2>4
<1> HIDE DEF b, c
<1>4. r = b \o c
  <2>1. /\ b \o c \in DigitKeys /\ Len(b \o c) = Len(r)
        /\ \A i \in 1..Len(a) : (b \o c)[i] = b[i]
        /\ \A i \in 1..k : (b \o c)[Len(a) + i] = c[i]
    <3>1. /\ b \o c \in DigitKeys /\ Len(b \o c) = Len(b) + Len(c)
          /\ \A i \in 1..Len(b) : (b \o c)[i] = b[i]
          /\ \A i \in 1..Len(c) : (b \o c)[Len(b) + i] = c[i]
      BY <1>2, <1>3, NumberOfBoth
    <3> QED
      BY <1>2, <1>3, <3>1
  <2>2. ASSUME NEW i \in 1..Len(r)
        PROVE  (b \o c)[i] = r[i]
    <3>1. CASE i <= Len(a)
      BY <1>1, <1>2, <2>1, <3>1
    <3>2. CASE ~(i <= Len(a))
      <4>1. i - Len(a) \in 1..k /\ Len(a) + (i - Len(a)) = i
        BY <1>1, <3>2
      <4>2. (b \o c)[Len(a) + (i - Len(a))] = r[Len(a) + (i - Len(a))]
        BY <1>3, <2>1, <4>1
      <4> QED
        BY <4>1, <4>2
    <3> QED
      BY <3>1, <3>2
  <2> QED
    BY <2>1, <2>2 DEF DigitKeys
<1>5. Number(r) = Number(b) * Power(k) + Number(c)
  BY <1>2, <1>3, <1>4, NumberOfBoth
<1>6. /\ Number(a) \in Nat /\ Number(b) \in Nat /\ Number(c) \in Nat
      /\ Number(c) < Power(k) /\ Power(k) \in Nat
  BY <1>2, <1>3, NumberType, PowerType
<1>7. Number(a) = Number(b)
  <2>1. ASSUME NEW x \in Nat, NEW y \in Nat, NEW p \in Nat, NEW t \in Nat, NEW u \in Nat,
               x < y, t < p, y * p + u = x * p + t
        PROVE  FALSE
    <3>1. x + 1 \in Nat /\ x + 1 <= y
      BY <2>1
    <3>2. (x + 1) * p <= y * p /\ y * p \in Nat
      BY <3>1, ProductGrows
    <3>3. (x + 1) * p = x * p + p /\ x * p \in Nat
      OBVIOUS
    <3> QED
      BY <2>1, <3>2, <3>3
  <2>2. ~(Number(a) < Number(b))
    BY <1>5, <1>6, <2>1
  <2>3. ~(Number(b) < Number(a))
    BY <1>5, <1>6, <2>1
  <2> QED
    BY <1>6, <2>2, <2>3
<1>8. a = b
  BY <1>2, <1>7, NumberTells
<1> QED
  BY <1>2, <1>8

-----------------------------------------------------------------------------
\* Integers with a head of one digit.

\* Keys with the same digits are the same.
LEMMA SameKey ==
  ASSUME NEW a \in DigitKeys, NEW b \in DigitKeys, Len(a) = Len(b),
         \A i \in 1..Len(a) : a[i] = b[i]
  PROVE  a = b
BY DEF DigitKeys

\* Keys with a head of one digit.
PlainKeys ==
  {key \in DigitKeys :
     key # <<>> /\ MOST_NEGATIVE < key[1] /\ key[1] < MOST_POSITIVE}

\* The length of an integer with such a head.
Size(h) ==
  IF h >= FIRST_POSITIVE THEN h - FIRST_POSITIVE + 2 ELSE FIRST_NEGATIVE - h + 2

\* The integers among them.
PlainIntegers == {n \in PlainKeys : Len(n) = Size(n[1])}

\* What such a key is made of.
LEMMA PlainType ==
  ASSUME NEW key \in PlainKeys
  PROVE  /\ key \in DigitKeys /\ Len(key) \in Nat /\ Len(key) >= 1
         /\ key[1] \in Nat /\ key[1] \in Digit
         /\ MOST_NEGATIVE < key[1] /\ key[1] < MOST_POSITIVE
         /\ Size(key[1]) \in Nat /\ Size(key[1]) >= 2
<1>1. key \in DigitKeys /\ key # <<>>
      /\ MOST_NEGATIVE < key[1] /\ key[1] < MOST_POSITIVE
  BY DEF PlainKeys
<1>2. Len(key) \in Nat /\ Len(key) >= 1
  BY <1>1 DEF DigitKeys
<1>3. 1 \in 1..Len(key)
  BY <1>2
<1>4. key[1] \in Nat /\ key[1] <= LEN - 1
  BY <1>1, <1>3, KeyType
<1>5. key[1] \in Digit
  BY <1>4, Base DEF Digit
<1>6. Size(key[1]) \in Nat /\ Size(key[1]) >= 2
  BY <1>4, Base DEF Size
<1> QED
  BY <1>1, <1>2, <1>4, <1>5, <1>6

\* A key of one digit.
LEMMA HeadSize ==
  ASSUME NEW h \in Nat, MOST_NEGATIVE < h, h < MOST_POSITIVE
  PROVE  Size(h) \in Nat /\ Size(h) >= 2 /\ IntegerLength(<<h>>) = Size(h)
<1>1. Size(h) \in Nat /\ Size(h) >= 2
  BY Base DEF Size
<1>2. <<h>>[1] = h /\ h # MOST_NEGATIVE /\ h # MOST_POSITIVE
  BY Base
<1>3. Run(<<h>>) = 0
  BY <1>2 DEF Run
<1>4. IntegerLength(<<h>>)
        = Gap(h, IF h >= FIRST_POSITIVE THEN FIRST_POSITIVE ELSE FIRST_NEGATIVE) + 2
  BY <1>2, <1>3 DEF IntegerLength
<1>5. CASE h >= FIRST_POSITIVE
  BY <1>4, <1>5, Base DEF Gap, Size
<1>6. CASE ~(h >= FIRST_POSITIVE)
  BY <1>4, <1>6, Base DEF Gap, Size
<1> QED
  BY <1>1, <1>5, <1>6

\* The head and the integer of a key with such a head.
LEMMA PlainHead ==
  ASSUME NEW key \in PlainKeys
  PROVE  /\ IntegerHead(key) = <<key[1]>>
         /\ IntegerLength(IntegerHead(key)) = Size(key[1])
         /\ Valid(key) <=> Size(key[1]) <= Len(key)
<1>1. /\ key \in DigitKeys /\ Len(key) \in Nat /\ Len(key) >= 1 /\ key[1] \in Nat
      /\ MOST_NEGATIVE < key[1] /\ key[1] < MOST_POSITIVE
  BY PlainType
<1>2. key[1] # MOST_NEGATIVE /\ key[1] # MOST_POSITIVE
  BY <1>1, Base
<1>3. Run(key) = 0
  BY <1>2 DEF Run
<1>4. IntegerHead(key) = SubSeq(key, 1, 1)
  <2>1. 0 < Len(key)
    BY <1>1
  <2> QED
    BY <1>3, <2>1 DEF IntegerHead
<1>5. SubSeq(key, 1, 1) = <<key[1]>>
  <2>1. /\ SubSeq(key, 1, 1) \in DigitKeys /\ Len(SubSeq(key, 1, 1)) = 1
        /\ SubSeq(key, 1, 1)[1] = key[1]
    BY <1>1 DEF DigitKeys
  <2>2. <<key[1]>> \in DigitKeys /\ Len(<<key[1]>>) = 1 /\ <<key[1]>>[1] = key[1]
    BY PlainType, OneDigit
  <2>3. \A i \in 1..1 : SubSeq(key, 1, 1)[i] = <<key[1]>>[i]
    BY <2>1, <2>2
  <2> QED
    BY <2>1, <2>2, <2>3, SameKey
<1>6. IntegerLength(<<key[1]>>) = Size(key[1])
  BY <1>1, HeadSize
<1> QED
  BY <1>4, <1>5, <1>6 DEF Valid

\* The integer that it begins with.
LEMMA PlainInteger ==
  ASSUME NEW key \in PlainKeys, Valid(key)
  PROVE  /\ IntegerPart(key) \in PlainIntegers
         /\ Len(IntegerPart(key)) = Size(key[1]) /\ Size(key[1]) <= Len(key)
         /\ \A i \in 1..Size(key[1]) : IntegerPart(key)[i] = key[i]
         /\ IntegerPart(key)[1] = key[1]
<1>1. /\ key \in DigitKeys /\ Len(key) \in Nat /\ Size(key[1]) \in Nat
      /\ Size(key[1]) >= 2 /\ Size(key[1]) <= Len(key)
  BY PlainType, PlainHead
<1> DEFINE s == Size(key[1])
           n == SubSeq(key, 1, s)
<1>2. IntegerPart(key) = n
  BY PlainHead DEF IntegerPart
<1>3. s \in Nat /\ s >= 2 /\ s <= Len(key)
  BY <1>1
<1> HIDE DEF s
<1>4. n \in DigitKeys /\ Len(n) = s
  BY <1>1, <1>3 DEF DigitKeys
<1>5. \A i \in 1..s : n[i] = key[i]
  BY <1>1, <1>3 DEF DigitKeys
<1>6. n # <<>> /\ n[1] = key[1]
  BY <1>3, <1>4, <1>5
<1> HIDE DEF n
<1>7. n \in PlainKeys
  BY <1>4, <1>6, PlainType DEF PlainKeys
<1>8. n \in PlainIntegers
  BY <1>4, <1>6, <1>7 DEF PlainIntegers, s
<1> QED
  BY <1>1, <1>2, <1>4, <1>5, <1>6, <1>8 DEF s

\* An integer is its own integer part.
LEMMA IntegerOfInteger ==
  ASSUME NEW n \in PlainIntegers
  PROVE  n \in PlainKeys /\ Valid(n) /\ IntegerPart(n) = n /\ Len(n) = Size(n[1])
<1>1. n \in PlainKeys /\ Len(n) = Size(n[1])
  BY DEF PlainIntegers
<1>2. n \in DigitKeys /\ Len(n) \in Nat
  BY <1>1, PlainType
<1>3. Valid(n)
  BY <1>1, <1>2, PlainHead
<1>4. IntegerPart(n) = SubSeq(n, 1, Len(n))
  BY <1>1, PlainHead DEF IntegerPart
<1>5. SubSeq(n, 1, Len(n)) = n
  BY <1>2 DEF DigitKeys
<1> QED
  BY <1>1, <1>3, <1>4, <1>5

\* A key is its first digit and the others.
LEMMA HeadAndDigits ==
  ASSUME NEW key \in DigitKeys, key # <<>>
  PROVE  LET others == SubSeq(key, 2, Len(key)) IN
         /\ others \in DigitKeys /\ Len(others) = Len(key) - 1
         /\ key[1] \in Digit
         /\ key = <<key[1]>> \o others
         /\ \A i \in 1..(Len(key) - 1) : others[i] = key[i + 1]
         /\ Number(key) = key[1] * Power(Len(key) - 1) + Number(others)
<1> DEFINE others == SubSeq(key, 2, Len(key))
<1>1. Len(key) \in Nat /\ Len(key) >= 1
  BY DEF DigitKeys
<1>2. key[1] \in Digit
  BY <1>1 DEF DigitKeys
<1>3. others \in DigitKeys /\ Len(others) = Len(key) - 1
  <2>1. CASE Len(key) = 1
    BY <1>1, <2>1 DEF DigitKeys
  <2>2. CASE Len(key) >= 2
    BY <1>1, <2>2 DEF DigitKeys
  <2>3. Len(key) = 1 \/ Len(key) >= 2
    BY <1>1
  <2> QED
    BY <2>1, <2>2, <2>3
<1>4. \A i \in 1..(Len(key) - 1) : others[i] = key[i + 1]
  <2>1. \A i \in 1..(Len(key) - 1) : others[i] = key[2 + i - 1]
    BY <1>1 DEF DigitKeys
  <2>2. \A i \in 1..(Len(key) - 1) : 2 + i - 1 = i + 1
    OBVIOUS
  <2> QED
    BY <2>1, <2>2
<1> HIDE DEF others
<1> DEFINE both == <<key[1]>> \o others
<1>5. <<key[1]>> \in DigitKeys /\ Len(<<key[1]>>) = 1 /\ Number(<<key[1]>>) = key[1]
  BY <1>2, OneDigit
<1>6. /\ both \in DigitKeys /\ Len(both) = 1 + (Len(key) - 1)
      /\ \A i \in 1..1 : both[i] = <<key[1]>>[i]
      /\ \A i \in 1..(Len(key) - 1) : both[1 + i] = others[i]
      /\ Number(both) = key[1] * Power(Len(key) - 1) + Number(others)
  <2>1. /\ both \in DigitKeys /\ Len(both) = Len(<<key[1]>>) + Len(others)
        /\ \A i \in 1..Len(<<key[1]>>) : both[i] = <<key[1]>>[i]
        /\ \A i \in 1..Len(others) : both[Len(<<key[1]>>) + i] = others[i]
        /\ Number(both) = Number(<<key[1]>>) * Power(Len(others)) + Number(others)
    BY <1>3, <1>5, NumberOfBoth
  <2> QED
    BY <1>3, <1>5, <2>1
<1> HIDE DEF both
<1>7. ASSUME NEW i \in 1..Len(key)
      PROVE  both[i] = key[i]
  <2>1. CASE i = 1
    BY <1>6, <2>1
  <2>2. CASE i # 1
    <3>1. i - 1 \in 1..(Len(key) - 1) /\ 1 + (i - 1) = i /\ (i - 1) + 1 = i
      BY <1>1, <2>2
    <3>2. both[1 + (i - 1)] = key[(i - 1) + 1]
      BY <1>4, <1>6, <3>1
    <3> QED
      BY <3>1, <3>2
  <2> QED
    BY <2>1, <2>2
<1>8. Len(both) = Len(key)
  BY <1>1, <1>6
<1>9. both = key
  BY <1>6, <1>7, <1>8 DEF DigitKeys
<1> QED
  BY <1>2, <1>3, <1>4, <1>6, <1>9 DEF both, others

-----------------------------------------------------------------------------
\* The next integer and the one before.

\* The first integer with a head of one digit, or the last.
LEMMA StartOnHead ==
  ASSUME NEW h \in Nat, MOST_NEGATIVE < h, h < MOST_POSITIVE, NEW d \in Digit
  PROVE  /\ StartOn(<<h>>, d) \in PlainIntegers
         /\ Len(StartOn(<<h>>, d)) = Size(h) /\ StartOn(<<h>>, d)[1] = h
         /\ \A i \in 2..Size(h) : StartOn(<<h>>, d)[i] = d
<1>1. Size(h) \in Nat /\ Size(h) >= 2 /\ IntegerLength(<<h>>) = Size(h)
  BY HeadSize
<1>2. h \in Digit
  BY Base DEF Digit
<1>3. <<h>> \in DigitKeys /\ Len(<<h>>) = 1 /\ <<h>>[1] = h
  BY <1>2, OneDigit
<1> DEFINE s == Size(h)
           f == [i \in 1..(s - 1) |-> d]
           n == <<h>> \o f
<1>4. StartOn(<<h>>, d) = n
  BY <1>1, <1>3 DEF StartOn
<1>5. s \in Nat /\ s >= 2
  BY <1>1
<1> HIDE DEF s
<1>6. f \in DigitKeys /\ Len(f) = s - 1 /\ \A i \in 1..(s - 1) : f[i] = d
  BY <1>5 DEF DigitKeys
<1> HIDE DEF f
<1>7. /\ n \in DigitKeys /\ Len(n) = Len(<<h>>) + Len(f)
      /\ \A i \in 1..Len(<<h>>) : n[i] = <<h>>[i]
      /\ \A i \in 1..Len(f) : n[Len(<<h>>) + i] = f[i]
  BY <1>3, <1>6, NumberOfBoth
<1> HIDE DEF n
<1>8. Len(n) = s /\ n[1] = h
  BY <1>3, <1>5, <1>6, <1>7
<1>9. ASSUME NEW i \in 2..s
      PROVE  n[i] = d
  <2>1. i - 1 \in 1..(s - 1) /\ 1 + (i - 1) = i
    BY <1>5
  <2>2. n[1 + (i - 1)] = f[i - 1]
    BY <1>3, <1>6, <1>7, <2>1
  <2> QED
    BY <1>6, <2>1, <2>2
<1>10. n # <<>>
  BY <1>5, <1>8
<1>11. n \in PlainKeys
  BY <1>7, <1>8, <1>10 DEF PlainKeys
<1>12. n \in PlainIntegers
  BY <1>8, <1>11 DEF PlainIntegers, s
<1> QED
  BY <1>4, <1>8, <1>9, <1>12 DEF s

\* The heads next to a head.
LEMMA NextHeadPlain ==
  ASSUME NEW h \in Nat, MOST_NEGATIVE < h, h <= MOST_POSITIVE - 2
  PROVE  NextHead(<<h>>) = <<h + 1>>
<1>1. h \in Digit /\ h + 1 \in Digit /\ 1 \in Digit
  BY Base DEF Digit
<1>2. /\ <<h>> \in DigitKeys /\ Len(<<h>>) = 1 /\ Number(<<h>>) = h
      /\ <<1>> \in DigitKeys /\ Len(<<1>>) = 1 /\ Number(<<1>>) = 1
      /\ <<h + 1>> \in DigitKeys /\ Len(<<h + 1>>) = 1 /\ Number(<<h + 1>>) = h + 1
  BY <1>1, OneDigit
<1>3. h + 1 < Power(1)
  BY <1>1, SmallPowers, Base
<1>4. /\ Increment(<<h>>) \in DigitKeys /\ Len(Increment(<<h>>)) = 1
      /\ Number(Increment(<<h>>)) = h + 1
  <2>1. /\ Len(<<1>>) <= Len(<<h>>)
        /\ Number(<<h>>) + Number(<<1>>) < Power(Len(<<h>>))
    BY <1>2, <1>3
  <2>2. /\ Add(<<h>>, <<1>>) \in DigitKeys /\ Len(Add(<<h>>, <<1>>)) = Len(<<h>>)
        /\ Number(Add(<<h>>, <<1>>)) = Number(<<h>>) + Number(<<1>>)
    BY <1>2, <2>1, AddFits
  <2> QED
    BY <1>2, <2>2 DEF Increment
<1>5. Increment(<<h>>) = <<h + 1>>
  BY <1>2, <1>4, NumberTells
<1>6. Last(<<h + 1>>) = h + 1 /\ Last(<<h>>) = h
  BY DEF Last
<1>7. h + 1 # MOST_POSITIVE /\ h # MOST_POSITIVE
  BY Base
<1> QED
  BY <1>5, <1>6, <1>7 DEF NextHead

\* The head before a head.
LEMMA PreviousHeadPlain ==
  ASSUME NEW h \in Nat, MOST_NEGATIVE < h, h < MOST_POSITIVE
  PROVE  PreviousHead(<<h>>) = <<h - 1>>
<1>1. h \in Digit /\ h - 1 \in Digit /\ h - 1 \in Nat
  BY Base DEF Digit
<1>2. /\ <<h>> \in DigitKeys /\ Len(<<h>>) = 1 /\ Number(<<h>>) = h
      /\ <<h - 1>> \in DigitKeys /\ Len(<<h - 1>>) = 1 /\ Number(<<h - 1>>) = h - 1
  BY <1>1, OneDigit
<1>3. h - 1 < Power(1)
  BY <1>1, SmallPowers, Base
<1>4. Decrement(<<h>>) = Digits(h - 1, 1)
  BY <1>2 DEF Decrement
<1>5. /\ Digits(h - 1, 1) \in DigitKeys /\ Len(Digits(h - 1, 1)) = 1
      /\ Number(Digits(h - 1, 1)) = h - 1
  BY <1>1, <1>3, DigitsOfNumber
<1>6. Digits(h - 1, 1) = <<h - 1>>
  BY <1>2, <1>5, NumberTells
<1>7. Last(<<h>>) = h /\ h # MOST_NEGATIVE
  BY Base DEF Last
<1> QED
  BY <1>4, <1>6, <1>7 DEF PreviousHead

\* The digits after the head of an integer.
LEMMA IntegerDigits ==
  ASSUME NEW n \in PlainIntegers
  PROVE  /\ IntegerHead(n) = <<n[1]>> /\ <<n[1]>> \in DigitKeys /\ Number(<<n[1]>>) = n[1]
         /\ DigitsOf(n) \in DigitKeys /\ Len(DigitsOf(n)) = Len(n) - 1
         /\ Len(n) = Size(n[1]) /\ Len(n) \in Nat /\ Len(n) >= 2
         /\ \A i \in 1..(Len(n) - 1) : DigitsOf(n)[i] = n[i + 1]
         /\ Number(n) = n[1] * Power(Len(n) - 1) + Number(DigitsOf(n))
<1>1. n \in PlainKeys /\ Len(n) = Size(n[1])
  BY DEF PlainIntegers
<1>2. /\ n \in DigitKeys /\ Len(n) \in Nat /\ n[1] \in Digit /\ Size(n[1]) >= 2
      /\ n # <<>>
  BY <1>1, PlainType DEF PlainKeys
<1>3. IntegerHead(n) = <<n[1]>> /\ Len(<<n[1]>>) = 1 /\ 1 + 1 = 2
  BY <1>1, PlainHead
<1>4. DigitsOf(n) = SubSeq(n, 2, Len(n))
  BY <1>3 DEF DigitsOf
<1>5. <<n[1]>> \in DigitKeys /\ Number(<<n[1]>>) = n[1]
  BY <1>2, OneDigit
<1>6. /\ SubSeq(n, 2, Len(n)) \in DigitKeys /\ Len(SubSeq(n, 2, Len(n))) = Len(n) - 1
      /\ \A i \in 1..(Len(n) - 1) : SubSeq(n, 2, Len(n))[i] = n[i + 1]
      /\ Number(n) = n[1] * Power(Len(n) - 1) + Number(SubSeq(n, 2, Len(n)))
  BY <1>2, HeadAndDigits
<1> QED
  BY <1>1, <1>2, <1>3, <1>4, <1>5, <1>6

\* A head before digits.
LEMMA WithHead ==
  ASSUME NEW h \in Digit, NEW d \in DigitKeys
  PROVE  /\ <<h>> \o d \in DigitKeys /\ Len(<<h>> \o d) = 1 + Len(d)
         /\ (<<h>> \o d)[1] = h /\ <<h>> \o d # <<>>
         /\ Number(<<h>> \o d) = h * Power(Len(d)) + Number(d)
<1>1. <<h>> \in DigitKeys /\ Len(<<h>>) = 1 /\ Number(<<h>>) = h /\ <<h>>[1] = h
  BY OneDigit
<1> DEFINE n == <<h>> \o d
<1>2. /\ n \in DigitKeys /\ Len(n) = Len(<<h>>) + Len(d)
      /\ \A i \in 1..Len(<<h>>) : n[i] = <<h>>[i]
      /\ Number(n) = Number(<<h>>) * Power(Len(d)) + Number(d)
  BY <1>1, NumberOfBoth
<1> HIDE DEF n
<1>3. Len(d) \in Nat
  BY KeyType
<1>4. Len(n) = 1 + Len(d) /\ n[1] = h
  BY <1>1, <1>2
<1>5. n # <<>>
  BY <1>3, <1>4
<1> QED
  BY <1>1, <1>2, <1>4, <1>5 DEF n

\* The next integer is one more, or the first with the next head.
LEMMA NextOfInteger ==
  ASSUME NEW n \in PlainIntegers,
         n[1] <= MOST_POSITIVE - 2 \/ n[2] # MOST_POSITIVE
  PROVE  /\ NextInteger(n) \in PlainIntegers
         /\ \/ /\ NextInteger(n)[1] = n[1] /\ Len(NextInteger(n)) = Len(n)
               /\ Number(NextInteger(n)) = Number(n) + 1
            \/ /\ NextInteger(n)[1] = n[1] + 1
               /\ n[1] <= MOST_POSITIVE - 2
               /\ \A i \in 2..Len(n) : n[i] = MOST_POSITIVE
               /\ \A i \in 2..Len(NextInteger(n)) : NextInteger(n)[i] = 0
<1> DEFINE d == DigitsOf(n)
           h == n[1]
<1>1. /\ IntegerHead(n) = <<h>> /\ d \in DigitKeys /\ Len(d) = Len(n) - 1
      /\ Len(n) = Size(h) /\ Len(n) \in Nat /\ Len(n) >= 2
      /\ \A i \in 1..(Len(n) - 1) : d[i] = n[i + 1]
      /\ Number(n) = h * Power(Len(d)) + Number(d)
  BY IntegerDigits
<1>2. /\ n \in PlainKeys /\ h \in Nat /\ h \in Digit
      /\ MOST_NEGATIVE < h /\ h < MOST_POSITIVE
  BY PlainType DEF PlainIntegers
<1>3. DOMAIN d = 1..Len(d)
  BY <1>1 DEF DigitKeys
<1>4. NextInteger(n) = IF \E i \in DOMAIN d : d[i] # MOST_POSITIVE
                       THEN <<h>> \o Increment(d) ELSE StartOn(NextHead(<<h>>), 0)
  BY <1>1 DEF NextInteger
<1> HIDE DEF d, h
<1>5. CASE \E i \in DOMAIN d : d[i] # MOST_POSITIVE
  <2>1. PICK i \in 1..Len(d) : d[i] # MOST_POSITIVE
    BY <1>3, <1>5
  <2>2. Number(d) + 1 < Power(Len(d))
    BY <1>1, <2>1, NotAllGreatest
  <2>3. 1 \in Digit
    BY Base DEF Digit
  <2>4. <<1>> \in DigitKeys /\ Len(<<1>>) = 1 /\ Number(<<1>>) = 1
    BY <2>3, OneDigit
  <2>5. Len(<<1>>) <= Len(d)
    BY <1>1, <2>4
  <2>6. /\ Increment(d) \in DigitKeys /\ Len(Increment(d)) = Len(d)
        /\ Number(Increment(d)) = Number(d) + 1
    BY <1>1, <2>2, <2>4, <2>5, AddFits DEF Increment
  <2> DEFINE m == <<h>> \o Increment(d)
  <2>7. /\ m \in DigitKeys /\ Len(m) = 1 + Len(d) /\ m[1] = h /\ m # <<>>
        /\ Number(m) = h * Power(Len(d)) + Number(Increment(d))
    BY <1>2, <2>6, WithHead
  <2> HIDE DEF m
  <2>8. Number(d) \in Nat /\ Power(Len(d)) \in Nat
    BY <1>1, NumberType, PowerType
  <2>9. h * Power(Len(d)) \in Nat
    BY <1>2, <2>8
  <2>10. Number(m) = Number(n) + 1
    BY <1>1, <2>6, <2>7, <2>8, <2>9
  <2>11. Len(m) = Len(n)
    BY <1>1, <2>7
  <2>12. m \in PlainIntegers
    BY <1>1, <1>2, <2>7, <2>11 DEF PlainIntegers, PlainKeys
  <2>13. NextInteger(n) = m
    BY <1>4, <1>5 DEF m
  <2> QED
    BY <2>7, <2>10, <2>11, <2>12, <2>13 DEF h
<1>6. CASE ~(\E i \in DOMAIN d : d[i] # MOST_POSITIVE)
  <2>1. \A i \in 2..Len(n) : n[i] = MOST_POSITIVE
    <3>1. ASSUME NEW i \in 2..Len(n)
          PROVE  n[i] = MOST_POSITIVE
      <4>1. i - 1 \in 1..(Len(n) - 1) /\ (i - 1) + 1 = i /\ i - 1 \in DOMAIN d
        BY <1>1, <1>3
      <4>2. d[i - 1] = MOST_POSITIVE /\ d[i - 1] = n[(i - 1) + 1]
        BY <1>1, <1>6, <4>1
      <4> QED
        BY <4>1, <4>2
    <3> QED
      BY <3>1
  <2>2. h <= MOST_POSITIVE - 2
    <3>1. 2 \in 2..Len(n)
      BY <1>1
    <3> QED
      BY <2>1, <3>1 DEF h
  <2>3. NextHead(<<h>>) = <<h + 1>>
    BY <1>2, <2>2, NextHeadPlain
  <2>4. h + 1 \in Nat /\ MOST_NEGATIVE < h + 1 /\ h + 1 < MOST_POSITIVE /\ 0 \in Digit
    BY <1>2, <2>2, Base DEF Digit
  <2> DEFINE m == StartOn(<<h + 1>>, 0)
  <2>5. /\ m \in PlainIntegers /\ Len(m) = Size(h + 1) /\ m[1] = h + 1
        /\ \A i \in 2..Size(h + 1) : m[i] = 0
    BY <2>4, StartOnHead
  <2> HIDE DEF m
  <2>6. NextInteger(n) = m
    BY <1>4, <1>6, <2>3 DEF m
  <2> QED
    BY <2>1, <2>2, <2>5, <2>6 DEF h
<1> QED
  BY <1>5, <1>6

\* The integer before is one less, or the last with the head before.
LEMMA PreviousOfInteger ==
  ASSUME NEW n \in PlainIntegers, n[1] >= MOST_NEGATIVE + 2
  PROVE  /\ PreviousInteger(n) \in PlainIntegers
         /\ \/ /\ PreviousInteger(n)[1] = n[1] /\ Len(PreviousInteger(n)) = Len(n)
               /\ Number(PreviousInteger(n)) = Number(n) - 1 /\ Number(n) >= 1
            \/ PreviousInteger(n)[1] = n[1] - 1
<1> DEFINE d == DigitsOf(n)
           h == n[1]
<1>1. /\ IntegerHead(n) = <<h>> /\ d \in DigitKeys /\ Len(d) = Len(n) - 1
      /\ Len(n) = Size(h) /\ Len(n) \in Nat /\ Len(n) >= 2
      /\ Number(n) = h * Power(Len(d)) + Number(d)
  BY IntegerDigits
<1>2. /\ n \in PlainKeys /\ h \in Nat /\ h \in Digit
      /\ MOST_NEGATIVE < h /\ h < MOST_POSITIVE
  BY PlainType DEF PlainIntegers
<1>3. DOMAIN d = 1..Len(d)
  BY <1>1 DEF DigitKeys
<1>4. PreviousInteger(n) = IF \E i \in DOMAIN d : d[i] # 0
                           THEN <<h>> \o Decrement(d)
                           ELSE StartOn(PreviousHead(<<h>>), LEN - 1)
  BY <1>1 DEF PreviousInteger
<1>5. h >= MOST_NEGATIVE + 2
  OBVIOUS
<1> HIDE DEF d, h
<1>6. CASE \E i \in DOMAIN d : d[i] # 0
  <2>1. PICK i \in 1..Len(d) : d[i] # 0
    BY <1>3, <1>6
  <2>2. Number(d) >= 1 /\ Number(d) \in Nat /\ Number(d) < Power(Len(d))
        /\ Power(Len(d)) \in Nat /\ Len(d) \in Nat
    BY <1>1, <2>1, NotAllZero, NumberType, KeyType, PowerType
  <2>3. Number(d) - 1 \in Nat /\ Number(d) - 1 < Power(Len(d))
    BY <2>2
  <2>4. /\ Decrement(d) \in DigitKeys /\ Len(Decrement(d)) = Len(d)
        /\ Number(Decrement(d)) = Number(d) - 1
    BY <2>2, <2>3, DigitsOfNumber DEF Decrement
  <2> DEFINE m == <<h>> \o Decrement(d)
  <2>5. /\ m \in DigitKeys /\ Len(m) = 1 + Len(d) /\ m[1] = h /\ m # <<>>
        /\ Number(m) = h * Power(Len(d)) + Number(Decrement(d))
    BY <1>2, <2>4, WithHead
  <2> HIDE DEF m
  <2>6. h * Power(Len(d)) \in Nat
    BY <1>2, <2>2
  <2>7. Number(m) = Number(n) - 1 /\ Number(n) >= 1
    BY <1>1, <2>2, <2>4, <2>5, <2>6
  <2>8. Len(m) = Len(n)
    BY <1>1, <2>5
  <2>9. m \in PlainIntegers
    BY <1>1, <1>2, <2>5, <2>8 DEF PlainIntegers, PlainKeys
  <2>10. PreviousInteger(n) = m
    BY <1>4, <1>6 DEF m
  <2> QED
    BY <2>5, <2>7, <2>8, <2>9, <2>10 DEF h
<1>7. CASE ~(\E i \in DOMAIN d : d[i] # 0)
  <2>1. PreviousHead(<<h>>) = <<h - 1>>
    BY <1>2, PreviousHeadPlain
  <2>2. h - 1 \in Nat /\ MOST_NEGATIVE < h - 1 /\ h - 1 < MOST_POSITIVE
        /\ LEN - 1 \in Digit
    BY <1>2, <1>5, Base DEF Digit
  <2> DEFINE m == StartOn(<<h - 1>>, LEN - 1)
  <2>3. m \in PlainIntegers /\ m[1] = h - 1
    BY <2>2, StartOnHead
  <2> HIDE DEF m
  <2>4. PreviousInteger(n) = m
    BY <1>4, <1>7, <2>1 DEF m
  <2> QED
    BY <2>3, <2>4 DEF h
<1> QED
  BY <1>6, <1>7

-----------------------------------------------------------------------------
\* Order and distance of integers.

\* Two keys differ first at place i, where a has the lesser digit.
LessAt(a, b, i) ==
  /\ i \in 1..Len(a) /\ i \in 1..Len(b)
  /\ a[i] < b[i]
  /\ \A j \in 1..(i - 1) : a[j] = b[j]

\* A key begins with another one.
BeginsWith(key, beginning) ==
  /\ Len(beginning) <= Len(key)
  /\ \A i \in 1..Len(beginning) : key[i] = beginning[i]

\* Of keys of one length the one with the lesser number has the lesser digit.
LEMMA LesserNumber ==
  ASSUME NEW a \in DigitKeys, NEW b \in DigitKeys, Len(a) = Len(b), Number(a) < Number(b)
  PROVE  \E i \in 1..Len(a) : LessAt(a, b, i)
<1>1. /\ Len(a) \in Nat /\ Len(a) \in 0..Len(a) /\ Len(b) <= Len(a)
      /\ Len(a) \in 0..Len(b) /\ Len(a) <= Len(b)
      /\ Number(a) \in Nat /\ Number(b) \in Nat
  BY KeyType, NumberType
<1>2. \E i \in 1..Len(a) : a[i] # b[i]
  <2>1. a # b
    BY <1>1
  <2> QED
    BY <2>1, SameKey
<1>3. PICK i \in 1..Len(a) : a[i] # b[i] /\ \A j \in 1..(i - 1) : a[j] = b[j]
  BY <1>1, <1>2, FirstDifference
<1>4. a[i] \in Nat /\ b[i] \in Nat
  BY KeyType
<1>5. ~(b[i] < a[i])
  <2> SUFFICES ASSUME b[i] < a[i]
               PROVE  FALSE
    OBVIOUS
  <2>1. \A j \in 1..(i - 1) : b[j] = a[j]
    BY <1>3
  <2>2. Values(b)[Len(a)] < Values(a)[Len(a)]
    BY <1>1, <2>1, DifferenceDecides
  <2> QED
    BY <1>1, <2>2 DEF Number
<1> QED
  BY <1>3, <1>4, <1>5 DEF LessAt

\* The order is decided whatever follows.
LEMMA LessWhateverFollows ==
  ASSUME NEW a \in DigitKeys, NEW b \in DigitKeys, NEW i, LessAt(a, b, i),
         NEW c \in DigitKeys, NEW d \in DigitKeys, BeginsWith(c, a), BeginsWith(d, b)
  PROVE  Before(c, d)
<1>1. Len(a) \in Nat /\ Len(b) \in Nat /\ Len(c) \in Nat /\ Len(d) \in Nat
  BY KeyType
<1>2. i \in 1..Len(c) /\ i \in 1..Len(d) /\ i <= Len(c) + 1
  BY <1>1 DEF LessAt, BeginsWith
<1>3. \A j \in 1..i : j \in 1..Len(a) /\ j \in 1..Len(b)
  BY <1>1 DEF LessAt
<1>4. \A j \in 1..i : c[j] = a[j] /\ d[j] = b[j]
  BY <1>3 DEF BeginsWith
<1>5. i \in 1..i /\ \A j \in 1..(i - 1) : j \in 1..i
  BY <1>2
<1>6. DecidedAt(c, d, i)
  BY <1>2, <1>4, <1>5 DEF DecidedAt, LessAt
<1> QED
  BY <1>2, <1>6, OrderDecided

\* The first digits have the order of the keys.
LEMMA FirstDigits ==
  ASSUME NEW a \in DigitKeys, NEW b \in DigitKeys, a # <<>>, Before(a, b)
  PROVE  a[1] <= b[1] /\ b # <<>>
<1>1. Len(a) \in Nat /\ Len(a) >= 1 /\ Len(b) \in Nat
  BY DEF DigitKeys
<1>2. PICK i \in 1..Len(b) : DecidedAt(a, b, i)
  BY OrderDecided
<1>3. 1 \in 1..Len(a) /\ 1 \in 1..Len(b)
  BY <1>1, <1>2
<1>4. a[1] \in Nat /\ b[1] \in Nat
  BY <1>3, KeyType
<1>5. CASE i = 1
  BY <1>1, <1>2, <1>4, <1>5 DEF DecidedAt
<1>6. CASE i # 1
  <2>1. 1 \in 1..(i - 1)
    BY <1>6
  <2>2. a[1] = b[1]
    BY <1>2, <2>1 DEF DecidedAt
  <2> QED
    BY <1>3, <1>4, <2>2
<1> QED
  BY <1>3, <1>5, <1>6

\* An integer comes before the next one ...
LEMMA NextLater ==
  ASSUME NEW n \in PlainIntegers,
         n[1] <= MOST_POSITIVE - 2 \/ n[2] # MOST_POSITIVE
  PROVE  \E i \in 1..Len(n) : LessAt(n, NextInteger(n), i)
<1> DEFINE m == NextInteger(n)
<1>1. /\ m \in PlainIntegers
      /\ \/ m[1] = n[1] /\ Len(m) = Len(n) /\ Number(m) = Number(n) + 1
         \/ m[1] = n[1] + 1
  BY NextOfInteger
<1> HIDE DEF m
<1>2. /\ m \in DigitKeys /\ n \in DigitKeys /\ n[1] \in Nat /\ Number(n) \in Nat
      /\ Len(m) \in Nat /\ Len(m) >= 1 /\ Len(n) \in Nat /\ Len(n) >= 1
  <2>1. m \in PlainKeys /\ n \in PlainKeys
    BY <1>1 DEF PlainIntegers
  <2> QED
    BY <2>1, PlainType, NumberType
<1>3. CASE Len(m) = Len(n) /\ Number(m) = Number(n) + 1
  <2>1. Number(n) < Number(m)
    BY <1>2, <1>3
  <2>2. \E i \in 1..Len(n) : LessAt(n, m, i)
    BY <1>2, <1>3, <2>1, LesserNumber
  <2> QED
    BY <2>2 DEF m
<1>4. CASE m[1] = n[1] + 1
  <2>1. LessAt(n, m, 1) /\ 1 \in 1..Len(n)
    BY <1>2, <1>4 DEF LessAt
  <2> QED
    BY <2>1 DEF m
<1> QED
  BY <1>1, <1>3, <1>4

\* ... and after the one before.
LEMMA PreviousEarlier ==
  ASSUME NEW n \in PlainIntegers, n[1] >= MOST_NEGATIVE + 2
  PROVE  \E i \in 1..Len(PreviousInteger(n)) : LessAt(PreviousInteger(n), n, i)
<1> DEFINE m == PreviousInteger(n)
<1>1. /\ m \in PlainIntegers
      /\ \/ m[1] = n[1] /\ Len(m) = Len(n) /\ Number(m) = Number(n) - 1 /\ Number(n) >= 1
         \/ m[1] = n[1] - 1
  BY PreviousOfInteger
<1> HIDE DEF m
<1>2. /\ m \in DigitKeys /\ n \in DigitKeys /\ n[1] \in Nat /\ m[1] \in Nat
      /\ Number(n) \in Nat
      /\ Len(m) \in Nat /\ Len(m) >= 1 /\ Len(n) \in Nat /\ Len(n) >= 1
  <2>1. m \in PlainKeys /\ n \in PlainKeys
    BY <1>1 DEF PlainIntegers
  <2> QED
    BY <2>1, PlainType, NumberType
<1>3. CASE Len(m) = Len(n) /\ Number(m) = Number(n) - 1
  <2>1. Number(m) < Number(n)
    BY <1>2, <1>3
  <2>2. \E i \in 1..Len(m) : LessAt(m, n, i)
    BY <1>2, <1>3, <2>1, LesserNumber
  <2> QED
    BY <2>2 DEF m
<1>4. CASE m[1] = n[1] - 1
  <2>1. LessAt(m, n, 1) /\ 1 \in 1..Len(m)
    BY <1>2, <1>4 DEF LessAt
  <2> QED
    BY <2>1 DEF m
<1> QED
  BY <1>1, <1>3, <1>4

\* Zeros stand for zero.
LEMMA AllZero ==
  ASSUME NEW a \in DigitKeys, \A i \in 1..Len(a) : a[i] = 0
  PROVE  Number(a) = 0
<1>1. Len(a) \in Nat /\ Len(a) \in 0..Len(a) /\ 0 \in 0..Len(a) /\ Len(a) - 0 = Len(a)
  BY KeyType
<1>2. \A i \in (0 + 1)..Len(a) : a[i] = 0
  OBVIOUS
<1>3. Values(a)[Len(a)] = Values(a)[0] * Power(Len(a) - 0)
  BY <1>1, <1>2, ValuesZeros
<1>4. Values(a)[0] = 0 /\ Power(Len(a)) \in Nat
  BY <1>1, ValuesStep, PowerType
<1>5. 0 * Power(Len(a)) = 0
  BY <1>4
<1> QED
  BY <1>1, <1>3, <1>4, <1>5 DEF Number

\* The distance between two keys is a number; without its limit it is the
\* difference of the padded numbers.
Difference(a, b) ==
  LET width == Longer(a, b)
      m == Number(PadTo(a, width))
      n == Number(PadTo(b, width))
  IN IF m <= n THEN n - m ELSE m - n

\* The distance is the difference, up to the limit.
LEMMA DistanceType ==
  ASSUME NEW a \in DigitKeys, NEW b \in DigitKeys
  PROVE  /\ Longer(a, b) \in Nat /\ Len(a) <= Longer(a, b) /\ Len(b) <= Longer(a, b)
         /\ Number(PadTo(a, Longer(a, b))) \in Nat
         /\ Number(PadTo(b, Longer(a, b))) \in Nat
         /\ Difference(a, b) \in Nat /\ Distance(a, b) \in Nat
         /\ Distance(a, b) <= Difference(a, b)
         /\ Difference(a, b) <= MaxNumber => Distance(a, b) = Difference(a, b)
         /\ Difference(a, b) > MaxNumber => Distance(a, b) = MaxNumber
<1>1. Len(a) \in Nat /\ Len(b) \in Nat
  BY KeyType
<1>2. Longer(a, b) \in Nat /\ Len(a) <= Longer(a, b) /\ Len(b) <= Longer(a, b)
  BY <1>1 DEF Longer
<1>3. PadTo(a, Longer(a, b)) \in DigitKeys /\ PadTo(b, Longer(a, b)) \in DigitKeys
  BY <1>2, Padded
<1>4. Number(PadTo(a, Longer(a, b))) \in Nat /\ Number(PadTo(b, Longer(a, b))) \in Nat
  BY <1>3, NumberType
<1>5. Difference(a, b) \in Nat
  BY <1>4 DEF Difference
<1>6. Distance(a, b) = IF Difference(a, b) <= MaxNumber THEN Difference(a, b) ELSE MaxNumber
  BY DEF Distance, Difference
<1>7. MaxNumber \in Nat
  BY DigitConstants
<1> QED
  BY <1>2, <1>4, <1>5, <1>6, <1>7

-----------------------------------------------------------------------------
\* The room for the shift.

\* The range of the shift has room in three digits, with the greatest distance
\* to the next integer taken off it not in two.
LEMMA JitterRange ==
  /\ JITTER_RANGE \in Nat /\ JITTER_RANGE < Power(3) /\ JITTER_RANGE < MaxNumber
  /\ MaxNumber \in Nat
  /\ Power(2) + LEN <= JITTER_RANGE /\ Power(2) \in Nat
<1>1. LEN \in Nat /\ LEN >= 6
  BY Base
<1> DEFINE square == LEN * LEN
           cube == LEN * LEN * LEN
<1>2. square \in Nat /\ square >= 6 * LEN
  BY <1>1
<1>3. cube \in Nat /\ cube = square * LEN
  BY <1>1, <1>2
<1>4. square * LEN >= square * 6
  <2> HIDE DEF square
  <2> QED
    BY <1>1, <1>2, ProductGrows
<1> HIDE DEF square, cube
<1>5. JITTER_RANGE = cube \div 5
  BY DigitConstants DEF cube
<1>6. cube >= 5 * (square + LEN)
  BY <1>1, <1>2, <1>3, <1>4
<1>7. cube \div 5 \in Nat /\ cube \div 5 >= square + LEN
  BY <1>1, <1>2, <1>3, <1>6
<1>8. cube \div 5 < cube
  BY <1>1, <1>2, <1>3, <1>6
<1>9. Power(2) = square /\ Power(3) = cube
  BY SmallPowers DEF square, cube
<1>10. JITTER_RANGE < MaxNumber /\ MaxNumber \in Nat
  BY DigitConstants
<1> QED
  BY <1>2, <1>5, <1>7, <1>8, <1>9, <1>10

\* The padding makes room for the shift, and never takes more than three digits.
LEMMA PaddingMakesRoom ==
  ASSUME NEW d \in Nat
  PROVE  LET gap == IF d < JITTER_RANGE THEN JITTER_RANGE - d ELSE 0 IN
         /\ PaddingFor(d) \in 0..3
         /\ Power(PaddingFor(d)) > gap
         /\ gap >= Power(2) => PaddingFor(d) = 3
<1> DEFINE gap == IF d < JITTER_RANGE THEN JITTER_RANGE - d ELSE 0
           Fits(i) == Power(i) > gap /\ (i = 0 \/ Power(i - 1) <= gap)
           v == CHOOSE i \in 0..12 : Fits(i)
           S == {i \in 0..3 : Power(i) > gap}
<1>1. gap \in Nat /\ gap < Power(3) /\ Power(3) \in Nat
  <2>1. gap \in Nat /\ gap <= JITTER_RANGE
    BY JitterRange
  <2>2. Power(3) \in Nat
    BY PowerType
  <2> HIDE DEF gap
  <2> QED
    BY <2>1, <2>2, JitterRange
<1>2. PaddingFor(d) = v
  BY DEF PaddingFor
<1> HIDE DEF gap
<1>3. \E i \in 0..12 : Fits(i)
  <2>1. 3 \in S
    BY <1>1
  <2>2. S \subseteq Nat /\ S # {}
    BY <2>1
  <2>3. PICK i \in S : \A u \in S : i <= u
    <3> HIDE DEF S
    <3> QED
      BY <2>2, LeastNat
  <2>4. i = 0 \/ Power(i - 1) <= gap
    <3> SUFFICES ASSUME i # 0, ~(Power(i - 1) <= gap)
                 PROVE  FALSE
      OBVIOUS
    <3>1. i - 1 \in 0..3 /\ i - 1 \in Nat /\ ~(i <= i - 1)
      BY <2>3
    <3>2. Power(i - 1) \in Nat
      BY <3>1, PowerType
    <3>3. i - 1 \in S
      BY <1>1, <3>1, <3>2
    <3> QED
      BY <2>3, <3>1, <3>3
  <2> QED
    BY <2>3, <2>4
<1>4. v \in 0..12 /\ Fits(v)
  <2> HIDE DEF Fits
  <2> QED
    BY <1>3
<1> HIDE DEF v
<1>5. v <= 3
  <2> SUFFICES ASSUME ~(v <= 3)
               PROVE  FALSE
    OBVIOUS
  <2>1. v - 1 \in Nat /\ 3 <= v - 1 /\ v # 0
    BY <1>4
  <2>2. Power(3) <= Power(v - 1) /\ Power(v - 1) \in Nat
    BY <2>1, PowerGrows, PowerType
  <2> QED
    BY <1>1, <1>4, <2>1, <2>2
<1>6. ASSUME gap >= Power(2)
      PROVE  v = 3
  <2> SUFFICES ASSUME v <= 2
               PROVE  FALSE
    BY <1>4, <1>5
  <2>1. v \in Nat /\ 2 \in Nat
    BY <1>4
  <2>2. Power(v) <= Power(2) /\ Power(v) \in Nat /\ Power(2) \in Nat
    BY <2>1, PowerGrows, PowerType
  <2> QED
    BY <1>1, <1>4, <1>6, <2>2
<1> QED
  BY <1>2, <1>4, <1>5, <1>6 DEF gap

\* The distance from an integer to the next is one, or the base.
LEMMA NextDistance ==
  ASSUME NEW n \in PlainIntegers,
         n[1] <= MOST_POSITIVE - 2 \/ n[2] # MOST_POSITIVE
  PROVE  Distance(n, NextInteger(n)) \in {1, LEN}
<1> DEFINE m == NextInteger(n)
           h == n[1]
           l == Len(n)
           w == Longer(n, m)
<1>1. /\ m \in PlainIntegers
      /\ \/ m[1] = h /\ Len(m) = l /\ Number(m) = Number(n) + 1
         \/ /\ m[1] = h + 1
            /\ \A i \in 2..l : n[i] = MOST_POSITIVE
            /\ \A i \in 2..Len(m) : m[i] = 0
  BY NextOfInteger
<1> HIDE DEF m
<1>2. m \in PlainKeys /\ n \in PlainKeys /\ Len(m) = Size(m[1]) /\ l = Size(h)
  BY <1>1 DEF PlainIntegers
<1>3. /\ m \in DigitKeys /\ n \in DigitKeys /\ h \in Nat /\ m[1] \in Nat
      /\ l \in Nat /\ l >= 2 /\ Len(m) \in Nat /\ Len(m) >= 2
      /\ Number(n) \in Nat /\ Number(m) \in Nat
  BY <1>2, PlainType, NumberType
<1>4. /\ w \in Nat /\ l <= w /\ Len(m) <= w
      /\ w = IF l >= Len(m) THEN l ELSE Len(m)
  BY <1>3 DEF Longer
<1>5. /\ Number(PadTo(n, w)) = Number(n) * Power(w - l)
      /\ Number(PadTo(m, w)) = Number(m) * Power(w - Len(m))
  BY <1>3, <1>4, Padded
<1>6. Power(0) = 1 /\ Power(1) = LEN /\ LEN \in Nat /\ LEN >= 6
  BY PowerZero, SmallPowers, Base
<1> SUFFICES Difference(n, m) \in {1, LEN}
  <2>1. 1 <= MaxNumber /\ LEN <= MaxNumber
    BY JitterRange, <1>6
  <2>2. Difference(n, m) <= MaxNumber
    BY <2>1
  <2>3. Distance(n, m) = Difference(n, m)
    BY <1>3, <2>2, DistanceType
  <2> QED
    BY <2>3 DEF m
<1>7. Difference(n, m) = IF Number(PadTo(n, w)) <= Number(PadTo(m, w))
                         THEN Number(PadTo(m, w)) - Number(PadTo(n, w))
                         ELSE Number(PadTo(n, w)) - Number(PadTo(m, w))
  BY DEF Difference
<1>8. CASE Len(m) = l /\ Number(m) = Number(n) + 1
  <2>1. w = l /\ w - l = 0 /\ w - Len(m) = 0
    BY <1>3, <1>4, <1>8
  <2>2. Number(PadTo(n, w)) = Number(n) /\ Number(PadTo(m, w)) = Number(n) + 1
    BY <1>3, <1>5, <1>6, <1>8, <2>1
  <2> QED
    BY <1>3, <1>7, <2>2
<1>9. CASE /\ m[1] = h + 1
           /\ \A i \in 2..l : n[i] = MOST_POSITIVE
           /\ \A i \in 2..Len(m) : m[i] = 0
  <2> DEFINE p == Power(l - 1)
             q == Power(Len(m) - 1)
  <2>1. Number(n) = h * p + (p - 1) /\ p \in Nat /\ p >= 1
    <3>1. /\ DigitsOf(n) \in DigitKeys /\ Len(DigitsOf(n)) = l - 1
          /\ \A i \in 1..(l - 1) : DigitsOf(n)[i] = n[i + 1]
          /\ Number(n) = h * p + Number(DigitsOf(n))
      BY IntegerDigits
    <3>2. \A i \in 1..(l - 1) : i + 1 \in 2..l
      BY <1>3
    <3>3. \A i \in 1..Len(DigitsOf(n)) : DigitsOf(n)[i] = MOST_POSITIVE
      BY <1>9, <3>1, <3>2
    <3>4. Number(DigitsOf(n)) = Power(Len(DigitsOf(n))) - 1
      BY <3>1, <3>3, AllGreatest
    <3>5. p \in Nat /\ p >= 1
      <4>1. l - 1 \in Nat
        BY <1>3
      <4> QED
        BY <4>1, PowerType
    <3> QED
      BY <3>1, <3>4, <3>5
  <2>2. Number(m) = (h + 1) * q /\ q \in Nat
    <3>1. /\ DigitsOf(m) \in DigitKeys /\ Len(DigitsOf(m)) = Len(m) - 1
          /\ \A i \in 1..(Len(m) - 1) : DigitsOf(m)[i] = m[i + 1]
          /\ Number(m) = m[1] * q + Number(DigitsOf(m))
      BY <1>1, IntegerDigits
    <3>2. \A i \in 1..(Len(m) - 1) : i + 1 \in 2..Len(m)
      BY <1>3
    <3>3. \A i \in 1..Len(DigitsOf(m)) : DigitsOf(m)[i] = 0
      BY <1>9, <3>1, <3>2
    <3>4. Number(DigitsOf(m)) = 0
      BY <3>1, <3>3, AllZero
    <3>5. q \in Nat
      <4>1. Len(m) - 1 \in Nat
        BY <1>3
      <4> QED
        BY <4>1, PowerType
    <3>6. (h + 1) * q \in Nat
      BY <1>3, <3>5
    <3>7. Number(m) = (h + 1) * q + 0
      BY <1>9, <3>1, <3>4
    <3> HIDE DEF q
    <3> QED
      BY <3>5, <3>6, <3>7
  <2>3. h * p + (p - 1) = (h + 1) * p - 1 /\ (h + 1) * p \in Nat /\ (h + 1) * p >= 1
    <3>1. (h + 1) * p = h * p + p /\ h * p \in Nat
      BY <1>3, <2>1
    <3> QED
      BY <2>1, <3>1
  <2>4. \/ Len(m) = l + 1
        \/ Len(m) = l
        \/ Len(m) = l - 1 /\ l >= 3
    <3>1. Len(m) = Size(h + 1) /\ l = Size(h)
      BY <1>2, <1>9
    <3> HIDE DEF h, l
    <3>2. Size(h + 1) = IF h + 1 >= FIRST_POSITIVE THEN h + 1 - FIRST_POSITIVE + 2
                                                   ELSE FIRST_NEGATIVE - (h + 1) + 2
      BY <1>3, Base DEF Size
    <3>3. Size(h) = IF h >= FIRST_POSITIVE THEN h - FIRST_POSITIVE + 2
                                           ELSE FIRST_NEGATIVE - h + 2
      BY DEF Size
    <3> QED
      BY <1>3, <3>1, <3>2, <3>3, Base
  <2>5. CASE Len(m) = l + 1
    <3>1. w - l = 1 /\ w - Len(m) = 0 /\ Len(m) - 1 = (l - 1) + 1 /\ l - 1 \in Nat
      BY <1>3, <1>4, <2>5
    <3>2. q = LEN * p
      BY <3>1, PowerNext
    <3>3. Number(PadTo(n, w)) = ((h + 1) * p - 1) * LEN
      BY <1>5, <1>6, <2>1, <2>3, <3>1
    <3>4. Number(PadTo(m, w)) = ((h + 1) * (LEN * p)) * 1
      BY <1>5, <1>6, <2>2, <3>1, <3>2
    <3> DEFINE x == (h + 1) * p
    <3>5. (h + 1) * (LEN * p) = x * LEN
      BY <1>3, <1>6, <2>1
    <3>6. x \in Nat /\ x >= 1
      BY <2>3
    <3> HIDE DEF x
    <3>7. (x - 1) * LEN = x * LEN - LEN /\ x * LEN \in Nat /\ (x - 1) * LEN \in Nat
      BY <1>6, <3>6
    <3>8. Number(PadTo(n, w)) = x * LEN - LEN /\ Number(PadTo(m, w)) = x * LEN
      <4>1. Number(PadTo(n, w)) = (x - 1) * LEN
        BY <3>3 DEF x
      <4>2. Number(PadTo(m, w)) = (x * LEN) * 1
        BY <3>4, <3>5
      <4> QED
        BY <3>7, <4>1, <4>2
    <3> QED
      BY <1>6, <1>7, <3>7, <3>8
  <2>6. CASE Len(m) = l
    <3>1. w - l = 0 /\ w - Len(m) = 0 /\ q = p
      BY <1>3, <1>4, <2>6
    <3> DEFINE x == (h + 1) * p
    <3>2. x \in Nat /\ x >= 1
      BY <2>3
    <3>3. Number(PadTo(n, w)) = (x - 1) * 1 /\ Number(PadTo(m, w)) = x * 1
      BY <1>5, <1>6, <2>1, <2>2, <2>3, <3>1
    <3> HIDE DEF x
    <3> QED
      BY <1>7, <3>2, <3>3
  <2>7. CASE Len(m) = l - 1 /\ l >= 3
    <3>1. /\ w - l = 0 /\ w - Len(m) = 1 /\ l - 1 = (Len(m) - 1) + 1
          /\ Len(m) - 1 \in Nat
      BY <1>3, <1>4, <2>7
    <3>2. p = LEN * q
      BY <3>1, PowerNext
    <3> DEFINE x == (h + 1) * p
    <3>3. ((h + 1) * q) * LEN = x
      BY <1>3, <1>6, <2>2, <3>2
    <3>4. x \in Nat /\ x >= 1
      BY <2>3
    <3>5. Number(PadTo(n, w)) = (x - 1) * 1
      BY <1>5, <1>6, <2>1, <2>3, <3>1
    <3>6. Number(PadTo(m, w)) = x
      BY <1>5, <1>6, <2>2, <3>1, <3>3
    <3> HIDE DEF x
    <3> QED
      BY <1>7, <3>4, <3>5, <3>6
  <2> QED
    BY <2>4, <2>5, <2>6, <2>7
<1> QED
  BY <1>1, <1>8, <1>9

-----------------------------------------------------------------------------
\* Keys at the ends.

\* The padding has at most three digits.
LEMMA PaddingType ==
  ASSUME NEW key \in DigitKeys, NEW bound \in DigitKeys
  PROVE  PaddingUpTo(key, bound) \in 0..3
<1>1. Distance(key, bound) \in Nat
  BY DistanceType
<1>2. PaddingFor(Distance(key, bound)) \in 0..3
  BY <1>1, PaddingMakesRoom
<1> QED
  BY <1>2 DEF PaddingUpTo

\* Up to the next integer an integer gets three digits for the shift.
LEMMA IntegerPadding ==
  ASSUME NEW n \in PlainIntegers,
         n[1] <= MOST_POSITIVE - 2 \/ n[2] # MOST_POSITIVE,
         NEW upper \in DigitKeys \cup {None}
  PROVE  Padding(n, upper) = 3
<1>1. IntegerPart(n) = n /\ n \in PlainKeys
  BY IntegerOfInteger
<1>2. n \in DigitKeys
  BY <1>1, PlainType
<1> DEFINE d == Distance(n, NextInteger(n))
<1>3. d \in {1, LEN}
  BY NextDistance
<1> HIDE DEF d
<1>4. PaddingFor(d) = 3 /\ ~(d > JITTER_RANGE)
  <2>1. d \in Nat /\ d <= LEN
    BY <1>3, Base
  <2>2. d < JITTER_RANGE /\ JITTER_RANGE - d >= Power(2)
    <3>1. Power(2) >= 1
      BY PowerType
    <3> QED
      BY <2>1, <3>1, Base, JitterRange
  <2>3. PaddingFor(d) = 3
    BY <2>1, <2>2, PaddingMakesRoom
  <2> QED
    BY <2>1, <2>2, <2>3, JitterRange
<1>5. PaddingUpTo(n, NextInteger(IntegerPart(n))) = 3
  BY <1>1, <1>4 DEF PaddingUpTo, d
<1>6. (IF upper = None THEN 0 ELSE PaddingUpTo(n, upper)) \in 0..3
  BY <1>2, PaddingType
<1> QED
  BY <1>5, <1>6 DEF Padding

\* A shifted integer begins with the integer.
LEMMA ShiftedInteger ==
  ASSUME NEW n \in PlainIntegers,
         n[1] <= MOST_POSITIVE - 2 \/ n[2] # MOST_POSITIVE,
         NEW lower, NEW upper \in DigitKeys \cup {None},
         KeyBetween(lower, upper) = n,
         NEW shift \in 0..(JITTER_RANGE - 1)
  PROVE  /\ Jittered(lower, upper, shift) \in PlainKeys
         /\ Len(Jittered(lower, upper, shift)) = Len(n) + 3
         /\ BeginsWith(Jittered(lower, upper, shift), n)
         /\ Jittered(lower, upper, shift)[1] = n[1]
         /\ Valid(Jittered(lower, upper, shift))
<1>1. n \in PlainKeys /\ Len(n) = Size(n[1])
  BY DEF PlainIntegers
<1>2. n \in DigitKeys /\ Len(n) \in Nat /\ Len(n) >= 1
      /\ MOST_NEGATIVE < n[1] /\ n[1] < MOST_POSITIVE
  BY <1>1, PlainType
<1> DEFINE a == n \o Zeros(3)
           r == Add(a, Encode(shift))
<1>3. Jittered(lower, upper, shift) = r
  BY IntegerPadding DEF Jittered
<1>4. a \in DigitKeys /\ Len(a) = Len(n) + 3 /\ Number(a) = Number(n) * Power(3)
  BY <1>2, WithZeros
<1> HIDE DEF a
<1>5. shift \in Nat /\ shift < Power(3) /\ Power(3) \in Nat
  BY JitterRange, PowerType
<1>6. Number(a) + shift < Power(Len(a))
  <2>1. Number(n) \in Nat /\ Number(n) < Power(Len(n)) /\ Power(Len(n)) \in Nat
    BY <1>2, NumberType, PowerType
  <2>2. Number(n) + 1 \in Nat /\ Number(n) + 1 <= Power(Len(n))
    BY <2>1
  <2>3. (Number(n) + 1) * Power(3) <= Power(Len(n)) * Power(3)
    BY <1>5, <2>1, <2>2, ProductGrows
  <2>4. (Number(n) + 1) * Power(3) = Number(n) * Power(3) + Power(3)
    BY <1>5, <2>1
  <2>5. Power(Len(n) + 3) = Power(Len(n)) * Power(3)
    BY <1>2, PowerSum
  <2>6. Number(n) * Power(3) \in Nat /\ Power(Len(n)) * Power(3) \in Nat
    BY <1>5, <2>1
  <2> QED
    BY <1>4, <1>5, <2>3, <2>4, <2>5, <2>6
<1>7. a # <<>>
  BY <1>2, <1>4
<1>8. /\ r \in DigitKeys /\ Len(r) = Len(n) + 3
      /\ Number(r) = Number(n) * Power(3) + shift
  BY <1>4, <1>5, <1>6, <1>7, AddNumber
<1> HIDE DEF r
<1>9. \A i \in 1..Len(n) : r[i] = n[i]
  BY <1>2, <1>5, <1>8, BeginningKept
<1>10. BeginsWith(r, n) /\ r[1] = n[1] /\ r # <<>>
  BY <1>2, <1>8, <1>9 DEF BeginsWith
<1>11. r \in PlainKeys
  BY <1>2, <1>8, <1>10 DEF PlainKeys
<1>12. Valid(r)
  <2>1. Size(r[1]) <= Len(r)
    BY <1>1, <1>2, <1>8, <1>10
  <2> QED
    BY <1>11, <2>1, PlainHead
<1> QED
  BY <1>3, <1>8, <1>10, <1>11, <1>12

\* A key is no mark for the lack of a bound.
LEMMA KeyNotNone ==
  ASSUME NEW key \in DigitKeys
  PROVE  key # None
BY DigitConstants DEF DigitKeys

\* A key begins with its integer.
LEMMA BeginsWithInteger ==
  ASSUME NEW key \in PlainKeys, Valid(key)
  PROVE  BeginsWith(key, IntegerPart(key))
BY PlainInteger DEF BeginsWith

\* The heads that have heads of one digit on both sides.
OrdinaryHead(h) == MOST_NEGATIVE + 2 <= h /\ h <= MOST_POSITIVE - 2

\* A key after the greatest: it begins with the next integer.
LEMMA JitteredAfter ==
  ASSUME NEW lower \in PlainKeys, Valid(lower), OrdinaryHead(lower[1]),
         NEW shift \in 0..(JITTER_RANGE - 1)
  PROVE  LET r == Jittered(lower, None, shift) IN
         /\ r \in PlainKeys /\ Valid(r) /\ Before(lower, r)
         /\ Len(r) = Len(IntegerPart(r)) + 3
<1> DEFINE m == IntegerPart(lower)
           n == NextInteger(m)
           r == Jittered(lower, None, shift)
<1>1. m \in PlainIntegers /\ m[1] = lower[1] /\ BeginsWith(lower, m)
  BY PlainInteger, BeginsWithInteger
<1>2. m[1] <= MOST_POSITIVE - 2
  BY <1>1 DEF OrdinaryHead
<1>3. lower \in DigitKeys /\ lower # None
  BY PlainType, KeyNotNone
<1>4. KeyBetween(lower, None) = n
  BY <1>3 DEF KeyBetween
<1> HIDE DEF m
<1>5. /\ n \in PlainIntegers
      /\ \/ n[1] = m[1]
         \/ n[1] = m[1] + 1 /\ \A i \in 2..Len(n) : n[i] = 0
  BY <1>1, <1>2, NextOfInteger
<1>6. PICK i \in 1..Len(m) : LessAt(m, n, i)
  BY <1>1, <1>2, NextLater
<1> HIDE DEF n
<1>7. m \in PlainKeys /\ n \in PlainKeys /\ Len(n) = Size(n[1])
  BY <1>1, <1>5 DEF PlainIntegers
<1>8. m \in DigitKeys /\ n \in DigitKeys /\ Len(n) >= 2 /\ Len(n) \in Nat
  BY <1>7, PlainType
<1>9. n[1] <= MOST_POSITIVE - 2 \/ n[2] # MOST_POSITIVE
  <2>1. CASE n[1] = m[1]
    BY <1>2, <2>1
  <2>2. CASE \A k \in 2..Len(n) : n[k] = 0
    <3>1. n[2] = 0 /\ MOST_POSITIVE # 0
      BY <1>8, <2>2, Base
    <3> QED
      BY <3>1
  <2> QED
    BY <1>5, <2>1, <2>2
<1>10. /\ r \in PlainKeys /\ Len(r) = Len(n) + 3 /\ BeginsWith(r, n)
       /\ r[1] = n[1] /\ Valid(r)
  BY <1>4, <1>5, <1>9, ShiftedInteger
<1> HIDE DEF r
<1>11. r \in DigitKeys
  BY <1>10, PlainType
<1>12. Before(lower, r)
  BY <1>1, <1>3, <1>6, <1>8, <1>10, <1>11, LessWhateverFollows
<1>13. Len(IntegerPart(r)) = Len(n)
  BY <1>7, <1>10, PlainInteger
<1> QED
  BY <1>10, <1>12, <1>13 DEF r

\* A key before the least: it begins with the integer before.
LEMMA JitteredBefore ==
  ASSUME NEW upper \in PlainKeys, Valid(upper), OrdinaryHead(upper[1]),
         NEW shift \in 0..(JITTER_RANGE - 1)
  PROVE  LET r == Jittered(None, upper, shift) IN
         r \in PlainKeys /\ Valid(r) /\ Before(r, upper)
<1> DEFINE m == IntegerPart(upper)
           n == PreviousInteger(m)
           r == Jittered(None, upper, shift)
<1>1. m \in PlainIntegers /\ m[1] = upper[1] /\ BeginsWith(upper, m)
  BY PlainInteger, BeginsWithInteger
<1>2. m[1] <= MOST_POSITIVE - 2 /\ m[1] >= MOST_NEGATIVE + 2 /\ m[1] \in Nat
  BY <1>1, PlainType, Base DEF OrdinaryHead
<1>3. upper \in DigitKeys /\ upper # None
  BY PlainType, KeyNotNone
<1>4. KeyBetween(None, upper) = n
  BY <1>3 DEF KeyBetween
<1> HIDE DEF m
<1>5. n \in PlainIntegers /\ (n[1] = m[1] \/ n[1] = m[1] - 1)
  BY <1>1, <1>2, PreviousOfInteger
<1>6. PICK i \in 1..Len(n) : LessAt(n, m, i)
  BY <1>1, <1>2, PreviousEarlier
<1> HIDE DEF n
<1>7. m \in DigitKeys /\ n \in DigitKeys
  <2>1. m \in PlainKeys /\ n \in PlainKeys
    BY <1>1, <1>5 DEF PlainIntegers
  <2> QED
    BY <2>1, PlainType
<1>8. n[1] <= MOST_POSITIVE - 2
  BY <1>2, <1>5, Base
<1>9. r \in PlainKeys /\ BeginsWith(r, n) /\ Valid(r)
  BY <1>3, <1>4, <1>5, <1>8, ShiftedInteger
<1> HIDE DEF r
<1>10. r \in DigitKeys
  BY <1>9, PlainType
<1>11. Before(r, upper)
  BY <1>1, <1>3, <1>6, <1>7, <1>9, <1>10, LessWhateverFollows
<1> QED
  BY <1>9, <1>11 DEF r

\* The key of the first page.
LEMMA JitteredFirst ==
  ASSUME NEW shift \in 0..(JITTER_RANGE - 1)
  PROVE  Jittered(None, None, shift) \in PlainKeys /\ Valid(Jittered(None, None, shift))
<1> DEFINE n == <<FIRST_POSITIVE, 0>>
<1>1. n \in DigitKeys /\ Len(n) = 2 /\ n[1] = FIRST_POSITIVE /\ n[2] = 0 /\ n # <<>>
  BY Base DEF DigitKeys, Digit
<1>2. KeyBetween(None, None) = n
  BY DEF KeyBetween
<1> HIDE DEF n
<1>3. n \in PlainKeys
  BY <1>1, Base DEF PlainKeys
<1>4. Size(n[1]) = 2
  BY <1>1, Base DEF Size
<1>5. n \in PlainIntegers /\ n[2] # MOST_POSITIVE
  BY <1>1, <1>3, <1>4, Base DEF PlainIntegers
<1> QED
  BY <1>2, <1>5, ShiftedInteger

-----------------------------------------------------------------------------
\* Keys between others.

\* Padding further multiplies.
LEMMA PaddedFurther ==
  ASSUME NEW key \in DigitKeys, NEW width \in Nat, Len(key) <= width, NEW k \in Nat
  PROVE  Number(PadTo(key, width + k)) = Number(PadTo(key, width)) * Power(k)
<1>1. Len(key) \in Nat /\ Number(key) \in Nat
  BY KeyType, NumberType
<1> DEFINE i == width - Len(key)
<1>2. i \in Nat /\ (width + k) - Len(key) = i + k
      /\ width + k \in Nat /\ Len(key) <= width + k
  BY <1>1
<1>3. Number(PadTo(key, width)) = Number(key) * Power(i)
  BY Padded
<1>4. Number(PadTo(key, width + k)) = Number(key) * Power(i + k)
  BY <1>2, Padded
<1> HIDE DEF i
<1>5. Power(i + k) = Power(i) * Power(k) /\ Power(i) \in Nat /\ Power(k) \in Nat
  BY <1>2, PowerSum, PowerType
<1>6. \A x, y, z \in Nat : x * (y * z) = (x * y) * z
  OBVIOUS
<1> QED
  BY <1>1, <1>3, <1>4, <1>5, <1>6

\* A key padded to its own length.
LEMMA PaddedToItself ==
  ASSUME NEW key \in DigitKeys
  PROVE  Number(PadTo(key, Len(key))) = Number(key)
<1>1. Len(key) \in Nat /\ Len(key) - Len(key) = 0 /\ Number(key) \in Nat
  BY KeyType, NumberType
<1>2. Number(PadTo(key, Len(key))) = Number(key) * Power(0)
  BY <1>1, Padded
<1> QED
  BY <1>1, <1>2, PowerZero

\* The difference of two keys in order.
LEMMA OrderedDifference ==
  ASSUME NEW a \in DigitKeys, NEW b \in DigitKeys, Before(a, b)
  PROVE  Number(PadTo(b, Longer(a, b))) = Number(PadTo(a, Longer(a, b))) + Difference(a, b)
<1>1. /\ Longer(a, b) \in Nat /\ Len(a) <= Longer(a, b) /\ Len(b) <= Longer(a, b)
      /\ Number(PadTo(a, Longer(a, b))) \in Nat
      /\ Number(PadTo(b, Longer(a, b))) \in Nat
  BY DistanceType
<1>2. Number(PadTo(a, Longer(a, b))) <= Number(PadTo(b, Longer(a, b)))
  BY <1>1, NumbersInOrder
<1> QED
  BY <1>1, <1>2 DEF Difference

\* mid_point: between the bounds, if there is a number between; the lower one
\* padded, if there is none.
LEMMA MidPointBetween ==
  ASSUME NEW lower \in DigitKeys, NEW upper \in DigitKeys, lower # <<>>,
         Before(lower, upper)
  PROVE  LET key == MidPoint(lower, upper)
             w == Longer(lower, upper)
             m == Number(PadTo(lower, w))
             n == Number(PadTo(upper, w))
         IN /\ key \in DigitKeys /\ key # <<>>
            /\ Difference(lower, upper) = 0 => Len(key) = w /\ Number(key) = m
            /\ Difference(lower, upper) # 0 =>
                 \E k \in Nat : /\ Len(key) = w + k
                                /\ m * Power(k) < Number(key)
                                /\ Number(key) < n * Power(k)
<1> DEFINE key == MidPoint(lower, upper)
           w == Longer(lower, upper)
           a == PadTo(lower, w)
           m == Number(a)
           n == Number(PadTo(upper, w))
           D == Difference(lower, upper)
           d == Distance(lower, upper)
<1>1. /\ w \in Nat /\ Len(lower) <= w /\ Len(upper) <= w /\ m \in Nat /\ n \in Nat
      /\ D \in Nat /\ d \in Nat /\ d <= D
      /\ D <= MaxNumber => d = D
      /\ D > MaxNumber => d = MaxNumber
  BY DistanceType
<1>2. n = m + D
  BY OrderedDifference
<1>3. a \in DigitKeys /\ Len(a) = w
  BY <1>1, Padded
<1>4. n < Power(w) /\ Power(w) \in Nat
  <2>1. PadTo(upper, w) \in DigitKeys /\ Len(PadTo(upper, w)) = w
    BY <1>1, Padded
  <2>2. Power(w) \in Nat
    BY <1>1, PowerType
  <2> QED
    BY <2>1, <2>2, NumberType
<1>5. w >= 1
  <2>1. Len(lower) \in Nat /\ Len(lower) >= 1
    BY DEF DigitKeys
  <2> QED
    BY <1>1, <2>1
<1>6. MaxNumber >= 2 /\ MaxNumber \in Nat
  BY JitterRange, Base
<1>7. d = 1 <=> D = 1
  BY <1>1, <1>6
<1>8. key = IF d = 1 THEN Add(Append(a, 0), Encode(LEN \div 2)) ELSE Add(a, Encode(d \div 2))
  BY DEF MidPoint
<1> HIDE DEF key, w, a, n, D, d
<1>9. CASE d = 1
  <2> DEFINE c == Append(a, 0)
             e == LEN \div 2
  <2>1. e \in Nat /\ 0 < e /\ e < LEN
    BY Base
  <2>2. /\ a \o Zeros(1) \in DigitKeys /\ Len(a \o Zeros(1)) = w + 1
        /\ \A i \in 1..w : (a \o Zeros(1))[i] = a[i]
        /\ \A i \in (w + 1)..(w + 1) : (a \o Zeros(1))[i] = 0
        /\ Number(a \o Zeros(1)) = m * Power(1)
    <3>1. 1 \in Nat
      OBVIOUS
    <3> QED
      BY <1>3, <3>1, WithZeros
  <2>3. c \in DigitKeys /\ Len(c) = w + 1 /\ Number(c) = m * Power(1)
    <3>1. 0 \in Digit
      BY Base DEF Digit
    <3>2. c \in DigitKeys /\ Len(c) = w + 1
          /\ \A i \in 1..w : c[i] = a[i]
      BY <1>3, <3>1 DEF DigitKeys
    <3>3. c[w + 1] = 0
      BY <1>1, <1>3, <3>1 DEF DigitKeys
    <3>4. \A i \in 1..(w + 1) : i \in 1..w \/ i = w + 1
      BY <1>1
    <3>5. w + 1 \in (w + 1)..(w + 1)
      BY <1>1
    <3> HIDE DEF c
    <3>6. \A i \in 1..(w + 1) : c[i] = (a \o Zeros(1))[i]
      BY <2>2, <3>2, <3>3, <3>4, <3>5
    <3>7. c = a \o Zeros(1)
      BY <2>2, <3>2, <3>6, SameKey
    <3> QED
      BY <2>2, <3>2, <3>7
  <2> HIDE DEF c, e, m
  <2>4. Power(1) = LEN /\ LEN \in Nat /\ LEN >= 6
    BY SmallPowers, Base
  <2>5. n = m + 1
    BY <1>2, <1>7, <1>9
  <2>6. n * LEN = m * LEN + LEN /\ m * LEN \in Nat /\ n * LEN \in Nat
    BY <1>1, <2>4, <2>5
  <2>7. n * LEN <= Power(w) * LEN
    BY <1>1, <1>4, <2>4, ProductGrows
  <2>8. Power(w + 1) = LEN * Power(w) /\ LEN * Power(w) = Power(w) * LEN
        /\ LEN * Power(w) \in Nat
    <3>1. Power(w + 1) = LEN * Power(w)
      BY <1>1, PowerNext
    <3> QED
      BY <1>4, <2>4, <3>1
  <2>9. Number(c) + e < Power(Len(c))
    BY <2>1, <2>3, <2>4, <2>6, <2>7, <2>8
  <2>10. c # <<>>
    BY <1>1, <2>3
  <2>11. /\ Add(c, Encode(e)) \in DigitKeys /\ Len(Add(c, Encode(e))) = w + 1
         /\ Number(Add(c, Encode(e))) = m * LEN + e
    BY <2>1, <2>3, <2>4, <2>9, <2>10, AddNumber
  <2>12. key = Add(c, Encode(e))
    BY <1>8, <1>9 DEF c, e
  <2>13. /\ m * Power(1) < Number(key) /\ Number(key) < n * Power(1)
         /\ key \in DigitKeys /\ Len(key) = w + 1
    BY <2>1, <2>4, <2>6, <2>11, <2>12
  <2>14. key # <<>>
    BY <1>1, <2>13
  <2>15. D # 0 /\ 1 \in Nat
    BY <1>7, <1>9
  <2> QED
    BY <2>13, <2>14, <2>15 DEF key, w, a, n, D, m
<1>10. CASE d # 1
  <2> DEFINE e == d \div 2
  <2>1. e \in Nat /\ e <= d /\ (d = 0 => e = 0) /\ (d >= 2 => e >= 1 /\ e < d)
    BY <1>1
  <2>2. (D = 0 <=> d = 0) /\ (D # 0 => d >= 2)
    BY <1>1, <1>6, <1>10
  <2> HIDE DEF e, m
  <2>3. m + e < Power(w)
    BY <1>1, <1>2, <1>4, <2>1
  <2>4. a # <<>>
    BY <1>3, <1>5
  <2>5. m = Number(a)
    BY DEF m
  <2>6. /\ Add(a, Encode(e)) \in DigitKeys /\ Len(Add(a, Encode(e))) = w
        /\ Number(Add(a, Encode(e))) = m + e
    BY <1>3, <2>1, <2>3, <2>4, <2>5, AddNumber
  <2>7. key = Add(a, Encode(e))
    BY <1>8, <1>10 DEF e
  <2>8. key # <<>>
    BY <1>5, <2>6, <2>7
  <2>9. D = 0 => Len(key) = w /\ Number(key) = m
    BY <1>1, <2>1, <2>2, <2>6, <2>7
  <2>10. ASSUME D # 0
         PROVE  \E k \in Nat : Len(key) = w + k /\ m * Power(k) < Number(key)
                               /\ Number(key) < n * Power(k)
    <3>1. m * Power(0) = m /\ n * Power(0) = n /\ w + 0 = w
      BY <1>1, PowerZero
    <3>2. m < m + e /\ m + e < n
      BY <1>1, <1>2, <2>1, <2>2, <2>10
    <3> QED
      BY <2>6, <2>7, <3>1, <3>2
  <2> QED
    BY <2>6, <2>7, <2>8, <2>9, <2>10 DEF key, w, a, n, D, m
<1> QED
  BY <1>9, <1>10

\* A key whose first digit lies between those of valid keys, and that is as
\* long as they are, is valid.
LEMMA ValidBetween ==
  ASSUME NEW lower \in PlainKeys, NEW upper \in PlainKeys, Valid(lower), Valid(upper),
         NEW key \in DigitKeys, key # <<>>, lower[1] <= key[1], key[1] <= upper[1],
         Len(lower) <= Len(key), Len(upper) <= Len(key)
  PROVE  key \in PlainKeys /\ Valid(key)
<1>1. /\ lower[1] \in Nat /\ upper[1] \in Nat /\ MOST_NEGATIVE < lower[1]
      /\ upper[1] < MOST_POSITIVE /\ Len(lower) \in Nat /\ Len(upper) \in Nat
      /\ Size(lower[1]) \in Nat /\ Size(upper[1]) \in Nat
  BY PlainType
<1>2. Len(key) \in Nat /\ key[1] \in Nat
  <2>1. Len(key) \in Nat /\ 1 \in 1..Len(key)
    BY DEF DigitKeys
  <2> QED
    BY <2>1, KeyType
<1>3. key \in PlainKeys
  BY <1>1, <1>2, Base DEF PlainKeys
<1>4. Size(lower[1]) <= Len(lower) /\ Size(upper[1]) <= Len(upper)
  BY PlainHead
<1>5. Size(key[1]) <= Size(lower[1]) \/ Size(key[1]) <= Size(upper[1])
  <2>1. ASSUME NEW l \in Nat, NEW h \in Nat, NEW u \in Nat, l <= h, h <= u
        PROVE  Size(h) <= Size(l) \/ Size(h) <= Size(u)
    <3>1. CASE h >= FIRST_POSITIVE
      <4>1. Size(h) = h - FIRST_POSITIVE + 2 /\ Size(u) = u - FIRST_POSITIVE + 2
        BY <2>1, <3>1, Base DEF Size
      <4> QED
        BY <2>1, <4>1, Base
    <3>2. CASE ~(h >= FIRST_POSITIVE)
      <4>1. Size(h) = FIRST_NEGATIVE - h + 2 /\ Size(l) = FIRST_NEGATIVE - l + 2
        BY <2>1, <3>2, Base DEF Size
      <4> QED
        BY <2>1, <4>1, Base
    <3> QED
      BY <3>1, <3>2
  <2> QED
    BY <1>1, <1>2, <2>1
<1>6. Size(key[1]) \in Nat
  BY <1>3, PlainType
<1>7. Size(key[1]) <= Len(key)
  BY <1>1, <1>2, <1>4, <1>5, <1>6
<1> QED
  BY <1>3, <1>7, PlainHead

\* The padding leaves room for the shift below a bound.
LEMMA RoomForShift ==
  ASSUME NEW key \in DigitKeys, NEW bound \in DigitKeys, Difference(key, bound) >= 1
  PROVE  Difference(key, bound) * Power(PaddingUpTo(key, bound)) >= JITTER_RANGE
<1> DEFINE D == Difference(key, bound)
           d == Distance(key, bound)
           i == PaddingUpTo(key, bound)
<1>1. /\ D \in Nat /\ d \in Nat /\ d <= D /\ D >= 1
      /\ D <= MaxNumber => d = D
      /\ D > MaxNumber => d = MaxNumber
  BY DistanceType
<1>2. JITTER_RANGE \in Nat /\ JITTER_RANGE < MaxNumber /\ MaxNumber \in Nat
  BY JitterRange
<1>3. i = IF d > JITTER_RANGE THEN 0 ELSE PaddingFor(d)
  BY DEF PaddingUpTo
<1> HIDE DEF D, d, i
<1>4. CASE d > JITTER_RANGE
  <2>1. i = 0 /\ Power(0) = 1
    BY <1>3, <1>4, PowerZero
  <2>2. D * 1 = D
    BY <1>1
  <2> QED
    BY <1>1, <1>2, <1>4, <2>1, <2>2 DEF D, i
<1>5. CASE ~(d > JITTER_RANGE)
  <2>1. d = D /\ D <= JITTER_RANGE
    BY <1>1, <1>2, <1>5
  <2>2. i \in 0..3 /\ Power(i) > IF D < JITTER_RANGE THEN JITTER_RANGE - D ELSE 0
    BY <1>1, <1>3, <1>5, <2>1, PaddingMakesRoom
  <2>3. Power(i) \in Nat
    BY <2>2, PowerType
  <2> DEFINE g == JITTER_RANGE - D
             p == Power(i)
  <2>4. g \in Nat /\ JITTER_RANGE = D + g /\ p \in Nat /\ g + 1 <= p
    BY <1>1, <1>2, <2>1, <2>2, <2>3
  <2> HIDE DEF g, p
  <2>5. D * (g + 1) <= D * p
    BY <1>1, <2>4, ProductGrows
  <2>6. D * (g + 1) = D * g + D /\ D * g \in Nat /\ D * p \in Nat
    BY <1>1, <2>4
  <2>7. 1 * g <= D * g
    BY <1>1, <2>4, ProductGrows
  <2>8. D * p >= JITTER_RANGE
    BY <1>1, <2>4, <2>5, <2>6, <2>7
  <2> QED
    BY <2>8 DEF D, i, p
<1> QED
  BY <1>4, <1>5

-----------------------------------------------------------------------------
\* Shifted keys between others.

\* A number added to the places that were padded.
LEMMA ShiftedKey ==
  ASSUME NEW key \in DigitKeys, key # <<>>, NEW pad \in Nat, NEW shift \in Nat,
         Number(key) * Power(pad) + shift < Power(Len(key) + pad)
  PROVE  LET r == Add(key \o Zeros(pad), Encode(shift)) IN
         /\ r \in DigitKeys /\ r # <<>> /\ Len(r) = Len(key) + pad
         /\ Number(r) = Number(key) * Power(pad) + shift
<1> DEFINE a == key \o Zeros(pad)
           r == Add(a, Encode(shift))
<1>1. a \in DigitKeys /\ Len(a) = Len(key) + pad /\ Number(a) = Number(key) * Power(pad)
  BY WithZeros
<1>2. Len(key) \in Nat /\ Len(key) >= 1
  BY DEF DigitKeys
<1>3. a # <<>>
  <2> HIDE DEF a
  <2> QED
    BY <1>1, <1>2
<1> HIDE DEF a
<1>4. Number(a) + shift < Power(Len(a))
  BY <1>1
<1>5. r \in DigitKeys /\ Len(r) = Len(a) /\ Number(r) = Number(a) + shift
  BY <1>1, <1>3, <1>4, AddNumber
<1> HIDE DEF r
<1>6. r # <<>>
  BY <1>1, <1>2, <1>5
<1> QED
  BY <1>1, <1>5, <1>6 DEF a, r

\* A shifted key, while a bound leaves room.
LEMMA ShiftedBelow ==
  ASSUME NEW key \in DigitKeys, key # <<>>, NEW bound \in DigitKeys,
         Len(bound) <= Len(key),
         Number(key) < Number(PadTo(bound, Len(key))),
         NEW pad \in Nat, PaddingUpTo(key, bound) <= pad,
         NEW shift \in 0..(JITTER_RANGE - 1)
  PROVE  LET r == Add(key \o Zeros(pad), Encode(shift)) IN
         /\ r \in DigitKeys /\ r # <<>> /\ Len(r) = Len(key) + pad
         /\ Number(r) = Number(key) * Power(pad) + shift
         /\ Before(r, bound)
<1> DEFINE l == Len(key)
           N == Number(key)
           u == Number(PadTo(bound, l))
           D == Difference(key, bound)
           i == PaddingUpTo(key, bound)
           p == Power(pad)
           r == Add(key \o Zeros(pad), Encode(shift))
<1>1. /\ l \in Nat /\ N \in Nat /\ p \in Nat /\ i \in 0..3
      /\ JITTER_RANGE \in Nat /\ shift \in Nat /\ shift < JITTER_RANGE
  BY KeyType, NumberType, PowerType, PaddingType, JitterRange
<1>2. u \in Nat /\ u < Power(l) /\ Power(l) \in Nat
  <2>1. PadTo(bound, l) \in DigitKeys /\ Len(PadTo(bound, l)) = l
    BY <1>1, Padded
  <2>2. Power(l) \in Nat
    BY <1>1, PowerType
  <2> QED
    BY <2>1, <2>2, NumberType
<1>3. D = u - N /\ D >= 1 /\ D \in Nat
  <2>1. Len(bound) \in Nat
    BY KeyType
  <2>2. Longer(key, bound) = l
    BY <1>1, <2>1 DEF Longer
  <2>3. Number(PadTo(key, l)) = N
    BY PaddedToItself
  <2>4. D = IF N <= u THEN u - N ELSE N - u
    BY <2>2, <2>3 DEF Difference
  <2> QED
    BY <1>1, <1>2, <2>4
<1>4. D * Power(i) >= JITTER_RANGE
  BY <1>3, RoomForShift
<1>5. Power(i) <= p /\ Power(i) \in Nat
  <2>1. i \in Nat /\ i <= pad
    BY <1>1
  <2> HIDE DEF i
  <2> QED
    BY <2>1, PowerGrows, PowerType
<1>6. Number(PadTo(bound, l + pad)) = u * p
  BY <1>1, PaddedFurther
<1>7. Power(l + pad) = Power(l) * p
  BY <1>1, PowerSum
<1>8. r = Add(key \o Zeros(pad), Encode(shift))
  OBVIOUS
<1> HIDE DEF l, N, u, D, i, p, r
<1>9. D * Power(i) <= D * p /\ D * Power(i) \in Nat /\ D * p \in Nat
  BY <1>1, <1>3, <1>5, ProductGrows
<1>10. u * p = N * p + D * p /\ N * p \in Nat
  <2>1. u = N + D
    BY <1>1, <1>2, <1>3
  <2> QED
    BY <1>1, <1>3, <2>1
<1>11. N * p + shift < u * p
  BY <1>1, <1>4, <1>9, <1>10
<1>12. u * p <= Power(l) * p /\ u * p \in Nat /\ Power(l) * p \in Nat
  BY <1>1, <1>2, ProductGrows
<1>13. N * p + shift < Power(l + pad)
  BY <1>1, <1>7, <1>10, <1>11, <1>12
<1>14. r \in DigitKeys /\ r # <<>> /\ Len(r) = l + pad /\ Number(r) = N * p + shift
  BY <1>1, <1>13, ShiftedKey DEF l, N, p, r
<1>15. Before(r, bound)
  <2>1. l + pad \in Nat /\ Len(r) <= l + pad /\ Len(bound) <= l + pad
    <3>1. Len(bound) \in Nat /\ Len(bound) <= l
      BY KeyType DEF l
    <3> QED
      BY <1>1, <1>14, <3>1
  <2>2. Number(PadTo(r, l + pad)) = Number(r)
    BY <1>14, PaddedToItself
  <2>3. Number(PadTo(r, l + pad)) < Number(PadTo(bound, l + pad))
    BY <1>6, <1>11, <1>14, <2>2
  <2> QED
    BY <1>14, <2>1, <2>3, NumbersInOrder
<1> QED
  BY <1>14, <1>15 DEF l, N, p, r

\* A key between two others: after the lower one, and before the upper one
\* unless this is the lower one followed by zeros.
LEMMA JitteredBetween ==
  ASSUME NEW lower \in PlainKeys, Valid(lower), OrdinaryHead(lower[1]),
         NEW upper \in PlainKeys, Valid(upper), OrdinaryHead(upper[1]),
         Before(lower, upper), NEW shift \in 0..(JITTER_RANGE - 1)
  PROVE  LET r == Jittered(lower, upper, shift) IN
         /\ r \in PlainKeys /\ Valid(r) /\ Before(lower, r)
         /\ Distance(lower, upper) # 0 => Before(r, upper)
<1> DEFINE key == MidPoint(lower, upper)
           w == Longer(lower, upper)
           m == Number(PadTo(lower, w))
           n == Number(PadTo(upper, w))
           D == Difference(lower, upper)
           pad == Padding(key, upper)
           r == Add(key \o Zeros(pad), Encode(shift))
<1>1. /\ lower \in DigitKeys /\ upper \in DigitKeys /\ lower # <<>> /\ upper # <<>>
      /\ lower # None /\ upper # None
  BY PlainType, KeyNotNone DEF PlainKeys
<1>2. Jittered(lower, upper, shift) = r
  BY <1>1 DEF Jittered, KeyBetween
<1>3. /\ w \in Nat /\ Len(lower) <= w /\ Len(upper) <= w
      /\ m \in Nat /\ n \in Nat /\ D \in Nat
      /\ Len(lower) \in Nat /\ Len(upper) \in Nat /\ Len(lower) >= 1
      /\ w = IF Len(lower) >= Len(upper) THEN Len(lower) ELSE Len(upper)
  <2>1. Len(lower) \in Nat /\ Len(upper) \in Nat /\ Len(lower) >= 1
    BY PlainType
  <2> QED
    BY <1>1, <2>1, DistanceType DEF Longer
<1>4. n = m + D
  BY <1>1, OrderedDifference
<1>5. /\ key \in DigitKeys /\ key # <<>>
      /\ D = 0 => Len(key) = w /\ Number(key) = m
      /\ D # 0 => \E k \in Nat : /\ Len(key) = w + k
                                 /\ m * Power(k) < Number(key)
                                 /\ Number(key) < n * Power(k)
  BY <1>1, MidPointBetween
<1>6. Distance(lower, upper) # 0 => D # 0
  <2>1. Distance(lower, upper) \in Nat /\ Distance(lower, upper) <= D
    BY <1>1, DistanceType
  <2> QED
    BY <1>3, <2>1
<1>7. shift \in Nat /\ shift < JITTER_RANGE /\ JITTER_RANGE \in Nat
      /\ JITTER_RANGE < Power(3)
  BY JitterRange
<1>8. pad = LET next == PaddingUpTo(key, NextInteger(IntegerPart(key)))
                 bound == PaddingUpTo(key, upper)
             IN IF next >= bound THEN next ELSE bound
  BY <1>1 DEF Padding
<1>9. ASSUME key \in PlainKeys, Valid(key), key[1] <= upper[1]
      PROVE  pad \in Nat /\ PaddingUpTo(key, upper) <= pad
             /\ PaddingUpTo(key, upper) \in 0..3
  <2> HIDE DEF key
  <2>1. IntegerPart(key) \in PlainIntegers /\ IntegerPart(key)[1] = key[1]
    BY <1>9, PlainInteger
  <2>2. key[1] <= MOST_POSITIVE - 2
    <3>1. key[1] \in Nat /\ upper[1] \in Nat
      BY <1>9, PlainType
    <3> QED
      BY <1>9, <3>1, Base DEF OrdinaryHead
  <2>3. NextInteger(IntegerPart(key)) \in PlainIntegers
    BY <2>1, <2>2, NextOfInteger
  <2>4. NextInteger(IntegerPart(key)) \in DigitKeys
    BY <2>3, PlainType DEF PlainIntegers
  <2>5. PaddingUpTo(key, NextInteger(IntegerPart(key))) \in 0..3
        /\ PaddingUpTo(key, upper) \in 0..3
    BY <1>1, <1>5, <2>4, PaddingType
  <2> QED
    BY <1>8, <2>5
<1> HIDE DEF w, m, n, D, pad, key, r
<1>10. CASE D # 0
  <2>1. PICK k \in Nat : /\ Len(key) = w + k
                         /\ m * Power(k) < Number(key)
                         /\ Number(key) < n * Power(k)
    BY <1>5, <1>10
  <2>2. /\ Len(key) \in Nat /\ Len(lower) <= Len(key) /\ Len(upper) <= Len(key)
        /\ Number(key) \in Nat /\ Power(k) \in Nat
    <3>1. Len(key) \in Nat /\ Number(key) \in Nat
      BY <1>5, KeyType, NumberType
    <3>2. Power(k) \in Nat
      BY PowerType
    <3>3. Len(lower) <= w + k /\ Len(upper) <= w + k
      BY <1>3
    <3> QED
      BY <2>1, <3>1, <3>2, <3>3
  <2>3. /\ Number(PadTo(lower, Len(key))) = m * Power(k)
        /\ Number(PadTo(upper, Len(key))) = n * Power(k)
    <3>1. Number(PadTo(lower, w + k)) = m * Power(k)
      BY <1>1, <1>3, PaddedFurther DEF m
    <3>2. Number(PadTo(upper, w + k)) = n * Power(k)
      BY <1>1, <1>3, PaddedFurther DEF n
    <3> QED
      BY <2>1, <3>1, <3>2
  <2>4. Number(PadTo(key, Len(key))) = Number(key)
    BY <1>5, PaddedToItself
  <2>5. Before(lower, key) /\ Before(key, upper)
    <3>1. Len(key) <= Len(key)
      BY <2>2
    <3>2. /\ Number(PadTo(lower, Len(key))) < Number(PadTo(key, Len(key)))
          /\ Number(PadTo(key, Len(key))) < Number(PadTo(upper, Len(key)))
      BY <2>1, <2>3, <2>4
    <3>3. Before(lower, key)
      BY <1>1, <1>5, <2>2, <3>1, <3>2, NumbersInOrder
    <3>4. Before(key, upper)
      BY <1>1, <1>5, <2>2, <3>1, <3>2, NumbersInOrder
    <3> QED
      BY <3>3, <3>4
  <2>6. lower[1] <= key[1] /\ key[1] <= upper[1]
    BY <1>1, <1>5, <2>5, FirstDigits
  <2>7. key \in PlainKeys /\ Valid(key)
    BY <1>5, <2>2, <2>6, ValidBetween
  <2>8. pad \in Nat /\ PaddingUpTo(key, upper) <= pad
    BY <1>9, <2>6, <2>7
  <2>9. Number(key) < Number(PadTo(upper, Len(key)))
    BY <2>1, <2>3
  <2>10. /\ r \in DigitKeys /\ r # <<>> /\ Len(r) = Len(key) + pad
         /\ Number(r) = Number(key) * Power(pad) + shift
         /\ Before(r, upper)
    BY <1>1, <1>5, <2>2, <2>8, <2>9, ShiftedBelow DEF r
  <2>11. Before(lower, r)
    <3> DEFINE x == Number(PadTo(lower, Len(key)))
               p == Power(pad)
    <3>1. p \in Nat /\ p >= 1
      BY <2>8, PowerType
    <3>2. /\ Number(PadTo(lower, Len(key) + pad)) = x * p
          /\ Len(lower) <= Len(key) + pad /\ Len(key) + pad \in Nat
      <4>1. Number(PadTo(lower, Len(key) + pad)) = x * p
        BY <1>1, <2>2, <2>8, PaddedFurther
      <4> QED
        BY <1>3, <2>2, <2>8, <4>1
    <3>3. x + 1 <= Number(key) /\ x \in Nat
      <4>1. x \in Nat
        BY <1>3, <2>2, <2>3
      <4> QED
        BY <2>1, <2>2, <2>3, <4>1
    <3> HIDE DEF x, p
    <3>4. (x + 1) * p <= Number(key) * p
      BY <2>2, <3>1, <3>3, ProductGrows
    <3>5. (x + 1) * p = x * p + p /\ x * p \in Nat /\ Number(key) * p \in Nat
      BY <2>2, <3>1, <3>3
    <3>6. x * p < Number(key) * p + shift
      BY <1>7, <3>1, <3>4, <3>5
    <3>7. Number(PadTo(r, Len(key) + pad)) = Number(key) * p + shift
      BY <2>10, PaddedToItself DEF p
    <3>8. Number(PadTo(lower, Len(key) + pad)) < Number(PadTo(r, Len(key) + pad))
      BY <3>2, <3>6, <3>7 DEF x, p
    <3>9. Len(r) <= Len(key) + pad
      BY <2>10, <3>2
    <3> QED
      BY <1>1, <2>10, <3>2, <3>8, <3>9, NumbersInOrder
  <2>12. lower[1] <= r[1] /\ r[1] <= upper[1]
    BY <1>1, <2>10, <2>11, FirstDigits
  <2>13. Len(lower) <= Len(r) /\ Len(upper) <= Len(r)
    BY <1>3, <2>2, <2>8, <2>10
  <2>14. r \in PlainKeys /\ Valid(r)
    BY <2>10, <2>12, <2>13, ValidBetween
  <2> QED
    BY <1>2, <2>10, <2>11, <2>14
<1>11. CASE D = 0
  <2>1. Len(key) = w /\ Number(key) = m
    BY <1>5, <1>11
  <2>2. key = PadTo(lower, w)
    <3>1. PadTo(lower, w) \in DigitKeys /\ Len(PadTo(lower, w)) = w
      BY <1>1, <1>3, Padded
    <3> QED
      BY <1>5, <2>1, <3>1, NumberTells DEF m
  <2>3. \A i \in 1..Len(lower) : key[i] = lower[i]
    BY <1>1, <1>3, <2>2, Padded
  <2>4. key[1] = lower[1] /\ lower[1] <= upper[1]
    <3>1. 1 \in 1..Len(lower)
      BY <1>3
    <3> QED
      BY <1>1, <2>3, <3>1, FirstDigits
  <2>5. lower[1] \in Nat /\ upper[1] \in Nat
    BY PlainType
  <2>6. key \in PlainKeys /\ Valid(key)
    BY <1>3, <1>5, <2>1, <2>4, <2>5, ValidBetween
  <2>7. pad \in Nat /\ PaddingUpTo(key, upper) <= pad /\ PaddingUpTo(key, upper) \in 0..3
    BY <1>9, <2>4, <2>6
  <2>8. PaddingUpTo(key, upper) = 3
    <3>1. Longer(key, upper) = w
      BY <1>3, <2>1 DEF Longer
    <3>2. Number(PadTo(key, w)) = m /\ Number(PadTo(upper, w)) = m
      <4>1. Number(PadTo(upper, w)) = m
        BY <1>3, <1>4, <1>11 DEF n
      <4> QED
        BY <1>5, <2>1, <4>1, PaddedToItself
    <3>3. Difference(key, upper) = 0
      BY <1>3, <3>1, <3>2 DEF Difference
    <3>4. Distance(key, upper) = 0
      <4>1. Distance(key, upper) \in Nat /\ Distance(key, upper) <= 0
        BY <1>1, <1>5, <3>3, DistanceType
      <4> QED
        BY <4>1
    <3>5. Power(2) <= JITTER_RANGE /\ 0 < JITTER_RANGE
      <4>1. Power(2) \in Nat /\ Power(2) >= 1
        BY PowerType
      <4> QED
        BY <4>1, JitterRange, Base
    <3>6. PaddingFor(0) = 3
      <4>1. JITTER_RANGE - 0 >= Power(2)
        BY <1>7, <3>5
      <4> QED
        BY <3>5, <4>1, PaddingMakesRoom
    <3> QED
      BY <1>7, <3>4, <3>5, <3>6 DEF PaddingUpTo
  <2>9. shift < Power(pad) /\ Power(pad) \in Nat
    <3>1. Power(3) <= Power(pad) /\ Power(3) \in Nat /\ Power(pad) \in Nat
      BY <2>7, <2>8, PowerGrows, PowerType
    <3> QED
      BY <1>7, <3>1
  <2>10. Number(key) * Power(pad) + shift < Power(Len(key) + pad)
    <3>1. Number(key) \in Nat /\ Number(key) < Power(Len(key)) /\ Power(Len(key)) \in Nat
          /\ Len(key) \in Nat
      BY <1>5, NumberType, PowerType, KeyType
    <3>2. (Number(key) + 1) * Power(pad) <= Power(Len(key)) * Power(pad)
      <4>1. Number(key) + 1 \in Nat /\ Number(key) + 1 <= Power(Len(key))
        BY <3>1
      <4> QED
        BY <2>9, <3>1, <4>1, ProductGrows
    <3>3. (Number(key) + 1) * Power(pad) = Number(key) * Power(pad) + Power(pad)
      BY <2>9, <3>1
    <3>4. Power(Len(key) + pad) = Power(Len(key)) * Power(pad)
      BY <2>7, <3>1, PowerSum
    <3>5. Number(key) * Power(pad) \in Nat /\ Power(Len(key)) * Power(pad) \in Nat
      BY <2>9, <3>1
    <3> QED
      BY <1>7, <2>9, <3>2, <3>3, <3>4, <3>5
  <2>11. /\ r \in DigitKeys /\ r # <<>> /\ Len(r) = Len(key) + pad
         /\ Number(r) = Number(key) * Power(pad) + shift
    BY <1>5, <1>7, <2>7, <2>10, ShiftedKey DEF r
  <2>12. \A i \in 1..Len(key) : r[i] = key[i]
    BY <1>5, <1>7, <2>7, <2>9, <2>11, BeginningKept
  <2>13. \A i \in 1..Len(lower) : r[i] = lower[i]
    <3>1. \A i \in 1..Len(lower) : i \in 1..Len(key)
      BY <1>3, <2>1
    <3> QED
      BY <2>3, <2>12, <3>1
  <2>14. Before(lower, r)
    <3>1. Len(lower) + 1 \in 1..Len(r)
      <4>1. pad >= 3
        BY <2>7, <2>8
      <4> QED
        BY <1>3, <2>1, <2>7, <2>11, <4>1
    <3>2. (Len(lower) + 1) - 1 = Len(lower) /\ ~(Len(lower) + 1 <= Len(lower))
          /\ Len(lower) + 1 <= Len(lower) + 1
      BY <1>3
    <3>3. \A j \in 1..Len(lower) : lower[j] = r[j]
      BY <2>13
    <3>4. DecidedAt(lower, r, Len(lower) + 1)
      BY <3>1, <3>2, <3>3 DEF DecidedAt
    <3> QED
      BY <1>1, <2>11, <3>1, <3>4, OrderDecided
  <2>15. r[1] = lower[1]
    <3>1. 1 \in 1..Len(lower)
      BY <1>3
    <3> QED
      BY <2>13, <3>1
  <2>16. Len(lower) <= Len(r) /\ Len(upper) <= Len(r)
    BY <1>3, <2>1, <2>7, <2>11
  <2>17. r \in PlainKeys /\ Valid(r)
    BY <2>4, <2>5, <2>11, <2>15, <2>16, ValidBetween
  <2> QED
    BY <1>2, <1>6, <1>11, <2>14, <2>17
<1> QED
  BY <1>10, <1>11

-----------------------------------------------------------------------------
\* Pages and their keys.

\* The keys that pages may be put next to.
ValidKeys == {k \in DigitKeys : k # <<>> /\ Valid(k)}
MovableKeys == {k \in ValidKeys : OrdinaryHead(k[1])}

\* A key fits the positions it was to be placed between.
WellPlaced(key, after, before) ==
  /\ key \in ValidKeys
  /\ \A k \in after : Before(k, key)
  /\ (\A lower \in after, upper \in before : RoomBetween(lower, upper))
       => \A k \in before : Before(key, k)
  /\ after # {} /\ before = {} /\ Len(IntegerPart(key)) < 10 => Len(key) \in 5..12

\* Such a key is a plain one.
LEMMA MovableType ==
  ASSUME NEW key \in MovableKeys
  PROVE  key \in PlainKeys /\ key \in DigitKeys /\ Valid(key) /\ OrdinaryHead(key[1])
         /\ key # None
<1>1. key \in DigitKeys /\ key # <<>> /\ Valid(key) /\ OrdinaryHead(key[1])
  BY DEF MovableKeys, ValidKeys
<1>2. key[1] \in Nat
  <2>1. 1 \in 1..Len(key)
    BY <1>1 DEF DigitKeys
  <2> QED
    BY <1>1, <2>1, KeyType
<1>3. key \in PlainKeys
  BY <1>1, <1>2, Base DEF PlainKeys, OrdinaryHead
<1> QED
  BY <1>1, <1>3, KeyNotNone

\* A valid plain key is one to put pages next to.
LEMMA PlainIsValid ==
  ASSUME NEW key \in PlainKeys, Valid(key)
  PROVE  key \in ValidKeys
BY DEF PlainKeys, ValidKeys

\* A finite set of keys that is not empty has a greatest one.
LEMMA GreatestKey ==
  ASSUME NEW keys, keys \subseteq DigitKeys, IsFiniteSet(keys), keys # {}
  PROVE  /\ Greatest(keys) \in keys
         /\ \A k \in keys : k = Greatest(keys) \/ Before(k, Greatest(keys))
<1> DEFINE Above(k) == {other \in keys : Before(k, other)}
           Counts == {Cardinality(Above(k)) : k \in keys}
<1>1. \A k \in keys : IsFiniteSet(Above(k)) /\ Cardinality(Above(k)) \in Nat
  <2>1. ASSUME NEW k \in keys
        PROVE  IsFiniteSet(Above(k)) /\ Cardinality(Above(k)) \in Nat
    <3>1. Above(k) \in SUBSET keys
      OBVIOUS
    <3>2. IsFiniteSet(Above(k))
      BY <3>1, FS_Subset
    <3> QED
      BY <3>2, FS_CardinalityType
  <2> QED
    BY <2>1
<1>2. Counts \subseteq Nat /\ Counts # {}
  BY <1>1
<1>3. PICK n \in Counts : \A m \in Counts : n <= m
  <2> HIDE DEF Counts
  <2> QED
    BY <1>2, LeastNat
<1>4. PICK k \in keys : n = Cardinality(Above(k))
  BY <1>3
<1>5. ASSUME NEW other \in keys, Before(k, other)
      PROVE  FALSE
  <2>1. k \in DigitKeys /\ other \in DigitKeys /\ \A x \in keys : x \in DigitKeys
    OBVIOUS
  <2>2. \A x \in keys : Before(other, x) => Before(k, x)
    BY <1>5, <2>1, OrderTransitive
  <2>3. ~Before(other, other)
    BY <2>1, OrderIrreflexive
  <2>4. Above(other) \in SUBSET Above(k) /\ other \in Above(k) /\ other \notin Above(other)
    BY <1>5, <2>2, <2>3
  <2>5. Above(other) # Above(k)
    BY <2>4
  <2> HIDE DEF Above
  <2>6. Cardinality(Above(other)) < Cardinality(Above(k))
    BY <1>1, <2>4, <2>5, FS_Subset
  <2>7. Cardinality(Above(other)) \in Counts
    BY DEF Above
  <2>8. n \in Nat /\ Cardinality(Above(other)) \in Nat
    BY <1>1, <1>4
  <2> QED
    BY <1>3, <1>4, <2>6, <2>7, <2>8
<1>6. Greatest(keys) \in keys /\ \A other \in keys : ~Before(Greatest(keys), other)
  <2>1. \E g \in keys : \A other \in keys : ~Before(g, other)
    BY <1>5
  <2> QED
    BY <2>1 DEF Greatest
<1> HIDE DEF Above, Counts
<1>7. ASSUME NEW other \in keys
      PROVE  other = Greatest(keys) \/ Before(other, Greatest(keys))
  <2>1. other \in DigitKeys /\ Greatest(keys) \in DigitKeys
    BY <1>6
  <2> QED
    BY <1>6, <2>1, OrderTotal
<1> QED
  BY <1>6, <1>7

\* What is placed after a key is after all that are not after that key.
LEMMA PlacedLast ==
  ASSUME NEW last \in MovableKeys, NEW after \in SUBSET MovableKeys,
         \A k \in after : k = last \/ Before(k, last),
         NEW shift \in 0..(JITTER_RANGE - 1)
  PROVE  WellPlaced(Jittered(last, None, shift), after, {})
<1> DEFINE r == Jittered(last, None, shift)
<1>1. last \in PlainKeys /\ last \in DigitKeys /\ Valid(last) /\ OrdinaryHead(last[1])
  BY MovableType
<1>2. /\ r \in PlainKeys /\ Valid(r) /\ Before(last, r)
      /\ Len(r) = Len(IntegerPart(r)) + 3
  BY <1>1, JitteredAfter
<1> HIDE DEF r
<1>3. r \in DigitKeys /\ r \in ValidKeys
  BY <1>2, PlainType, PlainIsValid
<1>4. \A k \in after : Before(k, r)
  <2>1. ASSUME NEW k \in after
        PROVE  Before(k, r)
    <3>1. k \in DigitKeys
      BY MovableType
    <3>2. CASE k = last
      BY <1>2, <3>2
    <3>3. CASE Before(k, last)
      BY <1>1, <1>2, <1>3, <3>1, <3>3, OrderTransitive
    <3> QED
      BY <3>2, <3>3
  <2> QED
    BY <2>1
<1>5. Len(IntegerPart(r)) < 10 => Len(r) \in 5..12
  <2>1. Len(IntegerPart(r)) \in Nat /\ Len(IntegerPart(r)) >= 2
    <3>1. Len(IntegerPart(r)) = Size(r[1])
      BY <1>2, PlainInteger
    <3> QED
      BY <1>2, <3>1, PlainType
  <2> QED
    BY <1>2, <2>1
<1> QED
  BY <1>3, <1>4, <1>5 DEF WellPlaced, r

\* What a drag places is between the keys on its two sides.
LEMMA PlacedByDrag ==
  ASSUME NEW keys \in SUBSET MovableKeys, keys # {},
         NEW lower \in keys \cup {None}, NEW upper \in keys \cup {None},
         NEW after, NEW before,
         after = IF lower = None THEN {} ELSE {k \in keys : k = lower \/ Before(k, lower)},
         before = IF upper = None THEN {} ELSE {k \in keys : k = upper \/ Before(upper, k)},
         after \cup before = keys, after \cap before = {},
         NEW shift \in 0..(JITTER_RANGE - 1)
  PROVE  WellPlaced(Jittered(lower, upper, shift), after, before)
<1> DEFINE r == Jittered(lower, upper, shift)
<1>1. \A k \in keys : /\ k \in PlainKeys /\ k \in DigitKeys /\ Valid(k)
                      /\ OrdinaryHead(k[1]) /\ k # None
  BY MovableType
<1>2. CASE upper = None
  <2>1. before = {} /\ lower # None /\ lower \in keys
    BY <1>2
  <2>2. after \in SUBSET MovableKeys /\ \A k \in after : k = lower \/ Before(k, lower)
    BY <2>1
  <2> QED
    BY <1>2, <2>1, <2>2, PlacedLast
<1>3. CASE lower = None /\ upper # None
  <2>1. after = {} /\ upper \in keys /\ \A k \in before : k \in keys /\ (k = upper \/ Before(upper, k))
    BY <1>3
  <2>2. r \in PlainKeys /\ Valid(r) /\ Before(r, upper)
    BY <1>1, <1>3, <2>1, JitteredBefore
  <2> HIDE DEF r
  <2>3. r \in DigitKeys /\ r \in ValidKeys
    BY <2>2, PlainType, PlainIsValid
  <2>4. \A k \in before : Before(r, k)
    <3>1. ASSUME NEW k \in before
          PROVE  Before(r, k)
      <4>1. CASE k = upper
        BY <2>2, <4>1
      <4>2. CASE Before(upper, k)
        BY <1>1, <2>1, <2>2, <2>3, <4>2, OrderTransitive
      <4> QED
        BY <2>1, <4>1, <4>2
    <3> QED
      BY <3>1
  <2> QED
    BY <2>1, <2>3, <2>4 DEF WellPlaced, r
<1>4. CASE lower # None /\ upper # None
  <2>1. /\ lower \in keys /\ upper \in keys /\ lower \in after /\ upper \in before
        /\ \A k \in after : k \in keys /\ (k = lower \/ Before(k, lower))
        /\ \A k \in before : k \in keys /\ (k = upper \/ Before(upper, k))
    BY <1>4
  <2>2. Before(lower, upper)
    <3>1. lower # upper /\ ~Before(upper, lower)
      <4>1. lower \notin before
        BY <2>1
      <4> QED
        BY <1>4, <2>1, <4>1
    <3> QED
      BY <1>1, <2>1, <3>1, OrderTotal
  <2>3. /\ r \in PlainKeys /\ Valid(r) /\ Before(lower, r)
        /\ Distance(lower, upper) # 0 => Before(r, upper)
    BY <1>1, <2>1, <2>2, JitteredBetween
  <2> HIDE DEF r
  <2>4. r \in DigitKeys /\ r \in ValidKeys
    BY <2>3, PlainType, PlainIsValid
  <2>5. \A k \in after : Before(k, r)
    <3>1. ASSUME NEW k \in after
          PROVE  Before(k, r)
      <4>1. CASE k = lower
        BY <2>3, <4>1
      <4>2. CASE Before(k, lower)
        BY <1>1, <2>1, <2>3, <2>4, <4>2, OrderTransitive
      <4> QED
        BY <2>1, <4>1, <4>2
    <3> QED
      BY <3>1
  <2>6. ASSUME \A a \in after, b \in before : RoomBetween(a, b)
        PROVE  \A k \in before : Before(r, k)
    <3>1. Before(r, upper)
      BY <2>1, <2>3, <2>6 DEF RoomBetween
    <3>2. ASSUME NEW k \in before
          PROVE  Before(r, k)
      <4>1. CASE k = upper
        BY <3>1, <4>1
      <4>2. CASE Before(upper, k)
        BY <1>1, <2>1, <2>4, <3>1, <4>2, OrderTransitive
      <4> QED
        BY <2>1, <4>1, <4>2
    <3> QED
      BY <3>2
  <2> QED
    BY <2>1, <2>4, <2>5, <2>6 DEF WellPlaced, r
<1> QED
  BY <1>2, <1>3, <1>4

-----------------------------------------------------------------------------
\* Moves.

\* The heads of the pages' keys are not the last of their sign, nor the last but
\* one: so it is with keys of at most 25 digits in base 62.
Ordinary ==
  \A p \in Pages : position[p] # None => OrdinaryHead(position[p][1])

OrdinaryKeys == tool = "move" => Ordinary

\* A call that has read the last position will move its page after all that it
\* was listed.
CallFits(c) ==
  \/ c = Idle
  \/ /\ c.page \in Pages
     /\ c.listed \in SUBSET MovableKeys
     /\ \/ c.last = None /\ c.listed = {}
        \/ /\ c.last \in MovableKeys
           /\ \A k \in c.listed : k = c.last \/ Before(k, c.last)

\* Every page is placed well, and every call in progress will place its page well.
MoveInv ==
  /\ DOMAIN position = Pages
  /\ call = [c \in Calls |-> call[c]] /\ \A c \in Calls : CallFits(call[c])
  /\ placed = [p \in Pages |-> [after |-> placed[p].after, before |-> placed[p].before]]
  /\ \A p \in Pages :
       \/ position[p] = None /\ placed[p].after = {}
       \/ position[p] # None /\ WellPlaced(position[p], placed[p].after, placed[p].before)

\* While the keys are ordinary, pages are moved next to movable keys.
LEMMA PagesMovable ==
  ASSUME MoveInv, Ordinary, NEW p \in Pages, position[p] # None
  PROVE  position[p] \in MovableKeys
BY DEF MoveInv, Ordinary, WellPlaced, MovableKeys

\* It holds at the beginning ...
LEMMA MoveBegins == Init => MoveInv
<1> SUFFICES ASSUME Init
             PROVE  MoveInv
  OBVIOUS
<1>1. PICK p \in Pages, key \in FirstKeys :
        position = [q \in Pages |-> IF q = p THEN key ELSE None]
  BY DEF Init
<1>2. key \in ValidKeys /\ key # None
  <2>1. key \in DigitKeys /\ key # <<>> /\ Valid(key)
    BY MoveConstants DEF DigitKeys
  <2> QED
    BY <2>1, KeyNotNone DEF ValidKeys
<1>3. /\ call = [c \in Calls |-> Idle]
      /\ placed = [q \in Pages |-> [after |-> {}, before |-> {}]]
  BY DEF Init
<1>4. \A c \in Calls : CallFits(call[c])
  BY <1>3 DEF CallFits
<1>5. ASSUME NEW q \in Pages
      PROVE  \/ position[q] = None /\ placed[q].after = {}
             \/ position[q] # None /\ WellPlaced(position[q], placed[q].after, placed[q].before)
  <2>1. placed[q].after = {} /\ placed[q].before = {}
    BY <1>3
  <2>2. CASE q = p
    <3>1. position[q] = key
      BY <1>1, <2>2
    <3> QED
      BY <1>2, <2>1, <3>1 DEF WellPlaced
  <2>3. CASE q # p
    BY <1>1, <2>1, <2>3
  <2> QED
    BY <2>2, <2>3
<1>6. /\ DOMAIN position = Pages /\ call = [c \in Calls |-> call[c]]
      /\ placed = [q \in Pages |-> [after |-> placed[q].after, before |-> placed[q].before]]
  BY <1>1, <1>3
<1> QED
  BY <1>4, <1>5, <1>6 DEF MoveInv

\* The last position that is read is after all that are listed.
LEMMA LastIsGreatest ==
  ASSUME MoveInv, Ordinary, NEW p \in Pages
  PROVE  /\ SiblingKeys(p) \in SUBSET MovableKeys
         /\ \/ LastSibling(p) = None /\ SiblingKeys(p) = {}
            \/ /\ LastSibling(p) \in MovableKeys
               /\ \A k \in SiblingKeys(p) : k = LastSibling(p) \/ Before(k, LastSibling(p))
<1>1. \A q \in Listed(p) \ {p} : position[q] \in MovableKeys
  <2>1. \A q \in Listed(p) : q \in Pages /\ position[q] # None
    BY DEF Listed
  <2> QED
    BY <2>1, PagesMovable
<1>2. SiblingKeys(p) \in SUBSET MovableKeys
  BY <1>1 DEF SiblingKeys
<1>3. SiblingKeys(p) \subseteq DigitKeys
  BY <1>2 DEF MovableKeys, ValidKeys
<1>4. IsFiniteSet(SiblingKeys(p))
  <2>1. IsFiniteSet(Pages)
    BY MoveConstants
  <2>2. Listed(p) \ {p} \in SUBSET Pages
    BY DEF Listed
  <2>3. IsFiniteSet(Listed(p) \ {p})
    BY <2>1, <2>2, FS_Subset
  <2> DEFINE S == Listed(p) \ {p}
             T == {position[q] : q \in S}
             f == [q \in S |-> position[q]]
  <2>4. f \in Surjection(S, T)
    BY DEF Surjection
  <2> HIDE DEF S, T
  <2>5. IsFiniteSet(T)
    <3>1. IsFiniteSet(S)
      BY <2>3 DEF S
    <3> HIDE DEF f
    <3> QED
      BY <2>4, <3>1, FS_Surjection
  <2> QED
    BY <2>5 DEF SiblingKeys, S, T
<1>5. CASE SiblingKeys(p) = {}
  BY <1>2, <1>5 DEF LastSibling
<1>6. CASE SiblingKeys(p) # {}
  <2>1. LastSibling(p) = Greatest(SiblingKeys(p))
    BY <1>6 DEF LastSibling
  <2>2. /\ Greatest(SiblingKeys(p)) \in SiblingKeys(p)
        /\ \A k \in SiblingKeys(p) : \/ k = Greatest(SiblingKeys(p))
                                     \/ Before(k, Greatest(SiblingKeys(p)))
    BY <1>3, <1>4, <1>6, GreatestKey
  <2> QED
    BY <1>2, <2>1, <2>2
<1> QED
  BY <1>5, <1>6

\* A page that is placed well leaves the others as they were.
LEMMA PlaceStep ==
  ASSUME MoveInv, NEW p \in Pages, NEW lower, NEW upper, NEW after, NEW before, NEW shift,
         Place(p, lower, upper, after, before, shift),
         WellPlaced(Jittered(lower, upper, shift), after, before)
  PROVE  /\ DOMAIN position' = Pages
         /\ placed' = [q \in Pages |-> [after |-> placed'[q].after,
                                        before |-> placed'[q].before]]
         /\ \A q \in Pages :
              \/ position'[q] = None /\ placed'[q].after = {}
              \/ /\ position'[q] # None
                 /\ WellPlaced(position'[q], placed'[q].after, placed'[q].before)
<1> DEFINE r == Jittered(lower, upper, shift)
<1>1. /\ position' = [position EXCEPT ![p] = r]
      /\ placed' = [placed EXCEPT ![p] = [after |-> after, before |-> before]]
  BY DEF Place
<1>2. WellPlaced(r, after, before)
  OBVIOUS
<1> HIDE DEF r
<1>3. /\ DOMAIN position = Pages
      /\ placed = [q \in Pages |-> [after |-> placed[q].after, before |-> placed[q].before]]
  BY DEF MoveInv
<1>4. DOMAIN position' = Pages /\ position'[p] = r
      /\ \A q \in Pages \ {p} : position'[q] = position[q]
  BY <1>1, <1>3
<1>5. /\ placed'[p].after = after /\ placed'[p].before = before
      /\ \A q \in Pages \ {p} : placed'[q] = placed[q]
  BY <1>1, <1>3
<1>6. placed' = [q \in Pages |-> [after |-> placed'[q].after, before |-> placed'[q].before]]
  BY <1>1, <1>3
<1>7. r # None
  BY <1>2, KeyNotNone DEF WellPlaced, ValidKeys
<1>8. ASSUME NEW q \in Pages
      PROVE  \/ position'[q] = None /\ placed'[q].after = {}
             \/ /\ position'[q] # None
                /\ WellPlaced(position'[q], placed'[q].after, placed'[q].before)
  <2>1. CASE q = p
    BY <1>2, <1>4, <1>5, <1>7, <2>1
  <2>2. CASE q # p
    <3>1. position'[q] = position[q] /\ placed'[q] = placed[q]
      BY <1>4, <1>5, <2>2
    <3>2. \/ position[q] = None /\ placed[q].after = {}
          \/ position[q] # None /\ WellPlaced(position[q], placed[q].after, placed[q].before)
      BY DEF MoveInv
    <3> QED
      BY <3>1, <3>2
  <2> QED
    BY <2>1, <2>2
<1> QED
  BY <1>4, <1>6, <1>8

\* ... and every step keeps it.
LEMMA MoveStep == MoveInv /\ Ordinary /\ [Next]_vars => MoveInv'
<1> SUFFICES ASSUME MoveInv, Ordinary, [Next]_vars
             PROVE  MoveInv'
  OBVIOUS
<1>1. ASSUME NEW c \in Calls, NEW p \in Pages, ReadLast(c, p)
      PROVE  MoveInv'
  <2> DEFINE entry == [page |-> p, last |-> LastSibling(p), listed |-> SiblingKeys(p)]
  <2>1. call' = [call EXCEPT ![c] = entry] /\ UNCHANGED <<position, moves, placed>>
    BY <1>1 DEF ReadLast
  <2>2. CallFits(entry)
    BY LastIsGreatest DEF CallFits
  <2> HIDE DEF entry
  <2>3. call' = [d \in Calls |-> call'[d]] /\ \A d \in Calls : CallFits(call'[d])
    BY <2>1, <2>2 DEF MoveInv
  <2> QED
    BY <2>1, <2>3 DEF MoveInv
<1>2. ASSUME NEW c \in Calls, NEW s \in Shifts, Move(c, s)
      PROVE  MoveInv'
  <2>1. /\ Place(call[c].page, call[c].last, None, call[c].listed, {}, s)
        /\ call' = [call EXCEPT ![c] = Idle]
    BY <1>2 DEF Move
  <2>2. /\ call[c].page \in Pages /\ call[c].listed \in SUBSET MovableKeys
        /\ \/ call[c].last = None /\ call[c].listed = {}
           \/ /\ call[c].last \in MovableKeys
              /\ \A k \in call[c].listed : k = call[c].last \/ Before(k, call[c].last)
    BY <1>2 DEF Move, MoveInv, CallFits
  <2>3. s \in 0..(JITTER_RANGE - 1)
    BY MoveConstants
  <2>4. WellPlaced(Jittered(call[c].last, None, s), call[c].listed, {})
    <3>1. CASE call[c].last = None /\ call[c].listed = {}
      <4>1. Jittered(None, None, s) \in PlainKeys /\ Valid(Jittered(None, None, s))
        BY <2>3, JitteredFirst
      <4>2. Jittered(None, None, s) \in ValidKeys
        BY <4>1, PlainIsValid
      <4> QED
        BY <3>1, <4>2 DEF WellPlaced
    <3>2. CASE /\ call[c].last \in MovableKeys
               /\ \A k \in call[c].listed : k = call[c].last \/ Before(k, call[c].last)
      BY <2>2, <2>3, <3>2, PlacedLast
    <3> QED
      BY <2>2, <3>1, <3>2
  <2>5. /\ DOMAIN position' = Pages
        /\ placed' = [q \in Pages |-> [after |-> placed'[q].after,
                                       before |-> placed'[q].before]]
        /\ \A q \in Pages :
             \/ position'[q] = None /\ placed'[q].after = {}
             \/ /\ position'[q] # None
                /\ WellPlaced(position'[q], placed'[q].after, placed'[q].before)
    BY <2>1, <2>2, <2>4, PlaceStep
  <2>6. call' = [d \in Calls |-> call'[d]] /\ \A d \in Calls : CallFits(call'[d])
    BY <2>1 DEF MoveInv, CallFits
  <2> QED
    BY <2>5, <2>6 DEF MoveInv
<1>3. ASSUME NEW c \in Calls, Fail(c)
      PROVE  MoveInv'
  <2>1. call' = [call EXCEPT ![c] = Idle] /\ UNCHANGED <<position, moves, placed>>
    BY <1>3 DEF Fail
  <2>2. call' = [d \in Calls |-> call'[d]] /\ \A d \in Calls : CallFits(call'[d])
    BY <2>1 DEF MoveInv, CallFits
  <2> QED
    BY <2>1, <2>2 DEF MoveInv
<1>4. ASSUME NEW p \in Pages, Leave(p)
      PROVE  MoveInv'
  <2>1. /\ position' = [position EXCEPT ![p] = None]
        /\ placed' = [placed EXCEPT ![p] = [after |-> {}, before |-> {}]]
        /\ UNCHANGED <<call, moves>>
    BY <1>4 DEF Leave
  <2>2. /\ DOMAIN position' = Pages
        /\ placed' = [q \in Pages |-> [after |-> placed'[q].after,
                                       before |-> placed'[q].before]]
    BY <2>1 DEF MoveInv
  <2>3. position'[p] = None /\ placed'[p].after = {}
    BY <2>1 DEF MoveInv
  <2>4. \A q \in Pages \ {p} : position'[q] = position[q] /\ placed'[q] = placed[q]
    BY <2>1 DEF MoveInv
  <2> QED
    BY <2>1, <2>2, <2>3, <2>4 DEF MoveInv
<1>5. ASSUME NEW p \in Pages, NEW s \in Shifts, Drag(p, s)
      PROVE  MoveInv'
  <2> DEFINE keys == {position[q] : q \in Siblings(p)}
             After(l) == IF l = None THEN {} ELSE {k \in keys : k = l \/ Before(k, l)}
             Ahead(u) == IF u = None THEN {} ELSE {k \in keys : k = u \/ Before(u, k)}
  <2>1. PICK lower \in keys \cup {None}, upper \in keys \cup {None} :
          /\ keys # {} /\ After(lower) \cup Ahead(upper) = keys
          /\ After(lower) \cap Ahead(upper) = {}
          /\ Place(p, lower, upper, After(lower), Ahead(upper), s)
          /\ UNCHANGED call
    BY <1>5 DEF Drag
  <2>2. keys \in SUBSET MovableKeys
    <3>1. \A q \in Siblings(p) : q \in Pages /\ position[q] # None
      BY DEF Siblings
    <3> QED
      BY <3>1, PagesMovable
  <2>3. s \in 0..(JITTER_RANGE - 1)
    BY MoveConstants
  <2>4. WellPlaced(Jittered(lower, upper, s), After(lower), Ahead(upper))
    <3> HIDE DEF keys
    <3> QED
      BY <2>1, <2>2, <2>3, PlacedByDrag
  <2> HIDE DEF After, Ahead
  <2>5. /\ DOMAIN position' = Pages
        /\ placed' = [q \in Pages |-> [after |-> placed'[q].after,
                                       before |-> placed'[q].before]]
        /\ \A q \in Pages :
             \/ position'[q] = None /\ placed'[q].after = {}
             \/ /\ position'[q] # None
                /\ WellPlaced(position'[q], placed'[q].after, placed'[q].before)
    BY <2>1, <2>4, PlaceStep
  <2> QED
    BY <2>1, <2>5 DEF MoveInv
<1>6. CASE UNCHANGED vars
  BY <1>6 DEF vars, MoveInv
<1> QED
  BY <1>1, <1>2, <1>3, <1>4, <1>5, <1>6 DEF Next

\* Whichever tool is used.
MoveToolInv == tool = "move" => MoveInv

\* So it is in behaviours of all the tools.
LEMMA MoveToolBegins == RequestInit => MoveToolInv
BY MoveBegins DEF RequestInit, MoveToolInv

\* A step of any tool keeps it.
LEMMA MoveToolStep ==
  MoveToolInv /\ OrdinaryKeys /\ [RequestNext]_requestVars => MoveToolInv'
<1> SUFFICES ASSUME MoveToolInv, OrdinaryKeys, [RequestNext]_requestVars, tool = "move"
             PROVE  MoveInv'
  BY DEF MoveToolInv, RequestNext, requestVars
<1>1. [Next]_vars
  BY DEF RequestNext, requestVars
<1> QED
  BY <1>1, MoveStep DEF MoveToolInv, OrdinaryKeys, Ordinary

\* The invariant is about the positions and the lengths of the keys.
LEMMA MoveToolShows == MoveToolInv => MovedBetween /\ MovedKeyAccepted
<1> SUFFICES ASSUME MoveInv
             PROVE  PlacedBetween /\ EndKeyAccepted
  BY DEF MoveToolInv, MovedBetween, MovedKeyAccepted
<1>1. PlacedBetween
  BY DEF PlacedBetween, MoveInv, WellPlaced, ValidKeys
<1>2. EndKeyAccepted
  BY DEF EndKeyAccepted, MoveInv, WellPlaced
<1> QED
  BY <1>1, <1>2

\* In whatever order calls and people read, move, drag and remove pages, and
\* however stale the position is that a call read, a page that is placed lies
\* after the siblings it was to be after, before those it was to be before where
\* there is room, and can be moved from again (position/mod.rs:27; writes.rs:157-160).
THEOREM MovesBetween == RequestSpec /\ []OrdinaryKeys => []MovedBetween
<1>1. MoveToolInv => MovedBetween
  BY MoveToolShows
<1> QED
  BY <1>1, MoveToolBegins, MoveToolStep, PTL DEF RequestSpec

\* A page moved to the end gets a key of 5 to 12 digits, the lengths Docmost
\* accepts, while its integer has less than 10 (position/mod.rs:3-4, 12-13).
THEOREM MovedKeysAccepted == RequestSpec /\ []OrdinaryKeys => []MovedKeyAccepted
<1>1. MoveToolInv => MovedKeyAccepted
  BY MoveToolShows
<1> QED
  BY <1>1, MoveToolBegins, MoveToolStep, PTL DEF RequestSpec

-----------------------------------------------------------------------------
\* Short keys.

\* There is an end of the run of extreme heads that a key begins with.
LEMMA RunType ==
  ASSUME NEW key \in DigitKeys, key # <<>>, key[1] \in {MOST_POSITIVE, MOST_NEGATIVE}
  PROVE  Run(key) \in 1..Len(key)
<1>1. Len(key) \in Nat /\ Len(key) >= 1
  BY DEF DigitKeys
<1> DEFINE Ends(n) == /\ \A i \in 1..n : key[i] = key[1]
                      /\ n < Len(key) => key[n + 1] # key[1]
           S == {n \in 1..Len(key) : n = Len(key) \/ key[n + 1] # key[1]}
<1>2. PICK n \in S : \A m \in S : n <= m
  <2>1. Len(key) \in S
    BY <1>1
  <2>2. S \subseteq Nat /\ S # {}
    BY <2>1
  <2> HIDE DEF S
  <2> QED
    BY <2>2, LeastNat
<1>3. \A i \in 1..n : key[i] = key[1]
  <2> SUFFICES ASSUME NEW i \in 1..n, key[i] # key[1]
               PROVE  FALSE
    OBVIOUS
  <2>1. i - 1 \in 1..Len(key) /\ (i - 1) + 1 = i /\ ~(n <= i - 1)
    BY <1>1, <1>2
  <2>2. i - 1 \in S
    BY <2>1
  <2> QED
    BY <1>2, <2>1, <2>2
<1>4. n \in 1..Len(key) /\ Ends(n)
  BY <1>1, <1>2, <1>3
<1>5. Run(key) = CHOOSE m \in 1..Len(key) : Ends(m)
  <2>1. ~(key[1] \notin {MOST_POSITIVE, MOST_NEGATIVE})
    OBVIOUS
  <2> QED
    BY <2>1 DEF Run
<1> HIDE DEF Ends
<1> QED
  BY <1>4, <1>5

\* The head of a key.
LEMMA HeadType ==
  ASSUME NEW key \in DigitKeys, key # <<>>
  PROVE  /\ IntegerHead(key) \in DigitKeys /\ IntegerHead(key) # <<>>
         /\ IntegerHead(key)[1] = key[1]
<1>1. Len(key) \in Nat /\ Len(key) >= 1
  BY DEF DigitKeys
<1>2. Run(key) \in 0..Len(key)
  <2>1. CASE key[1] \in {MOST_POSITIVE, MOST_NEGATIVE}
    <3>1. Run(key) \in 1..Len(key)
      BY <2>1, RunType
    <3> QED
      BY <1>1, <3>1
  <2>2. CASE key[1] \notin {MOST_POSITIVE, MOST_NEGATIVE}
    BY <1>1, <2>2 DEF Run
  <2> QED
    BY <2>1, <2>2
<1> DEFINE n == IF Run(key) < Len(key) THEN Run(key) + 1 ELSE Run(key)
           head == SubSeq(key, 1, n)
<1>3. n \in 1..Len(key)
  BY <1>1, <1>2
<1>4. IntegerHead(key) = head
  BY DEF IntegerHead
<1> HIDE DEF n
<1>5. head \in DigitKeys /\ Len(head) = n /\ head[1] = key[1]
  BY <1>1, <1>3 DEF DigitKeys
<1> HIDE DEF head
<1>6. head # <<>>
  BY <1>3, <1>5
<1> QED
  BY <1>4, <1>5, <1>6

\* The integer of a key with an extreme head is long.
LEMMA ExtremeHead ==
  ASSUME NEW key \in DigitKeys, key # <<>>, ~OrdinaryHead(key[1])
  PROVE  /\ IntegerLength(IntegerHead(key)) \in Nat
         /\ \/ IntegerLength(IntegerHead(key)) > MOST_POSITIVE - FIRST_POSITIVE
            \/ IntegerLength(IntegerHead(key)) > FIRST_NEGATIVE - MOST_NEGATIVE
<1> DEFINE head == IntegerHead(key)
           h == key[1]
           n == Run(head)
<1>1. head \in DigitKeys /\ head # <<>> /\ head[1] = h
  BY HeadType
<1>2. h \in Nat /\ h <= MOST_POSITIVE
  <2>1. 1 \in 1..Len(key)
    BY DEF DigitKeys
  <2>2. key[1] \in Nat /\ key[1] <= LEN - 1
    BY <2>1, KeyType
  <2> QED
    BY <2>2, Base
<1> HIDE DEF head, h
<1>3. \/ h >= FIRST_POSITIVE /\ h >= MOST_POSITIVE - 1
      \/ h < FIRST_POSITIVE /\ h <= MOST_NEGATIVE + 1
  <2>1. ~(MOST_NEGATIVE + 2 <= h /\ h <= MOST_POSITIVE - 2)
    BY DEF OrdinaryHead, h
  <2> QED
    BY <1>2, <2>1, Base
<1> DEFINE innermost == IF h >= FIRST_POSITIVE THEN FIRST_POSITIVE ELSE FIRST_NEGATIVE
           opposite == IF h >= FIRST_POSITIVE THEN MOST_NEGATIVE ELSE MOST_POSITIVE
<1>4. /\ innermost \in Nat /\ opposite \in Nat /\ Gap(h, innermost) \in Nat
      /\ \/ Gap(h, innermost) >= MOST_POSITIVE - FIRST_POSITIVE - 1
         \/ Gap(h, innermost) >= FIRST_NEGATIVE - MOST_NEGATIVE - 1
  BY <1>2, <1>3, Base DEF Gap
<1>5. IntegerLength(head) =
        IF n = 0 THEN Gap(h, innermost) + 2
        ELSE Gap(h, innermost) + 1 + (n - 1) * (Gap(h, opposite) + 1)
               + (IF n < Len(head) THEN Gap(head[n + 1], opposite) ELSE 0) + 2
  BY <1>1 DEF IntegerLength
<1> HIDE DEF innermost, opposite
<1>6. IntegerLength(head) \in Nat /\ IntegerLength(head) >= Gap(h, innermost) + 2
  <2>1. CASE n = 0
    BY <1>4, <1>5, <2>1
  <2>2. CASE n # 0
    <3>1. head[1] \in {MOST_POSITIVE, MOST_NEGATIVE}
      BY <2>2 DEF Run
    <3>2. n \in 1..Len(head)
      BY <1>1, <3>1, RunType
    <3>3. Len(head) \in Nat /\ \A i \in 1..Len(head) : head[i] \in Nat
      BY <1>1, KeyType
    <3> DEFINE rest == IF n < Len(head) THEN Gap(head[n + 1], opposite) ELSE 0
    <3>4. rest \in Nat
      <4>1. CASE n < Len(head)
        <5>1. n + 1 \in 1..Len(head)
          BY <3>2, <3>3, <4>1
        <5>2. head[n + 1] \in Nat
          BY <3>3, <5>1
        <5> QED
          BY <1>4, <4>1, <5>2 DEF Gap
      <4>2. CASE ~(n < Len(head))
        BY <4>2
      <4> QED
        BY <4>1, <4>2
    <3> HIDE DEF n
    <3>5. n - 1 \in Nat
      BY <3>2
    <3>6. Gap(h, opposite) + 1 \in Nat
      BY <1>2, <1>4 DEF Gap
    <3>7. (n - 1) * (Gap(h, opposite) + 1) \in Nat
      BY <3>5, <3>6
    <3>8. IntegerLength(head) = Gap(h, innermost) + 1 + (n - 1) * (Gap(h, opposite) + 1)
                                  + rest + 2
      BY <1>5, <2>2
    <3> HIDE DEF rest
    <3> QED
      BY <1>4, <3>4, <3>7, <3>8
  <2> QED
    BY <2>1, <2>2
<1>7. \/ Gap(h, innermost) + 2 > MOST_POSITIVE - FIRST_POSITIVE
      \/ Gap(h, innermost) + 2 > FIRST_NEGATIVE - MOST_NEGATIVE
  BY <1>4, Base
<1> QED
  BY <1>4, <1>6, <1>7, Base DEF head

\* The keys are shorter than any integer with an extreme head: in base 62 they
\* have at most 25 digits, where Docmost accepts 12.
ShortKeys ==
  tool = "move" =>
    \A p \in Pages : position[p] # None =>
      /\ Len(position[p]) <= MOST_POSITIVE - FIRST_POSITIVE
      /\ Len(position[p]) <= FIRST_NEGATIVE - MOST_NEGATIVE

\* The heads of such keys are ordinary.
LEMMA ShortAreOrdinary == MoveToolInv /\ ShortKeys => OrdinaryKeys
<1> SUFFICES ASSUME MoveToolInv, ShortKeys, tool = "move",
                    NEW p \in Pages, position[p] # None
             PROVE  OrdinaryHead(position[p][1])
  BY DEF OrdinaryKeys, Ordinary
<1> DEFINE key == position[p]
<1>1. key \in DigitKeys /\ key # <<>> /\ Valid(key)
  BY DEF MoveToolInv, MoveInv, WellPlaced, ValidKeys
<1>2. /\ Len(key) <= MOST_POSITIVE - FIRST_POSITIVE
      /\ Len(key) <= FIRST_NEGATIVE - MOST_NEGATIVE
  BY DEF ShortKeys
<1> HIDE DEF key
<1>3. Len(key) \in Nat
  BY <1>1, KeyType
<1>4. ASSUME ~OrdinaryHead(key[1])
      PROVE  FALSE
  <2>1. /\ IntegerLength(IntegerHead(key)) \in Nat
        /\ \/ IntegerLength(IntegerHead(key)) > MOST_POSITIVE - FIRST_POSITIVE
           \/ IntegerLength(IntegerHead(key)) > FIRST_NEGATIVE - MOST_NEGATIVE
    BY <1>1, <1>4, ExtremeHead
  <2>2. IntegerLength(IntegerHead(key)) <= Len(key)
    BY <1>1 DEF Valid
  <2> QED
    BY <1>2, <1>3, <2>1, <2>2, Base
<1> QED
  BY <1>4 DEF key

\* So both hold of all the keys that Docmost can store (position/mod.rs:3-4).
THEOREM ShortKeysSuffice == RequestSpec /\ []ShortKeys => [](MovedBetween /\ MovedKeyAccepted)
<1>1. MoveToolInv /\ ShortKeys /\ [RequestNext]_requestVars => MoveToolInv'
  BY ShortAreOrdinary, MoveToolStep
<1>2. MoveToolInv => MovedBetween /\ MovedKeyAccepted
  BY MoveToolShows
<1> QED
  BY <1>1, <1>2, MoveToolBegins, PTL DEF RequestSpec
=============================================================================
