---------------------------- MODULE MC_Documents ----------------------------
\* The Markdown that TLC writes: every kind of block and of inline node, and
\* lists of every kind nested in each other, as trees (see PageBody).
EXTENDS Integers, Sequences

Leaf(tag) == [tag |-> tag, kids |-> <<>>]
In(tag, kids) == [tag |-> tag, kids |-> kids]
T == Leaf("text")
C == Leaf("code")
Soft == Leaf("softBreak")
Hard == Leaf("hardBreak")
Link(scheme, id, kids) ==
  [tag |-> "link", url |-> [scheme |-> scheme, id |-> id], kids |-> kids]
Picture(kids) == [tag |-> "image", src |-> "src", kids |-> kids]

\* Runs of text, and with images.
Phrases ==
  { <<T, Soft, T>>, <<T, Hard, C>>,
    <<In("bold", <<T, In("italic", <<C, T>>), T>>), T>>,
    <<Link("https", "a", <<In("strike", <<T>>), C>>), T>>,
    <<Link("user", "7", <<T, Soft, In("bold", <<C>>), Hard, T>>), T>>,
    <<Link("page", "", <<T>>), Soft, Link("page", "8", <<T>>)>> }

Pictures ==
  { <<Picture(<<T>>)>>, <<Picture(<<T>>), Picture(<<>>)>>, <<T, Soft, Picture(<<T>>), T>>,
    <<Picture(<<T>>), Soft, T>>, <<Picture(<<T, C, Soft, T>>), T>>,
    <<Link("user", "7", <<Picture(<<T>>), T>>)>> }

Inlines == Phrases \cup Pictures

Paragraphs == {In("paragraph", kids) : kids \in Inlines}
P == In("paragraph", <<T>>)

Headings == {[tag |-> "heading", level |-> n, kids |-> kids] : n \in {1, 3}, kids \in Inlines}

Codes ==
  {[tag |-> "codeBlock", info |-> info, kids |-> [i \in 1..n |-> Leaf("line")]] :
     info \in {<<>>, <<"rs", "title">>}, n \in 0..2}

Tables ==
  {In("table", <<In("tableHead", <<In("tableCell", <<T>>), In("tableCell", a)>>),
                 In("tableRow", <<In("tableCell", b), In("tableCell", <<>>)>>)>>) :
     a \in {<<C>>, <<T, Picture(<<T>>), T>>}, b \in Inlines}

-----------------------------------------------------------------------------
ListFrom(start, items) ==
  [tag |-> "list", ordered |-> start # 0, start |-> start, kids |-> items]
Item(task, kids) == [tag |-> "item", task |-> task, kids |-> kids]

Tasks == {"none", "open", "done"}

\* Lists of one and of two items, below which there may be lists.
ListsOf(items, starts) ==
  {ListFrom(s, <<i>>) : s \in starts, i \in items}
    \cup {ListFrom(s, <<i, j>>) : s \in starts, i, j \in items}

Flat == ListsOf({Item(t, <<T>>) : t \in Tasks}, {0, 3})
ItemsOver(lists) == {Item(t, <<T, l>>) : t \in Tasks, l \in lists}
Deep == {ListFrom(1, <<i, j>>) : i \in ItemsOver(Flat),
                                 j \in ItemsOver({ListFrom(0, <<Item("none", <<T>>)>>)})}
\* Three levels.
Deeper == {ListFrom(0, <<Item(t, <<T, l>>), Item("none", <<T>>)>>) :
             t \in Tasks, l \in {ListFrom(1, <<Item(u, <<T, m>>)>>) : u \in Tasks, m \in Flat}}

PhraseLists ==
  {ListFrom(s, <<Item("none", kids), Item(t, <<T>>),
                 Item("none", <<T, ListFrom(1, <<Item("none", kids)>>)>>)>>) :
     s \in {0, 1}, t \in Tasks, kids \in Inlines}

LooseLists ==
  {ListFrom(s, <<Item("none", <<P>> \o more), Item("none", <<P>>)>>) : s \in {0, 2},
     more \in {<<b>> : b \in Paragraphs \cup Codes \cup {In("blockquote", <<P>>)}}
               \cup {<<l>> : l \in Flat} \cup {<<P, l>> : l \in Flat}}

Quotes ==
  {In("blockquote", kids) :
     kids \in {<<b>> : b \in Paragraphs \cup Headings \cup Codes}
               \cup {<<P, l, P>> : l \in Flat}
               \cup {<<P, In("blockquote", <<P, l>>)>> : l \in Flat}}

Single == Paragraphs \cup Headings \cup Codes \cup Tables \cup Quotes
            \cup PhraseLists \cup LooseLists \cup Flat \cup Deep \cup Deeper

MCDocuments ==
  {In("doc", <<b>>) : b \in Single}
    \cup {In("doc", <<P, b, Leaf("rule"), c>>) :
            b, c \in Flat \cup {P, In("blockquote", <<P, P>>)}}

\* Task lists below plain items, and plain lists below tasks.
MCNested ==
  {In("doc", <<ListFrom(0, <<Item(t, <<T, ListFrom(0, <<Item(u, <<T>>)>>)>>)>>)>>) : t, u \in Tasks}
=============================================================================
