------------------------------ MODULE PageBody ------------------------------
(***************************************************************************)
(* A page body on its way from an agent to Docmost and back:               *)
(* markdown_to_prosemirror (src/src/prosemirror/writer/mod.rs) writes the  *)
(* agent's Markdown, and prosemirror_to_markdown shows what was written.   *)
(*                                                                         *)
(* The Markdown is given as the tree that CommonMark makes of it, whose    *)
(* nodes are [tag, kids] with what else a tag needs; Events, which is      *)
(* external, is what the parser says of it.  The items of a tight list     *)
(* hold inline nodes and lists, the ones of a loose list hold blocks.      *)
(***************************************************************************)
EXTENDS DocBuilder, Functions

CONSTANT Documents  \* the Markdown that agents write

VARIABLES
  markdown,  \* the Markdown of the page
  events,    \* what the parser has still to say
  builder,   \* the DocBuilder
  written    \* the document, once it is finished

bodyVars == <<markdown, events, builder, written>>

-----------------------------------------------------------------------------
\* The parser's events, with the nodes that each one is in, outermost first,
\* and which child of the node it is in.
RECURSIVE Walk(_, _)
Walk(node, in) ==
  LET kid(k) == Walk(node.kids[k], Append(in, [node |-> node, child |-> k]))
      inner == FoldLeftDomain(LAMBDA all, k : all \o kid(k), <<>>, node.kids)
      tag == [field \in DOMAIN node \ {"kids"} |-> node[field]]
      marker == IF node.tag = "item" /\ node.task # "none"
                THEN <<[event |-> "taskListMarker", checked |-> node.task = "done"]>>
                ELSE <<>>
  IN CASE node.tag = "doc" -> inner
       [] node.tag \in {"text", "line", "code", "softBreak", "hardBreak", "rule"} ->
            <<[event |-> node.tag, in |-> in]>>
       [] OTHER -> <<[event |-> "start", tag |-> tag]>> \o marker \o inner
                     \o <<[event |-> "end", tag |-> tag]>>

\* The word of an event is its number.
Word(i) == "word" \o ToString(i)

Event(walked, i) ==
  CASE walked.event \in {"text", "code"} -> [event |-> walked.event, text |-> <<Word(i)>>]
    [] walked.event = "line" -> [event |-> "text", text |-> <<Word(i), LineEnd>>]
    [] walked.event \in {"softBreak", "hardBreak", "rule"} -> [event |-> walked.event]
    [] OTHER -> walked

-----------------------------------------------------------------------------
BodyInit ==
  /\ markdown \in Documents
  /\ events = LET walk == Walk(markdown, <<>>)
              IN [i \in DOMAIN walk |-> Event(walk[i], i)]
  /\ builder = New
  /\ written = <<>>

HandleEvent ==
  /\ events # <<>>
  /\ builder' = Handle(builder, Head(events))
  /\ events' = Tail(events)
  /\ UNCHANGED <<markdown, written>>

FinishPage ==
  /\ events = <<>> /\ written = <<>>
  /\ written' = <<Finish(builder)>>
  /\ UNCHANGED <<markdown, events, builder>>

BodyNext == HandleEvent \/ FinishPage

BodySpec == BodyInit /\ [][BodyNext]_bodyVars

Done == written # <<>>

\* What is sent to Docmost, and the lines that are shown of it.
Document == Head(written)
Shown == ProsemirrorToMarkdown(Document)

-----------------------------------------------------------------------------
\* What the properties say of documents and of Markdown.
Blocks == {"paragraph", "heading", "bulletList", "orderedList", "taskList",
           "codeBlock", "blockquote", "horizontalRule", "table", "image"}

Allowed(type) ==
  CASE type \in {"doc", "blockquote", "listItem", "taskItem", "tableCell", "tableHeader"} -> Blocks
    [] type \in {"bulletList", "orderedList"} -> {"listItem"}
    [] type = "taskList" -> {"taskItem"}
    [] type = "table" -> {"tableRow"}
    [] type = "tableRow" -> {"tableCell", "tableHeader"}
    [] type \in {"paragraph", "heading"} -> {"text", "mention", "hardBreak", "image"}
    [] type = "codeBlock" -> {"text"}
    [] OTHER -> {}

RECURSIVE Fits(_)
Fits(node) ==
  \A i \in DOMAIN Children(node) :
    Children(node)[i].type \in Allowed(node.type) /\ Fits(Children(node)[i])

\* The words of a document, in its order, with their marks.
RECURSIVE WordsOf(_)
WordsOf(node) ==
  LET Found(text, marks) ==
        Concat(LAMBDA token : IF token \in WhiteSpace THEN <<>>
                              ELSE <<[word |-> token, marks |-> marks]>>, text)
  IN CASE node.type = "text" -> Found(node.text, node.marks)
       [] node.type = "mention" -> Found(node.attrs.label, <<>>)
       [] node.type = "image" -> Found(node.attrs.alt, <<>>)
       [] OTHER -> Concat(WordsOf, node.content)

Tags(in) == {in[j].node.tag : j \in DOMAIN in}
IsMention(node) == node.tag = "link" /\ node.url.scheme \in {"user", "page"} /\ node.url.id # ""
InMention(in) == \E j \in DOMAIN in : IsMention(in[j].node)

\* The words of the Markdown, in its order: each with what it is in.
MarkdownWords ==
  LET walk == Walk(markdown, <<>>)
      numbers == SelectSeq([i \in DOMAIN walk |-> i],
                   LAMBDA i : walk[i].event \in {"text", "line", "code"})
  IN Concat(LAMBDA i : <<[word |-> Word(i), in |-> walk[i].in,
                          code |-> walk[i].event = "code"]>>, numbers)

Texts(words) == [i \in DOMAIN words |-> words[i].word]

ExpectedMarks(word) ==
  (Tags(word.in) \cap {"bold", "italic", "strike", "link"})
    \cup (IF word.code THEN {"code"} ELSE {})

-----------------------------------------------------------------------------
IsTaskList(list) == \E k \in DOMAIN list.kids : list.kids[k].task # "none"

\* An image whose text is not moved out of it: code in the text of an image is
\* written before the image.
PlainImage(node) ==
  node.tag = "image" /\ \A k \in DOMAIN node.kids : node.kids[k].tag = "text"

\* What the reader shows of an item: the first paragraph and the lists, but no
\* task lists where the item is not a task itself.
ItemShows(list, item, k) ==
  LET kid == item.kids[k] IN
  CASE kid.tag = "list" -> IsTaskList(kid) => IsTaskList(list)
    [] kid.tag = "paragraph" -> \A m \in 1..(k - 1) : item.kids[m].tag # "paragraph"
    [] kid.tag \in {"image", "codeBlock", "blockquote"} -> FALSE
    [] OTHER -> \A m \in 1..(k - 1) : item.kids[m].tag = "image" =>
                                         \A n \in 1..m : PlainImage(item.kids[n])

\* What it shows of images: the ones in cells and alone in their paragraph.
ImageShows(parent) ==
  \/ parent.tag = "tableCell"
  \/ parent.tag = "paragraph" /\ \A m \in DOMAIN parent.kids : PlainImage(parent.kids[m])

Readable(in) ==
  \A j \in DOMAIN in :
    /\ in[j].node.tag = "item" => ItemShows(in[j - 1].node, in[j].node, in[j].child)
    /\ in[j].node.tag = "image" => ImageShows(in[j - 1].node)

\* How the line starts that a block or an item of the Markdown is shown on.
LineStart(in) ==
  LET lists == {j \in DOMAIN in : in[j].node.tag = "list"}
      list == in[Max(lists)].node
      number == in[Max(lists)].child
      quotes == {j \in DOMAIN in : in[j].node.tag = "blockquote"}
      heading == {j \in DOMAIN in : in[j].node.tag = "heading"}
      marker ==
        IF IsTaskList(list)
        THEN <<"-", Space, IF list.kids[number].task = "done" THEN "[x]" ELSE "[ ]", Space>>
        ELSE IF list.ordered THEN <<ToString(list.start + number - 1), ".", Space>>
        ELSE <<"-", Space>>
  IN FlattenSeq([q \in 1..Cardinality(quotes) |-> <<">", Space>>])
       \o (IF lists # {} THEN Repeat(Space, 2 * (Cardinality(lists) - 1)) \o marker
           ELSE IF heading # {} THEN Repeat("#", in[Max(heading)].node.level) \o <<Space>>
           ELSE IF "tableCell" \in Tags(in) THEN <<"|", Space>>
           ELSE <<>>)

\* Words that come first in their block, item or row.
ComesFirst(in) ==
  LET starts == {j \in DOMAIN in :
        \/ in[j].node.tag \in {"item", "heading", "tableHead", "tableRow"}
        \/ in[j].node.tag = "paragraph" /\ in[j - 1].node.tag # "item"}
  IN starts # {} /\ \A j \in Max(starts)..Len(in) : in[j].child = 1

-----------------------------------------------------------------------------
\* What is written has the form of a Docmost document, whatever is nested in
\* what: lists have items of their kind, items and cells hold blocks, text
\* stands in paragraphs, headings and code (writer/build.rs:216-217, 292-293).
WellFormed == Done => Document.type = "doc" /\ Fits(Document)

\* The writer keeps every word exactly once and in order, under the marks it
\* had, with the code mark innermost (writer/build.rs:176-178); the words of an
\* image may be moved out of it.
WriterKeepsText ==
  Done =>
    LET found == WordsOf(Document)
        words == MarkdownWords
        outside == SelectSeq(words, LAMBDA word : "image" \notin Tags(word.in))
    IN /\ IsInjective(Texts(found))
       /\ ToSet(Texts(found)) = ToSet(Texts(words))
       /\ SelectSeq(Texts(found), LAMBDA word : word \in ToSet(Texts(outside)))
            = Texts(outside)
       /\ \A i \in DOMAIN outside, k \in DOMAIN found :
            found[k].word = outside[i].word /\ ~InMention(outside[i].in) =>
              LET types == [m \in DOMAIN found[k].marks |-> found[k].marks[m].type]
              IN /\ ToSet(types) = ExpectedMarks(outside[i])
                 /\ outside[i].code => types[1] = "code"

\* What was written is shown again: the words in their order, on lines with
\* the depth, the numbers, the states of tasks and the quotes they were given
\* (writer/mod.rs:13-15), but for what Readable leaves out.
ReadBack ==
  Done =>
    LET lines == Shown
        words == MarkdownWords
        readable == SelectSeq(words, LAMBDA word : Readable(word.in))
        outside == SelectSeq(Texts(words), LAMBDA text :
          \E i \in DOMAIN readable :
            readable[i].word = text /\ "image" \notin Tags(readable[i].in))
        shown == Join(lines, <<LineEnd>>)
    IN /\ SelectSeq(shown, LAMBDA token : token \in ToSet(outside)) = outside
       /\ \A i \in DOMAIN readable : \E l \in DOMAIN lines :
            /\ readable[i].word \in ToSet(lines[l])
            /\ ComesFirst(readable[i].in) => IsPrefix(LineStart(readable[i].in), lines[l])

\* "so the two round-trip" (writer/mod.rs:15): every word that was written is
\* shown again.  The reader leaves out what is in an item besides its first
\* paragraph and its lists, and task lists below plain items.
RoundTrips ==
  Done => ToSet(Texts(MarkdownWords)) \subseteq ToSet(Join(Shown, <<LineEnd>>))
=============================================================================
