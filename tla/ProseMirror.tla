---------------------------- MODULE ProseMirror ----------------------------
(***************************************************************************)
(* Docmost's page bodies are ProseMirror documents, trees of typed nodes;  *)
(* agents read and write Markdown.  This module has the nodes              *)
(* (src/src/prosemirror/nodes.rs) and how the server shows a document as   *)
(* Markdown (src/src/prosemirror/reader.rs).                               *)
(*                                                                         *)
(* A text is a sequence of tokens: words, which are never looked into,     *)
(* spaces, line ends and marks of Markdown; blocks are shown as sequences  *)
(* of lines.  An Option is a sequence of at most one element.  Attributes  *)
(* are a record, << >> when there are none.                                *)
(***************************************************************************)
EXTENDS Integers, SequencesExt

Space == " "
LineEnd == "\n"
Backtick == "backtick"
Fence == "backticks"
WhiteSpace == {Space, LineEnd}

Node(type, attrs, content) == [type |-> type, attrs |-> attrs, content |-> content]

TextNode(text, marks) == [type |-> "text", text |-> text, marks |-> marks]

MentionNode(mention) ==
  [type |-> "mention", attrs |-> mention, content |-> <<>>]

Children(node) == IF "content" \in DOMAIN node THEN node.content ELSE <<>>

Attr(node, name, default) ==
  IF name \in DOMAIN node.attrs THEN node.attrs[name] ELSE default

IsWhitespaceText(node) ==
  /\ node.type = "text" /\ node.marks = <<>>
  /\ ToSet(node.text) \subseteq WhiteSpace

-----------------------------------------------------------------------------
\* Texts and their lines.
Concat(F(_), seq) == FoldLeftDomain(LAMBDA text, i : text \o F(seq[i]), <<>>, seq)

Join(texts, separator) ==
  FoldLeftDomain(LAMBDA text, i : (IF i = 1 THEN <<>> ELSE text \o separator) \o texts[i],
                 <<>>, texts)

Lines(text) ==
  LET ends == SelectSeq([i \in 1..(Len(text) + 1) |-> i],
                LAMBDA i : i = Len(text) + 1 \/ text[i] = LineEnd)
  IN [k \in DOMAIN ends |->
       SubSeq(text, IF k = 1 THEN 1 ELSE ends[k - 1] + 1, ends[k] - 1)]

Visible(text) == {i \in DOMAIN text : text[i] \notin WhiteSpace}

\* trim_end and trim, of lines
TrimEnd(lines) ==
  LET last == Max({i \in DOMAIN lines : Visible(lines[i]) # {}} \cup {0})
  IN [i \in 1..last |-> IF i < last THEN lines[i]
                        ELSE SubSeq(lines[i], 1, Max(Visible(lines[i])))]
Trim(lines) ==
  LET first == Min({i \in DOMAIN lines : Visible(lines[i]) # {}})
      rest == SubSeq(TrimEnd(lines), first, Len(lines))
  IN IF TrimEnd(lines) = <<>> THEN <<>>
     ELSE [rest EXCEPT ![1] = SubSeq(@, Min(Visible(@)), Len(@))]

\* split_whitespace and join with a space
OnOneLine(text) ==
  LET kept == SelectSeq([i \in DOMAIN text |-> i],
                LAMBDA i : \/ i \in Visible(text)
                           \/ i + 1 \in Visible(text) /\ Visible(text) \cap 1..i # {})
  IN [k \in DOMAIN kept |-> IF text[kept[k]] = LineEnd THEN Space ELSE text[kept[k]]]

Repeat(token, n) == [i \in 1..n |-> token]

-----------------------------------------------------------------------------
\* extract_text: a mark is put around the text, the first one innermost.
Marked(text, mark) ==
  CASE mark.type = "bold" -> <<"**">> \o text \o <<"**">>
    [] mark.type = "italic" -> <<"*">> \o text \o <<"*">>
    [] mark.type = "code" -> <<Backtick>> \o text \o <<Backtick>>
    [] mark.type = "strike" -> <<"~~">> \o text \o <<"~~">>
    [] mark.type = "link" -> IF mark.href = "" THEN text
                             ELSE <<"[">> \o text \o <<"](", mark.href, ")">>

MentionText(node) ==
  IF node.attrs.entity_id = "" \/ {"[", "]"} \cap ToSet(node.attrs.label) # {}
  THEN <<"@">> \o node.attrs.label
  ELSE <<"[">> \o node.attrs.label
         \o <<"](", node.attrs.entity_type, ":", node.attrs.entity_id, ")">>

RECURSIVE ExtractText(_)
ExtractText(content) ==
  Concat(LAMBDA node :
    CASE node.type = "text" -> FoldLeft(Marked, node.text, node.marks)
      [] node.type = "mention" -> MentionText(node)
      [] node.type = "hardBreak" -> <<LineEnd>>
      [] OTHER -> ExtractText(Children(node)), content)

\* The text of the item's first paragraph that has one.
FirstParagraph(item) ==
  LET texts == Concat(LAMBDA child :
                 IF child.type # "paragraph" \/ ExtractText(child.content) = <<>> THEN <<>>
                 ELSE <<ExtractText(child.content)>>, item.content)
  IN IF texts = <<>> THEN <<>> ELSE Head(texts)

-----------------------------------------------------------------------------
RECURSIVE ConvertNodes(_, _)

\* Mutant of Nested: one space is taken for the depth of a list.
NestedByOne(item, types, indent) ==
  Concat(LAMBDA child : IF child.type \in types THEN ConvertNodes(<<child>>, indent + 1)
                        ELSE <<>>, item.content)

\* The lists below an item.
Nested(item, types, indent) ==
  Concat(LAMBDA child : IF child.type \in types THEN ConvertNodes(<<child>>, indent + 2)
                        ELSE <<>>, item.content)

\* convert_list: the lines of its items, without items of another kind.
ConvertList(items, ordered, indent, start) ==
  LET Marker(i) == IF ordered THEN <<ToString(start + i - 1), ".", Space>>
                   ELSE <<"-", Space>>
      ItemLines(i) ==
        IF items[i].type # "listItem" THEN <<>>
        ELSE Lines(Repeat(Space, indent) \o Marker(i) \o FirstParagraph(items[i]))
             \o Nested(items[i], {"bulletList", "orderedList"}, indent)
  IN FoldLeftDomain(LAMBDA lines, i : lines \o ItemLines(i), <<>>, items)

Checkbox(item) ==
  <<"-", Space, IF Attr(item, "checked", FALSE) THEN "[x]" ELSE "[ ]", Space>>

\* convert_task_list
ConvertTaskList(items, indent) ==
  Concat(LAMBDA item :
    IF item.type # "taskItem" THEN <<>>
    ELSE Lines(Repeat(Space, indent) \o Checkbox(item) \o FirstParagraph(item))
         \o Nested(item, {"bulletList", "orderedList", "taskList"}, indent), items)

TableLine(cells) == <<"|", Space>> \o Join(cells, <<Space, "|", Space>>) \o <<Space, "|">>

\* convert_table: the first row is the header, whatever its cells are.
ConvertTable(table) ==
  LET CellText(cell) ==
        IF cell.type \notin {"tableCell", "tableHeader"} THEN <<>>
        ELSE <<OnOneLine(Join(ConvertNodes(Children(cell), 0), <<LineEnd>>))>>
      RowCells(row) ==
        IF row.type # "tableRow" \/ Concat(CellText, Children(row)) = <<>> THEN <<>>
        ELSE <<Concat(CellText, Children(row))>>
      rows == Concat(RowCells, Children(table))
  IN IF rows = <<>> THEN <<>>
     ELSE <<TableLine(rows[1]), TableLine([i \in DOMAIN rows[1] |-> <<"---">>])>>
          \o [i \in 1..(Len(rows) - 1) |-> TableLine(rows[i + 1])]

Quoted(lines) ==
  Concat(LAMBDA line : IF line = <<>> THEN <<>> ELSE <<(<<">", Space>> \o line)>>, lines)

Image(node) ==
  IF Attr(node, "src", "") = "" THEN <<>>
  ELSE << <<"![">> \o Attr(node, "alt", <<"image">>) \o <<"](", node.attrs.src, ")">> >>

\* The lines that convert_nodes makes of one node.
Block(node, indent) ==
  CASE node.type = "paragraph" ->
         IF ExtractText(node.content) = <<>> THEN <<>> ELSE Lines(ExtractText(node.content))
    [] node.type = "heading" ->
         Lines(Repeat("#", Attr(node, "level", 1)) \o <<Space>> \o ExtractText(node.content))
    [] node.type = "bulletList" -> ConvertList(node.content, FALSE, indent, 1)
    [] node.type = "orderedList" ->
         ConvertList(node.content, TRUE, indent, Attr(node, "start", 1))
    [] node.type = "taskList" -> ConvertTaskList(node.content, indent)
    [] node.type = "codeBlock" ->
         << <<Fence, Attr(node, "language", "")>> >> \o Lines(ExtractText(node.content))
           \o << <<Fence>> >>
    [] node.type = "blockquote" -> Quoted(ConvertNodes(node.content, indent))
    [] node.type = "horizontalRule" -> << <<"---">> >>
    [] node.type = "table" -> ConvertTable(node)
    [] node.type = "image" -> Image(node)
    [] OTHER -> <<>>

\* convert_nodes: the lines of the nodes that have any, each with an empty line
\* after it.
ConvertNodes(nodes, indent) ==
  TrimEnd(Concat(LAMBDA node :
    LET lines == Block(node, indent)
    IN IF lines = <<>> THEN <<>> ELSE Append(lines, <<>>), nodes))

ProsemirrorToMarkdown(node) ==
  IF node.type = "doc" THEN Trim(ConvertNodes(node.content, 0)) ELSE <<>>
=============================================================================
