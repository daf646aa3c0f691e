----------------------------- MODULE DocBuilder -----------------------------
(***************************************************************************)
(* How the server turns Markdown into a ProseMirror document               *)
(* (src/src/prosemirror/writer): the events of the Markdown parser, one    *)
(* after the other, are handled by a builder that keeps a stack of open    *)
(* blocks, the open marks, and an image or a mention whose text it is      *)
(* collecting.                                                             *)
(***************************************************************************)
EXTENDS ProseMirror

Frame(type) ==
  [type |-> type, attrs |-> <<>>, content |-> <<>>, is_task_list |-> FALSE, code |-> <<>>]

\* Frame::into_value: code loses the end of its last line.
IntoValue(frame) ==
  LET code == Head(frame.code)
      text == IF code # <<>> /\ Last(code) = LineEnd THEN Front(code) ELSE code
  IN Node(frame.type, frame.attrs,
          IF frame.code = <<>> THEN frame.content
          ELSE IF text = <<>> THEN <<>> ELSE <<TextNode(text, <<>>)>>)

New == [stack |-> <<Frame("doc")>>, marks |-> <<>>, in_table_head |-> FALSE,
        image |-> <<>>, pending_mention |-> <<>>]

-----------------------------------------------------------------------------
Top(b) == Last(b.stack)
WithTop(b, frame) == [b EXCEPT !.stack = Append(Front(@), frame)]
PushFrame(b, frame) == [b EXCEPT !.stack = Append(@, frame)]
Popped(b) == [b EXCEPT !.stack = Front(@)]

AppendToTop(b, node) == WithTop(b, [Top(b) EXCEPT !.content = Append(@, node)])

PushMark(b, mark) == [b EXCEPT !.marks = Append(@, mark)]

\* The last mark of that kind.
PopMark(b, kind) ==
  LET found == {i \in DOMAIN b.marks : b.marks[i].type = kind}
  IN IF found = {} THEN b ELSE [b EXCEPT !.marks = RemoveAt(@, Max(found))]

AppendToTrailingParagraph(b, node) ==
  LET content == Top(b).content
      has_paragraph == content # <<>> /\ Last(content).type = "paragraph"
      paragraph == IF has_paragraph THEN Last(content) ELSE Node("paragraph", <<>>, <<>>)
      before == IF has_paragraph THEN Front(content) ELSE content
  IN IF ~has_paragraph /\ IsWhitespaceText(node) THEN b
     ELSE WithTop(b, [Top(b) EXCEPT
            !.content = Append(before, [paragraph EXCEPT !.content = Append(@, node)])])

PushInline(b, node) ==
  IF Top(b).type \in {"paragraph", "heading"} THEN AppendToTop(b, node)
  ELSE AppendToTrailingParagraph(b, node)

-----------------------------------------------------------------------------
\* A user: or page: URL with an id starts a mention.
StartLink(b, url) ==
  IF url.scheme \in {"user", "page"} /\ url.id # ""
  THEN [b EXCEPT !.pending_mention =
          <<[entity_type |-> url.scheme, entity_id |-> url.id, label |-> <<>>]>>]
  ELSE PushMark(b, [type |-> "link", href |-> url.scheme \o ":" \o url.id])

Start(b, tag) ==
  CASE tag.tag = "paragraph" -> PushFrame(b, Frame("paragraph"))
    [] tag.tag = "heading" ->
         PushFrame(b, [Frame("heading") EXCEPT !.attrs = [level |-> tag.level]])
    [] tag.tag = "blockquote" -> PushFrame(b, Frame("blockquote"))
    [] tag.tag = "codeBlock" ->
         PushFrame(b, [Frame("codeBlock") EXCEPT !.code = << <<>> >>,
           !.attrs = [language |-> IF tag.info = <<>> THEN "" ELSE Head(tag.info)]])
    [] tag.tag = "list" /\ tag.ordered ->
         PushFrame(b, [Frame("orderedList") EXCEPT
           !.attrs = IF tag.start # 1 THEN [start |-> tag.start] ELSE <<>>])
    [] tag.tag = "list" /\ ~tag.ordered -> PushFrame(b, Frame("bulletList"))
    [] tag.tag = "item" -> PushFrame(b, Frame("listItem"))
    [] tag.tag = "table" ->
         PushFrame([b EXCEPT !.in_table_head = FALSE], Frame("table"))
    [] tag.tag = "tableHead" ->
         PushFrame([b EXCEPT !.in_table_head = TRUE], Frame("tableRow"))
    [] tag.tag = "tableRow" -> PushFrame(b, Frame("tableRow"))
    [] tag.tag = "tableCell" ->
         PushFrame(b, Frame(IF b.in_table_head THEN "tableHeader" ELSE "tableCell"))
    [] tag.tag \in {"italic", "bold", "strike"} -> PushMark(b, [type |-> tag.tag])
    [] tag.tag = "link" -> StartLink(b, tag.url)
    [] tag.tag = "image" -> [b EXCEPT !.image = <<[src |-> tag.src, alt |-> <<>>]>>]

-----------------------------------------------------------------------------
CloseFrame(b) ==
  IF Len(b.stack) <= 1 THEN b ELSE AppendToTop(Popped(b), IntoValue(Top(b)))

FinishMention(b) ==
  PushInline([b EXCEPT !.pending_mention = <<>>], MentionNode(Head(b.pending_mention)))

FinishImage(b) ==
  IF b.image = <<>> THEN b
  ELSE AppendToTop([b EXCEPT !.image = <<>>], Node("image", Head(b.image), <<>>))

\* A paragraph of images alone becomes image blocks.
FinishParagraph(b) ==
  LET frame == Top(b) IN
  IF Len(b.stack) <= 1 THEN b
  ELSE IF frame.content = <<>> THEN Popped(b)
  ELSE IF \A i \in DOMAIN frame.content : frame.content[i].type = "image"
  THEN FoldLeft(AppendToTop, Popped(b), frame.content)
  ELSE AppendToTop(Popped(b), IntoValue(frame))

\* Mutant of TaskItem: items without a marker stay what they are.
SameItem(item) == item

\* A plain item in a task list becomes an unchecked one.
TaskItem(item) ==
  IF item.type # "listItem" THEN item
  ELSE [item EXCEPT !.type = "taskItem", !.attrs = [checked |-> FALSE]]

FinishList(b) ==
  LET frame == Top(b)
      items == Concat(LAMBDA item : <<TaskItem(item)>>, frame.content)
  IN IF Len(b.stack) <= 1 THEN b
     ELSE AppendToTop(Popped(b),
            IntoValue(IF frame.is_task_list
                      THEN [frame EXCEPT !.type = "taskList", !.content = items]
                      ELSE frame))

End(b, tag) ==
  CASE tag.tag \in {"italic", "bold", "strike"} -> PopMark(b, tag.tag)
    [] tag.tag = "link" -> IF b.pending_mention # <<>> THEN FinishMention(b)
                           ELSE PopMark(b, "link")
    [] tag.tag = "image" -> FinishImage(b)
    [] tag.tag = "paragraph" -> FinishParagraph(b)
    [] tag.tag = "list" -> FinishList(b)
    [] tag.tag = "tableHead" -> CloseFrame([b EXCEPT !.in_table_head = FALSE])
    [] tag.tag \in {"heading", "blockquote", "codeBlock", "item", "table",
                    "tableRow", "tableCell"} -> CloseFrame(b)

-----------------------------------------------------------------------------
Label(b, text) == [b EXCEPT !.pending_mention[1].label = @ \o text]

\* Text goes to the image or the mention that is open, or to the code block.
Text(b, text) ==
  IF b.image # <<>> THEN [b EXCEPT !.image[1].alt = @ \o text]
  ELSE IF b.pending_mention # <<>> THEN Label(b, text)
  ELSE IF Top(b).code # <<>>
  THEN WithTop(b, [Top(b) EXCEPT !.code[1] = @ \o text])
  ELSE PushInline(b, TextNode(text, b.marks))

\* Mutant of InlineCode: the code mark comes last.
CodeOutermost(b, code) ==
  IF b.pending_mention # <<>> THEN Label(b, code)
  ELSE PushInline(b, TextNode(code, Append(b.marks, [type |-> "code"])))

\* The code mark is the first one, so that it is innermost.
InlineCode(b, code) ==
  IF b.pending_mention # <<>> THEN Label(b, code)
  ELSE PushInline(b, TextNode(code, <<[type |-> "code"]>> \o b.marks))

TaskMarker(b, checked) ==
  LET item == [Top(b) EXCEPT !.type = "taskItem", !.attrs = [checked |-> checked]]
      marked == WithTop(b, item)
      depth == Len(b.stack)
  IN IF depth >= 2 THEN [marked EXCEPT !.stack[depth - 1].is_task_list = TRUE]
     ELSE marked

PushBreak(b, soft) ==
  IF b.pending_mention # <<>> THEN Label(b, <<Space>>)
  ELSE PushInline(b, IF soft THEN TextNode(<<Space>>, b.marks)
                     ELSE Node("hardBreak", <<>>, <<>>))

Handle(b, event) ==
  CASE event.event = "start" -> Start(b, event.tag)
    [] event.event = "end" -> End(b, event.tag)
    [] event.event = "text" -> Text(b, event.text)
    [] event.event = "code" -> InlineCode(b, event.text)
    [] event.event = "softBreak" -> PushBreak(b, TRUE)
    [] event.event = "hardBreak" -> PushBreak(b, FALSE)
    [] event.event = "rule" -> AppendToTop(b, Node("horizontalRule", <<>>, <<>>))
    [] event.event = "taskListMarker" -> TaskMarker(b, event.checked)
    [] OTHER -> b

\* finish: frames that are still open are closed.
RECURSIVE Finish(_)
Finish(b) ==
  IF Len(b.stack) > 1 THEN Finish(AppendToTop(Popped(b), IntoValue(Top(b))))
  ELSE IntoValue(Top(b))
=============================================================================
