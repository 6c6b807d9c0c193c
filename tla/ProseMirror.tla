---------------------------- MODULE ProseMirror ----------------------------
(***************************************************************************)
(* services/prosemirror.py with its callers in services/ai_queries.py and   *)
(* services/prompts.py: the document as an AI query shows it to the model,  *)
(* and the edit that puts the answer back.                                  *)
(*                                                                         *)
(* A node is [type, text, marks], [type] for a leaf, or [type, content].    *)
(* Text is a sequence of characters: "nl" is a newline, "sp" a space, and   *)
(* "wide" one outside the basic plane, which is two UTF-16 units long.      *)
(***************************************************************************)
EXTENDS Integers, FiniteSets, Sequences, SequencesExt

LeafTypes == {"hardBreak", "horizontalRule", "pageBreak", "image"}
TextblockTypes == {"paragraph", "heading", "codeBlock"}

Text(chars, marks) == [type |-> "text", text |-> chars, marks |-> marks]
HardBreak == [type |-> "hardBreak"]
Block(type, content) == [type |-> type, content |-> content]

Sum(s) == FoldLeft(LAMBDA total, n : total + n, 0, s)
Each(Op(_), s) == [i \in DOMAIN s |-> Op(s[i])]
White(c) == c \in {"sp", "nl", "gap"}

-----------------------------------------------------------------------------
(* Sizes and positions.                                                     *)

Units16(c) == IF c = "wide" THEN 2 ELSE 1
Utf16Len(text) == Sum(Each(Units16, text))

(* The index that lies `units` UTF-16 code units in.                        *)
Utf16Index(text, units) ==
  Cardinality({i \in 1 .. Len(text) : Utf16Len(SubSeq(text, 1, i - 1)) < units})

RECURSIVE NodeSize(_)
NodeSize(node) ==
  CASE node.type = "text"        -> Utf16Len(node.text)
    [] node.type \in LeafTypes   -> 1
    [] OTHER                     -> Sum(Each(NodeSize, node.content)) + 2

ContentSize(node) == Sum(Each(NodeSize, node.content))

IsTextblock(node) == node.type \in TextblockTypes

(* The position, from `base`, where child i starts.                         *)
ChildPos(children, base, i) == base + Sum(Each(NodeSize, SubSeq(children, 1, i - 1)))

-----------------------------------------------------------------------------
(* to_plain_text.  A marker is one "#", the blank line between blocks "gap". *)

Emit(plain, text) == [plain EXCEPT !.text = @ \o text]
EmitRun(plain, text, pos, size) ==
  [text |-> plain.text \o text,
   runs |-> Append(plain.runs, [pos |-> pos, size |-> size,
                                offset |-> Len(plain.text), text |-> text])]
Separate(plain) == IF plain.text = <<>> THEN plain ELSE Emit(plain, <<"gap">>)

Inline(plain, children, pos) ==
  FoldLeft(LAMBDA p, i :
             LET child == children[i] at == ChildPos(children, pos, i) IN
             CASE child.type = "text"      -> EmitRun(p, child.text, at, NodeSize(child))
               [] child.type = "hardBreak" -> EmitRun(p, <<"nl">>, at, 1)
               [] OTHER                    -> p,
           plain, [i \in DOMAIN children |-> i])

(* _Builder.block: list items, quotes, headings and fences have a marker.   *)
Marked(type) == type \in {"heading", "codeBlock", "bulletList", "orderedList", "taskList",
                          "blockquote"}

RECURSIVE PlainBlock(_, _, _, _)
PlainBlock(plain, node, pos, marker) ==
  LET mark == IF Marked(node.type) THEN marker \o <<"#">> ELSE marker IN
  CASE IsTextblock(node) ->
         LET body == Inline(Emit(Separate(plain), mark), node.content, pos + 1)
         IN  IF node.type = "codeBlock" THEN Emit(body, <<"#">>) ELSE body
    [] node.type \in {"horizontalRule", "pageBreak"} ->
         Emit(Separate(plain), marker \o <<"#">>)
    [] node.type \in LeafTypes -> plain
    [] OTHER ->
         FoldLeft(LAMBDA p, i : PlainBlock(p, node.content[i],
                                           ChildPos(node.content, pos + 1, i), mark),
                  plain, [i \in DOMAIN node.content |-> i])

ToPlainText(doc) ==
  FoldLeft(LAMBDA p, i : PlainBlock(p, doc.content[i], ChildPos(doc.content, 0, i), <<>>),
           [text |-> <<>>, runs |-> <<>>], [i \in DOMAIN doc.content |-> i])

(* PlainText.offset: in markup, the next run's start or the last one's end. *)
Offset(plain, pos, forward) ==
  LET index == Cardinality({i \in DOMAIN plain.runs : plain.runs[i].pos <= pos})
      run == plain.runs[index]
  IN  CASE index > 0 /\ pos <= run.pos + run.size ->
             run.offset + Utf16Index(run.text, pos - run.pos)
        [] forward /\ index < Len(plain.runs) -> plain.runs[index + 1].offset
        [] forward -> Len(plain.text)
        [] index = 0 -> 0
        [] OTHER -> run.offset + Len(run.text)

-----------------------------------------------------------------------------
(* Selections.                                                              *)

BlockSpans(doc) ==
  [i \in DOMAIN doc.content |->
     <<ChildPos(doc.content, 0, i), ChildPos(doc.content, 0, i + 1)>>]

(* 0: no block.                                                             *)
BlockAt(spans, pos, forward) ==
  LET hits == {i \in DOMAIN spans : \/ spans[i][1] < pos /\ pos < spans[i][2]
                                    \/ pos = IF forward THEN spans[i][1] ELSE spans[i][2]}
  IN  IF hits = {} THEN 0 ELSE Min(hits)

(* The children that hold pos strictly between their ends: one, or none.    *)
Holding(children, pos, base) ==
  {i \in DOMAIN children : /\ ChildPos(children, base, i) < pos
                           /\ pos < ChildPos(children, base, i + 1)}

(* The textblock, at any depth, that holds pos: one, or none.               *)
RECURSIVE TextblockAt(_, _, _)
TextblockAt(node, pos, base) ==
  UNION {CASE IsTextblock(node.content[i]) ->
                {[path |-> <<i>>, start |-> ChildPos(node.content, base, i)]}
           [] node.content[i].type \in LeafTypes \cup {"text"} -> {}
           [] OTHER -> {[found EXCEPT !.path = <<i>> \o @] :
                          found \in TextblockAt(node.content[i], pos,
                                                ChildPos(node.content, base, i) + 1)}
         : i \in Holding(node.content, pos, base)}

RECURSIVE Get(_, _)
Get(node, path) == IF path = <<>> THEN node ELSE Get(node.content[Head(path)], Tail(path))

RECURSIVE Put(_, _, _)
Put(node, path, replacement) ==
  IF path = <<>> THEN replacement
  ELSE [node EXCEPT !.content[Head(path)] = Put(@, Tail(path), replacement)]

InOneTextblock(doc, start, end) ==
  \E first \in TextblockAt(doc, start, 0) :
    \E last \in TextblockAt(doc, end, 0) : first.path = last.path

NoRange == <<>>

SnapSelection(doc, start, end) ==
  LET spans == BlockSpans(doc)
      i == BlockAt(spans, start, TRUE)
      j == BlockAt(spans, end, FALSE)
  IN  CASE InOneTextblock(doc, start, end) -> <<start, end>>
        [] i = 0 \/ j = 0 \/ i > j -> NoRange
        [] OTHER -> <<spans[i][1], spans[j][2]>>

-----------------------------------------------------------------------------
(* The edit.                                                                *)

SliceInline(children, start, end) ==
  LET part(i) ==
        LET child == children[i]
            pos == ChildPos(children, 0, i)
            low == Max({start, pos})
            high == Min({end, pos + NodeSize(child)})
        IN  CASE low >= high -> <<>>
              [] child.type = "text" ->
                   <<[child EXCEPT !.text = SubSeq(@, Utf16Index(@, low - pos) + 1,
                                                      Utf16Index(@, high - pos))]>>
              [] OTHER -> <<child>>
  IN  FlattenSeq([i \in DOMAIN children |-> part(i)])

(* Mutant: equal marks are not looked for, so neighbours stay apart.        *)
NormalizeInlineMutant(nodes) == SelectSeq(nodes, LAMBDA n : n.type # "text" \/ n.text # <<>>)

(* No empty text node, and neighbours with the same marks merged.           *)
NormalizeInline(nodes) ==
  FoldLeft(LAMBDA out, n :
             CASE n.type = "text" /\ n.text = <<>> -> out
               [] /\ n.type = "text" /\ out # <<>>
                  /\ Last(out).type = "text" /\ Last(out).marks = n.marks ->
                    [out EXCEPT ![Len(out)].text = @ \o n.text]
               [] OTHER -> Append(out, n),
           <<>>, nodes)

InlineText(nodes) ==
  FlattenSeq([i \in DOMAIN nodes |-> IF nodes[i].type = "text" THEN nodes[i].text ELSE <<"nl">>])

LeadOf(text) == SubSeq(text, 1, Cardinality({i \in DOMAIN text : \A k \in 1 .. i : White(text[k])}))
TrailOf(text) ==
  SubSeq(text, 1 + Cardinality({i \in DOMAIN text : \E k \in i .. Len(text) : ~White(text[k])}),
         Len(text))
Strip(text) == SubSeq(text, Len(LeadOf(text)) + 1, Len(text) - Len(TrailOf(text)))

(* The lines between newlines, and the paragraphs between blank lines.      *)
RECURSIVE SplitLines(_)
SplitLines(text) ==
  IF ~Contains(text, "nl") THEN <<text>>
  ELSE LET i == Min({k \in DOMAIN text : text[k] = "nl"})
       IN  <<SubSeq(text, 1, i - 1)>> \o SplitLines(SubSeq(text, i + 1, Len(text)))

(* Newlines i and j with only characters P between them.                    *)
Gaps(text, P(_)) ==
  {g \in (DOMAIN text) \X (DOMAIN text) :
     g[1] < g[2] /\ text[g[1]] = "nl" /\ text[g[2]] = "nl"
       /\ \A k \in g[1] + 1 .. g[2] - 1 : P(text[k])}

(* re.sub(r"\n\s*\n", "\n"): leftmost, and as far as it goes.               *)
RECURSIVE CollapseBlankLines(_)
CollapseBlankLines(text) ==
  LET gaps == Gaps(text, White)
      i == Min({g[1] : g \in gaps})
      j == Max({g[2] : g \in {h \in gaps : h[1] = i}})
  IN  IF gaps = {} THEN text
      ELSE SubSeq(text, 1, i) \o CollapseBlankLines(SubSeq(text, j + 1, Len(text)))

(* re.split(r"\n[ \t]*\n").                                                 *)
RECURSIVE SplitParagraphs(_)
SplitParagraphs(text) ==
  LET gaps == Gaps(text, LAMBDA c : c = "sp")
      i == Min({g[1] : g \in gaps})
      j == Min({g[2] : g \in {h \in gaps : h[1] = i}})
  IN  IF gaps = {} THEN <<text>>
      ELSE <<SubSeq(text, 1, i - 1)>> \o SplitParagraphs(SubSeq(text, j + 1, Len(text)))

InlineNodes(text, code) ==
  LET lines == SplitLines(text)
      node(line) == IF line = <<>> THEN <<>> ELSE <<Text(line, {})>>
  IN  IF code THEN node(text)
      ELSE FlattenSeq([i \in DOMAIN lines |->
                         (IF i = 1 THEN <<>> ELSE <<HardBreak>>) \o node(lines[i])])

(* str.strip("\n").                                                         *)
StripNewlines(text) ==
  LET kept == {i \in DOMAIN text : text[i] # "nl"}
  IN  IF kept = {} THEN <<>> ELSE SubSeq(text, Min(kept), Max(kept))

Paragraphs(text) ==
  LET blocks == SelectSeq(SplitParagraphs(StripNewlines(text)), LAMBDA b : Strip(b) # <<>>)
  IN  [i \in DOMAIN blocks |-> Block("paragraph", InlineNodes(StripNewlines(blocks[i]), FALSE))]

Step(from, to, nodes) == [from |-> from, to |-> to, slice |-> nodes]
NoEdit == [content |-> <<>>]

(* The answer between the blanks that were selected; a blank selection is   *)
(* its own lead and its own trail.                                          *)
Answered(original, text, code) ==
  InlineNodes(LeadOf(original) \o (IF code THEN text ELSE CollapseBlankLines(text))
                \o TrailOf(original), code)

(* replace_selection, in one textblock, from low to high of its content.    *)
ReplaceInline(doc, path, block, start, low, high, text) ==
  LET content == block.content
      inserted == Answered(InlineText(SliceInline(content, low, high)), Strip(text),
                           block.type = "codeBlock")
      merged == NormalizeInline(SliceInline(content, 0, low) \o inserted
                                \o SliceInline(content, high, ContentSize(block)))
  IN  [content |-> Put(doc, path, [block EXCEPT !.content = merged]),
       step |-> Step(start + low, start + high, inserted)]

(* replace_selection across blocks: whole top-level blocks as paragraphs.   *)
ReplaceBlocks(doc, start, end, text) ==
  LET snapped == SnapSelection(doc, start, end)
      spans == BlockSpans(doc)
      i == BlockAt(spans, snapped[1], TRUE)
      j == BlockAt(spans, snapped[2], FALSE)
      nodes == Paragraphs(text)
  IN  IF snapped = NoRange THEN NoEdit
      ELSE [content |-> [doc EXCEPT !.content = SubSeq(@, 1, i - 1) \o nodes
                                                \o SubSeq(@, j + 1, Len(@))],
            step |-> Step(snapped[1], snapped[2], nodes)]

ReplaceSelection(doc, start, end, text) ==
  LET found == CHOOSE f \in TextblockAt(doc, start, 0) : TRUE
      inside == found.start + 1
  IN  IF InOneTextblock(doc, start, end)
        THEN ReplaceInline(doc, found.path, Get(doc, found.path), inside,
                           start - inside, end - inside, text)
        ELSE ReplaceBlocks(doc, start, end, text)

(* insert_after: below the top-level block that holds pos, else at the end. *)
InsertAfter(doc, pos, text) ==
  LET spans == BlockSpans(doc)
      found == IF pos = -1 THEN 0 ELSE BlockAt(spans, pos, FALSE)
      index == IF found = 0 THEN Len(spans) ELSE found
      at == IF index = 0 THEN 0 ELSE spans[index][2]
      nodes == Paragraphs(text)
  IN  [content |-> [doc EXCEPT !.content = SubSeq(@, 1, index) \o nodes
                                           \o SubSeq(@, index + 1, Len(@))],
       step |-> Step(at, at, nodes)]

-----------------------------------------------------------------------------
(* The prompt's share of the document.                                      *)

Omitted == <<"...">>

(* head_share is share[1] / share[2].                                       *)
KeepEnds(text, budget, share) ==
  LET head == (budget * share[1]) \div share[2]
      tail == budget - head
  IN  IF Len(text) <= budget THEN text
      ELSE SubSeq(text, 1, head) \o Omitted \o SubSeq(text, Len(text) - tail + 1, Len(text))

Refused == [before |-> <<>>, selection |-> <<>>, after |-> <<>>, error |-> TRUE]
Context(before, selection, after) ==
  [before |-> before, selection |-> selection, after |-> after, error |-> FALSE]

(* Mutant: what the text before does not need is not given to the text      *)
(* after.                                                                   *)
RoomsMutant(before, after, room) ==
  LET third == Min({Len(after), room \div 3}) IN [before |-> room, after |-> third]

(* _around_selection: a third to the text after, and what one side does not *)
(* need to the other.                                                       *)
Rooms(before, after, room) ==
  LET third == Min({Len(after), room \div 3})
      rest == room - third
  IN  IF rest <= Len(before) THEN [before |-> rest, after |-> third]
      ELSE [before |-> Len(before), after |-> Min({Len(after), third + rest - Len(before)})]

AroundSelection(text, start, end, budget) ==
  LET selection == SubSeq(text, start + 1, end)
      before == SubSeq(text, 1, start)
      after == SubSeq(text, end + 1, Len(text))
      room == budget - Len(selection)
      rooms == Rooms(before, after, room)
  IN  CASE Len(selection) > budget -> Refused
        [] Len(before) + Len(after) <= room -> Context(before, selection, after)
        [] OTHER -> Context(KeepEnds(before, rooms.before, <<2, 5>>), selection,
                            SubSeq(after, 1, rooms.after)
                              \o IF rooms.after < Len(after) THEN Omitted ELSE <<>>)

BuildContext(doc, mode, from, to, budget) ==
  LET plain == ToPlainText(doc)
      text == plain.text
      start == Offset(plain, from, TRUE)
      end == Offset(plain, to, FALSE)
      cursor == IF to = -1 THEN Len(text) ELSE end
  IN  CASE mode = "rewrite" ->
             IF end <= start \/ Strip(SubSeq(text, start + 1, end)) = <<>> THEN Refused
             ELSE AroundSelection(text, start, end, budget)
        [] mode = "continue" -> Context(KeepEnds(SubSeq(text, 1, cursor), budget, <<1, 4>>), <<>>, <<>>)
        [] OTHER -> Context(KeepEnds(text, budget, <<1, 2>>), <<>>, <<>>)

(* create_query's checks; -1 is no selection.  The range is stored snapped. *)
StoredRange(doc, mode, from, to) ==
  CASE mode # "rewrite" /\ doc.content = <<>> -> <<-1, -1>>
    [] from > ContentSize(doc) \/ to > ContentSize(doc) \/ from > to -> NoRange
    [] mode = "rewrite" -> SnapSelection(doc, from, to)
    [] OTHER -> <<from, to>>

CreateQuery(doc, mode, from, to, budget) ==
  LET range == StoredRange(doc, mode, from, to)
  IN  [range |-> range,
       context |-> IF range = NoRange THEN Refused
                   ELSE BuildContext(doc, mode, range[1], range[2], budget)]

(* _edit_for.                                                               *)
EditFor(doc, mode, range, response) ==
  IF mode # "rewrite" THEN InsertAfter(doc, range[2], response)
  ELSE IF range[1] < range[2] THEN ReplaceSelection(doc, range[1], range[2], response)
  ELSE NoEdit

-----------------------------------------------------------------------------
(* The reference: a document as ProseMirror counts it, a token per position *)
(* in the document, and a ReplaceStep as every client applies it.           *)

RECURSIVE Flat(_)
Flat(node) ==
  CASE node.type = "text" ->
         FlattenSeq([i \in DOMAIN node.text |->
           [half \in 1 .. Units16(node.text[i]) |-> <<node.text[i], half, node.marks>>]])
    [] node.type \in LeafTypes -> <<<<node.type>>>>
    [] OTHER -> <<<<"open", node.type>>>> \o FlattenSeq(Each(Flat, node.content))
                  \o <<<<"close", node.type>>>>

FlatContent(doc) == FlattenSeq(Each(Flat, doc.content))

Replayed(doc, step) ==
  LET flat == FlatContent(doc)
  IN  SubSeq(flat, 1, step.from) \o FlattenSeq(Each(Flat, step.slice))
        \o SubSeq(flat, step.to + 1, Len(flat))

(* As ProseMirror keeps it: no empty text, no neighbours with equal marks.  *)
RECURSIVE Normal(_)
Normal(node) ==
  \/ node.type \in LeafTypes
  \/ node.type = "text" /\ node.text # <<>>
  \/ /\ node.type \notin LeafTypes \cup {"text"}
     /\ \A i \in DOMAIN node.content : Normal(node.content[i])
     /\ \A i \in 1 .. Len(node.content) - 1 :
          ~(/\ node.content[i].type = "text" /\ node.content[i + 1].type = "text"
            /\ node.content[i].marks = node.content[i + 1].marks)

(* The document's own characters between two positions.                     *)
Words(doc, from, to) ==
  LET part == SubSeq(FlatContent(doc), from + 1, to)
      chars == SelectSeq(part, LAMBDA t : (Len(t) = 3 /\ t[2] = 1) \/ t = <<"hardBreak">>)
  IN  [i \in DOMAIN chars |-> IF Len(chars[i]) = 3 THEN chars[i][1] ELSE "nl"]

(* The characters of a prompt that are the document's own.                  *)
Bare(text) == SelectSeq(text, LAMBDA c : c \notin {"#", "gap"})
Kept(text) == SelectSeq(text, LAMBDA c : c # "...")
=============================================================================
