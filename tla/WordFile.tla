------------------------------ MODULE WordFile ------------------------------
(***************************************************************************)
(* services/docx_export.py and services/docx_import.py: a document as the   *)
(* paragraphs of a Word file and back.  Word has no nested blocks: export   *)
(* flattens lists, quotes and code to numbered or styled paragraphs, and    *)
(* import gathers neighbours again.                                         *)
(*                                                                         *)
(* A block is a record with a type: [type, text] for paragraphs and         *)
(* headings, [type, lines] for code, [type, blocks] for a quote,            *)
(* [type, start, items] for a list, whose items are [checked, blocks], or a *)
(* rule or page break.  Inline content and styling are one word.            *)
(***************************************************************************)
EXTENDS Integers, FiniteSets, Sequences, SequencesExt

CONSTANT ListLevels   \* 9 in docx_export: deeper lists share the last level

ListTypes == {"bulletList", "orderedList", "taskList"}
IsList(block) == block.type \in ListTypes

-----------------------------------------------------------------------------
(* Export.  A paragraph of the file is [style, text, num, box]: num is the  *)
(* instance its list was given, or 0; box the ballot box of a checklist.    *)

NotNumbered == [id |-> <<>>, level |-> 0, format |-> "none", start |-> 0]

WordParagraph(style, text) ==
  [style |-> style, text |-> text, num |-> NotNumbered, box |-> "none"]

(* _Numbering.start: an instance of its own for every list, here by its     *)
(* place in the document.                                                   *)
StartNumbering(list, path, level) ==
  [id |-> path, level |-> IF level < ListLevels THEN level ELSE ListLevels - 1,
   format |-> IF list.type = "orderedList" THEN "decimal" ELSE "bullet",
   start |-> IF list.type = "orderedList" THEN list.start ELSE 1]

BallotBox(list, entry) ==
  CASE list.type # "taskList" -> "none"
    [] entry.checked -> "checked"
    [] OTHER -> "unchecked"

RECURSIVE WriteBlock(_, _, _), WriteList(_, _, _)

WriteBlock(block, path, quote) ==
  CASE block.type = "paragraph" -> <<WordParagraph(IF quote THEN "Quote" ELSE "Normal", block.text)>>
    [] block.type = "heading" -> <<WordParagraph("Heading", block.text)>>
    [] block.type = "codeBlock" -> <<WordParagraph("Code", block.lines)>>
    [] block.type = "horizontalRule" -> <<WordParagraph("Rule", "")>>
    [] block.type = "pageBreak" -> <<WordParagraph("Page", "")>>
    [] block.type = "blockquote" ->
         FlattenSeq([i \in DOMAIN block.blocks |-> WriteBlock(block.blocks[i], Append(path, i), TRUE)])
    [] IsList(block) -> WriteList(block, path, 0)

(* An entry's first paragraph is numbered; lists in it go a level down, and *)
(* all else is written as it would be outside.                              *)
WriteList(list, path, level) ==
  LET num == StartNumbering(list, path, level)
      first(blocks) == {i \in DOMAIN blocks : blocks[i].type \in {"paragraph", "heading"}}
      write(entry, i, at) ==
        LET block == entry.blocks[i] IN
        CASE IsList(block) -> WriteList(block, Append(at, i), level + 1)
          [] i \in first(entry.blocks) /\ i = Min(first(entry.blocks)) ->
               <<[style |-> "Normal", text |-> block.text, num |-> num, box |-> BallotBox(list, entry)]>>
          [] OTHER -> WriteBlock(block, Append(at, i), FALSE)
  IN  FlattenSeq([k \in DOMAIN list.items |->
        FlattenSeq([i \in DOMAIN list.items[k].blocks |->
                      write(list.items[k], i, Append(path, k))])])

ToDocx(doc) == FlattenSeq([i \in DOMAIN doc |-> WriteBlock(doc[i], <<i>>, FALSE)])

-----------------------------------------------------------------------------
(* Import.                                                                  *)

(* _list_item's counter: the entries seen of this instance at this level,   *)
(* since the last one further out.                                          *)
Seen(file, k) ==
  LET same == {i \in 1 .. k - 1 : file[i].num.id = file[k].num.id}
      outer == {i \in same : file[i].num.level < file[k].num.level}
      since == {i \in same : \A o \in outer : o < i}
  IN  Cardinality({i \in since : file[i].num.level = file[k].num.level})

(* Mutant: the number is the instance's start, whatever was seen.           *)
NumberMutant(file, k) == file[k].num.start

Number(file, k) == file[k].num.start + Seen(file, k)

(* _paragraph_body and _list_item: what a paragraph is before gathering.    *)
ItemOf(file, k) ==
  LET p == file[k] IN
  CASE p.num = NotNumbered -> [kind |-> p.style, text |-> p.text]
    [] OTHER -> [kind |-> "list", text |-> p.text, level |-> p.num.level,
                 type |-> CASE p.num.format # "bullet" -> "orderedList"
                            [] p.box = "none" -> "bulletList"
                            [] OTHER -> "taskList",
                 start |-> IF p.num.format = "bullet" THEN 1 ELSE Number(file, k),
                 checked |-> p.box = "checked"]

NewList(item) == [type |-> item.type, start |-> item.start, items |-> <<>>]
NewEntry(item) ==
  [checked |-> item.checked, blocks |-> <<[type |-> "paragraph", text |-> item.text]>>]

(* The open lists are the last block, the last block of its last entry, and *)
(* so on: AddBlock and AddEntry reach the one `depth` lists in.             *)
RECURSIVE AddBlock(_, _, _)
AddBlock(blocks, depth, block) ==
  IF depth = 0 THEN Append(blocks, block)
  ELSE LET entries == Last(blocks).items IN
       [blocks EXCEPT ![Len(blocks)].items[Len(entries)].blocks = AddBlock(@, depth - 1, block)]

RECURSIVE AddEntry(_, _, _)
AddEntry(blocks, depth, entry) ==
  IF depth = 1 THEN [blocks EXCEPT ![Len(blocks)].items = Append(@, entry)]
  ELSE LET entries == Last(blocks).items IN
       [blocks EXCEPT ![Len(blocks)].items[Len(entries)].blocks = AddEntry(@, depth - 1, entry)]

(* _place: close the lists further in, and one of another kind at this      *)
(* level; open one unless one is open at this level.                        *)
Place(state, item) ==
  LET within == SelectSeq(state.stack, LAMBDA open : open.level <= item.level)
      other == /\ within # <<>> /\ Last(within).level = item.level
               /\ Last(within).type # item.type
      stack == IF other THEN Front(within) ELSE within
      here == [level |-> item.level, type |-> item.type]
  IN  IF stack # <<>> /\ Last(stack).level = item.level
        THEN [out |-> AddEntry(state.out, Len(stack), NewEntry(item)), stack |-> stack]
        ELSE [out |-> AddEntry(AddBlock(state.out, Len(stack), NewList(item)),
                               Len(stack) + 1, NewEntry(item)),
              stack |-> Append(stack, here)]

(* _gather: neighbours of a quote or of code join, anything closes lists.   *)
Gather(items) ==
  LET put(state, block) == [out |-> Append(state.out, block), stack |-> <<>>, last |-> block.type]
      paragraph(item) == [type |-> "paragraph", text |-> item.text]
      gather(state, item) ==
        CASE item.kind = "list" -> Place(state, item) @@ [last |-> "list"]
          [] item.kind = "Quote" /\ state.last = "blockquote" ->
               [state EXCEPT !.out[Len(state.out)].blocks = Append(@, paragraph(item))]
          [] item.kind = "Quote" -> put(state, [type |-> "blockquote", blocks |-> <<paragraph(item)>>])
          [] item.kind = "Code" /\ state.last = "codeBlock" ->
               [state EXCEPT !.out[Len(state.out)].lines = @ \o item.text]
          [] item.kind = "Code" -> put(state, [type |-> "codeBlock", lines |-> item.text])
          [] item.kind = "Rule" -> put(state, [type |-> "horizontalRule"])
          [] item.kind = "Page" -> put(state, [type |-> "pageBreak"])
          [] item.kind = "Heading" -> put(state, [type |-> "heading", text |-> item.text])
          [] OTHER -> put(state, paragraph(item))
  IN  FoldLeft(gather, [out |-> <<>>, stack |-> <<>>, last |-> "none"], items).out

ImportDocx(file) == Gather([k \in DOMAIN file |-> ItemOf(file, k)])

-----------------------------------------------------------------------------
(* What should come back.                                                   *)

Merges(a, b) == a.type = b.type /\ a.type \in ListTypes \cup {"blockquote", "codeBlock"}

RECURSIVE Simple(_, _)

(* An entry is a paragraph and the lists in it.                             *)
SimpleEntry(entry, depth) ==
  /\ entry.blocks # <<>> /\ entry.blocks[1].type = "paragraph"
  /\ \A i \in 2 .. Len(entry.blocks) : IsList(entry.blocks[i])
  /\ Simple(Tail(entry.blocks), depth + 1)

(* Nothing that Word has no way to keep apart: no neighbours that join, no  *)
(* list below the last level, no quote of anything but paragraphs.          *)
Simple(blocks, depth) ==
  /\ \A i \in 1 .. Len(blocks) - 1 : ~Merges(blocks[i], blocks[i + 1])
  /\ \A i \in DOMAIN blocks :
       /\ IsList(blocks[i]) => /\ depth < ListLevels
                               /\ blocks[i].items # <<>>
                               /\ \A k \in DOMAIN blocks[i].items :
                                    SimpleEntry(blocks[i].items[k], depth)
       /\ blocks[i].type = "blockquote" =>
            /\ blocks[i].blocks # <<>>
            /\ \A k \in DOMAIN blocks[i].blocks : blocks[i].blocks[k].type = "paragraph"

(* No list of the file runs into another of its kind at its level.          *)
Apart(file) ==
  \A k, m \in DOMAIN file :
    LET inside == {file[i].num : i \in k + 1 .. m - 1} IN
    ~ /\ k < m /\ file[k].num # NotNumbered /\ file[m].num # NotNumbered
      /\ file[k].num.id # file[m].num.id
      /\ file[k].num.level = file[m].num.level
      /\ ItemOf(file, k).type = ItemOf(file, m).type
      /\ \A n \in inside : n # NotNumbered /\ n.level > file[k].num.level

(* The document's lines in reading order, with the number or box of each.   *)
RECURSIVE LinesOf(_)
LinesOf(blocks) ==
  LET entry(list, k) ==
        LET mark == CASE list.type = "orderedList" -> <<"number", list.start + k - 1>>
                      [] list.type = "taskList" -> <<"box", list.items[k].checked>>
                      [] OTHER -> <<"bullet">>
            lines == LinesOf(list.items[k].blocks)
        IN  [lines EXCEPT ![1].mark = mark]
      line(b) ==
        CASE IsList(b) -> FlattenSeq([k \in DOMAIN b.items |-> entry(b, k)])
          [] b.type = "blockquote" -> LinesOf(b.blocks)
          [] b.type = "codeBlock" ->
               [i \in DOMAIN b.lines |-> [text |-> b.lines[i], mark |-> <<"code">>]]
          [] b.type \in {"paragraph", "heading"} -> <<[text |-> b.text, mark |-> <<>>]>>
          [] OTHER -> <<[text |-> b.type, mark |-> <<>>]>>
  IN  FlattenSeq([i \in DOMAIN blocks |-> line(blocks[i])])
=============================================================================
