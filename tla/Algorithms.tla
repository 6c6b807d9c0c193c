----------------------------- MODULE Algorithms -----------------------------
(***************************************************************************)
(* The program's pure functions, each called once on an input of a bounded  *)
(* set and compared with a reference definition: cutting a file into        *)
(* passages, finding passages and resolving citations, showing a document   *)
(* to the model and putting the answer back, and writing and reading Word   *)
(* files.                                                                   *)
(***************************************************************************)
EXTENDS Chunking, Retrieval, ProseMirror, WordFile, WordTable

CONSTANTS
  ChunkCalls,       \* [pages, counter, target, overlap, max]
  QueryCalls,       \* [doc, mode, from, to, response, budget]
  WordCalls,        \* [doc]
  TableCalls        \* [rows]

(* process_source: extraction, then chunking.                               *)
Chunk ==
  /\ call.op = "chunk" /\ result = Pending
  /\ \E paged \in BOOLEAN :
       LET read == JoinPages(call.pages)
           c == call @@ [text |-> read.text, starts |-> IF paged THEN read.starts ELSE <<>>]
       IN  result' = [op |-> "chunk", c |-> c, drafts |-> ChunkText(c)]
  /\ UNCHANGED call

(* create_query, and apply_query on the document it was created for.        *)
Apply ==
  /\ call.op = "apply" /\ result = Pending
  /\ \E query \in {CreateQuery(call.doc, call.mode, call.from, call.to, call.budget)} :
       result' = [op |-> "apply", query |-> query,
                  edit |-> IF query.context.error THEN NoEdit
                           ELSE EditFor(call.doc, call.mode, query.range, call.response)]
  /\ UNCHANGED call

(* to_docx, and import_docx of the file.                                    *)
Convert ==
  /\ call.op = "convert" /\ result = Pending
  /\ LET file == ToDocx(call.doc)
     IN  result' = [op |-> "convert", file |-> file, doc |-> ImportDocx(file)]
  /\ UNCHANGED call

(* The same of a table.                                                     *)
ConvertTable ==
  /\ call.op = "table" /\ result = Pending
  /\ LET file == WriteTable(call.rows)
     IN  result' = [op |-> "table", file |-> file, rows |-> ReadTable(file)]
  /\ UNCHANGED call

Init ==
  /\ \/ call \in ChunkCalls \/ call \in RetrievalCalls \/ call \in QueryCalls
     \/ call \in WordCalls \/ call \in TableCalls
  /\ result = Pending

Next == Chunk \/ Answer \/ Apply \/ Convert \/ ConvertTable

Spec == Init /\ [][Next]_<<call, result>>

-----------------------------------------------------------------------------
(* chunk_text: no passage is over the cap, every visible character but a    *)
(* sentence's closing quotes is in one, and each names the page it starts   *)
(* on.                                                                      *)
PassagesAreSound ==
  result.op = "chunk" =>
    /\ WithinCap(result.c, result.drafts)
    /\ Covered(result.c, result.drafts)
    /\ OnItsPage(result.c, result.drafts)

(* apply_query: the stored document is the one every client computes from   *)
(* the step, in normal form, and the step replaces no less than what was    *)
(* selected (_normalize_inline: "The stored document must equal what peers  *)
(* compute").  A query that was created can be applied.                     *)
EditsReplay ==
  result.op = "apply" /\ ~result.query.context.error =>
    /\ result.edit # NoEdit
    /\ FlatContent(result.edit.content) = Replayed(call.doc, result.edit.step)
    /\ Normal(result.edit.content)
    /\ call.mode = "rewrite" => /\ result.edit.step.from <= call.from
                                /\ call.to <= result.edit.step.to

(* create_query: what the model is asked to rewrite is the text the edit    *)
(* replaces; the prompt keeps to its budget, and leaves out nothing that    *)
(* fits (_around_selection: "The selection is never cut").                  *)
PromptShowsTheEdit ==
  result.op = "apply" /\ ~result.query.context.error =>
    LET context == result.query.context
        room == Kept(context.before) \o context.selection \o Kept(context.after)
        whole == Len(ToPlainText(call.doc).text)
    IN  /\ call.mode = "rewrite" =>
             /\ Bare(context.selection)
                  = Words(call.doc, result.edit.step.from, result.edit.step.to)
             /\ Len(room) = Min({whole, call.budget})
        /\ call.mode = "ask" => Len(room) = Min({whole, call.budget})
        /\ Len(room) <= call.budget

(* to_docx and import_docx: a document Word can tell apart comes back as it *)
(* was, and any other keeps its lines, numbers and boxes as long as no two  *)
(* lists run into each other; a table comes back without anything for the   *)
(* editor to repair, and merged cells as they were (docx_import:            *)
(* "Everything docx_export writes comes back").                             *)
WordRoundTrip ==
  /\ result.op = "convert" =>
       /\ Simple(call.doc, 0) => result.doc = call.doc
       /\ Apart(result.file) => LinesOf(result.doc) = LinesOf(call.doc)
  /\ result.op = "table" => TableComesBack(call.rows, result.rows)
=============================================================================
