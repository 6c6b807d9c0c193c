--------------------------- MODULE DocumentStore ---------------------------
(***************************************************************************)
(* The one write path of a document: api/services/documents.py, and the    *)
(* HTTP handlers of api/routers/documents.py and api/services/ai_queries.py*)
(* that call it.  Every writer reads a snapshot, computes a change from it *)
(* and submits the change with the version it read; the server applies it  *)
(* only if that version is still the head.                                 *)
(*                                                                         *)
(* A request, once sent, may be handled any number of times (a client that *)
(* lost the reply retries it), at any later moment and in any order.       *)
(* apply_change runs under SELECT ... FOR UPDATE and commits once, so it   *)
(* is one step here.                                                       *)
(*                                                                         *)
(* ProseMirror is a parameter: a document is any member of Content and     *)
(* Transform is whatever a batch of steps does to it.                      *)
(***************************************************************************)
EXTENDS Naturals, FiniteSets

CONSTANTS
  Writers,          \* browser tabs, API callers, and the server's own AI apply
  Content,          \* ProseMirror documents
  Uploads,          \* the documents a create, an import or a PATCH brings along
  StepBatch,        \* batches of ProseMirror steps
  Title,
  Transform(_, _),  \* Transform(c, s): what the steps s make of document c
  None,             \* an absent field
  MaxRequests       \* how many requests are ever sent

ASSUME ContentAssumption ==
  /\ Uploads \subseteq Content
  /\ \A c \in Content, s \in StepBatch : Transform(c, s) \in Content

ASSUME NoneAssumption == None \notin Content \cup StepBatch \cup Title

ASSUME BoundAssumption == MaxRequests \in Nat

VARIABLES
  stage,            \* "absent", "live" or "gone"
  document,         \* the documents row: [version, content, title]
  changes,          \* the document_changes rows
  held,             \* held[w]: the snapshot w works from, or None
  requests          \* every request sent so far

vars == <<stage, document, changes, held, requests>>

-----------------------------------------------------------------------------
(* The data.                                                               *)

Maybe(S) == S \cup {None}

Body == [content : Content, title : Title]

Snapshot == [version : Nat, content : Content, title : Title]

Operation == [steps : Maybe(StepBatch), replace : Maybe(Content), title : Maybe(Title)]

Request == [writer : Writers, base : Nat, operation : Operation,
            content : Maybe(Content), title : Maybe(Title)]

(* `state` is a ghost: the row itself keeps only the operation.  It is the  *)
(* document as the change left it, so that the properties can ask whether   *)
(* the operations, replayed, give the same.                                 *)
Change == [base : Nat, version : Nat, operation : Operation, state : Body,
           request : Maybe(Request)]

BodyOf(s) == [content |-> s.content, title |-> s.title]

(* A document that is not there yet: the row holds no content worth naming. *)
NoRow == [version |-> 0, content |-> None, title |-> None]

Or(new, old) == IF new = None THEN old ELSE new

(* A PATCH replaces: its operation names what it sets and nothing else.     *)
PatchOperation(title, content) ==
  [steps |-> None, replace |-> content, title |-> title]

StepsOperation(s) == [steps |-> s, replace |-> None, title |-> None]

(* What a reader of the log makes of one operation.                         *)
Replay(op, body) ==
  [content |-> IF op.replace # None THEN op.replace
               ELSE IF op.steps # None THEN Transform(body.content, op.steps)
               ELSE body.content,
   title   |-> Or(op.title, body.title)]

-----------------------------------------------------------------------------
Init ==
  /\ stage = "absent"
  /\ document = NoRow
  /\ changes = {}
  /\ held = [w \in Writers |-> None]
  /\ requests = {}

(* create_document: version 1 is logged too, "so the log replays from       *)
(* nothing".                                                                *)
CreateDocument(content, title) ==
  /\ stage = "absent"
  /\ stage' = "live"
  /\ document' = [version |-> 1, content |-> content, title |-> title]
  /\ changes' = {[base |-> 0, version |-> 1,
                  operation |-> PatchOperation(title, content),
                  state |-> [content |-> content, title |-> title],
                  request |-> None]}
  /\ UNCHANGED <<held, requests>>

(* Mutant: a read of a row that is gone hands out the placeholder.          *)
GetDocumentBlind(w) ==
  /\ stage # "absent"
  /\ held' = [held EXCEPT ![w] = document]
  /\ UNCHANGED <<stage, document, changes, requests>>

(* get_document, and the read with which apply_query begins.                *)
GetDocument(w) ==
  /\ stage = "live"
  /\ held' = [held EXCEPT ![w] = document]
  /\ UNCHANGED <<stage, document, changes, requests>>

Send(q) ==
  /\ Cardinality(requests) < MaxRequests
  /\ requests' = requests \cup {q}
  /\ UNCHANGED <<stage, document, changes, held>>

(* An edit: the steps, and the document they produced from the snapshot.    *)
(* The socket's edit message and the AI apply both have this form.          *)
SubmitSteps(w, s) ==
  /\ held[w] # None
  /\ Send([writer |-> w, base |-> held[w].version,
           operation |-> StepsOperation(s),
           content |-> Transform(held[w].content, s), title |-> None])

(* update_document: a PATCH with a title, a content or both.                *)
UpdateDocument(w, title, content) ==
  /\ held[w] # None
  /\ ~(title = None /\ content = None)
  /\ Send([writer |-> w, base |-> held[w].version,
           operation |-> PatchOperation(title, content),
           content |-> content, title |-> title])

(* The reply reaches the writer, which then works from it, or is lost.      *)
Reply(w, answer) ==
  \/ held' = [held EXCEPT ![w] = answer]
  \/ UNCHANGED held

(* Mutant: apply_change without the comparison of versions.                 *)
AppliedUnchecked(q) ==
  LET after == [version |-> document.version + 1,
                content |-> Or(q.content, document.content),
                title   |-> Or(q.title, document.title)]
  IN  /\ stage = "live"
      /\ document' = after
      /\ changes' = changes \cup
           {[base |-> document.version, version |-> after.version, operation |-> q.operation,
             state |-> BodyOf(after), request |-> q]}
      /\ Reply(q.writer, after)
      /\ UNCHANGED <<stage, requests>>

(* Mutant: the change is logged under the version it was based on.          *)
AppliedOffByOne(q) ==
  LET after == [version |-> document.version + 1,
                content |-> Or(q.content, document.content),
                title   |-> Or(q.title, document.title)]
  IN  /\ stage = "live"
      /\ document.version = q.base
      /\ document' = after
      /\ changes' = changes \cup
           {[base |-> q.base, version |-> q.base, operation |-> q.operation,
             state |-> BodyOf(after), request |-> q]}
      /\ Reply(q.writer, after)
      /\ UNCHANGED <<stage, requests>>

(* apply_change, the head of the log being q's base.                        *)
Applied(q) ==
  LET after == [version |-> document.version + 1,
                content |-> Or(q.content, document.content),
                title   |-> Or(q.title, document.title)]
  IN  /\ stage = "live"
      /\ document.version = q.base
      /\ document' = after
      /\ changes' = changes \cup
           {[base |-> q.base, version |-> after.version, operation |-> q.operation,
             state |-> BodyOf(after), request |-> q]}
      /\ Reply(q.writer, after)
      /\ UNCHANGED <<stage, requests>>

(* Mutant: the refusal carries the new version with the writer's old text.  *)
StaleHalfRefreshed(q) ==
  /\ stage = "live"
  /\ document.version # q.base
  /\ Reply(q.writer, [document EXCEPT !.content = Or(q.content, @)])
  /\ UNCHANGED <<stage, document, changes, requests>>

(* apply_change, q's base no longer being the head: nothing is written and  *)
(* the refusal carries the document as it is now.                           *)
Stale(q) ==
  /\ stage = "live"
  /\ document.version # q.base
  /\ Reply(q.writer, document)
  /\ UNCHANGED <<stage, document, changes, requests>>

(* apply_change, the row being gone.                                        *)
NotFound(q) ==
  /\ stage # "live"
  /\ Reply(q.writer, None)
  /\ UNCHANGED <<stage, document, changes, requests>>

ApplyChange(q) == Applied(q) \/ Stale(q) \/ NotFound(q)

(* Mutant: the row goes and its log stays.                                  *)
DeleteDocumentOnly ==
  /\ stage = "live"
  /\ stage' = "gone"
  /\ document' = NoRow
  /\ UNCHANGED <<changes, held, requests>>

(* delete_document: the log goes with the row.                              *)
DeleteDocument ==
  /\ stage = "live"
  /\ stage' = "gone"
  /\ document' = NoRow
  /\ changes' = {}
  /\ UNCHANGED <<held, requests>>

Next ==
  \/ \E c \in Uploads, t \in Title : CreateDocument(c, t)
  \/ \E w \in Writers : GetDocument(w)
  \/ \E w \in Writers, s \in StepBatch : SubmitSteps(w, s)
  \/ \E w \in Writers, t \in Maybe(Title), c \in Maybe(Uploads) : UpdateDocument(w, t, c)
  \/ \E q \in requests : ApplyChange(q)
  \/ DeleteDocument

Spec == Init /\ [][Next]_vars

-----------------------------------------------------------------------------
(* Properties.                                                             *)

(* Every variable keeps its type: in particular the stored row always is a  *)
(* whole document while the document exists.                                *)
TypeOK ==
  /\ stage \in {"absent", "live", "gone"}
  /\ document \in Snapshot \cup {NoRow}
  /\ stage = "live" <=> document \in Snapshot
  /\ changes \subseteq Change
  /\ held \in [Writers -> Maybe(Snapshot)]
  /\ requests \subseteq Request

(* The log has exactly one row for every version from 1 to the head, and a  *)
(* row is always based on the version before its own: whatever the requests *)
(* raced, none was accepted twice and none out of turn (apply_change).      *)
LogIsGapless ==
  stage = "live" =>
    /\ \A r \in changes : r.version = r.base + 1 /\ r.version <= document.version
    /\ \A v \in 1..document.version : \E r \in changes : r.version = v
    /\ \A r1, r2 \in changes : r1.version = r2.version => r1 = r2

(* The log replays from nothing: each operation, applied to the state its   *)
(* predecessor left, gives the state that was stored, and the last of those *)
(* is the document.  The server stores content it did not compute; this is  *)
(* why checking base_version is enough to trust it.                         *)
LogReplays ==
  stage = "live" =>
    /\ \A r \in changes :
         r.base > 0 => \E p \in changes : /\ p.version = r.base
                                          /\ r.state = Replay(r.operation, p.state)
    /\ \A r \in changes : r.base = 0 => r.state = Replay(r.operation, NoRow)
    /\ \E r \in changes : /\ r.version = document.version
                          /\ r.state = BodyOf(document)

(* What a writer works from is a state the document really had at that      *)
(* version (get_document, the 409 body and the reply all carry one).        *)
SnapshotsAreHistory ==
  stage = "live" =>
    \A w \in Writers : held[w] # None =>
      \E r \in changes : r.version = held[w].version /\ r.state = BodyOf(held[w])

(* What a writer submits is the state at its base version, transformed by   *)
(* the operation it submits: the `doc` of an edit goes with its `steps`.    *)
RequestsAreHonest ==
  stage = "live" =>
    \A q \in requests :
      \E r \in changes :
        /\ r.version = q.base
        /\ Replay(q.operation, r.state) = [content |-> Or(q.content, r.state.content),
                                           title   |-> Or(q.title, r.state.title)]

(* A writer that only works from what the server sent it stays honest over  *)
(* any sequence of reads, conflicts, lost replies and retries; LogReplays   *)
(* asks no more than this of the clients (apply_change trusts `content`).   *)
HonestWriters == SnapshotsAreHistory /\ RequestsAreHonest

(* However often a request is retried, and whatever came in between, it is  *)
(* in the log at most once: "a retried apply carries the same version, so   *)
(* it cannot insert twice" (apply_query).                                   *)
AppliedAtMostOnce ==
  \A r1, r2 \in changes : r1.request # None /\ r1.request = r2.request => r1 = r2

Log == INSTANCE ChangeLog WITH
  head <- document.version,
  rows <- {[base |-> r.base, version |-> r.version, operation |-> r.operation] : r \in changes}

(* The store is an append-only log: every step accepts one change at the    *)
(* head, creates or deletes the document, or leaves the log alone.          *)
ImplementsChangeLog == Log!LogSpec
=============================================================================
