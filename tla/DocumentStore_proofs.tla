------------------------ MODULE DocumentStore_proofs ------------------------
(***************************************************************************)
(* Proofs about DocumentStore, for every set of writers, every notion of   *)
(* document and of step, and any number of requests.                       *)
(***************************************************************************)
EXTENDS DocumentStore, TLAPS

-----------------------------------------------------------------------------
(* Facts about the data.                                                   *)

(* A present value is kept, an absent one leaves the old one.               *)
LEMMA OrType ==
  ASSUME NEW S, NEW new \in Maybe(S), NEW old \in S
  PROVE  Or(new, old) \in S
BY DEF Or, Maybe

(* None is not a document, a batch of steps or a title.                     *)
LEMMA NoneIsAbsent ==
  /\ \A c \in Content : c # None
  /\ \A s \in StepBatch : s # None
  /\ \A t \in Title : t # None
BY NoneAssumption

(* The placeholder of an absent row is no snapshot.                         *)
LEMMA NoRowIsNoSnapshot == NoRow \notin Snapshot
<1>1. SUFFICES ASSUME NoRow \in Snapshot PROVE FALSE
  OBVIOUS
<1>2. NoRow.content \in Content
  BY <1>1 DEF Snapshot
<1>3. QED
  BY <1>2, NoneIsAbsent DEF NoRow

(* None is no snapshot either: it has no fields the model could read.       *)
LEMMA SnapshotFields ==
  ASSUME NEW s \in Snapshot
  PROVE  s.version \in Nat /\ s.content \in Content /\ s.title \in Title
BY DEF Snapshot

-----------------------------------------------------------------------------
(* Type correctness.                                                       *)

(* An absent document, an empty log and no requests are well-typed.         *)
LEMMA InitTypeOK == Init => TypeOK
BY NoRowIsNoSnapshot DEF Init, TypeOK, Maybe

(* A row CreateDocument or Applied adds is a well-formed row of the log.    *)
LEMMA ChangeType ==
  ASSUME NEW b \in Nat, NEW op \in Operation, NEW st \in Body, NEW q \in Maybe(Request)
  PROVE  [base |-> b, version |-> b + 1, operation |-> op, state |-> st, request |-> q]
            \in Change
BY DEF Change

(* Every handler leaves a whole row, a log of rows and snapshots or None.   *)
LEMMA NextTypeOK == TypeOK /\ [Next]_vars => TypeOK'
<1> SUFFICES ASSUME TypeOK, [Next]_vars PROVE TypeOK'
  OBVIOUS
<1> USE DEF TypeOK
<1>1. ASSUME NEW c \in Uploads, NEW t \in Title, CreateDocument(c, t) PROVE TypeOK'
  <2>1. c \in Content
    BY ContentAssumption
  <2>2. document' \in Snapshot
    BY <1>1, <2>1 DEF CreateDocument, Snapshot
  <2>3. PatchOperation(t, c) \in Operation
    BY <2>1 DEF PatchOperation, Operation, Maybe
  <2>4. changes' \subseteq Change
    <3>1. [content |-> c, title |-> t] \in Body
      BY <2>1 DEF Body
    <3>2. [base |-> 0, version |-> 0 + 1, operation |-> PatchOperation(t, c),
           state |-> [content |-> c, title |-> t], request |-> None] \in Change
      BY <2>3, <3>1, ChangeType DEF Maybe
    <3>3. QED
      BY <1>1, <3>2 DEF CreateDocument
  <2>5. QED
    BY <1>1, <2>2, <2>4 DEF CreateDocument
<1>2. ASSUME NEW w \in Writers, GetDocument(w) PROVE TypeOK'
  BY <1>2 DEF GetDocument, Maybe
<1>3. ASSUME NEW w \in Writers, NEW s \in StepBatch, SubmitSteps(w, s) PROVE TypeOK'
  <2>1. held[w] \in Snapshot
    BY <1>3 DEF SubmitSteps, Maybe
  <2>2. Transform(held[w].content, s) \in Content
    BY <2>1, SnapshotFields, ContentAssumption
  <2>3. StepsOperation(s) \in Operation
    BY DEF StepsOperation, Operation, Maybe
  <2>4. [writer |-> w, base |-> held[w].version, operation |-> StepsOperation(s),
         content |-> Transform(held[w].content, s), title |-> None] \in Request
    BY <2>1, <2>2, <2>3, SnapshotFields DEF Request, Maybe
  <2>5. QED
    BY <1>3, <2>4 DEF SubmitSteps, Send
<1>4. ASSUME NEW w \in Writers, NEW t \in Maybe(Title), NEW c \in Maybe(Uploads),
             UpdateDocument(w, t, c)
      PROVE  TypeOK'
  <2>1. held[w] \in Snapshot
    BY <1>4 DEF UpdateDocument, Maybe
  <2>2. c \in Maybe(Content)
    BY ContentAssumption DEF Maybe
  <2>3. PatchOperation(t, c) \in Operation
    BY <2>2 DEF PatchOperation, Operation, Maybe
  <2>4. [writer |-> w, base |-> held[w].version, operation |-> PatchOperation(t, c),
         content |-> c, title |-> t] \in Request
    BY <2>1, <2>2, <2>3, SnapshotFields DEF Request
  <2>5. QED
    BY <1>4, <2>4 DEF UpdateDocument, Send
<1>5. ASSUME NEW q \in requests, ApplyChange(q) PROVE TypeOK'
  <2>1. q \in Request /\ q.writer \in Writers
    BY DEF Request
  <2>2. CASE Applied(q)
    <3> DEFINE after == [version |-> document.version + 1,
                         content |-> Or(q.content, document.content),
                         title   |-> Or(q.title, document.title)]
    <3>1. document \in Snapshot
      BY <2>2 DEF Applied
    <3>2. /\ q.content \in Maybe(Content) /\ q.title \in Maybe(Title)
          /\ q.base \in Nat /\ q.operation \in Operation
      BY <2>1 DEF Request
    <3>3. /\ Or(q.content, document.content) \in Content
          /\ Or(q.title, document.title) \in Title
      BY <3>1, <3>2, SnapshotFields, OrType
    <3>4. after \in Snapshot
      BY <3>1, <3>3, SnapshotFields DEF Snapshot
    <3>5. BodyOf(after) \in Body
      BY <3>3 DEF BodyOf, Body
    <3>6. document' = after /\ after.version = q.base + 1
      BY <2>2 DEF Applied
    <3>7. changes' \subseteq Change
      <4>1. [base |-> q.base, version |-> q.base + 1, operation |-> q.operation,
             state |-> BodyOf(after), request |-> q] \in Change
        BY <2>1, <3>2, <3>5, ChangeType DEF Maybe
      <4>2. QED
        BY <2>2, <3>6, <4>1 DEF Applied
    <3>8. held' \in [Writers -> Maybe(Snapshot)]
      BY <2>1, <2>2, <3>4 DEF Applied, Reply, Maybe
    <3>9. QED
      BY <2>2, <3>4, <3>6, <3>7, <3>8 DEF Applied
  <2>3. CASE Stale(q)
    BY <2>1, <2>3 DEF Stale, Reply, Maybe
  <2>4. CASE NotFound(q)
    BY <2>1, <2>4 DEF NotFound, Reply, Maybe
  <2>5. QED
    BY <1>5, <2>2, <2>3, <2>4 DEF ApplyChange
<1>6. CASE DeleteDocument
  BY <1>6, NoRowIsNoSnapshot DEF DeleteDocument
<1>7. CASE UNCHANGED vars
  BY <1>7 DEF vars
<1>8. QED
  BY <1>1, <1>2, <1>3, <1>4, <1>5, <1>6, <1>7 DEF Next

(* Type correctness of the store: every variable keeps its type in every    *)
(* reachable state, whatever the writers do.                                *)
THEOREM TypeCorrect == Spec => []TypeOK
<1>1. Init => TypeOK
  BY InitTypeOK
<1>2. TypeOK /\ [Next]_vars => TypeOK'
  BY NextTypeOK
<1>3. QED
  BY <1>1, <1>2, PTL DEF Spec

-----------------------------------------------------------------------------
(* The inductive invariant.  Neither LogIsGapless nor LogReplays is         *)
(* inductive: that the content a request brings is the right one follows    *)
(* only from what its writer held when it sent it.                          *)

(* A row says which request it came from, and kept that request's base; the *)
(* rows are gone once the document is.                                      *)
RowsNameRequests ==
  /\ \A r \in changes : r.request # None => r.base = r.request.base
  /\ stage # "live" => changes = {}

(* Nobody can hold or send anything before there is a document to read.     *)
NothingBeforeCreation ==
  stage = "absent" => requests = {} /\ \A w \in Writers : held[w] = None

IInv ==
  /\ TypeOK
  /\ LogIsGapless
  /\ LogReplays
  /\ SnapshotsAreHistory
  /\ RequestsAreHonest
  /\ RowsNameRequests
  /\ NothingBeforeCreation

(* While the document lives its own state is the state of one logged row,   *)
(* and every row of that version is that row.                               *)
LEMMA HeadRow ==
  ASSUME IInv, stage = "live"
  PROVE  /\ \E h \in changes : h.version = document.version /\ h.state = BodyOf(document)
         /\ \A h \in changes : h.version = document.version => h.state = BodyOf(document)
BY DEF IInv, LogReplays, LogIsGapless

(* Replaying a PATCH gives what apply_change stores for it.                 *)
LEMMA PatchIsHonest ==
  ASSUME NEW t \in Maybe(Title), NEW c \in Maybe(Content), NEW body
  PROVE  Replay(PatchOperation(t, c), body) =
           [content |-> Or(c, body.content), title |-> Or(t, body.title)]
BY DEF Replay, PatchOperation, Or

(* Replaying an edit gives the document its writer computed from the same   *)
(* state.                                                                   *)
LEMMA StepsAreHonest ==
  ASSUME NEW s \in StepBatch, NEW body, body.content \in Content
  PROVE  Replay(StepsOperation(s), body) =
           [content |-> Or(Transform(body.content, s), body.content),
            title   |-> Or(None, body.title)]
<1>1. Transform(body.content, s) # None /\ s # None
  BY ContentAssumption, NoneIsAbsent
<1>2. QED
  BY <1>1 DEF Replay, StepsOperation, Or

(* The first row replays on its own: it names both fields.                  *)
LEMMA FirstRowReplays ==
  ASSUME NEW c \in Content, NEW t \in Title
  PROVE  Replay(PatchOperation(t, c), NoRow) = [content |-> c, title |-> t]
<1>1. c # None /\ t # None
  BY NoneIsAbsent
<1>2. QED
  BY <1>1 DEF Replay, PatchOperation, Or

(* Before the document is created the log and the requests are empty.       *)
LEMMA InitIInv == Init => IInv
BY InitTypeOK DEF Init, IInv, LogIsGapless, LogReplays, SnapshotsAreHistory,
                  RequestsAreHonest, RowsNameRequests, NothingBeforeCreation

(* Creating the document starts the log; nobody holds or has sent anything  *)
(* yet that could contradict it.                                            *)
LEMMA CreateIInv ==
  ASSUME IInv, TypeOK', NEW c \in Uploads, NEW t \in Title, CreateDocument(c, t)
  PROVE  IInv'
<1> DEFINE row == [base |-> 0, version |-> 1, operation |-> PatchOperation(t, c),
                   state |-> [content |-> c, title |-> t], request |-> None]
<1>1. /\ changes' = {row} /\ stage' = "live"
      /\ document' = [version |-> 1, content |-> c, title |-> t]
      /\ held' = held /\ requests' = requests
  BY DEF CreateDocument
<1>2. requests = {} /\ \A w \in Writers : held[w] = None
  BY DEF CreateDocument, IInv, NothingBeforeCreation
<1>3. row.state = Replay(row.operation, NoRow) /\ row.state = BodyOf(document')
  BY <1>1, FirstRowReplays, ContentAssumption DEF BodyOf
<1>4. LogIsGapless'
  BY <1>1 DEF LogIsGapless
<1>5. LogReplays'
  BY <1>1, <1>3 DEF LogReplays
<1>6. SnapshotsAreHistory' /\ RequestsAreHonest' /\ RowsNameRequests' /\ NothingBeforeCreation'
  BY <1>1, <1>2 DEF SnapshotsAreHistory, RequestsAreHonest, RowsNameRequests, NothingBeforeCreation
<1>7. QED
  BY <1>4, <1>5, <1>6 DEF IInv

(* A read hands out the head, which is a logged state.                      *)
LEMMA GetIInv ==
  ASSUME IInv, TypeOK', NEW w \in Writers, GetDocument(w)
  PROVE  IInv'
<1>1. /\ stage = "live" /\ UNCHANGED <<stage, document, changes, requests>>
      /\ held' = [held EXCEPT ![w] = document]
  BY DEF GetDocument
<1>2. SnapshotsAreHistory'
  <2>1. SUFFICES ASSUME NEW v \in Writers, held'[v] # None
                 PROVE  \E r \in changes : /\ r.version = held'[v].version
                                           /\ r.state = BodyOf(held'[v])
    BY <1>1 DEF SnapshotsAreHistory
  <2>2. CASE v = w
    BY <1>1, <2>2, HeadRow DEF IInv, TypeOK
  <2>3. CASE v # w
    BY <1>1, <2>1, <2>3 DEF IInv, TypeOK, SnapshotsAreHistory
  <2>4. QED
    BY <2>2, <2>3
<1>3. QED
  BY <1>1, <1>2 DEF IInv, LogIsGapless, LogReplays, RequestsAreHonest, RowsNameRequests,
                    NothingBeforeCreation

(* Sending a request that is honest about the state at its base keeps all   *)
(* requests honest.                                                         *)
LEMMA SendIInv ==
  ASSUME IInv, TypeOK', NEW q, Send(q), stage # "absent",
         stage = "live" =>
           \E r \in changes :
             /\ r.version = q.base
             /\ Replay(q.operation, r.state) = [content |-> Or(q.content, r.state.content),
                                                title   |-> Or(q.title, r.state.title)]
  PROVE  IInv'
<1>1. UNCHANGED <<stage, document, changes, held>> /\ requests' = requests \cup {q}
  BY DEF Send
<1>2. RequestsAreHonest'
  BY <1>1 DEF IInv, RequestsAreHonest
<1>3. QED
  BY <1>1, <1>2 DEF IInv, LogIsGapless, LogReplays, SnapshotsAreHistory, RowsNameRequests,
                    NothingBeforeCreation

(* The snapshot a live writer computes from is a logged state, with a       *)
(* document in it.                                                          *)
LEMMA HeldRow ==
  ASSUME IInv, NEW w \in Writers, held[w] # None, stage = "live"
  PROVE  \E r \in changes : /\ r.version = held[w].version
                            /\ r.state.content = held[w].content
                            /\ r.state.content \in Content
<1>1. PICK r \in changes : r.version = held[w].version /\ r.state = BodyOf(held[w])
  BY DEF IInv, SnapshotsAreHistory
<1>2. held[w] \in Snapshot
  BY DEF IInv, TypeOK, Maybe
<1>3. QED
  BY <1>1, <1>2, SnapshotFields DEF BodyOf

(* An edit computed from the held snapshot is an honest request.            *)
LEMMA SubmitStepsIInv ==
  ASSUME IInv, TypeOK', NEW w \in Writers, NEW s \in StepBatch, SubmitSteps(w, s)
  PROVE  IInv'
<1> DEFINE q == [writer |-> w, base |-> held[w].version, operation |-> StepsOperation(s),
                 content |-> Transform(held[w].content, s), title |-> None]
<1>1. held[w] # None /\ Send(q)
  BY DEF SubmitSteps
<1>2. stage # "absent"
  BY <1>1 DEF IInv, NothingBeforeCreation
<1>3. ASSUME stage = "live"
      PROVE  \E r \in changes :
               /\ r.version = q.base
               /\ Replay(q.operation, r.state) = [content |-> Or(q.content, r.state.content),
                                                  title   |-> Or(q.title, r.state.title)]
  <2>1. PICK r \in changes : /\ r.version = held[w].version
                             /\ r.state.content = held[w].content
                             /\ r.state.content \in Content
    BY <1>1, <1>3, HeldRow
  <2>2. Replay(q.operation, r.state) = [content |-> Or(q.content, r.state.content),
                                        title   |-> Or(q.title, r.state.title)]
    BY <2>1, StepsAreHonest
  <2>3. QED
    BY <2>1, <2>2
<1> HIDE DEF q
<1>4. QED
  BY <1>1, <1>2, <1>3, SendIInv

(* So is a PATCH, whose operation names exactly what it sets.               *)
LEMMA UpdateIInv ==
  ASSUME IInv, TypeOK', NEW w \in Writers, NEW t \in Maybe(Title), NEW c \in Maybe(Uploads),
         UpdateDocument(w, t, c)
  PROVE  IInv'
<1> DEFINE q == [writer |-> w, base |-> held[w].version, operation |-> PatchOperation(t, c),
                 content |-> c, title |-> t]
<1>1. held[w] # None /\ Send(q)
  BY DEF UpdateDocument
<1>2. stage # "absent"
  BY <1>1 DEF IInv, NothingBeforeCreation
<1>3. ASSUME stage = "live"
      PROVE  \E r \in changes :
               /\ r.version = q.base
               /\ Replay(q.operation, r.state) = [content |-> Or(q.content, r.state.content),
                                                  title   |-> Or(q.title, r.state.title)]
  <2>1. PICK r \in changes : r.version = held[w].version
    BY <1>1, <1>3, HeldRow
  <2>2. c \in Maybe(Content)
    BY ContentAssumption DEF Maybe
  <2>3. QED
    BY <2>1, <2>2, PatchIsHonest
<1> HIDE DEF q
<1>4. QED
  BY <1>1, <1>2, <1>3, SendIInv

(* The heart of the argument: a request based on the head was computed from *)
(* the head's own state, because a version has only one row; so the content *)
(* it brings is what its operation makes of the document.                   *)
LEMMA AppliedIInv ==
  ASSUME IInv, TypeOK', NEW q \in requests, Applied(q)
  PROVE  IInv'
<1> DEFINE after == [version |-> document.version + 1,
                     content |-> Or(q.content, document.content),
                     title   |-> Or(q.title, document.title)]
           row == [base |-> q.base, version |-> after.version, operation |-> q.operation,
                   state |-> BodyOf(after), request |-> q]
<1>1. /\ stage = "live" /\ stage' = "live"
      /\ document.version = q.base
      /\ document' = after
      /\ changes' = changes \cup {row}
      /\ Reply(q.writer, after)
      /\ requests' = requests
  BY DEF Applied
<1>2. document.version \in Nat
  BY <1>1, SnapshotFields DEF IInv, TypeOK
<1>3. PICK h \in changes : h.version = document.version /\ h.state = BodyOf(document)
  BY <1>1, HeadRow
<1>4. row.state = Replay(q.operation, h.state)
  <2>1. PICK r \in changes :
          /\ r.version = q.base
          /\ Replay(q.operation, r.state) = [content |-> Or(q.content, r.state.content),
                                             title   |-> Or(q.title, r.state.title)]
    BY <1>1 DEF IInv, RequestsAreHonest
  <2>2. r = h
    BY <1>1, <1>3, <2>1 DEF IInv, LogIsGapless
  <2>3. h.state.content = document.content /\ h.state.title = document.title
    BY <1>3 DEF BodyOf
  <2>4. QED
    BY <2>1, <2>2, <2>3 DEF BodyOf
<1>fields. /\ row.base = document.version /\ row.version = document.version + 1
          /\ row.operation = q.operation /\ row.request = q
          /\ row.state = BodyOf(after) /\ after.version = document.version + 1
  BY <1>1
<1> HIDE DEF after, row
<1>5. LogIsGapless'
  <2>1. \A r \in changes : r.version = r.base + 1 /\ r.version <= document.version
    BY <1>1 DEF IInv, LogIsGapless
  <2>2. \A r \in changes : r.version # row.version /\ r.version \in Nat
    BY <1>2, <1>fields, <2>1 DEF IInv, TypeOK, Change
  <2>3. \A r \in changes' : r.version = r.base + 1 /\ r.version <= document'.version
    BY <1>1, <1>2, <1>fields, <2>1, <2>2
  <2>4. \A v \in 1..document'.version : \E r \in changes' : r.version = v
    <3>1. SUFFICES ASSUME NEW v \in 1..(document.version + 1)
                   PROVE  \E r \in changes' : r.version = v
      BY <1>1, <1>fields
    <3>2. CASE v = document.version + 1
      BY <1>1, <1>fields, <3>2
    <3>3. CASE v # document.version + 1
      <4>1. v \in 1..document.version
        BY <1>2, <3>3
      <4>2. QED
        BY <1>1, <4>1 DEF IInv, LogIsGapless
    <3>4. QED
      BY <3>2, <3>3
  <2>5. \A r1, r2 \in changes' : r1.version = r2.version => r1 = r2
    BY <1>1, <2>2 DEF IInv, LogIsGapless
  <2>6. QED
    BY <2>3, <2>4, <2>5 DEF LogIsGapless
<1>6. LogReplays'
  <2>1. row.base > 0 => \E p \in changes' : /\ p.version = row.base
                                             /\ row.state = Replay(row.operation, p.state)
    BY <1>1, <1>3, <1>4, <1>fields
  <2>2. row.base # 0
    BY <1>1, <1>2, <1>3, <1>fields DEF IInv, LogIsGapless, TypeOK, Change
  <2>3. row.version = document'.version /\ row.state = BodyOf(document')
    BY <1>1, <1>fields
  <2>4. QED
    BY <1>1, <2>1, <2>2, <2>3 DEF IInv, LogReplays
<1>7. SnapshotsAreHistory'
  <2>1. row \in changes' /\ changes \subseteq changes'
    BY <1>1
  <2>2. row.version = after.version /\ row.state = BodyOf(after)
    BY <1>fields
  <2>3. q.writer \in Writers
    BY DEF IInv, TypeOK, Request
  <2>4. ASSUME NEW w \in Writers, held'[w] # None
        PROVE  \E r \in changes' : /\ r.version = held'[w].version
                                   /\ r.state = BodyOf(held'[w])
    <3>1. CASE held'[w] = held[w]
      BY <1>1, <2>1, <2>4, <3>1 DEF IInv, SnapshotsAreHistory
    <3>2. CASE held'[w] = after
      BY <2>1, <2>2, <3>2
    <3>3. held'[w] = held[w] \/ held'[w] = after
      BY <1>1, <2>3 DEF IInv, TypeOK, Reply
    <3>4. QED
      BY <3>1, <3>2, <3>3
  <2>5. QED
    BY <2>4 DEF SnapshotsAreHistory
<1>8. RequestsAreHonest'
  BY <1>1 DEF IInv, RequestsAreHonest
<1>9. RowsNameRequests' /\ NothingBeforeCreation'
  BY <1>1, <1>fields DEF IInv, RowsNameRequests, NothingBeforeCreation
<1>10. QED
  BY <1>5, <1>6, <1>7, <1>8, <1>9 DEF IInv

(* A stale request writes nothing; its writer is sent the head.             *)
LEMMA StaleIInv ==
  ASSUME IInv, TypeOK', NEW q \in requests, Stale(q)
  PROVE  IInv'
<1>1. /\ stage = "live" /\ UNCHANGED <<stage, document, changes, requests>>
      /\ Reply(q.writer, document)
  BY DEF Stale
<1>2. q.writer \in Writers
  BY DEF IInv, TypeOK, Request
<1>3. SnapshotsAreHistory'
  <2>1. SUFFICES ASSUME NEW w \in Writers, held'[w] # None
                 PROVE  \E r \in changes : /\ r.version = held'[w].version
                                           /\ r.state = BodyOf(held'[w])
    BY <1>1 DEF SnapshotsAreHistory
  <2>2. held'[w] = held[w] \/ held'[w] = document
    BY <1>1, <1>2 DEF IInv, TypeOK, Reply
  <2>3. CASE held'[w] = held[w]
    BY <1>1, <2>1, <2>3 DEF IInv, SnapshotsAreHistory
  <2>4. CASE held'[w] = document
    BY <1>1, <2>4, HeadRow
  <2>5. QED
    BY <2>2, <2>3, <2>4
<1>4. QED
  BY <1>1, <1>3 DEF IInv, LogIsGapless, LogReplays, RequestsAreHonest, RowsNameRequests,
                    NothingBeforeCreation

(* Without a document there is no log left to contradict.                   *)
LEMMA NotFoundIInv ==
  ASSUME IInv, TypeOK', NEW q \in requests, NotFound(q)
  PROVE  IInv'
BY DEF NotFound, IInv, LogIsGapless, LogReplays, SnapshotsAreHistory, RequestsAreHonest,
       RowsNameRequests, NothingBeforeCreation

(* Deleting the document takes the log along: nothing is left to keep.      *)
LEMMA DeleteIInv ==
  ASSUME IInv, TypeOK', DeleteDocument
  PROVE  IInv'
BY DEF DeleteDocument, IInv, LogIsGapless, LogReplays, SnapshotsAreHistory, RequestsAreHonest,
       RowsNameRequests, NothingBeforeCreation

(* Every action of the store preserves the inductive invariant.             *)
LEMMA NextIInv == IInv /\ [Next]_vars => IInv'
<1> SUFFICES ASSUME IInv, [Next]_vars PROVE IInv'
  OBVIOUS
<1>1. TypeOK'
  BY NextTypeOK DEF IInv
<1>2. CASE \E c \in Uploads, t \in Title : CreateDocument(c, t)
  BY <1>1, <1>2, CreateIInv
<1>3. CASE \E w \in Writers : GetDocument(w)
  BY <1>1, <1>3, GetIInv
<1>4. CASE \E w \in Writers, s \in StepBatch : SubmitSteps(w, s)
  BY <1>1, <1>4, SubmitStepsIInv
<1>5. CASE \E w \in Writers, t \in Maybe(Title), c \in Maybe(Uploads) : UpdateDocument(w, t, c)
  BY <1>1, <1>5, UpdateIInv
<1>6. CASE \E q \in requests : ApplyChange(q)
  BY <1>1, <1>6, AppliedIInv, StaleIInv, NotFoundIInv DEF ApplyChange
<1>7. CASE DeleteDocument
  BY <1>1, <1>7, DeleteIInv
<1>8. CASE UNCHANGED vars
  BY <1>8 DEF vars, IInv, TypeOK, LogIsGapless, LogReplays, SnapshotsAreHistory,
              RequestsAreHonest, RowsNameRequests, NothingBeforeCreation
<1>9. QED
  BY <1>2, <1>3, <1>4, <1>5, <1>6, <1>7, <1>8 DEF Next

(* The inductive invariant holds in every reachable state.                  *)
THEOREM Invariance == Spec => []IInv
BY InitIInv, NextIInv, PTL DEF Spec

-----------------------------------------------------------------------------
(* What follows from it.                                                   *)

(* The log of a live document has exactly one row per version, each based   *)
(* on the one before it.                                                    *)
THEOREM GaplessLog == Spec => []LogIsGapless
<1>1. IInv => LogIsGapless
  BY DEF IInv
<1>2. QED
  BY <1>1, Invariance, PTL

(* The log replays from nothing to the stored document, although the server *)
(* stores what its clients computed.                                        *)
THEOREM ReplayableLog == Spec => []LogReplays
<1>1. IInv => LogReplays
  BY DEF IInv
<1>2. QED
  BY <1>1, Invariance, PTL

(* No request is in the log twice, however often it is retried.             *)
THEOREM NoDoubleApply == Spec => []AppliedAtMostOnce
<1>1. IInv => AppliedAtMostOnce
  <2>1. SUFFICES ASSUME IInv, NEW r1 \in changes, NEW r2 \in changes,
                        r1.request # None, r1.request = r2.request
                 PROVE  r1 = r2
    BY DEF AppliedAtMostOnce
  <2>2. stage = "live" /\ r1.base = r2.base
    BY <2>1 DEF IInv, RowsNameRequests
  <2>3. r1.version = r2.version
    BY <2>1, <2>2 DEF IInv, LogIsGapless
  <2>4. QED
    BY <2>1, <2>2, <2>3 DEF IInv, LogIsGapless
<1>2. QED
  BY <1>1, Invariance, PTL

(* Writers that work from what the server sends them stay honest.           *)
THEOREM WritersStayHonest == Spec => []HonestWriters
<1>1. IInv => HonestWriters
  BY DEF IInv, HonestWriters
<1>2. QED
  BY <1>1, Invariance, PTL

-----------------------------------------------------------------------------
(* The store implements the append-only log.                               *)

(* The operations the abstract log is about are those of the store.         *)
LEMMA RowOperation ==
  ASSUME TypeOK, NEW r \in changes
  PROVE  r.operation \in Operation
BY DEF TypeOK, Change

(* A document that is not created yet is an empty abstract log.             *)
LEMMA InitRefines == Init => Log!LogInit
BY DEF Init, NoRow, Log!LogInit

(* Each action is one step of the abstract log, or leaves it alone.         *)
LEMMA NextRefines == IInv /\ [Next]_vars => [Log!LogNext]_(Log!logVars)
<1> SUFFICES ASSUME IInv, [Next]_vars PROVE [Log!LogNext]_(Log!logVars)
  OBVIOUS
<1> DEFINE Abs(r) == [base |-> r.base, version |-> r.version, operation |-> r.operation]
           rows == {Abs(r) : r \in changes}
<1>1. ASSUME NEW c \in Uploads, NEW t \in Title, CreateDocument(c, t)
      PROVE  Log!Create
  <2>1. PatchOperation(t, c) \in Operation
    BY ContentAssumption DEF PatchOperation, Operation, Maybe
  <2>2. rows' = {Log!Row(0, PatchOperation(t, c))}
    BY <1>1 DEF CreateDocument, Log!Row
  <2>3. QED
    BY <1>1, <2>1, <2>2 DEF CreateDocument, Log!Create
<1>2. ASSUME NEW q \in requests, Applied(q)
      PROVE  Log!Accept
  <2>1. q.operation \in Operation /\ q.base = document.version
    BY <1>2 DEF IInv, TypeOK, Request, Applied
  <2>2. PICK n : /\ changes' = changes \cup {n}
                 /\ Abs(n) = Log!Row(document.version, q.operation)
    <3> DEFINE n == [base |-> q.base, version |-> document.version + 1,
                     operation |-> q.operation,
                     state |-> [content |-> Or(q.content, document.content),
                                title   |-> Or(q.title, document.title)],
                     request |-> q]
    <3>1. changes' = changes \cup {n}
      BY <1>2 DEF Applied, BodyOf
    <3>2. Abs(n) = Log!Row(document.version, q.operation)
      BY <2>1 DEF Log!Row
    <3>3. QED
      BY <3>1, <3>2
  <2>. HIDE DEF Abs
  <2>4. rows' = rows \cup {Log!Row(document.version, q.operation)}
    BY <2>2
  <2>. USE DEF Abs
  <2>3. QED
    BY <1>2, <2>1, <2>4 DEF Applied, Log!Accept
<1>3. ASSUME DeleteDocument PROVE Log!Delete
  BY <1>3 DEF DeleteDocument, NoRow, Log!Delete
<1>4. ASSUME UNCHANGED <<stage, document, changes>>
      PROVE  UNCHANGED Log!logVars
  BY <1>4 DEF Log!logVars
<1>5. QED
  <2>1. CASE \E c \in Uploads, t \in Title : CreateDocument(c, t)
    BY <1>1, <2>1 DEF Log!LogNext
  <2>2. CASE \E q \in requests : Applied(q)
    BY <1>2, <2>2 DEF Log!LogNext
  <2>3. CASE DeleteDocument
    BY <1>3, <2>3 DEF Log!LogNext
  <2>4. CASE UNCHANGED vars
    BY <1>4, <2>4 DEF vars
  <2>5. ASSUME NEW w \in Writers, GetDocument(w) PROVE UNCHANGED <<stage, document, changes>>
    BY <2>5 DEF GetDocument
  <2>6. ASSUME NEW w \in Writers, NEW s \in StepBatch, SubmitSteps(w, s)
        PROVE  UNCHANGED <<stage, document, changes>>
    BY <2>6 DEF SubmitSteps, Send
  <2>7. ASSUME NEW w \in Writers, NEW t \in Maybe(Title), NEW c \in Maybe(Uploads),
               UpdateDocument(w, t, c)
        PROVE  UNCHANGED <<stage, document, changes>>
    BY <2>7 DEF UpdateDocument, Send
  <2>8. ASSUME NEW q \in requests, Stale(q) \/ NotFound(q)
        PROVE  UNCHANGED <<stage, document, changes>>
    BY <2>8 DEF Stale, NotFound
  <2>9. QED
    BY <1>4, <2>1, <2>2, <2>3, <2>4, <2>5, <2>6, <2>7, <2>8 DEF Next, ApplyChange

(* Every behaviour of the store is one of the append-only log: a change is  *)
(* accepted at the head or not at all, and no accepted change is lost while *)
(* the document exists.                                                     *)
THEOREM Refinement == Spec => ImplementsChangeLog
<1>1. Init => Log!LogInit
  BY InitRefines
<1>2. IInv /\ [Next]_vars => [Log!LogNext]_(Log!logVars)
  BY NextRefines
<1>3. QED
  BY <1>1, <1>2, Invariance, PTL DEF Spec, ImplementsChangeLog, Log!LogSpec

=============================================================================
