------------------------ MODULE LiveDocument_proofs ------------------------
(***************************************************************************)
(* Proofs about LiveDocument, for every set of tabs and processes, any      *)
(* number of edits, sockets, HTTP writes and faults.                        *)
(***************************************************************************)
EXTENDS LiveDocument, FiniteSetTheorems, SequenceTheorems, TLAPS

-----------------------------------------------------------------------------
(* What is on the wire.                                                     *)

(* What peers hear of a change, and what a session answers its own tab.     *)
EditMsg == [type : {"edit"}, version : Version, operation : Operation]
Shared == EditMsg \cup [type : {"deleted"}]
Answer == [type : {"init", "rejected"}, version : Version, content : Text]
            \cup [type : {"edit_ack"}, version : Version] \cup [type : {"error", "close"}]
Payload == Shared \cup Answer

(* A batch the hook sent, and the session that is to read it.               *)
Sent == [base : Version, ids : Text, doc : Text]
PCs == {"none", "init", "join", "loop", "ack", "publish", "closed"}
NoChange == [type |-> "none"]
Socket == [pc : PCs, inbox : Seq(Payload), outbox : Seq(Sent), change : EditMsg \cup {NoChange}]

Envelope == [origin : Conns \cup {<<>>}, payload : Shared]
Relay == [up : BOOLEAN, queue : Seq(Envelope)]

Phases == {"ticket", "open", "live", "retry", "stopped"}
Tab == [me : Clients, phase : Phases, socket : 1..MaxConnects, versionRef : Version,
        editor : Text, pending : [ids : Text, doc : Text], awaitingAck : BOOLEAN,
        sendTimer : BOOLEAN]

(* Each part of the state by itself.                                        *)
DocTypes ==
  /\ stage \in {"live", "gone"} /\ document \in [version : Version, content : Text]
  /\ changes \subseteq [base : Version, version : Version, operation : Operation, state : Text]

ConnTypes ==
  /\ conn \in [Conns -> Socket]
  /\ \A k \in Conns : conn[k].pc \in {"ack", "publish"} => conn[k].change \in EditMsg

TabTypes == client \in [Clients -> Tab] /\ \A c \in Clients : client[c].me = c

HubTypes ==
  /\ relay \in [Procs -> Relay] /\ \A p \in Procs : ~relay[p].up => relay[p].queue = <<>>
  /\ http \subseteq [proc : Procs, payload : Shared]

SpentTypes == spent \in [edits : 0..MaxEdits, http : 0..MaxHttp, faults : 0..MaxFaults]

(* A batch is not empty, and no longer than there have been edits.          *)
BatchSized(ids) == Len(ids) \in 1..spent.edits

Sized ==
  /\ \A c \in Clients : client[c].pending = NoEdit \/ BatchSized(client[c].pending.ids)
  /\ \A k \in Conns : \A j \in 1..Len(conn[k].outbox) : BatchSized(conn[k].outbox[j].ids)

TypeInv == DocTypes /\ ConnTypes /\ TabTypes /\ HubTypes /\ SpentTypes /\ Sized

-----------------------------------------------------------------------------
(* Where an edit is: in one batch a tab has pending, in one batch on its    *)
(* way to a session, or in one row of the log, and there once.              *)

In(e, ids) == \E i \in 1..Len(ids) : ids[i] = e
Injective(ids) == \A i, j \in 1..Len(ids) : ids[i] = ids[j] => i = j
Disjoint(s, t) == \A e \in 1..MaxEdits : ~(In(e, s) /\ In(e, t))

Pending(c) == client[c].pending.ids
Wired(k, j) == conn[k].outbox[j].ids
Places(k) == 1..Len(conn[k].outbox)
Rows == {r \in changes : r.operation.kind = "steps"}

TabsOnce ==
  \A c, d \in Clients : Injective(Pending(c)) /\ (c # d => Disjoint(Pending(c), Pending(d)))

WireOnce ==
  \A k, l \in Conns : \A i \in Places(k), j \in Places(l) :
    Injective(Wired(k, i)) /\ (k # l \/ i # j => Disjoint(Wired(k, i), Wired(l, j)))

LogOnce ==
  \A q, r \in Rows :
    Injective(q.operation.ids) /\ (q # r => Disjoint(q.operation.ids, r.operation.ids))

Apart ==
  /\ \A c \in Clients, k \in Conns : \A j \in Places(k) : Disjoint(Pending(c), Wired(k, j))
  /\ \A c \in Clients, r \in Rows : Disjoint(Pending(c), r.operation.ids)
  /\ \A k \in Conns, r \in Rows : \A j \in Places(k) : Disjoint(Wired(k, j), r.operation.ids)

(* No batch holds an edit that is still to be made.                         *)
Made(ids) == \A e \in 1..MaxEdits : In(e, ids) => e <= spent.edits
AllMade ==
  /\ \A c \in Clients : Made(Pending(c))
  /\ \A k \in Conns : \A j \in Places(k) : Made(Wired(k, j))
  /\ \A r \in Rows : Made(r.operation.ids)

OnePlace == TabsOnce /\ WireOnce /\ LogOnce /\ Apart /\ AllMade

(* A version is an HTTP write, or holds an edit that no other version does. *)
Typed == {e \in 1..MaxEdits : \E r \in Rows : In(e, r.operation.ids)}
VersionsPaid == document.version <= 1 + spent.http + Cardinality(Typed)

EditInv == OnePlace /\ VersionsPaid

-----------------------------------------------------------------------------
(* What is in flight between a tab and its current socket.                  *)

Answers == {"edit_ack", "rejected", "error"}
Line(c) == conn[<<c, client[c].socket>>]

(* No message, or at most one, of these types.                              *)
NoneOf(inbox, types) == \A i \in 1..Len(inbox) : inbox[i].type \notin types
OneOf(inbox, types) ==
  \A i, j \in 1..Len(inbox) : inbox[i].type \in types /\ inbox[j].type \in types => i = j

(* Nothing is asked and nothing answered.                                   *)
Silent(s) == s.outbox = <<>> /\ s.pc # "ack" /\ NoneOf(s.inbox, Answers)

(* One edit: sent, accepted, or answered.                                   *)
OneAsked(s) ==
  \/ Len(s.outbox) = 1 /\ s.pc # "ack" /\ NoneOf(s.inbox, Answers)
  \/ s.outbox = <<>> /\ s.pc = "ack" /\ NoneOf(s.inbox, Answers)
  \/ s.outbox = <<>> /\ s.pc # "ack" /\ OneOf(s.inbox, Answers)

(* `init` comes once.                                                       *)
InitOnce(s) == OneOf(s.inbox, {"init"}) /\ (s.pc = "init" => NoneOf(s.inbox, {"init"}))
InitOver(s) == s.pc # "init" /\ NoneOf(s.inbox, {"init"})

Unused(k) == conn[k].pc = "none" /\ conn[k].inbox = <<>> /\ conn[k].outbox = <<>>

Unopened(c, n) ==
  n > client[c].socket \/ (n = client[c].socket /\ client[c].phase = "ticket")

TabInFlight(c) ==
  /\ \A n \in 1..MaxConnects : Unopened(c, n) => Unused(<<c, n>>)
  /\ client[c].phase \in {"ticket", "open"} =>
       ~client[c].awaitingAck /\ (client[c].pending = NoEdit \/ ~client[c].sendTimer)
  /\ client[c].phase = "open" => Silent(Line(c)) /\ InitOnce(Line(c))
  /\ client[c].phase = "live" =>
       InitOver(Line(c)) /\ (Silent(Line(c)) \/ (client[c].awaitingAck /\ OneAsked(Line(c))))

FlightInv == \A c \in Clients : TabInFlight(c)

-----------------------------------------------------------------------------
(* Data.                                                                    *)

(* A text no longer than the number of edits is what an operation may hold. *)
LEMMA BatchTypes ==
  /\ \A s \in Text : Len(s) <= MaxEdits => s \in Batch
  /\ \A s \in Batch : s \in Text
  /\ <<>> \in Batch /\ <<>> \in Text /\ MaxEdits \in Nat /\ MaxHttp \in Nat /\ MaxFaults \in Nat
<1>0. MaxEdits \in Nat /\ MaxHttp \in Nat /\ MaxFaults \in Nat
  BY LiveAssumption
<1>1. ASSUME NEW s \in Text, Len(s) <= MaxEdits
      PROVE  s \in Batch
  <2>1. Len(s) \in 0..MaxEdits /\ s \in [1..Len(s) -> 1..MaxEdits]
    BY <1>0, <1>1, LenProperties DEF Text
  <2>2. QED
    BY <2>1 DEF Batch
<1>2. ASSUME NEW s \in Batch
      PROVE  s \in Text
  <2>1. PICK n \in 0..MaxEdits : s \in [1..n -> 1..MaxEdits]
    BY DEF Batch
  <2>2. n \in Nat
    BY <1>0, <2>1
  <2>3. QED
    BY <2>1, <2>2, SeqDef, Zenon DEF Text
<1>3. <<>> \in Text /\ Len(<<>>) = 0
  BY DEF Text
<1>4. QED
  BY <1>0, <1>1, <1>2, <1>3

(* What an operation makes of a text is a text.                             *)
LEMMA ReplayTypes ==
  ASSUME NEW op \in Operation, NEW text \in Text
  PROVE  Replay(op, text) \in Text
<1>1. op.ids \in Text /\ op.kind \in {"steps", "replace", "title"}
  BY BatchTypes DEF Operation
<1>2. text \o op.ids \in Text
  BY <1>1, ConcatProperties DEF Text
<1>3. QED
  BY <1>1, <1>2 DEF Replay

(* The operations an HTTP caller or a session brings.                       *)
LEMMA OperationTypes ==
  /\ TitleOp \in Operation
  /\ \A ids \in Batch : StepsOp(ids) \in Operation /\ ReplaceOp(ids) \in Operation
BY BatchTypes DEF TitleOp, StepsOp, ReplaceOp, Operation

(* The fields of a message, by its type.                                    *)
LEMMA PayloadFields ==
  ASSUME NEW m \in Payload
  PROVE  /\ m.type \in {"init", "rejected"} => m.version \in Version /\ m.content \in Text
         /\ m.type = "edit_ack" => m.version \in Version
         /\ m.type = "edit" => m.version \in Version /\ m.operation \in Operation
BY DEF Payload, Shared, EditMsg, Answer

(* Peers never answer, and the hub never says `init`.                       *)
LEMMA SharedTypes ==
  /\ Shared \subseteq Payload /\ EditMsg \subseteq Shared
  /\ \A m \in Shared : m.type \in {"edit", "deleted"}
BY DEF Payload, Shared, EditMsg

(* A set whose elements are all the same has at most one.                   *)
LEMMA AtMostOne ==
  ASSUME NEW S, \A x, y \in S : x = y
  PROVE  Cardinality(S) \in {0, 1} /\ (S = {} => Cardinality(S) = 0)
<1>1. CASE S = {}
  BY <1>1, FS_EmptySet
<1>2. ASSUME NEW x \in S
      PROVE  Cardinality(S) = 1
  <2>1. S = {x}
    OBVIOUS
  <2>2. QED
    BY <2>1, FS_Singleton
<1>3. QED
  BY <1>1, <1>2

-----------------------------------------------------------------------------
(* Sockets.                                                                 *)

(* Sending a message changes one inbox, if its tab still listens.           *)
LEMMA PushedIs ==
  ASSUME NEW cs \in [Conns -> Socket], NEW k \in Conns, NEW m \in Payload
  PROVE  /\ Pushed(cs, k, m) \in [Conns -> Socket]
         /\ \A j \in Conns : /\ j # k => Pushed(cs, k, m)[j] = cs[j]
                             /\ Pushed(cs, k, m)[j].pc = cs[j].pc
                             /\ Pushed(cs, k, m)[j].outbox = cs[j].outbox
                             /\ Pushed(cs, k, m)[j].change = cs[j].change
         /\ \/ Pushed(cs, k, m)[k].inbox = cs[k].inbox
            \/ Current(k) /\ Pushed(cs, k, m)[k].inbox = Append(cs[k].inbox, m)
<1>1. CASE ~Current(k)
  BY <1>1 DEF Pushed
<1>2. CASE Current(k)
  <2>1. Pushed(cs, k, m) = [cs EXCEPT ![k].inbox = Append(cs[k].inbox, m)]
    BY <1>2 DEF Pushed
  <2>2. cs[k] \in Socket /\ Append(cs[k].inbox, m) \in Seq(Payload)
    BY DEF Socket
  <2>3. [cs[k] EXCEPT !.inbox = Append(cs[k].inbox, m)] \in Socket
    BY <2>2 DEF Socket
  <2>4. QED
    BY <1>2, <2>1, <2>2, <2>3 DEF Socket
<1>3. QED
  BY <1>1, <1>2

(* Delivering changes inboxes of joined sockets whose tab still listens.    *)
LEMMA DeliveredIs ==
  ASSUME NEW cs \in [Conns -> Socket], NEW p, NEW env \in Envelope
  PROVE  /\ Delivered(cs, p, env) \in [Conns -> Socket]
         /\ \A j \in Conns :
              /\ Delivered(cs, p, env)[j].pc = cs[j].pc
              /\ Delivered(cs, p, env)[j].outbox = cs[j].outbox
              /\ Delivered(cs, p, env)[j].change = cs[j].change
              /\ \/ Delivered(cs, p, env)[j] = cs[j]
                 \/ /\ Joined(j) /\ Current(j)
                    /\ Delivered(cs, p, env)[j].inbox = Append(cs[j].inbox, env.payload)
<1>1. env.payload \in Payload
  BY SharedTypes DEF Envelope
<1>2. ASSUME NEW j \in Conns
      PROVE  /\ Delivered(cs, p, env)[j] \in Socket
             /\ Delivered(cs, p, env)[j].pc = cs[j].pc
             /\ Delivered(cs, p, env)[j].outbox = cs[j].outbox
             /\ Delivered(cs, p, env)[j].change = cs[j].change
             /\ \/ Delivered(cs, p, env)[j] = cs[j]
                \/ /\ Joined(j) /\ Current(j)
                   /\ Delivered(cs, p, env)[j].inbox = Append(cs[j].inbox, env.payload)
  <2>1. CASE Delivered(cs, p, env)[j] = cs[j]
    BY <2>1
  <2>2. CASE /\ Joined(j) /\ Current(j)
             /\ Delivered(cs, p, env)[j] = [cs[j] EXCEPT !.inbox = Append(cs[j].inbox, env.payload)]
    <3>1. cs[j] \in Socket /\ Append(cs[j].inbox, env.payload) \in Seq(Payload)
      BY <1>1 DEF Socket
    <3>2. QED
      BY <2>2, <3>1 DEF Socket
  <2>3. QED
    BY <2>1, <2>2 DEF Delivered
<1>3. Delivered(cs, p, env) \in [Conns -> Socket]
  <2>1. Delivered(cs, p, env) = [j \in Conns |-> Delivered(cs, p, env)[j]]
    BY DEF Delivered
  <2>2. QED
    BY <1>2, <2>1
<1>4. QED
  BY <1>2, <1>3

-----------------------------------------------------------------------------
(* What each step does, said once for all invariants.                       *)

(* The store takes the next change, with these edits if it is a batch.      *)
Commits(op) ==
  /\ stage = "live" /\ op \in Operation
  /\ \E content \in Text : Commit(document.version, op, content)

StoreSame == UNCHANGED <<stage, document, changes>>
BudgetSame == spent' \in [edits : 0..MaxEdits, http : 0..MaxHttp, faults : 0..MaxFaults]
                /\ spent'.edits = spent.edits /\ spent'.http = spent.http

(* A session goes from one pc to another and says at most one thing.        *)
Goes(k, from, to, types) ==
  /\ conn[k].pc = from /\ conn'[k].pc = to
  /\ \/ conn'[k].inbox = conn[k].inbox
     \/ /\ Current(k)
        /\ \E m \in Payload : m.type \in types /\ conn'[k].inbox = Append(conn[k].inbox, m)

(* It takes a batch from its outbox, or does not.                           *)
Keeps(k) == conn'[k].outbox = conn[k].outbox /\ StoreSame
Takes(k) == conn[k].outbox # <<>> /\ conn'[k].outbox = Tail(conn[k].outbox)

(* What a session does by itself.                                           *)
SessionDoes(k) ==
  \/ Goes(k, "init", "join", {"init"}) /\ Keeps(k)
  \/ Goes(k, "init", "closed", {"close"}) /\ Keeps(k)
  \/ Goes(k, "join", "loop", {}) /\ Keeps(k)
  \/ Goes(k, "ack", "publish", {"edit_ack"}) /\ Keeps(k)
  \/ Goes(k, "loop", "loop", {"error", "rejected"}) /\ Takes(k) /\ StoreSame
  \/ Goes(k, "loop", "closed", {"close"}) /\ Takes(k) /\ StoreSame
  \/ Goes(k, "loop", "ack", {}) /\ Takes(k) /\ Commits(StepsOp(Head(conn[k].outbox).ids))
  \/ /\ ~Current(k) /\ conn[k].pc \in {"init", "join", "loop", "ack"} /\ conn'[k].pc = "closed"
     /\ conn'[k].inbox = <<>> /\ conn'[k].outbox = <<>> /\ StoreSame

(* A batch a session may read is an operation.                              *)
LEMMA HeadBatch ==
  ASSUME TypeInv, NEW k \in Conns, conn[k].outbox # <<>>
  PROVE  /\ Head(conn[k].outbox) \in Sent /\ Tail(conn[k].outbox) \in Seq(Sent)
         /\ Head(conn[k].outbox) = conn[k].outbox[1] /\ 1 \in Places(k)
         /\ BatchSized(Head(conn[k].outbox).ids) /\ Head(conn[k].outbox).ids \in Batch
         /\ StepsOp(Head(conn[k].outbox).ids) \in Operation
<1>1. conn[k].outbox \in Seq(Sent)
  BY DEF TypeInv, ConnTypes, Socket
<1>2. /\ Head(conn[k].outbox) \in Sent /\ Tail(conn[k].outbox) \in Seq(Sent)
      /\ Head(conn[k].outbox) = conn[k].outbox[1] /\ 1 \in Places(k)
  BY <1>1 DEF Places
<1>3. BatchSized(Head(conn[k].outbox).ids)
  BY <1>2 DEF TypeInv, Sized, Places
<1>4. spent.edits \in 0..MaxEdits /\ MaxEdits \in Nat
  BY BatchTypes DEF TypeInv, SpentTypes
<1>5. Head(conn[k].outbox).ids \in Batch
  <2>1. Head(conn[k].outbox).ids \in Text
    BY <1>2 DEF Sent
  <2>2. Len(Head(conn[k].outbox).ids) <= MaxEdits
    BY <1>3, <1>4 DEF BatchSized
  <2>3. QED
    BY <2>1, <2>2, BatchTypes
<1>6. QED
  BY <1>2, <1>3, <1>5, OperationTypes

(* Every step of a session but its publish is of that form.                 *)
LEMMA SessionSteps ==
  ASSUME TypeInv, document'.version \in Version, NEW k \in Conns,
         \/ SendInit(k) \/ Join(k) \/ HandleEdit(k) \/ SendAck(k) \/ SessionEnds(k)
  PROVE  /\ SessionDoes(k) /\ ConnTypes' /\ BudgetSame
         /\ UNCHANGED <<relay, http, client>>
         /\ \A j \in Conns : j # k => conn'[j] = conn[j]
<1> DEFINE Others == \A j \in Conns : j # k => conn'[j] = conn[j]
<1>0. /\ conn \in [Conns -> Socket] /\ conn[k] \in Socket /\ document.version \in Version
      /\ document.content \in Text
      /\ \A j \in Conns : conn[j].pc \in {"ack", "publish"} => conn[j].change \in EditMsg
  BY DEF TypeInv, ConnTypes, DocTypes
<1>1. UNCHANGED spent => BudgetSame
  BY DEF TypeInv, SpentTypes, BudgetSame
<1>2. ASSUME NEW cs \in [Conns -> Socket], NEW m \in Payload, conn' = Pushed(cs, k, m),
             \A j \in Conns : j # k => cs[j] = conn[j],
             cs[k].pc \in {"ack", "publish"} => cs[k].change \in EditMsg
      PROVE  /\ ConnTypes' /\ Others /\ conn'[k].pc = cs[k].pc /\ conn'[k].outbox = cs[k].outbox
             /\ \/ conn'[k].inbox = cs[k].inbox
                \/ Current(k) /\ conn'[k].inbox = Append(cs[k].inbox, m)
  BY <1>0, <1>2, PushedIs DEF ConnTypes
<1>3. ASSUME NEW pc \in PCs
      PROVE  LET cs == [conn EXCEPT ![k].pc = pc] IN
             /\ cs \in [Conns -> Socket] /\ \A j \in Conns : j # k => cs[j] = conn[j]
             /\ cs[k].pc = pc /\ cs[k].inbox = conn[k].inbox /\ cs[k].outbox = conn[k].outbox
             /\ cs[k].change = conn[k].change
  BY <1>0 DEF Socket
<1>4. CASE SendInit(k)
  <2>1. CASE conn' = Pushed([conn EXCEPT ![k].pc = "join"], k,
                            [type |-> "init", version |-> document.version,
                             content |-> document.content])
    <3> DEFINE cs == [conn EXCEPT ![k].pc = "join"]
               m == [type |-> "init", version |-> document.version, content |-> document.content]
    <3>1. m \in Payload /\ m.type = "init"
      BY <1>0 DEF Payload, Answer
    <3>2. /\ cs \in [Conns -> Socket] /\ \A j \in Conns : j # k => cs[j] = conn[j]
          /\ cs[k].pc = "join" /\ cs[k].inbox = conn[k].inbox /\ cs[k].outbox = conn[k].outbox
      BY <1>3 DEF PCs
    <3>3. conn' = Pushed(cs, k, m)
      BY <2>1
    <3> HIDE DEF cs, m
    <3>4. /\ ConnTypes' /\ Others /\ conn'[k].pc = "join" /\ conn'[k].outbox = conn[k].outbox
          /\ \/ conn'[k].inbox = conn[k].inbox
             \/ Current(k) /\ conn'[k].inbox = Append(conn[k].inbox, m)
      BY <1>2, <3>1, <3>2, <3>3
    <3>5. Goes(k, "init", "join", {"init"})
      BY <1>4, <3>1, <3>4 DEF Goes, SendInit
    <3>6. QED
      BY <1>1, <1>4, <3>4, <3>5 DEF SendInit, SessionDoes, Keeps, StoreSame
  <2>2. CASE conn' = Pushed([conn EXCEPT ![k].pc = "closed"], k, [type |-> "close"])
    <3> DEFINE cs == [conn EXCEPT ![k].pc = "closed"]
               m == [type |-> "close"]
    <3>1. m \in Payload /\ m.type = "close"
      BY DEF Payload, Answer
    <3>2. /\ cs \in [Conns -> Socket] /\ \A j \in Conns : j # k => cs[j] = conn[j]
          /\ cs[k].pc = "closed" /\ cs[k].inbox = conn[k].inbox /\ cs[k].outbox = conn[k].outbox
      BY <1>3 DEF PCs
    <3>3. conn' = Pushed(cs, k, m)
      BY <2>2
    <3> HIDE DEF cs, m
    <3>4. /\ ConnTypes' /\ Others /\ conn'[k].pc = "closed" /\ conn'[k].outbox = conn[k].outbox
          /\ \/ conn'[k].inbox = conn[k].inbox
             \/ Current(k) /\ conn'[k].inbox = Append(conn[k].inbox, m)
      BY <1>2, <3>1, <3>2, <3>3
    <3>5. Goes(k, "init", "closed", {"close"})
      BY <1>4, <3>1, <3>4 DEF Goes, SendInit
    <3>6. QED
      BY <1>1, <1>4, <3>4, <3>5 DEF SendInit, SessionDoes, Keeps, StoreSame
  <2>3. QED
    BY <1>4, <2>1, <2>2 DEF SendInit
<1>5. CASE Join(k)
  <2>1. /\ conn' \in [Conns -> Socket] /\ Others
        /\ conn'[k].pc = "loop" /\ conn'[k].inbox = conn[k].inbox /\ conn'[k].outbox = conn[k].outbox
    BY <1>3, <1>5 DEF Join, PCs
  <2>2. Goes(k, "join", "loop", {})
    BY <1>5, <2>1 DEF Goes, Join
  <2>3. ConnTypes'
    BY <1>0, <2>1 DEF ConnTypes
  <2>4. QED
    BY <1>1, <1>5, <2>1, <2>2, <2>3 DEF Join, SessionDoes, Keeps, StoreSame
<1>6. CASE SendAck(k)
  <2> DEFINE cs == [conn EXCEPT ![k].pc = "publish"]
             m == [type |-> "edit_ack", version |-> conn[k].change.version]
  <2>1. conn[k].change \in EditMsg
    BY <1>0, <1>6 DEF SendAck
  <2>2. m \in Payload /\ m.type = "edit_ack"
    BY <2>1 DEF Payload, Answer, EditMsg
  <2>3. /\ cs \in [Conns -> Socket] /\ \A j \in Conns : j # k => cs[j] = conn[j]
        /\ cs[k].pc = "publish" /\ cs[k].inbox = conn[k].inbox /\ cs[k].outbox = conn[k].outbox
        /\ cs[k].change = conn[k].change
    BY <1>3 DEF PCs
  <2>4. conn' = Pushed(cs, k, m)
    BY <1>6 DEF SendAck
  <2> HIDE DEF cs, m
  <2>5. /\ ConnTypes' /\ Others /\ conn'[k].pc = "publish" /\ conn'[k].outbox = conn[k].outbox
        /\ \/ conn'[k].inbox = conn[k].inbox
           \/ Current(k) /\ conn'[k].inbox = Append(conn[k].inbox, m)
    BY <1>2, <2>1, <2>2, <2>3, <2>4
  <2>6. Goes(k, "ack", "publish", {"edit_ack"})
    BY <1>6, <2>2, <2>5 DEF Goes, SendAck
  <2>7. QED
    BY <1>1, <1>6, <2>5, <2>6 DEF SendAck, SessionDoes, Keeps, StoreSame
<1>7. CASE SessionEnds(k)
  <2> DEFINE q == [pc |-> "closed", inbox |-> <<>>, outbox |-> <<>>, change |-> NoChange]
  <2>1. q \in Socket
    BY DEF Socket, PCs
  <2>2. conn' = [conn EXCEPT ![k] = q]
    BY <1>7 DEF SessionEnds, NoChange
  <2>3. conn' \in [Conns -> Socket] /\ conn'[k] = q /\ Others
    BY <1>0, <2>1, <2>2
  <2>4. ConnTypes'
    BY <1>0, <2>3 DEF ConnTypes
  <2>5. QED
    BY <1>1, <1>7, <2>3, <2>4 DEF SessionEnds, SessionDoes, StoreSame
<1>8. CASE HandleEdit(k)
  <2> DEFINE edit == Head(conn[k].outbox)
  <2>1. /\ conn[k].pc = "loop" /\ conn[k].outbox # <<>> /\ UNCHANGED <<relay, http, client>>
        /\ edit \in Sent /\ Tail(conn[k].outbox) \in Seq(Sent) /\ StepsOp(edit.ids) \in Operation
    BY <1>8, HeadBatch DEF HandleEdit
  <2>2. /\ Taken(k) \in [Conns -> Socket] /\ \A j \in Conns : j # k => Taken(k)[j] = conn[j]
        /\ Taken(k)[k].pc = "loop" /\ Taken(k)[k].inbox = conn[k].inbox
        /\ Taken(k)[k].outbox = Tail(conn[k].outbox)
    BY <1>0, <2>1 DEF Taken, Socket
  <2>3. LET cs == [Taken(k) EXCEPT ![k].pc = "closed"] IN
        /\ cs \in [Conns -> Socket] /\ \A j \in Conns : j # k => cs[j] = conn[j]
        /\ cs[k].pc = "closed" /\ cs[k].inbox = conn[k].inbox /\ cs[k].outbox = Tail(conn[k].outbox)
    <3>1. Taken(k)[k] \in Socket
      BY <2>2
    <3>2. [Taken(k)[k] EXCEPT !.pc = "closed"] \in Socket
      BY <3>1 DEF Socket, PCs
    <3>3. QED
      BY <2>2, <3>1, <3>2 DEF Socket
  <2>4. ASSUME NEW m \in Payload, m.type \in {"error", "rejected"}, conn' = Pushed(Taken(k), k, m),
               StoreSame, BudgetSame
        PROVE  SessionDoes(k) /\ ConnTypes' /\ Others
    <3>1. /\ ConnTypes' /\ Others /\ conn'[k].pc = "loop"
          /\ conn'[k].outbox = Tail(conn[k].outbox)
          /\ \/ conn'[k].inbox = conn[k].inbox
             \/ Current(k) /\ conn'[k].inbox = Append(conn[k].inbox, m)
      BY <1>2, <2>2, <2>4
    <3>2. Goes(k, "loop", "loop", {"error", "rejected"}) /\ Takes(k)
      BY <2>1, <2>4, <3>1 DEF Goes, Takes
    <3>3. QED
      BY <2>4, <3>1, <3>2 DEF SessionDoes
  <2>5. ASSUME conn' = Pushed([Taken(k) EXCEPT ![k].pc = "closed"], k, [type |-> "close"]),
               StoreSame, BudgetSame
        PROVE  SessionDoes(k) /\ ConnTypes' /\ Others
    <3> DEFINE m == [type |-> "close"]
               cs == [Taken(k) EXCEPT ![k].pc = "closed"]
    <3>1. m \in Payload /\ m.type = "close"
      BY DEF Payload, Answer
    <3>2. /\ cs \in [Conns -> Socket] /\ \A j \in Conns : j # k => cs[j] = conn[j]
          /\ cs[k].pc = "closed" /\ cs[k].inbox = conn[k].inbox /\ cs[k].outbox = Tail(conn[k].outbox)
          /\ conn' = Pushed(cs, k, m)
      BY <2>3, <2>5
    <3> HIDE DEF cs, m
    <3>3. /\ ConnTypes' /\ Others /\ conn'[k].pc = "closed"
          /\ conn'[k].outbox = Tail(conn[k].outbox)
          /\ \/ conn'[k].inbox = conn[k].inbox
             \/ Current(k) /\ conn'[k].inbox = Append(conn[k].inbox, m)
      BY <1>2, <3>1, <3>2
    <3>4. Goes(k, "loop", "closed", {"close"}) /\ Takes(k)
      BY <2>1, <3>1, <3>3 DEF Goes, Takes
    <3>5. QED
      BY <2>5, <3>3, <3>4 DEF SessionDoes
  <2>6. CASE ThrottleEdit(k)
    <3>1. BudgetSame
      <4>1. spent' = [spent EXCEPT !.faults = @ + 1] /\ spent.faults < MaxFaults
        BY <2>6 DEF ThrottleEdit, Fault
      <4>2. QED
        BY <4>1, BatchTypes DEF TypeInv, SpentTypes, BudgetSame
    <3>2. QED
      BY <2>1, <2>5, <2>6, <3>1 DEF ThrottleEdit, StoreSame
  <2>7. CASE RefuseEdit(k) /\ UNCHANGED spent
    <3>1. [type |-> "error"] \in Payload /\ [type |-> "error"].type = "error"
      BY DEF Payload, Answer
    <3>2. QED
      BY <1>1, <2>1, <2>4, <2>7, <3>1 DEF RefuseEdit, StoreSame
  <2>8. CASE EditNotFound(k) /\ UNCHANGED spent
    BY <1>1, <2>1, <2>5, <2>8 DEF EditNotFound, StoreSame
  <2>9. CASE RejectEdit(k) /\ UNCHANGED spent
    <3> DEFINE m == [type |-> "rejected", version |-> document.version, content |-> document.content]
    <3>1. m \in Payload /\ m.type = "rejected"
      BY <1>0 DEF Payload, Answer
    <3>2. conn' = Pushed(Taken(k), k, m)
      BY <2>9 DEF RejectEdit
    <3> HIDE DEF m
    <3>3. QED
      BY <1>1, <2>1, <2>4, <2>9, <3>1, <3>2 DEF RejectEdit, StoreSame
  <2>10. CASE AcceptEdit(k) /\ UNCHANGED spent
    <3> DEFINE m == [type |-> "edit", version |-> document.version + 1, operation |-> StepsOp(edit.ids)]
    <3>1. /\ conn' = [Taken(k) EXCEPT ![k].pc = "ack", ![k].change = m]
          /\ stage = "live" /\ Commit(edit.base, StepsOp(edit.ids), edit.doc)
          /\ edit.base = document.version /\ edit.doc \in Text
      BY <2>1, <2>10 DEF AcceptEdit, Sent
    <3>2. m \in EditMsg
      BY <2>1, <3>1 DEF EditMsg, Commit
    <3> HIDE DEF m
    <3>3. Taken(k)[k] \in Socket
      BY <2>2
    <3>4. [Taken(k)[k] EXCEPT !.pc = "ack", !.change = m] \in Socket
      BY <3>2, <3>3 DEF Socket, PCs
    <3>5. /\ conn' \in [Conns -> Socket] /\ Others /\ conn'[k].pc = "ack"
          /\ conn'[k].inbox = conn[k].inbox /\ conn'[k].outbox = Tail(conn[k].outbox)
          /\ conn'[k].change = m
      BY <2>2, <3>1, <3>3, <3>4 DEF Socket
    <3>6. ConnTypes'
      BY <1>0, <3>2, <3>5 DEF ConnTypes
    <3>7. Goes(k, "loop", "ack", {}) /\ Takes(k) /\ Commits(StepsOp(edit.ids))
      BY <2>1, <3>1, <3>5 DEF Goes, Takes, Commits
    <3>8. QED
      BY <1>1, <2>1, <2>10, <3>5, <3>6, <3>7 DEF SessionDoes
  <2>11. QED
    <3>1. BudgetSame
      <4>1. ThrottleEdit(k) => spent' = [spent EXCEPT !.faults = @ + 1] /\ spent.faults < MaxFaults
        BY DEF ThrottleEdit, Fault
      <4>2. QED
        BY <1>1, <1>8, <4>1, BatchTypes DEF HandleEdit, TypeInv, SpentTypes, BudgetSame
    <3>2. QED
      BY <1>8, <2>1, <2>6, <2>7, <2>8, <2>9, <2>10, <3>1 DEF HandleEdit
<1>9. QED
  BY <1>4, <1>5, <1>6, <1>7, <1>8

(* What the hub does to a socket: it may hand it what peers share, and the  *)
(* session that publishes goes on.                                          *)
Hears(j) ==
  /\ conn'[j].outbox = conn[j].outbox
  /\ conn'[j].pc = conn[j].pc \/ (conn[j].pc = "publish" /\ conn'[j].pc = "loop")
  /\ \/ conn'[j].inbox = conn[j].inbox
     \/ /\ Joined(j) /\ Current(j)
        /\ \E m \in Shared : conn'[j].inbox = Append(conn[j].inbox, m)

(* Publishing hands an envelope to the relays, or to the own process.       *)
LEMMA PublishSteps ==
  ASSUME TypeInv, NEW cs \in [Conns -> Socket], NEW p, NEW env \in Envelope, Publish(cs, p, env),
         \A j \in Conns : /\ cs[j].inbox = conn[j].inbox /\ cs[j].outbox = conn[j].outbox
                          /\ cs[j].pc = conn[j].pc \/ (conn[j].pc = "publish" /\ cs[j].pc = "loop")
                          /\ cs[j].pc \in {"ack", "publish"} => cs[j].change \in EditMsg
  PROVE  /\ \A j \in Conns : Hears(j)
         /\ ConnTypes' /\ BudgetSame
         /\ relay' \in [Procs -> Relay] /\ \A r \in Procs : ~relay'[r].up => relay'[r].queue = <<>>
<1>0. /\ relay \in [Procs -> Relay] /\ \A r \in Procs : ~relay[r].up => relay[r].queue = <<>>
      /\ spent \in [edits : 0..MaxEdits, http : 0..MaxHttp, faults : 0..MaxFaults]
      /\ env.payload \in Shared /\ MaxFaults \in Nat
  BY BatchTypes DEF TypeInv, HubTypes, SpentTypes, Envelope
<1>1. CASE /\ relay' = [r \in Procs |-> IF relay[r].up
                                       THEN [relay[r] EXCEPT !.queue = Append(@, env)]
                                       ELSE relay[r]]
           /\ conn' = cs /\ UNCHANGED spent
  <2>1. ASSUME NEW r \in Procs
        PROVE  relay'[r] \in Relay /\ (~relay'[r].up => relay'[r].queue = <<>>)
    <3>1. relay[r] \in Relay /\ Append(relay[r].queue, env) \in Seq(Envelope)
      BY <1>0 DEF Relay
    <3>2. CASE relay[r].up
      <4>1. relay'[r] = [relay[r] EXCEPT !.queue = Append(relay[r].queue, env)]
        BY <1>1, <3>2
      <4>2. QED
        BY <3>1, <3>2, <4>1 DEF Relay
    <3>3. CASE ~relay[r].up
      BY <1>0, <1>1, <3>3
    <3>4. QED
      BY <3>2, <3>3
  <2>2. relay' \in [Procs -> Relay]
    BY <1>1, <2>1
  <2>3. ConnTypes' /\ \A j \in Conns : Hears(j)
    BY <1>1 DEF ConnTypes, Hears
  <2>4. QED
    BY <1>0, <1>1, <2>1, <2>2, <2>3 DEF BudgetSame
<1>2. CASE Fault /\ conn' = Delivered(cs, p, env) /\ UNCHANGED relay
  <2>1. BudgetSame
    BY <1>0, <1>2 DEF Fault, BudgetSame
  <2>2. /\ conn' \in [Conns -> Socket]
        /\ \A j \in Conns :
              /\ conn'[j].pc = cs[j].pc /\ conn'[j].outbox = cs[j].outbox
              /\ conn'[j].change = cs[j].change
              /\ \/ conn'[j] = cs[j]
                 \/ Joined(j) /\ Current(j) /\ conn'[j].inbox = Append(cs[j].inbox, env.payload)
    BY <1>2, DeliveredIs
  <2>3. ConnTypes'
    BY <2>2 DEF ConnTypes
  <2>4. ASSUME NEW j \in Conns
        PROVE  Hears(j)
    <3>1. conn'[j].inbox = conn[j].inbox \/ (Joined(j) /\ Current(j)
                                               /\ conn'[j].inbox = Append(conn[j].inbox, env.payload))
      BY <2>2
    <3>2. QED
      BY <1>0, <2>2, <3>1 DEF Hears
  <2>5. QED
    BY <1>0, <1>2, <2>1, <2>3, <2>4
<1>3. QED
  BY <1>1, <1>2 DEF Publish

(* The hub, the relay, and what publishes through them.                     *)
LEMMA HubSteps ==
  ASSUME TypeInv,
         \/ \E p \in Procs : RelayDeliver(p) \/ RelayReconnect(p) \/ RelayDrop(p)
         \/ \E h \in http : HttpPublish(h)
         \/ \E k \in Conns : PublishEdit(k)
  PROVE  /\ \A j \in Conns : Hears(j)
         /\ ConnTypes' /\ HubTypes' /\ BudgetSame /\ UNCHANGED client /\ StoreSame
<1>0. /\ conn \in [Conns -> Socket]
      /\ \A j \in Conns : conn[j].pc \in {"ack", "publish"} => conn[j].change \in EditMsg
      /\ relay \in [Procs -> Relay] /\ \A r \in Procs : ~relay[r].up => relay[r].queue = <<>>
      /\ http \subseteq [proc : Procs, payload : Shared] /\ MaxFaults \in Nat
      /\ spent \in [edits : 0..MaxEdits, http : 0..MaxHttp, faults : 0..MaxFaults]
  BY BatchTypes DEF TypeInv, ConnTypes, HubTypes, SpentTypes
<1>1. UNCHANGED conn => ConnTypes' /\ \A j \in Conns : Hears(j)
  BY <1>0 DEF ConnTypes, Hears
<1>2. UNCHANGED spent => BudgetSame
  BY <1>0 DEF BudgetSame
<1>3. ASSUME NEW p \in Procs, RelayDeliver(p)
      PROVE  /\ \A j \in Conns : Hears(j)
             /\ ConnTypes' /\ HubTypes' /\ BudgetSame /\ UNCHANGED client /\ StoreSame
  <2> DEFINE env == Head(relay[p].queue)
  <2>1. relay[p] \in Relay /\ relay[p].queue # <<>>
    BY <1>0, <1>3 DEF RelayDeliver
  <2>2. env \in Envelope /\ Tail(relay[p].queue) \in Seq(Envelope)
    BY <2>1 DEF Relay
  <2>3. [relay[p] EXCEPT !.queue = Tail(relay[p].queue)] \in Relay
    BY <2>1, <2>2 DEF Relay
  <2>4. relay' = [relay EXCEPT ![p] = [relay[p] EXCEPT !.queue = Tail(relay[p].queue)]]
    BY <1>3 DEF RelayDeliver
  <2>5. relay' \in [Procs -> Relay] /\ \A r \in Procs : ~relay'[r].up => relay'[r].queue = <<>>
    BY <1>0, <2>1, <2>3, <2>4 DEF Relay
  <2>6. /\ conn' \in [Conns -> Socket]
        /\ \A j \in Conns :
              /\ conn'[j].pc = conn[j].pc /\ conn'[j].outbox = conn[j].outbox
              /\ conn'[j].change = conn[j].change
              /\ \/ conn'[j] = conn[j]
                 \/ Joined(j) /\ Current(j) /\ conn'[j].inbox = Append(conn[j].inbox, env.payload)
    BY <1>0, <1>3, <2>2, DeliveredIs DEF RelayDeliver
  <2>7. env.payload \in Shared
    BY <2>2 DEF Envelope
  <2> HIDE DEF env
  <2>8. \A j \in Conns : Hears(j)
    BY <2>6, <2>7 DEF Hears
  <2>9. ConnTypes' /\ HubTypes'
    BY <1>0, <1>3, <2>5, <2>6 DEF ConnTypes, HubTypes, RelayDeliver
  <2>10. QED
    BY <1>2, <1>3, <2>8, <2>9 DEF RelayDeliver, StoreSame
<1>4. ASSUME NEW p \in Procs, RelayReconnect(p)
      PROVE  /\ \A j \in Conns : Hears(j)
             /\ ConnTypes' /\ HubTypes' /\ BudgetSame /\ UNCHANGED client /\ StoreSame
  <2>1. [relay[p] EXCEPT !.up = TRUE] \in Relay
    BY <1>0 DEF Relay
  <2>2. relay' = [relay EXCEPT ![p] = [relay[p] EXCEPT !.up = TRUE]]
    BY <1>4 DEF RelayReconnect
  <2>3. relay' \in [Procs -> Relay] /\ \A r \in Procs : ~relay'[r].up => relay'[r].queue = <<>>
    BY <1>0, <2>1, <2>2 DEF Relay
  <2>4. QED
    BY <1>0, <1>1, <1>2, <1>4, <2>3 DEF RelayReconnect, StoreSame, HubTypes
<1>5. ASSUME NEW p \in Procs, RelayDrop(p)
      PROVE  /\ \A j \in Conns : Hears(j)
             /\ ConnTypes' /\ HubTypes' /\ BudgetSame /\ UNCHANGED client /\ StoreSame
  <2>1. [up |-> FALSE, queue |-> <<>>] \in Relay
    BY DEF Relay
  <2>2. relay' \in [Procs -> Relay] /\ \A r \in Procs : ~relay'[r].up => relay'[r].queue = <<>>
    BY <1>0, <1>5, <2>1 DEF RelayDrop
  <2>3. BudgetSame
    BY <1>0, <1>5 DEF RelayDrop, Fault, BudgetSame
  <2>4. QED
    BY <1>0, <1>1, <1>5, <2>2, <2>3 DEF RelayDrop, StoreSame, HubTypes
<1>6. ASSUME NEW h \in http, HttpPublish(h)
      PROVE  /\ \A j \in Conns : Hears(j)
             /\ ConnTypes' /\ HubTypes' /\ BudgetSame /\ UNCHANGED client /\ StoreSame
  <2> DEFINE env == [origin |-> <<>>, payload |-> h.payload]
  <2>1. env \in Envelope /\ http' \subseteq http
    BY <1>0, <1>6 DEF Envelope, HttpPublish
  <2>2. Publish(conn, h.proc, env)
    BY <1>6 DEF HttpPublish
  <2> HIDE DEF env
  <2>3. /\ \A j \in Conns : Hears(j)
        /\ ConnTypes' /\ BudgetSame
        /\ relay' \in [Procs -> Relay] /\ \A r \in Procs : ~relay'[r].up => relay'[r].queue = <<>>
    BY <1>0, <2>1, <2>2, PublishSteps
  <2>4. QED
    BY <1>0, <1>6, <2>1, <2>3 DEF HttpPublish, StoreSame, HubTypes
<1>7. ASSUME NEW k \in Conns, PublishEdit(k)
      PROVE  /\ \A j \in Conns : Hears(j)
             /\ ConnTypes' /\ HubTypes' /\ BudgetSame /\ UNCHANGED client /\ StoreSame
  <2> DEFINE env == [origin |-> k, payload |-> conn[k].change]
             cs == [conn EXCEPT ![k].pc = "loop", ![k].change = [type |-> "none"]]
  <2>1. env \in Envelope
    BY <1>0, <1>7, SharedTypes DEF Envelope, PublishEdit
  <2>2. conn[k] \in Socket /\ [conn[k] EXCEPT !.pc = "loop", !.change = NoChange] \in Socket
    BY <1>0 DEF Socket, PCs
  <2>3. cs = [conn EXCEPT ![k] = [conn[k] EXCEPT !.pc = "loop", !.change = NoChange]]
    BY <1>0 DEF NoChange
  <2>4. cs \in [Conns -> Socket]
    BY <1>0, <2>2, <2>3
  <2>5. \A j \in Conns : /\ cs[j].inbox = conn[j].inbox /\ cs[j].outbox = conn[j].outbox
                         /\ cs[j].pc = conn[j].pc \/ (conn[j].pc = "publish" /\ cs[j].pc = "loop")
                         /\ cs[j].pc \in {"ack", "publish"} => cs[j].change \in EditMsg
    BY <1>0, <1>7, <2>2, <2>3 DEF Socket, PublishEdit
  <2>6. Publish(cs, Home[k[1]], env)
    BY <1>7 DEF PublishEdit
  <2> HIDE DEF env, cs
  <2>7. /\ \A j \in Conns : Hears(j)
        /\ ConnTypes' /\ BudgetSame
        /\ relay' \in [Procs -> Relay] /\ \A r \in Procs : ~relay'[r].up => relay'[r].queue = <<>>
    BY <2>1, <2>4, <2>5, <2>6, PublishSteps
  <2>8. QED
    BY <1>0, <1>7, <2>7 DEF PublishEdit, StoreSame, HubTypes
<1>8. QED
  BY <1>3, <1>4, <1>5, <1>6, <1>7

(* A change that is committed is a well-formed row.                         *)
LEMMA CommitTypes ==
  ASSUME TypeInv, document'.version \in Version, NEW op, Commits(op)
  PROVE  DocTypes' /\ document'.version = document.version + 1
<1>1. PICK content \in Text : Commit(document.version, op, content)
  BY DEF Commits
<1>2. document.version \in Version /\ op \in Operation
  BY DEF TypeInv, DocTypes, Commits
<1>3. document' = [version |-> document.version + 1, content |-> content] /\ UNCHANGED stage
  BY <1>1 DEF Commit
<1>4. document' \in [version : Version, content : Text] /\ document'.version = document.version + 1
  BY <1>3
<1>5. [base |-> document.version, version |-> document.version + 1, operation |-> op, state |-> content]
        \in [base : Version, version : Version, operation : Operation, state : Text]
  BY <1>2, <1>3
<1>6. QED
  BY <1>1, <1>3, <1>4, <1>5 DEF Commit, TypeInv, DocTypes

(* A caller's write is a title, a whole document, or one new step.          *)
LEMMA HttpSteps ==
  ASSUME TypeInv, document'.version \in Version, NEW p \in Procs, NEW kind \in HttpKinds,
         HttpCommit(p, kind)
  PROVE  /\ UNCHANGED <<conn, client>> /\ HubTypes'
         /\ SpentTypes' /\ spent'.http = spent.http + 1
         /\ \E op \in Operation :
              /\ Commits(op)
              /\ \/ op.kind # "steps" /\ spent'.edits \in {spent.edits, spent.edits + 1}
                 \/ op = StepsOp(<<spent.edits + 1>>) /\ spent'.edits = spent.edits + 1
<1> DEFINE e == spent.edits + 1
           op == CASE kind = "title"   -> TitleOp
                   [] kind = "replace" -> ReplaceOp(<<e>>)
                   [] kind = "steps"   -> StepsOp(<<e>>)
<1>0. /\ spent \in [edits : 0..MaxEdits, http : 0..MaxHttp, faults : 0..MaxFaults]
      /\ MaxEdits \in Nat /\ MaxHttp \in Nat /\ kind \in {"title", "replace", "steps"}
      /\ document.version \in Version /\ document.content \in Text
  BY LiveAssumption DEF TypeInv, SpentTypes, DocTypes
<1>1. /\ stage = "live" /\ spent.http < MaxHttp /\ (kind # "title" => e <= MaxEdits)
      /\ spent' = [spent EXCEPT !.http = @ + 1, !.edits = IF kind = "title" THEN @ ELSE e]
      /\ Commit(document.version, op, Replay(op, document.content))
      /\ http' = http \cup {[proc |-> p, payload |-> [type |-> "edit", version |-> document.version + 1,
                                                     operation |-> op]]}
      /\ UNCHANGED <<relay, conn, client>>
  BY DEF HttpCommit
<1>2. kind # "title" => <<e>> \in Batch
  <2>1. CASE kind # "title"
    <3>1. e \in 1..MaxEdits
      BY <1>0, <1>1, <2>1
    <3>2. <<e>> \in Text /\ Len(<<e>>) = 1
      BY <3>1 DEF Text
    <3>3. Len(<<e>>) <= MaxEdits
      BY <1>0, <3>1, <3>2
    <3>4. QED
      BY <3>2, <3>3, BatchTypes, Zenon
  <2>2. QED
    BY <2>1
<1>3. /\ op \in Operation
      /\ kind = "steps" => op = StepsOp(<<e>>)
      /\ kind # "steps" => op.kind # "steps"
  BY <1>0, <1>2, OperationTypes DEF TitleOp, ReplaceOp
<1> HIDE DEF op
<1>4. Commits(op)
  BY <1>0, <1>1, <1>3, ReplayTypes DEF Commits
<1>5. [type |-> "edit", version |-> document.version + 1, operation |-> op] \in Shared
  BY <1>1, <1>3 DEF Shared, EditMsg, Commit
<1>6. HubTypes'
  BY <1>1, <1>5 DEF TypeInv, HubTypes
<1>7. SpentTypes' /\ spent'.http = spent.http + 1
      /\ spent'.edits = IF kind = "title" THEN spent.edits ELSE e
  <2>1. spent' = [spent EXCEPT !.http = spent.http + 1,
                               !.edits = IF kind = "title" THEN spent.edits ELSE e]
    BY <1>0, <1>1
  <2>2. spent.http + 1 \in 0..MaxHttp
    BY <1>0, <1>1
  <2>3. (IF kind = "title" THEN spent.edits ELSE e) \in 0..MaxEdits
    BY <1>0, <1>1
  <2>4. QED
    BY <1>0, <2>1, <2>2, <2>3 DEF SpentTypes
<1>8. QED
  BY <1>0, <1>1, <1>3, <1>4, <1>6, <1>7

(* The document goes, with its log.                                         *)
LEMMA DeleteSteps ==
  ASSUME TypeInv, NEW p \in Procs, DeleteDocument(p)
  PROVE  /\ UNCHANGED <<conn, client, spent>> /\ HubTypes' /\ DocTypes'
         /\ changes' = {} /\ document'.version = 0
<1>1. [type |-> "deleted"] \in Shared
  BY DEF Shared
<1>2. HubTypes'
  BY <1>1 DEF DeleteDocument, TypeInv, HubTypes
<1>3. 0 \in Version /\ <<>> \in Text
  BY BatchTypes DEF Version
<1>4. QED
  BY <1>2, <1>3 DEF DeleteDocument, DocTypes

-----------------------------------------------------------------------------
(* Tabs.                                                                    *)

Key(c) == <<c, client[c].socket>>

(* The tab flushes after it read `inbox`, waiting or not.                   *)
Flushes(c, waits, inbox) ==
  LET cl == client[c] s == conn[Key(c)] IN
  /\ client'[c].phase = cl.phase /\ client'[c].socket = cl.socket /\ ~client'[c].sendTimer
  /\ conn'[Key(c)].pc = s.pc /\ conn'[Key(c)].inbox = inbox
  /\ \/ /\ ~waits /\ cl.pending # NoEdit /\ cl.phase \in {"open", "live"}
        /\ client'[c].pending = NoEdit /\ client'[c].awaitingAck
        /\ \E m \in Sent : m.ids = cl.pending.ids /\ conn'[Key(c)].outbox = Append(s.outbox, m)
     \/ /\ waits \/ cl.pending = NoEdit \/ cl.phase \notin {"open", "live"}
        /\ client'[c].pending = cl.pending /\ client'[c].awaitingAck = waits
        /\ conn'[Key(c)].outbox = s.outbox

(* The tab reads a message and stays on its socket.                         *)
Reads(c, ty) ==
  LET s == conn[Key(c)] IN
  /\ client[c].phase \in {"open", "live"} /\ s.inbox # <<>> /\ Head(s.inbox).type = ty
  /\ client'[c].socket = client[c].socket
  /\ conn'[Key(c)].pc = s.pc /\ conn'[Key(c)].inbox = Tail(s.inbox)
  /\ conn'[Key(c)].outbox = s.outbox

(* Nothing else of the tab or its edits changes.                            *)
TabKeeps(c) ==
  /\ client'[c].phase = client[c].phase /\ client'[c].pending = client[c].pending
  /\ client'[c].awaitingAck = client[c].awaitingAck

Forgets(c) == client'[c].pending = NoEdit /\ ~client'[c].awaitingAck

(* The tab gives its socket up, for another one or for none.                *)
Leaves(c) ==
  LET s == conn[Key(c)] IN
  /\ conn'[Key(c)].pc = s.pc /\ conn'[Key(c)].outbox = s.outbox
  /\ client'[c].pending \in {client[c].pending, NoEdit}
  /\ \/ /\ client'[c].phase \in {"retry", "stopped"} /\ client'[c].socket = client[c].socket
     \/ /\ client'[c].phase = "ticket" /\ client'[c].socket = client[c].socket + 1
        /\ ~client'[c].awaitingAck
        /\ OnlineEvents \/ client'[c].pending = NoEdit \/ ~client'[c].sendTimer

Types(c) ==
  /\ client[c].phase = "live" /\ client'[c].phase = "live"
  /\ client'[c].socket = client[c].socket /\ client'[c].awaitingAck = client[c].awaitingAck
  /\ client'[c].pending.ids = Append(client[c].pending.ids, spent.edits + 1)
  /\ spent.edits < MaxEdits /\ spent' = [spent EXCEPT !.edits = @ + 1]
  /\ UNCHANGED conn

Opens(c) ==
  LET s == conn[Key(c)] IN
  /\ client[c].phase = "ticket" /\ client'[c].phase = "open"
  /\ client'[c].socket = client[c].socket /\ client'[c].awaitingAck = client[c].awaitingAck
  /\ client'[c].sendTimer = client[c].sendTimer /\ client'[c].pending = client[c].pending
  /\ conn'[Key(c)].pc = "init" /\ conn'[Key(c)].inbox = s.inbox /\ conn'[Key(c)].outbox = s.outbox

TabDoes(c) ==
  \/ Types(c)
  \/ Opens(c) /\ BudgetSame
  \/ Leaves(c) /\ BudgetSame
  \/ /\ client[c].sendTimer
     /\ Flushes(c, client[c].awaitingAck, conn[Key(c)].inbox) /\ BudgetSame
  \/ /\ client[c].phase \in {"open", "live"} /\ conn[Key(c)].inbox # <<>>
     /\ Head(conn[Key(c)].inbox).type = "edit_ack"
     /\ Flushes(c, FALSE, Tail(conn[Key(c)].inbox)) /\ BudgetSame
  \/ Reads(c, "init") /\ client'[c].phase = "live" /\ Forgets(c) /\ BudgetSame
  \/ /\ Reads(c, "rejected") /\ client'[c].phase = client[c].phase /\ Forgets(c) /\ BudgetSame
     /\ client'[c].sendTimer = client[c].sendTimer
  \/ /\ Reads(c, "edit") \/ Reads(c, "error")
     /\ TabKeeps(c) /\ BudgetSame /\ client'[c].sendTimer = client[c].sendTimer

(* One tab changes, and stays a tab.                                        *)
LEMMA SetTab ==
  ASSUME TabTypes, NEW c \in Clients, NEW q \in Tab, q.me = c, client' = [client EXCEPT ![c] = q]
  PROVE  TabTypes' /\ client'[c] = q /\ \A d \in Clients : d # c => client'[d] = client[d]
BY DEF TabTypes

(* One socket changes, and stays a socket.                                  *)
LEMMA SetSocket ==
  ASSUME ConnTypes, NEW k \in Conns, NEW s \in Socket, s.pc \in {conn[k].pc, "init"},
         s.change = conn[k].change, conn' = [conn EXCEPT ![k] = s]
  PROVE  ConnTypes' /\ conn'[k] = s /\ \A j \in Conns : j # k => conn'[j] = conn[j]
BY DEF ConnTypes

(* What flush() sends, and what the hook remembers of it.                   *)
LEMMA FlushedIs ==
  ASSUME NEW cl \in Tab, NEW out \in Seq(Sent)
  PROVE  /\ Flushed(cl) \in Tab /\ Flushed(cl).me = cl.me
         /\ Flushed(cl).phase = cl.phase /\ Flushed(cl).socket = cl.socket
         /\ ~Flushed(cl).sendTimer
         /\ out \o Outgoing(cl) \in Seq(Sent)
         /\ \/ /\ ~cl.awaitingAck /\ cl.pending # NoEdit /\ cl.phase \in {"open", "live"}
               /\ Flushed(cl).pending = NoEdit /\ Flushed(cl).awaitingAck
               /\ \E m \in Sent : m.ids = cl.pending.ids /\ out \o Outgoing(cl) = Append(out, m)
            \/ /\ cl.awaitingAck \/ cl.pending = NoEdit \/ cl.phase \notin {"open", "live"}
               /\ Flushed(cl).pending = cl.pending /\ Flushed(cl).awaitingAck = cl.awaitingAck
               /\ out \o Outgoing(cl) = out
<1>1. CASE MayFlush(cl)
  <2> DEFINE m == [base |-> cl.versionRef, ids |-> cl.pending.ids, doc |-> cl.pending.doc]
  <2>1. NoEdit \in [ids : Text, doc : Text]
    BY BatchTypes DEF NoEdit
  <2>2. Flushed(cl) = [cl EXCEPT !.pending = NoEdit, !.awaitingAck = TRUE, !.sendTimer = FALSE]
    BY <1>1 DEF Flushed
  <2>3. m \in Sent /\ m.ids = cl.pending.ids /\ Outgoing(cl) = <<m>>
    BY <1>1 DEF Outgoing, Tab, Sent
  <2> HIDE DEF m
  <2>4. out \o Outgoing(cl) = Append(out, m) /\ Append(out, m) \in Seq(Sent)
    BY <2>3, AppendIsConcat, AppendProperties
  <2>5. /\ Flushed(cl) \in Tab /\ Flushed(cl).me = cl.me
        /\ Flushed(cl).phase = cl.phase /\ Flushed(cl).socket = cl.socket
        /\ ~Flushed(cl).sendTimer
        /\ Flushed(cl).pending = NoEdit /\ Flushed(cl).awaitingAck
    BY <2>1, <2>2 DEF Tab
  <2>6. ~cl.awaitingAck /\ cl.pending # NoEdit /\ cl.phase \in {"open", "live"}
    BY <1>1 DEF MayFlush
  <2>7. QED
    BY <2>3, <2>4, <2>5, <2>6
<1>2. CASE ~MayFlush(cl)
  <2>1. Flushed(cl) = [cl EXCEPT !.sendTimer = FALSE] /\ Outgoing(cl) = <<>>
    BY <1>2 DEF Flushed, Outgoing
  <2>2. out \o Outgoing(cl) = out
    BY <2>1, ConcatEmptySeq
  <2>3. cl.awaitingAck \/ cl.pending = NoEdit \/ cl.phase \notin {"open", "live"}
    BY <1>2 DEF MayFlush
  <2>4. QED
    BY <2>1, <2>2, <2>3 DEF Tab
<1>3. QED
  BY <1>1, <1>2

(* What every step of a tab has in common.                                  *)
TabMoves(c) ==
  /\ TabDoes(c) /\ TabTypes' /\ ConnTypes' /\ SpentTypes' /\ ServerUnchanged
  /\ \A d \in Clients : d # c => client'[d] = client[d]
  /\ \A k \in Conns : k # Key(c) => conn'[k] = conn[k]

(* The current socket of a tab is one of its sockets.                       *)
LEMMA KeyTypes ==
  ASSUME TypeInv, NEW c \in Clients
  PROVE  /\ client[c] \in Tab /\ client[c].me = c
         /\ Key(c) \in Conns /\ Key(c) = <<client[c].me, client[c].socket>>
         /\ conn[Key(c)] \in Socket
         /\ ConnTypes /\ TabTypes /\ SpentTypes
         /\ NoEdit \in [ids : Text, doc : Text]
         /\ MaxConnects \in Nat /\ MaxFaults \in Nat /\ MaxEdits \in Nat
         /\ UNCHANGED spent => BudgetSame
         /\ Fault => BudgetSame
         /\ BudgetSame => SpentTypes'
<1>1. client[c] \in Tab /\ client[c].me = c /\ ConnTypes /\ TabTypes /\ SpentTypes
  BY DEF TypeInv, TabTypes
<1>2. Key(c) \in Conns /\ Key(c) = <<client[c].me, client[c].socket>>
  BY <1>1 DEF Tab, Conns, Key
<1>3. conn[Key(c)] \in Socket
  BY <1>1, <1>2 DEF ConnTypes
<1>4. /\ NoEdit \in [ids : Text, doc : Text]
      /\ MaxConnects \in Nat /\ MaxFaults \in Nat /\ MaxEdits \in Nat
  BY BatchTypes, LiveAssumption DEF NoEdit
<1>5. /\ UNCHANGED spent => BudgetSame
      /\ Fault => BudgetSame
      /\ BudgetSame => SpentTypes'
  BY <1>1, <1>4 DEF SpentTypes, BudgetSame, Fault
<1>6. QED
  BY <1>1, <1>2, <1>3, <1>4, <1>5

(* The next message of a tab, and what reading it leaves.                   *)
LEMMA MessageTypes ==
  ASSUME TypeInv, NEW c \in Clients, NEW ty, HasMessage(c, ty)
  PROVE  /\ client[c].phase \in {"open", "live"} /\ conn[Key(c)].inbox # <<>>
         /\ Message(c) = Head(conn[Key(c)].inbox) /\ Message(c) \in Payload /\ Message(c).type = ty
         /\ Tail(conn[Key(c)].inbox) \in Seq(Payload)
         /\ [conn[Key(c)] EXCEPT !.inbox = Tail(conn[Key(c)].inbox)] \in Socket
         /\ Read(c) = [conn EXCEPT ![Key(c)] = [conn[Key(c)] EXCEPT !.inbox = Tail(conn[Key(c)].inbox)]]
<1>1. Key(c) \in Conns /\ conn[Key(c)] \in Socket
  BY KeyTypes
<1>2. /\ client[c].phase \in {"open", "live"} /\ conn[Key(c)].inbox # <<>>
      /\ Message(c) = Head(conn[Key(c)].inbox) /\ Message(c).type = ty
  BY DEF HasMessage, Message, Key
<1>3. Message(c) \in Payload /\ Tail(conn[Key(c)].inbox) \in Seq(Payload)
  BY <1>1, <1>2 DEF Socket
<1>4. [conn[Key(c)] EXCEPT !.inbox = Tail(conn[Key(c)].inbox)] \in Socket
  BY <1>1, <1>3 DEF Socket
<1>5. Read(c) = [conn EXCEPT ![Key(c)] = [conn[Key(c)] EXCEPT !.inbox = Tail(conn[Key(c)].inbox)]]
  BY DEF Read, Key
<1>6. QED
  BY <1>2, <1>3, <1>4, <1>5

(* A keystroke.                                                             *)
LEMMA TypeSteps ==
  ASSUME TypeInv, NEW c \in Clients, Type(c)
  PROVE  TabMoves(c)
<1> DEFINE e == spent.edits + 1
           doc == Append(client[c].editor, e)
           ids == Append(client[c].pending.ids, e)
           q == [client[c] EXCEPT !.editor = doc, !.pending = [ids |-> ids, doc |-> doc],
                                  !.sendTimer = TRUE]
<1>1. /\ client[c].phase = "live" /\ e <= MaxEdits /\ spent' = [spent EXCEPT !.edits = e]
      /\ client' = [client EXCEPT ![c] = q]
      /\ UNCHANGED <<stage, document, changes, relay, http, conn>>
  BY KeyTypes DEF Type, TabTypes
<1>2. e \in 1..MaxEdits /\ spent.edits < MaxEdits
  BY <1>1, KeyTypes DEF SpentTypes
<1>3. doc \in Text /\ ids \in Text
  BY <1>2, KeyTypes, AppendProperties DEF Tab, Text
<1>4. q \in Tab /\ q.me = c /\ q.phase = "live" /\ q.socket = client[c].socket
      /\ q.awaitingAck = client[c].awaitingAck /\ q.pending.ids = ids
  <2>1. client[c] \in Tab /\ client[c].me = c
    BY KeyTypes
  <2>2. [ids |-> ids, doc |-> doc] \in [ids : Text, doc : Text]
    BY <1>3
  <2> HIDE DEF doc, ids
  <2>3. QED
    BY <1>1, <1>3, <2>1, <2>2 DEF Tab
<1> HIDE DEF q
<1>5. TabTypes' /\ client'[c] = q /\ \A d \in Clients : d # c => client'[d] = client[d]
  BY <1>1, <1>4, KeyTypes, SetTab
<1>6. SpentTypes' /\ spent' = [spent EXCEPT !.edits = @ + 1]
  BY <1>1, <1>2, KeyTypes DEF SpentTypes
<1>7. Types(c)
  BY <1>1, <1>2, <1>4, <1>5, <1>6 DEF Types
<1>8. ConnTypes'
  BY <1>1, KeyTypes DEF ConnTypes
<1>9. QED
  BY <1>1, <1>5, <1>6, <1>7, <1>8 DEF TabMoves, TabDoes, ServerUnchanged

(* The timer and the acknowledgement flush.                                 *)
LEMMA FlushSteps ==
  ASSUME TypeInv, NEW c \in Clients, SendTimer(c) \/ OnAck(c)
  PROVE  TabMoves(c)
<1>1. ASSUME NEW cl \in Tab, cl.me = c, cl.socket = client[c].socket, cl.phase = client[c].phase,
             cl.pending = client[c].pending, NEW inbox \in Seq(Payload), ClientOnly,
             client' = [client EXCEPT ![c] = Flushed(cl)],
             conn' = [conn EXCEPT ![Key(c)] =
                        [conn[Key(c)] EXCEPT !.inbox = inbox, !.outbox = @ \o Outgoing(cl)]]
      PROVE  /\ TabTypes' /\ ConnTypes' /\ SpentTypes' /\ BudgetSame /\ ServerUnchanged
             /\ \A d \in Clients : d # c => client'[d] = client[d]
             /\ \A k \in Conns : k # Key(c) => conn'[k] = conn[k]
             /\ Flushes(c, cl.awaitingAck, inbox)
  <2> DEFINE s == [conn[Key(c)] EXCEPT !.inbox = inbox, !.outbox = @ \o Outgoing(cl)]
             o == conn[Key(c)].outbox
  <2>1. o \in Seq(Sent) /\ o \o Outgoing(cl) \in Seq(Sent)
    BY <1>1, KeyTypes, FlushedIs DEF Socket
  <2>2. /\ s \in Socket /\ s.pc = conn[Key(c)].pc /\ s.change = conn[Key(c)].change
        /\ s.inbox = inbox /\ s.outbox = o \o Outgoing(cl)
    BY <1>1, <2>1, KeyTypes DEF Socket
  <2>3. conn' = [conn EXCEPT ![Key(c)] = s]
    BY <1>1
  <2> HIDE DEF s
  <2>4. ConnTypes' /\ conn'[Key(c)] = s /\ \A k \in Conns : k # Key(c) => conn'[k] = conn[k]
    BY <2>2, <2>3, KeyTypes, SetSocket
  <2>5. /\ Flushed(cl) \in Tab /\ Flushed(cl).me = c
        /\ Flushed(cl).phase = cl.phase /\ Flushed(cl).socket = cl.socket
        /\ ~Flushed(cl).sendTimer
        /\ \/ /\ ~cl.awaitingAck /\ cl.pending # NoEdit /\ cl.phase \in {"open", "live"}
              /\ Flushed(cl).pending = NoEdit /\ Flushed(cl).awaitingAck
              /\ \E m \in Sent : m.ids = cl.pending.ids /\ o \o Outgoing(cl) = Append(o, m)
           \/ /\ cl.awaitingAck \/ cl.pending = NoEdit \/ cl.phase \notin {"open", "live"}
              /\ Flushed(cl).pending = cl.pending /\ Flushed(cl).awaitingAck = cl.awaitingAck
              /\ o \o Outgoing(cl) = o
    BY <1>1, <2>1, FlushedIs
  <2>6. /\ TabTypes' /\ client'[c] = Flushed(cl)
        /\ \A d \in Clients : d # c => client'[d] = client[d]
    BY <1>1, <2>5, KeyTypes, SetTab
  <2>7. Flushes(c, cl.awaitingAck, inbox)
    BY <1>1, <2>2, <2>4, <2>5, <2>6 DEF Flushes
  <2>8. QED
    BY <1>1, <2>4, <2>6, <2>7, KeyTypes DEF ClientOnly
<1>2. CASE SendTimer(c)
  <2>1. /\ client' = [client EXCEPT ![c] = Flushed(client[c])] /\ ClientOnly
        /\ conn' = [conn EXCEPT ![Key(c)] = [conn[Key(c)] EXCEPT !.inbox = conn[Key(c)].inbox,
                                                         !.outbox = @ \o Outgoing(client[c])]]
    BY <1>2, KeyTypes DEF SendTimer, Key, ConnTypes, Socket
  <2>2. conn[Key(c)].inbox \in Seq(Payload) /\ client[c].sendTimer
    BY <1>2, KeyTypes DEF Socket, SendTimer
  <2>3. QED
    BY <1>1, <2>1, <2>2, KeyTypes DEF TabMoves, TabDoes
<1>3. CASE OnAck(c)
  <2> DEFINE cl == [client[c] EXCEPT !.awaitingAck = FALSE, !.versionRef = Message(c).version]
  <2>1. HasMessage(c, "edit_ack") /\ ClientOnly /\ client' = [client EXCEPT ![c] = Flushed(cl)]
    BY <1>3 DEF OnAck
  <2>2. Message(c).version \in Version /\ Tail(conn[Key(c)].inbox) \in Seq(Payload)
    BY <2>1, MessageTypes, PayloadFields
  <2>3. /\ cl \in Tab /\ cl.me = c /\ cl.socket = client[c].socket /\ cl.phase = client[c].phase
        /\ cl.pending = client[c].pending /\ cl.awaitingAck = FALSE
    <3>1. client[c] \in Tab /\ client[c].me = c
      BY KeyTypes
    <3>2. QED
      BY <2>2, <3>1 DEF Tab
  <2>4. conn' = [Read(c) EXCEPT ![<<c, cl.socket>>].outbox = @ \o Outgoing(cl)]
    BY <1>3 DEF OnAck
  <2> HIDE DEF cl
  <2>5. conn' = [Read(c) EXCEPT ![Key(c)].outbox = @ \o Outgoing(cl)]
    BY <2>3, <2>4 DEF Key
  <2>6. conn' = [conn EXCEPT ![Key(c)] = [conn[Key(c)] EXCEPT !.inbox = Tail(conn[Key(c)].inbox),
                                                             !.outbox = @ \o Outgoing(cl)]]
    <3> DEFINE s == [conn[Key(c)] EXCEPT !.inbox = Tail(conn[Key(c)].inbox)]
    <3>1. /\ Read(c) = [conn EXCEPT ![Key(c)] = s] /\ s \in Socket
          /\ Key(c) \in Conns /\ conn \in [Conns -> Socket] /\ conn[Key(c)] \in Socket
      BY <2>1, MessageTypes, KeyTypes DEF ConnTypes
    <3>2. Read(c)[Key(c)] = s
      BY <3>1
    <3>3. [Read(c) EXCEPT ![Key(c)].outbox = @ \o Outgoing(cl)]
            = [conn EXCEPT ![Key(c)] = [s EXCEPT !.outbox = @ \o Outgoing(cl)]]
      <4> HIDE DEF s
      <4>1. QED
        BY <3>1, <3>2
    <3>4. [s EXCEPT !.outbox = @ \o Outgoing(cl)]
            = [conn[Key(c)] EXCEPT !.inbox = Tail(conn[Key(c)].inbox), !.outbox = @ \o Outgoing(cl)]
      BY <3>1 DEF Socket
    <3>5. QED
      BY <2>5, <3>3, <3>4
  <2>7. /\ TabTypes' /\ ConnTypes' /\ SpentTypes' /\ BudgetSame /\ ServerUnchanged
        /\ \A d \in Clients : d # c => client'[d] = client[d]
        /\ \A k \in Conns : k # Key(c) => conn'[k] = conn[k]
        /\ Flushes(c, FALSE, Tail(conn[Key(c)].inbox))
    BY <1>1, <2>1, <2>2, <2>3, <2>6
  <2>8. QED
    BY <2>1, <2>7, MessageTypes DEF TabMoves, TabDoes
<1>4. QED
  BY <1>2, <1>3

(* A message is read, and the tab stays on its socket.                      *)
LEMMA ReadSteps ==
  ASSUME TypeInv, NEW c \in Clients,
         OnInit(c) \/ OnRemoteContent(c) \/ OnRemoteSteps(c) \/ OnRejected(c) \/ OnError(c)
  PROVE  TabMoves(c)
<1>0. client[c] \in Tab /\ client[c].me = c /\ TabTypes /\ Key(c) \in Conns
      /\ NoEdit \in [ids : Text, doc : Text]
  BY KeyTypes
<1>1. ASSUME NEW ty, HasMessage(c, ty), conn' = Read(c), ClientOnly,
             client'[c].socket = client[c].socket
      PROVE  /\ Reads(c, ty) /\ ConnTypes' /\ SpentTypes' /\ BudgetSame /\ ServerUnchanged
             /\ \A k \in Conns : k # Key(c) => conn'[k] = conn[k]
  <2> DEFINE s == [conn[Key(c)] EXCEPT !.inbox = Tail(conn[Key(c)].inbox)]
  <2>1. conn' = [conn EXCEPT ![Key(c)] = s] /\ s \in Socket
    BY <1>1, MessageTypes
  <2>2. /\ s.pc = conn[Key(c)].pc /\ s.change = conn[Key(c)].change
        /\ s.inbox = Tail(conn[Key(c)].inbox) /\ s.outbox = conn[Key(c)].outbox
    BY KeyTypes DEF Socket
  <2> HIDE DEF s
  <2>3. ConnTypes' /\ conn'[Key(c)] = s /\ \A k \in Conns : k # Key(c) => conn'[k] = conn[k]
    BY <2>1, <2>2, KeyTypes, SetSocket
  <2>4. client[c].phase \in {"open", "live"} /\ conn[Key(c)].inbox # <<>>
        /\ Head(conn[Key(c)].inbox).type = ty
    BY <1>1, MessageTypes
  <2>5. Reads(c, ty)
    BY <1>1, <2>2, <2>3, <2>4 DEF Reads
  <2>6. QED
    BY <1>1, <2>3, <2>5, KeyTypes DEF ClientOnly
<1>2. CASE OnInit(c)
  <2> DEFINE q == [client[c] EXCEPT !.phase = "live", !.versionRef = Message(c).version,
                                    !.pending = NoEdit, !.awaitingAck = FALSE,
                                    !.editor = Message(c).content]
  <2>1. HasMessage(c, "init") /\ conn' = Read(c) /\ ClientOnly /\ client' = [client EXCEPT ![c] = q]
    BY <1>0, <1>2 DEF OnInit, TabTypes
  <2>2. Message(c).version \in Version /\ Message(c).content \in Text
    BY <2>1, MessageTypes, PayloadFields
  <2>3. /\ q \in Tab /\ q.me = c /\ q.socket = client[c].socket /\ q.phase = "live"
        /\ q.pending = NoEdit /\ q.awaitingAck = FALSE
    BY <1>0, <2>2 DEF Tab, Phases
  <2> HIDE DEF q
  <2>4. TabTypes' /\ client'[c] = q /\ \A d \in Clients : d # c => client'[d] = client[d]
    BY <1>0, <2>1, <2>3, SetTab
  <2>5. QED
    BY <1>1, <2>1, <2>3, <2>4 DEF TabMoves, TabDoes, Forgets
<1>3. CASE OnRejected(c)
  <2> DEFINE q == [client[c] EXCEPT !.awaitingAck = FALSE, !.pending = NoEdit,
                                    !.versionRef = Message(c).version,
                                    !.editor = Message(c).content]
  <2>1. HasMessage(c, "rejected") /\ conn' = Read(c) /\ ClientOnly
        /\ client' = [client EXCEPT ![c] = q]
    BY <1>0, <1>3 DEF OnRejected, TabTypes
  <2>2. Message(c).version \in Version /\ Message(c).content \in Text
    BY <2>1, MessageTypes, PayloadFields
  <2>3. /\ q \in Tab /\ q.me = c /\ q.socket = client[c].socket /\ q.phase = client[c].phase
        /\ q.pending = NoEdit /\ q.awaitingAck = FALSE /\ q.sendTimer = client[c].sendTimer
    BY <1>0, <2>2 DEF Tab
  <2> HIDE DEF q
  <2>4. TabTypes' /\ client'[c] = q /\ \A d \in Clients : d # c => client'[d] = client[d]
    BY <1>0, <2>1, <2>3, SetTab
  <2>5. QED
    BY <1>1, <2>1, <2>3, <2>4 DEF TabMoves, TabDoes, Forgets
<1>4. CASE OnRemoteContent(c) \/ OnRemoteSteps(c)
  <2> DEFINE text == Replay(Message(c).operation, client[c].editor)
             q == [client[c] EXCEPT !.versionRef = Message(c).version, !.editor = text]
  <2>1. HasMessage(c, "edit") /\ conn' = Read(c) /\ ClientOnly /\ client' = [client EXCEPT ![c] = q]
    BY <1>0, <1>4 DEF OnRemoteContent, OnRemoteSteps, TabTypes
  <2>2. Message(c).version \in Version /\ text \in Text
    BY <1>0, <2>1, MessageTypes, PayloadFields, ReplayTypes DEF Tab
  <2> HIDE DEF text
  <2>3. /\ q \in Tab /\ q.me = c /\ q.socket = client[c].socket /\ q.phase = client[c].phase
        /\ q.pending = client[c].pending /\ q.awaitingAck = client[c].awaitingAck
        /\ q.sendTimer = client[c].sendTimer
    BY <1>0, <2>2 DEF Tab
  <2> HIDE DEF q
  <2>4. TabTypes' /\ client'[c] = q /\ \A d \in Clients : d # c => client'[d] = client[d]
    BY <1>0, <2>1, <2>3, SetTab
  <2>5. QED
    BY <1>1, <2>1, <2>3, <2>4 DEF TabMoves, TabDoes, TabKeeps
<1>5. CASE OnError(c)
  <2>1. HasMessage(c, "error") /\ conn' = Read(c) /\ ClientOnly /\ client' = client
    BY <1>5 DEF OnError
  <2>2. TabTypes' /\ TabKeeps(c)
    BY <1>0, <2>1 DEF TabTypes, TabKeeps
  <2>3. QED
    BY <1>1, <2>1, <2>2 DEF TabMoves, TabDoes
<1>6. QED
  BY <1>2, <1>3, <1>4, <1>5

(* The socket is accepted.                                                  *)
LEMMA OpenSteps ==
  ASSUME TypeInv, NEW c \in Clients, Open(c), stage = "live"
  PROVE  TabMoves(c)
<1> DEFINE q == [client[c] EXCEPT !.phase = "open"]
           s == [conn[Key(c)] EXCEPT !.pc = "init"]
<1>0. /\ client[c] \in Tab /\ client[c].me = c /\ TabTypes /\ ConnTypes
      /\ Key(c) \in Conns /\ conn[Key(c)] \in Socket
  BY KeyTypes
<1>1. /\ client[c].phase = "ticket" /\ ClientOnly /\ client' = [client EXCEPT ![c] = q]
      /\ conn' = [conn EXCEPT ![Key(c)] = s]
  BY <1>0 DEF Open, Key, TabTypes, ConnTypes
<1>2. /\ q \in Tab /\ q.me = c /\ q.socket = client[c].socket /\ q.phase = "open"
      /\ q.pending = client[c].pending /\ q.awaitingAck = client[c].awaitingAck
      /\ q.sendTimer = client[c].sendTimer
  BY <1>0 DEF Tab, Phases
<1>3. /\ s \in Socket /\ s.pc = "init" /\ s.change = conn[Key(c)].change
      /\ s.inbox = conn[Key(c)].inbox /\ s.outbox = conn[Key(c)].outbox
  BY <1>0 DEF Socket, PCs
<1> HIDE DEF q, s
<1>4. TabTypes' /\ client'[c] = q /\ \A d \in Clients : d # c => client'[d] = client[d]
  BY <1>0, <1>1, <1>2, SetTab
<1>5. ConnTypes' /\ conn'[Key(c)] = s /\ \A k \in Conns : k # Key(c) => conn'[k] = conn[k]
  BY <1>0, <1>1, <1>3, SetSocket
<1>6. Opens(c)
  BY <1>1, <1>2, <1>3, <1>4, <1>5 DEF Opens
<1>7. QED
  BY <1>1, <1>4, <1>5, <1>6, KeyTypes DEF TabMoves, TabDoes, ClientOnly

(* The tab gives its socket up.                                             *)
LEMMA LeaveSteps ==
  ASSUME TypeInv, NEW c \in Clients,
         \/ Open(c) /\ stage = "gone"
         \/ SocketLost(c) \/ Retry(c) \/ Online(c) \/ Resync(c) \/ OnDeleted(c) \/ OnClose(c)
  PROVE  TabMoves(c)
<1>0. /\ client[c] \in Tab /\ client[c].me = c /\ TabTypes /\ ConnTypes
      /\ Key(c) \in Conns /\ conn[Key(c)] \in Socket /\ MaxConnects \in Nat
      /\ NoEdit \in [ids : Text, doc : Text]
  BY KeyTypes
<1>1. ASSUME NEW q \in Tab, q.me = c, client' = [client EXCEPT ![c] = q],
             q.pending \in {client[c].pending, NoEdit},
             \/ q.phase \in {"retry", "stopped"} /\ q.socket = client[c].socket
             \/ /\ q.phase = "ticket" /\ q.socket = client[c].socket + 1 /\ ~q.awaitingAck
                /\ OnlineEvents \/ q.pending = NoEdit \/ ~q.sendTimer,
             UNCHANGED conn \/ conn' = Detached(client[c]), ServerUnchanged, BudgetSame
      PROVE  TabMoves(c)
  <2>1. TabTypes' /\ client'[c] = q /\ \A d \in Clients : d # c => client'[d] = client[d]
    BY <1>0, <1>1, SetTab
  <2>2. PICK inbox \in Seq(Payload) :
          conn' = [conn EXCEPT ![Key(c)] = [conn[Key(c)] EXCEPT !.inbox = inbox]]
    <3>1. CASE UNCHANGED conn
      <4>1. conn[Key(c)].inbox \in Seq(Payload)
        BY <1>0 DEF Socket
      <4>2. [conn[Key(c)] EXCEPT !.inbox = conn[Key(c)].inbox] = conn[Key(c)]
        BY <1>0 DEF Socket
      <4>3. conn' = [conn EXCEPT ![Key(c)] = [conn[Key(c)] EXCEPT !.inbox = conn[Key(c)].inbox]]
        BY <1>0, <3>1, <4>2 DEF ConnTypes
      <4>4. QED
        BY <4>1, <4>3
    <3>2. CASE conn' = Detached(client[c])
      <4>1. conn' = [conn EXCEPT ![Key(c)].inbox = <<>>]
        BY <3>2, KeyTypes DEF Detached
      <4>2. conn' = [conn EXCEPT ![Key(c)] = [conn[Key(c)] EXCEPT !.inbox = <<>>]]
        BY <4>1
      <4>3. <<>> \in Seq(Payload)
        OBVIOUS
      <4>4. QED
        BY <4>2, <4>3
    <3>3. QED
      BY <1>1, <3>1, <3>2
  <2> DEFINE s == [conn[Key(c)] EXCEPT !.inbox = inbox]
  <2>3. /\ s \in Socket /\ s.pc = conn[Key(c)].pc /\ s.change = conn[Key(c)].change
        /\ s.outbox = conn[Key(c)].outbox
    BY <1>0 DEF Socket
  <2>4. conn' = [conn EXCEPT ![Key(c)] = s]
    BY <2>2
  <2> HIDE DEF s
  <2>5. ConnTypes' /\ conn'[Key(c)] = s /\ \A k \in Conns : k # Key(c) => conn'[k] = conn[k]
    BY <1>0, <2>3, <2>4, SetSocket
  <2>6. Leaves(c)
    BY <1>1, <2>1, <2>3, <2>5 DEF Leaves
  <2>7. QED
    BY <1>1, <2>1, <2>5, <2>6, KeyTypes DEF TabMoves, TabDoes
<1>2. /\ Stopped(client[c]) \in Tab /\ Stopped(client[c]).me = c
      /\ Stopped(client[c]).phase = "stopped" /\ Stopped(client[c]).socket = client[c].socket
      /\ Stopped(client[c]).pending = NoEdit
  BY <1>0 DEF Stopped, Tab, Phases
<1>3. ASSUME client[c].socket < MaxConnects
      PROVE  LET q == Connecting(client[c]) IN
             /\ q \in Tab /\ q.me = c /\ q.phase = "ticket" /\ q.socket = client[c].socket + 1
             /\ ~q.awaitingAck /\ q.pending = client[c].pending /\ q.sendTimer = client[c].sendTimer
  <2> DEFINE q == [client[c] EXCEPT !.phase = "ticket", !.socket = client[c].socket + 1,
                                    !.awaitingAck = FALSE]
  <2>1. client[c].socket + 1 \in 1..MaxConnects
    BY <1>0, <1>3 DEF Tab
  <2>2. /\ q \in Tab /\ q.me = c /\ q.phase = "ticket" /\ q.socket = client[c].socket + 1
        /\ ~q.awaitingAck /\ q.pending = client[c].pending /\ q.sendTimer = client[c].sendTimer
    BY <1>0, <2>1 DEF Tab, Phases
  <2>3. Connecting(client[c]) = q
    BY <1>0 DEF Connecting
  <2>4. QED
    BY <2>2, <2>3
<1>4. CASE Open(c) /\ stage = "gone"
  <2>1. client' = [client EXCEPT ![c] = Stopped(client[c])] /\ UNCHANGED conn /\ ClientOnly
    BY <1>4 DEF Open
  <2>2. QED
    BY <1>1, <1>2, <2>1, KeyTypes DEF ClientOnly
<1>5. CASE SocketLost(c)
  <2>1. /\ conn' = Detached(client[c]) /\ ServerUnchanged /\ Fault
        /\ \E waiting \in {client[c].awaitingAck, FALSE} :
             client' = [client EXCEPT ![c].phase = "retry", ![c].awaitingAck = waiting]
    BY <1>5 DEF SocketLost
  <2>2. PICK waiting \in BOOLEAN :
          client' = [client EXCEPT ![c].phase = "retry", ![c].awaitingAck = waiting]
    BY <1>0, <2>1 DEF Tab
  <2> DEFINE q == [client[c] EXCEPT !.phase = "retry", !.awaitingAck = waiting]
  <2>3. /\ q \in Tab /\ q.me = c /\ q.phase = "retry" /\ q.socket = client[c].socket
        /\ q.pending = client[c].pending
    BY <1>0 DEF Tab, Phases
  <2>4. client' = [client EXCEPT ![c] = q]
    BY <1>0, <2>2 DEF TabTypes
  <2> HIDE DEF q
  <2>5. QED
    BY <1>1, <2>1, <2>3, <2>4, KeyTypes
<1>6. CASE Retry(c)
  <2>1. /\ client' = [client EXCEPT ![c] = Connecting(client[c])] /\ UNCHANGED conn /\ ClientOnly
        /\ ~client[c].sendTimer /\ client[c].socket < MaxConnects
    BY <1>6 DEF Retry
  <2>2. QED
    BY <1>1, <1>3, <2>1, KeyTypes DEF ClientOnly
<1>7. CASE Online(c)
  <2>1. /\ client' = [client EXCEPT ![c] = Connecting(client[c])] /\ conn' = Detached(client[c])
        /\ ServerUnchanged /\ Fault /\ OnlineEvents /\ client[c].socket < MaxConnects
    BY <1>7 DEF Online
  <2>2. QED
    BY <1>1, <1>3, <2>1, KeyTypes
<1>8. CASE Resync(c)
  <2> DEFINE q == [Connecting(client[c]) EXCEPT !.pending = NoEdit, !.versionRef = Message(c).version]
  <2>1. /\ client' = [client EXCEPT ![c] = q] /\ conn' = Detached(client[c]) /\ ClientOnly
        /\ HasMessage(c, "edit") /\ client[c].socket < MaxConnects
    BY <1>8 DEF Resync
  <2>2. Message(c).version \in Version
    BY <2>1, MessageTypes, PayloadFields
  <2>3. /\ q \in Tab /\ q.me = c /\ q.phase = "ticket" /\ q.socket = client[c].socket + 1
        /\ ~q.awaitingAck /\ q.pending = NoEdit
    BY <1>0, <1>3, <2>1, <2>2 DEF Tab
  <2> HIDE DEF q
  <2>4. QED
    BY <1>1, <2>1, <2>3, KeyTypes DEF ClientOnly
<1>9. CASE OnDeleted(c)
  <2>1. /\ client' = [client EXCEPT ![c] = Stopped(client[c])] /\ conn' = Detached(client[c])
        /\ ClientOnly
    BY <1>9 DEF OnDeleted
  <2>2. QED
    BY <1>1, <1>2, <2>1, KeyTypes DEF ClientOnly
<1>10. CASE OnClose(c)
  <2> DEFINE q == [client[c] EXCEPT !.phase = "retry"]
  <2>1. client' = [client EXCEPT ![c] = q] /\ conn' = Detached(client[c]) /\ ClientOnly
    BY <1>0, <1>10 DEF OnClose, TabTypes
  <2>2. /\ q \in Tab /\ q.me = c /\ q.phase = "retry" /\ q.socket = client[c].socket
        /\ q.pending = client[c].pending
    BY <1>0 DEF Tab, Phases
  <2> HIDE DEF q
  <2>3. QED
    BY <1>1, <2>1, <2>2, KeyTypes DEF ClientOnly
<1>11. QED
  BY <1>4, <1>5, <1>6, <1>7, <1>8, <1>9, <1>10

(* Every step of a tab is of that form.                                     *)
LEMMA TabSteps ==
  ASSUME TypeInv, NEW c \in Clients,
         \/ Type(c) \/ SendTimer(c) \/ Open(c) \/ SocketLost(c) \/ Retry(c) \/ Online(c)
         \/ Receive(c)
  PROVE  TabMoves(c)
<1>1. Open(c) => (Open(c) /\ stage = "live") \/ (Open(c) /\ stage = "gone")
  BY DEF Open
<1>2. QED
  BY <1>1, TypeSteps, FlushSteps, ReadSteps, OpenSteps, LeaveSteps DEF Receive

-----------------------------------------------------------------------------
(* Versions.                                                                *)

(* How many edits are in the log.                                           *)
LEMMA TypedCount ==
  /\ IsFiniteSet(Typed) /\ Cardinality(Typed) \in Nat /\ Cardinality(Typed) <= MaxEdits
  /\ \A e \in (1..MaxEdits) \ Typed : Cardinality(Typed) < MaxEdits
<1>1. MaxEdits \in Nat
  BY BatchTypes
<1>2. IsFiniteSet(1..MaxEdits) /\ Cardinality(1..MaxEdits) = MaxEdits
  BY <1>1, FS_Interval
<1>3. Typed \subseteq 1..MaxEdits
  BY DEF Typed
<1>4. IsFiniteSet(Typed) /\ Cardinality(Typed) <= MaxEdits
  BY <1>2, <1>3, FS_Subset
<1>5. Cardinality(Typed) \in Nat
  BY <1>4, FS_CardinalityType
<1>6. ASSUME NEW e \in (1..MaxEdits) \ Typed
      PROVE  Cardinality(Typed) < MaxEdits
  <2>1. Typed # 1..MaxEdits
    BY <1>6
  <2>2. Cardinality(Typed) # MaxEdits
    BY <1>2, <1>3, <2>1, FS_Subset
  <2>3. QED
    BY <1>1, <1>4, <1>5, <2>2
<1>7. QED
  BY <1>4, <1>5, <1>6

(* The batch a session takes holds an edit no logged batch holds.           *)
LEMMA FreshBatch ==
  ASSUME TypeInv, EditInv, NEW k \in Conns, conn[k].outbox # <<>>
  PROVE  \E e \in (1..MaxEdits) \ Typed : In(e, Head(conn[k].outbox).ids)
<1> DEFINE ids == Head(conn[k].outbox).ids
<1>1. /\ Head(conn[k].outbox) \in Sent /\ 1 \in Places(k) /\ ids = Wired(k, 1)
      /\ Len(ids) \in 1..spent.edits /\ spent.edits \in 0..MaxEdits /\ MaxEdits \in Nat
  BY HeadBatch, BatchTypes DEF BatchSized, Wired, TypeInv, SpentTypes
<1>2. ids \in Text
  BY <1>1 DEF Sent
<1> HIDE DEF ids
<1>3. 1 \in 1..Len(ids) /\ ids[1] \in 1..MaxEdits /\ In(ids[1], ids)
  BY <1>1, <1>2 DEF Text, In
<1>4. ids[1] \notin Typed
  <2>1. SUFFICES ASSUME NEW r \in Rows, In(ids[1], r.operation.ids)
                 PROVE  FALSE
    BY <1>3 DEF Typed
  <2>2. Disjoint(Wired(k, 1), r.operation.ids)
    BY <1>1 DEF EditInv, OnePlace, Apart
  <2>3. QED
    BY <1>1, <1>3, <2>1, <2>2 DEF Disjoint
<1>5. QED
  BY <1>3, <1>4 DEF ids

(* The version stays within the changes there can be.                       *)
LEMMA VersionStays ==
  ASSUME TypeInv, EditInv, Next
  PROVE  document'.version \in Version
<1>0. /\ document.version \in 0..(MaxEdits + MaxHttp + 1) /\ document.version \in Version
      /\ spent.http \in 0..MaxHttp
      /\ MaxEdits \in Nat /\ MaxHttp \in Nat /\ Cardinality(Typed) \in Nat
      /\ document.version <= 1 + spent.http + Cardinality(Typed) /\ Cardinality(Typed) <= MaxEdits
  BY BatchTypes, TypedCount DEF TypeInv, DocTypes, SpentTypes, Version, EditInv, VersionsPaid
<1>1. CASE document' = document
  BY <1>0, <1>1
<1>2. ASSUME NEW k \in Conns, HandleEdit(k)
      PROVE  document'.version \in Version
  <2>1. CASE AcceptEdit(k)
    <3>1. document'.version = document.version + 1 /\ conn[k].outbox # <<>>
      BY <1>2, <2>1 DEF AcceptEdit, Commit, HandleEdit
    <3>2. Cardinality(Typed) < MaxEdits
      BY <3>1, FreshBatch, TypedCount
    <3>3. QED
      BY <1>0, <3>1, <3>2 DEF Version
  <2>2. CASE ThrottleEdit(k) \/ RefuseEdit(k) \/ EditNotFound(k) \/ RejectEdit(k)
    BY <1>1, <2>2 DEF ThrottleEdit, RefuseEdit, EditNotFound, RejectEdit
  <2>3. QED
    BY <1>2, <2>1, <2>2 DEF HandleEdit
<1>3. ASSUME NEW k \in Conns, SendInit(k) \/ Join(k) \/ SendAck(k) \/ PublishEdit(k) \/ SessionEnds(k)
      PROVE  document'.version \in Version
  BY <1>1, <1>3 DEF SendInit, Join, SendAck, PublishEdit, SessionEnds
<1>4. ASSUME NEW p \in Procs, NEW kind \in HttpKinds, HttpCommit(p, kind)
      PROVE  document'.version \in Version
  <2>1. document'.version = document.version + 1 /\ spent.http < MaxHttp
    BY <1>4 DEF HttpCommit, Commit
  <2>2. QED
    BY <1>0, <2>1 DEF Version
<1>5. ASSUME NEW p \in Procs, DeleteDocument(p)
      PROVE  document'.version \in Version
  BY <1>0, <1>5 DEF DeleteDocument, Version
<1>6. ASSUME NEW c \in Clients,
             \/ Type(c) \/ SendTimer(c) \/ Open(c) \/ SocketLost(c) \/ Retry(c) \/ Online(c)
             \/ Receive(c)
      PROVE  document'.version \in Version
  BY <1>1, <1>6, TabSteps DEF TabMoves, ServerUnchanged
<1>7. ASSUME \/ \E p \in Procs : RelayDeliver(p) \/ RelayReconnect(p) \/ RelayDrop(p)
             \/ \E h \in http : HttpPublish(h)
      PROVE  document'.version \in Version
  BY <1>1, <1>7, HubSteps DEF StoreSame
<1>8. QED
  BY <1>2, <1>3, <1>4, <1>5, <1>6, <1>7 DEF Next, Hub, Session

-----------------------------------------------------------------------------
(* No step puts an edit in a second place.                                  *)

(* Nothing new is in a batch, and batches only go.                          *)
Drops ==
  /\ \A c \in Clients : client'[c].pending.ids \in {Pending(c), <<>>}
  /\ \A k \in Conns : \E n \in {0, 1} : \A j \in 1..Len(conn'[k].outbox) :
       j + n \in Places(k) /\ conn'[k].outbox[j].ids = Wired(k, j + n)
  /\ Rows' \subseteq Rows
  /\ spent'.edits \in {spent.edits, spent.edits + 1}

(* A batch goes from a session's outbox to the log.                         *)
Logs(k, r) ==
  /\ UNCHANGED client /\ spent'.edits = spent.edits
  /\ 1 \in Places(k) /\ \A j \in Conns : j # k => conn'[j] = conn[j]
  /\ \A j \in 1..Len(conn'[k].outbox) :
       j + 1 \in Places(k) /\ conn'[k].outbox[j].ids = Wired(k, j + 1)
  /\ Rows' = Rows \cup {r} /\ r.operation.ids = Wired(k, 1)

(* A batch goes from a tab to its socket.                                   *)
Sends(c, k, m) ==
  /\ client'[c].pending.ids = <<>> /\ \A d \in Clients : d # c => client'[d] = client[d]
  /\ conn'[k].outbox = Append(conn[k].outbox, m) /\ m.ids = Pending(c)
  /\ \A j \in Conns : j # k => conn'[j] = conn[j]
  /\ UNCHANGED changes /\ spent'.edits = spent.edits

(* A new edit joins what a tab has pending.                                 *)
Edits(c) ==
  /\ client'[c].pending.ids = Append(Pending(c), spent.edits + 1)
  /\ \A d \in Clients : d # c => client'[d] = client[d]
  /\ spent.edits < MaxEdits /\ spent'.edits = spent.edits + 1
  /\ UNCHANGED <<conn, changes>>

(* A new edit is logged at once.                                            *)
Writes(r) ==
  /\ Rows' = Rows \cup {r} /\ r.operation.ids = <<spent.edits + 1>>
  /\ spent'.edits = spent.edits + 1
  /\ UNCHANGED <<client, conn>>

(* Every batch is a text, and the edits made so far are counted.            *)
LEMMA BatchesAreTexts ==
  ASSUME TypeInv
  PROVE  /\ \A c \in Clients : Pending(c) \in Text
         /\ \A k \in Conns : \A j \in Places(k) : Wired(k, j) \in Text
         /\ \A r \in Rows : r.operation.ids \in Text
         /\ spent.edits \in 0..MaxEdits /\ MaxEdits \in Nat
         /\ \A k \in Conns : Len(conn[k].outbox) \in Nat
<1>1. \A c \in Clients : Pending(c) \in Text
  BY DEF TypeInv, TabTypes, Tab, Pending
<1>2. \A k \in Conns : conn[k].outbox \in Seq(Sent)
  BY DEF TypeInv, ConnTypes, Socket
<1>3. \A k \in Conns : \A j \in Places(k) : Wired(k, j) \in Text
  <2>1. SUFFICES ASSUME NEW k \in Conns, NEW j \in Places(k)
                 PROVE  Wired(k, j) \in Text
    OBVIOUS
  <2>2. conn[k].outbox[j] \in Sent
    BY <1>2, ElementOfSeq DEF Places
  <2>3. QED
    BY <2>2 DEF Sent, Wired
<1>4. \A r \in Rows : r.operation.ids \in Text
  BY BatchTypes DEF TypeInv, DocTypes, Rows, Operation
<1>5. spent.edits \in 0..MaxEdits /\ MaxEdits \in Nat
  BY BatchTypes DEF TypeInv, SpentTypes
<1>6. QED
  BY <1>1, <1>2, <1>3, <1>4, <1>5, LenProperties

(* An empty batch is nowhere in the way.                                    *)
LEMMA EmptyBatch ==
  /\ Injective(<<>>) /\ Made(<<>>)
  /\ \A s : Disjoint(<<>>, s) /\ Disjoint(s, <<>>)
BY DEF Injective, Made, Disjoint, In

(* Nor is anything, after batches only went.                                *)
LEMMA DropsKeepOnePlace ==
  ASSUME TypeInv, OnePlace, Drops
  PROVE  OnePlace'
<1>1. spent.edits \in Nat /\ \A k \in Conns : Len(conn[k].outbox) \in Nat
  BY BatchesAreTexts
<1>2. \A c \in Clients : Pending(c)' = Pending(c) \/ Pending(c)' = <<>>
  BY DEF Drops, Pending
<1>3. \A k \in Conns : \E n \in {0, 1} : \A j \in Places(k)' :
        j \in Nat /\ j + n \in Places(k) /\ Wired(k, j)' = Wired(k, j + n)
  BY DEF Drops, Places, Wired
<1>4. \A r \in Rows' : r \in Rows
  BY DEF Drops
<1>5. \A s : Made(s) => Made(s)'
  BY <1>1 DEF Drops, Made
<1>6. TabsOnce'
  BY <1>2, EmptyBatch, Zenon DEF OnePlace, TabsOnce
<1>7. WireOnce'
  <2>1. SUFFICES ASSUME NEW k \in Conns, NEW l \in Conns, NEW i \in Places(k)', NEW j \in Places(l)'
                 PROVE  /\ Injective(Wired(k, i)')
                        /\ (k # l \/ i # j) => Disjoint(Wired(k, i)', Wired(l, j)')
    BY DEF WireOnce
  <2>2. CASE k = l
    <3>1. PICK n \in {0, 1} : \A x \in Places(k)' :
            x \in Nat /\ x + n \in Places(k) /\ Wired(k, x)' = Wired(k, x + n)
      BY <1>3
    <3>2. /\ i \in Nat /\ i + n \in Places(k) /\ Wired(k, i)' = Wired(k, i + n)
          /\ j \in Nat /\ j + n \in Places(k) /\ Wired(k, j)' = Wired(k, j + n)
          /\ i # j => i + n # j + n
      BY <2>2, <3>1
    <3>3. QED
      BY <2>2, <3>2 DEF OnePlace, WireOnce
  <2>3. CASE k # l
    <3>1. PICK n \in {0, 1} : i + n \in Places(k) /\ Wired(k, i)' = Wired(k, i + n)
      BY <1>3
    <3>2. PICK m \in {0, 1} : j + m \in Places(l) /\ Wired(l, j)' = Wired(l, j + m)
      BY <1>3
    <3>3. QED
      BY <2>3, <3>1, <3>2 DEF OnePlace, WireOnce
  <2>4. QED
    BY <2>2, <2>3
<1>8. LogOnce'
  BY <1>4, Zenon DEF OnePlace, LogOnce
<1>9. Apart'
  BY <1>2, <1>3, <1>4, EmptyBatch DEF OnePlace, Apart
<1>10. AllMade'
  BY <1>2, <1>3, <1>4, <1>5, EmptyBatch DEF OnePlace, AllMade
<1>11. QED
  BY <1>6, <1>7, <1>8, <1>9, <1>10 DEF OnePlace

(* Nor when a session commits the batch it took.                            *)
LEMMA LogsKeepOnePlace ==
  ASSUME TypeInv, OnePlace, NEW k \in Conns, NEW r, Logs(k, r)
  PROVE  OnePlace'
<1>1. \A c \in Clients : Pending(c)' = Pending(c)
  BY DEF Logs, Pending
<1>2. \A j \in Places(k)' : j \in Nat /\ j + 1 \in Places(k) /\ j + 1 # 1
                              /\ Wired(k, j)' = Wired(k, j + 1)
  BY BatchesAreTexts DEF Logs, Places, Wired
<1>3. \A l \in Conns : l # k => Places(l)' = Places(l) /\ \A j : Wired(l, j)' = Wired(l, j)
  BY DEF Logs, Places, Wired
<1>4. Rows' = Rows \cup {r} /\ r.operation.ids = Wired(k, 1) /\ 1 \in Places(k)
  BY DEF Logs
<1>5. \A s : Made(s) => Made(s)'
  BY DEF Logs, Made
<1>6. TabsOnce'
  BY <1>1 DEF OnePlace, TabsOnce
<1>7. WireOnce'
  <2>1. SUFFICES ASSUME NEW l \in Conns, NEW m \in Conns, NEW i \in Places(l)', NEW j \in Places(m)'
                 PROVE  /\ Injective(Wired(l, i)')
                        /\ (l # m \/ i # j) => Disjoint(Wired(l, i)', Wired(m, j)')
    BY DEF WireOnce
  <2>2. PICK x \in Places(l) : Wired(l, i)' = Wired(l, x) /\ x = (IF l = k THEN i + 1 ELSE i)
    BY <1>2, <1>3
  <2>3. PICK y \in Places(m) : Wired(m, j)' = Wired(m, y) /\ y = (IF m = k THEN j + 1 ELSE j)
    BY <1>2, <1>3
  <2>4. l # m \/ i # j => l # m \/ x # y
    BY <1>2, <2>2, <2>3
  <2>5. QED
    BY <2>2, <2>3, <2>4 DEF OnePlace, WireOnce
<1>8. LogOnce'
  <2>1. SUFFICES ASSUME NEW q \in Rows', NEW s \in Rows'
                 PROVE  /\ Injective(q.operation.ids)
                        /\ q # s => Disjoint(q.operation.ids, s.operation.ids)
    BY DEF LogOnce
  <2>2. Injective(r.operation.ids) /\ \A t \in Rows : /\ Disjoint(r.operation.ids, t.operation.ids)
                                                       /\ Disjoint(t.operation.ids, r.operation.ids)
    BY <1>4 DEF OnePlace, WireOnce, Apart, Disjoint
  <2>3. QED
    BY <1>4, <2>2 DEF OnePlace, LogOnce
<1>9. Apart'
  <2>1. \A l \in Conns : \A j \in Places(l)' : \E x \in Places(l) :
          Wired(l, j)' = Wired(l, x) /\ (l # k \/ x # 1)
    BY <1>2, <1>3
  <2>2. \A l \in Conns : \A x \in Places(l) : l # k \/ x # 1 => Disjoint(Wired(l, x), r.operation.ids)
    BY <1>4 DEF OnePlace, WireOnce
  <2>3. \A c \in Clients : Disjoint(Pending(c), r.operation.ids)
    BY <1>4 DEF OnePlace, Apart
  <2>4. QED
    BY <1>1, <1>4, <2>1, <2>2, <2>3 DEF OnePlace, Apart
<1>10. AllMade'
  BY <1>1, <1>2, <1>3, <1>4, <1>5 DEF OnePlace, AllMade
<1>11. QED
  BY <1>6, <1>7, <1>8, <1>9, <1>10 DEF OnePlace

(* Nor when a tab flushes.                                                  *)
LEMMA SendsKeepOnePlace ==
  ASSUME TypeInv, OnePlace, NEW c \in Clients, NEW k \in Conns, NEW m \in Sent, Sends(c, k, m)
  PROVE  OnePlace'
<1>1. \A d \in Clients : Pending(d)' = IF d = c THEN <<>> ELSE Pending(d)
  BY DEF Sends, Pending
<1>2. \A l \in Conns : \A j \in Places(l)' :
        \/ j \in Places(l) /\ Wired(l, j)' = Wired(l, j)
        \/ l = k /\ j = Len(conn[k].outbox) + 1 /\ Wired(l, j)' = Pending(c)
  <2>1. SUFFICES ASSUME NEW l \in Conns, NEW j \in Places(l)'
                 PROVE  \/ j \in Places(l) /\ Wired(l, j)' = Wired(l, j)
                        \/ l = k /\ j = Len(conn[k].outbox) + 1 /\ Wired(l, j)' = Pending(c)
    OBVIOUS
  <2>2. CASE l # k
    BY <2>2 DEF Sends, Places, Wired
  <2>3. CASE l = k
    <3>1. conn[k].outbox \in Seq(Sent)
      BY DEF TypeInv, ConnTypes, Socket
    <3>2. conn'[k].outbox = Append(conn[k].outbox, m) /\ m.ids = Pending(c)
      BY DEF Sends
    <3>3. j \in 1..Len(conn'[k].outbox)
      BY <2>3 DEF Places
    <3>4. \/ j \in 1..Len(conn[k].outbox) /\ conn'[k].outbox[j] = conn[k].outbox[j]
          \/ j = Len(conn[k].outbox) + 1 /\ conn'[k].outbox[j] = m
      BY <3>1, <3>2, <3>3, AppendProperties
    <3>5. QED
      BY <2>3, <3>2, <3>4 DEF Places, Wired
  <2>4. QED
    BY <2>2, <2>3
<1>3. Rows' = Rows
  BY DEF Sends, Rows
<1>4. \A s : Made(s) => Made(s)'
  BY DEF Sends, Made
<1>5. TabsOnce'
  BY <1>1, EmptyBatch DEF OnePlace, TabsOnce
<1>6. \A s, t : Disjoint(s, t) => Disjoint(t, s)
  BY DEF Disjoint
<1>7. WireOnce'
  <2>1. SUFFICES ASSUME NEW l \in Conns, NEW n \in Conns, NEW i \in Places(l)', NEW j \in Places(n)'
                 PROVE  /\ Injective(Wired(l, i)')
                        /\ (l # n \/ i # j) => Disjoint(Wired(l, i)', Wired(n, j)')
    BY DEF WireOnce
  <2>2. Injective(Pending(c)) /\ \A x \in Conns : \A y \in Places(x) :
          Disjoint(Pending(c), Wired(x, y)) /\ Disjoint(Wired(x, y), Pending(c))
    BY <1>6 DEF OnePlace, TabsOnce, Apart
  <2>3. QED
    BY <1>2, <2>2 DEF OnePlace, WireOnce
<1>8. LogOnce'
  BY <1>3 DEF OnePlace, LogOnce
<1>9. Apart'
  <2>1. \A d \in Clients, l \in Conns : \A j \in Places(l)' : Disjoint(Pending(d)', Wired(l, j)')
    BY <1>1, <1>2, EmptyBatch DEF OnePlace, Apart, TabsOnce
  <2>2. \A d \in Clients, r \in Rows' : Disjoint(Pending(d)', r.operation.ids)
    BY <1>1, <1>3, EmptyBatch DEF OnePlace, Apart
  <2>3. \A l \in Conns, r \in Rows' : \A j \in Places(l)' : Disjoint(Wired(l, j)', r.operation.ids)
    BY <1>2, <1>3 DEF OnePlace, Apart
  <2>4. QED
    BY <2>1, <2>2, <2>3 DEF Apart
<1>10. AllMade'
  BY <1>1, <1>2, <1>3, <1>4, EmptyBatch DEF OnePlace, AllMade
<1>11. QED
  BY <1>5, <1>7, <1>8, <1>9, <1>10 DEF OnePlace

(* An edit that is just made is in no batch.                                *)
LEMMA NewEdit ==
  ASSUME TypeInv, OnePlace, NEW e, e = spent.edits + 1
  PROVE  /\ \A c \in Clients : ~In(e, Pending(c))
         /\ \A k \in Conns : \A j \in Places(k) : ~In(e, Wired(k, j))
         /\ \A r \in Rows : ~In(e, r.operation.ids)
<1>1. spent.edits \in 0..MaxEdits /\ MaxEdits \in Nat
  BY BatchesAreTexts
<1>2. ASSUME NEW s \in Text, Made(s)
      PROVE  ~In(e, s)
  <2>1. SUFFICES ASSUME In(e, s)
                 PROVE  FALSE
    OBVIOUS
  <2>2. PICK i \in 1..Len(s) : s[i] = e
    BY <2>1 DEF In
  <2>3. e \in 1..MaxEdits
    BY <2>2, ElementOfSeq DEF Text
  <2>4. e <= spent.edits
    BY <1>2, <2>1, <2>3 DEF Made
  <2>5. QED
    BY <1>1, <2>4
<1>3. QED
  BY <1>2, BatchesAreTexts DEF OnePlace, AllMade

(* Nor when a tab types.                                                    *)
LEMMA EditsKeepOnePlace ==
  ASSUME TypeInv, OnePlace, NEW c \in Clients, Edits(c)
  PROVE  OnePlace'
<1> DEFINE e == spent.edits + 1
           p == Pending(c)
           q == Append(p, e)
<1>1. p \in Text /\ e \in 1..MaxEdits /\ spent.edits \in Nat
  BY BatchesAreTexts DEF Edits
<1>2. \A x : In(x, q) => x = e \/ In(x, p)
  <2>1. \A i \in 1..Len(q) : q[i] = e \/ (i \in 1..Len(p) /\ q[i] = p[i])
    BY <1>1, AppendProperties DEF Text
  <2>2. QED
    BY <2>1 DEF In
<1>3. Injective(p) /\ ~In(e, p)
  BY NewEdit DEF OnePlace, TabsOnce
<1>4. Injective(q)
  <2>1. SUFFICES ASSUME NEW i \in 1..Len(q), NEW j \in 1..Len(q), q[i] = q[j]
                 PROVE  i = j
    BY DEF Injective
  <2>2. /\ Len(p) \in Nat /\ Len(q) = Len(p) + 1 /\ q[Len(p) + 1] = e
        /\ \A x \in 1..Len(p) : q[x] = p[x] /\ p[x] # e
    BY <1>1, <1>3, AppendProperties, LenProperties DEF Text, In
  <2>3. (i \in 1..Len(p) \/ i = Len(p) + 1) /\ (j \in 1..Len(p) \/ j = Len(p) + 1)
    BY <2>2
  <2>4. QED
    BY <1>3, <2>1, <2>2, <2>3 DEF Injective
<1>5. \A d \in Clients : Pending(d)' = IF d = c THEN q ELSE Pending(d)
  BY DEF Edits, Pending
<1>6. (\A k \in Conns : Places(k)' = Places(k) /\ \A j : Wired(k, j)' = Wired(k, j)) /\ Rows' = Rows
  BY DEF Edits, Places, Wired, Rows
<1>7. \A s : Disjoint(p, s) /\ ~In(e, s) => Disjoint(q, s) /\ Disjoint(s, q)
  BY <1>2 DEF Disjoint
<1>8. \A s : Made(s) => Made(s)'
  BY <1>1 DEF Edits, Made
<1>9. \A x \in 1..MaxEdits : In(x, q) => x <= spent'.edits
  <2>1. Made(p) /\ spent'.edits = spent.edits + 1
    BY DEF OnePlace, AllMade, Edits
  <2>2. QED
    BY <1>1, <1>2, <2>1 DEF Made
<1> HIDE DEF e, q, p
<1>10. e = spent.edits + 1 /\ p = Pending(c)
  BY DEF e, p
<1>11. TabsOnce'
  BY <1>4, <1>5, <1>7, <1>10, NewEdit DEF OnePlace, TabsOnce
<1>12. WireOnce' /\ LogOnce'
  BY <1>6 DEF OnePlace, WireOnce, LogOnce
<1>13. Apart'
  <2>1. \A d \in Clients, l \in Conns : \A j \in Places(l)' : Disjoint(Pending(d)', Wired(l, j)')
    BY <1>5, <1>6, <1>7, <1>10, NewEdit DEF OnePlace, Apart
  <2>2. \A d \in Clients, r \in Rows' : Disjoint(Pending(d)', r.operation.ids)
    BY <1>5, <1>6, <1>7, <1>10, NewEdit DEF OnePlace, Apart
  <2>3. \A l \in Conns, r \in Rows' : \A j \in Places(l)' : Disjoint(Wired(l, j)', r.operation.ids)
    BY <1>6 DEF OnePlace, Apart
  <2>4. QED
    BY <2>1, <2>2, <2>3 DEF Apart
<1>14. AllMade'
  <2>1. ASSUME NEW d \in Clients
        PROVE  Made(Pending(d))'
    BY <1>5, <1>8, <1>9 DEF OnePlace, AllMade, Made
  <2>2. QED
    BY <1>6, <1>8, <2>1 DEF OnePlace, AllMade
<1>15. QED
  BY <1>11, <1>12, <1>13, <1>14 DEF OnePlace

(* Nor when an HTTP caller writes one step.                                 *)
LEMMA WritesKeepOnePlace ==
  ASSUME TypeInv, OnePlace, NEW r, Writes(r)
  PROVE  OnePlace'
<1> DEFINE e == spent.edits + 1
<1>1. spent.edits \in Nat
  BY BatchesAreTexts
<1>2. /\ \A x : In(x, r.operation.ids) => x = e
      /\ Injective(r.operation.ids)
  BY DEF Writes, In, Injective
<1>3. \A s : ~In(e, s) => Disjoint(s, r.operation.ids) /\ Disjoint(r.operation.ids, s)
  BY <1>2 DEF Disjoint
<1>4. \A s : Made(s) => Made(s)'
  BY <1>1 DEF Writes, Made
<1>5. Made(r.operation.ids)'
  BY <1>1, <1>2 DEF Writes, Made
<1>6. /\ Rows' = Rows \cup {r} /\ \A c \in Clients : Pending(c)' = Pending(c)
      /\ \A k \in Conns : Places(k)' = Places(k) /\ \A j : Wired(k, j)' = Wired(k, j)
  BY DEF Writes, Pending, Places, Wired
<1>7. e = spent.edits + 1
  OBVIOUS
<1> HIDE DEF e
<1>8. TabsOnce' /\ WireOnce'
  BY <1>6 DEF OnePlace, TabsOnce, WireOnce
<1>9. LogOnce'
  BY <1>2, <1>3, <1>6, <1>7, NewEdit DEF OnePlace, LogOnce
<1>10. Apart'
  BY <1>3, <1>6, <1>7, NewEdit DEF OnePlace, Apart
<1>11. AllMade'
  BY <1>4, <1>5, <1>6 DEF OnePlace, AllMade
<1>12. QED
  BY <1>8, <1>9, <1>10, <1>11 DEF OnePlace

-----------------------------------------------------------------------------
(* Every step is one of five.                                               *)

HubMoves ==
  (\A j \in Conns : Hears(j)) /\ BudgetSame /\ UNCHANGED client /\ StoreSame

SessionMoves(k) ==
  /\ SessionDoes(k) /\ BudgetSame /\ UNCHANGED client
  /\ \A j \in Conns : j # k => conn'[j] = conn[j]

HttpMoves ==
  /\ UNCHANGED <<conn, client>> /\ spent'.http = spent.http + 1
  /\ \E op \in Operation :
       /\ Commits(op)
       /\ \/ op.kind # "steps" /\ spent'.edits \in {spent.edits, spent.edits + 1}
          \/ op = StepsOp(<<spent.edits + 1>>) /\ spent'.edits = spent.edits + 1

Deletes ==
  /\ UNCHANGED <<conn, client, spent>> /\ stage = "live" /\ stage' = "gone"
  /\ changes' = {} /\ document'.version = 0

AllTypes == DocTypes' /\ ConnTypes' /\ TabTypes' /\ HubTypes' /\ SpentTypes'

(* What a step of the system is.                                            *)
LEMMA NextMoves ==
  ASSUME TypeInv, EditInv, Next
  PROVE  /\ AllTypes
         /\ \/ HubMoves \/ HttpMoves \/ Deletes
            \/ \E k \in Conns : SessionMoves(k)
            \/ \E c \in Clients : TabMoves(c)
<1>0. document'.version \in Version
  BY VersionStays
<1>1. /\ StoreSame => DocTypes'
      /\ UNCHANGED client => TabTypes'
      /\ UNCHANGED conn => ConnTypes'
      /\ UNCHANGED <<relay, http>> => HubTypes'
      /\ UNCHANGED spent => SpentTypes'
      /\ BudgetSame => SpentTypes'
  BY DEF TypeInv, StoreSame, DocTypes, TabTypes, ConnTypes, HubTypes, SpentTypes, BudgetSame
<1>2. CASE \/ \E p \in Procs : RelayDeliver(p) \/ RelayReconnect(p) \/ RelayDrop(p)
           \/ \E h \in http : HttpPublish(h)
           \/ \E k \in Conns : PublishEdit(k)
  BY <1>1, <1>2, HubSteps DEF AllTypes, HubMoves
<1>3. ASSUME NEW k \in Conns,
             SendInit(k) \/ Join(k) \/ HandleEdit(k) \/ SendAck(k) \/ SessionEnds(k)
      PROVE  AllTypes /\ SessionMoves(k)
  <2>1. /\ SessionDoes(k) /\ ConnTypes' /\ BudgetSame /\ UNCHANGED <<relay, http, client>>
        /\ \A j \in Conns : j # k => conn'[j] = conn[j]
    BY <1>0, <1>3, SessionSteps
  <2>2. StoreSame \/ \E op : Commits(op)
    BY <2>1 DEF SessionDoes, Keeps
  <2>3. DocTypes'
    BY <1>0, <1>1, <2>2, CommitTypes
  <2>4. QED
    BY <1>1, <2>1, <2>3 DEF AllTypes, SessionMoves
<1>4. ASSUME NEW p \in Procs, NEW kind \in HttpKinds, HttpCommit(p, kind)
      PROVE  AllTypes /\ HttpMoves
  <2>1. /\ UNCHANGED <<conn, client>> /\ HubTypes' /\ SpentTypes' /\ spent'.http = spent.http + 1
        /\ \E op \in Operation :
              /\ Commits(op)
              /\ \/ op.kind # "steps" /\ spent'.edits \in {spent.edits, spent.edits + 1}
                 \/ op = StepsOp(<<spent.edits + 1>>) /\ spent'.edits = spent.edits + 1
    BY <1>0, <1>4, HttpSteps
  <2>2. DocTypes'
    BY <1>0, <2>1, CommitTypes
  <2>3. QED
    BY <1>1, <2>1, <2>2 DEF AllTypes, HttpMoves
<1>5. ASSUME NEW p \in Procs, DeleteDocument(p)
      PROVE  AllTypes /\ Deletes
  <2>1. /\ UNCHANGED <<conn, client, spent>> /\ HubTypes' /\ DocTypes'
        /\ changes' = {} /\ document'.version = 0
    BY <1>5, DeleteSteps
  <2>2. stage = "live" /\ stage' = "gone"
    BY <1>5 DEF DeleteDocument
  <2>3. QED
    BY <1>1, <2>1, <2>2 DEF AllTypes, Deletes
<1>6. ASSUME NEW c \in Clients,
             \/ Type(c) \/ SendTimer(c) \/ Open(c) \/ SocketLost(c) \/ Retry(c) \/ Online(c)
             \/ Receive(c)
      PROVE  AllTypes /\ TabMoves(c)
  <2>1. TabMoves(c)
    BY <1>6, TabSteps
  <2>2. QED
    BY <1>1, <2>1 DEF AllTypes, TabMoves, ServerUnchanged, StoreSame
<1>7. QED
  BY <1>2, <1>3, <1>4, <1>5, <1>6 DEF Next, Hub, Session

(* A committed batch of steps is a row for the edits; anything else is not. *)
LEMMA CommittedRow ==
  ASSUME NEW op, Commits(op)
  PROVE  /\ op.kind # "steps" => Rows' = Rows
         /\ op.kind = "steps" => \E r : Rows' = Rows \cup {r} /\ r.operation = op
<1>1. PICK content \in Text : Commit(document.version, op, content)
  BY DEF Commits
<1> DEFINE r == [base |-> document.version, version |-> document.version + 1,
                 operation |-> op, state |-> content]
<1>2. changes' = changes \cup {r} /\ r.operation = op
  BY <1>1 DEF Commit
<1> HIDE DEF r
<1>3. QED
  BY <1>2 DEF Rows

(* What a step does to the edits.                                           *)
LEMMA EditMoves ==
  ASSUME TypeInv, EditInv, Next
  PROVE  OnePlace'
<1>0. /\ spent.edits \in 0..MaxEdits /\ \A k \in Conns : Len(conn[k].outbox) \in Nat
      /\ \A k \in Conns : conn[k].outbox \in Seq(Sent)
      /\ \A c \in Clients : Pending(c) \in Text
  BY BatchesAreTexts DEF TypeInv, ConnTypes, Socket
<1>1. /\ \A c \in Clients : UNCHANGED client => client'[c].pending.ids = Pending(c)
      /\ \A k \in Conns : conn'[k].outbox = conn[k].outbox =>
           \E n \in {0, 1} : \A j \in 1..Len(conn'[k].outbox) :
             j + n \in Places(k) /\ conn'[k].outbox[j].ids = Wired(k, j + n)
      /\ StoreSame => Rows' \subseteq Rows
      /\ BudgetSame => spent'.edits \in {spent.edits, spent.edits + 1}
  <2>1. ASSUME NEW k \in Conns, conn'[k].outbox = conn[k].outbox
        PROVE  \A j \in 1..Len(conn'[k].outbox) :
                 j + 0 \in Places(k) /\ conn'[k].outbox[j].ids = Wired(k, j + 0)
    BY <1>0, <2>1 DEF Places, Wired
  <2>2. QED
    BY <2>1 DEF Pending, StoreSame, Rows, BudgetSame
<1>2. ASSUME NEW k \in Conns, Takes(k)
      PROVE  /\ 1 \in Places(k)
             /\ \A j \in 1..Len(conn'[k].outbox) :
                  j + 1 \in Places(k) /\ conn'[k].outbox[j].ids = Wired(k, j + 1)
  <2>1. conn[k].outbox # <<>> /\ conn'[k].outbox = Tail(conn[k].outbox) /\ conn[k].outbox \in Seq(Sent)
    BY <1>0, <1>2 DEF Takes
  <2>2. /\ Len(conn[k].outbox) \in Nat \ {0} /\ Len(conn'[k].outbox) = Len(conn[k].outbox) - 1
        /\ \A j \in 1..Len(conn'[k].outbox) : conn'[k].outbox[j] = conn[k].outbox[j + 1]
    BY <2>1, HeadTailProperties, EmptySeq, LenProperties
  <2>3. QED
    BY <2>2 DEF Places, Wired
<1>3. CASE HubMoves
  <2>1. Drops
    BY <1>1, <1>3 DEF HubMoves, Hears, Drops
  <2>2. QED
    BY <2>1, DropsKeepOnePlace DEF EditInv
<1>4. CASE HttpMoves
  <2>1. PICK op \in Operation :
          /\ Commits(op)
          /\ \/ op.kind # "steps" /\ spent'.edits \in {spent.edits, spent.edits + 1}
             \/ op = StepsOp(<<spent.edits + 1>>) /\ spent'.edits = spent.edits + 1
    BY <1>4 DEF HttpMoves
  <2>2. UNCHANGED <<conn, client>>
    BY <1>4 DEF HttpMoves
  <2>3. CASE op.kind # "steps"
    <3>1. Rows' = Rows /\ spent'.edits \in {spent.edits, spent.edits + 1}
      BY <2>1, <2>3, CommittedRow
    <3>2. Drops
      BY <1>1, <2>2, <3>1 DEF Drops
    <3>3. QED
      BY <3>2, DropsKeepOnePlace DEF EditInv
  <2>4. CASE op.kind = "steps"
    <3>1. PICK r : Rows' = Rows \cup {r} /\ r.operation = op
      BY <2>1, <2>4, CommittedRow
    <3>2. r.operation.ids = <<spent.edits + 1>> /\ spent'.edits = spent.edits + 1
      BY <2>1, <2>4, <3>1 DEF StepsOp
    <3>3. Writes(r)
      BY <2>2, <3>1, <3>2 DEF Writes
    <3>4. QED
      BY <3>3, WritesKeepOnePlace DEF EditInv
  <2>5. QED
    BY <2>3, <2>4
<1>5. CASE Deletes
  <2>1. Drops
    BY <1>1, <1>5 DEF Deletes, Drops, Rows
  <2>2. QED
    BY <2>1, DropsKeepOnePlace DEF EditInv
<1>6. ASSUME NEW k \in Conns, SessionMoves(k)
      PROVE  OnePlace'
  <2>1. CASE StoreSame /\ (conn'[k].outbox = conn[k].outbox \/ conn'[k].outbox = <<>> \/ Takes(k))
    <3>1. \E n \in {0, 1} : \A j \in 1..Len(conn'[k].outbox) :
            j + n \in Places(k) /\ conn'[k].outbox[j].ids = Wired(k, j + n)
      BY <1>1, <1>2, <2>1
    <3>2. Drops
      BY <1>1, <1>6, <2>1, <3>1 DEF SessionMoves, Drops
    <3>3. QED
      BY <3>2, DropsKeepOnePlace DEF EditInv
  <2>2. CASE Takes(k) /\ Commits(StepsOp(Head(conn[k].outbox).ids))
    <3>1. PICK r : Rows' = Rows \cup {r} /\ r.operation = StepsOp(Head(conn[k].outbox).ids)
      BY <2>2, CommittedRow DEF StepsOp
    <3>2. r.operation.ids = Wired(k, 1)
      BY <2>2, <3>1, HeadBatch DEF StepsOp, Wired, Takes
    <3>3. spent'.edits = spent.edits
      BY <1>6 DEF SessionMoves, BudgetSame
    <3>4. Logs(k, r)
      BY <1>2, <1>6, <2>2, <3>1, <3>2, <3>3 DEF Logs, SessionMoves
    <3>5. QED
      BY <3>4, LogsKeepOnePlace DEF EditInv
  <2>3. QED
    BY <1>6, <2>1, <2>2 DEF SessionMoves, SessionDoes, Keeps
<1>7. ASSUME NEW c \in Clients, TabMoves(c)
      PROVE  OnePlace'
  <2>1. /\ TabDoes(c) /\ StoreSame /\ changes' = changes
        /\ \A d \in Clients : d # c => client'[d] = client[d]
        /\ \A k \in Conns : k # Key(c) => conn'[k] = conn[k]
    BY <1>7 DEF TabMoves, ServerUnchanged, StoreSame
  <2>2. Key(c) \in Conns
    BY KeyTypes
  <2>3. CASE /\ conn'[Key(c)].outbox = conn[Key(c)].outbox /\ BudgetSame
             /\ client'[c].pending \in {client[c].pending, NoEdit}
    <3>1. Drops
      BY <1>1, <2>1, <2>3 DEF Drops, Pending, NoEdit
    <3>2. QED
      BY <3>1, DropsKeepOnePlace DEF EditInv
  <2>4. CASE Types(c)
    <3>1. spent'.edits = spent.edits + 1
      BY <1>7, <2>4 DEF Types, TabMoves, TypeInv, SpentTypes
    <3>2. Edits(c)
      BY <2>1, <2>4, <3>1 DEF Types, Edits, Pending
    <3>3. QED
      BY <3>2, EditsKeepOnePlace DEF EditInv
  <2>5. CASE /\ client'[c].pending = NoEdit /\ BudgetSame
             /\ \E m \in Sent : m.ids = client[c].pending.ids
                                  /\ conn'[Key(c)].outbox = Append(conn[Key(c)].outbox, m)
    <3>1. PICK m \in Sent : m.ids = client[c].pending.ids
                              /\ conn'[Key(c)].outbox = Append(conn[Key(c)].outbox, m)
      BY <2>5
    <3>2. Sends(c, Key(c), m)
      BY <2>1, <2>5, <3>1 DEF Sends, Pending, NoEdit, BudgetSame
    <3>3. QED
      BY <2>2, <3>2, SendsKeepOnePlace DEF EditInv
  <2>6. QED
    BY <2>1, <2>3, <2>4, <2>5
       DEF TabDoes, Opens, Leaves, Flushes, Reads, TabKeeps, Forgets
<1>8. QED
  BY <1>3, <1>4, <1>5, <1>6, <1>7, NextMoves

(* Batches stay as short as there are edits, and are never empty.           *)
LEMMA SizedStays ==
  ASSUME TypeInv, EditInv, Next
  PROVE  Sized'
<1>0. /\ spent.edits \in Nat /\ \A k \in Conns : conn[k].outbox \in Seq(Sent)
      /\ \A c \in Clients : Pending(c) \in Text
      /\ \A c \in Clients : client[c].pending = NoEdit \/ BatchSized(client[c].pending.ids)
      /\ \A k \in Conns : \A j \in 1..Len(conn[k].outbox) : BatchSized(conn[k].outbox[j].ids)
  BY BatchesAreTexts DEF TypeInv, ConnTypes, Socket, Sized
<1>1. spent'.edits \in {spent.edits, spent.edits + 1}
  <2>1. ASSUME NEW c \in Clients, TabMoves(c)
        PROVE  spent'.edits \in {spent.edits, spent.edits + 1}
    BY <2>1 DEF TabMoves, TabDoes, Types, BudgetSame, TypeInv, SpentTypes
  <2>2. QED
    BY <2>1, NextMoves DEF HubMoves, HttpMoves, Deletes, SessionMoves, BudgetSame
<1>2. \A s : BatchSized(s) => Len(s) \in 1..spent'.edits
  BY <1>0, <1>1 DEF BatchSized
<1>3. ASSUME NEW c \in Clients, TabMoves(c)
      PROVE  Sized'
  <2>1. /\ TabDoes(c) /\ Key(c) \in Conns
        /\ \A d \in Clients : d # c => client'[d] = client[d]
        /\ \A k \in Conns : k # Key(c) => conn'[k] = conn[k]
    BY <1>3, KeyTypes DEF TabMoves
  <2>2. client'[c].pending = NoEdit \/ Len(client'[c].pending.ids) \in 1..spent'.edits
    <3>1. CASE client'[c].pending \in {client[c].pending, NoEdit}
      BY <1>0, <1>2, <3>1
    <3>2. CASE Types(c)
      <4>1. /\ client'[c].pending.ids = Append(Pending(c), spent.edits + 1)
            /\ spent'.edits = spent.edits + 1
        BY <3>2 DEF Types, Pending, TypeInv, SpentTypes
      <4>2. Len(Append(Pending(c), spent.edits + 1)) = Len(Pending(c)) + 1
        BY <1>0 DEF Text
      <4>3. Len(Pending(c)) \in 0..spent.edits
        BY <1>0, EmptySeq DEF Pending, NoEdit, BatchSized
      <4>4. QED
        BY <1>0, <4>1, <4>2, <4>3 DEF BatchSized
    <3>3. QED
      BY <2>1, <3>1, <3>2 DEF TabDoes, Opens, Leaves, Flushes, Reads, TabKeeps, Forgets
  <2>3. \A j \in 1..Len(conn'[Key(c)].outbox) : Len(conn'[Key(c)].outbox[j].ids) \in 1..spent'.edits
    <3>1. CASE conn'[Key(c)].outbox = conn[Key(c)].outbox
      BY <1>0, <1>2, <2>1, <3>1
    <3>2. ASSUME NEW m \in Sent, m.ids = client[c].pending.ids, client[c].pending # NoEdit,
                 conn'[Key(c)].outbox = Append(conn[Key(c)].outbox, m)
          PROVE  \A j \in 1..Len(conn'[Key(c)].outbox) : Len(conn'[Key(c)].outbox[j].ids) \in 1..spent'.edits
      <4>1. BatchSized(m.ids)
        BY <1>0, <3>2
      <4>2. \A j \in 1..Len(conn'[Key(c)].outbox) :
              \/ j \in 1..Len(conn[Key(c)].outbox) /\ conn'[Key(c)].outbox[j] = conn[Key(c)].outbox[j]
              \/ conn'[Key(c)].outbox[j] = m
        BY <1>0, <2>1, <3>2, AppendProperties
      <4>3. QED
        BY <1>0, <1>2, <2>1, <4>1, <4>2
    <3>3. QED
      BY <2>1, <3>1, <3>2 DEF TabDoes, Types, Opens, Leaves, Flushes, Reads
  <2>4. QED
    BY <1>0, <1>2, <2>1, <2>2, <2>3 DEF Sized, BatchSized
<1>4. ASSUME UNCHANGED client,
             \A k \in Conns : \/ conn'[k].outbox = conn[k].outbox
                              \/ conn'[k].outbox = <<>>
                              \/ Takes(k)
      PROVE  Sized'
  <2>1. \A k \in Conns : \A j \in 1..Len(conn'[k].outbox) :
          \E i \in 1..Len(conn[k].outbox) : conn'[k].outbox[j] = conn[k].outbox[i]
    <3>1. SUFFICES ASSUME NEW k \in Conns, NEW j \in 1..Len(conn'[k].outbox)
                   PROVE  \E i \in 1..Len(conn[k].outbox) : conn'[k].outbox[j] = conn[k].outbox[i]
      OBVIOUS
    <3>2. CASE Takes(k)
      <4>1. conn[k].outbox \in Seq(Sent) /\ conn[k].outbox # <<>>
            /\ conn'[k].outbox = Tail(conn[k].outbox)
        BY <1>0, <3>2 DEF Takes
      <4>2. Len(conn[k].outbox) \in Nat /\ Len(conn'[k].outbox) = Len(conn[k].outbox) - 1
            /\ conn'[k].outbox[j] = conn[k].outbox[j + 1]
        BY <3>1, <4>1, HeadTailProperties, LenProperties, EmptySeq
      <4>3. QED
        BY <3>1, <4>2
    <3>3. CASE conn'[k].outbox = conn[k].outbox
      BY <3>1, <3>3
    <3>4. CASE conn'[k].outbox = <<>>
      BY <3>1, <3>4
    <3>5. QED
      BY <1>4, <3>2, <3>3, <3>4
  <2>2. QED
    BY <1>0, <1>2, <1>4, <2>1 DEF Sized, BatchSized
<1>5. CASE HubMoves
  BY <1>4, <1>5 DEF HubMoves, Hears
<1>6. CASE HttpMoves \/ Deletes
  BY <1>4, <1>6 DEF HttpMoves, Deletes
<1>7. ASSUME NEW k \in Conns, SessionMoves(k)
      PROVE  Sized'
  BY <1>4, <1>7 DEF SessionMoves, SessionDoes, Keeps
<1>8. QED
  BY <1>3, <1>5, <1>6, <1>7, NextMoves

(* A version is paid for by an HTTP write or by an edit nobody logged.      *)
LEMMA PaidStays ==
  ASSUME TypeInv, EditInv, Next
  PROVE  VersionsPaid'
<1>0. /\ document.version \in Nat /\ spent.http \in Nat /\ Cardinality(Typed) \in Nat
      /\ IsFiniteSet(Typed) /\ document.version <= 1 + spent.http + Cardinality(Typed)
      /\ IsFiniteSet(1..MaxEdits)
  BY TypedCount, BatchTypes, FS_Interval
     DEF TypeInv, DocTypes, SpentTypes, Version, EditInv, VersionsPaid
<1>1. /\ IsFiniteSet(Typed') /\ Cardinality(Typed') \in Nat
      /\ \A e : Typed \cup {e} \subseteq Typed' /\ e \notin Typed =>
           Cardinality(Typed) + 1 <= Cardinality(Typed')
      /\ Typed \subseteq Typed' => Cardinality(Typed) <= Cardinality(Typed')
  <2>1. Typed' \subseteq 1..MaxEdits
    BY DEF Typed
  <2>2. IsFiniteSet(Typed') /\ Cardinality(Typed') \in Nat
    BY <1>0, <2>1, FS_Subset, FS_CardinalityType
  <2>3. ASSUME NEW e, Typed \cup {e} \subseteq Typed', e \notin Typed
        PROVE  Cardinality(Typed) + 1 <= Cardinality(Typed')
    <3>1. Cardinality(Typed \cup {e}) = Cardinality(Typed) + 1
      BY <1>0, <2>3, FS_AddElement
    <3>2. Cardinality(Typed \cup {e}) <= Cardinality(Typed')
      BY <2>2, <2>3, FS_Subset
    <3>3. QED
      BY <3>1, <3>2
  <2>4. ASSUME Typed \subseteq Typed'
        PROVE  Cardinality(Typed) <= Cardinality(Typed')
    BY <2>2, <2>4, FS_Subset
  <2>5. QED
    BY <2>2, <2>3, <2>4
<1>2. ASSUME StoreSame, spent'.http = spent.http
      PROVE  VersionsPaid'
  <2>1. Typed' = Typed
    BY <1>2 DEF StoreSame, Typed, Rows
  <2>2. QED
    BY <1>0, <1>2, <2>1 DEF StoreSame, VersionsPaid
<1>3. CASE HubMoves
  BY <1>2, <1>3 DEF HubMoves, BudgetSame
<1>4. CASE HttpMoves
  <2>1. PICK op \in Operation : Commits(op)
    BY <1>4 DEF HttpMoves
  <2>2. document'.version = document.version + 1 /\ spent'.http = spent.http + 1
    BY <1>4, <2>1 DEF Commits, Commit, HttpMoves
  <2>3. Rows \subseteq Rows'
    BY <2>1 DEF Commits, Commit, Rows
  <2>4. Typed \subseteq Typed'
    BY <2>3 DEF Typed
  <2>5. QED
    BY <1>0, <1>1, <2>2, <2>4 DEF VersionsPaid
<1>5. CASE Deletes
  <2>1. document'.version = 0 /\ spent'.http = spent.http
    BY <1>5 DEF Deletes
  <2>2. QED
    BY <1>0, <1>1, <2>1 DEF VersionsPaid
<1>6. ASSUME NEW k \in Conns, SessionMoves(k)
      PROVE  VersionsPaid'
  <2> DEFINE ids == Head(conn[k].outbox).ids
  <2>1. CASE StoreSame
    BY <1>2, <1>6, <2>1 DEF SessionMoves, BudgetSame
  <2>2. CASE Takes(k) /\ Commits(StepsOp(ids))
    <3>1. document'.version = document.version + 1 /\ spent'.http = spent.http
      BY <1>6, <2>2 DEF Commits, Commit, SessionMoves, BudgetSame
    <3>2. PICK e \in (1..MaxEdits) \ Typed : In(e, ids)
      BY <2>2, FreshBatch DEF Takes
    <3> HIDE DEF ids
    <3>3. PICK r : Rows' = Rows \cup {r} /\ r.operation = StepsOp(ids)
      BY <2>2, CommittedRow DEF StepsOp
    <3>4. Typed \cup {e} \subseteq Typed'
      BY <3>2, <3>3 DEF Typed, StepsOp
    <3>5. QED
      BY <1>0, <1>1, <3>1, <3>2, <3>4 DEF VersionsPaid
  <2>3. QED
    BY <1>6, <2>1, <2>2 DEF SessionMoves, SessionDoes, Keeps
<1>7. ASSUME NEW c \in Clients, TabMoves(c)
      PROVE  VersionsPaid'
  <2>1. StoreSame /\ TabDoes(c)
    BY <1>7 DEF TabMoves, ServerUnchanged, StoreSame
  <2>2. spent'.http = spent.http
    BY <2>1 DEF TabDoes, Types, BudgetSame, TypeInv, SpentTypes
  <2>3. QED
    BY <1>2, <2>1, <2>2
<1>8. QED
  BY <1>3, <1>4, <1>5, <1>6, <1>7, NextMoves

-----------------------------------------------------------------------------
(* The invariant, and what follows from it.                                 *)

IInv == TypeInv /\ EditInv

(* Every tab asks for its first socket, and nothing has been typed.         *)
LEMMA InitIInv == Init => IInv
<1> SUFFICES ASSUME Init
             PROVE  IInv
  OBVIOUS
<1>0. /\ MaxEdits \in Nat /\ MaxHttp \in Nat /\ MaxFaults \in Nat /\ MaxConnects \in Nat \ {0}
      /\ <<>> \in Batch /\ <<>> \in Text /\ 0 \in Version /\ 1 \in Version
  BY BatchTypes, LiveAssumption DEF Version
<1>1. DocTypes
  BY <1>0, OperationTypes DEF Init, DocTypes
<1>2. conn = [k \in Conns |-> [pc |-> "none", inbox |-> <<>>, outbox |-> <<>>, change |-> NoChange]]
  BY DEF Init, NoChange
<1>3. [pc |-> "none", inbox |-> <<>>, outbox |-> <<>>, change |-> NoChange] \in Socket
  BY DEF Socket, PCs
<1>4. ConnTypes
  BY <1>2, <1>3 DEF ConnTypes
<1>5. TabTypes
  <2>1. client = [c \in Clients |-> [me |-> c, phase |-> "ticket", socket |-> 1, versionRef |-> 0,
                                     editor |-> <<>>, pending |-> NoEdit, awaitingAck |-> FALSE,
                                     sendTimer |-> FALSE]]
    BY DEF Init
  <2>2. ASSUME NEW c \in Clients
        PROVE  client[c] \in Tab /\ client[c].me = c
    BY <1>0, <2>1 DEF Tab, Phases, NoEdit
  <2>3. QED
    BY <2>1, <2>2 DEF TabTypes
<1>6. HubTypes /\ SpentTypes
  <2>1. [up |-> TRUE, queue |-> <<>>] \in Relay
    BY DEF Relay
  <2>2. QED
    BY <1>0, <2>1 DEF Init, HubTypes, SpentTypes
<1>7. /\ \A c \in Clients : client[c].pending = NoEdit /\ Pending(c) = <<>>
      /\ \A k \in Conns : conn[k].outbox = <<>> /\ Places(k) = {}
      /\ Rows = {} /\ document.version = 1 /\ spent.http = 0
  BY <1>2 DEF Init, Pending, Places, Rows, NoEdit, ReplaceOp
<1>8. Sized
  BY <1>7 DEF Sized
<1>9. OnePlace
  BY <1>7, EmptyBatch DEF OnePlace, TabsOnce, WireOnce, LogOnce, Apart, AllMade
<1>10. VersionsPaid
  BY <1>7, TypedCount DEF VersionsPaid
<1>11. QED
  BY <1>1, <1>4, <1>5, <1>6, <1>8, <1>9, <1>10 DEF IInv, TypeInv, EditInv

(* No step leaves it.                                                       *)
LEMMA NextIInv == IInv /\ [Next]_vars => IInv'
<1>1. ASSUME IInv, Next
      PROVE  IInv'
  <2>1. TypeInv /\ EditInv
    BY <1>1 DEF IInv
  <2>2. AllTypes
    BY <1>1, <2>1, NextMoves
  <2>3. Sized' /\ OnePlace' /\ VersionsPaid'
    BY <1>1, <2>1, SizedStays, EditMoves, PaidStays
  <2>4. QED
    BY <2>2, <2>3 DEF IInv, TypeInv, EditInv, AllTypes
<1>2. ASSUME IInv, UNCHANGED vars
      PROVE  IInv'
  BY <1>2 DEF IInv, vars, TypeInv, DocTypes, ConnTypes, TabTypes, HubTypes, SpentTypes, Sized,
     BatchSized, EditInv, OnePlace, TabsOnce, WireOnce, LogOnce, Apart, AllMade, Made, VersionsPaid,
     Typed, Rows, Pending, Wired, Places
<1>3. QED
  BY <1>1, <1>2

(* The invariant holds in every reachable state.                            *)
LEMMA Invariance == Spec => []IInv
BY InitIInv, NextIInv, PTL DEF Spec

(* Every variable keeps its type, whatever arrives in whatever order: in    *)
(* particular a version never exceeds the changes there can be, and a batch *)
(* on the wire is one the schema could accept.                              *)
THEOREM TypeCorrect == Spec => []TypeOK
<1>1. IInv => TypeOK
  BY DEF IInv, TypeInv, DocTypes, ConnTypes, Socket, PCs, TabTypes, Tab, Phases, HubTypes, Relay,
     TypeOK
<1>2. QED
  BY <1>1, Invariance, PTL

(* An edit is committed at most once (EditsLoggedOnce): it is in one place, *)
(* what a tab has pending, one batch on the wire, or one row of the log,    *)
(* and the hook's flush, resync, init and rejected never copy a batch.      *)
THEOREM NoEditTwice == Spec => []EditsLoggedOnce
<1>1. ASSUME IInv, NEW e \in 1..MaxEdits
      PROVE  Cardinality(Logged(e)) <= 1
  <2>1. ASSUME NEW x \in Logged(e), NEW y \in Logged(e)
        PROVE  x = y
    <3>1. /\ x = <<x[1], x[2]>> /\ x[1] \in Rows /\ x[2] \in 1..Len(x[1].operation.ids)
          /\ x[1].operation.ids[x[2]] = e
      BY BatchTypes DEF Logged, Rows
    <3>2. /\ y = <<y[1], y[2]>> /\ y[1] \in Rows /\ y[2] \in 1..Len(y[1].operation.ids)
          /\ y[1].operation.ids[y[2]] = e
      BY BatchTypes DEF Logged, Rows
    <3>3. x[1] = y[1]
      BY <1>1, <3>1, <3>2 DEF IInv, EditInv, OnePlace, LogOnce, Disjoint, In
    <3>4. x[2] = y[2]
      BY <1>1, <3>1, <3>2, <3>3 DEF IInv, EditInv, OnePlace, LogOnce, Injective
    <3>5. QED
      BY <3>1, <3>2, <3>3, <3>4
  <2>2. QED
    BY <2>1, AtMostOne
<1>2. IInv => EditsLoggedOnce
  BY <1>1 DEF EditsLoggedOnce
<1>3. QED
  BY <1>2, Invariance, PTL

-----------------------------------------------------------------------------
(* The log.                                                                 *)

(* A commit is one step of the abstract log.                                *)
LEMMA CommitRefines ==
  ASSUME NEW op, Commits(op)
  PROVE  Log!Accept
<1>1. PICK content \in Text : Commit(document.version, op, content)
  BY DEF Commits
<1> DEFINE Abs(r) == [base |-> r.base, version |-> r.version, operation |-> r.operation]
           n == [base |-> document.version, version |-> document.version + 1,
                 operation |-> op, state |-> content]
           rows == {Abs(r) : r \in changes}
<1>2. changes' = changes \cup {n} /\ document'.version = document.version + 1
      /\ stage = "live" /\ stage' = "live" /\ op \in Operation
  BY <1>1 DEF Commit, Commits
<1>3. Abs(n) = Log!Row(document.version, op)
  BY DEF Log!Row
<1> HIDE DEF Abs, n
<1>4. rows' = rows \cup {Log!Row(document.version, op)}
  BY <1>2, <1>3
<1> USE DEF Abs
<1>5. QED
  BY <1>2, <1>4 DEF Log!Accept

(* However sessions, HTTP handlers and tabs interleave, the document goes   *)
(* through the states of one append-only log: each accepted change takes    *)
(* the next version and adds the one row for it (apply_change).             *)
THEOREM Refinement == Spec => ImplementsChangeLog
<1>1. ASSUME IInv, Next
      PROVE  [Log!LogNext]_(Log!logVars)
  <2>1. ASSUME StoreSame
        PROVE  UNCHANGED Log!logVars
    BY <2>1 DEF StoreSame, Log!logVars
  <2>2. ASSUME NEW op, Commits(op)
        PROVE  Log!LogNext
    BY <2>2, CommitRefines DEF Log!LogNext
  <2>3. ASSUME Deletes
        PROVE  Log!LogNext
    BY <2>3 DEF Deletes, Log!LogNext, Log!Delete
  <2>4. StoreSame \/ Deletes \/ \E op : Commits(op)
    <3>1. TypeInv /\ EditInv
      BY <1>1 DEF IInv
    <3>2. ASSUME NEW k \in Conns, SessionMoves(k)
          PROVE  StoreSame \/ \E op : Commits(op)
      BY <3>2 DEF SessionMoves, SessionDoes, Keeps
    <3>3. ASSUME NEW c \in Clients, TabMoves(c)
          PROVE  StoreSame
      BY <3>3 DEF TabMoves, ServerUnchanged, StoreSame
    <3>4. QED
      BY <1>1, <3>1, <3>2, <3>3, NextMoves DEF HubMoves, HttpMoves
  <2>5. QED
    BY <2>1, <2>2, <2>3, <2>4
<1>2. UNCHANGED vars => UNCHANGED Log!logVars
  BY DEF vars, Log!logVars
<1>3. IInv /\ [Next]_vars => [Log!LogNext]_(Log!logVars)
  BY <1>1, <1>2
<1>4. QED
  BY <1>3, Invariance, PTL DEF Spec, ImplementsChangeLog

-----------------------------------------------------------------------------
(* One edit in flight.                                                      *)

(* A message more.                                                          *)
LEMMA InboxGrows ==
  ASSUME NEW s \in Seq(Payload), NEW m \in Payload, NEW types
  PROVE  /\ NoneOf(s, types) /\ m.type \notin types => NoneOf(Append(s, m), types)
         /\ OneOf(s, types) /\ m.type \notin types => OneOf(Append(s, m), types)
         /\ NoneOf(s, types) => OneOf(Append(s, m), types)
<1>1. \A i \in 1..Len(Append(s, m)) :
        \/ i \in 1..Len(s) /\ Append(s, m)[i] = s[i]
        \/ i = Len(s) + 1 /\ Append(s, m)[i] = m
  BY AppendProperties
<1>2. QED
  BY <1>1 DEF NoneOf, OneOf

(* A message less.                                                          *)
LEMMA InboxShrinks ==
  ASSUME NEW s \in Seq(Payload), s # <<>>, NEW types
  PROVE  /\ NoneOf(s, types) => NoneOf(Tail(s), types) /\ Head(s).type \notin types
         /\ OneOf(s, types) => OneOf(Tail(s), types)
         /\ OneOf(s, types) /\ Head(s).type \in types => NoneOf(Tail(s), types)
<1>1. Len(s) \in Nat \ {0} /\ Head(s) = s[1] /\ 1 \in 1..Len(s)
  BY EmptySeq, LenProperties
<1>2. \A i \in 1..Len(Tail(s)) : /\ i \in Nat /\ i + 1 # 1 /\ i + 1 \in 1..Len(s)
                                 /\ Tail(s)[i] = s[i + 1]
  BY <1>1, HeadTailProperties
<1>3. QED
  BY <1>1, <1>2 DEF NoneOf, OneOf

(* No message at all, and none of a type.                                   *)
LEMMA InboxEmpty ==
  ASSUME NEW types
  PROVE  NoneOf(<<>>, types) /\ OneOf(<<>>, types) /\ \A s : NoneOf(s, types) => OneOf(s, types)
BY DEF NoneOf, OneOf

(* An invariant of one tab depends on the tab and its sockets only.         *)
LEMMA FlightFrame ==
  ASSUME TypeInv, NEW c \in Clients, TabInFlight(c), client'[c] = client[c],
         \A n \in 1..MaxConnects : conn'[<<c, n>>] = conn[<<c, n>>]
  PROVE  TabInFlight(c)'
<1>1. client[c].socket \in 1..MaxConnects
  BY KeyTypes DEF Tab
<1>2. Line(c)' = Line(c)
  BY <1>1 DEF Line
<1>3. \A n \in 1..MaxConnects : (Unopened(c, n) <=> Unopened(c, n)') /\ (Unused(<<c, n>>) <=> Unused(<<c, n>>)')
  BY DEF Unopened, Unused
<1>4. QED
  BY <1>2, <1>3 DEF TabInFlight

(* What holds of the current socket of a tab survives a step that the tab   *)
(* does not take, if that step answers what was asked.                      *)
LEMMA FlightOthers ==
  ASSUME TypeInv, NEW c \in Clients, TabInFlight(c), client'[c] = client[c],
         \A n \in 1..MaxConnects : Unused(<<c, n>>) => Unused(<<c, n>>)',
         client[c].phase \in {"open", "live"} /\ Silent(Line(c)) => Silent(Line(c)'),
         client[c].phase = "open" /\ InitOnce(Line(c)) => InitOnce(Line(c)'),
         client[c].phase = "live" /\ InitOver(Line(c)) => InitOver(Line(c)'),
         client[c].phase = "live" /\ InitOver(Line(c)) /\ OneAsked(Line(c)) => OneAsked(Line(c)')
  PROVE  TabInFlight(c)'
<1>1. \A n \in 1..MaxConnects : Unopened(c, n)' <=> Unopened(c, n)
  BY DEF Unopened
<1>2. QED
  BY <1>1 DEF TabInFlight

(* The hub brings no answer and no `init`.                                  *)
LEMMA HubKeepsFlight ==
  ASSUME TypeInv, NEW c \in Clients, TabInFlight(c), HubMoves
  PROVE  TabInFlight(c)'
<1> DEFINE s == conn[Key(c)]
           t == conn'[Key(c)]
<1>1. Key(c) \in Conns /\ s \in Socket /\ client' = client
  BY KeyTypes DEF HubMoves
<1>2. Line(c) = s /\ Line(c)' = t
  BY <1>1 DEF Line, Key
<1>3. /\ t.outbox = s.outbox /\ (t.pc = s.pc \/ (s.pc = "publish" /\ t.pc = "loop"))
      /\ \/ t.inbox = s.inbox
         \/ \E m \in Shared : t.inbox = Append(s.inbox, m)
  BY <1>1 DEF HubMoves, Hears
<1>4. s.inbox \in Seq(Payload)
  BY <1>1 DEF Socket
<1>5. ASSUME NEW types, types \cap {"edit", "deleted"} = {}
      PROVE  /\ NoneOf(s.inbox, types) => NoneOf(t.inbox, types)
             /\ OneOf(s.inbox, types) => OneOf(t.inbox, types)
  <2>1. \A m \in Shared : m \in Payload /\ m.type \notin types
    BY <1>5, SharedTypes
  <2>2. QED
    BY <1>3, <1>4, <2>1, InboxGrows
<1>6. /\ NoneOf(s.inbox, Answers) => NoneOf(t.inbox, Answers)
      /\ OneOf(s.inbox, Answers) => OneOf(t.inbox, Answers)
      /\ NoneOf(s.inbox, {"init"}) => NoneOf(t.inbox, {"init"})
      /\ OneOf(s.inbox, {"init"}) => OneOf(t.inbox, {"init"})
  BY <1>5 DEF Answers
<1> HIDE DEF s, t
<1>7. /\ Silent(s) => Silent(t)
      /\ InitOnce(s) => InitOnce(t)
      /\ InitOver(s) => InitOver(t)
      /\ OneAsked(s) => OneAsked(t)
  BY <1>3, <1>6 DEF Silent, InitOnce, InitOver, OneAsked
<1>8. ASSUME NEW n \in 1..MaxConnects, Unused(<<c, n>>)
      PROVE  Unused(<<c, n>>)'
  <2>1. <<c, n>> \in Conns
    BY DEF Conns
  <2>2. Hears(<<c, n>>) /\ conn[<<c, n>>].pc = "none"
    BY <1>8, <2>1 DEF HubMoves, Unused
  <2>3. QED
    BY <1>8, <2>2 DEF Hears, Joined, Unused
<1>9. QED
  BY <1>1, <1>2, <1>7, <1>8, FlightOthers

(* A session says `init` once, and answers the one batch it was sent.       *)
LEMMA SessionKeepsFlight ==
  ASSUME TypeInv, NEW c \in Clients, TabInFlight(c), NEW k \in Conns, SessionMoves(k)
  PROVE  TabInFlight(c)'
<1> DEFINE s == conn[k]
           t == conn'[k]
<1>0. client' = client /\ \A j \in Conns : j # k => conn'[j] = conn[j]
  BY DEF SessionMoves
<1>1. Key(c) \in Conns /\ s \in Socket /\ s.inbox \in Seq(Payload) /\ s.outbox \in Seq(Sent)
  BY KeyTypes DEF TypeInv, ConnTypes, Socket
<1>2. \A n \in 1..MaxConnects : Unused(<<c, n>>) => Unused(<<c, n>>)'
  <2>1. SUFFICES ASSUME NEW n \in 1..MaxConnects, Unused(<<c, n>>)
                 PROVE  Unused(<<c, n>>)'
    OBVIOUS
  <2>2. <<c, n>> \in Conns /\ conn[<<c, n>>].pc = "none"
    BY <2>1 DEF Conns, Unused
  <2>3. s.pc # "none"
    BY DEF SessionMoves, SessionDoes, Goes
  <2>4. QED
    BY <1>0, <2>1, <2>2, <2>3 DEF Unused
<1>3. CASE k # Key(c)
  <2>1. Line(c)' = Line(c)
    BY <1>0, <1>1, <1>3 DEF Line, Key
  <2>2. QED
    BY <1>0, <1>2, <2>1, FlightOthers
<1>4. CASE k = Key(c)
  <2>0. Line(c) = s /\ Line(c)' = t
    BY <1>0, <1>4 DEF Line, Key
  <2>1. ASSUME NEW from, NEW to, NEW types, Goes(k, from, to, types)
        PROVE  /\ s.pc = from /\ t.pc = to
               /\ \A y : NoneOf(s.inbox, y) /\ types \cap y = {} => NoneOf(t.inbox, y)
               /\ \A y : OneOf(s.inbox, y) /\ types \cap y = {} => OneOf(t.inbox, y)
               /\ \A y : NoneOf(s.inbox, y) => OneOf(t.inbox, y)
    <3>1. t.inbox = s.inbox \/ \E m \in Payload : m.type \in types /\ t.inbox = Append(s.inbox, m)
      BY <2>1 DEF Goes
    <3>2. CASE t.inbox = s.inbox
      BY <2>1, <3>2, InboxEmpty DEF Goes
    <3>3. ASSUME NEW m \in Payload, m.type \in types, t.inbox = Append(s.inbox, m)
          PROVE  /\ \A y : NoneOf(s.inbox, y) /\ types \cap y = {} => NoneOf(t.inbox, y)
                 /\ \A y : OneOf(s.inbox, y) /\ types \cap y = {} => OneOf(t.inbox, y)
                 /\ \A y : NoneOf(s.inbox, y) => OneOf(t.inbox, y)
      <4>1. \A y : types \cap y = {} => m.type \notin y
        BY <3>3
      <4>2. QED
        BY <1>1, <3>3, <4>1, InboxGrows
    <3>4. QED
      BY <2>1, <3>1, <3>2, <3>3 DEF Goes
  <2>2. ASSUME Takes(k)
        PROVE  s.outbox # <<>> /\ (Len(s.outbox) = 1 => t.outbox = <<>>)
    <3>1. s.outbox # <<>> /\ t.outbox = Tail(s.outbox)
      BY <2>2 DEF Takes
    <3>2. t.outbox \in Seq(Sent) /\ Len(t.outbox) = Len(s.outbox) - 1
      BY <1>1, <3>1, HeadTailProperties
    <3>3. Len(t.outbox) = 0 => t.outbox = <<>>
      BY <3>2, EmptySeq
    <3>4. QED
      BY <3>1, <3>2, <3>3
  <2>3. InitOver(s) => InitOver(t)
    <3>1. s.pc # "init" /\ NoneOf(s.inbox, {"init"}) => t.pc # "init" /\ NoneOf(t.inbox, {"init"})
      <4>1. /\ {"edit_ack"} \cap {"init"} = {} /\ {} \cap {"init"} = {} /\ {"close"} \cap {"init"} = {}
            /\ {"error", "rejected"} \cap {"init"} = {}
        OBVIOUS
      <4>2. QED
        BY <2>1, <4>1, InboxEmpty DEF SessionMoves, SessionDoes
    <3>2. QED
      BY <3>1 DEF InitOver
  <2>4. InitOnce(s) => InitOnce(t)
    <3>1. SUFFICES ASSUME InitOnce(s)
                   PROVE  InitOnce(t)
      OBVIOUS
    <3>2. CASE Goes(k, "init", "join", {"init"})
      <4>1. s.pc = "init" /\ t.pc = "join" /\ (NoneOf(s.inbox, {"init"}) => OneOf(t.inbox, {"init"}))
        BY <2>1, <3>2
      <4>2. QED
        BY <3>1, <4>1 DEF InitOnce
    <3>3. ASSUME NEW from, NEW to, NEW types, Goes(k, from, to, types), types \cap {"init"} = {},
                 to # "init"
          PROVE  InitOnce(t)
      <4>1. t.pc = to /\ (OneOf(s.inbox, {"init"}) => OneOf(t.inbox, {"init"}))
        BY <2>1, <3>3
      <4>2. QED
        BY <3>1, <3>3, <4>1 DEF InitOnce
    <3>4. CASE t.inbox = <<>> /\ t.pc = "closed"
      BY <3>4, InboxEmpty DEF InitOnce
    <3>5. /\ {"edit_ack"} \cap {"init"} = {} /\ {} \cap {"init"} = {} /\ {"close"} \cap {"init"} = {}
          /\ {"error", "rejected"} \cap {"init"} = {}
      OBVIOUS
    <3>6. QED
      BY <3>2, <3>3, <3>4, <3>5 DEF SessionMoves, SessionDoes
  <2>5. {"init"} \cap Answers = {} /\ {} \cap Answers = {} /\ {"close"} \cap Answers = {}
    BY DEF Answers
  <2>6. Silent(s) => Silent(t)
    <3>1. SUFFICES ASSUME s.outbox = <<>>, s.pc # "ack", NoneOf(s.inbox, Answers)
                   PROVE  t.outbox = <<>> /\ t.pc # "ack" /\ NoneOf(t.inbox, Answers)
      BY DEF Silent
    <3>2. ~Takes(k)
      BY <3>1, <2>2
    <3>3. CASE t.pc = "closed" /\ t.inbox = <<>> /\ t.outbox = <<>>
      BY <3>3, InboxEmpty
    <3>4. CASE /\ Keeps(k)
               /\ \/ Goes(k, "init", "join", {"init"}) \/ Goes(k, "init", "closed", {"close"})
                  \/ Goes(k, "join", "loop", {})
      BY <2>1, <2>5, <3>1, <3>4 DEF Keeps
    <3>5. CASE Goes(k, "ack", "publish", {"edit_ack"})
      BY <3>1, <3>5 DEF Goes
    <3>6. QED
      BY <3>2, <3>3, <3>4, <3>5 DEF SessionMoves, SessionDoes
  <2>7. InitOver(s) /\ OneAsked(s) => OneAsked(t)
    <3>1. SUFFICES ASSUME s.pc # "init", OneAsked(s)
                   PROVE  OneAsked(t)
      BY DEF InitOver
    <3>2. CASE Goes(k, "join", "loop", {}) /\ Keeps(k)
      <4>1. /\ t.outbox = s.outbox /\ s.pc # "ack" /\ t.pc # "ack"
            /\ NoneOf(s.inbox, Answers) => NoneOf(t.inbox, Answers)
            /\ OneOf(s.inbox, Answers) => OneOf(t.inbox, Answers)
        BY <2>1, <2>5, <3>2 DEF Keeps
      <4>2. QED
        BY <3>1, <4>1 DEF OneAsked
    <3>3. CASE Goes(k, "ack", "publish", {"edit_ack"}) /\ Keeps(k)
      <4>1. /\ t.outbox = s.outbox /\ s.pc = "ack" /\ t.pc = "publish"
            /\ NoneOf(s.inbox, Answers) => OneOf(t.inbox, Answers)
        BY <2>1, <3>3 DEF Keeps
      <4>2. QED
        BY <3>1, <4>1 DEF OneAsked
    <3>4. CASE Goes(k, "loop", "loop", {"error", "rejected"}) /\ Takes(k)
      <4>1. /\ s.outbox # <<>> /\ (Len(s.outbox) = 1 => t.outbox = <<>>) /\ t.pc = "loop"
            /\ NoneOf(s.inbox, Answers) => OneOf(t.inbox, Answers)
        BY <2>1, <2>2, <3>4
      <4>2. QED
        BY <3>1, <4>1 DEF OneAsked
    <3>5. CASE Goes(k, "loop", "closed", {"close"}) /\ Takes(k)
      <4>1. /\ s.outbox # <<>> /\ (Len(s.outbox) = 1 => t.outbox = <<>>) /\ t.pc = "closed"
            /\ NoneOf(s.inbox, Answers) => OneOf(t.inbox, Answers)
        BY <2>1, <2>2, <3>5
      <4>2. QED
        BY <3>1, <4>1 DEF OneAsked
    <3>6. CASE Goes(k, "loop", "ack", {}) /\ Takes(k)
      <4>1. /\ s.outbox # <<>> /\ (Len(s.outbox) = 1 => t.outbox = <<>>) /\ t.pc = "ack"
            /\ NoneOf(s.inbox, Answers) => NoneOf(t.inbox, Answers)
        BY <2>1, <2>2, <2>5, <3>6
      <4>2. QED
        BY <3>1, <4>1 DEF OneAsked
    <3>7. CASE t.pc = "closed" /\ t.inbox = <<>> /\ t.outbox = <<>>
      BY <3>7, InboxEmpty DEF OneAsked
    <3>8. s.pc # "init" => ~Goes(k, "init", "join", {"init"}) /\ ~Goes(k, "init", "closed", {"close"})
      BY DEF Goes
    <3>9. QED
      BY <3>1, <3>2, <3>3, <3>4, <3>5, <3>6, <3>7, <3>8 DEF SessionMoves, SessionDoes
  <2> HIDE DEF s, t
  <2>8. QED
    BY <1>0, <1>2, <2>0, <2>3, <2>4, <2>6, <2>7, FlightOthers
<1>5. QED
  BY <1>3, <1>4

(* A tab asks again only when it has read the answer.                       *)
LEMMA TabKeepsFlight ==
  ASSUME TypeInv, OnlineEvents = FALSE, NEW c \in Clients, TabInFlight(c), TabMoves(c)
  PROVE  TabInFlight(c)'
<1> DEFINE s == conn[Key(c)]
           t == conn'[Key(c)]
<1>1. /\ client[c] \in Tab /\ client[c].socket \in 1..MaxConnects /\ MaxConnects \in Nat
      /\ Key(c) = <<c, client[c].socket>> /\ Key(c) \in Conns
      /\ s \in Socket /\ s.inbox \in Seq(Payload) /\ s.outbox \in Seq(Sent)
  BY KeyTypes DEF Tab, Socket
<1>2. /\ TabDoes(c) /\ \A k \in Conns : k # Key(c) => conn'[k] = conn[k]
      /\ Line(c) = s
  BY DEF TabMoves, Line, Key
<1>3. \A n \in 1..MaxConnects : n # client[c].socket => (Unused(<<c, n>>)' <=> Unused(<<c, n>>))
  BY <1>1, <1>2 DEF Conns, Unused
<1>4. /\ \A n \in 1..MaxConnects : Unopened(c, n) => Unused(<<c, n>>)
      /\ client[c].phase \in {"ticket", "open"} =>
           ~client[c].awaitingAck /\ (client[c].pending = NoEdit \/ ~client[c].sendTimer)
      /\ client[c].phase = "open" => Silent(s) /\ InitOnce(s)
      /\ client[c].phase = "live" =>
           InitOver(s) /\ (Silent(s) \/ (client[c].awaitingAck /\ OneAsked(s)))
  BY <1>2 DEF TabInFlight
<1>5. ASSUME client'[c].socket = client[c].socket, client'[c].phase = client[c].phase,
             t.pc = s.pc, t.inbox = s.inbox, t.outbox = s.outbox
      PROVE  \A n \in 1..MaxConnects : Unopened(c, n)' => Unused(<<c, n>>)'
  BY <1>1, <1>3, <1>4, <1>5 DEF Unopened, Unused
<1>6. ASSUME client'[c].socket = client[c].socket, client'[c].phase # "ticket"
      PROVE  /\ \A n \in 1..MaxConnects : Unopened(c, n)' => Unused(<<c, n>>)'
             /\ Line(c)' = t
  <2>1. Line(c)' = t
    BY <1>1, <1>6 DEF Line
  <2>2. \A n \in 1..MaxConnects : Unopened(c, n)' => n > client[c].socket
    BY <1>6 DEF Unopened
  <2>3. \A n \in 1..MaxConnects : n > client[c].socket => n # client[c].socket /\ Unopened(c, n)
    BY <1>1 DEF Unopened
  <2>4. QED
    BY <1>3, <1>4, <2>1, <2>2, <2>3
<1>7. CASE Types(c)
  <2>1. /\ client'[c].socket = client[c].socket /\ client[c].phase = "live" /\ client'[c].phase = "live"
        /\ client'[c].awaitingAck = client[c].awaitingAck /\ t = s
    BY <1>7 DEF Types
  <2> HIDE DEF s, t
  <2>2. QED
    BY <1>4, <1>6, <2>1 DEF TabInFlight
<1>8. CASE Opens(c)
  <2>1. /\ client'[c].socket = client[c].socket /\ client[c].phase = "ticket" /\ client'[c].phase = "open"
        /\ client'[c].awaitingAck = client[c].awaitingAck /\ client'[c].pending = client[c].pending
        /\ client'[c].sendTimer = client[c].sendTimer
        /\ t.pc = "init" /\ t.inbox = s.inbox /\ t.outbox = s.outbox
    BY <1>8 DEF Opens
  <2>2. s.inbox = <<>> /\ s.outbox = <<>>
    BY <1>1, <1>4, <2>1 DEF Unopened, Unused
  <2>3. Silent(t) /\ InitOnce(t)
    BY <2>1, <2>2, InboxEmpty DEF Silent, InitOnce
  <2> HIDE DEF s, t
  <2>4. QED
    BY <1>4, <1>6, <2>1, <2>3 DEF TabInFlight
<1>9. CASE Leaves(c)
  <2>1. CASE client'[c].phase \in {"retry", "stopped"} /\ client'[c].socket = client[c].socket
    BY <1>6, <2>1 DEF TabInFlight
  <2>2. CASE /\ client'[c].phase = "ticket" /\ client'[c].socket = client[c].socket + 1
             /\ ~client'[c].awaitingAck
             /\ OnlineEvents \/ client'[c].pending = NoEdit \/ ~client'[c].sendTimer
    <3>1. \A n \in 1..MaxConnects : Unopened(c, n)' => n # client[c].socket /\ Unopened(c, n)
      BY <1>1, <2>2 DEF Unopened
    <3>2. QED
      BY <1>3, <1>4, <2>2, <3>1 DEF TabInFlight
  <2>3. QED
    BY <1>9, <2>1, <2>2 DEF Leaves
<1>10. ASSUME NEW m \in Sent, t.pc = s.pc, t.outbox = Append(s.outbox, m), t.inbox = s.inbox,
              Silent(s)
       PROVE  OneAsked(t)
  <2>1. Len(t.outbox) = 1
    BY <1>10, <1>1 DEF Silent
  <2>2. QED
    BY <1>10, <2>1 DEF Silent, OneAsked
<1>11. CASE client[c].sendTimer /\ Flushes(c, client[c].awaitingAck, s.inbox)
  <2>1. /\ client'[c].phase = client[c].phase /\ client'[c].socket = client[c].socket
        /\ ~client'[c].sendTimer /\ t.pc = s.pc /\ t.inbox = s.inbox
    BY <1>11 DEF Flushes
  <2>2. CASE /\ ~client[c].awaitingAck /\ client[c].pending # NoEdit
             /\ client[c].phase \in {"open", "live"}
             /\ client'[c].pending = NoEdit /\ client'[c].awaitingAck
             /\ \E m \in Sent : m.ids = client[c].pending.ids /\ t.outbox = Append(s.outbox, m)
    <3>1. client[c].phase = "live" /\ Silent(s) /\ InitOver(s)
      BY <1>4, <1>11, <2>2
    <3>2. OneAsked(t)
      BY <1>10, <2>1, <2>2, <3>1
    <3>3. InitOver(t)
      BY <2>1, <3>1 DEF InitOver
    <3> HIDE DEF s, t
    <3>4. QED
      BY <1>6, <2>1, <2>2, <3>1, <3>2, <3>3 DEF TabInFlight
  <2>3. CASE /\ client'[c].pending = client[c].pending
             /\ client'[c].awaitingAck = client[c].awaitingAck
             /\ t.outbox = s.outbox
    <3>1. /\ Silent(s) => Silent(t)
          /\ InitOnce(s) => InitOnce(t)
          /\ InitOver(s) => InitOver(t)
          /\ OneAsked(s) => OneAsked(t)
      BY <2>1, <2>3 DEF Silent, InitOnce, InitOver, OneAsked
    <3>2. Line(c)' = t
      BY <1>1, <2>1 DEF Line
    <3> HIDE DEF s, t
    <3>3. QED
      BY <1>4, <1>5, <2>1, <2>3, <3>1, <3>2 DEF TabInFlight
  <2>4. QED
    BY <1>11, <2>2, <2>3 DEF Flushes
<1>12. ASSUME s.inbox # <<>>, t.pc = s.pc, t.inbox = Tail(s.inbox)
       PROVE  /\ InitOver(s) => InitOver(t) /\ Head(s.inbox).type # "init"
              /\ InitOnce(s) => InitOnce(t)
              /\ InitOnce(s) /\ Head(s.inbox).type = "init" => InitOver(t)
              /\ Silent(s) => Head(s.inbox).type \notin Answers
              /\ Silent(s) /\ t.outbox = s.outbox => Silent(t)
              /\ OneAsked(s) /\ t.outbox = s.outbox => OneAsked(t)
              /\ OneAsked(s) /\ Head(s.inbox).type \in Answers =>
                   s.outbox = <<>> /\ (t.outbox = <<>> => Silent(t))
  <2>1. \A types :
          /\ NoneOf(s.inbox, types) => NoneOf(t.inbox, types) /\ Head(s.inbox).type \notin types
          /\ OneOf(s.inbox, types) => OneOf(t.inbox, types)
          /\ OneOf(s.inbox, types) /\ Head(s.inbox).type \in types => NoneOf(t.inbox, types)
    BY <1>1, <1>12, InboxShrinks
  <2> HIDE DEF s, t
  <2>2. QED
    BY <1>12, <2>1 DEF InitOver, InitOnce, Silent, OneAsked
<1>13. CASE /\ client[c].phase \in {"open", "live"} /\ s.inbox # <<>>
            /\ Head(s.inbox).type = "edit_ack" /\ Flushes(c, FALSE, Tail(s.inbox))
  <2>1. /\ client'[c].phase = client[c].phase /\ client'[c].socket = client[c].socket
        /\ ~client'[c].sendTimer /\ t.pc = s.pc /\ t.inbox = Tail(s.inbox)
        /\ Head(s.inbox).type \in Answers
    BY <1>13 DEF Flushes, Answers
  <2>2. client[c].phase = "live" /\ InitOver(s) /\ OneAsked(s)
    BY <1>4, <1>12, <1>13, <2>1
  <2>3. InitOver(t) /\ s.outbox = <<>> /\ (t.outbox = <<>> => Silent(t))
    BY <1>12, <1>13, <2>1, <2>2
  <2>4. t.pc # "ack" /\ NoneOf(t.inbox, Answers)
    <3>1. OneOf(s.inbox, Answers) /\ s.pc # "ack"
      BY <1>1, <1>13, <2>1, <2>2, InboxShrinks DEF OneAsked
    <3>2. QED
      BY <1>1, <1>13, <2>1, <3>1, InboxShrinks
  <2>5. CASE client'[c].awaitingAck /\ \E m \in Sent : t.outbox = Append(s.outbox, m)
    <3>1. Len(t.outbox) = 1
      BY <2>3, <2>5
    <3>2. OneAsked(t)
      BY <2>4, <3>1 DEF OneAsked
    <3> HIDE DEF s, t
    <3>3. QED
      BY <1>6, <2>1, <2>2, <2>3, <2>5, <3>2 DEF TabInFlight
  <2>6. CASE t.outbox = s.outbox
    <3>1. Silent(t)
      BY <2>3, <2>6
    <3> HIDE DEF s, t
    <3>2. QED
      BY <1>6, <2>1, <2>2, <2>3, <3>1 DEF TabInFlight
  <2>7. QED
    BY <1>13, <2>5, <2>6 DEF Flushes
<1>14. ASSUME NEW ty, Reads(c, ty)
       PROVE  /\ client[c].phase \in {"open", "live"} /\ client'[c].socket = client[c].socket
              /\ s.inbox # <<>> /\ Head(s.inbox).type = ty
              /\ t.pc = s.pc /\ t.inbox = Tail(s.inbox) /\ t.outbox = s.outbox
  BY <1>14 DEF Reads
<1>15. CASE Reads(c, "init") /\ client'[c].phase = "live" /\ Forgets(c)
  <2>1. client[c].phase = "open" /\ Silent(s) /\ InitOnce(s)
    BY <1>4, <1>12, <1>14, <1>15
  <2>2. Silent(t) /\ InitOver(t)
    BY <1>12, <1>14, <1>15, <2>1
  <2>3. client'[c].socket = client[c].socket
    BY <1>14, <1>15
  <2> HIDE DEF s, t
  <2>4. QED
    BY <1>6, <1>15, <2>2, <2>3 DEF TabInFlight
<1>16. CASE Reads(c, "rejected") /\ client'[c].phase = client[c].phase /\ Forgets(c)
  <2>1. "rejected" \in Answers
    BY DEF Answers
  <2>2. client[c].phase = "live" /\ OneAsked(s) /\ InitOver(s)
    BY <1>4, <1>12, <1>14, <1>16, <2>1
  <2>3. Silent(t) /\ InitOver(t)
    BY <1>12, <1>14, <1>16, <2>1, <2>2
  <2>4. client'[c].socket = client[c].socket
    BY <1>14, <1>16
  <2> HIDE DEF s, t
  <2>5. QED
    BY <1>6, <1>16, <2>2, <2>3, <2>4 DEF TabInFlight
<1>17. CASE /\ Reads(c, "edit") \/ Reads(c, "error")
            /\ TabKeeps(c) /\ client'[c].sendTimer = client[c].sendTimer
  <2>1. /\ client[c].phase \in {"open", "live"} /\ client'[c].socket = client[c].socket
        /\ s.inbox # <<>> /\ t.pc = s.pc /\ t.inbox = Tail(s.inbox) /\ t.outbox = s.outbox
    BY <1>14, <1>17
  <2>2. /\ InitOver(s) => InitOver(t)
        /\ InitOnce(s) => InitOnce(t)
        /\ Silent(s) => Silent(t)
        /\ OneAsked(s) => OneAsked(t)
    BY <1>12, <2>1
  <2> HIDE DEF s, t
  <2>3. QED
    BY <1>4, <1>6, <1>17, <2>1, <2>2 DEF TabInFlight, TabKeeps
<1>18. QED
  BY <1>2, <1>7, <1>8, <1>9, <1>11, <1>13, <1>15, <1>16, <1>17 DEF TabDoes

(* Every step keeps at most one edit in flight.                             *)
LEMMA FlightStays ==
  ASSUME TypeInv, EditInv, FlightInv, OnlineEvents = FALSE, Next
  PROVE  FlightInv'
<1>1. SUFFICES ASSUME NEW c \in Clients, TabInFlight(c)
               PROVE  TabInFlight(c)'
  BY DEF FlightInv
<1>2. CASE HttpMoves \/ Deletes
  BY <1>1, <1>2, FlightFrame DEF HttpMoves, Deletes
<1>3. ASSUME NEW d \in Clients, TabMoves(d), c # d
      PROVE  TabInFlight(c)'
  <2>1. client'[c] = client[c] /\ \A n \in 1..MaxConnects : conn'[<<c, n>>] = conn[<<c, n>>]
    BY <1>3 DEF TabMoves, Key, Conns
  <2>2. QED
    BY <1>1, <2>1, FlightFrame
<1>4. QED
  BY <1>1, <1>2, <1>3, HubKeepsFlight, SessionKeepsFlight, TabKeepsFlight, NextMoves

(* No tab has opened a socket yet.                                          *)
LEMMA FlightStarts == Init => FlightInv
<1>1. SUFFICES ASSUME Init, NEW c \in Clients
               PROVE  TabInFlight(c)
  BY DEF FlightInv
<1>2. client[c].phase = "ticket" /\ ~client[c].awaitingAck /\ client[c].pending = NoEdit
  BY <1>1 DEF Init
<1>3. \A n \in 1..MaxConnects : Unused(<<c, n>>)
  BY <1>1 DEF Init, Conns, Unused
<1> QED
  BY <1>2, <1>3 DEF TabInFlight

(* A live tab has at most one edit on the wire, and knows it                *)
(* (OneEditInFlight), as long as no `online` event makes it reconnect: then *)
(* it may send before `init`, which resets awaitingAck.                     *)
THEOREM OneAtATime == OnlineEvents = FALSE => (Spec => []OneEditInFlight)
<1> SUFFICES ASSUME OnlineEvents = FALSE
             PROVE  Spec => []OneEditInFlight
  OBVIOUS
<1>1. Init => FlightInv
  BY FlightStarts
<1>2. IInv /\ FlightInv /\ [Next]_vars => FlightInv'
  <2>1. ASSUME IInv, FlightInv, Next
        PROVE  FlightInv'
    BY <2>1, FlightStays DEF IInv
  <2>2. ASSUME IInv, FlightInv, UNCHANGED vars
        PROVE  FlightInv'
    BY <2>2 DEF vars, FlightInv, TabInFlight, Unopened, Unused, Line
  <2>3. QED
    BY <2>1, <2>2
<1>3. IInv /\ FlightInv => OneEditInFlight
  <2>1. SUFFICES ASSUME IInv, FlightInv, NEW c \in Clients, client[c].phase = "live"
                 PROVE  Unanswered(c) <= (IF client[c].awaitingAck THEN 1 ELSE 0)
    BY DEF OneEditInFlight
  <2> DEFINE s == Line(c)
             A == {i \in DOMAIN s.inbox : s.inbox[i].type \in {"edit_ack", "rejected", "error"}}
  <2>2. s \in Socket /\ s.inbox \in Seq(Payload) /\ s.outbox \in Seq(Sent)
    BY <2>1, KeyTypes DEF IInv, Line, Key, Socket
  <2>3. DOMAIN s.inbox = 1..Len(s.inbox)
    BY <2>2, LenProperties
  <2>4. Unanswered(c) = Len(s.outbox) + (IF s.pc = "ack" THEN 1 ELSE 0) + Cardinality(A)
    BY DEF Unanswered, Line
  <2>5. NoneOf(s.inbox, Answers) => Cardinality(A) = 0
    BY <2>3, FS_EmptySet DEF NoneOf, Answers
  <2>6. OneOf(s.inbox, Answers) => Cardinality(A) \in {0, 1}
    BY <2>3, AtMostOne DEF OneOf, Answers
  <2>7. Silent(s) \/ (client[c].awaitingAck /\ OneAsked(s))
    BY <2>1 DEF FlightInv, TabInFlight
  <2> HIDE DEF A, s
  <2>8. s.outbox = <<>> => Len(s.outbox) = 0
    OBVIOUS
  <2>9. CASE Silent(s)
    BY <2>4, <2>5, <2>8, <2>9 DEF Silent
  <2>10. CASE client[c].awaitingAck /\ OneAsked(s)
    <3>1. CASE Len(s.outbox) = 1 /\ s.pc # "ack" /\ NoneOf(s.inbox, Answers)
      BY <2>4, <2>5, <2>10, <3>1
    <3>2. CASE s.outbox = <<>> /\ s.pc = "ack" /\ NoneOf(s.inbox, Answers)
      BY <2>4, <2>5, <2>8, <2>10, <3>2
    <3>3. CASE s.outbox = <<>> /\ s.pc # "ack" /\ OneOf(s.inbox, Answers)
      <4>1. Cardinality(A) <= 1 /\ Cardinality(A) \in Nat
        BY <2>6, <3>3
      <4>2. QED
        BY <2>4, <2>8, <2>10, <3>3, <4>1
    <3>4. QED
      BY <2>10, <3>1, <3>2, <3>3 DEF OneAsked
  <2>11. QED
    BY <2>7, <2>9, <2>10
<1>4. QED
  BY <1>1, <1>2, <1>3, Invariance, PTL DEF Spec

-----------------------------------------------------------------------------
(* Settled tabs.                                                            *)

(* The relayed change a tab takes is the next one for it, and a whole       *)
(* document replaces its own only while nothing local is outstanding: the   *)
(* two comparisons the hook does not make (the case 'edit' of handle).      *)
InOrder ==
  \A c \in Clients : OnRemoteContent(c) \/ OnRemoteSteps(c) =>
    /\ Message(c).version = client[c].versionRef + 1
    /\ Message(c).operation.kind = "replace" => IsSettled(c)

OrderedSpec == Init /\ [][Next /\ InOrder]_vars

(* The log shows a text at a version, says what a message says, and has the *)
(* text a batch was typed into.                                             *)
ShownIn(log, v, text) == \E r \in log : r.version = v /\ r.state = text
SaidIn(log, m) == \E r \in log : r.version = m.version /\ r.operation = m.operation
HonestIn(log, base, ids, doc) == \E r \in log : r.version = base /\ doc = r.state \o ids

(* A row follows the row before it by its operation.                        *)
Follows(log, r) ==
  r.version > 1 =>
    \E s \in log : s.version + 1 = r.version /\ r.state = Replay(r.operation, s.state)

(* The log is one row for a version, each of which replays, up to the       *)
(* document.                                                                *)
LogSound(log, doc) ==
  /\ \A r \in log : 1 <= r.version /\ r.version <= doc.version /\ Follows(log, r)
  /\ \A r, s \in log : r.version = s.version => r = s
  /\ ShownIn(log, doc.version, doc.content)

(* What is on its way is in the log.                                        *)
MessageSound(log, m) ==
  /\ m.type = "edit" => SaidIn(log, m)
  /\ m.type \in {"init", "rejected"} => ShownIn(log, m.version, m.content)
InboxSound(log, inbox) == \A i \in 1..Len(inbox) : MessageSound(log, inbox[i])
BatchSound(log, e) == HonestIn(log, e.base, e.ids, e.doc)
OutboxSound(log, outbox) == \A j \in 1..Len(outbox) : BatchSound(log, outbox[j])
SocketSound(log, s) ==
  /\ InboxSound(log, s.inbox) /\ OutboxSound(log, s.outbox)
  /\ s.pc \in {"ack", "publish"} => SaidIn(log, s.change)
QueueSound(log, queue) == \A i \in 1..Len(queue) : MessageSound(log, queue[i].payload)
HubSound(log, relays, posts) ==
  /\ \A p \in Procs : QueueSound(log, relays[p].queue)
  /\ \A h \in posts : MessageSound(log, h.payload)

(* The editor is the text of the tab's version and what was typed into it.  *)
EditorSound(log, cl) ==
  /\ cl.pending # NoEdit => cl.pending.doc = cl.editor
  /\ \E r \in log : r.version = cl.versionRef
  /\ ~cl.awaitingAck => HonestIn(log, cl.versionRef, cl.pending.ids, cl.editor)

(* What is asked will be refused, or is the editor but for what is typed    *)
(* since; what is accepted is the next version and the same.                *)
Outstanding(cl, e) ==
  e.base <= cl.versionRef /\ (e.base = cl.versionRef => cl.editor = e.doc \o cl.pending.ids)
Accepted(log, cl, v) ==
  /\ v = cl.versionRef + 1
  /\ \E r \in log : r.version = v /\ r.operation.kind = "steps" /\ cl.editor = r.state \o cl.pending.ids
LineSound(log, cl, s) ==
  /\ \A j \in 1..Len(s.outbox) : Outstanding(cl, s.outbox[j])
  /\ s.pc = "ack" => Accepted(log, cl, s.change.version)
  /\ \A i \in 1..Len(s.inbox) : s.inbox[i].type = "edit_ack" => Accepted(log, cl, s.inbox[i].version)

TabSound(log, cl, s) == cl.phase = "live" => EditorSound(log, cl) /\ LineSound(log, cl, s)

SettledInv ==
  stage = "live" =>
    /\ LogSound(changes, document)
    /\ HubSound(changes, relay, http)
    /\ \A k \in Conns : SocketSound(changes, conn[k])
    /\ \A c \in Clients : TabSound(changes, client[c], Line(c))

(* What holds of a log holds of a longer one.                               *)
LEMMA LogGrows ==
  ASSUME NEW log, NEW more, log \subseteq more
  PROVE  /\ \A v, text : ShownIn(log, v, text) => ShownIn(more, v, text)
         /\ \A m : SaidIn(log, m) => SaidIn(more, m)
         /\ \A s : SocketSound(log, s) => SocketSound(more, s)
         /\ \A relays, posts : HubSound(log, relays, posts) => HubSound(more, relays, posts)
         /\ \A cl, s : TabSound(log, cl, s) => TabSound(more, cl, s)
<1>1. /\ \A v, text : ShownIn(log, v, text) => ShownIn(more, v, text)
      /\ \A m : SaidIn(log, m) => SaidIn(more, m)
      /\ \A base, ids, doc : HonestIn(log, base, ids, doc) => HonestIn(more, base, ids, doc)
      /\ \A cl, v : Accepted(log, cl, v) => Accepted(more, cl, v)
  BY DEF ShownIn, SaidIn, HonestIn, Accepted
<1>2. \A m : MessageSound(log, m) => MessageSound(more, m)
  BY <1>1 DEF MessageSound
<1>3. \A s : SocketSound(log, s) => SocketSound(more, s)
  BY <1>1, <1>2 DEF SocketSound, InboxSound, OutboxSound, BatchSound
<1>4. \A relays, posts : HubSound(log, relays, posts) => HubSound(more, relays, posts)
  BY <1>2 DEF HubSound, QueueSound
<1>5. \A cl, s : TabSound(log, cl, s) => TabSound(more, cl, s)
  <2>1. \A cl : EditorSound(log, cl) => EditorSound(more, cl)
    BY <1>1 DEF EditorSound
  <2>2. \A cl, s : LineSound(log, cl, s) => LineSound(more, cl, s)
    BY <1>1 DEF LineSound
  <2> QED
    BY <2>1, <2>2 DEF TabSound
<1> QED
  BY <1>1, <1>3, <1>4, <1>5

(* Texts.                                                                   *)
LEMMA TextsJoin ==
  ASSUME NEW s \in Text, NEW t \in Text
  PROVE  /\ s \o <<>> = s /\ s \o t \in Text
         /\ \A e \in 1..MaxEdits : Append(s \o t, e) = s \o Append(t, e) /\ Append(t, e) \in Text
<1>1. s \o <<>> = s /\ s \o t \in Text
  BY ConcatEmptySeq, ConcatProperties DEF Text
<1>2. ASSUME NEW e \in 1..MaxEdits
      PROVE  Append(s \o t, e) = s \o Append(t, e) /\ Append(t, e) \in Text
  <2>1. Append(s \o t, e) = (s \o t) \o <<e>> /\ Append(t, e) = t \o <<e>> /\ Append(t, e) \in Text
    BY <1>1, AppendIsConcat, AppendProperties DEF Text
  <2>2. <<e>> \in Text
    BY DEF Text
  <2> QED
    BY <2>1, <2>2, ConcatAssociative DEF Text
<1> QED
  BY <1>1, <1>2

(* The first element of a sequence, the others, and one more.               *)
LEMMA QueueParts ==
  ASSUME NEW S, NEW q \in Seq(S)
  PROVE  /\ q # <<>> => /\ 1 \in 1..Len(q) /\ Head(q) = q[1] /\ Head(q) \in S
                        /\ \A i \in 1..Len(Tail(q)) : \E j \in 1..Len(q) : Tail(q)[i] = q[j]
         /\ \A m \in S : \A i \in 1..Len(Append(q, m)) :
              Append(q, m)[i] = m \/ \E j \in 1..Len(q) : Append(q, m)[i] = q[j]
<1>1. ASSUME q # <<>>
      PROVE  /\ 1 \in 1..Len(q) /\ Head(q) = q[1] /\ Head(q) \in S
             /\ \A i \in 1..Len(Tail(q)) : \E j \in 1..Len(q) : Tail(q)[i] = q[j]
  <2>1. Len(q) \in Nat \ {0} /\ Head(q) = q[1] /\ Head(q) \in S
    BY <1>1, EmptySeq, HeadTailProperties
  <2>2. Len(Tail(q)) = Len(q) - 1 /\ \A i \in 1..Len(Tail(q)) : Tail(q)[i] = q[i + 1]
    BY <1>1, HeadTailProperties
  <2>3. \A i \in 1..Len(Tail(q)) : i + 1 \in 1..Len(q)
    BY <2>1, <2>2
  <2> QED
    BY <2>1, <2>2, <2>3
<1>2. ASSUME NEW m \in S, NEW i \in 1..Len(Append(q, m))
      PROVE  Append(q, m)[i] = m \/ \E j \in 1..Len(q) : Append(q, m)[i] = q[j]
  <2>1. Len(q) \in Nat /\ Len(Append(q, m)) = Len(q) + 1
    BY LenProperties, AppendProperties
  <2>2. i = Len(q) + 1 \/ i \in 1..Len(q)
    BY <2>1
  <2> QED
    BY <2>2, AppendProperties
<1> QED
  BY <1>1, <1>2

(* A message more, and a message less.                                      *)
LEMMA InboxMoves ==
  ASSUME NEW log, NEW q \in Seq(Payload), InboxSound(log, q)
  PROVE  /\ q # <<>> => InboxSound(log, Tail(q)) /\ MessageSound(log, Head(q))
         /\ \A m \in Payload : MessageSound(log, m) => InboxSound(log, Append(q, m))
         /\ InboxSound(log, <<>>)
<1>1. q # <<>> => InboxSound(log, Tail(q)) /\ MessageSound(log, Head(q))
  BY QueueParts DEF InboxSound
<1>2. \A m \in Payload : MessageSound(log, m) => InboxSound(log, Append(q, m))
  BY QueueParts DEF InboxSound
<1> QED
  BY <1>1, <1>2 DEF InboxSound

(* A batch more, and a batch less.                                          *)
LEMMA OutboxMoves ==
  ASSUME NEW log, NEW q \in Seq(Sent), OutboxSound(log, q)
  PROVE  /\ q # <<>> => OutboxSound(log, Tail(q)) /\ BatchSound(log, Head(q))
         /\ \A e \in Sent : BatchSound(log, e) => OutboxSound(log, Append(q, e))
         /\ OutboxSound(log, <<>>)
<1>1. q # <<>> => OutboxSound(log, Tail(q)) /\ BatchSound(log, Head(q))
  BY QueueParts DEF OutboxSound
<1>2. \A e \in Sent : BatchSound(log, e) => OutboxSound(log, Append(q, e))
  BY QueueParts DEF OutboxSound
<1> QED
  BY <1>1, <1>2 DEF OutboxSound

(* An envelope more, and an envelope less.                                  *)
LEMMA QueueMoves ==
  ASSUME NEW log, NEW q \in Seq(Envelope), QueueSound(log, q)
  PROVE  /\ q # <<>> => QueueSound(log, Tail(q)) /\ MessageSound(log, Head(q).payload)
         /\ \A env \in Envelope : MessageSound(log, env.payload) => QueueSound(log, Append(q, env))
         /\ QueueSound(log, <<>>)
<1>1. q # <<>> => QueueSound(log, Tail(q)) /\ MessageSound(log, Head(q).payload)
  BY QueueParts DEF QueueSound
<1>2. \A env \in Envelope : MessageSound(log, env.payload) => QueueSound(log, Append(q, env))
  BY QueueParts DEF QueueSound
<1> QED
  BY <1>1, <1>2 DEF QueueSound

(* A line on which nothing is asked and nothing answered.                   *)
LEMMA SilentLine ==
  ASSUME NEW s, Silent(s), NEW log, NEW cl
  PROVE  LineSound(log, cl, s)
<1>1. s.outbox = <<>> /\ s.pc # "ack" /\ \A i \in 1..Len(s.inbox) : s.inbox[i].type # "edit_ack"
  BY DEF Silent, NoneOf, Answers
<1>2. Len(<<>>) = 0
  OBVIOUS
<1> QED
  BY <1>1, <1>2 DEF LineSound

(* A line on which the session takes a batch, says something, or ends.      *)
LEMMA LineMoves ==
  ASSUME NEW log, NEW cl, NEW s \in Socket, NEW t \in Socket, LineSound(log, cl, s),
         \/ t.outbox = s.outbox \/ t.outbox = <<>>
         \/ s.outbox # <<>> /\ t.outbox = Tail(s.outbox),
         t.pc = "ack" => s.pc = "ack" /\ t.change = s.change,
         \/ t.inbox = s.inbox \/ t.inbox = <<>>
         \/ s.inbox # <<>> /\ t.inbox = Tail(s.inbox)
         \/ \E m \in Payload : /\ t.inbox = Append(s.inbox, m)
                               /\ m.type = "edit_ack" => s.pc = "ack" /\ m.version = s.change.version
  PROVE  LineSound(log, cl, t)
<1>1. s.inbox \in Seq(Payload) /\ s.outbox \in Seq(Sent) /\ Len(<<>>) = 0
  BY DEF Socket
<1>2. \A j \in 1..Len(t.outbox) : Outstanding(cl, t.outbox[j])
  <2>1. CASE t.outbox = s.outbox \/ t.outbox = <<>>
    BY <1>1, <2>1 DEF LineSound
  <2>2. CASE s.outbox # <<>> /\ t.outbox = Tail(s.outbox)
    BY <1>1, <2>2, QueueParts DEF LineSound
  <2> QED
    BY <2>1, <2>2
<1>3. \A i \in 1..Len(t.inbox) : t.inbox[i].type = "edit_ack" => Accepted(log, cl, t.inbox[i].version)
  <2>1. CASE t.inbox = s.inbox \/ t.inbox = <<>>
    BY <1>1, <2>1 DEF LineSound
  <2>2. CASE s.inbox # <<>> /\ t.inbox = Tail(s.inbox)
    BY <1>1, <2>2, QueueParts DEF LineSound
  <2>3. ASSUME NEW m \in Payload, t.inbox = Append(s.inbox, m),
               m.type = "edit_ack" => s.pc = "ack" /\ m.version = s.change.version
        PROVE  \A i \in 1..Len(t.inbox) :
                 t.inbox[i].type = "edit_ack" => Accepted(log, cl, t.inbox[i].version)
    <3>1. \A i \in 1..Len(t.inbox) : t.inbox[i] = m \/ \E j \in 1..Len(s.inbox) : t.inbox[i] = s.inbox[j]
      BY <1>1, <2>3, QueueParts
    <3> QED
      BY <2>3, <3>1 DEF LineSound
  <2> QED
    BY <2>1, <2>2, <2>3
<1> QED
  BY <1>2, <1>3 DEF LineSound

(* A change that follows the document is the next row of the log.           *)
LEMMA CommitKeepsLog ==
  ASSUME NEW log, NEW doc, doc.version \in Nat, \A r \in log : r.version \in Nat,
         LogSound(log, doc), NEW row, NEW next, row.version = doc.version + 1,
         next.version = row.version, next.content = row.state,
         \E s \in log : s.version = doc.version /\ row.state = Replay(row.operation, s.state)
  PROVE  LogSound(log \cup {row}, next)
<1> DEFINE more == log \cup {row}
<1>1. \A r \in log : r.version <= doc.version /\ 1 <= r.version /\ Follows(log, r)
  BY DEF LogSound
<1>2. \A r \in more : 1 <= r.version /\ r.version <= next.version
  BY <1>1
<1>3. \A r \in more : Follows(more, r)
  <2>1. \A r \in log : Follows(more, r)
    BY <1>1 DEF Follows
  <2>2. Follows(more, row)
    BY DEF Follows
  <2> QED
    BY <2>1, <2>2
<1>4. \A r, s \in more : r.version = s.version => r = s
  <2>1. \A r \in log : r.version # row.version
    BY <1>1
  <2>2. \A r, s \in log : r.version = s.version => r = s
    BY DEF LogSound
  <2> QED
    BY <2>1, <2>2
<1>5. ShownIn(more, next.version, next.content)
  BY DEF ShownIn
<1> QED
  BY <1>2, <1>3, <1>4, <1>5 DEF LogSound

(* A tab whose line is silent and whose editor is the document of its       *)
(* version.                                                                 *)
LEMMA FreshTab ==
  ASSUME NEW log, \A r \in log : r.state \in Text, NEW cl, cl.pending = NoEdit, ~cl.awaitingAck,
         ShownIn(log, cl.versionRef, cl.editor), NEW s, Silent(s)
  PROVE  TabSound(log, cl, s)
<1>1. PICK r \in log : r.version = cl.versionRef /\ r.state = cl.editor
  BY DEF ShownIn
<1>2. r.state \o NoEdit.ids = r.state
  <2>1. NoEdit.ids = <<>>
    BY DEF NoEdit
  <2> QED
    BY <2>1, TextsJoin
<1>3. HonestIn(log, cl.versionRef, cl.pending.ids, cl.editor)
  BY <1>1, <1>2 DEF HonestIn
<1>4. EditorSound(log, cl)
  BY <1>1, <1>3 DEF EditorSound
<1> QED
  BY <1>4, SilentLine DEF TabSound

(* flush() leaves a tab as it was, or sends what its editor is.             *)
LEMMA FlushKeepsSound ==
  ASSUME NEW log, \A r \in log : r.state \in Text, NEW cl \in Tab,
         NEW s \in Socket, NEW t \in Socket,
         cl.phase = "live", EditorSound(log, cl), LineSound(log, cl, s),
         ~cl.awaitingAck => Silent(s),
         OutboxSound(log, s.outbox),
         t.pc = s.pc, t.inbox = s.inbox, t.change = s.change, t.outbox = s.outbox \o Outgoing(cl)
  PROVE  TabSound(log, Flushed(cl), t) /\ OutboxSound(log, t.outbox)
<1>0. s.outbox \in Seq(Sent) /\ cl.editor \in Text /\ NoEdit.ids = <<>>
  BY DEF Socket, Tab, NoEdit
<1>1. CASE MayFlush(cl)
  <2> DEFINE e == [base |-> cl.versionRef, ids |-> cl.pending.ids, doc |-> cl.pending.doc]
             fl == Flushed(cl)
  <2>1. ~cl.awaitingAck /\ cl.pending # NoEdit /\ cl.pending.doc = cl.editor
    BY <1>1 DEF MayFlush, EditorSound
  <2>2. HonestIn(log, cl.versionRef, cl.pending.ids, cl.editor)
    BY <2>1 DEF EditorSound
  <2>3. BatchSound(log, e)
    BY <2>1, <2>2 DEF BatchSound
  <2>4. e \in Sent /\ Outgoing(cl) = <<e>>
    BY <1>1 DEF Outgoing, Tab, Sent
  <2>5. /\ fl.pending = NoEdit /\ fl.awaitingAck /\ fl.editor = cl.editor
        /\ fl.versionRef = cl.versionRef
    BY <1>1 DEF Flushed, Tab
  <2>6. s.outbox = <<>> /\ Silent(s)
    BY <2>1 DEF Silent
  <2>7. t.outbox = <<e>>
    BY <2>4, <2>6
  <2>8. Outstanding(fl, e)
    <3>1. e.base = cl.versionRef /\ e.doc = cl.editor /\ cl.versionRef \in Nat
      BY <2>1, LiveAssumption DEF Tab, Version
    <3>2. cl.editor = cl.editor \o <<>>
      BY <1>0, TextsJoin
    <3> HIDE DEF e, fl
    <3>3. e.base <= fl.versionRef
      BY <2>5, <3>1
    <3>4. fl.pending.ids = <<>>
      BY <1>0, <2>5
    <3>5. fl.editor = e.doc \o fl.pending.ids
      BY <2>5, <3>1, <3>2, <3>4
    <3> QED
      BY <3>3, <3>5 DEF Outstanding
  <2> HIDE DEF e, fl
  <2>9. LineSound(log, fl, t)
    <3>1. Len(t.outbox) = 1 /\ t.outbox[1] = e
      BY <2>7
    <3>2. t.pc # "ack" /\ \A i \in 1..Len(t.inbox) : t.inbox[i].type # "edit_ack"
      BY <2>6 DEF Silent, NoneOf, Answers
    <3> QED
      BY <2>8, <3>1, <3>2 DEF LineSound
  <2>10. EditorSound(log, fl)
    BY <2>5 DEF EditorSound
  <2>11. OutboxSound(log, t.outbox)
    <3>1. Len(t.outbox) = 1 /\ t.outbox[1] = e
      BY <2>7
    <3> QED
      BY <2>3, <3>1 DEF OutboxSound
  <2> QED
    BY <2>9, <2>10, <2>11 DEF TabSound, fl
<1>2. CASE ~MayFlush(cl)
  <2>1. t.outbox = s.outbox
    BY <1>0, <1>2, ConcatEmptySeq DEF Outgoing
  <2>2. /\ Flushed(cl).pending = cl.pending /\ Flushed(cl).awaitingAck = cl.awaitingAck
        /\ Flushed(cl).editor = cl.editor /\ Flushed(cl).versionRef = cl.versionRef
    BY <1>2 DEF Flushed, Tab
  <2>3. EditorSound(log, Flushed(cl)) /\ LineSound(log, Flushed(cl), t)
    BY <2>1, <2>2 DEF EditorSound, LineSound, Outstanding, Accepted
  <2> QED
    BY <2>1, <2>3 DEF TabSound
<1> QED
  BY <1>1, <1>2

(* A keystroke is behind what is pending, and behind what is asked.         *)
LEMMA TypeKeepsSound ==
  ASSUME NEW log, \A r \in log : r.state \in Text, NEW cl \in Tab, NEW s \in Socket,
         EditorSound(log, cl), LineSound(log, cl, s), NEW e \in 1..MaxEdits, NEW dl,
         dl.editor = Append(cl.editor, e), dl.versionRef = cl.versionRef,
         dl.awaitingAck = cl.awaitingAck,
         dl.pending = [ids |-> Append(cl.pending.ids, e), doc |-> Append(cl.editor, e)]
  PROVE  TabSound(log, dl, s)
<1>0. cl.editor \in Text /\ cl.pending.ids \in Text /\ s.outbox \in Seq(Sent)
  BY DEF Tab, Socket
<1>1. \A x \in Text : cl.editor = x \o cl.pending.ids => dl.editor = x \o dl.pending.ids
  <2>1. SUFFICES ASSUME NEW x \in Text, cl.editor = x \o cl.pending.ids
                 PROVE  dl.editor = x \o dl.pending.ids
    OBVIOUS
  <2>2. Append(x \o cl.pending.ids, e) = x \o Append(cl.pending.ids, e)
    <3>1. \A t \in Text : Append(x \o t, e) = x \o Append(t, e)
      BY TextsJoin
    <3> QED
      BY <1>0, <3>1
  <2>3. dl.pending.ids = Append(cl.pending.ids, e)
    OBVIOUS
  <2> QED
    BY <2>1, <2>2, <2>3
<1>2. EditorSound(log, dl)
  <2>1. HonestIn(log, cl.versionRef, cl.pending.ids, cl.editor)
          => HonestIn(log, dl.versionRef, dl.pending.ids, dl.editor)
    BY <1>1 DEF HonestIn
  <2> QED
    BY <2>1 DEF EditorSound
<1>3. LineSound(log, dl, s)
  <2>1. \A j \in 1..Len(s.outbox) : Outstanding(dl, s.outbox[j])
    <3>1. SUFFICES ASSUME NEW j \in 1..Len(s.outbox), Outstanding(cl, s.outbox[j])
                   PROVE  Outstanding(dl, s.outbox[j])
      BY DEF LineSound
    <3>2. s.outbox[j] \in Sent
      BY <1>0, ElementOfSeq
    <3>3. s.outbox[j].doc \in Text
      BY <3>2 DEF Sent
    <3> QED
      BY <1>1, <3>1, <3>3 DEF Outstanding
  <2>2. \A v : Accepted(log, cl, v) => Accepted(log, dl, v)
    BY <1>1 DEF Accepted
  <2> QED
    BY <2>1, <2>2 DEF LineSound
<1> QED
  BY <1>2, <1>3 DEF TabSound

(* A relayed change that is the next makes of the editor what it made of    *)
(* the document; a title makes nothing, and what was asked will be refused. *)
LEMMA RemoteKeepsSound ==
  ASSUME NEW log, NEW doc, LogSound(log, doc), NEW cl \in Tab, NEW s \in Socket, NEW t \in Socket,
         \A r \in log : r.state \in Text /\ r.version \in Nat /\ r.operation \in Operation,
         cl.phase = "live", EditorSound(log, cl), LineSound(log, cl, s),
         ~cl.awaitingAck => Silent(t), NEW m, SaidIn(log, m), m.version = cl.versionRef + 1,
         m.operation.kind # "title" => cl.pending = NoEdit /\ ~cl.awaitingAck,
         s.inbox # <<>>, t.inbox = Tail(s.inbox), t.outbox = s.outbox, t.pc = s.pc,
         t.change = s.change,
         NEW dl, dl.versionRef = m.version, dl.editor = Replay(m.operation, cl.editor),
         dl.pending = cl.pending, dl.awaitingAck = cl.awaitingAck
  PROVE  TabSound(log, dl, t)
<1>0. /\ cl.editor \in Text /\ cl.pending.ids \in Text /\ cl.versionRef \in Nat
      /\ s.outbox \in Seq(Sent) /\ NoEdit.ids = <<>>
  BY LiveAssumption DEF Tab, Socket, Version, NoEdit
<1>1. PICK r \in log : r.version = m.version /\ r.operation = m.operation
  BY DEF SaidIn
<1>2. PICK q \in log : q.version = cl.versionRef
  BY DEF EditorSound
<1>3. r.state = Replay(m.operation, q.state)
  <2>1. 1 <= q.version
    BY DEF LogSound
  <2>2. r.version > 1
    BY <1>0, <1>1, <1>2, <2>1
  <2>3. PICK p \in log : p.version + 1 = r.version /\ r.state = Replay(r.operation, p.state)
    BY <2>2 DEF LogSound, Follows
  <2>4. p.version = q.version
    BY <1>0, <1>1, <1>2, <2>3
  <2>5. p = q
    BY <2>4 DEF LogSound
  <2> QED
    BY <1>1, <2>3, <2>5
<1>4. ~cl.awaitingAck => q.state \in Text /\ cl.editor = q.state \o cl.pending.ids
  <2>1. SUFFICES ASSUME ~cl.awaitingAck
                 PROVE  q.state \in Text /\ cl.editor = q.state \o cl.pending.ids
    OBVIOUS
  <2>2. PICK p \in log : p.version = cl.versionRef /\ cl.editor = p.state \o cl.pending.ids
    BY <2>1 DEF EditorSound, HonestIn
  <2>3. p = q
    BY <1>2, <2>2 DEF LogSound
  <2> QED
    BY <2>2, <2>3
<1>5. CASE m.operation.kind # "title"
  <2>1. cl.editor = q.state
    <3>1. q.state \in Text /\ cl.editor = q.state \o cl.pending.ids /\ cl.pending.ids = <<>>
      BY <1>0, <1>4, <1>5
    <3>2. q.state \o <<>> = q.state
      BY <3>1, TextsJoin
    <3> QED
      BY <3>1, <3>2
  <2>2. dl.editor = r.state
    BY <1>3, <2>1
  <2> QED
    BY <1>1, <1>5, <2>2, FreshTab DEF ShownIn
<1>6. CASE m.operation.kind = "title"
  <2>1. dl.editor = cl.editor /\ r.state = q.state
    BY <1>3, <1>6 DEF Replay
  <2>2. EditorSound(log, dl)
    <3>1. ~cl.awaitingAck => HonestIn(log, dl.versionRef, dl.pending.ids, dl.editor)
      BY <1>1, <1>4, <2>1 DEF HonestIn
    <3> QED
      BY <1>1, <2>1, <3>1 DEF EditorSound
  <2>3. CASE ~cl.awaitingAck
    BY <2>2, <2>3, SilentLine DEF TabSound
  <2>4. CASE cl.awaitingAck
    <3>1. \A v : ~Accepted(log, cl, v)
      <4>1. SUFFICES ASSUME NEW v, Accepted(log, cl, v)
                     PROVE  FALSE
        OBVIOUS
      <4>2. PICK p \in log : p.version = v /\ p.operation.kind = "steps"
        BY <4>1 DEF Accepted
      <4>3. p.version = r.version
        BY <1>1, <4>1, <4>2 DEF Accepted
      <4>4. p = r
        BY <4>3 DEF LogSound
      <4> QED
        BY <1>1, <1>6, <4>2, <4>4
    <3>2. LineSound(log, cl, t)
      BY LineMoves
    <3>3. t.pc # "ack" /\ \A i \in 1..Len(t.inbox) : t.inbox[i].type # "edit_ack"
      BY <3>1, <3>2 DEF LineSound
    <3>4. \A j \in 1..Len(t.outbox) : Outstanding(dl, t.outbox[j])
      <4>1. SUFFICES ASSUME NEW j \in 1..Len(s.outbox), Outstanding(cl, s.outbox[j])
                     PROVE  Outstanding(dl, s.outbox[j])
        BY DEF LineSound
      <4>2. s.outbox[j].base \in Nat
        <5>1. s.outbox[j] \in Sent
          BY <1>0, ElementOfSeq
        <5> QED
          BY <5>1, LiveAssumption DEF Sent, Version
      <4>3. s.outbox[j].base <= dl.versionRef /\ s.outbox[j].base # dl.versionRef
        BY <1>0, <4>1, <4>2 DEF Outstanding
      <4> QED
        BY <4>3 DEF Outstanding
    <3>5. LineSound(log, dl, t)
      BY <3>3, <3>4 DEF LineSound
    <3> QED
      BY <2>2, <3>5 DEF TabSound
  <2> QED
    BY <2>3, <2>4
<1> QED
  BY <1>5, <1>6


(* What a session and the hub do to a socket without a commit: batches are  *)
(* taken, a change stays what it was, and what is said is in the log.       *)
Talk(s, t) ==
  /\ t.outbox = s.outbox \/ t.outbox = <<>> \/ (s.outbox # <<>> /\ t.outbox = Tail(s.outbox))
  /\ t.pc \in {"ack", "publish"} => s.pc \in {"ack", "publish"} /\ t.change = s.change
  /\ t.pc = "ack" => s.pc = "ack"
  /\ \/ t.inbox = s.inbox \/ t.inbox = <<>>
     \/ \E m \in Payload : /\ t.inbox = Append(s.inbox, m) /\ MessageSound(changes, m)
                           /\ m.type = "edit_ack" => s.pc = "ack" /\ m.version = s.change.version

(* What the types say of a row, a socket, a queue and what handlers hold.   *)
LEMMA SoundTypes ==
  ASSUME TypeInv
  PROVE  /\ document.version \in Nat /\ document.content \in Text
         /\ \A r \in changes : /\ r.version \in Nat /\ r.state \in Text
                               /\ r.operation \in Operation
         /\ \A k \in Conns : conn[k] \in Socket /\ (conn[k].pc \in {"ack", "publish"}
                                                     => conn[k].change \in EditMsg)
         /\ \A p \in Procs : relay[p] \in Relay
         /\ \A h \in http : h.payload \in Shared
         /\ \A c \in Clients : Line(c) = conn[Key(c)] /\ Key(c) \in Conns /\ client[c] \in Tab
<1>1. document.version \in Nat /\ document.content \in Text
  BY LiveAssumption DEF TypeInv, DocTypes, Version
<1>2. \A r \in changes : r.version \in Nat /\ r.state \in Text /\ r.operation \in Operation
  BY LiveAssumption DEF TypeInv, DocTypes, Version
<1>3. \A k \in Conns : conn[k] \in Socket /\ (conn[k].pc \in {"ack", "publish"}
                                               => conn[k].change \in EditMsg)
  BY DEF TypeInv, ConnTypes
<1>4. (\A p \in Procs : relay[p] \in Relay) /\ \A h \in http : h.payload \in Shared
  BY DEF TypeInv, HubTypes
<1>5. \A c \in Clients : Line(c) = conn[Key(c)] /\ Key(c) \in Conns /\ client[c] \in Tab
  BY KeyTypes DEF Line, Key
<1> QED
  BY <1>1, <1>2, <1>3, <1>4, <1>5

(* Talk keeps what is on its way sound, and every tab.                      *)
LEMMA TalkKeepsSound ==
  ASSUME TypeInv, SettledInv, conn' \in [Conns -> Socket], UNCHANGED client, StoreSame,
         \A k \in Conns : Talk(conn[k], conn'[k]),
         stage = "live" => HubSound(changes, relay', http')
  PROVE  SettledInv'
<1>1. SUFFICES ASSUME stage = "live"
               PROVE  /\ LogSound(changes, document) /\ HubSound(changes, relay', http')
                      /\ \A k \in Conns : SocketSound(changes, conn'[k])
                      /\ \A c \in Clients : TabSound(changes, client[c], conn'[Key(c)])
  BY DEF SettledInv, StoreSame, Line, Key
<1>2. ASSUME NEW k \in Conns
      PROVE  SocketSound(changes, conn'[k])
  <2> DEFINE s == conn[k]
             t == conn'[k]
  <2>1. SocketSound(changes, s) /\ Talk(s, t) /\ s.inbox \in Seq(Payload) /\ s.outbox \in Seq(Sent)
    BY <1>1, SoundTypes DEF SettledInv, Socket
  <2> HIDE DEF s, t
  <2>2. InboxSound(changes, t.inbox)
    BY <2>1, InboxMoves DEF SocketSound, Talk
  <2>3. OutboxSound(changes, t.outbox)
    BY <2>1, OutboxMoves DEF SocketSound, Talk
  <2>4. t.pc \in {"ack", "publish"} => SaidIn(changes, t.change)
    BY <2>1 DEF SocketSound, Talk
  <2> QED
    BY <2>2, <2>3, <2>4 DEF SocketSound, t
<1>3. ASSUME NEW c \in Clients
      PROVE  TabSound(changes, client[c], conn'[Key(c)])
  <2> DEFINE s == conn[Key(c)]
             t == conn'[Key(c)]
  <2>1. s \in Socket /\ t \in Socket /\ Talk(s, t) /\ TabSound(changes, client[c], s)
    BY <1>1, SoundTypes DEF SettledInv
  <2> HIDE DEF s, t
  <2>2. ASSUME LineSound(changes, client[c], s)
        PROVE  LineSound(changes, client[c], t)
    <3>1. /\ t.outbox = s.outbox \/ t.outbox = <<>> \/ (s.outbox # <<>> /\ t.outbox = Tail(s.outbox))
          /\ t.pc = "ack" => s.pc = "ack" /\ t.change = s.change
          /\ \/ t.inbox = s.inbox \/ t.inbox = <<>>
             \/ \E m \in Payload : /\ t.inbox = Append(s.inbox, m)
                                   /\ m.type = "edit_ack" => s.pc = "ack" /\ m.version = s.change.version
      BY <2>1 DEF Talk
    <3> QED
      BY <2>1, <2>2, <3>1, LineMoves
  <2> QED
    BY <2>1, <2>2 DEF TabSound, t
<1> QED
  BY <1>1, <1>2, <1>3 DEF SettledInv

(* A session that says m and commits nothing talks.                         *)
LEMMA PushIsTalk ==
  ASSUME TypeInv, NEW k \in Conns, NEW cs \in [Conns -> Socket], NEW m \in Payload,
         conn' = Pushed(cs, k, m), \A j \in Conns : j # k => cs[j] = conn[j],
         cs[k].inbox = conn[k].inbox,
         cs[k].outbox = conn[k].outbox \/ (conn[k].outbox # <<>> /\ cs[k].outbox = Tail(conn[k].outbox)),
         cs[k].pc # "ack",
         cs[k].pc = "publish" => conn[k].pc = "ack" /\ cs[k].change = conn[k].change,
         MessageSound(changes, m),
         m.type = "edit_ack" => conn[k].pc = "ack" /\ m.version = conn[k].change.version
  PROVE  conn' \in [Conns -> Socket] /\ \A j \in Conns : Talk(conn[j], conn'[j])
<1>1. /\ conn' \in [Conns -> Socket]
      /\ \A j \in Conns : j # k => conn'[j] = conn[j]
      /\ conn'[k].pc = cs[k].pc /\ conn'[k].outbox = cs[k].outbox /\ conn'[k].change = cs[k].change
      /\ conn'[k].inbox = conn[k].inbox \/ conn'[k].inbox = Append(conn[k].inbox, m)
  BY PushedIs
<1>2. \A j \in Conns : j # k => Talk(conn[j], conn'[j])
  BY <1>1 DEF Talk
<1>3. Talk(conn[k], conn'[k])
  BY <1>1 DEF Talk
<1> QED
  BY <1>1, <1>2, <1>3

(* Every step of a session but a commit and its publish is talk.            *)
LEMMA SessionTalks ==
  ASSUME TypeInv, SettledInv, stage = "live", NEW k \in Conns,
         \/ SendInit(k) \/ Join(k) \/ SendAck(k) \/ SessionEnds(k)
         \/ HandleEdit(k) /\ ~AcceptEdit(k)
  PROVE  /\ conn' \in [Conns -> Socket] /\ \A j \in Conns : Talk(conn[j], conn'[j])
         /\ StoreSame /\ UNCHANGED <<relay, http, client>>
<1> DEFINE Goal == /\ conn' \in [Conns -> Socket] /\ \A j \in Conns : Talk(conn[j], conn'[j])
                   /\ StoreSame /\ UNCHANGED <<relay, http, client>>
<1>0. /\ conn \in [Conns -> Socket] /\ conn[k] \in Socket
      /\ document.version \in Version /\ document.content \in Text
      /\ ShownIn(changes, document.version, document.content)
  BY DEF TypeInv, ConnTypes, DocTypes, SettledInv, LogSound
<1>1. ASSUME NEW pc \in PCs
      PROVE  LET cs == [conn EXCEPT ![k].pc = pc] IN
             /\ cs \in [Conns -> Socket] /\ \A j \in Conns : j # k => cs[j] = conn[j]
             /\ cs[k].pc = pc /\ cs[k].inbox = conn[k].inbox /\ cs[k].outbox = conn[k].outbox
             /\ cs[k].change = conn[k].change
  BY <1>0 DEF Socket
<1>2. \A m : m.type \in {"error", "close"} => MessageSound(changes, m) /\ m.type # "edit_ack"
  BY DEF MessageSound
<1>3. CASE SendInit(k)
  <2> DEFINE cs == [conn EXCEPT ![k].pc = "join"]
             m == [type |-> "init", version |-> document.version, content |-> document.content]
  <2>1. m \in Payload /\ m.type = "init" /\ MessageSound(changes, m)
    BY <1>0 DEF Payload, Answer, MessageSound
  <2>2. /\ cs \in [Conns -> Socket] /\ \A j \in Conns : j # k => cs[j] = conn[j]
        /\ cs[k].pc = "join" /\ cs[k].inbox = conn[k].inbox /\ cs[k].outbox = conn[k].outbox
    BY <1>1 DEF PCs
  <2>3. conn' = Pushed(cs, k, m) /\ StoreSame /\ UNCHANGED <<relay, http, client>>
    BY <1>3 DEF SendInit, StoreSame
  <2> HIDE DEF cs, m
  <2> QED
    BY <2>1, <2>2, <2>3, PushIsTalk
<1>4. CASE Join(k)
  <2>1. /\ conn' \in [Conns -> Socket] /\ \A j \in Conns : j # k => conn'[j] = conn[j]
        /\ conn'[k].pc = "loop" /\ conn'[k].inbox = conn[k].inbox /\ conn'[k].outbox = conn[k].outbox
    BY <1>1, <1>4 DEF Join, PCs
  <2>2. \A j \in Conns : Talk(conn[j], conn'[j])
    BY <2>1 DEF Talk
  <2> QED
    BY <1>4, <2>1, <2>2 DEF Join, StoreSame
<1>5. CASE SendAck(k)
  <2> DEFINE cs == [conn EXCEPT ![k].pc = "publish"]
             m == [type |-> "edit_ack", version |-> conn[k].change.version]
  <2>1. conn[k].pc = "ack" /\ conn[k].change \in EditMsg
    BY <1>5, SoundTypes DEF SendAck
  <2>2. /\ m \in Payload /\ m.type = "edit_ack" /\ m.version = conn[k].change.version
        /\ MessageSound(changes, m)
    BY <2>1 DEF Payload, Answer, EditMsg, MessageSound
  <2>3. /\ cs \in [Conns -> Socket] /\ \A j \in Conns : j # k => cs[j] = conn[j]
        /\ cs[k].pc = "publish" /\ cs[k].inbox = conn[k].inbox /\ cs[k].outbox = conn[k].outbox
        /\ cs[k].change = conn[k].change
    BY <1>1 DEF PCs
  <2>4. conn' = Pushed(cs, k, m) /\ StoreSame /\ UNCHANGED <<relay, http, client>>
    BY <1>5 DEF SendAck, StoreSame
  <2> HIDE DEF cs, m
  <2> QED
    BY <2>1, <2>2, <2>3, <2>4, PushIsTalk
<1>6. CASE SessionEnds(k)
  <2> DEFINE q == [pc |-> "closed", inbox |-> <<>>, outbox |-> <<>>, change |-> NoChange]
  <2>1. q \in Socket
    BY DEF Socket, PCs
  <2>2. conn' = [conn EXCEPT ![k] = q]
    BY <1>6 DEF SessionEnds, NoChange
  <2>3. /\ conn' \in [Conns -> Socket] /\ \A j \in Conns : j # k => conn'[j] = conn[j]
        /\ conn'[k].pc = "closed" /\ conn'[k].inbox = <<>> /\ conn'[k].outbox = <<>>
    BY <1>0, <2>1, <2>2
  <2>4. \A j \in Conns : Talk(conn[j], conn'[j])
    BY <2>3 DEF Talk
  <2> QED
    BY <1>6, <2>3, <2>4 DEF SessionEnds, StoreSame
<1>7. CASE HandleEdit(k) /\ ~AcceptEdit(k)
  <2>1. /\ conn[k].pc = "loop" /\ conn[k].outbox # <<>> /\ UNCHANGED <<relay, http, client>>
        /\ Tail(conn[k].outbox) \in Seq(Sent)
    BY <1>7, HeadBatch DEF HandleEdit
  <2>2. /\ Taken(k) \in [Conns -> Socket] /\ \A j \in Conns : j # k => Taken(k)[j] = conn[j]
        /\ Taken(k)[k].pc = "loop" /\ Taken(k)[k].inbox = conn[k].inbox
        /\ Taken(k)[k].outbox = Tail(conn[k].outbox)
    BY <1>0, <2>1 DEF Taken, Socket
  <2>3. LET cs == [Taken(k) EXCEPT ![k].pc = "closed"] IN
        /\ cs \in [Conns -> Socket] /\ \A j \in Conns : j # k => cs[j] = conn[j]
        /\ cs[k].pc = "closed" /\ cs[k].inbox = conn[k].inbox /\ cs[k].outbox = Tail(conn[k].outbox)
    <3>1. Taken(k)[k] \in Socket
      BY <2>2
    <3>2. [Taken(k)[k] EXCEPT !.pc = "closed"] \in Socket
      BY <3>1 DEF Socket, PCs
    <3> QED
      BY <2>2, <3>1, <3>2 DEF Socket
  <2>4. CASE RefuseEdit(k) \/ RejectEdit(k)
    <3>1. PICK m \in Payload : /\ m.type \in {"error", "rejected"} /\ MessageSound(changes, m)
                               /\ conn' = Pushed(Taken(k), k, m)
      <4> DEFINE e == [type |-> "error"]
                 j == [type |-> "rejected", version |-> document.version,
                       content |-> document.content]
      <4>1. e \in Payload /\ e.type = "error" /\ MessageSound(changes, e)
        BY DEF Payload, Answer, MessageSound
      <4>2. j \in Payload /\ j.type = "rejected" /\ MessageSound(changes, j)
        BY <1>0 DEF Payload, Answer, MessageSound
      <4>3. conn' = Pushed(Taken(k), k, e) \/ conn' = Pushed(Taken(k), k, j)
        BY <2>4 DEF RefuseEdit, RejectEdit
      <4> HIDE DEF e, j
      <4> QED
        BY <4>1, <4>2, <4>3
    <3>2. StoreSame
      BY <2>4 DEF RefuseEdit, RejectEdit, StoreSame
    <3> QED
      BY <2>1, <2>2, <3>1, <3>2, PushIsTalk
  <2>5. CASE ThrottleEdit(k) \/ EditNotFound(k)
    <3> DEFINE m == [type |-> "close"]
               cs == [Taken(k) EXCEPT ![k].pc = "closed"]
    <3>1. m \in Payload /\ m.type = "close" /\ MessageSound(changes, m)
      BY DEF Payload, Answer, MessageSound
    <3>2. conn' = Pushed(cs, k, m) /\ StoreSame
      BY <2>5 DEF ThrottleEdit, EditNotFound, StoreSame
    <3>3. /\ cs \in [Conns -> Socket] /\ \A j \in Conns : j # k => cs[j] = conn[j]
          /\ cs[k].pc = "closed" /\ cs[k].inbox = conn[k].inbox /\ cs[k].outbox = Tail(conn[k].outbox)
      BY <2>3
    <3> HIDE DEF cs, m
    <3> QED
      BY <2>1, <3>1, <3>2, <3>3, PushIsTalk
  <2> QED
    BY <1>7, <2>4, <2>5 DEF HandleEdit
<1> QED
  BY <1>3, <1>4, <1>5, <1>6, <1>7

(* A batch is committed on the text it was typed into, which is the         *)
(* document's; the tab that sent it, if it still listens, has that text.    *)
LEMMA AcceptKeepsSound ==
  ASSUME TypeInv, SettledInv, stage = "live", NEW k \in Conns, HandleEdit(k), AcceptEdit(k)
  PROVE  SettledInv'
<1> DEFINE edit == Head(conn[k].outbox)
           row == [base |-> edit.base, version |-> document.version + 1,
                   operation |-> StepsOp(edit.ids), state |-> edit.doc]
           m == [type |-> "edit", version |-> document.version + 1, operation |-> StepsOp(edit.ids)]
           s == conn[k]
           t == conn'[k]
<1>1. /\ edit \in Sent /\ s.outbox # <<>> /\ Tail(s.outbox) \in Seq(Sent) /\ s \in Socket
      /\ StepsOp(edit.ids) \in Operation
  BY SoundTypes, HeadBatch DEF HandleEdit
<1>2. /\ edit.base = document.version
      /\ document' = [version |-> document.version + 1, content |-> edit.doc]
      /\ changes' = changes \cup {row} /\ stage' = "live"
      /\ conn' = [Taken(k) EXCEPT ![k].pc = "ack", ![k].change = m]
      /\ UNCHANGED <<relay, http, client>>
  BY DEF HandleEdit, AcceptEdit, Commit
<1>3. /\ t.pc = "ack" /\ t.inbox = s.inbox /\ t.outbox = Tail(s.outbox) /\ t.change = m
      /\ \A j \in Conns : j # k => conn'[j] = conn[j]
  <2>1. conn \in [Conns -> Socket]
    BY DEF TypeInv, ConnTypes
  <2>2. Taken(k) = [conn EXCEPT ![k] = [conn[k] EXCEPT !.outbox = Tail(conn[k].outbox)]]
    BY DEF Taken
  <2> DEFINE u == [conn[k] EXCEPT !.outbox = Tail(conn[k].outbox)]
  <2>3. u \in Socket /\ u.inbox = s.inbox /\ u.outbox = Tail(s.outbox)
    BY <1>1, <2>1 DEF Socket
  <2> HIDE DEF u, m
  <2>4. conn' = [conn EXCEPT ![k] = [u EXCEPT !.pc = "ack", !.change = m]]
    BY <1>2, <2>1, <2>2, <2>3 DEF u
  <2> QED
    BY <2>1, <2>3, <2>4 DEF Socket
<1>4. /\ row.version = document.version + 1 /\ row.state = edit.doc
      /\ row.operation = StepsOp(edit.ids) /\ row.operation.kind = "steps"
      /\ m.type = "edit" /\ m.version = row.version /\ m.operation = row.operation
      /\ document'.version = row.version /\ document'.content = row.state
  BY <1>2 DEF StepsOp
<1>5. /\ LogSound(changes, document) /\ HubSound(changes, relay, http)
      /\ \A j \in Conns : SocketSound(changes, conn[j])
      /\ \A c \in Clients : TabSound(changes, client[c], conn[Key(c)])
  BY SoundTypes DEF SettledInv
<1>6. BatchSound(changes, edit)
  <2>1. OutboxSound(changes, s.outbox) /\ s.outbox \in Seq(Sent)
    BY <1>1, <1>5 DEF SocketSound, Socket
  <2> QED
    BY <1>1, <2>1, OutboxMoves
<1>7. \E r \in changes : r.version = document.version /\ row.state = Replay(row.operation, r.state)
  BY <1>2, <1>4, <1>6 DEF BatchSound, HonestIn, Replay, StepsOp
<1> HIDE DEF row, m
<1>8. LogSound(changes', document')
  BY <1>2, <1>4, <1>5, <1>7, SoundTypes, CommitKeepsLog
<1>9. /\ changes \subseteq changes' /\ row \in changes'
      /\ SaidIn(changes', m) /\ MessageSound(changes', m)
  BY <1>2, <1>4 DEF SaidIn, MessageSound
<1>10. /\ HubSound(changes', relay, http)
       /\ \A j \in Conns : SocketSound(changes', conn[j])
       /\ \A c \in Clients : TabSound(changes', client[c], conn[Key(c)])
  BY <1>5, <1>9, LogGrows
<1>11. SocketSound(changes', t)
  <2>1. SocketSound(changes', s) /\ s.outbox \in Seq(Sent) /\ s.outbox # <<>>
    BY <1>1, <1>10 DEF Socket
  <2> HIDE DEF s, t
  <2>2. OutboxSound(changes', Tail(s.outbox)) /\ InboxSound(changes', s.inbox)
    BY <2>1, OutboxMoves DEF SocketSound
  <2> QED
    BY <1>3, <1>9, <2>2 DEF SocketSound
<1>12. ASSUME NEW c \in Clients, Key(c) = k
       PROVE  TabSound(changes', client[c], t)
  <2> DEFINE cl == client[c]
  <2>1. SUFFICES ASSUME cl.phase = "live"
                 PROVE  EditorSound(changes', cl) /\ LineSound(changes', cl, t)
    BY DEF TabSound
  <2>2. /\ EditorSound(changes', cl) /\ LineSound(changes', cl, s)
        /\ EditorSound(changes, cl) /\ LineSound(changes, cl, s)
    BY <1>5, <1>10, <1>12, <2>1 DEF TabSound
  <2>3. Outstanding(cl, edit)
    <3>1. edit = s.outbox[1] /\ 1 \in 1..Len(s.outbox)
      BY <1>1, QueueParts DEF Socket
    <3> QED
      BY <2>2, <3>1 DEF LineSound
  <2>4. cl.versionRef = document.version
    <3>1. PICK r \in changes : r.version = cl.versionRef
      BY <2>2 DEF EditorSound
    <3>2. r.version <= document.version
      BY <1>5, <3>1 DEF LogSound
    <3>3. document.version <= cl.versionRef
      BY <1>2, <2>3 DEF Outstanding
    <3> QED
      BY <3>1, <3>2, <3>3, SoundTypes
  <2>5. Accepted(changes', cl, m.version)
    <3>1. cl.editor = row.state \o cl.pending.ids
      BY <1>2, <1>4, <2>3, <2>4 DEF Outstanding
    <3> QED
      BY <1>4, <1>9, <2>4, <3>1 DEF Accepted
  <2>6. \A j \in 1..Len(t.outbox) : Outstanding(cl, t.outbox[j])
    <3>1. \A j \in 1..Len(Tail(s.outbox)) : \E i \in 1..Len(s.outbox) : Tail(s.outbox)[j] = s.outbox[i]
      BY <1>1, QueueParts DEF Socket
    <3> QED
      BY <1>3, <2>2, <3>1 DEF LineSound
  <2> HIDE DEF cl, s, t
  <2> QED
    BY <1>3, <2>2, <2>5, <2>6 DEF LineSound
<1>13. \A c \in Clients : TabSound(changes', client[c], conn'[Key(c)])
  BY <1>3, <1>10, <1>12, SoundTypes
<1>14. \A j \in Conns : SocketSound(changes', conn'[j])
  BY <1>3, <1>10, <1>11
<1> QED
  BY <1>2, <1>8, <1>10, <1>13, <1>14 DEF SettledInv, Line, Key

(* What is published is in the log, and goes to the queues or to the        *)
(* sockets as it is.                                                        *)
LEMMA PublishTalks ==
  ASSUME TypeInv, SettledInv, stage = "live", NEW cs \in [Conns -> Socket], NEW p, NEW env \in Envelope,
         Publish(cs, p, env), MessageSound(changes, env.payload),
         \A j \in Conns : Talk(conn[j], cs[j]) /\ cs[j].inbox = conn[j].inbox
  PROVE  /\ conn' \in [Conns -> Socket] /\ \A j \in Conns : Talk(conn[j], conn'[j])
         /\ \A r \in Procs : QueueSound(changes, relay'[r].queue)
<1>1. /\ \A r \in Procs : QueueSound(changes, relay[r].queue) /\ relay[r].queue \in Seq(Envelope)
      /\ relay \in [Procs -> Relay]
  BY DEF SettledInv, HubSound, TypeInv, HubTypes, Relay
<1>2. CASE /\ relay' = [r \in Procs |-> IF relay[r].up
                                        THEN [relay[r] EXCEPT !.queue = Append(@, env)]
                                        ELSE relay[r]]
           /\ conn' = cs
  <2>1. ASSUME NEW r \in Procs
        PROVE  QueueSound(changes, relay'[r].queue)
    <3>1. relay'[r].queue = relay[r].queue \/ relay'[r].queue = Append(relay[r].queue, env)
      BY <1>1, <1>2 DEF Relay
    <3> DEFINE q == relay[r].queue
    <3>2. q \in Seq(Envelope) /\ QueueSound(changes, q)
      BY <1>1
    <3> HIDE DEF q
    <3>3. QueueSound(changes, Append(q, env))
      BY <3>2, QueueMoves
    <3> QED
      BY <3>1, <3>2, <3>3 DEF q
  <2> QED
    BY <1>2, <2>1
<1>3. CASE conn' = Delivered(cs, p, env) /\ UNCHANGED relay
  <2>1. /\ conn' \in [Conns -> Socket]
        /\ \A j \in Conns : /\ conn'[j].pc = cs[j].pc /\ conn'[j].outbox = cs[j].outbox
                            /\ conn'[j].change = cs[j].change
                            /\ \/ conn'[j] = cs[j]
                               \/ conn'[j].inbox = Append(conn[j].inbox, env.payload)
    BY <1>3, DeliveredIs
  <2>2. env.payload \in Payload /\ env.payload.type # "edit_ack"
    BY SharedTypes DEF Envelope
  <2>3. \A j \in Conns : Talk(conn[j], conn'[j])
    BY <2>1, <2>2 DEF Talk
  <2> QED
    BY <1>1, <1>3, <2>1, <2>3
<1> QED
  BY <1>2, <1>3 DEF Publish

(* The hub, the relay, and what publishes through them, talk.               *)
LEMMA HubKeepsSound ==
  ASSUME TypeInv, SettledInv, stage = "live",
         \/ \E p \in Procs : RelayDeliver(p) \/ RelayReconnect(p) \/ RelayDrop(p)
         \/ \E h \in http : HttpPublish(h)
         \/ \E k \in Conns : PublishEdit(k)
  PROVE  SettledInv'
<1>0. /\ conn \in [Conns -> Socket] /\ relay \in [Procs -> Relay]
      /\ \A p \in Procs : QueueSound(changes, relay[p].queue) /\ relay[p].queue \in Seq(Envelope)
      /\ \A h \in http : MessageSound(changes, h.payload)
      /\ http \subseteq [proc : Procs, payload : Shared]
  BY DEF SettledInv, HubSound, TypeInv, HubTypes, ConnTypes, Relay
<1>1. \A s : Talk(s, s)
  BY DEF Talk
<1>2. ASSUME NEW p \in Procs, RelayDeliver(p)
      PROVE  SettledInv'
  <2> DEFINE env == Head(relay[p].queue)
  <2>1. /\ env \in Envelope /\ MessageSound(changes, env.payload)
        /\ QueueSound(changes, Tail(relay[p].queue))
    <3> DEFINE q == relay[p].queue
    <3>1. q \in Seq(Envelope) /\ q # <<>> /\ QueueSound(changes, q)
      BY <1>0, <1>2 DEF RelayDeliver
    <3> HIDE DEF q
    <3>2. Head(q) \in Envelope /\ QueueSound(changes, Tail(q)) /\ MessageSound(changes, Head(q).payload)
      BY <3>1, QueueParts, QueueMoves
    <3> QED
      BY <3>2 DEF q
  <2>2. conn' = Delivered(conn, p, env) /\ StoreSame /\ UNCHANGED <<http, client>>
    BY <1>2 DEF RelayDeliver, StoreSame
  <2>3. \A q \in Procs : QueueSound(changes, relay'[q].queue)
    <3>1. relay' = [relay EXCEPT ![p] = [relay[p] EXCEPT !.queue = Tail(relay[p].queue)]]
      BY <1>2 DEF RelayDeliver
    <3>2. relay'[p].queue = Tail(relay[p].queue) /\ \A q \in Procs : q # p => relay'[q] = relay[q]
      BY <1>0, <3>1 DEF Relay
    <3> QED
      BY <1>0, <2>1, <3>2
  <2> HIDE DEF env
  <2>4. /\ conn' \in [Conns -> Socket]
        /\ \A j \in Conns : /\ conn'[j].pc = conn[j].pc /\ conn'[j].outbox = conn[j].outbox
                            /\ conn'[j].change = conn[j].change
                            /\ \/ conn'[j] = conn[j]
                               \/ conn'[j].inbox = Append(conn[j].inbox, env.payload)
    BY <1>0, <2>1, <2>2, DeliveredIs
  <2>5. env.payload \in Payload /\ env.payload.type # "edit_ack"
    BY <2>1, SharedTypes DEF Envelope
  <2>6. \A j \in Conns : Talk(conn[j], conn'[j])
    BY <2>1, <2>4, <2>5 DEF Talk
  <2> QED
    BY <1>0, <2>2, <2>3, <2>4, <2>6, TalkKeepsSound DEF HubSound
<1>3. ASSUME NEW p \in Procs, RelayReconnect(p) \/ RelayDrop(p)
      PROVE  SettledInv'
  <2>1. \A q \in Procs : relay'[q].queue = relay[q].queue \/ relay'[q].queue = <<>>
    BY <1>0, <1>3 DEF RelayReconnect, RelayDrop, Relay
  <2>2. \A q \in Procs : QueueSound(changes, relay'[q].queue)
    BY <1>0, <2>1, QueueMoves
  <2>3. UNCHANGED <<http, client, conn>> /\ StoreSame
    BY <1>3 DEF RelayReconnect, RelayDrop, StoreSame
  <2> QED
    BY <1>0, <1>1, <2>2, <2>3, TalkKeepsSound DEF HubSound
<1>4. ASSUME NEW h \in http, HttpPublish(h)
      PROVE  SettledInv'
  <2> DEFINE env == [origin |-> <<>>, payload |-> h.payload]
  <2>1. env \in Envelope /\ MessageSound(changes, env.payload)
    BY <1>0 DEF Envelope
  <2>2. /\ Publish(conn, h.proc, env) /\ http' = http \ {h}
        /\ StoreSame /\ UNCHANGED client
    BY <1>4 DEF HttpPublish, StoreSame
  <2> HIDE DEF env
  <2>3. /\ conn' \in [Conns -> Socket] /\ \A j \in Conns : Talk(conn[j], conn'[j])
        /\ \A r \in Procs : QueueSound(changes, relay'[r].queue)
    BY <1>0, <1>1, <2>1, <2>2, PublishTalks
  <2> QED
    BY <1>0, <2>2, <2>3, TalkKeepsSound DEF HubSound
<1>5. ASSUME NEW k \in Conns, PublishEdit(k)
      PROVE  SettledInv'
  <2> DEFINE env == [origin |-> k, payload |-> conn[k].change]
             cs == [conn EXCEPT ![k].pc = "loop", ![k].change = [type |-> "none"]]
  <2>1. conn[k].pc = "publish" /\ conn[k].change \in EditMsg /\ SaidIn(changes, conn[k].change)
    BY <1>5, SoundTypes DEF PublishEdit, SettledInv, SocketSound
  <2>2. env \in Envelope /\ MessageSound(changes, env.payload)
    BY <2>1, SharedTypes DEF Envelope, MessageSound, EditMsg
  <2>3. conn[k] \in Socket /\ [conn[k] EXCEPT !.pc = "loop", !.change = NoChange] \in Socket
    BY <1>0 DEF Socket, PCs
  <2>4. cs = [conn EXCEPT ![k] = [conn[k] EXCEPT !.pc = "loop", !.change = NoChange]]
    BY <1>0 DEF NoChange
  <2>5. /\ cs \in [Conns -> Socket] /\ \A j \in Conns : j # k => cs[j] = conn[j]
        /\ cs[k].pc = "loop" /\ cs[k].inbox = conn[k].inbox /\ cs[k].outbox = conn[k].outbox
    BY <1>0, <2>3, <2>4 DEF Socket
  <2>6. Publish(cs, Home[k[1]], env) /\ StoreSame /\ UNCHANGED <<http, client>>
    BY <1>5 DEF PublishEdit, StoreSame
  <2> HIDE DEF env, cs
  <2>7. \A j \in Conns : Talk(conn[j], cs[j]) /\ cs[j].inbox = conn[j].inbox
    BY <2>5 DEF Talk
  <2>8. /\ conn' \in [Conns -> Socket] /\ \A j \in Conns : Talk(conn[j], conn'[j])
        /\ \A r \in Procs : QueueSound(changes, relay'[r].queue)
    BY <2>2, <2>5, <2>6, <2>7, PublishTalks
  <2> QED
    BY <1>0, <2>6, <2>8, TalkKeepsSound DEF HubSound
<1> QED
  BY <1>2, <1>3, <1>4, <1>5

(* A caller's write is made of the document, and deleting it ends the log.  *)
LEMMA HttpKeepsSound ==
  ASSUME TypeInv, SettledInv, stage = "live", NEW p \in Procs,
         \/ \E kind \in HttpKinds : HttpCommit(p, kind)
         \/ DeleteDocument(p)
  PROVE  SettledInv'
<1>1. CASE DeleteDocument(p)
  BY <1>1 DEF DeleteDocument, SettledInv
<1>2. ASSUME NEW kind \in HttpKinds, HttpCommit(p, kind)
      PROVE  SettledInv'
  <2> DEFINE op == CASE kind = "title"   -> TitleOp
                     [] kind = "replace" -> ReplaceOp(<<spent.edits + 1>>)
                     [] kind = "steps"   -> StepsOp(<<spent.edits + 1>>)
             text == Replay(op, document.content)
             row == [base |-> document.version, version |-> document.version + 1,
                     operation |-> op, state |-> text]
             m == [type |-> "edit", version |-> document.version + 1, operation |-> op]
  <2>1. /\ document' = [version |-> document.version + 1, content |-> text]
        /\ changes' = changes \cup {row} /\ UNCHANGED <<stage, relay, conn, client>>
        /\ http' = http \cup {[proc |-> p, payload |-> m]}
    BY <1>2 DEF HttpCommit, Commit
  <2> HIDE DEF op
  <2>2. /\ row.version = document.version + 1 /\ row.operation = op /\ row.state = text
        /\ m.type = "edit" /\ m.version = row.version /\ m.operation = row.operation
        /\ document'.version = row.version /\ document'.content = row.state
    BY <2>1
  <2>3. /\ LogSound(changes, document) /\ HubSound(changes, relay, http)
        /\ \A j \in Conns : SocketSound(changes, conn[j])
        /\ \A c \in Clients : TabSound(changes, client[c], Line(c))
    BY DEF SettledInv
  <2>4. \E r \in changes : r.version = document.version /\ row.state = Replay(row.operation, r.state)
    BY <2>2, <2>3 DEF LogSound, ShownIn
  <2> HIDE DEF text, row, m
  <2>5. LogSound(changes', document')
    BY <2>1, <2>2, <2>3, <2>4, SoundTypes, CommitKeepsLog
  <2>6. changes \subseteq changes' /\ MessageSound(changes', m)
    BY <2>1, <2>2 DEF MessageSound, SaidIn
  <2>7. /\ HubSound(changes', relay, http)
        /\ \A j \in Conns : SocketSound(changes', conn[j])
        /\ \A c \in Clients : TabSound(changes', client[c], Line(c))
    BY <2>3, <2>6, LogGrows
  <2>8. HubSound(changes', relay, http')
    BY <2>1, <2>6, <2>7 DEF HubSound
  <2> QED
    BY <2>1, <2>5, <2>7, <2>8 DEF SettledInv, Line
<1> QED
  BY <1>1, <1>2

(* A tab's step disturbs the tab and its socket only.                       *)
LEMMA TabFrame ==
  ASSUME TypeInv, SettledInv, stage = "live", NEW c \in Clients, TabMoves(c),
         SocketSound(changes, conn'[Key(c)]),
         client'[c].phase = "live" =>
           client'[c].socket = client[c].socket /\ TabSound(changes, client'[c], conn'[Key(c)])
  PROVE  SettledInv'
<1>1. /\ UNCHANGED <<stage, document, changes, relay, http>>
      /\ \A d \in Clients : d # c => client'[d] = client[d]
      /\ \A k \in Conns : k # Key(c) => conn'[k] = conn[k]
  BY DEF TabMoves, ServerUnchanged
<1>2. \A d \in Clients : d # c => Key(d) # Key(c)
  BY DEF Key
<1>3. \A d \in Clients : d # c => TabSound(changes, client'[d], Line(d)')
  <2>1. SUFFICES ASSUME NEW d \in Clients, d # c
                 PROVE  client'[d] = client[d] /\ Line(d)' = Line(d)
    BY DEF SettledInv
  <2>2. client'[d] = client[d] /\ conn'[Key(d)] = conn[Key(d)]
    BY <1>1, <1>2, <2>1, SoundTypes
  <2> QED
    BY <2>2 DEF Line, Key
<1>4. TabSound(changes, client'[c], Line(c)')
  BY DEF TabSound, Line, Key
<1>5. \A k \in Conns : SocketSound(changes, conn'[k])
  BY <1>1 DEF SettledInv
<1> QED
  BY <1>1, <1>3, <1>4, <1>5 DEF SettledInv

(* A tab that leaves its socket, or only opens it, sends nothing.           *)
LEMMA LeavingKeepsSound ==
  ASSUME TypeInv, SettledInv, stage = "live", OnlineEvents = FALSE, NEW c \in Clients,
         Open(c) \/ SocketLost(c) \/ Retry(c) \/ Online(c) \/ Resync(c) \/ OnDeleted(c) \/ OnClose(c)
  PROVE  SettledInv'
<1>1. TabMoves(c)
  BY TabSteps DEF Receive
<1>2. /\ conn \in [Conns -> Socket] /\ Key(c) \in Conns /\ conn[Key(c)] \in Socket
      /\ Key(c) = <<client[c].me, client[c].socket>> /\ client \in [Clients -> Tab]
      /\ SocketSound(changes, conn[Key(c)])
  BY KeyTypes DEF ConnTypes, TabTypes, SettledInv
<1>3. /\ client'[c].phase # "live"
      /\ conn' \in {conn, [conn EXCEPT ![Key(c)].inbox = <<>>], [conn EXCEPT ![Key(c)].pc = "init"]}
  <2>1. CASE Open(c)
    BY <1>2, <2>1 DEF Open, Stopped, Key, Tab
  <2>2. CASE SocketLost(c)
    BY <1>2, <2>2 DEF SocketLost, Detached, Tab
  <2>3. CASE Retry(c)
    BY <1>2, <2>3 DEF Retry, Connecting, Tab
  <2>4. CASE Resync(c)
    BY <1>2, <2>4 DEF Resync, Connecting, Detached, Tab
  <2>5. CASE OnDeleted(c)
    BY <1>2, <2>5 DEF OnDeleted, Stopped, Detached, Tab
  <2>6. CASE OnClose(c)
    BY <1>2, <2>6 DEF OnClose, Detached, Tab
  <2> QED
    BY <2>1, <2>2, <2>3, <2>4, <2>5, <2>6 DEF Online
<1>4. SocketSound(changes, conn'[Key(c)])
  <2> DEFINE s == conn[Key(c)]
             t == conn'[Key(c)]
  <2>1. /\ t.outbox = s.outbox /\ t.change = s.change /\ t.pc \in {s.pc, "init"}
        /\ t.inbox \in {s.inbox, <<>>}
    BY <1>2, <1>3 DEF Socket
  <2>2. SocketSound(changes, s) /\ s.inbox \in Seq(Payload)
    BY <1>2 DEF Socket
  <2> HIDE DEF s, t
  <2>3. InboxSound(changes, t.inbox)
    BY <2>1, <2>2, InboxMoves DEF SocketSound
  <2> QED
    BY <2>1, <2>2, <2>3 DEF SocketSound, t
<1> QED
  BY <1>1, <1>3, <1>4, TabFrame

(* A message that is read was in the log.                                   *)
LEMMA ReadIs ==
  ASSUME TypeInv, SettledInv, stage = "live", NEW c \in Clients, NEW ty, HasMessage(c, ty)
  PROVE  LET s == conn[Key(c)] t == [s EXCEPT !.inbox = Tail(s.inbox)] IN
         /\ Read(c) = [conn EXCEPT ![Key(c)] = t] /\ Read(c)[Key(c)] = t
         /\ s \in Socket /\ t \in Socket /\ s.inbox # <<>> /\ t.inbox = Tail(s.inbox)
         /\ t.pc = s.pc /\ t.outbox = s.outbox /\ t.change = s.change
         /\ SocketSound(changes, t) /\ MessageSound(changes, Message(c))
         /\ Message(c) = Head(s.inbox) /\ Message(c) \in Payload /\ Message(c).type = ty
         /\ client[c].phase \in {"open", "live"}
<1> DEFINE s == conn[Key(c)]
           t == [s EXCEPT !.inbox = Tail(s.inbox)]
<1>1. /\ Read(c) = [conn EXCEPT ![Key(c)] = t] /\ t \in Socket /\ s.inbox # <<>>
      /\ Message(c) = Head(s.inbox) /\ Message(c) \in Payload /\ Message(c).type = ty
      /\ client[c].phase \in {"open", "live"}
  BY MessageTypes
<1>2. /\ s \in Socket /\ s.inbox \in Seq(Payload) /\ SocketSound(changes, s)
      /\ Key(c) \in Conns /\ conn \in [Conns -> Socket]
  BY KeyTypes DEF Socket, SettledInv, ConnTypes
<1>3. t.inbox = Tail(s.inbox) /\ t.pc = s.pc /\ t.outbox = s.outbox /\ t.change = s.change
  BY <1>2 DEF Socket
<1>4. InboxSound(changes, t.inbox) /\ MessageSound(changes, Message(c))
  <2> HIDE DEF s, t
  <2> QED
    BY <1>1, <1>2, <1>3, InboxMoves DEF SocketSound
<1>5. SocketSound(changes, t)
  BY <1>2, <1>3, <1>4 DEF SocketSound
<1>6. Read(c)[Key(c)] = t
  BY <1>1, <1>2
<1> QED
  BY <1>1, <1>2, <1>3, <1>4, <1>5, <1>6

(* What FlightInv says of a live tab, before and after its step.            *)
LEMMA LiveLine ==
  ASSUME FlightInv, NEW c \in Clients
  PROVE  /\ client[c].phase = "live" /\ ~client[c].awaitingAck => Silent(conn[Key(c)])
         /\ client[c].phase = "live" => Silent(conn[Key(c)]) \/ OneAsked(conn[Key(c)])
         /\ client[c].phase = "open" => Silent(conn[Key(c)]) /\ (client[c].pending = NoEdit
                                                                   \/ ~client[c].sendTimer)
  BY DEF FlightInv, TabInFlight, Line, Key

(* The server's document, heard when nothing is outstanding any more.       *)
LEMMA FreshKeepsSound ==
  ASSUME TypeInv, SettledInv, stage = "live", FlightInv', NEW c \in Clients,
         OnInit(c) \/ OnRejected(c)
  PROVE  SettledInv'
<1>1. TabMoves(c)
  BY TabSteps DEF Receive
<1>2. PICK ty \in {"init", "rejected"} : HasMessage(c, ty)
  BY DEF OnInit, OnRejected
<1>3. /\ conn'[Key(c)] = Read(c)[Key(c)] /\ SocketSound(changes, conn'[Key(c)])
      /\ MessageSound(changes, Message(c)) /\ Message(c).type \in {"init", "rejected"}
  <2>1. conn' = Read(c)
    BY DEF OnInit, OnRejected
  <2>2. /\ SocketSound(changes, Read(c)[Key(c)]) /\ MessageSound(changes, Message(c))
        /\ Message(c).type = ty
    BY <1>2, ReadIs
  <2> QED
    BY <2>1, <2>2
<1>4. /\ client'[c].socket = client[c].socket /\ client'[c].versionRef = Message(c).version
      /\ client'[c].editor = Message(c).content /\ client'[c].pending = NoEdit
      /\ ~client'[c].awaitingAck
  BY DEF OnInit, OnRejected, TypeInv, TabTypes, Tab
<1>5. ShownIn(changes, client'[c].versionRef, client'[c].editor)
  BY <1>3, <1>4 DEF MessageSound
<1>6. ASSUME client'[c].phase = "live"
      PROVE  Silent(conn'[Key(c)])
  <2>1. conn'[Key(c)] = Line(c)'
    BY <1>4 DEF Line, Key
  <2> QED
    BY <1>4, <1>6, <2>1 DEF FlightInv, TabInFlight
<1>7. client'[c].phase = "live" => TabSound(changes, client'[c], conn'[Key(c)])
  BY <1>4, <1>5, <1>6, SoundTypes, FreshTab
<1> QED
  BY <1>1, <1>3, <1>4, <1>7, TabFrame

(* An error changes nothing.                                                *)
LEMMA ErrorKeepsSound ==
  ASSUME TypeInv, SettledInv, stage = "live", NEW c \in Clients, OnError(c)
  PROVE  SettledInv'
<1> DEFINE s == conn[Key(c)]
           t == conn'[Key(c)]
<1>1. TabMoves(c) /\ UNCHANGED client
  BY TabSteps DEF Receive, OnError
<1>2. /\ s \in Socket /\ t \in Socket /\ s.inbox # <<>> /\ t.inbox = Tail(s.inbox)
      /\ t.pc = s.pc /\ t.outbox = s.outbox /\ t.change = s.change /\ SocketSound(changes, t)
  BY ReadIs DEF OnError
<1>3. TabSound(changes, client[c], s)
  BY SoundTypes DEF SettledInv
<1> HIDE DEF s, t
<1>4. LineSound(changes, client[c], s) => LineSound(changes, client[c], t)
  BY <1>2, LineMoves
<1>5. TabSound(changes, client[c], t)
  BY <1>3, <1>4 DEF TabSound
<1> QED
  BY <1>1, <1>2, <1>5, TabFrame DEF t

(* A peer's change in order keeps a live tab sound.                         *)
LEMMA PeersKeepSound ==
  ASSUME TypeInv, SettledInv, stage = "live", FlightInv', InOrder, NEW c \in Clients,
         OnRemoteContent(c) \/ OnRemoteSteps(c)
  PROVE  SettledInv'
<1> DEFINE s == conn[Key(c)]
           t == conn'[Key(c)]
           cl == client[c]
           dl == client'[c]
           m == Message(c)
<1>1. TabMoves(c)
  BY TabSteps DEF Receive
<1>2. /\ s \in Socket /\ t \in Socket /\ s.inbox # <<>> /\ t.inbox = Tail(s.inbox)
      /\ t.pc = s.pc /\ t.outbox = s.outbox /\ t.change = s.change /\ SocketSound(changes, t)
      /\ SaidIn(changes, m)
  <2>1. HasMessage(c, "edit") /\ conn' = Read(c)
    BY DEF OnRemoteContent, OnRemoteSteps
  <2> QED
    BY <2>1, ReadIs DEF MessageSound
<1>3. /\ dl.socket = cl.socket /\ dl.versionRef = m.version /\ dl.editor = Replay(m.operation, cl.editor)
      /\ dl.pending = cl.pending /\ dl.awaitingAck = cl.awaitingAck /\ dl.phase = cl.phase
  BY DEF OnRemoteContent, OnRemoteSteps, TypeInv, TabTypes, Tab
<1>4. /\ m.version = cl.versionRef + 1
      /\ m.operation.kind # "title" => cl.pending = NoEdit /\ ~cl.awaitingAck
  <2>1. m.operation.kind \in {"steps", "replace", "title"}
    <3>1. PICK r \in changes : r.operation = m.operation
      BY <1>2 DEF SaidIn
    <3> QED
      BY <3>1, SoundTypes DEF Operation
  <2> QED
    BY <2>1 DEF InOrder, OnRemoteContent, OnRemoteSteps, IsSettled
<1>5. /\ cl \in Tab /\ LogSound(changes, document) /\ TabSound(changes, cl, s)
  BY SoundTypes DEF SettledInv
<1>6. dl.phase = "live" /\ ~dl.awaitingAck => Silent(t)
  <2>1. t = Line(c)'
    BY <1>3 DEF Line, Key
  <2> QED
    BY <2>1 DEF FlightInv, TabInFlight
<1> HIDE DEF s, t, cl, dl, m
<1>7. dl.phase = "live" => TabSound(changes, dl, t)
  <2>1. SUFFICES ASSUME cl.phase = "live"
                 PROVE  TabSound(changes, dl, t)
    BY <1>3
  <2>2. EditorSound(changes, cl) /\ LineSound(changes, cl, s)
    BY <1>5, <2>1 DEF TabSound
  <2>3. ~cl.awaitingAck => Silent(t)
    BY <1>3, <1>6, <2>1
  <2> QED
    BY <1>2, <1>3, <1>4, <1>5, <2>1, <2>2, <2>3, SoundTypes, RemoteKeepsSound
<1> QED
  BY <1>1, <1>2, <1>3, <1>7, TabFrame DEF t, dl, cl

(* A keystroke keeps a live tab sound.                                      *)
LEMMA TypingKeepsSound ==
  ASSUME TypeInv, SettledInv, stage = "live", NEW c \in Clients, Type(c)
  PROVE  SettledInv'
<1> DEFINE cl == client[c]
           dl == client'[c]
           e == spent.edits + 1
<1>1. TabMoves(c) /\ UNCHANGED conn /\ cl.phase = "live" /\ e \in 1..MaxEdits
  <2>1. TabMoves(c)
    BY TabSteps
  <2>2. UNCHANGED conn /\ cl.phase = "live" /\ e <= MaxEdits
    BY DEF Type
  <2>3. spent.edits \in Nat /\ MaxEdits \in Nat
    BY KeyTypes DEF SpentTypes
  <2> QED
    BY <2>1, <2>2, <2>3
<1>2. /\ dl.socket = cl.socket /\ dl.editor = Append(cl.editor, e) /\ dl.versionRef = cl.versionRef
      /\ dl.awaitingAck = cl.awaitingAck
      /\ dl.pending = [ids |-> Append(cl.pending.ids, e), doc |-> Append(cl.editor, e)]
  BY DEF Type, TypeInv, TabTypes, Tab
<1>3. /\ cl \in Tab /\ conn[Key(c)] \in Socket /\ TabSound(changes, cl, conn[Key(c)])
      /\ SocketSound(changes, conn[Key(c)])
  BY SoundTypes DEF SettledInv
<1> HIDE DEF cl, dl, e
<1>4. TabSound(changes, dl, conn[Key(c)])
  BY <1>1, <1>2, <1>3, SoundTypes, TypeKeepsSound DEF TabSound
<1> QED
  BY <1>1, <1>2, <1>3, <1>4, TabFrame DEF cl, dl

(* What the timer and the acknowledgement send is what the editor shows.    *)
LEMMA SendingKeepsSound ==
  ASSUME TypeInv, SettledInv, stage = "live", FlightInv, NEW c \in Clients, SendTimer(c) \/ OnAck(c)
  PROVE  SettledInv'
<1> DEFINE s == conn[Key(c)]
           t == conn'[Key(c)]
<1>1. TabMoves(c)
  BY TabSteps DEF Receive
<1>2. /\ conn \in [Conns -> Socket] /\ Key(c) \in Conns /\ client \in [Clients -> Tab]
      /\ s \in Socket /\ SocketSound(changes, s) /\ TabSound(changes, client[c], s)
      /\ conn' \in [Conns -> Socket]
  BY <1>1, SoundTypes DEF SettledInv, ConnTypes, TypeInv, TabTypes, TabMoves
<1>3. CASE SendTimer(c)
  <2> DEFINE cl == client[c]
  <2>1. /\ client'[c] = Flushed(cl) /\ cl.sendTimer /\ cl \in Tab
        /\ t.pc = s.pc /\ t.inbox = s.inbox /\ t.change = s.change /\ t.outbox = s.outbox \o Outgoing(cl)
    BY <1>2, <1>3 DEF SendTimer, Key, Socket
  <2>2. Flushed(cl).phase = cl.phase /\ Flushed(cl).socket = cl.socket
    BY <2>1 DEF Flushed, Tab
  <2>3. CASE cl.phase = "live"
    <3>1. EditorSound(changes, cl) /\ LineSound(changes, cl, s)
      BY <1>2, <2>3 DEF TabSound
    <3>2. (~cl.awaitingAck => Silent(s)) /\ OutboxSound(changes, s.outbox) /\ t \in Socket
      BY <1>2, <2>3, LiveLine DEF SocketSound
    <3> HIDE DEF cl, s, t
    <3>3. TabSound(changes, Flushed(cl), t) /\ OutboxSound(changes, t.outbox)
      BY <1>2, <2>1, <2>3, <3>1, <3>2, SoundTypes, FlushKeepsSound
    <3>4. SocketSound(changes, t)
      BY <1>2, <2>1, <3>3 DEF SocketSound
    <3> QED
      BY <1>1, <2>1, <2>2, <3>3, <3>4, TabFrame DEF cl, t
  <2>4. CASE cl.phase # "live"
    <3>1. ~MayFlush(cl)
      BY <2>1, <2>4, LiveLine DEF MayFlush
    <3>2. t.outbox = s.outbox
      BY <1>2, <2>1, <3>1, ConcatEmptySeq DEF Outgoing, Socket
    <3>3. SocketSound(changes, t)
      BY <1>2, <2>1, <3>2 DEF SocketSound
    <3> QED
      BY <1>1, <2>1, <2>2, <2>4, <3>3, TabFrame
  <2> QED
    BY <2>3, <2>4
<1>4. CASE OnAck(c)
  <2> DEFINE cl == [client[c] EXCEPT !.awaitingAck = FALSE, !.versionRef = Message(c).version]
             r == [s EXCEPT !.inbox = Tail(s.inbox)]
             m == Message(c)
  <2>1. HasMessage(c, "edit_ack") /\ client'[c] = Flushed(cl)
    BY <1>2, <1>4 DEF OnAck
  <2>2. /\ Read(c) = [conn EXCEPT ![Key(c)] = r] /\ Read(c)[Key(c)] = r
        /\ r \in Socket /\ s.inbox # <<>> /\ r.inbox = Tail(s.inbox)
        /\ r.pc = s.pc /\ r.outbox = s.outbox /\ r.change = s.change /\ SocketSound(changes, r)
        /\ m = Head(s.inbox) /\ m \in Payload /\ m.type = "edit_ack"
        /\ client[c].phase \in {"open", "live"}
    BY <2>1, ReadIs
  <2>3. m.version \in Version
    BY <2>2, PayloadFields
  <2>4. /\ cl \in Tab /\ cl.versionRef = m.version /\ ~cl.awaitingAck /\ cl.pending = client[c].pending
        /\ cl.editor = client[c].editor /\ cl.phase = client[c].phase
        /\ cl.socket = client[c].socket
    <3>1. client[c] \in Tab
      BY <1>2
    <3> QED
      BY <2>3, <3>1 DEF Tab
  <2>5. /\ t.pc = r.pc /\ t.inbox = r.inbox /\ t.change = r.change
        /\ t.outbox = r.outbox \o Outgoing(cl)
    <3>1. conn' = [Read(c) EXCEPT ![Key(c)].outbox = @ \o Outgoing(cl)]
      BY <1>4, <2>4 DEF OnAck, Key
    <3> HIDE DEF cl, r
    <3>2. Key(c) \in DOMAIN Read(c) /\ conn'[Key(c)] = [r EXCEPT !.outbox = @ \o Outgoing(cl)]
      BY <1>2, <2>2, <3>1
    <3> QED
      BY <2>2, <3>2 DEF Socket
  <2>6. /\ "edit_ack" \in Answers /\ s.inbox \in Seq(Payload)
        /\ \A i \in 1..Len(s.inbox) : s.inbox[i] = m => s.inbox[i].type \in Answers
    BY <1>2, <2>2 DEF Answers, Socket
  <2>7. 1 \in 1..Len(s.inbox) /\ s.inbox[1] = m
    BY <2>2, <2>6, QueueParts
  <2>8. ~Silent(s)
    BY <2>6, <2>7 DEF Silent, NoneOf
  <2>9. client[c].phase = "live" /\ OneAsked(s)
    BY <2>2, <2>8, LiveLine
  <2>10. Silent(r)
    <3>1. s.outbox = <<>> /\ s.pc # "ack" /\ OneOf(s.inbox, Answers)
      BY <2>6, <2>7, <2>9 DEF OneAsked, NoneOf
    <3>2. NoneOf(Tail(s.inbox), Answers)
      BY <2>2, <2>6, <3>1, InboxShrinks
    <3> QED
      BY <2>2, <3>1, <3>2 DEF Silent
  <2>11. /\ EditorSound(changes, client[c]) /\ LineSound(changes, client[c], s)
    BY <1>2, <2>9 DEF TabSound
  <2>12. Accepted(changes, client[c], m.version)
    BY <2>2, <2>7, <2>11 DEF LineSound
  <2>13. EditorSound(changes, cl) /\ LineSound(changes, cl, r)
    <3>1. LineSound(changes, cl, r)
      BY <2>10, SilentLine
    <3>2. \E q \in changes : q.version = cl.versionRef
      BY <2>4, <2>12 DEF Accepted
    <3>3. HonestIn(changes, cl.versionRef, cl.pending.ids, cl.editor)
      BY <2>4, <2>12 DEF Accepted, HonestIn
    <3> QED
      BY <2>4, <2>11, <3>1, <3>2, <3>3 DEF EditorSound
  <2>14. OutboxSound(changes, r.outbox) /\ t \in Socket
    BY <1>2, <2>2 DEF SocketSound
  <2>15. Flushed(cl).phase = cl.phase /\ Flushed(cl).socket = cl.socket
    <3> HIDE DEF cl
    <3> QED
      BY <2>4 DEF Flushed, Tab
  <2> HIDE DEF cl, r, s, t, m
  <2>16. TabSound(changes, Flushed(cl), t) /\ OutboxSound(changes, t.outbox)
    BY <2>2, <2>4, <2>5, <2>9, <2>10, <2>13, <2>14, SoundTypes, FlushKeepsSound
  <2>17. SocketSound(changes, t)
    BY <2>2, <2>5, <2>16 DEF SocketSound
  <2> QED
    BY <1>1, <2>1, <2>4, <2>15, <2>16, <2>17, TabFrame DEF t
<1> QED
  BY <1>3, <1>4

(* Every step in order keeps what is on its way, the log and the tabs sound. *)
LEMMA SettledStays ==
  ASSUME IInv, FlightInv, SettledInv, OnlineEvents = FALSE, Next, InOrder
  PROVE  SettledInv'
<1>0. TypeInv /\ FlightInv'
  BY FlightStays DEF IInv
<1>1. CASE stage # "live"
  <2>1. stage' = stage
    BY <1>0, <1>1, NextMoves DEF IInv, HubMoves, HttpMoves, Deletes, SessionMoves, SessionDoes,
      TabMoves, ServerUnchanged, StoreSame, Keeps, Commits, Commit
  <2> QED
    BY <1>1, <2>1 DEF SettledInv
<1>2. CASE stage = "live"
  <2>1. ASSUME NEW k \in Conns,
               SendInit(k) \/ Join(k) \/ HandleEdit(k) \/ SendAck(k) \/ SessionEnds(k)
        PROVE  SettledInv'
    <3>1. CASE HandleEdit(k) /\ AcceptEdit(k)
      BY <1>0, <1>2, <3>1, AcceptKeepsSound
    <3>2. CASE ~(HandleEdit(k) /\ AcceptEdit(k))
      <4>1. /\ conn' \in [Conns -> Socket] /\ \A j \in Conns : Talk(conn[j], conn'[j])
            /\ StoreSame /\ UNCHANGED <<relay, http, client>>
        BY <1>0, <1>2, <2>1, <3>2, SessionTalks
      <4>2. HubSound(changes, relay', http')
        BY <1>2, <4>1 DEF SettledInv
      <4> QED
        BY <1>0, <4>1, <4>2, TalkKeepsSound
    <3> QED
      BY <3>1, <3>2
  <2>2. ASSUME NEW c \in Clients,
               \/ Type(c) \/ SendTimer(c) \/ Open(c) \/ SocketLost(c) \/ Retry(c) \/ Online(c)
               \/ Receive(c)
        PROVE  SettledInv'
    BY <1>0, <1>2, <2>2, LeavingKeepsSound, FreshKeepsSound, ErrorKeepsSound, PeersKeepSound,
       TypingKeepsSound, SendingKeepsSound DEF Receive
  <2>3. ASSUME NEW p \in Procs,
               \/ DeleteDocument(p)
               \/ \E kind \in HttpKinds : HttpCommit(p, kind)
        PROVE  SettledInv'
    BY <1>0, <1>2, <2>3, HttpKeepsSound
  <2>4. ASSUME \/ \E p \in Procs : RelayDeliver(p) \/ RelayReconnect(p) \/ RelayDrop(p)
               \/ \E h \in http : HttpPublish(h)
               \/ \E k \in Conns : PublishEdit(k)
        PROVE  SettledInv'
    BY <1>0, <1>2, <2>4, HubKeepsSound
  <2> QED
    BY <2>1, <2>2, <2>3, <2>4 DEF Next, Hub, Session
<1> QED
  BY <1>1, <1>2

(* The document starts as the one row of its log, and no tab is live.       *)
LEMMA SettledStarts == Init => SettledInv
<1>1. SUFFICES ASSUME Init
               PROVE  SettledInv
  OBVIOUS
<1> DEFINE first == [base |-> 0, version |-> 1, operation |-> ReplaceOp(<<>>), state |-> <<>>]
<1>2. /\ changes = {first} /\ first.version = 1 /\ first.state = <<>>
      /\ document.version = 1 /\ document.content = <<>>
  BY <1>1 DEF Init
<1> HIDE DEF first
<1>3. LogSound(changes, document)
  BY <1>2 DEF LogSound, ShownIn, Follows
<1>4. Len(<<>>) = 0
  OBVIOUS
<1>5. HubSound(changes, relay, http)
  BY <1>1, <1>4 DEF Init, HubSound, QueueSound
<1>6. \A k \in Conns : SocketSound(changes, conn[k])
  BY <1>1, <1>4 DEF Init, SocketSound, InboxSound, OutboxSound
<1>7. \A c \in Clients : TabSound(changes, client[c], Line(c))
  BY <1>1 DEF Init, TabSound
<1> QED
  BY <1>3, <1>5, <1>6, <1>7 DEF SettledInv

(* Along every behaviour in order, the log, what is on its way and the tabs *)
(* stay sound.                                                              *)
LEMMA OrderedInvariance ==
  OnlineEvents = FALSE => (OrderedSpec => [](IInv /\ FlightInv /\ SettledInv))
<1> SUFFICES ASSUME OnlineEvents = FALSE
             PROVE  OrderedSpec => [](IInv /\ FlightInv /\ SettledInv)
  OBVIOUS
<1> DEFINE Inv == IInv /\ FlightInv /\ SettledInv
<1>1. Init => Inv
  BY InitIInv, FlightStarts, SettledStarts
<1>2. Inv /\ [Next /\ InOrder]_vars => Inv'
  <2>1. ASSUME Inv, Next, InOrder
        PROVE  Inv'
    <3>1. IInv'
      BY <2>1, NextIInv
    <3>2. FlightInv'
      BY <2>1, FlightStays DEF IInv
    <3> QED
      BY <2>1, <3>1, <3>2, SettledStays
  <2>2. ASSUME Inv, UNCHANGED vars
        PROVE  Inv'
    <3>1. IInv'
      BY <2>2, NextIInv
    <3>2. FlightInv'
      BY <2>2 DEF vars, FlightInv, TabInFlight, Unopened, Unused, Line
    <3>3. SettledInv'
      BY <2>2 DEF vars, SettledInv, Line
    <3> QED
      BY <3>1, <3>2, <3>3
  <2> QED
    BY <2>1, <2>2
<1> HIDE DEF Inv
<1>3. OrderedSpec => []Inv
  BY <1>1, <1>2, PTL DEF OrderedSpec
<1> QED
  BY <1>3 DEF Inv

(* A tab with nothing outstanding shows the server's document at the        *)
(* version it reports (isSettled), as long as no `online` event makes it    *)
(* reconnect, the relayed changes it takes come in order, and none of them  *)
(* replaces the document under an edit that is still outstanding.           *)
THEOREM SettledTabsAreRight ==
  OnlineEvents = FALSE => (OrderedSpec => []SettledShowsServerDocument)
<1>1. IInv /\ SettledInv => SettledShowsServerDocument
  <2>1. SUFFICES ASSUME IInv, SettledInv, stage = "live",
                        NEW c \in Clients, client[c].phase = "live", IsSettled(c)
                 PROVE  \E r \in changes : r.version = client[c].versionRef /\ r.state = client[c].editor
    BY DEF SettledShowsServerDocument
  <2>2. EditorSound(changes, client[c])
    BY <2>1 DEF SettledInv, TabSound
  <2>3. client[c].pending.ids = <<>> /\ ~client[c].awaitingAck
    BY <2>1 DEF IsSettled, NoEdit
  <2>4. PICK r \in changes : /\ r.version = client[c].versionRef
                             /\ client[c].editor = r.state \o client[c].pending.ids
    BY <2>2, <2>3 DEF EditorSound, HonestIn
  <2>5. r.state \o <<>> = r.state
    <3>1. r.state \in Text
      BY <2>1, SoundTypes DEF IInv
    <3> QED
      BY <3>1, TextsJoin
  <2> QED
    BY <2>3, <2>4, <2>5
<1> QED
  BY <1>1, OrderedInvariance, PTL

(* Every row of the log is its operation applied to the row before it, and  *)
(* the document is the last: the history an audit or a resync replays       *)
(* (apply_change stores the operation and the content a caller brings, and  *)
(* never compares them).                                                    *)
LogReplays ==
  stage = "live" =>
    /\ \A r \in changes : Follows(changes, r)
    /\ ShownIn(changes, document.version, document.content)

(* The log replays, under the same hypotheses: the content a tab sends is   *)
(* its steps applied to the row of its base version.                        *)
THEOREM HistoryReplays == OnlineEvents = FALSE => (OrderedSpec => []LogReplays)
<1>1. SettledInv => LogReplays
  BY DEF SettledInv, LogSound, LogReplays
<1> QED
  BY <1>1, OrderedInvariance, PTL

-----------------------------------------------------------------------------
(* Quiet tabs.                                                              *)

(* Two overlaps do not happen: no change is committed while a session is    *)
(* between its `init` and hub.join, and no session ends between the commit  *)
(* of an edit and its publish.  The tab that joins in the first misses the  *)
(* change; in the second no tab is ever told of it.                         *)
InTime ==
  /\ document'.version > document.version => \A k \in Conns : conn[k].pc # "join"
  /\ \A k \in Conns : SessionEnds(k) => conn[k].pc # "ack"

TimelySpec == Init /\ [][Next /\ InOrder /\ InTime]_vars

(* A message tells a tab of version v: of the document at v or later, or of *)
(* the change that made it v.                                               *)
Fresh(m) == m.type \in {"init", "rejected"}
Change(m) == m.type \in {"edit", "edit_ack"}
Tells(m, v) == (Fresh(m) /\ v <= m.version) \/ (Change(m) /\ m.version = v)

(* The tab knows of v, or will when it has read its inbox.                  *)
Knows(cl, inbox, v) ==
  (cl.phase = "live" /\ v <= cl.versionRef) \/ \E i \in 1..Len(inbox) : Tells(inbox[i], v)

(* A document never takes the tab back behind what it was told before.      *)
Rising(cl, inbox) ==
  \A l \in 1..Len(inbox) : Fresh(inbox[l]) =>
    /\ cl.phase = "live" => cl.versionRef <= inbox[l].version
    /\ \A i \in 1..l : Fresh(inbox[i]) \/ Change(inbox[i]) => inbox[i].version <= inbox[l].version

(* The change that made the document v is on its way to connection k: in    *)
(* the queue of its process, with an HTTP handler or with another session;  *)
(* its own session tells it by the acknowledgement.                         *)
Names(m, v) == m.type = "edit" /\ m.version = v
Queued(k, v) ==
  \E i \in 1..Len(relay[Home[k[1]]].queue) :
    /\ relay[Home[k[1]]].queue[i].origin # k
    /\ Names(relay[Home[k[1]]].queue[i].payload, v)
Posted(v) == \E h \in http : Names(h.payload, v)
Accepting(k, v) ==
  \E j \in Conns : /\ conn[j].pc \in {"ack", "publish"} /\ conn[j].change.version = v
                   /\ j = k => conn[j].pc = "ack"
Underway(k, v) == Queued(k, v) \/ Posted(v) \/ Accepting(k, v)

(* A session that has sent `init` and goes on.                              *)
Listening == {"join", "loop", "ack", "publish"}

(* Every version there has been is known to tab c, or on its way to it.     *)
InitAhead(cl, s) ==
  cl.phase = "open" =>
    /\ s.pc = "init" => s.inbox = <<>>
    /\ s.pc \in Listening => s.inbox # <<>> /\ s.inbox[1].type = "init"

Informed(c) ==
  /\ InitAhead(client[c], Line(c))
  /\ client[c].phase \in {"open", "live"} /\ Line(c).pc \in Listening =>
       /\ Rising(client[c], Line(c).inbox)
       /\ \A v \in 1..document.version :
            \/ Knows(client[c], Line(c).inbox, v)
            \/ Line(c).pc # "join" /\ Underway(Key(c), v)

InformedInv ==
  /\ \A p \in Procs : relay[p].up
  /\ stage = "live" => \A c \in Clients : Informed(c)

(* What a tab has been told of is in the document's past.                   *)
LEMMA ToldSoFar ==
  ASSUME TypeInv, FlightInv, SettledInv, stage = "live", NEW c \in Clients,
         client[c].phase \in {"open", "live"}
  PROVE  /\ \A i \in 1..Len(Line(c).inbox) :
              Fresh(Line(c).inbox[i]) \/ Change(Line(c).inbox[i]) =>
                Line(c).inbox[i].version \in Nat /\ Line(c).inbox[i].version <= document.version
         /\ client[c].phase = "live" =>
              client[c].versionRef \in Nat /\ client[c].versionRef <= document.version
<1> DEFINE s == Line(c)
<1>1. /\ s \in Socket /\ s.inbox \in Seq(Payload) /\ SocketSound(changes, s)
      /\ TabSound(changes, client[c], s)
  BY SoundTypes DEF Socket, SettledInv
<1>2. \A r \in changes : r.version \in Nat /\ r.version <= document.version
  BY SoundTypes DEF SettledInv, LogSound
<1>3. client[c].phase = "open" => Silent(s)
  BY DEF FlightInv, TabInFlight
<1> HIDE DEF s
<1>4. client[c].phase = "live" =>
        client[c].versionRef \in Nat /\ client[c].versionRef <= document.version
  BY <1>1, <1>2 DEF TabSound, EditorSound
<1>5. ASSUME NEW i \in 1..Len(s.inbox), Fresh(s.inbox[i]) \/ Change(s.inbox[i])
      PROVE  s.inbox[i].version \in Nat /\ s.inbox[i].version <= document.version
  <2>1. MessageSound(changes, s.inbox[i])
    BY <1>1 DEF SocketSound, InboxSound
  <2>2. CASE Fresh(s.inbox[i]) \/ s.inbox[i].type = "edit"
    BY <1>2, <2>1, <2>2 DEF Fresh, MessageSound, ShownIn, SaidIn
  <2>3. CASE s.inbox[i].type = "edit_ack"
    <3>1. client[c].phase = "live"
      BY <1>3, <2>3 DEF Silent, NoneOf, Answers
    <3>2. Accepted(changes, client[c], s.inbox[i].version)
      BY <1>1, <2>3, <3>1 DEF TabSound, LineSound
    <3> QED
      BY <1>2, <3>2 DEF Accepted
  <2> QED
    BY <1>5, <2>2, <2>3 DEF Change
<1> QED
  BY <1>4, <1>5 DEF s

(* One more message tells the tab no less.                                  *)
LEMMA HearsMore ==
  ASSUME NEW cl, NEW q \in Seq(Payload), NEW m \in Payload
  PROVE  /\ \A v : Knows(cl, q, v) \/ Tells(m, v) => Knows(cl, Append(q, m), v)
         /\ /\ Rising(cl, q)
            /\ Fresh(m) => /\ m.version \in Nat
                           /\ cl.phase = "live" => cl.versionRef <= m.version
                           /\ \A i \in 1..Len(q) : Fresh(q[i]) \/ Change(q[i]) => q[i].version <= m.version
            => Rising(cl, Append(q, m))
         /\ q # <<>> => Append(q, m) # <<>> /\ Append(q, m)[1] = q[1]
<1>1. /\ Len(q) \in Nat /\ Len(Append(q, m)) = Len(q) + 1 /\ Append(q, m)[Len(q) + 1] = m
      /\ \A i \in 1..Len(q) : Append(q, m)[i] = q[i]
  BY LenProperties, AppendProperties
<1>2. \A v : Knows(cl, q, v) \/ Tells(m, v) => Knows(cl, Append(q, m), v)
  BY <1>1 DEF Knows
<1>3. ASSUME Rising(cl, q),
             Fresh(m) => /\ m.version \in Nat
                         /\ cl.phase = "live" => cl.versionRef <= m.version
                         /\ \A i \in 1..Len(q) : Fresh(q[i]) \/ Change(q[i]) => q[i].version <= m.version
      PROVE  Rising(cl, Append(q, m))
  <2>1. SUFFICES ASSUME NEW l \in 1..Len(q) + 1, Fresh(Append(q, m)[l])
                 PROVE  /\ cl.phase = "live" => cl.versionRef <= Append(q, m)[l].version
                        /\ \A i \in 1..l : Fresh(Append(q, m)[i]) \/ Change(Append(q, m)[i])
                                             => Append(q, m)[i].version <= Append(q, m)[l].version
    BY <1>1 DEF Rising
  <2>2. CASE l \in 1..Len(q)
    <3>1. \A i \in 1..l : i \in 1..Len(q)
      BY <1>1, <2>2
    <3> QED
      BY <1>1, <1>3, <2>1, <2>2, <3>1 DEF Rising
  <2>3. CASE l = Len(q) + 1
    <3>1. \A i \in 1..l : i \in 1..Len(q) \/ i = Len(q) + 1
      BY <1>1, <2>3
    <3>2. m.version <= m.version
      BY <1>1, <1>3, <2>1, <2>3
    <3> QED
      BY <1>1, <1>3, <2>1, <2>3, <3>1, <3>2
  <2> QED
    BY <1>1, <2>2, <2>3
<1>4. q # <<>> => Append(q, m) # <<>> /\ Append(q, m)[1] = q[1]
  <2>1. q # <<>> => 1 \in 1..Len(q)
    BY <1>1, EmptySeq, LenProperties
  <2>2. Append(q, m) # <<>>
    BY <1>1, EmptySeq
  <2> QED
    BY <1>1, <2>1, <2>2
<1> QED
  BY <1>2, <1>3, <1>4

(* A message read told the tab nothing, or took it to its version.          *)
LEMMA HearsLess ==
  ASSUME NEW cl, NEW dl, NEW q \in Seq(Payload), q # <<>>, Rising(cl, q),
         \/ /\ ~Fresh(Head(q)) /\ ~Change(Head(q))
            /\ dl.phase = cl.phase /\ dl.versionRef = cl.versionRef
         \/ /\ Fresh(Head(q)) \/ Change(Head(q))
            /\ dl.phase = "live" /\ dl.versionRef = Head(q).version /\ dl.versionRef \in Nat
            /\ cl.phase = "live" => cl.versionRef \in Nat /\ cl.versionRef <= Head(q).version
  PROVE  /\ Rising(dl, Tail(q))
         /\ \A v \in Nat : Knows(cl, q, v) => Knows(dl, Tail(q), v)
<1>1. /\ Len(q) \in Nat \ {0} /\ 1 \in 1..Len(q) /\ Head(q) = q[1]
      /\ Len(Tail(q)) = Len(q) - 1 /\ \A i \in 1..Len(Tail(q)) : Tail(q)[i] = q[i + 1]
  BY EmptySeq, LenProperties, HeadTailProperties
<1>2. /\ \A i \in 1..Len(Tail(q)) : i \in Nat /\ i + 1 \in 1..Len(q) /\ 1 \in 1..(i + 1)
      /\ \A i \in 1..Len(q) : i = 1 \/ (i - 1 \in 1..Len(Tail(q)) /\ Tail(q)[i - 1] = q[i])
  BY <1>1
<1>3. Rising(dl, Tail(q))
  <2>1. SUFFICES ASSUME NEW l \in 1..Len(Tail(q)), Fresh(q[l + 1])
                 PROVE  /\ dl.phase = "live" => dl.versionRef <= q[l + 1].version
                        /\ \A i \in 1..l : Fresh(q[i + 1]) \/ Change(q[i + 1])
                                             => q[i + 1].version <= q[l + 1].version
    <3>1. \A l \in 1..Len(Tail(q)) : \A i \in 1..l : i \in 1..Len(Tail(q))
      BY <1>1
    <3> QED
      BY <1>1, <3>1 DEF Rising
  <2>2. l + 1 \in 1..Len(q) /\ 1 \in 1..(l + 1) /\ \A i \in 1..l : i + 1 \in 1..(l + 1)
    BY <1>2
  <2>3. /\ cl.phase = "live" => cl.versionRef <= q[l + 1].version
        /\ Fresh(q[1]) \/ Change(q[1]) => q[1].version <= q[l + 1].version
        /\ \A i \in 1..l : Fresh(q[i + 1]) \/ Change(q[i + 1]) => q[i + 1].version <= q[l + 1].version
    BY <2>1, <2>2 DEF Rising
  <2> QED
    BY <1>1, <2>3
<1>4. ASSUME NEW v \in Nat, Knows(cl, q, v)
      PROVE  Knows(dl, Tail(q), v)
  <2>1. CASE cl.phase = "live" /\ v <= cl.versionRef
    BY <1>1, <2>1 DEF Knows
  <2>2. ASSUME NEW i \in 1..Len(q), Tells(q[i], v)
        PROVE  Knows(dl, Tail(q), v)
    <3>1. CASE i = 1
      BY <1>1, <2>2, <3>1 DEF Knows, Tells
    <3>2. CASE i # 1
      BY <1>2, <2>2, <3>2 DEF Knows
    <3> QED
      BY <3>1, <3>2
  <2> QED
    BY <1>4, <2>1, <2>2 DEF Knows
<1> QED
  BY <1>3, <1>4

(* What is on its way stays so until a queue, a handler or a session that   *)
(* accepted an edit moves.                                                  *)
LEMMA UnderwayStays ==
  ASSUME NEW k \in Conns, NEW v, Underway(k, v), relay' = relay, http \subseteq http',
         \A j \in Conns : conn[j].pc \in {"ack", "publish"} =>
                            conn'[j].pc = conn[j].pc /\ conn'[j].change = conn[j].change
  PROVE  Underway(k, v)'
BY DEF Underway, Queued, Posted, Accepting

(* A step that only says something on the tab's socket, and leaves every    *)
(* version known or on its way.                                             *)
LEMMA KeepsInformed ==
  ASSUME TypeInv, FlightInv, SettledInv, stage = "live", NEW c \in Clients, Informed(c),
         client'[c] = client[c], NEW k \in Conns, k = Key(c),
         LET s == conn[k] t == conn'[k] IN
         /\ \/ t.inbox = s.inbox
            \/ /\ t.pc # "init"
               /\ \E m \in Payload : /\ t.inbox = Append(s.inbox, m)
                                     /\ Fresh(m) => m.version = document.version
         /\ t.pc = "init" => s.pc = "init"
         /\ t.pc \in Listening => s.pc \in Listening
         /\ client[c].phase \in {"open", "live"} /\ t.pc \in Listening =>
              \A v \in 1..document'.version :
                \/ v \in 1..document.version /\ Knows(client[c], s.inbox, v)
                \/ Knows(client[c], t.inbox, v)
                \/ t.pc # "join" /\ Underway(k, v)'
  PROVE  Informed(c)'
<1> DEFINE s == conn[k]
           t == conn'[k]
           cl == client[c]
<1>1. /\ Line(c) = s /\ Line(c)' = t /\ Key(c)' = k /\ client'[c] = cl
      /\ s.inbox \in Seq(Payload) /\ document.version \in Nat
  BY SoundTypes, KeyTypes DEF Line, Key, Socket
<1>2. \/ t.inbox = s.inbox
      \/ /\ t.pc # "init"
         /\ \E m \in Payload : t.inbox = Append(s.inbox, m) /\ (Fresh(m) => m.version = document.version)
  OBVIOUS
<1>3. t.pc = "init" => s.pc = "init"
  OBVIOUS
<1>4. t.pc \in Listening => s.pc \in Listening
  OBVIOUS
<1>5. cl.phase \in {"open", "live"} =>
        /\ \A i \in 1..Len(s.inbox) : Fresh(s.inbox[i]) \/ Change(s.inbox[i]) =>
             s.inbox[i].version <= document.version
        /\ cl.phase = "live" => cl.versionRef <= document.version
  BY <1>1, ToldSoFar
<1>6. InitAhead(cl, s) /\ (cl.phase \in {"open", "live"} /\ s.pc \in Listening => Rising(cl, s.inbox))
  BY <1>1 DEF Informed
<1>7. /\ cl.phase \in {"open", "live"} /\ t.pc \in Listening =>
           \A v \in 1..document'.version :
             \/ Knows(cl, s.inbox, v)
             \/ Knows(cl, t.inbox, v)
             \/ t.pc # "join" /\ Underway(k, v)'
  OBVIOUS
<1> HIDE DEF s, t, cl
<1>8. \A v : Knows(cl, s.inbox, v) => Knows(cl, t.inbox, v)
  BY <1>1, <1>2, HearsMore
<1>9. InitAhead(cl, t)
  BY <1>1, <1>2, <1>3, <1>4, <1>6, HearsMore DEF InitAhead
<1>10. cl.phase \in {"open", "live"} /\ t.pc \in Listening => Rising(cl, t.inbox)
  BY <1>1, <1>2, <1>4, <1>5, <1>6, HearsMore
<1>11. cl.phase \in {"open", "live"} /\ t.pc \in Listening =>
        \A v \in 1..document'.version :
           Knows(cl, t.inbox, v) \/ (t.pc # "join" /\ Underway(k, v)')
  BY <1>7, <1>8
<1>12. \A v : Underway(k, v)' => Underway(Key(c), v)'
  BY <1>1
<1> QED
  BY <1>1, <1>9, <1>10, <1>11, <1>12 DEF Informed

(* A step of a tab, in its parts.                                           *)
TabActs(c) ==
  \/ Type(c) \/ SendTimer(c) \/ Open(c) \/ SocketLost(c) \/ Retry(c) \/ Online(c) \/ Receive(c)

(* A tab's step leaves what a session has accepted with the session.        *)
LEMMA TabSessions ==
  ASSUME TypeInv, FlightInv, NEW c \in Clients, TabActs(c)
  PROVE  \A j \in Conns : conn[j].pc \in {"ack", "publish"} =>
                             conn'[j].pc = conn[j].pc /\ conn'[j].change = conn[j].change
<1> DEFINE k == Key(c)
           s == conn[k]
           Same == conn'[k].pc = s.pc /\ conn'[k].change = s.change
<1>1. /\ k = <<c, client[c].socket>> /\ k = <<client[c].me, client[c].socket>> /\ k \in Conns
      /\ conn \in [Conns -> Socket] /\ s \in Socket /\ client \in [Clients -> Tab]
  BY KeyTypes DEF Key, ConnTypes, TabTypes
<1>2. TabMoves(c)
  BY TabSteps DEF TabActs
<1>3. CASE Type(c) \/ Retry(c)
  BY <1>3 DEF Type, Retry
<1>4. CASE SendTimer(c)
  <2>1. conn' = [conn EXCEPT ![k].outbox = @ \o Outgoing(client[c])]
    BY <1>1, <1>4 DEF SendTimer
  <2>2. Same
    BY <1>1, <2>1 DEF Socket
  <2> QED
    BY <1>2, <2>2 DEF TabMoves
<1>5. CASE Open(c)
  <2>1. s.pc = "none"
    <3>1. client[c].socket \in 1..MaxConnects /\ client[c].phase = "ticket"
      BY <1>1, <1>5 DEF Open, Tab
    <3>2. Unopened(c, client[c].socket)
      BY <3>1 DEF Unopened
    <3> QED
      BY <1>1, <3>1, <3>2 DEF FlightInv, TabInFlight, Unused
  <2> QED
    BY <1>2, <2>1 DEF TabMoves
<1>6. CASE SocketLost(c) \/ Online(c) \/ Resync(c) \/ OnDeleted(c) \/ OnClose(c)
  <2>1. conn' = [conn EXCEPT ![k].inbox = <<>>]
    BY <1>1, <1>6 DEF SocketLost, Online, Resync, OnDeleted, OnClose, Detached
  <2>2. Same
    BY <1>1, <2>1 DEF Socket
  <2> QED
    BY <1>2, <2>2 DEF TabMoves
<1>7. CASE OnInit(c) \/ OnRemoteContent(c) \/ OnRemoteSteps(c) \/ OnRejected(c) \/ OnError(c)
  <2>1. conn' = [conn EXCEPT ![k].inbox = Tail(@)]
    BY <1>1, <1>7 DEF OnInit, OnRemoteContent, OnRemoteSteps, OnRejected, OnError, Read
  <2>2. Same
    BY <1>1, <2>1 DEF Socket
  <2> QED
    BY <1>2, <2>2 DEF TabMoves
<1>8. CASE OnAck(c)
  <2> DEFINE cl == [client[c] EXCEPT !.awaitingAck = FALSE, !.versionRef = Message(c).version]
  <2>1. cl.socket = client[c].socket
    BY <1>1 DEF Tab
  <2>2. conn' = [Read(c) EXCEPT ![k].outbox = @ \o Outgoing(cl)]
    BY <1>1, <1>8, <2>1 DEF OnAck
  <2> HIDE DEF cl
  <2>3. Read(c) = [conn EXCEPT ![k].inbox = Tail(@)]
    BY <1>1 DEF Read
  <2>4. Same
    BY <1>1, <2>2, <2>3 DEF Socket
  <2> QED
    BY <1>2, <2>4 DEF TabMoves
<1> QED
  BY <1>3, <1>4, <1>5, <1>6, <1>7, <1>8 DEF TabActs, Receive

(* Another tab's step leaves it informed.  *)
LEMMA OthersKeepInformed ==
  ASSUME TypeInv, FlightInv, SettledInv, stage = "live", NEW c \in Clients, Informed(c),
         NEW d \in Clients, d # c, TabActs(d)
  PROVE  Informed(c)'
<1>1. PICK k \in Conns : k = Key(c)
  BY KeyTypes
<1>2. k # Key(d) /\ Line(c) = conn[k]
  BY <1>1 DEF Key, Line
<1>3. /\ client'[c] = client[c] /\ conn'[k] = conn[k]
      /\ relay' = relay /\ http' = http /\ document' = document
      /\ \A j \in Conns : j # Key(d) => conn'[j] = conn[j]
  BY <1>1, <1>2, TabSteps DEF TabActs, TabMoves, ServerUnchanged
<1>4. \A j \in Conns : conn[j].pc \in {"ack", "publish"} =>
                         conn'[j].pc = conn[j].pc /\ conn'[j].change = conn[j].change
  BY TabSessions
<1>5. \A v : Underway(k, v) => Underway(k, v)'
  BY <1>3, <1>4, UnderwayStays
<1> QED
  BY <1>1, <1>2, <1>3, <1>5, KeepsInformed DEF Informed

(* A tab that stays on its socket, and reads at most a message that tells   *)
(* it the next version or a document.                                       *)
LEMMA OwnKeepsInformed ==
  ASSUME TypeInv, FlightInv, SettledInv, stage = "live", NEW c \in Clients, Informed(c),
         TabActs(c), NEW k \in Conns, k = Key(c), client'[c].socket = client[c].socket,
         LET s == conn[k] t == conn'[k] cl == client[c] dl == client'[c] IN
         /\ t.pc = s.pc
         /\ \/ t.inbox = s.inbox /\ dl.phase = cl.phase /\ dl.versionRef = cl.versionRef
            \/ /\ cl.phase \in {"open", "live"} /\ s.inbox # <<>> /\ t.inbox = Tail(s.inbox)
               /\ \/ /\ ~Fresh(Head(s.inbox)) /\ ~Change(Head(s.inbox))
                     /\ dl.phase = cl.phase /\ dl.versionRef = cl.versionRef
                  \/ /\ Fresh(Head(s.inbox)) \/ Change(Head(s.inbox))
                     /\ dl.versionRef = Head(s.inbox).version
                     /\ dl.phase = IF Head(s.inbox).type = "init" THEN "live" ELSE cl.phase
                     /\ cl.phase = "live" /\ Change(Head(s.inbox)) =>
                          Head(s.inbox).version = cl.versionRef + 1
  PROVE  Informed(c)'
<1> DEFINE s == conn[k]
           t == conn'[k]
           cl == client[c]
           dl == client'[c]
           Still == t.inbox = s.inbox /\ dl.phase = cl.phase /\ dl.versionRef = cl.versionRef
           Plain == /\ cl.phase \in {"open", "live"} /\ s.inbox # <<>> /\ t.inbox = Tail(s.inbox)
                    /\ ~Fresh(Head(s.inbox)) /\ ~Change(Head(s.inbox))
                    /\ dl.phase = cl.phase /\ dl.versionRef = cl.versionRef
           Told == /\ cl.phase \in {"open", "live"} /\ s.inbox # <<>> /\ t.inbox = Tail(s.inbox)
                   /\ Fresh(Head(s.inbox)) \/ Change(Head(s.inbox))
                   /\ dl.versionRef = Head(s.inbox).version
                   /\ dl.phase = IF Head(s.inbox).type = "init" THEN "live" ELSE cl.phase
                   /\ cl.phase = "live" /\ Change(Head(s.inbox)) =>
                        Head(s.inbox).version = cl.versionRef + 1
<1>1. /\ Line(c) = s /\ Line(c)' = t /\ Key(c)' = k /\ client'[c] = dl /\ client[c] = cl
      /\ s.inbox \in Seq(Payload) /\ document.version \in Nat /\ cl.phase \in Phases
  BY SoundTypes, KeyTypes DEF Line, Key, Socket, Tab
<1>2. t.pc = s.pc /\ (Still \/ Plain \/ Told)
  OBVIOUS
<1>3. cl.phase \in {"open", "live"} =>
        /\ \A i \in 1..Len(s.inbox) : Fresh(s.inbox[i]) \/ Change(s.inbox[i]) =>
             s.inbox[i].version \in Nat
        /\ cl.phase = "live" => cl.versionRef \in Nat
  BY <1>1, ToldSoFar
<1>4. /\ InitAhead(cl, s)
      /\ cl.phase \in {"open", "live"} /\ s.pc \in Listening =>
           /\ Rising(cl, s.inbox)
           /\ \A v \in 1..document.version :
                Knows(cl, s.inbox, v) \/ (s.pc # "join" /\ Underway(k, v))
  BY <1>1 DEF Informed
<1>5. document' = document /\ \A v : Underway(k, v) => Underway(k, v)'
  <2>1. relay' = relay /\ http' = http /\ document' = document
    BY TabSteps DEF TabActs, TabMoves, ServerUnchanged
  <2> QED
    BY <2>1, TabSessions, UnderwayStays
<1> HIDE DEF s, t, cl, dl
<1>6. s.inbox # <<>> => 1 \in 1..Len(s.inbox) /\ Head(s.inbox) = s.inbox[1] /\ 1 \in 1..1
  BY <1>1, QueueParts
<1>7. ASSUME dl.phase \in {"open", "live"}, t.pc \in Listening
      PROVE  /\ Rising(dl, t.inbox)
             /\ \A v \in Nat : Knows(cl, s.inbox, v) => Knows(dl, t.inbox, v)
             /\ dl.phase = "open" => t.inbox # <<>> /\ t.inbox[1].type = "init"
  <2>1. cl.phase = "open" => s.inbox # <<>> /\ s.inbox[1].type = "init"
    BY <1>2, <1>4, <1>7 DEF InitAhead
  <2>2. CASE Still
    BY <1>2, <1>4, <1>7, <2>1, <2>2 DEF Rising, Knows
  <2>3. CASE Plain
    <3>1. cl.phase = "live" /\ Rising(cl, s.inbox)
      BY <1>2, <1>4, <1>6, <1>7, <2>1, <2>3 DEF Fresh
    <3> QED
      BY <1>1, <2>3, <3>1, HearsLess
  <2>4. CASE Told
    <3>1. cl.phase \in {"open", "live"} /\ dl.phase = "live"
      BY <1>1, <1>6, <1>7, <2>1, <2>4 DEF Phases
    <3>2. Rising(cl, s.inbox)
      BY <1>2, <1>4, <1>7, <3>1
    <3>3. Head(s.inbox).version \in Nat /\ (cl.phase = "live" => cl.versionRef \in Nat)
      BY <1>3, <1>6, <2>4, <3>1
    <3>4. cl.phase = "live" => cl.versionRef <= Head(s.inbox).version
      <4>1. CASE Fresh(Head(s.inbox))
        BY <1>6, <2>4, <3>2, <4>1 DEF Rising
      <4>2. CASE Change(Head(s.inbox))
        BY <2>4, <3>3, <4>2
      <4> QED
        BY <2>4, <4>1, <4>2
    <3> QED
      BY <1>1, <2>4, <3>1, <3>2, <3>3, <3>4, HearsLess
  <2> QED
    BY <1>2, <2>2, <2>3, <2>4
<1>8. dl.phase = "open" /\ t.pc = "init" => t.inbox = <<>>
  <2>1. ASSUME dl.phase = "open", t.pc = "init"
        PROVE  t.inbox = <<>>
    <3>1. cl.phase = "open" /\ s.pc = "init"
      BY <1>2, <2>1
    <3> QED
      BY <1>2, <1>4, <3>1 DEF InitAhead
  <2> QED
    BY <2>1
<1>9. InitAhead(dl, t)
  BY <1>7, <1>8 DEF InitAhead
<1>10. ASSUME dl.phase \in {"open", "live"}, t.pc \in Listening
       PROVE  \A v \in 1..document'.version :
                Knows(dl, t.inbox, v) \/ (t.pc # "join" /\ Underway(k, v)')
  <2>1. cl.phase \in {"open", "live"} /\ s.pc \in Listening
    BY <1>2, <1>10
  <2>2. \A v \in 1..document'.version : v \in Nat /\ v \in 1..document.version
    BY <1>1, <1>5
  <2>3. \A v \in 1..document.version : Knows(cl, s.inbox, v) \/ (s.pc # "join" /\ Underway(k, v))
    BY <1>4, <2>1
  <2> QED
    BY <1>2, <1>5, <1>7, <1>10, <2>2, <2>3
<1>11. \A v : Underway(k, v)' => Underway(Key(c), v)'
  BY <1>1
<1> QED
  BY <1>1, <1>7, <1>9, <1>10, <1>11 DEF Informed

(* A tab's own step.                                                        *)
LEMMA TabKeepsInformed ==
  ASSUME TypeInv, FlightInv, SettledInv, stage = "live", OnlineEvents = FALSE, InOrder,
         NEW c \in Clients, Informed(c), TabActs(c)
  PROVE  Informed(c)'
<1>1. PICK k \in Conns : k = Key(c)
  BY KeyTypes
<1> DEFINE s == conn[k]
           t == conn'[k]
           cl == client[c]
           dl == client'[c]
<1>2. /\ k = <<c, cl.socket>> /\ k = <<cl.me, cl.socket>> /\ cl \in Tab
      /\ conn \in [Conns -> Socket] /\ s \in Socket /\ client \in [Clients -> Tab]
      /\ Line(c) = s
  BY <1>1, KeyTypes DEF Key, ConnTypes, TabTypes, Line
<1>3. TabMoves(c)
  BY TabSteps DEF TabActs
<1>4. CASE SocketLost(c) \/ Retry(c) \/ Online(c) \/ Resync(c) \/ OnDeleted(c) \/ OnClose(c)
  <2>1. client'[c].phase \notin {"open", "live"}
    <3>1. CASE SocketLost(c)
      BY <1>2, <3>1 DEF SocketLost, Tab
    <3>2. CASE Retry(c)
      BY <1>2, <3>2 DEF Retry, Connecting, Tab
    <3>3. CASE Resync(c)
      BY <1>2, <3>3 DEF Resync, Connecting, Tab
    <3>4. CASE OnDeleted(c)
      BY <1>2, <3>4 DEF OnDeleted, Stopped, Tab
    <3>5. CASE OnClose(c)
      BY <1>2, <3>5 DEF OnClose, Tab
    <3> QED
      BY <1>4, <3>1, <3>2, <3>3, <3>4, <3>5 DEF Online
  <2> QED
    BY <2>1 DEF Informed, InitAhead
<1>5. CASE Open(c)
  <2>1. /\ cl.phase = "ticket" /\ dl.phase = "open" /\ dl.socket = cl.socket
        /\ conn' = [conn EXCEPT ![k].pc = "init"]
    BY <1>2, <1>5 DEF Open, Tab
  <2>2. t.pc = "init" /\ t.inbox = s.inbox
    BY <1>2, <2>1 DEF Socket
  <2>3. s.inbox = <<>>
    <3>1. cl.socket \in 1..MaxConnects /\ Unopened(c, cl.socket)
      BY <1>2, <2>1 DEF Tab, Unopened
    <3> QED
      BY <1>2, <3>1 DEF FlightInv, TabInFlight, Unused
  <2>4. Line(c)' = t
    BY <1>2, <2>1 DEF Line
  <2> QED
    BY <2>1, <2>2, <2>3, <2>4 DEF Informed, InitAhead, Listening
<1>6. CASE Type(c) \/ SendTimer(c)
  <2>1. /\ dl.socket = cl.socket /\ dl.phase = cl.phase /\ dl.versionRef = cl.versionRef
    <3>1. CASE Type(c)
      BY <1>2, <3>1 DEF Type, Tab
    <3>2. CASE SendTimer(c)
      BY <1>2, <3>2 DEF SendTimer, Flushed, Tab
    <3> QED
      BY <1>6, <3>1, <3>2
  <2>2. conn' = conn \/ conn' = [conn EXCEPT ![k].outbox = @ \o Outgoing(cl)]
    BY <1>2, <1>6 DEF Type, SendTimer
  <2>3. t.pc = s.pc /\ t.inbox = s.inbox
    BY <1>2, <2>2 DEF Socket
  <2> QED
    BY <1>1, <2>1, <2>3, OwnKeepsInformed
<1>7. ASSUME NEW ty, HasMessage(c, ty)
      PROVE  /\ cl.phase \in {"open", "live"} /\ s.inbox # <<>>
             /\ Message(c) = Head(s.inbox) /\ Message(c).type = ty
  BY <1>1, <1>7, MessageTypes
<1>8. CASE OnInit(c) \/ OnRemoteContent(c) \/ OnRemoteSteps(c) \/ OnRejected(c) \/ OnError(c)
  <2>1. conn' = [conn EXCEPT ![k].inbox = Tail(@)]
    BY <1>2, <1>8 DEF OnInit, OnRemoteContent, OnRemoteSteps, OnRejected, OnError, Read
  <2>2. t.pc = s.pc /\ t.inbox = Tail(s.inbox)
    BY <1>2, <2>1 DEF Socket
  <2>3. CASE OnInit(c)
    <3>1. /\ dl.socket = cl.socket /\ dl.phase = "live" /\ dl.versionRef = Message(c).version
          /\ HasMessage(c, "init")
      BY <1>2, <2>3 DEF OnInit, Tab
    <3> QED
      BY <1>1, <1>7, <2>2, <3>1, OwnKeepsInformed DEF Fresh, Change
  <2>4. CASE OnRejected(c)
    <3>1. /\ dl.socket = cl.socket /\ dl.phase = cl.phase /\ dl.versionRef = Message(c).version
          /\ HasMessage(c, "rejected")
      BY <1>2, <2>4 DEF OnRejected, Tab
    <3> QED
      BY <1>1, <1>7, <2>2, <3>1, OwnKeepsInformed DEF Fresh, Change
  <2>5. CASE OnRemoteContent(c) \/ OnRemoteSteps(c)
    <3>1. /\ dl.socket = cl.socket /\ dl.phase = cl.phase /\ dl.versionRef = Message(c).version
          /\ HasMessage(c, "edit")
      BY <1>2, <2>5 DEF OnRemoteContent, OnRemoteSteps, Tab
    <3>2. Message(c).version = cl.versionRef + 1
      BY <2>5 DEF InOrder
    <3> QED
      BY <1>1, <1>7, <2>2, <3>1, <3>2, OwnKeepsInformed DEF Fresh, Change
  <2>6. CASE OnError(c)
    <3>1. dl = cl /\ HasMessage(c, "error")
      BY <2>6 DEF OnError
    <3> QED
      BY <1>1, <1>7, <2>2, <3>1, OwnKeepsInformed DEF Fresh, Change
  <2> QED
    BY <1>8, <2>3, <2>4, <2>5, <2>6
<1>9. CASE OnAck(c)
  <2> DEFINE nl == [cl EXCEPT !.awaitingAck = FALSE, !.versionRef = Message(c).version]
  <2>1. nl.socket = cl.socket /\ nl.phase = cl.phase /\ nl.versionRef = Message(c).version
    BY <1>2 DEF Tab
  <2>2. /\ conn' = [Read(c) EXCEPT ![k].outbox = @ \o Outgoing(nl)] /\ HasMessage(c, "edit_ack")
        /\ dl = Flushed(nl)
    BY <1>2, <1>9, <2>1 DEF OnAck
  <2>3. Flushed(nl).socket = nl.socket /\ Flushed(nl).phase = nl.phase
        /\ Flushed(nl).versionRef = nl.versionRef
    BY <1>2 DEF Flushed, Tab
  <2> HIDE DEF nl
  <2>4. Read(c) = [conn EXCEPT ![k].inbox = Tail(@)]
    BY <1>2 DEF Read
  <2>5. t.pc = s.pc /\ t.inbox = Tail(s.inbox)
    BY <1>2, <2>2, <2>4 DEF Socket
  <2>6. cl.phase = "live" => Message(c).version = cl.versionRef + 1
    <3>1. TabSound(changes, cl, s) /\ s.inbox \in Seq(Payload)
      BY <1>2 DEF SettledInv, Socket
    <3>2. 1 \in 1..Len(s.inbox) /\ Head(s.inbox) = s.inbox[1]
      BY <1>7, <2>2, <3>1, QueueParts
    <3> QED
      BY <1>7, <2>2, <3>1, <3>2 DEF TabSound, LineSound, Accepted
  <2> QED
    BY <1>1, <1>7, <2>1, <2>2, <2>3, <2>5, <2>6, OwnKeepsInformed DEF Fresh, Change
<1> QED
  BY <1>4, <1>5, <1>6, <1>8, <1>9 DEF TabActs, Receive

(* A session that has accepted nothing speaks, or ends when its tab is gone. *)
LEMMA SpeakingKeepsInformed ==
  ASSUME TypeInv, FlightInv, SettledInv, stage = "live", NEW c \in Clients, Informed(c),
         client[c].phase \in {"open", "live"}, NEW k \in Conns, conn[k].pc \notin {"ack", "publish"},
         UNCHANGED <<document, relay, http, client>>,
         \A j \in Conns : j # k => conn'[j] = conn[j],
         k = Key(c) =>
           /\ conn[k].pc \in Listening
           /\ conn'[k].pc # "init"
           /\ \/ conn'[k].inbox = conn[k].inbox
              \/ \E m \in Payload : /\ conn'[k].inbox = Append(conn[k].inbox, m)
                                    /\ Fresh(m) => m.version = document.version
           /\ conn'[k].pc = "join" => conn[k].pc = "join"
  PROVE  Informed(c)'
<1>1. PICK i \in Conns : i = Key(c)
  BY KeyTypes
<1>2. client'[c] = client[c] /\ document' = document /\ Line(c) = conn[i]
  BY <1>1 DEF Line, Key
<1>3. \A v : Underway(i, v) => Underway(i, v)'
  BY UnderwayStays
<1>4. CASE i = k
  <2>1. \/ conn'[i].inbox = conn[i].inbox
        \/ conn'[i].pc # "init" /\ \E m \in Payload : /\ conn'[i].inbox = Append(conn[i].inbox, m)
                                                      /\ Fresh(m) => m.version = document.version
    BY <1>1, <1>4
  <2>2. /\ conn'[i].pc = "init" => conn[i].pc = "init"
        /\ conn'[i].pc \in Listening => conn[i].pc \in Listening
    BY <1>1, <1>4
  <2>3. conn'[i].pc \in Listening => \A v \in 1..document'.version :
            \/ v \in 1..document.version /\ Knows(client[c], conn[i].inbox, v)
            \/ Knows(client[c], conn'[i].inbox, v)
            \/ conn'[i].pc # "join" /\ Underway(i, v)'
    BY <1>1, <1>2, <1>3, <1>4 DEF Informed
  <2> QED
    BY <1>1, <1>2, <2>1, <2>2, <2>3, KeepsInformed
<1>5. CASE i # k
  BY <1>1, <1>2, <1>3, <1>5, KeepsInformed DEF Informed
<1> QED
  BY <1>4, <1>5

(* `init` brings the tab every version there has been.                      *)
LEMMA GreetingInforms ==
  ASSUME TypeInv, FlightInv, SettledInv, stage = "live", NEW c \in Clients, Informed(c),
         client[c].phase \in {"open", "live"}, SendInit(Key(c))
  PROVE  Informed(c)'
<1>1. PICK k \in Conns : k = Key(c)
  BY KeyTypes
<1> DEFINE cs == [conn EXCEPT ![k].pc = "join"]
           m == [type |-> "init", version |-> document.version, content |-> document.content]
           s == conn[k]
           t == conn'[k]
<1>2. /\ conn \in [Conns -> Socket] /\ s \in Socket /\ Line(c) = s /\ Current(k)
      /\ document.version \in Version /\ document.version \in Nat /\ document.content \in Text
      /\ client[c].me = c /\ client[c].phase \in Phases
  BY <1>1, KeyTypes, SoundTypes DEF ConnTypes, Line, Key, Current, TypeInv, DocTypes, Tab
<1>3. s.pc = "init" /\ conn' = Pushed(cs, k, m) /\ UNCHANGED <<document, client>>
  BY <1>1 DEF SendInit
<1>4. client[c].phase = "open"
  BY <1>2, <1>3 DEF FlightInv, TabInFlight, InitOver
<1>5. s.inbox = <<>>
  BY <1>2, <1>3, <1>4 DEF Informed, InitAhead
<1>6. cs \in [Conns -> Socket] /\ cs[k].pc = "join" /\ cs[k].inbox = s.inbox
  BY <1>2 DEF Socket, PCs
<1>7. /\ m \in Payload /\ m.type = "init" /\ Fresh(m) /\ m.version = document.version
  BY <1>2 DEF Payload, Answer, Fresh
<1> HIDE DEF cs, m
<1>8. t.pc = "join" /\ t.inbox = Append(s.inbox, m)
  <2>1. Pushed(cs, k, m) = [cs EXCEPT ![k].inbox = Append(@, m)]
    BY <1>2 DEF Pushed
  <2> QED
    BY <1>3, <1>6, <2>1 DEF Socket
<1>9. Line(c)' = t /\ client'[c] = client[c] /\ document' = document
  BY <1>1, <1>3 DEF Line, Key
<1>10. Len(t.inbox) = 1 /\ t.inbox[1] = m /\ t.inbox # <<>>
  <2>1. t.inbox = <<m>>
    BY <1>5, <1>8
  <2> QED
    BY <2>1
<1> HIDE DEF s, t
<1>11. Rising(client[c], t.inbox)
  <2>1. \A l \in 1..Len(t.inbox) : l = 1 /\ \A i \in 1..l : i = 1
    BY <1>10
  <2>2. m.version <= m.version
    BY <1>2, <1>7
  <2> QED
    BY <1>4, <1>10, <2>1, <2>2 DEF Rising
<1>12. \A v \in 1..document.version : Knows(client[c], t.inbox, v)
  <2>1. 1 \in 1..Len(t.inbox)
    BY <1>10
  <2> QED
    BY <1>7, <1>10, <2>1 DEF Knows, Tells
<1> QED
  BY <1>4, <1>7, <1>8, <1>9, <1>10, <1>11, <1>12 DEF Informed, InitAhead

(* The acknowledgement tells the tab whose edit it is, and the publish to   *)
(* come all others.                                                         *)
LEMMA AckKeepsInformed ==
  ASSUME TypeInv, FlightInv, SettledInv, stage = "live", NEW c \in Clients, Informed(c),
         client[c].phase \in {"open", "live"}, NEW k \in Conns, SendAck(k)
  PROVE  Informed(c)'
<1>1. PICK i \in Conns : i = Key(c)
  BY KeyTypes
<1> DEFINE cs == [conn EXCEPT ![k].pc = "publish"]
           m == [type |-> "edit_ack", version |-> conn[k].change.version]
<1>2. /\ conn \in [Conns -> Socket] /\ conn[k] \in Socket /\ conn[i] \in Socket /\ Line(c) = conn[i]
      /\ Current(i)
  BY <1>1, KeyTypes, SoundTypes DEF ConnTypes, Line, Key, Current
<1>3. /\ conn[k].pc = "ack" /\ conn' = Pushed(cs, k, m) /\ client' = client /\ document' = document
      /\ relay' = relay /\ http' = http
  BY DEF SendAck
<1>4. m \in Payload /\ ~Fresh(m) /\ Change(m) /\ m.version = conn[k].change.version
  <2>1. conn[k].change \in EditMsg
    BY <1>3, SoundTypes
  <2> QED
    BY <2>1 DEF Payload, Answer, EditMsg, Fresh, Change
<1>5. /\ cs \in [Conns -> Socket] /\ cs[k].pc = "publish" /\ cs[k].inbox = conn[k].inbox
      /\ cs[k].change = conn[k].change /\ \A j \in Conns : j # k => cs[j] = conn[j]
  BY <1>2 DEF Socket, PCs
<1> HIDE DEF cs, m
<1>6. /\ \A j \in Conns : j # k => conn'[j] = conn[j]
      /\ conn'[k].pc = "publish" /\ conn'[k].change = conn[k].change
  BY <1>3, <1>4, <1>5, PushedIs
<1>7. CASE i = k
  <2>1. conn'[i].inbox = Append(conn[i].inbox, m)
    <3>1. Pushed(cs, k, m) = [cs EXCEPT ![k].inbox = Append(@, m)]
      BY <1>2, <1>7 DEF Pushed
    <3> QED
      BY <1>3, <1>5, <1>7, <3>1 DEF Socket
  <2>2. ASSUME NEW v, Underway(i, v)
        PROVE  Knows(client[c], conn'[i].inbox, v) \/ Underway(i, v)'
    <3>1. CASE Queued(i, v) \/ Posted(v)
      BY <1>3, <3>1 DEF Underway, Queued, Posted
    <3>2. ASSUME NEW j \in Conns, conn[j].pc \in {"ack", "publish"}, conn[j].change.version = v, j # k
          PROVE  Underway(i, v)'
      BY <1>6, <1>7, <3>2 DEF Underway, Accepting
    <3>3. CASE conn[k].change.version = v
      <4>1. Tells(m, v)
        BY <1>4, <3>3 DEF Tells
      <4>2. conn[i].inbox \in Seq(Payload)
        BY <1>2 DEF Socket
      <4> QED
        BY <1>4, <2>1, <4>1, <4>2, HearsMore
    <3> QED
      BY <2>2, <3>1, <3>2, <3>3 DEF Underway, Accepting
  <2>3. /\ conn'[i].pc = "publish" /\ conn[i].pc \in Listening /\ conn'[i].pc \in Listening
    BY <1>3, <1>6, <1>7 DEF Listening
  <2>4. \A v \in 1..document'.version :
            \/ v \in 1..document.version /\ Knows(client[c], conn[i].inbox, v)
            \/ Knows(client[c], conn'[i].inbox, v)
            \/ conn'[i].pc # "join" /\ Underway(i, v)'
    BY <1>1, <1>2, <1>3, <2>2, <2>3 DEF Informed
  <2> QED
    BY <1>1, <1>3, <1>4, <2>1, <2>3, <2>4, KeepsInformed
<1>8. CASE i # k
  <2>1. ASSUME NEW v, Underway(i, v)
        PROVE  Underway(i, v)'
    <3>1. CASE Queued(i, v) \/ Posted(v)
      BY <1>3, <3>1 DEF Underway, Queued, Posted
    <3>2. ASSUME NEW j \in Conns, conn[j].pc \in {"ack", "publish"}, conn[j].change.version = v,
                 j = i => conn[j].pc = "ack"
          PROVE  Underway(i, v)'
      BY <1>3, <1>6, <1>8, <3>2 DEF Underway, Accepting
    <3> QED
      BY <2>1, <3>1, <3>2 DEF Underway, Accepting
  <2>2. conn'[i] = conn[i] /\ client'[c] = client[c]
    BY <1>3, <1>6, <1>8
  <2> QED
    BY <1>1, <1>2, <1>3, <2>1, <2>2, KeepsInformed DEF Informed
<1> QED
  BY <1>7, <1>8

(* A new version is with the session that accepted it, or with the handler  *)
(* that wrote it, and nobody is in between `init` and hub.join.             *)
LEMMA CommitKeepsInformed ==
  ASSUME TypeInv, FlightInv, SettledInv, stage = "live", NEW c \in Clients, Informed(c),
         client[c].phase \in {"open", "live"}, client' = client, relay' = relay, http \subseteq http',
         NEW w, w = document.version + 1, document'.version = w, conn[Key(c)].pc # "join",
         \A j \in Conns : conn'[j].inbox = conn[j].inbox,
         \A j \in Conns : \/ conn'[j].pc = conn[j].pc /\ conn'[j].change = conn[j].change
                          \/ conn[j].pc = "loop" /\ conn'[j].pc = "ack",
         \A j \in Conns : Underway(j, w)'
  PROVE  Informed(c)'
<1>1. PICK i \in Conns : i = Key(c)
  BY KeyTypes
<1>2. Line(c) = conn[i] /\ client'[c] = client[c] /\ document.version \in Nat
  BY <1>1, SoundTypes
<1>3. \A v : Underway(i, v) => Underway(i, v)'
  BY UnderwayStays
<1>4. /\ conn'[i].inbox = conn[i].inbox /\ conn[i].pc # "join" /\ conn'[i].pc # "join"
      /\ conn'[i].pc = "init" => conn[i].pc = "init"
      /\ conn'[i].pc \in Listening => conn[i].pc \in Listening
  BY <1>1 DEF Listening
<1>5. \A v \in 1..document'.version : v \in 1..document.version \/ v = w
  BY <1>2
<1>6. conn'[i].pc \in Listening => \A v \in 1..document'.version :
          \/ v \in 1..document.version /\ Knows(client[c], conn[i].inbox, v)
          \/ Knows(client[c], conn'[i].inbox, v)
          \/ conn'[i].pc # "join" /\ Underway(i, v)'
  BY <1>1, <1>2, <1>3, <1>4, <1>5 DEF Informed
<1> QED
  BY <1>1, <1>2, <1>4, <1>6, KeepsInformed

(* What is published goes from its session or its handler to every queue.   *)
LEMMA PublishKeepsInformed ==
  ASSUME TypeInv, FlightInv, SettledInv, stage = "live", NEW c \in Clients, Informed(c),
         client[c].phase \in {"open", "live"}, client' = client, document' = document,
         \A p \in Procs : relay[p].up, NEW env \in Envelope,
         relay' = [r \in Procs |-> IF relay[r].up
                                   THEN [relay[r] EXCEPT !.queue = Append(@, env)]
                                   ELSE relay[r]],
         \A j \in Conns : conn'[j].inbox = conn[j].inbox,
         \A j \in Conns : \/ conn'[j].pc = conn[j].pc /\ conn'[j].change = conn[j].change
                          \/ /\ conn[j].pc = "publish" /\ conn'[j].pc = "loop"
                             /\ env.origin = j /\ env.payload = conn[j].change,
         \A h \in http : h \in http' \/ (env.origin = <<>> /\ env.payload = h.payload)
  PROVE  Informed(c)'
<1>1. PICK i \in Conns : i = Key(c)
  BY KeyTypes
<1>2. Line(c) = conn[i] /\ client'[c] = client[c]
  BY <1>1, SoundTypes
<1> DEFINE p == Home[i[1]]
           q == relay[p].queue
<1>3. /\ p \in Procs /\ q \in Seq(Envelope) /\ relay'[p].queue = Append(q, env)
  <2>1. i[1] \in Clients
    BY DEF Conns
  <2>2. p \in Procs /\ relay[p] \in Relay /\ relay[p].up
    BY <2>1, LiveAssumption, SoundTypes
  <2> HIDE DEF p
  <2>3. relay'[p] = [relay[p] EXCEPT !.queue = Append(@, env)]
    BY <2>2
  <2> QED
    BY <2>2, <2>3 DEF Relay
<1>4. relay'[Home[i[1]]].queue = Append(q, env) /\ relay[Home[i[1]]].queue = q
  BY <1>3
<1> HIDE DEF p, q
<1>5. /\ Len(q) \in Nat /\ Len(Append(q, env)) = Len(q) + 1 /\ Append(q, env)[Len(q) + 1] = env
      /\ \A n \in 1..Len(q) : n \in 1..Len(Append(q, env)) /\ Append(q, env)[n] = q[n]
      /\ Len(q) + 1 \in 1..Len(Append(q, env))
  BY <1>3, LenProperties, AppendProperties
<1> DEFINE r == Append(q, env)
<1> HIDE DEF r
<1>6. /\ relay'[Home[i[1]]].queue = r
      /\ Len(q) + 1 \in 1..Len(r) /\ r[Len(q) + 1] = env
      /\ \A n \in 1..Len(q) : n \in 1..Len(r) /\ r[n] = q[n]
  BY <1>4, <1>5 DEF r
<1>7. ASSUME NEW v, Names(env.payload, v), env.origin # i
      PROVE  Queued(i, v)'
  <2>1. r[Len(q) + 1].origin # i /\ Names(r[Len(q) + 1].payload, v)
    BY <1>6, <1>7
  <2> QED
    BY <1>6, <2>1 DEF Queued
<1>8. ASSUME NEW v, Underway(i, v)
      PROVE  Underway(i, v)'
  <2>1. CASE Queued(i, v)
    <3>1. PICK n \in 1..Len(q) : q[n].origin # i /\ Names(q[n].payload, v)
      BY <1>4, <2>1 DEF Queued
    <3>2. n \in 1..Len(r) /\ r[n].origin # i /\ Names(r[n].payload, v)
      BY <1>6, <3>1
    <3> QED
      BY <1>6, <3>2 DEF Underway, Queued
  <2>2. ASSUME NEW h \in http, Names(h.payload, v)
        PROVE  Underway(i, v)'
    <3>1. CASE h \in http'
      BY <2>2, <3>1 DEF Underway, Posted
    <3>2. CASE env.origin = <<>> /\ env.payload = h.payload
      <4>1. <<>> # i
        <5>1. i = <<c, client[c].socket>>
          BY <1>1 DEF Key
        <5>2. Len(<<c, client[c].socket>>) = 2 /\ Len(<<>>) = 0
          OBVIOUS
        <5> QED
          BY <5>1, <5>2
      <4> QED
        BY <1>7, <2>2, <3>2, <4>1 DEF Underway
    <3> QED
      BY <3>1, <3>2
  <2>3. ASSUME NEW j \in Conns, conn[j].pc \in {"ack", "publish"}, conn[j].change.version = v,
               j = i => conn[j].pc = "ack"
        PROVE  Underway(i, v)'
    <3>1. CASE conn'[j].pc = conn[j].pc /\ conn'[j].change = conn[j].change
      BY <2>3, <3>1 DEF Underway, Accepting
    <3>2. CASE conn[j].pc = "publish" /\ env.origin = j /\ env.payload = conn[j].change
      <4>1. Names(env.payload, v) /\ j # i
        BY <2>3, <3>2, SoundTypes DEF Names, EditMsg
      <4> QED
        BY <1>7, <3>2, <4>1 DEF Underway
    <3> QED
      BY <3>1, <3>2
  <2> QED
    BY <1>8, <2>1, <2>2, <2>3 DEF Underway, Posted, Accepting
<1>9. /\ conn'[i].inbox = conn[i].inbox
      /\ conn'[i].pc = "init" => conn[i].pc = "init"
      /\ conn'[i].pc \in Listening => conn[i].pc \in Listening
      /\ conn'[i].pc = "join" => conn[i].pc = "join"
      /\ conn[i].pc = "join" => conn'[i].pc = "join"
  BY DEF Listening
<1>10. conn'[i].pc \in Listening => \A v \in 1..document'.version :
          \/ v \in 1..document.version /\ Knows(client[c], conn[i].inbox, v)
          \/ Knows(client[c], conn'[i].inbox, v)
          \/ conn'[i].pc # "join" /\ Underway(i, v)'
  BY <1>1, <1>2, <1>8, <1>9 DEF Informed
<1> QED
  BY <1>1, <1>2, <1>9, <1>10, KeepsInformed

(* What the relay reads reaches the tabs of its process but the one it is   *)
(* from.                                                                    *)
LEMMA RelayKeepsInformed ==
  ASSUME TypeInv, FlightInv, SettledInv, stage = "live", NEW c \in Clients, Informed(c),
         client[c].phase \in {"open", "live"}, NEW p \in Procs, RelayDeliver(p)
  PROVE  Informed(c)'
<1>1. PICK i \in Conns : i = Key(c)
  BY KeyTypes
<1> DEFINE q == relay[p].queue
           env == Head(q)
<1>2. /\ Line(c) = conn[i] /\ Current(i) /\ conn[i] \in Socket /\ conn \in [Conns -> Socket]
      /\ i[1] = c /\ conn[i].inbox \in Seq(Payload)
  BY <1>1, SoundTypes DEF Key, Current, Socket, TypeInv, ConnTypes
<1>3. /\ client' = client /\ document' = document /\ http' = http /\ q # <<>>
      /\ conn' = Delivered(conn, p, env)
      /\ relay' = [relay EXCEPT ![p] = [relay[p] EXCEPT !.queue = Tail(q)]]
  BY DEF RelayDeliver
<1>4. /\ q \in Seq(Envelope) /\ relay'[p].queue = Tail(q)
      /\ \A r \in Procs : r # p => relay'[r] = relay[r]
  BY <1>3, SoundTypes DEF Relay, TypeInv, HubTypes
<1> HIDE DEF q
<1>5. /\ env \in Envelope /\ env = q[1] /\ 1 \in 1..Len(q)
      /\ \A n \in 1..Len(q) : n = 1 \/ \E l \in 1..Len(Tail(q)) : Tail(q)[l] = q[n]
  <2>1. /\ Len(q) \in Nat \ {0} /\ Head(q) = q[1] /\ Head(q) \in Envelope /\ Len(Tail(q)) = Len(q) - 1
        /\ \A l \in 1..Len(Tail(q)) : Tail(q)[l] = q[l + 1]
    BY <1>3, <1>4, EmptySeq, LenProperties, HeadTailProperties
  <2>2. ASSUME NEW n \in 1..Len(q), n # 1
        PROVE  \E l \in 1..Len(Tail(q)) : Tail(q)[l] = q[n]
    <3>1. n - 1 \in 1..Len(Tail(q)) /\ (n - 1) + 1 = n
      BY <2>1, <2>2
    <3>2. Tail(q)[n - 1] = q[n]
      BY <2>1, <3>1
    <3> QED
      BY <3>1, <3>2
  <2>3. env \in Envelope /\ env = q[1]
    BY <2>1
  <2>4. 1 \in 1..Len(q)
    BY <2>1
  <2> HIDE DEF env
  <2> QED
    BY <2>2, <2>3, <2>4
<1> HIDE DEF env
<1>6. env.payload \in Payload /\ ~Fresh(env.payload)
  BY <1>5, SharedTypes DEF Envelope, Fresh
<1>7. \A j \in Conns : conn'[j].pc = conn[j].pc /\ conn'[j].change = conn[j].change
  BY <1>2, <1>3, <1>5, DeliveredIs
<1>8. /\ conn'[i].inbox = conn[i].inbox \/ conn'[i].inbox = Append(conn[i].inbox, env.payload)
      /\ Joined(i) /\ Home[c] = p /\ env.origin # i =>
           conn'[i].inbox = Append(conn[i].inbox, env.payload)
      /\ ~Joined(i) => conn'[i].inbox = conn[i].inbox
  <2>1. conn'[i] = IF Joined(i) /\ Home[c] = p /\ i # env.origin /\ Current(i)
                   THEN [conn[i] EXCEPT !.inbox = Append(@, env.payload)]
                   ELSE conn[i]
    BY <1>2, <1>3 DEF Delivered
  <2> QED
    BY <1>2, <2>1 DEF Socket
<1>9. ASSUME NEW v, Underway(i, v), Joined(i)
      PROVE  Knows(client[c], conn'[i].inbox, v) \/ Underway(i, v)'
  <2>1. CASE Posted(v) \/ Accepting(i, v)
    BY <1>3, <1>7, <2>1 DEF Underway, Posted, Accepting
  <2>2. CASE Queued(i, v) /\ Home[c] # p
    <3>1. Home[c] \in Procs
      BY LiveAssumption
    <3> QED
      BY <1>2, <1>4, <2>2, <3>1 DEF Underway, Queued
  <2>3. CASE Queued(i, v) /\ Home[c] = p
    <3>1. PICK n \in 1..Len(q) : q[n].origin # i /\ Names(q[n].payload, v)
      BY <1>2, <2>3 DEF Queued, q
    <3>2. CASE n = 1
      <4>1. Tells(env.payload, v) /\ conn'[i].inbox = Append(conn[i].inbox, env.payload)
        BY <1>5, <1>8, <1>9, <2>3, <3>1, <3>2 DEF Tells, Names, Change
      <4> QED
        BY <1>2, <1>6, <4>1, HearsMore
    <3>3. CASE n # 1
      <4>1. PICK l \in 1..Len(Tail(q)) : Tail(q)[l] = q[n]
        BY <1>5, <3>3
      <4>2. relay'[Home[i[1]]].queue = Tail(q)
        BY <1>2, <1>4, <2>3
      <4> QED
        BY <3>1, <4>1, <4>2 DEF Underway, Queued
    <3> QED
      BY <3>2, <3>3
  <2> QED
    BY <1>9, <2>1, <2>2, <2>3 DEF Underway
<1>10. /\ \/ conn'[i].inbox = conn[i].inbox
          \/ conn'[i].pc # "init" /\ \E m \in Payload : /\ conn'[i].inbox = Append(conn[i].inbox, m)
                                                        /\ Fresh(m) => m.version = document.version
       /\ conn'[i].pc = conn[i].pc
  BY <1>6, <1>7, <1>8 DEF Joined
<1>11. conn'[i].pc \in Listening => \A v \in 1..document'.version :
          \/ v \in 1..document.version /\ Knows(client[c], conn[i].inbox, v)
          \/ Knows(client[c], conn'[i].inbox, v)
          \/ conn'[i].pc # "join" /\ Underway(i, v)'
  <2>1. conn[i].pc \in Listening /\ conn[i].pc # "join" => Joined(i)
    BY DEF Listening, Joined
  <2> QED
    BY <1>1, <1>2, <1>3, <1>9, <1>10, <2>1 DEF Informed
<1>12. client'[c] = client[c]
  BY <1>3
<1> QED
  BY <1>1, <1>10, <1>11, <1>12, KeepsInformed

(* A session's step.                                                        *)
LEMMA SessionKeepsInformed ==
  ASSUME TypeInv, FlightInv, SettledInv, stage = "live", MaxFaults = 0, InTime,
         NEW c \in Clients, Informed(c), client[c].phase \in {"open", "live"}, NEW k \in Conns,
         SendInit(k) \/ Join(k) \/ HandleEdit(k) \/ SendAck(k) \/ SessionEnds(k)
  PROVE  Informed(c)'
<1>0. /\ conn \in [Conns -> Socket] /\ conn[k] \in Socket /\ Current(Key(c))
      /\ document.version \in Version /\ document.version \in Nat /\ document.content \in Text
      /\ ~Fault
  <2>1. spent.faults \in 0..0
    BY DEF TypeInv, SpentTypes
  <2> QED
    BY <2>1, SoundTypes DEF TypeInv, ConnTypes, DocTypes, Key, Current, Fault
<1>1. CASE SendInit(k)
  <2>1. CASE k = Key(c)
    BY <1>1, <2>1, GreetingInforms
  <2>2. CASE k # Key(c)
    <3>1. /\ conn[k].pc = "init" /\ UNCHANGED <<document, relay, http, client>>
          /\ \A j \in Conns : j # k => conn'[j] = conn[j]
      <4> DEFINE cs == [conn EXCEPT ![k].pc = "join"]
                 m == [type |-> "init", version |-> document.version, content |-> document.content]
      <4>1. conn' = Pushed(cs, k, m) /\ conn[k].pc = "init" /\ UNCHANGED <<document, relay, http, client>>
        BY <1>1 DEF SendInit
      <4>2. m \in Payload /\ cs \in [Conns -> Socket] /\ \A j \in Conns : j # k => cs[j] = conn[j]
        BY <1>0 DEF Payload, Answer, Socket, PCs
      <4> HIDE DEF cs, m
      <4> QED
        BY <4>1, <4>2, PushedIs
    <3> QED
      BY <2>2, <3>1, SpeakingKeepsInformed
  <2> QED
    BY <2>1, <2>2
<1>2. CASE Join(k)
  <2>1. /\ conn[k].pc = "join" /\ UNCHANGED <<document, relay, http, client>>
        /\ conn'[k].pc = "loop" /\ conn'[k].inbox = conn[k].inbox
        /\ \A j \in Conns : j # k => conn'[j] = conn[j]
    BY <1>0, <1>2 DEF Join, Socket
  <2> QED
    BY <2>1, SpeakingKeepsInformed DEF Listening
<1>3. CASE HandleEdit(k) /\ ~AcceptEdit(k)
  <2> DEFINE cs == Taken(k)
  <2>1. /\ conn[k].pc = "loop" /\ conn[k].outbox # <<>> /\ UNCHANGED <<document, relay, http, client>>
        /\ \E m \in Payload : /\ conn' = Pushed(cs, k, m)
                              /\ Fresh(m) => m.version = document.version
    <3>1. CASE RefuseEdit(k)
      <4>1. [type |-> "error"] \in Payload /\ ~Fresh([type |-> "error"])
        BY DEF Payload, Answer, Fresh
      <4> QED
        BY <1>3, <3>1, <4>1 DEF RefuseEdit, HandleEdit
    <3>2. CASE RejectEdit(k)
      <4> DEFINE m == [type |-> "rejected", version |-> document.version, content |-> document.content]
      <4>1. m \in Payload /\ m.version = document.version
        BY <1>0 DEF Payload, Answer
      <4>2. conn' = Pushed(cs, k, m) /\ UNCHANGED document
        BY <3>2 DEF RejectEdit
      <4> HIDE DEF m, cs
      <4> QED
        BY <1>3, <4>1, <4>2 DEF HandleEdit
    <3> QED
      BY <1>0, <1>3, <3>1, <3>2 DEF HandleEdit, ThrottleEdit, EditNotFound
  <2>2. PICK m \in Payload : conn' = Pushed(cs, k, m) /\ (Fresh(m) => m.version = document.version)
    BY <2>1
  <2>3. /\ cs \in [Conns -> Socket] /\ \A j \in Conns : j # k => cs[j] = conn[j]
        /\ cs[k].pc = "loop" /\ cs[k].inbox = conn[k].inbox
    <3>1. Tail(conn[k].outbox) \in Seq(Sent)
      BY <2>1, HeadBatch
    <3> QED
      BY <1>0, <2>1, <3>1 DEF Taken, Socket
  <2> HIDE DEF cs
  <2>4. /\ \A j \in Conns : j # k => conn'[j] = conn[j]
        /\ conn'[k].pc = "loop"
        /\ conn'[k].inbox = conn[k].inbox \/ conn'[k].inbox = Append(conn[k].inbox, m)
    BY <2>2, <2>3, PushedIs
  <2> QED
    BY <2>1, <2>2, <2>4, SpeakingKeepsInformed DEF Listening
<1>4. CASE HandleEdit(k) /\ AcceptEdit(k)
  <2> DEFINE m == [type |-> "edit", version |-> document.version + 1,
                   operation |-> StepsOp(Head(conn[k].outbox).ids)]
             u == [conn[k] EXCEPT !.outbox = Tail(conn[k].outbox)]
  <2>1. /\ conn[k].pc = "loop" /\ conn[k].outbox # <<>> /\ UNCHANGED <<relay, http, client>>
        /\ document'.version = document.version + 1
        /\ conn' = [Taken(k) EXCEPT ![k].pc = "ack", ![k].change = m]
    BY <1>4 DEF HandleEdit, AcceptEdit, Commit
  <2>2. Taken(k) = [conn EXCEPT ![k] = u] /\ u \in Socket /\ u.inbox = conn[k].inbox
    <3>1. Tail(conn[k].outbox) \in Seq(Sent)
      BY <2>1, HeadBatch
    <3> QED
      BY <1>0, <3>1 DEF Taken, Socket
  <2> HIDE DEF m, u
  <2>3. conn' = [conn EXCEPT ![k] = [u EXCEPT !.pc = "ack", !.change = m]]
    BY <1>0, <2>1, <2>2
  <2>4. /\ conn'[k].pc = "ack" /\ conn'[k].inbox = conn[k].inbox /\ conn'[k].change = m
        /\ \A j \in Conns : j # k => conn'[j] = conn[j]
    BY <1>0, <2>2, <2>3 DEF Socket
  <2>5. conn[Key(c)].pc # "join"
    BY <1>0, <2>1, SoundTypes DEF InTime
  <2>6. PICK w : w = document.version + 1
    OBVIOUS
  <2>7. m.version = w
    BY <2>6 DEF m
  <2>8. \A j \in Conns : Underway(j, w)'
    BY <2>4, <2>7 DEF Underway, Accepting
  <2>9. /\ client' = client /\ relay' = relay /\ http \subseteq http' /\ document'.version = w
        /\ \A j \in Conns : conn'[j].inbox = conn[j].inbox
        /\ \A j \in Conns : \/ conn'[j].pc = conn[j].pc /\ conn'[j].change = conn[j].change
                            \/ conn[j].pc = "loop" /\ conn'[j].pc = "ack"
    BY <2>1, <2>4, <2>6
  <2> QED
    BY <2>5, <2>6, <2>8, <2>9, CommitKeepsInformed
<1>5. CASE SendAck(k)
  BY <1>5, AckKeepsInformed
<1>6. CASE SessionEnds(k)
  <2>1. k # Key(c) /\ conn[k].pc \notin {"ack", "publish"}
    BY <1>0, <1>6 DEF SessionEnds, InTime
  <2>2. UNCHANGED <<document, relay, http, client>> /\ \A j \in Conns : j # k => conn'[j] = conn[j]
    BY <1>0, <1>6 DEF SessionEnds
  <2> QED
    BY <2>1, <2>2, SpeakingKeepsInformed
<1> QED
  BY <1>1, <1>2, <1>3, <1>4, <1>5, <1>6

(* The hub's steps, and the publish of a session or of a handler.           *)
LEMMA HubKeepsInformed ==
  ASSUME TypeInv, FlightInv, SettledInv, stage = "live", MaxFaults = 0, \A p \in Procs : relay[p].up,
         NEW c \in Clients, Informed(c), client[c].phase \in {"open", "live"},
         \/ \E p \in Procs : RelayDeliver(p) \/ RelayReconnect(p) \/ RelayDrop(p)
         \/ \E h \in http : HttpPublish(h)
         \/ \E k \in Conns : PublishEdit(k)
  PROVE  Informed(c)'
<1>0. conn \in [Conns -> Socket] /\ ~Fault
  <2>1. spent.faults \in 0..0
    BY DEF TypeInv, SpentTypes
  <2> QED
    BY <2>1 DEF TypeInv, ConnTypes, Fault
<1>1. ASSUME NEW h \in http, HttpPublish(h)
      PROVE  Informed(c)'
  <2> DEFINE env == [origin |-> <<>>, payload |-> h.payload]
  <2>1. env \in Envelope /\ env.origin = <<>> /\ env.payload = h.payload
    BY SoundTypes DEF Envelope
  <2>2. /\ Publish(conn, h.proc, env) /\ http' = http \ {h} /\ UNCHANGED <<document, client>>
    BY <1>1 DEF HttpPublish
  <2> HIDE DEF env
  <2>3. /\ relay' = [r \in Procs |-> IF relay[r].up
                                     THEN [relay[r] EXCEPT !.queue = Append(@, env)]
                                     ELSE relay[r]]
        /\ conn' = conn
    BY <1>0, <2>2 DEF Publish
  <2>4. \A g \in http : g \in http' \/ (env.origin = <<>> /\ env.payload = g.payload)
    BY <2>1, <2>2
  <2> QED
    BY <2>1, <2>2, <2>3, <2>4, PublishKeepsInformed
<1>2. ASSUME NEW k \in Conns, PublishEdit(k)
      PROVE  Informed(c)'
  <2> DEFINE env == [origin |-> k, payload |-> conn[k].change]
             cs == [conn EXCEPT ![k].pc = "loop", ![k].change = [type |-> "none"]]
  <2>1. conn[k].pc = "publish" /\ conn[k].change \in EditMsg /\ conn[k] \in Socket
    BY <1>2, SoundTypes DEF PublishEdit
  <2>2. env \in Envelope /\ env.origin = k /\ env.payload = conn[k].change
    BY <2>1, SharedTypes DEF Envelope
  <2>3. cs = [conn EXCEPT ![k] = [conn[k] EXCEPT !.pc = "loop", !.change = NoChange]]
    BY <1>0 DEF NoChange
  <2>4. /\ \A j \in Conns : j # k => cs[j] = conn[j]
        /\ cs[k].pc = "loop" /\ cs[k].inbox = conn[k].inbox
    BY <1>0, <2>1, <2>3 DEF Socket
  <2>5. Publish(cs, Home[k[1]], env) /\ UNCHANGED <<document, http, client>>
    BY <1>2 DEF PublishEdit
  <2> HIDE DEF env, cs
  <2>6. /\ relay' = [r \in Procs |-> IF relay[r].up
                                     THEN [relay[r] EXCEPT !.queue = Append(@, env)]
                                     ELSE relay[r]]
        /\ conn' = cs
    BY <1>0, <2>5 DEF Publish
  <2>7. /\ \A j \in Conns : conn'[j].inbox = conn[j].inbox
        /\ \A j \in Conns : \/ conn'[j].pc = conn[j].pc /\ conn'[j].change = conn[j].change
                            \/ /\ conn[j].pc = "publish" /\ conn'[j].pc = "loop"
                               /\ env.origin = j /\ env.payload = conn[j].change
    BY <2>1, <2>2, <2>4, <2>6
  <2> QED
    BY <2>2, <2>5, <2>6, <2>7, PublishKeepsInformed
<1> QED
  BY <1>0, <1>1, <1>2, RelayKeepsInformed DEF RelayReconnect, RelayDrop

(* A write over HTTP is with its handler; a deletion leaves nothing to say. *)
LEMMA HttpKeepsInformed ==
  ASSUME TypeInv, FlightInv, SettledInv, stage = "live", InTime, NEW c \in Clients, Informed(c),
         client[c].phase \in {"open", "live"}, NEW p \in Procs, NEW kind \in HttpKinds,
         HttpCommit(p, kind)
  PROVE  Informed(c)'
<1> DEFINE op == CASE kind = "title"   -> TitleOp
                   [] kind = "replace" -> ReplaceOp(<<spent.edits + 1>>)
                   [] kind = "steps"   -> StepsOp(<<spent.edits + 1>>)
           m == [type |-> "edit", version |-> document.version + 1, operation |-> op]
<1>1. /\ document'.version = document.version + 1 /\ UNCHANGED <<relay, conn, client>>
      /\ http' = http \cup {[proc |-> p, payload |-> m]}
  BY DEF HttpCommit, Commit
<1>2. conn[Key(c)].pc # "join"
  BY <1>1, SoundTypes DEF InTime
<1>3. PICK w : w = document.version + 1
  OBVIOUS
<1>4. Names(m, w)
  BY <1>3 DEF Names
<1> HIDE DEF m
<1>5. \A j \in Conns : Underway(j, w)'
  <2>1. [proc |-> p, payload |-> m] \in http' /\ [proc |-> p, payload |-> m].payload = m
    BY <1>1
  <2> QED
    BY <1>4, <2>1 DEF Underway, Posted
<1> QED
  BY <1>1, <1>2, <1>3, <1>5, CommitKeepsInformed

(* The relays stay subscribed while nothing fails.                          *)
LEMMA RelaysStayUp ==
  ASSUME IInv, MaxFaults = 0, \A p \in Procs : relay[p].up, Next
  PROVE  \A p \in Procs : relay'[p].up
<1>1. relay \in [Procs -> Relay] /\ ~Fault
  <2>1. spent.faults \in 0..0
    BY DEF IInv, TypeInv, SpentTypes
  <2> QED
    BY <2>1 DEF IInv, TypeInv, HubTypes, Fault
<1>2. ASSUME NEW cs, NEW p, NEW env, Publish(cs, p, env)
      PROVE  \A r \in Procs : relay'[r].up
  BY <1>1, <1>2 DEF Publish, Relay
<1>3. CASE \/ \E h \in http : HttpPublish(h)
           \/ \E k \in Conns : PublishEdit(k)
  BY <1>2, <1>3 DEF HttpPublish, PublishEdit
<1>4. CASE \E p \in Procs : RelayDeliver(p) \/ RelayReconnect(p) \/ RelayDrop(p)
  BY <1>1, <1>4 DEF RelayDeliver, RelayReconnect, RelayDrop, Relay
<1>5. ASSUME UNCHANGED relay
      PROVE  \A r \in Procs : relay'[r].up
  BY <1>5
<1>6. CASE \/ \E p \in Procs : DeleteDocument(p)
           \/ \E p \in Procs, kind \in HttpKinds : HttpCommit(p, kind)
           \/ \E k \in Conns : SendInit(k) \/ Join(k) \/ HandleEdit(k) \/ SendAck(k) \/ SessionEnds(k)
  BY <1>5, <1>6 DEF DeleteDocument, HttpCommit, SendInit, Join, HandleEdit, SendAck, SessionEnds
<1>7. ASSUME NEW c \in Clients, TabActs(c)
      PROVE  \A r \in Procs : relay'[r].up
  <2>1. UNCHANGED relay
    BY <1>7, TabSteps DEF TabActs, TabMoves, ServerUnchanged, IInv
  <2> QED
    BY <1>5, <2>1
<1> QED
  BY <1>3, <1>4, <1>6, <1>7 DEF Next, Hub, Session, TabActs

(* Every step in time and in order leaves the tabs informed.                *)
LEMMA InformedStays ==
  ASSUME IInv, FlightInv, SettledInv, InformedInv, OnlineEvents = FALSE, MaxFaults = 0,
         Next, InOrder, InTime
  PROVE  InformedInv'
<1>1. TypeInv /\ (\A p \in Procs : relay[p].up) /\ \A p \in Procs : relay'[p].up
  BY RelaysStayUp DEF IInv, InformedInv
<1>2. CASE stage # "live"
  <2>1. stage' = stage
    BY <1>1, <1>2, NextMoves DEF IInv, HubMoves, HttpMoves, Deletes, SessionMoves, SessionDoes,
      TabMoves, ServerUnchanged, StoreSame, Keeps, Commits, Commit
  <2> QED
    BY <1>1, <1>2, <2>1 DEF InformedInv
<1>3. CASE stage = "live" /\ \E p \in Procs : DeleteDocument(p)
  BY <1>1, <1>3 DEF InformedInv, DeleteDocument
<1>4. ASSUME stage = "live", ~\E p \in Procs : DeleteDocument(p), NEW c \in Clients
      PROVE  Informed(c)'
  <2>1. Informed(c)
    BY <1>4 DEF InformedInv
  <2>2. ASSUME NEW d \in Clients, TabActs(d)
        PROVE  Informed(c)'
    BY <1>1, <1>4, <2>1, <2>2, TabKeepsInformed, OthersKeepInformed
  <2>3. CASE client[c].phase \in {"open", "live"}
    <3>1. ASSUME NEW k \in Conns,
                 SendInit(k) \/ Join(k) \/ HandleEdit(k) \/ SendAck(k) \/ SessionEnds(k)
          PROVE  Informed(c)'
      BY <1>1, <1>4, <2>1, <2>3, <3>1, SessionKeepsInformed
    <3>2. ASSUME \/ \E p \in Procs : RelayDeliver(p) \/ RelayReconnect(p) \/ RelayDrop(p)
                 \/ \E h \in http : HttpPublish(h)
                 \/ \E k \in Conns : PublishEdit(k)
          PROVE  Informed(c)'
      BY <1>1, <1>4, <2>1, <2>3, <3>2, HubKeepsInformed
    <3>3. ASSUME NEW p \in Procs, NEW kind \in HttpKinds, HttpCommit(p, kind)
          PROVE  Informed(c)'
      BY <1>1, <1>4, <2>1, <2>3, <3>3, HttpKeepsInformed
    <3> QED
      BY <1>4, <2>2, <3>1, <3>2, <3>3 DEF Next, Hub, Session, TabActs
  <2>4. CASE client[c].phase \notin {"open", "live"}
    <3>1. client' = client \/ \E d \in Clients : TabActs(d)
      BY DEF Next, Hub, Session, TabActs, RelayDeliver, RelayReconnect, RelayDrop, DeleteDocument,
         HttpCommit, HttpPublish, SendInit, Join, HandleEdit, SendAck, PublishEdit, SessionEnds
    <3>2. ASSUME client' = client
          PROVE  Informed(c)'
      BY <2>4, <3>2 DEF Informed, InitAhead
    <3> QED
      BY <2>2, <3>1, <3>2
  <2> QED
    BY <2>3, <2>4
<1> QED
  BY <1>1, <1>2, <1>3, <1>4 DEF InformedInv

(* In the beginning every tab asks for its ticket.                          *)
LEMMA InformedStarts == Init => InformedInv
BY DEF Init, InformedInv, Informed, InitAhead

(* A joined tab misses nothing: once everything published has arrived, it   *)
(* is at the head (hub.join before the loop; _handle_edit publishes after   *)
(* the commit).  It takes what the code does not enforce: no change between *)
(* `init` and hub.join, no session that ends before it published, relayed   *)
(* changes in order, and no failure of Redis.                               *)
THEOREM QuietTabsAreCurrent ==
  OnlineEvents = FALSE /\ MaxFaults = 0 => (TimelySpec => []QuietTabIsCurrent)
<1> SUFFICES ASSUME OnlineEvents = FALSE, MaxFaults = 0
             PROVE  TimelySpec => []QuietTabIsCurrent
  OBVIOUS
<1> DEFINE Inv == IInv /\ FlightInv /\ SettledInv
<1>1. TimelySpec => OrderedSpec
  <2>1. [Next /\ InOrder /\ InTime]_vars => [Next /\ InOrder]_vars
    OBVIOUS
  <2> QED
    BY <2>1, PTL DEF TimelySpec, OrderedSpec
<1>2. OrderedSpec => []Inv
  BY OrderedInvariance
<1>3. Inv /\ InformedInv /\ [Next /\ InOrder /\ InTime]_vars => InformedInv'
  <2>1. ASSUME Inv, InformedInv, Next, InOrder, InTime
        PROVE  InformedInv'
    BY <2>1, InformedStays
  <2>2. ASSUME InformedInv, UNCHANGED vars
        PROVE  InformedInv'
    BY <2>2 DEF vars, InformedInv, Informed, Line, Key, Underway, Queued, Posted, Accepting
  <2> QED
    BY <2>1, <2>2
<1>4. Inv /\ InformedInv => QuietTabIsCurrent
  <2>1. SUFFICES ASSUME Inv, InformedInv, stage = "live", NEW c \in Clients, Quiet(c)
                 PROVE  client[c].versionRef = document.version
    BY DEF QuietTabIsCurrent
  <2>2. /\ client[c].phase = "live" /\ Line(c).pc = "loop" /\ Line(c).inbox = <<>>
        /\ relay[Home[Key(c)[1]]].queue = <<>> /\ http = {}
        /\ \A k \in Conns : conn[k].pc \notin {"ack", "publish"}
    BY <2>1 DEF Quiet, Line, Key
  <2>3. /\ document.version \in Nat /\ document.version >= 1
        /\ client[c].versionRef \in Nat /\ client[c].versionRef <= document.version
    <3>1. document.version \in Nat /\ \E r \in changes : r.version = document.version /\ 1 <= r.version
      BY <2>1, SoundTypes DEF IInv, SettledInv, LogSound, ShownIn
    <3> QED
      BY <2>1, <2>2, <3>1, ToldSoFar DEF IInv
  <2>4. Len(<<>>) = 0
    OBVIOUS
  <2>5. ~Underway(Key(c), document.version)
    BY <2>2, <2>4 DEF Underway, Queued, Posted, Accepting
  <2>6. Knows(client[c], Line(c).inbox, document.version)
    BY <2>1, <2>2, <2>3, <2>5 DEF InformedInv, Informed, Listening
  <2> QED
    BY <2>2, <2>3, <2>4, <2>6 DEF Knows
<1> HIDE DEF Inv
<1> QED
  BY <1>1, <1>2, <1>3, <1>4, InformedStarts, PTL DEF TimelySpec

=============================================================================
