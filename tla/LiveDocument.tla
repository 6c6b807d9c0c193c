---------------------------- MODULE LiveDocument ----------------------------
(***************************************************************************)
(* One document edited live: the browser hook (useDocumentSocket.ts with   *)
(* DocumentPage.tsx), the server's EditorSession (realtime/session.py), the*)
(* hub of every server process with its Redis relay (realtime/hub.py), the *)
(* HTTP handlers that write the same document, and the store below them.   *)
(*                                                                         *)
(* A document's text is the sequence of the edits it absorbed: an edit      *)
(* appends its own id, so a lost, a doubled or a misplaced edit shows.      *)
(* Titles, cursors and presence are left out; a title still takes a version.*)
(*                                                                         *)
(* Handlers that await between two effects are split there: a session       *)
(* commits, then acknowledges, then publishes; a socket is sent `init`,     *)
(* then joins the hub; an HTTP handler commits, then publishes.             *)
(***************************************************************************)
EXTENDS Naturals, Sequences, FiniteSets

CONSTANTS
  Clients,        \* browser tabs
  Procs,          \* API worker processes
  Home,           \* Home[c]: the process that serves c's sockets
  HttpKinds,      \* what HTTP callers do: a subset of {"title", "replace", "steps"}
  MaxEdits,       \* how many edits are ever made
  MaxConnects,    \* how many sockets a tab ever opens
  MaxHttp,        \* how many HTTP writes succeed
  MaxFaults,      \* how many sockets and relays drop, publishes fail, tabs come online
  MaxSteps,       \* EditOperation.steps, max_length
  SocketsDrop,    \* whether the network may cut a socket
  OnlineEvents,   \* whether the browser reports that it is back online
  Deletable       \* whether the document may be deleted

ASSUME LiveAssumption ==
  /\ Home \in [Clients -> Procs]
  /\ HttpKinds \subseteq {"title", "replace", "steps"}
  /\ {MaxEdits, MaxConnects, MaxHttp, MaxFaults, MaxSteps} \subseteq Nat
  /\ {SocketsDrop, OnlineEvents, Deletable} \subseteq BOOLEAN
  /\ MaxConnects > 0

VARIABLES
  stage,          \* "live" or "gone"
  document,       \* the documents row: [version, content]
  changes,        \* the log, each row with the content it left behind (a ghost)
  relay,          \* relay[p]: [up, queue], p's subscription and its backlog
  http,           \* HTTP handlers between their commit and their publish
  conn,           \* conn[<<c, n>>]: the session of c's n-th socket
  client,         \* client[c]: the hook and the editor of tab c
  spent           \* how much of each bound is used: [edits, http, faults]

vars == <<stage, document, changes, relay, http, conn, client, spent>>

Conns == Clients \X (1..MaxConnects)

Text == Seq(1..MaxEdits)

StepsOp(ids) == [kind |-> "steps", ids |-> ids]
ReplaceOp(ids) == [kind |-> "replace", ids |-> ids]
TitleOp == [kind |-> "title", ids |-> <<>>]

(* A batch holds at most the edits there are.                               *)
Batch == UNION {[1..n -> 1..MaxEdits] : n \in 0..MaxEdits}

Operation == [kind : {"steps", "replace", "title"}, ids : Batch]

(* What an operation makes of a text.                                       *)
Replay(op, text) ==
  CASE op.kind = "steps"   -> text \o op.ids
    [] op.kind = "replace" -> op.ids
    [] op.kind = "title"   -> text

NoEdit == [ids |-> <<>>, doc |-> <<>>]      \* pending.current === null

-----------------------------------------------------------------------------
(* The store: services/documents.py.                                       *)

(* apply_change once the version matched: the caller's base goes into the   *)
(* row, and the content it brings into the document.                        *)
Commit(base, op, content) ==
  /\ document' = [version |-> document.version + 1, content |-> content]
  /\ changes' = changes \cup {[base |-> base, version |-> document.version + 1,
                               operation |-> op, state |-> content]}
  /\ UNCHANGED stage

-----------------------------------------------------------------------------
(* Sockets and the hub: realtime/hub.py.                                   *)

(* One of the things that go wrong, of which there are only so many.        *)
Fault ==
  /\ spent.faults < MaxFaults
  /\ spent' = [spent EXCEPT !.faults = @ + 1]

(* The tab still listens to connection k: not superseded, not dropped.      *)
Current(k) ==
  /\ client[k[1]].socket = k[2]
  /\ client[k[1]].phase \in {"open", "live"}

Joined(k) == conn[k].pc \in {"loop", "ack", "publish"}

(* What sending m on k does: nothing once the tab is gone.                  *)
Pushed(cs, k, m) == IF Current(k) THEN [cs EXCEPT ![k].inbox = Append(@, m)] ELSE cs

(* DocumentHub._deliver in process p: everyone joined there but the origin. *)
Delivered(cs, p, env) ==
  [k \in Conns |-> IF Joined(k) /\ Home[k[1]] = p /\ k # env.origin /\ Current(k)
                   THEN [cs[k] EXCEPT !.inbox = Append(@, env.payload)]
                   ELSE cs[k]]

(* DocumentHub.publish from process p, sessions being cs: through Redis to  *)
(* every subscribed process, or, if Redis fails, to p's own connections.    *)
Publish(cs, p, env) ==
  \/ /\ relay' = [r \in Procs |-> IF relay[r].up
                                  THEN [relay[r] EXCEPT !.queue = Append(@, env)]
                                  ELSE relay[r]]
     /\ conn' = cs
     /\ UNCHANGED spent
  \/ /\ Fault
     /\ conn' = Delivered(cs, p, env)
     /\ UNCHANGED relay

(* One message read by p's relay and handed to p's connections.             *)
RelayDeliver(p) ==
  /\ relay[p].queue # <<>>
  /\ relay' = [relay EXCEPT ![p].queue = Tail(@)]
  /\ conn' = Delivered(conn, p, Head(relay[p].queue))
  /\ UNCHANGED <<stage, document, changes, http, client, spent>>

(* Mutant: the reader keeps a backlog it can no longer receive.             *)
RelayDropKeepsBacklog(p) ==
  /\ relay[p].up
  /\ Fault
  /\ relay' = [relay EXCEPT ![p].up = FALSE]
  /\ UNCHANGED <<stage, document, changes, http, conn, client>>

(* The subscription drops: what was on its way to p is lost.                *)
RelayDrop(p) ==
  /\ relay[p].up
  /\ Fault
  /\ relay' = [relay EXCEPT ![p] = [up |-> FALSE, queue |-> <<>>]]
  /\ UNCHANGED <<stage, document, changes, http, conn, client>>

RelayReconnect(p) ==
  /\ ~relay[p].up
  /\ relay' = [relay EXCEPT ![p].up = TRUE]
  /\ UNCHANGED <<stage, document, changes, http, conn, client, spent>>

-----------------------------------------------------------------------------
(* EditorSession: realtime/session.py.                                     *)

(* _send_init: the document as it is now, before the socket is in the hub.  *)
SendInit(k) ==
  /\ conn[k].pc = "init"
  /\ \/ /\ stage = "live"
        /\ conn' = Pushed([conn EXCEPT ![k].pc = "join"], k,
                          [type |-> "init", version |-> document.version,
                           content |-> document.content])
     \/ /\ stage = "gone"
        /\ conn' = Pushed([conn EXCEPT ![k].pc = "closed"], k, [type |-> "close"])
  /\ UNCHANGED <<stage, document, changes, relay, http, client, spent>>

(* hub.join: from here on the relay reaches the socket.                     *)
Join(k) ==
  /\ conn[k].pc = "join"
  /\ conn' = [conn EXCEPT ![k].pc = "loop"]
  /\ UNCHANGED <<stage, document, changes, relay, http, client, spent>>

Taken(k) == [conn EXCEPT ![k].outbox = Tail(@)]

(* An edit the schema refuses is answered by an error and forgotten.        *)
RefuseEdit(k) ==
  LET edit == Head(conn[k].outbox)
  IN  /\ Len(edit.ids) > MaxSteps
      /\ conn' = Pushed(Taken(k), k, [type |-> "error"])
      /\ UNCHANGED <<stage, document, changes>>

(* The connection used up its edits for this window: close.                 *)
ThrottleEdit(k) ==
  /\ Len(Head(conn[k].outbox).ids) <= MaxSteps
  /\ Fault
  /\ conn' = Pushed([Taken(k) EXCEPT ![k].pc = "closed"], k, [type |-> "close"])
  /\ UNCHANGED <<stage, document, changes>>

(* The document is gone: close.                                             *)
EditNotFound(k) ==
  LET edit == Head(conn[k].outbox)
  IN  /\ Len(edit.ids) <= MaxSteps
      /\ stage = "gone"
      /\ conn' = Pushed([Taken(k) EXCEPT ![k].pc = "closed"], k, [type |-> "close"])
      /\ UNCHANGED <<stage, document, changes>>

(* Another change came first: reject, with the document as it is.           *)
RejectEdit(k) ==
  LET edit == Head(conn[k].outbox)
  IN  /\ Len(edit.ids) <= MaxSteps
      /\ stage = "live" /\ edit.base # document.version
      /\ conn' = Pushed(Taken(k), k, [type |-> "rejected", version |-> document.version,
                                      content |-> document.content])
      /\ UNCHANGED <<stage, document, changes>>

(* Mutant: the version is not compared.                                     *)
AcceptAnyEdit(k) ==
  LET edit == Head(conn[k].outbox)
  IN  /\ Len(edit.ids) <= MaxSteps
      /\ stage = "live"
      /\ Commit(edit.base, StepsOp(edit.ids), edit.doc)
      /\ conn' = [Taken(k) EXCEPT ![k].pc = "ack",
                                  ![k].change = [type |-> "edit", version |-> document.version + 1,
                                                 operation |-> StepsOp(edit.ids)]]

(* The edit is the next change: committed, not yet acknowledged.            *)
AcceptEdit(k) ==
  LET edit == Head(conn[k].outbox)
  IN  /\ Len(edit.ids) <= MaxSteps
      /\ stage = "live" /\ edit.base = document.version
      /\ Commit(edit.base, StepsOp(edit.ids), edit.doc)
      /\ conn' = [Taken(k) EXCEPT ![k].pc = "ack",
                                  ![k].change = [type |-> "edit", version |-> document.version + 1,
                                                 operation |-> StepsOp(edit.ids)]]

HandleEdit(k) ==
  /\ conn[k].pc = "loop"
  /\ conn[k].outbox # <<>>
  /\ \/ ThrottleEdit(k)
     \/ (RefuseEdit(k) \/ EditNotFound(k) \/ RejectEdit(k) \/ AcceptEdit(k)) /\ UNCHANGED spent
  /\ UNCHANGED <<relay, http, client>>

SendAck(k) ==
  /\ conn[k].pc = "ack"
  /\ conn' = Pushed([conn EXCEPT ![k].pc = "publish"], k,
                    [type |-> "edit_ack", version |-> conn[k].change.version])
  /\ UNCHANGED <<stage, document, changes, relay, http, client, spent>>

(* Peers hear of the edit; the tab it came from does not.                   *)
PublishEdit(k) ==
  /\ conn[k].pc = "publish"
  /\ Publish([conn EXCEPT ![k].pc = "loop", ![k].change = [type |-> "none"]], Home[k[1]],
             [origin |-> k, payload |-> conn[k].change])
  /\ UNCHANGED <<stage, document, changes, http, client>>

(* The tab is gone: the receive loop ends, or a send raises, and cleanup    *)
(* runs.  A send that raises in "ack" skips the publish that was to follow. *)
SessionEnds(k) ==
  /\ conn[k].pc \in {"init", "join", "loop", "ack"}
  /\ ~Current(k)
  /\ conn' = [conn EXCEPT ![k] = [pc |-> "closed", inbox |-> <<>>, outbox |-> <<>>,
                                  change |-> [type |-> "none"]]]
  /\ UNCHANGED <<stage, document, changes, relay, http, client, spent>>

-----------------------------------------------------------------------------
(* HTTP writers: routers/documents.py and routers/ai.py.  Only the calls     *)
(* that succeed change anything; a stale one is answered 409 and retried.    *)

HttpCommit(p, kind) ==
  LET e  == spent.edits + 1
      op == CASE kind = "title"   -> TitleOp
              [] kind = "replace" -> ReplaceOp(<<e>>)
              [] kind = "steps"   -> StepsOp(<<e>>)
  IN  /\ stage = "live"
      /\ spent.http < MaxHttp
      /\ kind # "title" => e <= MaxEdits
      /\ spent' = [spent EXCEPT !.http = @ + 1,
                                !.edits = IF kind = "title" THEN @ ELSE e]
      /\ Commit(document.version, op, Replay(op, document.content))
      /\ http' = http \cup {[proc |-> p,
                             payload |-> [type |-> "edit", version |-> document.version + 1,
                                          operation |-> op]]}
      /\ UNCHANGED <<relay, conn, client>>

(* DELETE: the row and its log go, then editors are told.                   *)
DeleteDocument(p) ==
  /\ Deletable /\ stage = "live"
  /\ stage' = "gone"
  /\ document' = [version |-> 0, content |-> <<>>]
  /\ changes' = {}
  /\ http' = http \cup {[proc |-> p, payload |-> [type |-> "deleted"]]}
  /\ UNCHANGED <<relay, conn, client, spent>>

HttpPublish(h) ==
  /\ http' = http \ {h}
  /\ Publish(conn, h.proc, [origin |-> <<>>, payload |-> h.payload])
  /\ UNCHANGED <<stage, document, changes, client>>

-----------------------------------------------------------------------------
(* The tab: useDocumentSocket.ts and the editor it drives.                  *)

IsSettled(c) == client[c].pending = NoEdit /\ ~client[c].awaitingAck

(* Mutant: a second edit goes out before the first is acknowledged.         *)
MayFlushAtOnce(cl) == cl.pending # NoEdit /\ cl.phase \in {"open", "live"}

(* flush(): what goes out, and what the hook remembers.                     *)
MayFlush(cl) == ~cl.awaitingAck /\ cl.pending # NoEdit /\ cl.phase \in {"open", "live"}

(* Mutant: the batch stays pending, as if it had not been sent.             *)
FlushedButKept(cl) ==
  IF MayFlush(cl) THEN [cl EXCEPT !.awaitingAck = TRUE, !.sendTimer = FALSE]
                  ELSE [cl EXCEPT !.sendTimer = FALSE]

Flushed(cl) ==
  IF MayFlush(cl) THEN [cl EXCEPT !.pending = NoEdit, !.awaitingAck = TRUE, !.sendTimer = FALSE]
                  ELSE [cl EXCEPT !.sendTimer = FALSE]

Outgoing(cl) ==
  IF MayFlush(cl) THEN <<[base |-> cl.versionRef, ids |-> cl.pending.ids, doc |-> cl.pending.doc]>>
                  ELSE <<>>

(* dropSocket(): no message of the current socket is handled any more.      *)
Detached(cl) == [conn EXCEPT ![<<cl.me, cl.socket>>].inbox = <<>>]

(* connect(): drop what there is and ask for a ticket.                      *)
Connecting(cl) ==
  [cl EXCEPT !.phase = "ticket", !.socket = @ + 1, !.awaitingAck = FALSE]

(* stop(): terminal.                                                        *)
Stopped(cl) ==
  [cl EXCEPT !.phase = "stopped", !.pending = NoEdit, !.awaitingAck = FALSE, !.sendTimer = FALSE]

ServerUnchanged == UNCHANGED <<stage, document, changes, relay, http>>

ClientOnly == ServerUnchanged /\ UNCHANGED spent

(* A keystroke; the editor takes it only while the socket is live.          *)
Type(c) ==
  LET e   == spent.edits + 1
      doc == Append(client[c].editor, e)
  IN  /\ client[c].phase = "live"
      /\ e <= MaxEdits
      /\ spent' = [spent EXCEPT !.edits = e]
      /\ client' = [client EXCEPT ![c].editor = doc,
                                  ![c].pending = [ids |-> Append(@.ids, e), doc |-> doc],
                                  ![c].sendTimer = TRUE]
      /\ UNCHANGED <<stage, document, changes, relay, http, conn>>

(* The 250 ms timer of queueEdit.                                           *)
SendTimer(c) ==
  LET cl == client[c]
  IN  /\ cl.sendTimer
      /\ client' = [client EXCEPT ![c] = Flushed(cl)]
      /\ conn' = [conn EXCEPT ![<<c, cl.socket>>].outbox = @ \o Outgoing(cl)]
      /\ ClientOnly

(* The ticket is issued and the socket accepted; or the document is not     *)
(* there, which is final.                                                   *)
Open(c) ==
  /\ client[c].phase = "ticket"
  /\ \/ /\ stage = "live"
        /\ client' = [client EXCEPT ![c].phase = "open"]
        /\ conn' = [conn EXCEPT ![<<c, client[c].socket>>].pc = "init"]
     \/ /\ stage = "gone"
        /\ client' = [client EXCEPT ![c] = Stopped(@)]
        /\ UNCHANGED conn
  /\ ClientOnly

(* The ticket request fails, the network cuts the socket, the server times  *)
(* it out, or the heartbeat gives it up, which alone resets awaitingAck:    *)
(* retry later.  pending survives.                                          *)
SocketLost(c) ==
  /\ SocketsDrop /\ Fault
  /\ client[c].phase \in {"ticket", "open", "live"}
  /\ \E waiting \in {client[c].awaitingAck, FALSE} :
       client' = [client EXCEPT ![c].phase = "retry", ![c].awaitingAck = waiting]
  /\ conn' = Detached(client[c])
  /\ ServerUnchanged

(* The retry timer: at least 500 ms, so the 250 ms send timer fired before. *)
Retry(c) ==
  /\ client[c].phase = "retry"
  /\ ~client[c].sendTimer
  /\ client[c].socket < MaxConnects
  /\ client' = [client EXCEPT ![c] = Connecting(@)]
  /\ UNCHANGED conn
  /\ ClientOnly

(* The browser is back online: reconnect at once, whatever the state.       *)
Online(c) ==
  /\ OnlineEvents /\ Fault
  /\ client[c].phase # "stopped"
  /\ client[c].socket < MaxConnects
  /\ client' = [client EXCEPT ![c] = Connecting(@)]
  /\ conn' = Detached(client[c])
  /\ ServerUnchanged

-----------------------------------------------------------------------------
(* handle(): one message of the current socket.                             *)

(* The message next in line for tab c has the type ty.                      *)
HasMessage(c, ty) ==
  /\ client[c].phase \in {"open", "live"}
  /\ conn[<<c, client[c].socket>>].inbox # <<>>
  /\ Head(conn[<<c, client[c].socket>>].inbox).type = ty

Message(c) == Head(conn[<<c, client[c].socket>>].inbox)

Read(c) == [conn EXCEPT ![<<c, client[c].socket>>].inbox = Tail(@)]

OnInit(c) ==
  /\ HasMessage(c, "init")
  /\ client' = [client EXCEPT ![c].phase = "live",
                              ![c].versionRef = Message(c).version,
                              ![c].pending = NoEdit,
                              ![c].awaitingAck = FALSE,
                              ![c].editor = Message(c).content]
  /\ conn' = Read(c)
  /\ ClientOnly

(* The acknowledgement flushes what was typed meanwhile.                    *)
OnAck(c) ==
  LET cl == [client[c] EXCEPT !.awaitingAck = FALSE, !.versionRef = Message(c).version]
  IN  /\ HasMessage(c, "edit_ack")
      /\ client' = [client EXCEPT ![c] = Flushed(cl)]
      /\ conn' = [Read(c) EXCEPT ![<<c, cl.socket>>].outbox = @ \o Outgoing(cl)]
      /\ ClientOnly

(* A peer's title or whole-document change is taken as it is.               *)
OnRemoteContent(c) ==
  /\ HasMessage(c, "edit")
  /\ Message(c).operation.kind # "steps"
  /\ client' = [client EXCEPT ![c].versionRef = Message(c).version,
                              ![c].editor = Replay(Message(c).operation, @)]
  /\ conn' = Read(c)
  /\ ClientOnly

(* A peer's steps are replayed if nothing local is outstanding ...          *)
OnRemoteSteps(c) ==
  /\ HasMessage(c, "edit")
  /\ Message(c).operation.kind = "steps"
  /\ IsSettled(c)
  /\ client' = [client EXCEPT ![c].versionRef = Message(c).version,
                              ![c].editor = Replay(Message(c).operation, @)]
  /\ conn' = Read(c)
  /\ ClientOnly

(* Steps made for another text than the editor's may fail to apply.         *)
Misfit(c) ==
  ~\E r \in changes : r.version + 1 = Message(c).version /\ r.state = client[c].editor

(* ... and otherwise, or if they do not apply, the tab resyncs: a reconnect *)
(* that gives up what is pending.                                           *)
Resync(c) ==
  /\ HasMessage(c, "edit")
  /\ Message(c).operation.kind = "steps"
  /\ ~IsSettled(c) \/ Misfit(c)
  /\ client[c].socket < MaxConnects
  /\ client' = [client EXCEPT ![c] = [Connecting(@) EXCEPT !.pending = NoEdit,
                                                           !.versionRef = Message(c).version]]
  /\ conn' = Detached(client[c])
  /\ ClientOnly

(* Mutant: the rejection does not end the wait for an answer.               *)
OnRejectedStillWaiting(c) ==
  /\ HasMessage(c, "rejected")
  /\ client' = [client EXCEPT ![c].pending = NoEdit,
                              ![c].versionRef = Message(c).version,
                              ![c].editor = Message(c).content]
  /\ conn' = Read(c)
  /\ ClientOnly

(* The server's document replaces the editor's, and what was typed is lost. *)
OnRejected(c) ==
  /\ HasMessage(c, "rejected")
  /\ client' = [client EXCEPT ![c].awaitingAck = FALSE,
                              ![c].pending = NoEdit,
                              ![c].versionRef = Message(c).version,
                              ![c].editor = Message(c).content]
  /\ conn' = Read(c)
  /\ ClientOnly

OnDeleted(c) ==
  /\ HasMessage(c, "deleted")
  /\ client' = [client EXCEPT ![c] = Stopped(@)]
  /\ conn' = Detached(client[c])
  /\ ClientOnly

(* An error is logged and changes nothing: awaitingAck stays set.           *)
OnError(c) ==
  /\ HasMessage(c, "error")
  /\ conn' = Read(c)
  /\ UNCHANGED client
  /\ ClientOnly

(* The server closed the socket.                                            *)
OnClose(c) ==
  /\ HasMessage(c, "close")
  /\ client' = [client EXCEPT ![c].phase = "retry"]
  /\ conn' = Detached(client[c])
  /\ ClientOnly

-----------------------------------------------------------------------------
Init ==
  /\ stage = "live"
  /\ document = [version |-> 1, content |-> <<>>]
  /\ changes = {[base |-> 0, version |-> 1, operation |-> ReplaceOp(<<>>), state |-> <<>>]}
  /\ relay = [p \in Procs |-> [up |-> TRUE, queue |-> <<>>]]
  /\ http = {}
  /\ conn = [k \in Conns |-> [pc |-> "none", inbox |-> <<>>, outbox |-> <<>>,
                              change |-> [type |-> "none"]]]
  /\ client = [c \in Clients |-> [me |-> c, phase |-> "ticket", socket |-> 1, versionRef |-> 0,
                                  editor |-> <<>>, pending |-> NoEdit, awaitingAck |-> FALSE,
                                  sendTimer |-> FALSE]]
  /\ spent = [edits |-> 0, http |-> 0, faults |-> 0]

Hub == \E p \in Procs : RelayDeliver(p) \/ RelayReconnect(p)

Session(k) == SendInit(k) \/ Join(k) \/ HandleEdit(k) \/ SendAck(k) \/ PublishEdit(k)

Receive(c) ==
  \/ OnInit(c) \/ OnAck(c) \/ OnRemoteContent(c) \/ OnRemoteSteps(c) \/ Resync(c)
  \/ OnRejected(c) \/ OnDeleted(c) \/ OnError(c) \/ OnClose(c)

Next ==
  \/ Hub
  \/ \E p \in Procs : RelayDrop(p) \/ DeleteDocument(p)
  \/ \E p \in Procs, kind \in HttpKinds : HttpCommit(p, kind)
  \/ \E h \in http : HttpPublish(h)
  \/ \E k \in Conns : Session(k) \/ SessionEnds(k)
  \/ \E c \in Clients : Type(c) \/ SendTimer(c) \/ Open(c) \/ SocketLost(c) \/ Retry(c)
                          \/ Online(c) \/ Receive(c)

Spec == Init /\ [][Next]_vars

(* The server's coroutines, the relay, the browser's timers and its message *)
(* handler all run; nobody has to type, to save or to lose a connection.    *)
Fairness ==
  /\ WF_vars(Hub)
  /\ \A k \in Conns : WF_vars(Session(k))
  /\ \A c \in Clients : /\ WF_vars(SendTimer(c))
                         /\ WF_vars(Open(c))
                         /\ WF_vars(Retry(c))
                         /\ WF_vars(Receive(c))

FairSpec == Spec /\ Fairness

-----------------------------------------------------------------------------
(* Properties.                                                             *)

Version == 0..(MaxEdits + MaxHttp + 1)

(* Every variable keeps its type.                                           *)
TypeOK ==
  /\ stage \in {"live", "gone"}
  /\ document \in [version : Version, content : Text]
  /\ changes \subseteq [base : Version, version : Version, operation : Operation, state : Text]
  /\ \A p \in Procs : relay[p].up \in BOOLEAN /\ (~relay[p].up => relay[p].queue = <<>>)
  /\ \A k \in Conns : conn[k].pc \in {"none", "init", "join", "loop", "ack", "publish", "closed"}
  /\ client \in [Clients -> [me : Clients, phase : {"ticket", "open", "live", "retry", "stopped"},
                             socket : 1..MaxConnects, versionRef : Version, editor : Text,
                             pending : [ids : Text, doc : Text], awaitingAck : BOOLEAN,
                             sendTimer : BOOLEAN]]

Log == INSTANCE ChangeLog WITH
  head <- document.version,
  rows <- {[base |-> r.base, version |-> r.version, operation |-> r.operation] : r \in changes}

(* Whatever the tabs, the sessions and the HTTP handlers race, the document *)
(* goes through the states of one append-only log (apply_change).  The      *)
(* document exists from the start here, so only the steps are compared.     *)
ImplementsChangeLog == [][Log!LogNext]_(Log!logVars)

(* How often edit e is in a logged batch of steps.                          *)
Logged(e) ==
  {x \in changes \X (1..MaxEdits) :
     LET op == x[1].operation IN
     op.kind = "steps" /\ x[2] <= Len(op.ids) /\ op.ids[x[2]] = e}

(* An edit is committed at most once, over any number of reconnects,        *)
(* rejections and late sessions: the hook never sends a batch again         *)
(* (flush, resync, init and rejected all forget it).                        *)
EditsLoggedOnce == \A e \in 1..MaxEdits : Cardinality(Logged(e)) <= 1

(* The edits of tab c that the server has still to answer, and the answers  *)
(* it has still to read, on its current socket.                             *)
Unanswered(c) ==
  LET k == conn[<<c, client[c].socket>>]
  IN  Len(k.outbox) + (IF k.pc = "ack" THEN 1 ELSE 0)
        + Cardinality({i \in DOMAIN k.inbox : k.inbox[i].type \in {"edit_ack", "rejected", "error"}})

(* A live tab has at most one edit on the wire, and knows it: awaitingAck   *)
(* is what keeps a second edit from going out on the same version.  This is *)
(* for OnlineEvents = FALSE: a tab that reconnects on an `online` event can *)
(* send what is pending before `init`, which then resets awaitingAck.       *)
OneEditInFlight ==
  \A c \in Clients : client[c].phase = "live" =>
    Unanswered(c) <= (IF client[c].awaitingAck THEN 1 ELSE 0)

(* Tab c needs a new socket and the bound has none left.                    *)
OutOfSockets(c) ==
  /\ client[c].socket = MaxConnects
  /\ \/ client[c].phase = "retry"
     \/ HasMessage(c, "edit") /\ Message(c).operation.kind = "steps" /\ ~IsSettled(c)

(* Local edits never stay outstanding: the hook sends them, and the answer, *)
(* a resync or a reconnect settles the tab again ("hand over what changed   *)
(* locally; the hook decides when it goes out").                            *)
TabSettlesAgain ==
  \A c \in Clients : ~IsSettled(c) ~> (IsSettled(c) \/ OutOfSockets(c))

(* isSettled: "True when every local edit has been acknowledged, so the     *)
(* editor shows exactly the server's document at currentVersion()".         *)
SettledShowsServerDocument ==
  stage = "live" =>
    \A c \in Clients : client[c].phase = "live" /\ IsSettled(c) =>
      \E r \in changes : r.version = client[c].versionRef /\ r.state = client[c].editor

(* Nothing is on its way to or from tab c.                                  *)
Quiet(c) ==
  /\ client[c].phase = "live" /\ IsSettled(c)
  /\ conn[<<c, client[c].socket>>].pc = "loop"
  /\ conn[<<c, client[c].socket>>].inbox = <<>>
  /\ relay[Home[c]].queue = <<>> /\ http = {}
  /\ \A k \in Conns : conn[k].pc \notin {"ack", "publish"}

(* A joined tab misses nothing while Redis is up: once everything published *)
(* has arrived, it is at the head ("a PATCH consumes a version, so open     *)
(* editors must hear of it"; "no socket is told it is live too early").     *)
QuietTabIsCurrent ==
  stage = "live" => \A c \in Clients : Quiet(c) => client[c].versionRef = document.version
=============================================================================
