------------------------ MODULE AIGeneration_proofs ------------------------
(***************************************************************************)
(* Proofs about AIGeneration, for every set of queries and readers and      *)
(* every limit.                                                             *)
(***************************************************************************)
EXTENDS AIGeneration, Sums, FiniteSetTheorems, TLAPS

-----------------------------------------------------------------------------
(* The inductive invariant.                                                 *)

(* A reader that is connected, or was told something, has a query.          *)
ReadersOpen ==
  \A r \in Readers : reader[r].pc # "idle" \/ reader[r].told # "none" => reader[r].query \in Queries

TypeInv == TypeOK /\ ReadersOpen

(* The workspace's lock: one open transaction, for a row not yet there; the *)
(* rows it will end stream on, locked, until it does.                       *)
LockHeld ==
  /\ \A p, q \in Queries : txn[p].open /\ txn[q].open => p = q
  /\ \A q \in Queries : /\ txn[q].open => row[q].status = "none"
                        /\ ~txn[q].open => txn[q].expired = {}
                        /\ txn[q].expired \subseteq Streaming

(* What enforce found still holds when create_query inserts.                *)
SlotKept ==
  /\ IsFiniteSet(Streaming)
  /\ MaxConcurrent > 0 =>
       \A q \in Queries :
         txn[q].open => Cardinality(Streaming \ txn[q].expired) < MaxConcurrent

(* What says that a query completed or was cancelled: the outcome a runner  *)
(* is about to publish, the event it published, the copy of an ended row a  *)
(* reader holds, and what a reader was told.                                *)
Says(word, q) ==
  /\ word \in {"completed", "done"} => row[q].status = "completed"
  /\ word = "cancelled" => row[q].status = "cancelled"

WordsKept ==
  /\ \A q \in Queries : /\ task[q].pc = "publish" => Says(task[q].outcome, q)
                        /\ Says(event[q], q)
  /\ \A r \in Readers :
       LET q == reader[r].query IN
       /\ reader[r].pc = "replay" => reader[r].seen \in Ended /\ Says(reader[r].seen, q)
       /\ reader[r].told # "none" => Says(reader[r].told, q)

IInv == TypeInv /\ LockHeld /\ SlotKept /\ WordsKept /\ StreamingWithinLimit

-----------------------------------------------------------------------------
(* Type correctness.                                                        *)

(* Nothing has been asked yet.                                              *)
LEMMA InitTypeInv == Init => TypeInv
BY DEF Init, TypeInv, TypeOK, ReadersOpen, Closed, Ended, Unconnected

(* The transactions and time keep every type.                               *)
LEMMA QueryStepTypes ==
  ASSUME TypeOK, NEW q \in Queries,
         \/ Enforce(q) \/ Insert(q) \/ Rollback(q) \/ AnswerWithoutSources(q) \/ GrowOld(q)
  PROVE  TypeOK'
<1> DEFINE Rows == [Queries -> [status : Ended \cup {"none", "streaming"}, tokens : Nat]]
           Txns == [Queries -> [open : BOOLEAN, expired : SUBSET Queries]]
           Tasks == [Queries -> [pc : {"none", "created", "relay", "finish", "publish", "over"},
                                 outcome : Ended]]
<1>0. row \in Rows /\ txn \in Txns /\ task \in Tasks
  BY DEF TypeOK
<1>1. CASE Enforce(q)
  <2>1. txn' \in Txns
    BY <1>0, <1>1 DEF Enforce, Abandoned, Streaming
  <2>2. QED
    BY <1>1, <2>1, Zenon DEF Enforce, TypeOK
<1>2. CASE Insert(q)
  <2>1. row' \in Rows
    BY <1>0, <1>2 DEF Insert, Ended
  <2>2. txn' \in Txns
    BY <1>0, <1>2 DEF Insert, Closed
  <2>3. task' \in Tasks
    BY <1>0, <1>2 DEF Insert
  <2>4. QED
    BY <1>2, <2>1, <2>2, <2>3, Zenon DEF Insert, TypeOK
<1>3. CASE Rollback(q)
  <2>1. txn' \in Txns
    BY <1>0, <1>3 DEF Rollback, Closed
  <2>2. QED
    BY <1>3, <2>1, Zenon DEF Rollback, TypeOK
<1>4. CASE AnswerWithoutSources(q)
  <2>1. row' \in Rows
    BY <1>0, <1>4 DEF AnswerWithoutSources, Ended
  <2>2. QED
    BY <1>4, <2>1, Zenon DEF AnswerWithoutSources, TypeOK
<1>5. CASE GrowOld(q)
  <2>1. old' \subseteq Queries
    BY <1>5 DEF GrowOld, TypeOK
  <2>2. QED
    BY <1>5, <2>1, Zenon DEF GrowOld, TypeOK
<1>6. QED
  BY <1>1, <1>2, <1>3, <1>4, <1>5

(* What finish() writes is a row.                                           *)
LEMMA FinishedTypes ==
  ASSUME TypeOK, NEW q \in Queries, NEW status \in Ended, NEW n \in Nat
  PROVE  Finished(q, status, n)
           \in [Queries -> [status : Ended \cup {"none", "streaming"}, tokens : Nat]]
BY DEF TypeOK, Finished

(* The runner's steps keep every type.                                      *)
LEMMA RunnerStepTypes ==
  ASSUME TypeOK, NEW q \in Queries,
         \/ Run(q) \/ Control(q) \/ Crash(q) \/ RunnerLapses(q) \/ ReaderLapses(q)
         \/ BufferExpires(q) \/ RequestCancel(q)
  PROVE  TypeOK'
<1> DEFINE Tasks == [Queries -> [pc : {"none", "created", "relay", "finish", "publish", "over"},
                                 outcome : Ended]]
           Flags == [Queries -> [cancel : BOOLEAN, reader : BOOLEAN, runner : BOOLEAN]]
           Events == [Queries -> {"none", "done", "cancelled", "error"}]
<1>0. task \in Tasks /\ flag \in Flags /\ event \in Events /\ task[q].outcome \in Ended
  BY DEF TypeOK
<1>1. CASE Start(q)
  <2>1. task' \in Tasks
    BY <1>0, <1>1 DEF Start
  <2>2. flag' \in Flags
    BY <1>0, <1>1 DEF Start
  <2>3. QED
    BY <1>1, <2>1, <2>2, Zenon DEF Start, TypeOK
<1>2. CASE RelayEnds(q)
  <2>1. task' \in Tasks
    BY <1>0, <1>2 DEF RelayEnds, Outcomes, Ended
  <2>2. QED
    BY <1>2, <2>1, Zenon DEF RelayEnds, TypeOK
<1>3. CASE Record(q)
  <2>1. PICK n \in Charges(task[q].outcome) :
           /\ row' \in {row, Finished(q, task[q].outcome, n)}
           /\ \E s \in {task[q].outcome, "failed"} :
                task' = [task EXCEPT ![q] = [pc |-> "publish", outcome |-> s]]
    BY <1>3 DEF Record
  <2>2. n \in Nat
    BY <2>1, AIAssumption DEF Charges
  <2>3. row' \in [Queries -> [status : Ended \cup {"none", "streaming"}, tokens : Nat]]
    <3>1. row \in [Queries -> [status : Ended \cup {"none", "streaming"}, tokens : Nat]]
      BY DEF TypeOK
    <3>2. QED
      BY <1>0, <2>1, <2>2, <3>1, FinishedTypes
  <2>4. task' \in Tasks
    BY <1>0, <2>1 DEF Ended
  <2>5. QED
    BY <1>3, <2>3, <2>4, Zenon DEF Record, TypeOK
<1>4. CASE Announce(q)
  <2>1. task' \in Tasks
    BY <1>0, <1>4 DEF Announce
  <2>2. flag' \in Flags
    BY <1>0, <1>4 DEF Announce
  <2>3. event' \in Events
    BY <1>0, <1>4 DEF Announce, EventOf
  <2>4. QED
    BY <1>4, <2>1, <2>2, <2>3, Zenon DEF Announce, TypeOK
<1>5. CASE Crash(q)
  <2>1. task' \in Tasks
    BY <1>0, <1>5 DEF Crash
  <2>2. QED
    BY <1>5, <2>1, Zenon DEF Crash, TypeOK
<1>6. CASE Control(q) \/ RunnerLapses(q) \/ ReaderLapses(q) \/ RequestCancel(q)
  <2>1. flag' \in Flags
    <3>1. CASE Control(q)
      BY <1>0, <3>1 DEF Control
    <3>2. CASE RunnerLapses(q)
      BY <1>0, <3>2 DEF RunnerLapses
    <3>3. CASE ReaderLapses(q)
      BY <1>0, <3>3 DEF ReaderLapses
    <3>4. CASE RequestCancel(q)
      BY <1>0, <3>4 DEF RequestCancel
    <3>5. QED
      BY <1>6, <3>1, <3>2, <3>3, <3>4
  <2>2. UNCHANGED <<row, old, txn, task, event, reader>>
    BY <1>6 DEF Control, RunnerLapses, ReaderLapses, RequestCancel
  <2>3. QED
    BY <2>1, <2>2, Zenon DEF TypeOK
<1>7. CASE BufferExpires(q)
  <2>1. event' \in Events
    BY <1>0, <1>7 DEF BufferExpires
  <2>2. QED
    BY <1>7, <2>1, Zenon DEF BufferExpires, TypeOK
<1>8. QED
  BY <1>1, <1>2, <1>3, <1>4, <1>5, <1>6, <1>7 DEF Run

Words == {"none", "done", "cancelled", "error"}
ReaderStates == [pc : {"idle", "replay", "loop", "dead", "abandon", "told"},
                 query : Queries \cup {Nobody}, seen : Ended \cup {"none", "streaming"},
                 told : Words]

(* A reader that is told something, or moves on, keeps its type and query.  *)
LEMMA ReaderMoves ==
  ASSUME TypeInv, NEW r \in Readers, reader[r].query \in Queries,
         \/ \E e \in Words : Tell(r, e)
         \/ \E pc \in {"dead", "abandon"} : reader' = [reader EXCEPT ![r].pc = pc]
  PROVE  reader' \in [Readers -> ReaderStates] /\ ReadersOpen'
<1>0. reader \in [Readers -> ReaderStates]
  BY DEF TypeInv, TypeOK, ReaderStates, Words
<1>1. CASE \E e \in Words : Tell(r, e)
  <2>1. PICK e \in Words : reader' = [reader EXCEPT ![r] = [@ EXCEPT !.pc = "told", !.told = e]]
    BY <1>1 DEF Tell
  <2>2. [reader[r] EXCEPT !.pc = "told", !.told = e] \in ReaderStates
    BY <1>0, <2>1 DEF ReaderStates
  <2>3. QED
    BY <1>0, <2>1, <2>2 DEF TypeInv, ReadersOpen, ReaderStates
<1>2. CASE \E pc \in {"dead", "abandon"} : reader' = [reader EXCEPT ![r].pc = pc]
  BY <1>0, <1>2 DEF TypeInv, ReadersOpen, ReaderStates
<1>3. QED
  BY <1>1, <1>2

(* A reader's steps keep every type.                                        *)
LEMMA ReaderStepTypes ==
  ASSUME TypeInv, NEW r \in Readers,
         \/ Follow(r) \/ TouchReader(r) \/ CloseStream(r) \/ \E q \in Queries : OpenStream(r, q)
  PROVE  TypeInv'
<1> DEFINE q == reader[r].query
<1>0. /\ reader \in [Readers -> ReaderStates] /\ event \in [Queries -> Words]
      /\ row \in [Queries -> [status : Ended \cup {"none", "streaming"}, tokens : Nat]]
      /\ reader[r].pc # "idle" => q \in Queries
  BY DEF TypeInv, TypeOK, ReaderStates, ReadersOpen, Words
<1>1. \A status : EventOf(status) \in Words
  BY DEF EventOf, Words
<1>2. ASSUME reader' \in [Readers -> ReaderStates] /\ ReadersOpen',
             UNCHANGED <<row, old, txn, task, event, flag>>
      PROVE  TypeInv'
  BY <1>2, Zenon DEF TypeInv, TypeOK, ReaderStates, Words
<1>3. CASE ReplayRow(r) \/ ReadEvents(r)
  <2>1. q \in Queries /\ \E e \in Words : Tell(r, e)
    BY <1>0, <1>1, <1>3 DEF ReplayRow, ReadEvents
  <2>2. UNCHANGED <<row, old, txn, task, event, flag>>
    BY <1>3 DEF ReplayRow, ReadEvents
  <2>3. QED
    BY <1>2, <2>1, <2>2, ReaderMoves
<1>4. CASE FindDead(r) \/ ReadAgain(r)
  <2>1. q \in Queries
    BY <1>0, <1>4 DEF FindDead, ReadAgain
  <2>2. \/ \E e \in Words : Tell(r, e)
        \/ \E pc \in {"dead", "abandon"} : reader' = [reader EXCEPT ![r].pc = pc]
    BY <1>0, <1>4, <2>1 DEF FindDead, ReadAgain
  <2>3. UNCHANGED <<row, old, txn, task, event, flag>>
    BY <1>4 DEF FindDead, ReadAgain
  <2>4. QED
    BY <1>2, <2>1, <2>2, <2>3, ReaderMoves
<1>5. CASE Abandon(r)
  <2>1. q \in Queries /\ row' = Finished(q, "failed", 0) /\ \E e \in Words : Tell(r, e)
    BY <1>0, <1>1, <1>5 DEF Abandon
  <2>2. row' \in [Queries -> [status : Ended \cup {"none", "streaming"}, tokens : Nat]]
    BY <2>1, FinishedTypes DEF TypeInv, Ended
  <2>3. reader' \in [Readers -> ReaderStates] /\ ReadersOpen'
    BY <2>1, ReaderMoves
  <2>4. QED
    BY <1>5, <2>2, <2>3, Zenon DEF Abandon, TypeInv, TypeOK, ReaderStates, Words
<1>6. CASE TouchReader(r)
  <2>1. flag' \in [Queries -> [cancel : BOOLEAN, reader : BOOLEAN, runner : BOOLEAN]]
    <3>1. flag \in [Queries -> [cancel : BOOLEAN, reader : BOOLEAN, runner : BOOLEAN]]
      BY DEF TypeInv, TypeOK
    <3>2. q \in Queries
      BY <1>0, <1>6 DEF TouchReader
    <3>3. QED
      BY <1>6, <3>1, <3>2 DEF TouchReader
  <2>2. QED
    BY <1>6, <2>1, Zenon DEF TouchReader, TypeInv, TypeOK, ReadersOpen
<1>7. CASE CloseStream(r)
  <2>1. reader' \in [Readers -> ReaderStates] /\ ReadersOpen'
    BY <1>0, <1>7 DEF CloseStream, Unconnected, ReaderStates, Words, TypeInv, ReadersOpen
  <2>2. QED
    BY <1>2, <1>7, <2>1 DEF CloseStream
<1>8. ASSUME NEW p \in Queries, OpenStream(r, p)
      PROVE  TypeInv'
  <2>1. [pc |-> IF row[p].status = "streaming" THEN "loop" ELSE "replay",
         query |-> p, seen |-> row[p].status, told |-> "none"] \in ReaderStates
    BY <1>0 DEF ReaderStates, Words
  <2>2. reader' \in [Readers -> ReaderStates] /\ ReadersOpen'
    BY <1>0, <1>8, <2>1 DEF OpenStream, TypeInv, ReadersOpen
  <2>3. QED
    BY <1>2, <1>8, <2>2 DEF OpenStream
<1>9. QED
  BY <1>3, <1>4, <1>5, <1>6, <1>7, <1>8 DEF Follow

(* Every step keeps every type.                                             *)
LEMMA NextTypeInv == TypeInv /\ [Next]_vars => TypeInv'
<1> SUFFICES ASSUME TypeInv, [Next]_vars PROVE TypeInv'
  OBVIOUS
<1>1. CASE UNCHANGED vars
  BY <1>1, Zenon DEF vars, TypeInv, TypeOK, ReadersOpen
<1>2. ASSUME NEW q \in Queries,
             \/ Enforce(q) \/ Insert(q) \/ Rollback(q) \/ AnswerWithoutSources(q) \/ GrowOld(q)
             \/ Run(q) \/ Control(q) \/ Crash(q) \/ RunnerLapses(q) \/ ReaderLapses(q)
             \/ BufferExpires(q) \/ RequestCancel(q)
      PROVE  TypeInv'
  <2>1. TypeOK'
    BY <1>2, QueryStepTypes, RunnerStepTypes DEF TypeInv
  <2>2. UNCHANGED reader
    BY <1>2 DEF Enforce, Insert, Rollback, AnswerWithoutSources, GrowOld, Run, Start, RelayEnds,
       Record, Announce, Control, Crash, RunnerLapses, ReaderLapses, BufferExpires, RequestCancel
  <2>3. QED
    BY <2>1, <2>2 DEF TypeInv, ReadersOpen
<1>3. QED
  BY <1>1, <1>2, ReaderStepTypes DEF Next

(* Type correctness: rows, transactions, tasks, events, flags and readers   *)
(* stay well formed.                                                        *)
THEOREM TypeCorrect == Spec => []TypeOK
<1>1. TypeInv => TypeOK
  BY DEF TypeInv
<1>2. QED
  BY <1>1, InitTypeInv, NextTypeInv, PTL DEF Spec

-----------------------------------------------------------------------------
(* Rows and the workspace's lock.                                           *)

(* The runner or a reader ends a row that no transaction has locked.        *)
Finishes(q) ==
  /\ RowFree(q) /\ UNCHANGED txn
  /\ \E status \in Ended : \E n \in Charges(status) : row' = Finished(q, status, n)

(* What a step can do to the rows and the transactions.                     *)
LEMMA RowSteps ==
  ASSUME TypeInv, [Next]_vars
  PROVE  \/ UNCHANGED <<row, txn>>
         \/ \E q \in Queries : \/ Enforce(q) \/ Insert(q) \/ Rollback(q)
                               \/ AnswerWithoutSources(q) \/ Finishes(q)
<1>1. CASE UNCHANGED vars
  BY <1>1 DEF vars
<1>2. ASSUME NEW q \in Queries, Record(q)
      PROVE  UNCHANGED <<row, txn>> \/ Finishes(q)
  <2>1. PICK n \in Charges(task[q].outcome) :
           RowFree(q) /\ UNCHANGED txn /\ row' \in {row, Finished(q, task[q].outcome, n)}
    BY <1>2 DEF Record
  <2>2. n \in Nat /\ task[q].outcome \in Ended
    BY <2>1, AIAssumption DEF Charges, TypeInv, TypeOK
  <2>3. QED
    BY <2>1, <2>2 DEF Finishes
<1>3. ASSUME NEW q \in Queries,
             \/ GrowOld(q) \/ Start(q) \/ RelayEnds(q) \/ Announce(q) \/ Control(q) \/ Crash(q)
             \/ RunnerLapses(q) \/ ReaderLapses(q) \/ BufferExpires(q) \/ RequestCancel(q)
      PROVE  UNCHANGED <<row, txn>>
  BY <1>3 DEF GrowOld, Start, RelayEnds, Announce, Control, Crash, RunnerLapses, ReaderLapses,
     BufferExpires, RequestCancel
<1>4. ASSUME NEW r \in Readers, Abandon(r)
      PROVE  \E q \in Queries : Finishes(q)
  <2>1. reader[r].query \in Queries
    BY <1>4 DEF Abandon, TypeInv, ReadersOpen
  <2>2. RowFree(reader[r].query) /\ UNCHANGED txn /\ row' = Finished(reader[r].query, "failed", 0)
    BY <1>4 DEF Abandon
  <2>3. QED
    BY <2>1, <2>2 DEF Finishes, Ended, Charges
<1>5. ASSUME NEW r \in Readers, NEW q,
             \/ ReplayRow(r) \/ ReadEvents(r) \/ FindDead(r) \/ ReadAgain(r)
             \/ TouchReader(r) \/ CloseStream(r) \/ OpenStream(r, q)
      PROVE  UNCHANGED <<row, txn>>
  BY <1>5 DEF ReplayRow, ReadEvents, FindDead, ReadAgain, TouchReader, CloseStream, OpenStream
<1>6. QED
  BY <1>1, <1>2, <1>3, <1>4, <1>5, Zenon DEF Next, Run, Follow

(* finish() ends a streaming row and leaves every other alone.              *)
LEMMA FinishedRow ==
  ASSUME TypeInv, NEW q \in Queries, Finishes(q), NEW p \in Queries
  PROVE  /\ row'[p] = row[p] \/ (p = q /\ row[p].status = "streaming" /\ row'[p].status \in Ended)
         /\ row'[p].status = "streaming" => row[p].status = "streaming"
BY DEF Finishes, Finished, TypeInv, TypeOK, Ended

(* Every step leaves the lock with one transaction at most, and a row that  *)
(* it will end to nobody else.                                              *)
LEMMA NextLockHeld ==
  ASSUME TypeInv, LockHeld, [Next]_vars
  PROVE  LockHeld'
<1>0. /\ txn \in [Queries -> [open : BOOLEAN, expired : SUBSET Queries]]
      /\ row \in [Queries -> [status : Ended \cup {"none", "streaming"}, tokens : Nat]]
  BY DEF TypeInv, TypeOK
<1>1. CASE UNCHANGED <<row, txn>>
  BY <1>1 DEF LockHeld, Streaming
<1>2. ASSUME NEW q \in Queries, Enforce(q)
      PROVE  LockHeld'
  <2>1. /\ row' = row /\ row[q].status = "none" /\ \A p \in Queries : ~txn[p].open
        /\ txn' = [txn EXCEPT ![q] = [open |-> TRUE, expired |-> Abandoned]]
    BY <1>2 DEF Enforce
  <2>2. Streaming' = Streaming /\ Abandoned \subseteq Streaming
    BY <2>1 DEF Streaming, Abandoned
  <2>3. \A p \in Queries : p # q => txn'[p] = txn[p]
    BY <1>0, <2>1
  <2>4. txn'[q].open /\ txn'[q].expired = Abandoned
    BY <1>0, <2>1
  <2>5. QED
    BY <2>1, <2>2, <2>3, <2>4 DEF LockHeld
<1>3. ASSUME NEW q \in Queries, Insert(q)
      PROVE  LockHeld'
  <2>1. ~txn'[q].open /\ txn'[q].expired = {} /\ \A p \in Queries : p # q => txn'[p] = txn[p]
    BY <1>0, <1>3 DEF Insert, Closed
  <2>2. \A p \in Queries : p # q => ~txn[p].open /\ txn[p].expired = {}
    BY <1>3 DEF Insert, LockHeld
  <2>3. QED
    BY <2>1, <2>2 DEF LockHeld
<1>4. ASSUME NEW q \in Queries, Rollback(q)
      PROVE  LockHeld'
  <2>1. ~txn'[q].open /\ txn'[q].expired = {} /\ \A p \in Queries : p # q => txn'[p] = txn[p]
    BY <1>0, <1>4 DEF Rollback, Closed
  <2>2. row' = row /\ Streaming' = Streaming
    BY <1>4 DEF Rollback, Streaming
  <2>3. QED
    BY <2>1, <2>2 DEF LockHeld
<1>5. ASSUME NEW q \in Queries, AnswerWithoutSources(q)
      PROVE  LockHeld'
  <2>1. txn' = txn /\ ~txn[q].open /\ row[q].status = "none"
    BY <1>5 DEF AnswerWithoutSources
  <2>2. \A p \in Queries : p # q => row'[p] = row[p]
    BY <1>0, <1>5 DEF AnswerWithoutSources
  <2>3. Streaming \subseteq Streaming'
    BY <2>1, <2>2 DEF Streaming
  <2>4. QED
    BY <2>1, <2>2, <2>3 DEF LockHeld
<1>6. ASSUME NEW q \in Queries, Finishes(q)
      PROVE  LockHeld'
  <2>1. txn' = txn /\ \A p \in Queries : q \notin txn[p].expired
    BY <1>6 DEF Finishes, RowFree
  <2>2. \A p \in Queries : p # q => row'[p] = row[p]
    BY <1>6, FinishedRow
  <2>3. row[q].status # "streaming" => row'[q] = row[q]
    BY <1>6, FinishedRow
  <2>4. \A p \in Queries : txn[p].expired \subseteq Streaming'
    BY <2>1, <2>2 DEF LockHeld, Streaming
  <2>5. QED
    BY <2>1, <2>2, <2>3, <2>4 DEF LockHeld
<1>7. QED
  BY <1>1, <1>2, <1>3, <1>4, <1>5, <1>6, RowSteps

(* A row that has ended is changed by no step.                              *)
LEMMA EndedRowsStay ==
  ASSUME TypeInv, LockHeld, [Next]_vars, NEW p \in Queries, row[p].status \in Ended
  PROVE  row'[p] = row[p]
<1>0. row \in [Queries -> [status : Ended \cup {"none", "streaming"}, tokens : Nat]]
  BY DEF TypeInv, TypeOK
<1>1. ASSUME NEW q \in Queries, Insert(q)
      PROVE  row'[p] = row[p]
  <2>1. p # q /\ p \notin txn[q].expired
    BY <1>1 DEF Insert, LockHeld, Streaming, Ended
  <2>2. QED
    BY <1>1, <2>1 DEF Insert
<1>2. ASSUME NEW q \in Queries, AnswerWithoutSources(q)
      PROVE  row'[p] = row[p]
  BY <1>0, <1>2 DEF AnswerWithoutSources, Ended
<1>3. ASSUME NEW q \in Queries, Finishes(q)
      PROVE  row'[p] = row[p]
  BY <1>3, FinishedRow DEF Ended
<1>4. QED
  BY <1>1, <1>2, <1>3, RowSteps DEF Enforce, Rollback

(* Streaming rows are finitely many, and within the limit once the open     *)
(* transaction has ended those it found abandoned.                          *)
LEMMA NextSlotKept ==
  ASSUME TypeInv, LockHeld, SlotKept, StreamingWithinLimit, [Next]_vars
  PROVE  SlotKept' /\ StreamingWithinLimit'
<1>0. /\ txn \in [Queries -> [open : BOOLEAN, expired : SUBSET Queries]]
      /\ row \in [Queries -> [status : Ended \cup {"none", "streaming"}, tokens : Nat]]
      /\ IsFiniteSet(Streaming) /\ MaxConcurrent \in Nat
  BY AIAssumption DEF TypeInv, TypeOK, SlotKept
<1>1. ASSUME Streaming' \subseteq Streaming, UNCHANGED txn
      PROVE  SlotKept' /\ StreamingWithinLimit'
  <2>1. IsFiniteSet(Streaming') /\ Cardinality(Streaming') <= Cardinality(Streaming)
        /\ Cardinality(Streaming) \in Nat /\ Cardinality(Streaming') \in Nat
    BY <1>0, <1>1, FS_Subset, FS_CardinalityType
  <2>2. ASSUME NEW q \in Queries
        PROVE  /\ Cardinality(Streaming' \ txn[q].expired) <= Cardinality(Streaming \ txn[q].expired)
               /\ Cardinality(Streaming \ txn[q].expired) \in Nat
               /\ Cardinality(Streaming' \ txn[q].expired) \in Nat
    <3>1. /\ Streaming \ txn[q].expired \in SUBSET Streaming
          /\ Streaming' \ txn[q].expired \in SUBSET (Streaming \ txn[q].expired)
      BY <1>1
    <3>2. IsFiniteSet(Streaming \ txn[q].expired)
      BY <1>0, <3>1, FS_Subset
    <3>3. QED
      BY <3>1, <3>2, FS_Subset, FS_CardinalityType
  <2>3. ASSUME MaxConcurrent > 0, NEW q \in Queries, txn'[q].open
        PROVE  Cardinality(Streaming' \ txn'[q].expired) < MaxConcurrent
    <3>1. txn'[q] = txn[q]
      BY <1>1
    <3>2. Cardinality(Streaming \ txn[q].expired) < MaxConcurrent
      BY <2>3, <3>1 DEF SlotKept
    <3>3. Streaming' \ txn'[q].expired = Streaming' \ txn[q].expired
      BY <3>1
    <3>4. \A a, b, c \in Nat : a <= b /\ b < c => a < c
      OBVIOUS
    <3>5. Cardinality(Streaming' \ txn[q].expired) < MaxConcurrent
      BY <1>0, <2>2, <3>2, <3>4
    <3>6. QED
      BY <3>3, <3>5
  <2>6. SlotKept'
    BY <2>1, <2>3 DEF SlotKept
  <2>4. StreamingWithinLimit'
    BY <1>0, <2>1 DEF StreamingWithinLimit
  <2>5. QED
    BY <2>6, <2>4
<1>2. CASE UNCHANGED <<row, txn>>
  BY <1>1, <1>2 DEF Streaming
<1>3. ASSUME NEW q \in Queries, Enforce(q)
      PROVE  SlotKept' /\ StreamingWithinLimit'
  <2>1. /\ row' = row /\ \A p \in Queries : ~txn[p].open
        /\ txn' = [txn EXCEPT ![q] = [open |-> TRUE, expired |-> Abandoned]]
    BY <1>3 DEF Enforce
  <2>2. Streaming' = Streaming
    BY <2>1 DEF Streaming
  <2>3. txn'[q].expired = Abandoned /\ \A p \in Queries : p # q => ~txn'[p].open
    BY <1>0, <2>1
  <2>4. MaxConcurrent > 0 => Cardinality(Streaming \ Abandoned) < MaxConcurrent
    BY <1>3 DEF Enforce, SlotIsFree
  <2>5. QED
    BY <1>0, <2>2, <2>3, <2>4 DEF SlotKept, StreamingWithinLimit
<1>4. ASSUME NEW q \in Queries, Insert(q)
      PROVE  SlotKept' /\ StreamingWithinLimit'
  <2> DEFINE rest == Streaming \ txn[q].expired
  <2>1. Streaming' = rest \cup {q} /\ q \notin rest
    <3>1. \A p \in Queries : p # q =>
             row'[p] = IF p \in txn[q].expired THEN [status |-> "failed", tokens |-> 0] ELSE row[p]
      BY <1>4 DEF Insert
    <3>2. row'[q].status = "streaming" /\ row[q].status = "none"
      BY <1>4 DEF Insert, LockHeld
    <3>3. QED
      BY <3>1, <3>2 DEF Streaming
  <2>2. IsFiniteSet(rest) /\ Cardinality(rest) \in Nat
    <3>1. rest \in SUBSET Streaming
      OBVIOUS
    <3>2. QED
      BY <1>0, <3>1, FS_Subset, FS_CardinalityType
  <2>3. MaxConcurrent > 0 => Cardinality(rest) < MaxConcurrent
    BY <1>4 DEF SlotKept, Insert
  <2> HIDE DEF rest
  <2>4. IsFiniteSet(Streaming') /\ Cardinality(Streaming') = Cardinality(rest) + 1
    BY <2>1, <2>2, FS_AddElement
  <2>5. \A p \in Queries : ~txn'[p].open
    BY <1>0, <1>4 DEF Insert, Closed, LockHeld
  <2>6. QED
    BY <1>0, <2>2, <2>3, <2>4, <2>5 DEF SlotKept, StreamingWithinLimit
<1>5. ASSUME NEW q \in Queries, Rollback(q)
      PROVE  SlotKept' /\ StreamingWithinLimit'
  <2>1. Streaming' = Streaming
    BY <1>5 DEF Rollback, Streaming
  <2>2. ~txn'[q].open /\ \A p \in Queries : p # q => txn'[p] = txn[p]
    BY <1>0, <1>5 DEF Rollback, Closed
  <2>3. QED
    BY <2>1, <2>2 DEF SlotKept, StreamingWithinLimit
<1>6. ASSUME NEW q \in Queries, AnswerWithoutSources(q)
      PROVE  SlotKept' /\ StreamingWithinLimit'
  <2>1. UNCHANGED txn
    BY <1>6 DEF AnswerWithoutSources
  <2>2. Streaming' \subseteq Streaming
    BY <1>0, <1>6 DEF AnswerWithoutSources, Streaming
  <2>3. QED
    BY <1>1, <2>1, <2>2
<1>7. ASSUME NEW q \in Queries, Finishes(q)
      PROVE  SlotKept' /\ StreamingWithinLimit'
  <2>1. UNCHANGED txn
    BY <1>7 DEF Finishes
  <2>2. Streaming' \subseteq Streaming
    BY <1>7, FinishedRow DEF Streaming
  <2>3. QED
    BY <1>1, <2>1, <2>2
<1>8. QED
  BY <1>2, <1>3, <1>4, <1>5, <1>6, <1>7, RowSteps

-----------------------------------------------------------------------------
(* What readers are told.                                                   *)

(* A final row is never overwritten, so what once agreed with it does.      *)
LEMMA WordsStay ==
  ASSUME TypeInv, LockHeld, [Next]_vars, NEW p \in Queries, NEW word, Says(word, p)
  PROVE  /\ word \in {"completed", "done"} => row'[p].status = "completed"
         /\ word = "cancelled" => row'[p].status = "cancelled"
BY EndedRowsStay DEF Says, Ended

(* Only _finish brings a runner to where it publishes its outcome.          *)
LEMMA OutcomeSteps ==
  ASSUME TypeInv, [Next]_vars, NEW p \in Queries, task'[p].pc = "publish"
  PROVE  task'[p] = task[p] \/ Record(p)
<1>0. task \in [Queries -> [pc : {"none", "created", "relay", "finish", "publish", "over"},
                            outcome : Ended]]
  BY DEF TypeInv, TypeOK
<1>1. CASE UNCHANGED task
  BY <1>1
<1>2. ASSUME NEW q \in Queries, Insert(q) \/ Start(q) \/ RelayEnds(q) \/ Announce(q) \/ Crash(q)
      PROVE  task'[p] = task[p]
  <2>1. p # q
    BY <1>0, <1>2 DEF Insert, Start, RelayEnds, Announce, Crash
  <2>2. QED
    BY <1>0, <1>2, <2>1 DEF Insert, Start, RelayEnds, Announce, Crash
<1>3. ASSUME NEW q \in Queries, Record(q)
      PROVE  task'[p] = task[p] \/ Record(p)
  <2>1. CASE p = q
    BY <1>3, <2>1
  <2>2. CASE p # q
    BY <1>0, <1>3, <2>2 DEF Record
  <2>3. QED
    BY <2>1, <2>2
<1>4. ASSUME NEW q \in Queries,
             \/ Enforce(q) \/ Rollback(q) \/ AnswerWithoutSources(q) \/ GrowOld(q) \/ Control(q)
             \/ RunnerLapses(q) \/ ReaderLapses(q) \/ BufferExpires(q) \/ RequestCancel(q)
      PROVE  UNCHANGED task
  BY <1>4 DEF Enforce, Rollback, AnswerWithoutSources, GrowOld, Control, RunnerLapses,
     ReaderLapses, BufferExpires, RequestCancel
<1>5. ASSUME NEW r \in Readers, NEW q,
             Follow(r) \/ TouchReader(r) \/ CloseStream(r) \/ OpenStream(r, q)
      PROVE  UNCHANGED task
  BY <1>5 DEF Follow, ReplayRow, ReadEvents, FindDead, ReadAgain, Abandon, TouchReader,
     CloseStream, OpenStream
<1>6. CASE UNCHANGED vars
  BY <1>6 DEF vars
<1>7. QED
  BY <1>1, <1>2, <1>3, <1>4, <1>5, <1>6, Zenon DEF Next, Run

(* Record publishes a completion or a cancellation only if it wrote it.     *)
LEMMA RecordedOutcome ==
  ASSUME TypeInv, NEW p \in Queries, Record(p)
  PROVE  /\ task'[p].outcome = "completed" => row'[p].status = "completed"
         /\ task'[p].outcome = "cancelled" => row'[p].status = "cancelled"
<1>0. /\ task \in [Queries -> [pc : {"none", "created", "relay", "finish", "publish", "over"},
                               outcome : Ended]]
      /\ row \in [Queries -> [status : Ended \cup {"none", "streaming"}, tokens : Nat]]
  BY DEF TypeInv, TypeOK
<1>1. PICK n \in Charges(task[p].outcome) :
        \/ task' = [task EXCEPT ![p] = [pc |-> "publish", outcome |-> "failed"]]
        \/ /\ row' = Finished(p, task[p].outcome, n)
           /\ task' = [task EXCEPT ![p] =
                         [pc |-> "publish",
                          outcome |-> IF row[p].status = "streaming" THEN @.outcome ELSE "failed"]]
  BY DEF Record
<1>2. CASE task'[p].outcome = "failed"
  BY <1>2
<1>3. CASE task'[p].outcome # "failed"
  <2>1. row[p].status = "streaming" /\ row' = Finished(p, task[p].outcome, n)
    BY <1>0, <1>1, <1>3
  <2>2. task'[p].outcome = task[p].outcome
    BY <1>0, <1>1, <1>3
  <2>3. row'[p].status = task[p].outcome
    BY <1>0, <2>1 DEF Finished
  <2>4. QED
    BY <2>2, <2>3
<1>4. QED
  BY <1>2, <1>3

(* Only the runner's announcement adds an event.                            *)
LEMMA EventSteps ==
  ASSUME TypeInv, [Next]_vars, NEW p \in Queries
  PROVE  \/ event'[p] \in {event[p], "none"}
         \/ task[p].pc = "publish" /\ event'[p] = EventOf(task[p].outcome)
<1>0. event \in [Queries -> Words]
  BY DEF TypeInv, TypeOK, Words
<1>1. ASSUME NEW q \in Queries, Announce(q) \/ BufferExpires(q)
      PROVE  \/ event'[p] \in {event[p], "none"}
             \/ task[p].pc = "publish" /\ event'[p] = EventOf(task[p].outcome)
  <2>1. CASE p = q
    BY <1>0, <1>1, <2>1 DEF Announce, BufferExpires
  <2>2. CASE p # q
    BY <1>0, <1>1, <2>2 DEF Announce, BufferExpires
  <2>3. QED
    BY <2>1, <2>2
<1>2. ASSUME NEW q \in Queries,
             \/ Enforce(q) \/ Insert(q) \/ Rollback(q) \/ AnswerWithoutSources(q) \/ GrowOld(q)
             \/ Start(q) \/ RelayEnds(q) \/ Record(q) \/ Control(q) \/ Crash(q)
             \/ RunnerLapses(q) \/ ReaderLapses(q) \/ RequestCancel(q)
      PROVE  UNCHANGED event
  BY <1>2 DEF Enforce, Insert, Rollback, AnswerWithoutSources, GrowOld, Start, RelayEnds, Record,
     Control, Crash, RunnerLapses, ReaderLapses, RequestCancel
<1>3. ASSUME NEW r \in Readers, NEW q,
             Follow(r) \/ TouchReader(r) \/ CloseStream(r) \/ OpenStream(r, q)
      PROVE  UNCHANGED event
  BY <1>3 DEF Follow, ReplayRow, ReadEvents, FindDead, ReadAgain, Abandon, TouchReader,
     CloseStream, OpenStream
<1>4. CASE UNCHANGED vars
  BY <1>4 DEF vars
<1>5. CASE UNCHANGED event
  BY <1>5
<1>6. QED
  BY <1>1, <1>2, <1>3, <1>4, <1>5, Zenon DEF Next, Run

(* What a reader holds or is told comes from an event, from its copy of the *)
(* row, or from the row as it is after the step.                            *)
HeardFrom(r, word) ==
  LET q == reader[r].query
  IN  \/ event[q] = word
      \/ reader[r].pc = "replay" /\ word = EventOf(reader[r].seen)
      \/ word = EventOf(row'[q].status)

(* The steps of a reader: it moves, is told, opens a stream or leaves.      *)
LEMMA ReaderSteps ==
  ASSUME TypeInv, [Next]_vars, NEW r \in Readers
  PROVE  \/ reader'[r] = reader[r]
         \/ reader'[r] = Unconnected
         \/ /\ reader'[r].pc # "replay" /\ reader'[r].query = reader[r].query
            /\ reader'[r].told = reader[r].told
         \/ /\ reader[r].pc # "idle" /\ reader'[r].pc = "told"
            /\ reader'[r].query = reader[r].query
            /\ HeardFrom(r, reader'[r].told)
         \/ \E q \in Queries :
              /\ row[q].status # "none" /\ row' = row
              /\ reader'[r].pc = (IF row[q].status = "streaming" THEN "loop" ELSE "replay")
              /\ reader'[r].query = q /\ reader'[r].seen = row[q].status
              /\ reader'[r].told = "none"
<1> DEFINE Goal ==
         \/ reader'[r] = reader[r]
         \/ reader'[r] = Unconnected
         \/ /\ reader'[r].pc # "replay" /\ reader'[r].query = reader[r].query
            /\ reader'[r].told = reader[r].told
         \/ /\ reader[r].pc # "idle" /\ reader'[r].pc = "told"
            /\ reader'[r].query = reader[r].query
            /\ HeardFrom(r, reader'[r].told)
         \/ \E q \in Queries :
              /\ row[q].status # "none" /\ row' = row
              /\ reader'[r].pc = (IF row[q].status = "streaming" THEN "loop" ELSE "replay")
              /\ reader'[r].query = q /\ reader'[r].seen = row[q].status
              /\ reader'[r].told = "none"
<1> SUFFICES Goal
  OBVIOUS
<1>0. reader \in [Readers -> ReaderStates]
  BY DEF TypeInv, TypeOK, ReaderStates, Words
<1>1. CASE UNCHANGED reader
  BY <1>1
<1>2. ASSUME NEW e, Tell(r, e), reader[r].pc # "idle", HeardFrom(r, e)
      PROVE  Goal
  <2>1. /\ reader'[r].pc = "told" /\ reader'[r].told = e /\ reader'[r].query = reader[r].query
    BY <1>0, <1>2 DEF Tell, ReaderStates
  <2>2. QED
    BY <1>2, <2>1
<1>3. ASSUME NEW s \in Readers, s # r, NEW q,
             Follow(s) \/ CloseStream(s) \/ OpenStream(s, q)
      PROVE  Goal
  <2>1. reader'[r] = reader[r]
    BY <1>0, <1>3 DEF Follow, ReplayRow, ReadEvents, FindDead, ReadAgain, Abandon, CloseStream,
       OpenStream, Tell
  <2>2. QED
    BY <2>1
<1>4. CASE ReplayRow(r)
  <2>1. PICK e : Tell(r, e) /\ reader[r].pc # "idle" /\ HeardFrom(r, e)
    BY <1>4 DEF ReplayRow, HeardFrom
  <2>2. QED
    BY <1>2, <2>1
<1>5. CASE ReadEvents(r)
  <2>1. PICK e : Tell(r, e) /\ reader[r].pc # "idle" /\ HeardFrom(r, e)
    BY <1>5 DEF ReadEvents, HeardFrom
  <2>2. QED
    BY <1>2, <2>1
<1>6. CASE Abandon(r)
  <2>1. PICK e : Tell(r, e) /\ reader[r].pc # "idle" /\ HeardFrom(r, e)
    BY <1>6 DEF Abandon, HeardFrom
  <2>2. QED
    BY <1>2, <2>1
<1>7. ASSUME NEW pc \in {"dead", "abandon"}, reader' = [reader EXCEPT ![r].pc = pc]
      PROVE  Goal
  <2>1. /\ reader'[r].pc = pc /\ reader'[r].query = reader[r].query
        /\ reader'[r].told = reader[r].told
    BY <1>0, <1>7 DEF ReaderStates
  <2>2. QED
    BY <2>1
<1>8. CASE ReadAgain(r)
  <2>1. \/ \E e : Tell(r, e) /\ reader[r].pc # "idle" /\ HeardFrom(r, e)
        \/ reader' = [reader EXCEPT ![r].pc = "abandon"]
    BY <1>8 DEF ReadAgain, HeardFrom
  <2>2. QED
    BY <1>2, <1>7, <2>1
<1>9. CASE FindDead(r)
  BY <1>7, <1>9 DEF FindDead
<1>10. CASE CloseStream(r)
  <2>1. reader'[r] = Unconnected
    BY <1>0, <1>10 DEF CloseStream
  <2>2. QED
    BY <2>1
<1>11. ASSUME NEW q \in Queries, OpenStream(r, q)
       PROVE  Goal
  <2>1. /\ row[q].status # "none" /\ row' = row
        /\ reader'[r].pc = (IF row[q].status = "streaming" THEN "loop" ELSE "replay")
        /\ reader'[r].query = q /\ reader'[r].seen = row[q].status
        /\ reader'[r].told = "none"
    BY <1>0, <1>11 DEF OpenStream
  <2>2. QED
    BY <2>1
<1>12. ASSUME NEW q \in Queries,
             \/ Enforce(q) \/ Insert(q) \/ Rollback(q) \/ AnswerWithoutSources(q) \/ GrowOld(q)
             \/ Run(q) \/ Control(q) \/ Crash(q) \/ RunnerLapses(q) \/ ReaderLapses(q)
             \/ BufferExpires(q) \/ RequestCancel(q)
       PROVE  UNCHANGED reader
    BY <1>12 DEF Enforce, Insert, Rollback, AnswerWithoutSources, GrowOld, Run, Start, RelayEnds,
       Record, Announce, Control, Crash, RunnerLapses, ReaderLapses, BufferExpires, RequestCancel
<1>13. ASSUME NEW s \in Readers, TouchReader(s)
       PROVE  UNCHANGED reader
  BY <1>13 DEF TouchReader
<1>14. CASE UNCHANGED vars
  BY <1>1, <1>14 DEF vars
<1> HIDE DEF Goal
<1>15. ASSUME NEW s \in Readers, Follow(s)
       PROVE  Goal
  <2>1. CASE s = r
    BY <1>4, <1>5, <1>6, <1>8, <1>9, <1>15, <2>1, Zenon DEF Follow
  <2>2. CASE s # r
    BY <1>3, <1>15, <2>2
  <2>3. QED
    BY <2>1, <2>2
<1>16. ASSUME NEW s \in Readers, CloseStream(s)
       PROVE  Goal
  BY <1>3, <1>10, <1>16, Zenon
<1>17. ASSUME NEW s \in Readers, NEW q \in Queries, OpenStream(s, q)
       PROVE  Goal
  BY <1>3, <1>11, <1>17, Zenon
<1>18. QED
  BY <1>1, <1>12, <1>13, <1>14, <1>15, <1>16, <1>17, Zenon DEF Next

(* Every word that is about to be said, or was, stays true of its row.      *)
LEMMA NextWordsKept ==
  ASSUME TypeInv, LockHeld, WordsKept, [Next]_vars
  PROVE  WordsKept'
<1>1. ASSUME NEW p \in Queries, task'[p].pc = "publish"
      PROVE  Says(task[p].outcome, p)' 
  <2>1. CASE task'[p] = task[p]
    <3>1. Says(task[p].outcome, p)
      BY <1>1, <2>1 DEF WordsKept
    <3>2. QED
      BY <2>1, <3>1, WordsStay DEF Says
  <2>2. CASE Record(p)
    <3>1. task'[p].outcome \in Ended
      BY NextTypeInv DEF TypeInv, TypeOK
    <3>2. QED
      BY <2>2, <3>1, RecordedOutcome DEF Says, Ended
  <2>3. QED
    BY <1>1, <2>1, <2>2, OutcomeSteps
<1>2. ASSUME NEW p \in Queries
      PROVE  Says(event[p], p)'
  <2>1. CASE event'[p] = event[p]
    <3>1. Says(event[p], p)
      BY DEF WordsKept
    <3>2. QED
      BY <2>1, <3>1, WordsStay DEF Says
  <2>2. CASE event'[p] = "none"
    BY <2>2 DEF Says
  <2>3. CASE task[p].pc = "publish" /\ event'[p] = EventOf(task[p].outcome)
    <3>1. Says(task[p].outcome, p)
      BY <2>3 DEF WordsKept
    <3>2. Says(EventOf(task[p].outcome), p)
      BY <3>1 DEF Says, EventOf
    <3>3. QED
      BY <2>3, <3>2, WordsStay DEF Says
  <2>4. QED
    BY <2>1, <2>2, <2>3, EventSteps
<1>3. ASSUME NEW r \in Readers
      PROVE  /\ reader'[r].pc = "replay" =>
                  reader'[r].seen \in Ended /\ Says(reader[r].seen, reader[r].query)'
             /\ reader'[r].told # "none" => Says(reader[r].told, reader[r].query)'
  <2> DEFINE q == reader[r].query
  <2>0. /\ reader[r].pc # "idle" \/ reader[r].told # "none" => q \in Queries
        /\ reader[r].pc = "replay" => reader[r].seen \in Ended /\ Says(reader[r].seen, q)
        /\ reader[r].told # "none" => Says(reader[r].told, q)
    BY DEF TypeInv, ReadersOpen, WordsKept
  <2>1. CASE reader'[r] = reader[r]
    <3>1. ASSUME reader[r].pc = "replay"
          PROVE  Says(reader[r].seen, reader[r].query)'
      BY <2>0, <2>1, <3>1, WordsStay DEF Says
    <3>2. ASSUME reader[r].told # "none"
          PROVE  Says(reader[r].told, reader[r].query)'
      BY <2>0, <2>1, <3>2, WordsStay DEF Says
    <3>3. QED
      BY <2>0, <2>1, <3>1, <3>2
  <2>2. CASE reader'[r] = Unconnected
    BY <2>2 DEF Unconnected
  <2>3. CASE /\ reader'[r].pc # "replay" /\ reader'[r].query = q
             /\ reader'[r].told = reader[r].told
    BY <2>0, <2>3, WordsStay DEF Says
  <2>4. CASE /\ reader[r].pc # "idle" /\ reader'[r].pc = "told" /\ reader'[r].query = q
             /\ HeardFrom(r, reader'[r].told)
    <3>1. q \in Queries
      BY <2>0, <2>4
    <3>2. CASE reader'[r].told = event[q]
      <4>1. Says(event[q], q)
        BY <3>1 DEF WordsKept
      <4>2. QED
        BY <2>4, <3>1, <3>2, <4>1, WordsStay DEF Says
    <3>3. CASE reader[r].pc = "replay" /\ reader'[r].told = EventOf(reader[r].seen)
      <4>1. Says(EventOf(reader[r].seen), q)
        BY <2>0, <3>3 DEF Says, EventOf
      <4>2. QED
        BY <2>4, <3>1, <3>3, <4>1, WordsStay DEF Says
    <3>4. CASE reader'[r].told = EventOf(row'[q].status)
      BY <2>4, <3>4 DEF Says, EventOf
    <3>5. QED
      BY <2>4, <3>2, <3>3, <3>4 DEF HeardFrom
  <2>5. ASSUME NEW p \in Queries,
               /\ row[p].status # "none" /\ row' = row
               /\ reader'[r].pc = (IF row[p].status = "streaming" THEN "loop" ELSE "replay")
               /\ reader'[r].query = p /\ reader'[r].seen = row[p].status
               /\ reader'[r].told = "none"
        PROVE  /\ reader'[r].pc = "replay" =>
                    reader'[r].seen \in Ended /\ Says(reader[r].seen, reader[r].query)'
               /\ reader'[r].told # "none" => Says(reader[r].told, reader[r].query)'
    <3>1. row[p].status \in Ended \cup {"none", "streaming"}
      BY DEF TypeInv, TypeOK
    <3>2. QED
      BY <2>5, <3>1 DEF Says, Ended
  <2>6. QED
    BY <2>1, <2>2, <2>3, <2>4, <2>5, ReaderSteps
<1>4. QED
  BY <1>1, <1>2, <1>3 DEF WordsKept

-----------------------------------------------------------------------------
(* What a day costs.                                                        *)

(* The most a streaming row can still be charged, and the most a day's      *)
(* queries can have cost once every row that streams has ended.             *)
Price == PromptTokens + ResponseTokens
MostSpent == DailyLimit + ResponseTokens + (MaxConcurrent - 1) * Price

(* A row is charged when it ends.                                           *)
UnendedAreFree ==
  \A q \in Queries : row[q].status \notin Ended => row[q].tokens = 0

(* What was charged, plus the price of every row that streams, is within    *)
(* the bound -- counting the row that an open transaction has admitted, and *)
(* not those that it will end.                                              *)
SpendingReserved ==
  MaxConcurrent > 0 /\ DailyLimit > 0 =>
    /\ TokensUsed + Cardinality(Streaming) * Price <= MostSpent
    /\ \A q \in Queries :
         txn[q].open =>
           TokensUsed + (Cardinality(Streaming \ txn[q].expired) + 1) * Price <= MostSpent

CostInv == UnendedAreFree /\ SpendingReserved

(* What get_usage adds up, as a function.                                   *)
Charged == [q \in Queries |-> row[q].tokens]

(* The sum of that function, an integer.                                    *)
ChargedAddsUp == TokensUsed = SumOf(Charged, Queries) /\ TokensUsed \in Int

(* get_usage's sum is the sum of that function.                             *)
LEMMA TokensAreASum == TypeOK => ChargedAddsUp
<1> SUFFICES ASSUME TypeOK
             PROVE  ChargedAddsUp
  OBVIOUS
<1> DEFINE Eqn(part) == part = [s \in SUBSET Queries |->
             IF s = {} THEN 0 ELSE row[First(s)].tokens + part[s \ {First(s)}]]
           p == CHOOSE part : Eqn(part)
<1>0. IsFiniteSet(Queries) /\ \A q \in Queries : Charged[q] \in Int
  BY AIAssumption DEF Charged, TypeOK
<1>1. TokensUsed = p[Queries]
  BY DEF TokensUsed, MapThenSumSet, MapThenFoldSet, First
<1>2. ASSUME NEW part
      PROVE  Eqn(part) <=> PartialSums(part, Charged, Queries)
  <2>1. \A s \in SUBSET Queries : s # {} => Charged[First(s)] = row[First(s)].tokens
    BY FirstIsIn DEF Charged
  <2>2. [s \in SUBSET Queries |->
           IF s = {} THEN 0 ELSE row[First(s)].tokens + part[s \ {First(s)}]]
        = [s \in SUBSET Queries |-> PartSum(part, Charged, s)]
    BY <2>1 DEF PartSum
  <2> QED
    BY <2>2 DEF PartialSums
<1>3. Eqn(p)
  <2>1. \E part : Eqn(part)
    BY <1>0, <1>2, PartialSumsExist
  <2> HIDE DEF Eqn
  <2> QED
    BY <2>1, Zenon
<1>4. PartialSums(p, Charged, Queries)
  BY <1>2, <1>3
<1> HIDE DEF p
<1>5. SumOf(Charged, Queries) = p[Queries]
  BY <1>0, <1>4, SumIsAnyPartialSum
<1>6. SumOf(Charged, Queries) \in Int
  BY <1>0, SumType
<1> QED
  BY <1>1, <1>5, <1>6 DEF ChargedAddsUp

(* So is it after a step.                                                   *)
LEMMA TokensAreASumNext == TypeOK' => ChargedAddsUp'
BY TokensAreASum, PTL

(* No step but the end of a row changes what has been charged.              *)
LEMMA TokensStay ==
  ASSUME TypeOK, TypeOK', \A q \in Queries : row'[q].tokens = row[q].tokens
  PROVE  TokensUsed' = TokensUsed
<1>1. Charged' = Charged
  BY DEF Charged
<1>2. SumOf(Charged, Queries)' = SumOf(Charged, Queries)
  BY <1>1
<1> QED
  BY <1>2, TokensAreASum, TokensAreASumNext DEF ChargedAddsUp

(* When one row ends, what has been charged changes by its charge.          *)
LEMMA TokensRise ==
  ASSUME TypeOK, TypeOK', NEW q \in Queries, \A p \in Queries \ {q} : row'[p] = row[p]
  PROVE  TokensUsed' = TokensUsed - row[q].tokens + row'[q].tokens
<1> DEFINE f == Charged
           g == Charged'
<1>1. /\ \A p \in Queries : f[p] \in Int /\ g[p] \in Int
      /\ \A p \in Queries \ {q} : g[p] = f[p]
      /\ f[q] = row[q].tokens /\ g[q] = row'[q].tokens
  BY DEF Charged, TypeOK
<1>2. /\ TokensUsed = SumOf(f, Queries)
      /\ TokensUsed' = SumOf(g, Queries)
  BY TokensAreASum, TokensAreASumNext DEF ChargedAddsUp
<1> HIDE DEF f, g
<1>3. SumOf(g, Queries) = SumOf(f, Queries) - f[q] + g[q]
  BY <1>1, AIAssumption, SumChanges
<1> QED
  BY <1>1, <1>2, <1>3

(* Prices add up.                                                           *)
LEMMA PricesAddUp ==
  /\ Price \in Nat
  /\ \A a \in Nat : (a + 1) * Price = a * Price + Price /\ a * Price \in Nat
  /\ \A a, b \in Nat : a <= b => a * Price <= b * Price
  /\ MostSpent = DailyLimit - PromptTokens + MaxConcurrent * Price
<1>1. Price \in Nat /\ {MaxConcurrent, DailyLimit, PromptTokens, ResponseTokens} \subseteq Nat
  BY AIAssumption DEF Price
<1>2. \A a \in Nat : (a + 1) * Price = a * Price + Price /\ a * Price \in Nat
  BY <1>1
<1>3. \A a, b \in Nat : a <= b => a * Price <= b * Price
  BY <1>1
<1>4. (MaxConcurrent - 1) * Price = MaxConcurrent * Price - Price
  BY <1>1
<1>5. MostSpent = DailyLimit - PromptTokens + MaxConcurrent * Price
  BY <1>1, <1>4 DEF MostSpent, Price
<1> QED
  BY <1>1, <1>2, <1>3, <1>5

(* A row that finish() ends is charged at most its price.                   *)
LEMMA FinishedCharge ==
  ASSUME TypeInv, TypeOK', UnendedAreFree, NEW q \in Queries, Finishes(q)
  PROVE  \/ UNCHANGED <<row, txn>>
         \/ /\ UNCHANGED txn /\ q \in Streaming /\ Streaming' = Streaming \ {q}
            /\ row'[q].status \in Ended
            /\ \A p \in Queries \ {q} : row'[p] = row[p]
            /\ TokensUsed' <= TokensUsed + Price
<1>0. row \in [Queries -> [status : Ended \cup {"none", "streaming"}, tokens : Nat]]
  BY DEF TypeInv, TypeOK
<1>a. PICK status \in Ended : \E n \in Charges(status) : row' = Finished(q, status, n)
  BY DEF Finishes
<1>1. PICK n \in Charges(status) : row' = Finished(q, status, n)
  BY <1>a
<1>2. n \in Nat /\ n <= Price
  BY <1>1, AIAssumption DEF Charges, Price
<1>3. CASE row[q].status = "streaming"
  <2>1. row' = [row EXCEPT ![q] = [status |-> status, tokens |-> n]]
    BY <1>1, <1>3 DEF Finished
  <2>2. row'[q] = [status |-> status, tokens |-> n] /\ \A p \in Queries \ {q} : row'[p] = row[p]
    BY <1>0, <2>1
  <2>3. Streaming' = Streaming \ {q} /\ q \in Streaming
    BY <1>1, <1>3, <2>2 DEF Streaming, Ended
  <2>4. row[q].tokens = 0
    BY <1>3 DEF UnendedAreFree, Ended
  <2>5. TokensUsed' = TokensUsed - 0 + n /\ TokensUsed \in Int
    BY <2>2, <2>4, TokensRise, TokensAreASum DEF TypeInv, ChargedAddsUp
  <2> QED
    BY <1>1, <1>2, <2>2, <2>3, <2>5, PricesAddUp DEF Finishes
<1>4. CASE row[q].status # "streaming"
  BY <1>1, <1>4 DEF Finished, Finishes
<1> QED
  BY <1>3, <1>4

(* Every step keeps the rows that have not ended free.                      *)
LEMMA NextUnendedAreFree ==
  ASSUME TypeInv, TypeOK', UnendedAreFree, LockHeld, [Next]_vars
  PROVE  UnendedAreFree'
<1>0. row \in [Queries -> [status : Ended \cup {"none", "streaming"}, tokens : Nat]]
  BY DEF TypeInv, TypeOK
<1>1. CASE UNCHANGED <<row, txn>>
  BY <1>1 DEF UnendedAreFree
<1>2. ASSUME NEW q \in Queries, Enforce(q) \/ Rollback(q)
      PROVE  UnendedAreFree'
  BY <1>2 DEF Enforce, Rollback, UnendedAreFree
<1>3. ASSUME NEW q \in Queries, Insert(q)
      PROVE  UnendedAreFree'
  BY <1>0, <1>3 DEF Insert, UnendedAreFree
<1>4. ASSUME NEW q \in Queries, AnswerWithoutSources(q)
      PROVE  UnendedAreFree'
  BY <1>0, <1>4 DEF AnswerWithoutSources, UnendedAreFree, Ended
<1>5. ASSUME NEW q \in Queries, Finishes(q)
      PROVE  UnendedAreFree'
  BY <1>5, FinishedCharge DEF UnendedAreFree
<1> QED
  BY <1>1, <1>2, <1>3, <1>4, <1>5, RowSteps

(* create_query moves what enforce reserved to the row that now streams.    *)
LEMMA InsertKeepsReserve ==
  ASSUME TypeInv, TypeOK', LockHeld, SlotKept, CostInv, NEW q \in Queries, Insert(q)
  PROVE  SpendingReserved'
<1>0. row \in [Queries -> [status : Ended \cup {"none", "streaming"}, tokens : Nat]]
  BY DEF TypeInv, TypeOK
<1> DEFINE rest == Streaming \ txn[q].expired
<1>1. Streaming' = rest \cup {q} /\ q \notin rest
  <2>1. \A p \in Queries : p # q =>
           row'[p] = IF p \in txn[q].expired THEN [status |-> "failed", tokens |-> 0] ELSE row[p]
    BY DEF Insert
  <2>2. row'[q].status = "streaming" /\ row[q].status = "none"
    BY DEF Insert, LockHeld
  <2> QED
    BY <2>1, <2>2 DEF Streaming
<1>2. IsFiniteSet(rest) /\ Cardinality(rest) \in Nat
  <2>1. rest \in SUBSET Streaming
    OBVIOUS
  <2> QED
    BY <2>1, FS_Subset, FS_CardinalityType DEF SlotKept
<1>3. MaxConcurrent > 0 /\ DailyLimit > 0 =>
        TokensUsed + (Cardinality(rest) + 1) * Price <= MostSpent
  BY DEF CostInv, SpendingReserved, Insert
<1> HIDE DEF rest
<1>4. Cardinality(Streaming') = Cardinality(rest) + 1
  BY <1>1, <1>2, FS_AddElement
<1>5. TokensUsed' = TokensUsed
  <2>1. \A p \in Queries : row'[p].tokens = row[p].tokens
    <3>1. row[q].tokens = 0
      BY DEF Insert, LockHeld, CostInv, UnendedAreFree, Ended
    <3>2. \A p \in txn[q].expired : row[p].tokens = 0
      BY DEF LockHeld, Streaming, CostInv, UnendedAreFree, Ended
    <3> QED
      BY <3>1, <3>2 DEF Insert
  <2> QED
    BY <2>1, TokensStay DEF TypeInv
<1>6. \A p \in Queries : ~txn'[p].open
  BY DEF Insert, Closed, LockHeld, TypeInv, TypeOK
<1> QED
  BY <1>3, <1>4, <1>5, <1>6 DEF SpendingReserved

(* What enforce checks is what it reserves.                                 *)
LEMMA EnforceReserves ==
  ASSUME TypeInv, TypeOK', SlotKept, CostInv, NEW q \in Queries, Enforce(q)
  PROVE  SpendingReserved'
<1>1. /\ row' = row /\ \A p \in Queries : ~txn[p].open
      /\ txn' = [txn EXCEPT ![q] = [open |-> TRUE, expired |-> Abandoned]]
  BY DEF Enforce
<1>2. Streaming' = Streaming /\ TokensUsed' = TokensUsed /\ TokensUsed \in Int
  BY <1>1, TokensStay, TokensAreASum DEF Streaming, TypeInv, ChargedAddsUp
<1>3. txn'[q].expired = Abandoned /\ \A p \in Queries : p # q => ~txn'[p].open
  BY <1>1 DEF TypeInv, TypeOK
<1>4. SUFFICES ASSUME MaxConcurrent > 0, DailyLimit > 0
               PROVE  TokensUsed + (Cardinality(Streaming \ Abandoned) + 1) * Price <= MostSpent
  BY <1>2, <1>3 DEF SpendingReserved, CostInv
<1>5. Cardinality(Streaming \ Abandoned) \in Nat
  <2>1. Streaming \ Abandoned \in SUBSET Streaming
    OBVIOUS
  <2> QED
    BY <2>1, FS_Subset, FS_CardinalityType DEF SlotKept
<1>6. /\ Cardinality(Streaming \ Abandoned) + 1 <= MaxConcurrent
      /\ TokensUsed + PromptTokens <= DailyLimit
      /\ {MaxConcurrent, DailyLimit, PromptTokens} \subseteq Nat
  BY <1>4, <1>5, AIAssumption DEF Enforce, SlotIsFree, WithinBudget
<1> DEFINE n == Cardinality(Streaming \ Abandoned) + 1
<1>7. n \in Nat /\ n <= MaxConcurrent
  BY <1>5, <1>6
<1> HIDE DEF n
<1>8. n * Price <= MaxConcurrent * Price /\ n * Price \in Nat /\ MaxConcurrent * Price \in Nat
  BY <1>6, <1>7, PricesAddUp
<1>9. TokensUsed + n * Price <= DailyLimit - PromptTokens + MaxConcurrent * Price
  <2> DEFINE a == n * Price
             b == MaxConcurrent * Price
  <2> HIDE DEF a, b
  <2>1. a <= b /\ a \in Nat /\ b \in Nat
    BY <1>8 DEF a, b
  <2>2. TokensUsed + a <= DailyLimit - PromptTokens + b
    BY <1>2, <1>6, <2>1
  <2> QED
    BY <2>2 DEF a, b
<1> QED
  BY <1>9, PricesAddUp DEF n

(* A row that ends gives back its price, and is charged no more.            *)
LEMMA FinishKeepsReserve ==
  ASSUME TypeInv, TypeOK', LockHeld, SlotKept, CostInv, NEW q \in Queries, Finishes(q)
  PROVE  SpendingReserved'
<1>1. CASE UNCHANGED <<row, txn>>
  <2>1. Streaming' = Streaming /\ TokensUsed' = TokensUsed
    BY <1>1, TokensStay DEF Streaming, TypeInv
  <2> QED
    BY <1>1, <2>1 DEF CostInv, SpendingReserved
<1>2. CASE ~UNCHANGED <<row, txn>>
  <2>1. /\ UNCHANGED txn /\ q \in Streaming /\ Streaming' = Streaming \ {q}
        /\ TokensUsed' <= TokensUsed + Price
    BY <1>2, FinishedCharge DEF CostInv
  <2>2. TokensUsed \in Int /\ TokensUsed' \in Int /\ MostSpent \in Int
    BY TokensAreASum, TokensAreASumNext, AIAssumption, PricesAddUp
       DEF ChargedAddsUp, TypeInv, MostSpent
  <2>3. ASSUME NEW A, A \subseteq Streaming, q \in A
        PROVE  /\ Cardinality(A) \in Nat /\ Cardinality(A \ {q}) \in Nat
               /\ Cardinality(A) = Cardinality(A \ {q}) + 1
    <3>1. IsFiniteSet(A)
      BY <2>3, FS_Subset DEF SlotKept
    <3>2. IsFiniteSet(A \ {q}) /\ Cardinality(A \ {q}) = Cardinality(A) - 1
      BY <2>3, <3>1, FS_RemoveElement
    <3>3. Cardinality(A) \in Nat /\ Cardinality(A \ {q}) \in Nat
      BY <3>1, <3>2, FS_CardinalityType
    <3> QED
      BY <3>2, <3>3
  <2>4. ASSUME NEW a \in Nat, NEW b \in Nat, a = b + 1,
               TokensUsed + a * Price <= MostSpent
        PROVE  TokensUsed' + b * Price <= MostSpent
    <3>1. a * Price = b * Price + Price /\ b * Price \in Nat /\ Price \in Nat
      BY <2>4, PricesAddUp
    <3> DEFINE c == b * Price
    <3>2. c \in Nat /\ TokensUsed + (c + Price) <= MostSpent
      BY <2>4, <3>1
    <3> HIDE DEF c
    <3>3. TokensUsed' <= TokensUsed + Price
      BY <2>1
    <3>4. \A t, u, m \in Int, k, d \in Nat :
            u <= t + k /\ t + (d + k) <= m => u + d <= m
      OBVIOUS
    <3>5. TokensUsed' + c <= MostSpent
      BY <2>2, <3>1, <3>2, <3>3, <3>4
    <3> QED
      BY <3>5 DEF c
  <2>5. SUFFICES ASSUME MaxConcurrent > 0, DailyLimit > 0
                 PROVE  /\ TokensUsed' + Cardinality(Streaming') * Price <= MostSpent
                        /\ \A p \in Queries : txn[p].open =>
                             TokensUsed' + (Cardinality(Streaming' \ txn[p].expired) + 1) * Price
                               <= MostSpent
    BY <2>1 DEF SpendingReserved
  <2>6. TokensUsed' + Cardinality(Streaming \ {q}) * Price <= MostSpent
    <3>1. TokensUsed + Cardinality(Streaming) * Price <= MostSpent
      BY <2>5 DEF CostInv, SpendingReserved
    <3> QED
      BY <2>1, <2>3, <2>4, <3>1
  <2>7. ASSUME NEW p \in Queries, txn[p].open
        PROVE  TokensUsed' + (Cardinality(Streaming' \ txn[p].expired) + 1) * Price <= MostSpent
    <3> DEFINE A == Streaming \ txn[p].expired
    <3>1. TokensUsed + (Cardinality(A) + 1) * Price <= MostSpent
      BY <2>5, <2>7 DEF CostInv, SpendingReserved
    <3>2. A \subseteq Streaming /\ q \in A /\ Streaming' \ txn[p].expired = A \ {q}
      BY <2>1 DEF Finishes, RowFree
    <3> HIDE DEF A
    <3>3. /\ Cardinality(A) + 1 \in Nat /\ Cardinality(A \ {q}) + 1 \in Nat
          /\ Cardinality(A) + 1 = (Cardinality(A \ {q}) + 1) + 1
      BY <2>3, <3>2
    <3>4. TokensUsed' + (Cardinality(A \ {q}) + 1) * Price <= MostSpent
      BY <2>4, <3>1, <3>3
    <3> QED
      BY <3>2, <3>4
  <2> QED
    BY <2>1, <2>6, <2>7
<1> QED
  BY <1>1, <1>2

(* Every step keeps what was charged, and the prices of the rows that       *)
(* stream, within the bound.                                                *)
LEMMA NextCostInv ==
  ASSUME TypeInv, TypeOK', LockHeld, SlotKept, CostInv, [Next]_vars
  PROVE  CostInv'
<1>1. CASE UNCHANGED <<row, txn>>
  <2>1. Streaming' = Streaming /\ TokensUsed' = TokensUsed
    BY <1>1, TokensStay DEF Streaming, TypeInv
  <2> QED
    BY <1>1, <2>1 DEF CostInv, SpendingReserved, UnendedAreFree
<1>2. ASSUME NEW q \in Queries, Rollback(q)
      PROVE  SpendingReserved'
  <2>1. row' = row /\ ~txn'[q].open /\ \A p \in Queries : p # q => txn'[p] = txn[p]
    BY <1>2 DEF Rollback, Closed, TypeInv, TypeOK
  <2>2. Streaming' = Streaming /\ TokensUsed' = TokensUsed
    BY <2>1, TokensStay DEF Streaming, TypeInv
  <2> QED
    BY <2>1, <2>2 DEF CostInv, SpendingReserved
<1>3. ASSUME NEW q \in Queries, AnswerWithoutSources(q)
      PROVE  SpendingReserved'
  <2>1. /\ UNCHANGED txn
        /\ \A p \in Queries : row'[p].tokens = row[p].tokens
    BY <1>3 DEF AnswerWithoutSources, TypeInv, TypeOK
  <2>2. Streaming' = Streaming
    BY <1>3 DEF AnswerWithoutSources, Streaming, TypeInv, TypeOK
  <2>3. TokensUsed' = TokensUsed
    BY <2>1, TokensStay DEF TypeInv
  <2> QED
    BY <2>1, <2>2, <2>3 DEF CostInv, SpendingReserved
<1> QED
  BY <1>1, <1>2, <1>3, RowSteps, NextUnendedAreFree, InsertKeepsReserve, EnforceReserves,
     FinishKeepsReserve DEF CostInv

-----------------------------------------------------------------------------
(* The theorems.                                                            *)

(* Nothing streams at the start, and nobody has been told anything.         *)
LEMMA InitIInv == Init => IInv
<1> SUFFICES ASSUME Init PROVE IInv
  OBVIOUS
<1>1. Streaming = {} /\ \A q \in Queries : ~txn[q].open /\ txn[q].expired = {}
  BY DEF Init, Streaming, Closed
<1>2. IsFiniteSet(Streaming) /\ Cardinality(Streaming) = 0
  BY <1>1, FS_EmptySet
<1>3. SlotKept /\ StreamingWithinLimit
  BY <1>1, <1>2, AIAssumption DEF SlotKept, StreamingWithinLimit
<1>4. LockHeld
  BY <1>1 DEF LockHeld
<1>5. WordsKept
  BY DEF Init, WordsKept, Says, Unconnected
<1>6. QED
  BY <1>3, <1>4, <1>5, InitTypeInv DEF IInv

(* The invariant is inductive.                                              *)
LEMMA Invariance == Spec => []IInv
<1>1. IInv /\ [Next]_vars => IInv'
  BY NextTypeInv, NextLockHeld, NextSlotKept, NextWordsKept DEF IInv
<1>2. QED
  BY <1>1, InitIInv, PTL DEF Spec

(* lock_workspace and enforce: at most ai_max_concurrent_queries rows of a  *)
(* workspace stream, for any number of queries, requests that die before    *)
(* their commit, expiries and runners that finish meanwhile.                *)
THEOREM SlotsAreLimited == Spec => []StreamingWithinLimit
<1>1. IInv => StreamingWithinLimit
  BY DEF IInv
<1>2. QED
  BY <1>1, Invariance, PTL

(* _finish writes the row before the event: whoever was told `done` or      *)
(* `cancelled` finds a row that says so, whatever crashed or lapsed.        *)
THEOREM ReadersHearTheRow == Spec => []ToldWhatTheRowSays
<1>1. IInv => ToldWhatTheRowSays
  BY DEF IInv, WordsKept, Says, ToldWhatTheRowSays
<1>2. QED
  BY <1>1, Invariance, PTL

(* What enforce lets through: for any number of queries and any limits, a   *)
(* workspace's day costs at most the limit, the last response and a whole   *)
(* query for each other slot.                                               *)
THEOREM SpendingIsBounded == Spec => []OvershootBounded
<1>1. Init => CostInv
  <2> SUFFICES ASSUME Init
               PROVE  CostInv
    OBVIOUS
  <2>1. Streaming = {} /\ \A q \in Queries : ~txn[q].open /\ row[q].tokens = 0
    BY DEF Init, Streaming, Closed
  <2>2. TokensUsed = 0
    <3>1. TypeOK
      BY InitTypeInv DEF TypeInv
    <3>2. \A q \in Queries : Charged[q] = 0
      BY <2>1 DEF Charged
    <3> QED
      BY <3>1, <3>2, AIAssumption, SumOfZeros, TokensAreASum DEF ChargedAddsUp
  <2>3. Cardinality(Streaming) = 0
    BY <2>1, FS_EmptySet
  <2>4. MaxConcurrent > 0 => 0 + 0 * Price <= MostSpent
    <3>1. MaxConcurrent > 0 => Price <= MaxConcurrent * Price
      <4>1. \A n \in Nat : n > 0 => Price <= n * Price
        BY PricesAddUp
      <4> QED
        BY <4>1, AIAssumption
    <3>2. Price = PromptTokens + ResponseTokens
      BY DEF Price
    <3> DEFINE c == MaxConcurrent * Price
    <3>3. MostSpent = DailyLimit - PromptTokens + c /\ c \in Nat
      BY PricesAddUp, AIAssumption
    <3> HIDE DEF c
    <3>4. MaxConcurrent > 0 => PromptTokens <= c
      BY <3>1, <3>2, AIAssumption DEF c
    <3> QED
      BY <3>3, <3>4, AIAssumption, PricesAddUp
  <2> QED
    BY <2>1, <2>2, <2>3, <2>4 DEF CostInv, UnendedAreFree, SpendingReserved
<1>2. IInv /\ IInv' /\ CostInv /\ [Next]_vars => CostInv'
  BY NextCostInv DEF IInv, TypeInv
<1>3. IInv /\ CostInv => OvershootBounded
  <2> SUFFICES ASSUME IInv, CostInv, MaxConcurrent > 0, DailyLimit > 0
               PROVE  TokensUsed <= MostSpent
    BY DEF OvershootBounded, MostSpent, Price
  <2>1. Cardinality(Streaming) \in Nat
    BY FS_CardinalityType DEF IInv, SlotKept
  <2> DEFINE c == Cardinality(Streaming) * Price
  <2>2. c \in Nat /\ TokensUsed + c <= MostSpent
    BY <2>1, PricesAddUp DEF CostInv, SpendingReserved
  <2> HIDE DEF c
  <2>3. TokensUsed \in Int /\ MostSpent \in Int
    BY TokensAreASum, AIAssumption, PricesAddUp DEF ChargedAddsUp, IInv, TypeInv, MostSpent
  <2> QED
    BY <2>2, <2>3
<1> QED
  BY <1>1, <1>2, <1>3, Invariance, PTL DEF Spec

(* finish and its WHERE status = 'streaming': a row that has ended keeps    *)
(* its status and its charge, whoever else meant to end it.                 *)
THEOREM RowsEndOnce == Spec => EndedIsFinal
<1>1. IInv /\ [Next]_vars => [\A q \in Queries : row[q].status \in Ended => row'[q] = row[q]]_vars
  BY EndedRowsStay DEF IInv
<1>2. QED
  BY <1>1, Invariance, PTL DEF Spec, EndedIsFinal

============================================================================
