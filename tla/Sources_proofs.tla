--------------------------- MODULE Sources_proofs ---------------------------
(***************************************************************************)
(* Proofs about Sources, for every set of files, requests and workers and   *)
(* every limit.                                                             *)
(***************************************************************************)
EXTENDS Sources, Sums, FiniteSetTheorems, TLAPS

-----------------------------------------------------------------------------
(* The inductive invariant.                                                 *)

Rows == [Ids -> Source \cup {NoRow}]
Reading == {"read", "store", "keep"}
Embedding == {"record", "send"}

(* What a request goes on with.                                             *)
ReqHolds(q) ==
  /\ q.op = "upload" => q.file \in Files
  /\ q.op \in {"save", "commit"} => q \in [op : {"save", "commit"}, file : Files, id : Ids]
  /\ q.op \in {"remove", "enqueue", "retry", "view"} => q.id \in Ids

(* What a run goes on with.                                                 *)
RunHolds(q) ==
  /\ q.model \in Models
  /\ q.pc # "idle" => q.id \in Ids
  /\ q.pc = "finish" => q.error \in Errors
  /\ q.pc \in Reading => q \in [pc : Reading, model : Models, id : Ids, file : Files]
  /\ q.pc \in Embedding => q \in [pc : Embedding, model : Models, id : Ids,
                                  left : SUBSET Passages, attempt : Nat]

TypeInv ==
  /\ TypeOK /\ rows \in Rows
  /\ req = [r \in Requests |-> req[r]] /\ \A r \in Requests : ReqHolds(req[r])
  /\ worker = [w \in Workers |-> worker[w]] /\ \A w \in Workers : RunHolds(worker[w])

(* An upload that has its id and not yet its row.                           *)
Uploading(r) == req[r].op \in {"save", "commit"}

(* Ids that were given out and are not being uploaded.                      *)
Known == {i \in Ids : i <= count.id /\ \A r \in Requests : Uploading(r) => req[r].id # i}

(* One upload at a time holds the storage lock; while the workspace exists, *)
(* its file stays where it was saved.                                       *)
UploadsHold ==
  /\ \A r, s \in Requests : Uploading(r) /\ Uploading(s) => r = s
  /\ \A r \in Requests : /\ Uploading(r) => req[r].id <= count.id
                         /\ req[r].op = "commit" /\ alive => req[r].id \in files

(* No row, job, run or request is about an id before its upload is over; a  *)
(* file is removed for good, and so are those of a deleted workspace.       *)
IdsKnown ==
  /\ Stored \subseteq Known /\ jobs \subseteq Known /\ swept \subseteq Known
  /\ \A w \in Workers : worker[w].pc # "idle" => worker[w].id \in Known
  /\ \A r \in Requests : /\ req[r].op \in {"remove", "enqueue"} => req[r].id \in Known
                         /\ req[r].op = "remove" => req[r].id \notin Stored
                         /\ req[r].op = "prefix" => ~alive

(* Rows have their files, and a deleted workspace has neither.              *)
RowsKept == Stored \subseteq files /\ (~alive => Stored = {})

FileInv == UploadsHold /\ IdsKnown /\ RowsKept

(* Files are finitely many, and each forgotten one was left by a fault.     *)
LeaksCounted ==
  /\ IsFiniteSet(files)
  /\ alive => Cardinality(Leaked) <= count.faults
  /\ count.faults = 0 => Leaked = {}

(* The advisory lock: one run per source.                                   *)
OneRun ==
  \A v, w \in Workers :
    worker[v].pc # "idle" /\ worker[w].pc # "idle" /\ worker[v].id = worker[w].id => v = w

(* The passages a run need not embed again are all of its own model, and    *)
(* while it is past its first look the source is not ready.                 *)
RunSound(q) ==
  q.pc # "idle" /\ Exists(q.id) =>
    /\ q.pc # "begin" => rows[q.id].status # "ready"
    /\ q.pc \in Embedding => \A c \in Passages \ q.left : chunks[q.id][c] = q.model
    /\ q.pc = "finish" /\ q.error = "none" => Whole(q.id, q.model)

RowSound(i) ==
  /\ ~Exists(i) => \A c \in Passages : chunks[i][c] = None
  /\ Exists(i) /\ rows[i].status = "ready" => \E m \in Models : Whole(i, m)

ChunkInv == OneRun /\ (\A w \in Workers : RunSound(worker[w])) /\ \A i \in Ids : RowSound(i)

IInv == TypeInv /\ FileInv /\ LeaksCounted /\ ChunkInv

-----------------------------------------------------------------------------
(* Types.                                                                   *)

(* A row is there or it is NoRow.                                           *)
LEMMA RowExists ==
  ASSUME rows \in Rows, NEW i \in Ids
  PROVE  /\ Exists(i) <=> rows[i] \in Source
         /\ Exists(i) <=> i \in Stored
         /\ rows[i].status \in Statuses <=> Exists(i)
BY DEF Rows, Exists, Source, NoRow, Statuses, Stored

(* Setting the status of a row that is there, or that it made progress.     *)
LEMMA RowUpdates ==
  ASSUME rows \in Rows, NEW i \in Ids, Exists(i),
         NEW st \in Statuses, NEW e \in Errors, NEW o \in BOOLEAN,
         \/ rows' = [rows EXCEPT ![i].status = st, ![i].error = e, ![i].old = o]
         \/ rows' = [rows EXCEPT ![i].error = e, ![i].old = o, ![i].status = st]
         \/ rows' = [rows EXCEPT ![i].old = o] /\ st = rows[i].status
  PROVE  /\ rows' \in Rows /\ Stored' = Stored /\ rows'[i].status = st
         /\ \A j \in Ids : j # i => rows'[j] = rows[j]
<1>1. rows[i] \in Source
  BY RowExists
<1>2. rows'[i] = [rows[i] EXCEPT !.status = st, !.error = e, !.old = o]
      \/ rows'[i] = [rows[i] EXCEPT !.error = e, !.old = o, !.status = st]
      \/ (rows'[i] = [rows[i] EXCEPT !.old = o] /\ st = rows[i].status)
  BY DEF Rows
<1>3. rows'[i] \in Source /\ rows'[i].status = st
  BY <1>1, <1>2 DEF Source
<1>4. \A j \in Ids : j # i => rows'[j] = rows[j]
  BY DEF Rows
<1>5. rows' \in Rows
  BY <1>3, <1>4 DEF Rows
<1>6. QED
  BY <1>1, <1>3, <1>4, <1>5 DEF Stored, Exists, Source, NoRow, Statuses

(* The bounds' counters only grow, within their bounds.                     *)
CountStep ==
  \/ UNCHANGED count
  \/ CanFail /\ Fault(1)
  \/ count.asked < MaxAsked /\ count' = [count EXCEPT !.asked = @ + 1]
  \/ count.id + 1 \in Ids /\ count' = [count EXCEPT !.id = @ + 1]

(* Each of these steps keeps their type.                                    *)
LEMMA CountTypes ==
  ASSUME TypeOK, CountStep
  PROVE  /\ count' \in [id : Ids \cup {0}, faults : 0..MaxFaults, asked : 0..MaxAsked]
         /\ count.id <= count'.id /\ count.faults <= count'.faults
         /\ count.id \in Nat /\ count'.id \in Nat
<1>1. /\ count \in [id : Ids \cup {0}, faults : 0..MaxFaults, asked : 0..MaxAsked]
      /\ MaxFaults \in Nat /\ MaxAsked \in Nat /\ Ids \subseteq Nat
  BY SourcesAssumption DEF TypeOK
<1>2. /\ count.id \in Ids \cup {0} /\ count.faults \in 0..MaxFaults /\ count.asked \in 0..MaxAsked
      /\ count.id \in Nat
  <2>1. count.id \in Ids \cup {0} /\ count.faults \in 0..MaxFaults /\ count.asked \in 0..MaxAsked
    BY <1>1, Zenon DEF TypeOK
  <2>2. count.id \in Ids \/ count.id = 0
    BY <2>1, Zenon
  <2>3. 0 \in Nat
    OBVIOUS
  <2>4. QED
    BY <1>1, <2>1, <2>2, <2>3, Zenon
<1>3. CASE UNCHANGED count
  BY <1>1, <1>2, <1>3
<1>4. CASE CanFail /\ Fault(1)
  <2>1. count.faults + 1 \in 0..MaxFaults
    BY <1>1, <1>2, <1>4 DEF CanFail
  <2>2. QED
    BY <1>1, <1>2, <1>4, <2>1 DEF Fault
<1>5. CASE count.asked < MaxAsked /\ count' = [count EXCEPT !.asked = @ + 1]
  <2>1. count.asked + 1 \in 0..MaxAsked
    BY <1>1, <1>2, <1>5
  <2>2. QED
    BY <1>1, <1>2, <1>5, <2>1
<1>6. CASE count.id + 1 \in Ids /\ count' = [count EXCEPT !.id = @ + 1]
  BY <1>1, <1>2, <1>6
<1>7. QED
  BY <1>3, <1>4, <1>5, <1>6 DEF CountStep

(* One request changes and the others do not.                               *)
LEMMA ReqBecomes ==
  ASSUME TypeInv, NEW r \in Requests, NEW q, ReqHolds(q), Becomes(r, q)
  PROVE  /\ req' = [s \in Requests |-> req'[s]] /\ \A s \in Requests : ReqHolds(req[s])'
         /\ req'[r] = q /\ \A s \in Requests : s # r => req'[s] = req[s]
<1>1. req = [s \in Requests |-> req[s]] /\ \A s \in Requests : ReqHolds(req[s])
  BY DEF TypeInv
<1>2. req' = [req EXCEPT ![r] = q]
  BY DEF Becomes
<1>3. req'[r] = q /\ (\A s \in Requests : s # r => req'[s] = req[s])
      /\ req' = [s \in Requests |-> req'[s]]
  BY <1>1, <1>2
<1>4. \A s \in Requests : ReqHolds(req[s])'
  BY <1>1, <1>3 DEF ReqHolds
<1>5. QED
  BY <1>3, <1>4

(* One run changes and the others do not.                                   *)
LEMMA RunMoves ==
  ASSUME TypeInv, NEW w \in Workers, NEW q, RunHolds(q), Moves(w, q)
  PROVE  /\ worker' = [v \in Workers |-> worker'[v]] /\ \A v \in Workers : RunHolds(worker[v])'
         /\ worker'[w] = q /\ \A v \in Workers : v # w => worker'[v] = worker[v]
<1>1. worker = [v \in Workers |-> worker[v]] /\ \A v \in Workers : RunHolds(worker[v])
  BY DEF TypeInv
<1>2. worker' = [worker EXCEPT ![w] = q]
  BY DEF Moves
<1>3. worker'[w] = q /\ (\A v \in Workers : v # w => worker'[v] = worker[v])
      /\ worker' = [v \in Workers |-> worker'[v]]
  BY <1>1, <1>2
<1>4. \A v \in Workers : RunHolds(worker[v])'
  BY <1>1, <1>3 DEF RunHolds
<1>5. QED
  BY <1>3, <1>4

(* The first state is well formed, whichever it is.                         *)
LEMMA InitTypeInv == Init => TypeInv
<1> SUFFICES ASSUME Init PROVE TypeInv
  OBVIOUS
<1>1. (CHOOSE m \in Models : TRUE) \in Models
  BY SourcesAssumption
<1>2. rows \in Rows /\ chunks \in [Ids -> [Passages -> Models \cup {None}]] /\ files \subseteq Ids
  <2>1. \A f \in Files : [NewSource(f) EXCEPT !.status = "ready"] \in Source
    BY DEF NewSource, Source, Statuses, Errors
  <2>2. QED
    BY <1>1, <2>1, SourcesAssumption DEF Init, Rows
<1>3. count \in [id : Ids \cup {0}, faults : 0..MaxFaults, asked : 0..MaxAsked]
  BY SourcesAssumption DEF Init
<1>4. req = [r \in Requests |-> req[r]] /\ \A r \in Requests : ReqHolds(req[r])
  BY DEF Init, Idle, ReqHolds
<1>5. worker = [w \in Workers |-> worker[w]] /\ \A w \in Workers : RunHolds(worker[w])
  <2>1. \A w \in Workers : worker[w] = [pc |-> "idle", model |-> CHOOSE m \in Models : TRUE]
    BY DEF Init, NoRun
  <2>2. worker = [w \in Workers |-> worker[w]]
    BY DEF Init
  <2>3. QED
    BY <1>1, <2>1, <2>2 DEF RunHolds, Reading, Embedding
<1>6. texts \subseteq Stored /\ requests \in Nat /\ jobs \subseteq Ids /\ running \subseteq jobs
      /\ swept \subseteq Ids /\ alive \in BOOLEAN
  BY DEF Init
<1>7. QED
  BY <1>2, <1>3, <1>4, <1>5, <1>6 DEF TypeInv, TypeOK, Rows, RunHolds

Chunks == [Ids -> [Passages -> Models \cup {None}]]

(* A request's step is well typed if what it becomes and what it writes are.*)
LEMMA RequestFrame ==
  ASSUME TypeInv, NEW r \in Requests, NEW q, Becomes(r, q), ReqHolds(q), CountStep,
         rows' \in Rows, texts' \subseteq Stored', files' \subseteq Ids, chunks' \in Chunks,
         jobs \subseteq jobs', jobs' \subseteq Ids, alive' \in BOOLEAN,
         UNCHANGED <<requests, running, swept, worker>>
  PROVE  TypeInv'
<1>1. req' = [s \in Requests |-> req'[s]] /\ \A s \in Requests : ReqHolds(req[s])'
  BY ReqBecomes
<1>2. count' \in [id : Ids \cup {0}, faults : 0..MaxFaults, asked : 0..MaxAsked]
  BY CountTypes DEF TypeInv
<1>3. worker' = [w \in Workers |-> worker'[w]] /\ \A w \in Workers : RunHolds(worker[w])'
  BY DEF TypeInv
<1>4. requests' \in Nat /\ running' \subseteq jobs' /\ swept' \subseteq Ids
  BY DEF TypeInv, TypeOK
<1>5. /\ \A i \in Ids : rows'[i] \in Source \cup {NoRow}
      /\ \A w \in Workers : worker'[w].model \in Models
  BY <1>3 DEF Rows, RunHolds
<1>6. QED
  BY <1>1, <1>2, <1>3, <1>4, <1>5, Zenon DEF TypeInv, TypeOK, Chunks

(* Cascade removes rows with their passages and texts.                      *)
LEMMA CascadeTypes ==
  ASSUME TypeInv, NEW gone, Cascade(gone)
  PROVE  /\ rows' \in Rows /\ texts' \subseteq Stored' /\ chunks' \in Chunks
         /\ Stored' = Stored \ gone
         /\ \A i \in Ids : IF i \in gone THEN /\ ~Exists(i)'
                                              /\ chunks'[i] = [c \in Passages |-> None]
                           ELSE rows'[i] = rows[i] /\ chunks'[i] = chunks[i]
<1>0. rows \in Rows /\ chunks \in Chunks /\ texts \subseteq Stored
  BY DEF TypeInv, TypeOK, Chunks
<1>1. rows' \in Rows
  BY <1>0 DEF Cascade, Rows
<1>2. chunks' \in Chunks
  BY <1>0 DEF Cascade, Chunks
<1>3. \A i \in Ids : rows'[i] = IF i \in gone THEN NoRow ELSE rows[i]
  BY DEF Cascade
<1>4. Stored' = Stored \ gone
  BY <1>3 DEF Stored, Exists
<1>5. texts' \subseteq Stored'
  BY <1>0, <1>4 DEF Cascade
<1>6. QED
  BY <1>1, <1>2, <1>3, <1>4, <1>5 DEF Cascade, Exists

(* What users ask for.                                                      *)
LEMMA UserTypes ==
  ASSUME TypeInv, NEW r \in Requests, User(r)
  PROVE  TypeInv'
<1>0. /\ rows \in Rows /\ chunks \in Chunks /\ texts \subseteq Stored /\ files \subseteq Ids
      /\ jobs \subseteq Ids /\ alive \in BOOLEAN
  BY DEF TypeInv, TypeOK, Chunks
<1>1. ASSUME NEW f \in Files, UploadStart(r, f)
      PROVE  TypeInv'
  <2>1. ReqHolds([op |-> "upload", file |-> f])
    BY DEF ReqHolds
  <2>2. CountStep /\ Becomes(r, [op |-> "upload", file |-> f])
    BY <1>1 DEF UploadStart, Asked, CountStep
  <2>3. UNCHANGED <<db, files, queue, worker>>
    BY <1>1 DEF UploadStart
  <2>4. Stored' = Stored
    BY <2>3 DEF db, Stored, Exists
  <2>5. QED
    BY <1>0, <2>1, <2>2, <2>3, <2>4, RequestFrame DEF db, queue
<1>2. ASSUME NEW i \in Ids, RetryRead(r, i) \/ ViewReadAgain(r, i)
      PROVE  TypeInv'
  <2>1. PICK op \in {"retry", "view"} : Becomes(r, [op |-> op, id |-> i])
    BY <1>2 DEF RetryRead, ViewReadAgain
  <2>2. ReqHolds([op |-> op, id |-> i])
    BY <2>1 DEF ReqHolds
  <2>3. CountStep /\ UNCHANGED <<db, files, queue, worker>>
    BY <1>2 DEF RetryRead, ViewReadAgain, Asked, CountStep
  <2>4. Stored' = Stored
    BY <2>3 DEF db, Stored, Exists
  <2>5. QED
    BY <1>0, <2>1, <2>2, <2>3, <2>4, RequestFrame DEF db, queue
<1>3. ASSUME NEW i \in Ids, DeleteSource(r, i)
      PROVE  TypeInv'
  <2>1. ReqHolds([op |-> "remove", id |-> i])
    BY DEF ReqHolds
  <2>2. CountStep /\ Becomes(r, [op |-> "remove", id |-> i]) /\ Cascade({i})
    BY <1>3 DEF DeleteSource, Asked, CountStep
  <2>3. UNCHANGED <<requests, alive, files, queue, worker>>
    BY <1>3 DEF DeleteSource
  <2>4. QED
    BY <1>0, <2>1, <2>2, <2>3, CascadeTypes, RequestFrame DEF queue
<1>4. CASE DeleteWorkspace(r)
  <2>1. ReqHolds([op |-> "prefix"])
    BY DEF ReqHolds
  <2>2. CountStep /\ Becomes(r, [op |-> "prefix"]) /\ Cascade(Ids) /\ alive' = FALSE
    BY <1>4 DEF DeleteWorkspace, Asked, CountStep
  <2>3. UNCHANGED <<requests, files, queue, worker>>
    BY <1>4 DEF DeleteWorkspace
  <2>4. QED
    BY <1>0, <2>1, <2>2, <2>3, CascadeTypes, RequestFrame DEF queue
<1>5. QED
  BY <1>1, <1>2, <1>3, <1>4 DEF User

(* The rest of a request, from one await to the next.                       *)
LEMMA RequestStepTypes ==
  ASSUME TypeInv, NEW r \in Requests, RequestStep(r) \/ ApiCrash(r)
  PROVE  TypeInv'
<1>0. /\ rows \in Rows /\ chunks \in Chunks /\ texts \subseteq Stored /\ files \subseteq Ids
      /\ jobs \subseteq Ids /\ alive \in BOOLEAN /\ ReqHolds(req[r])
  BY DEF TypeInv, TypeOK, Chunks
<1>1. ReqHolds(Idle)
  BY DEF ReqHolds, Idle
<1>2. ASSUME UNCHANGED rows
      PROVE  Stored' = Stored
  BY <1>2 DEF Stored, Exists
<1>3. CASE UploadReserve(r)
  <2>1. UNCHANGED <<db, files, queue, worker>>
    BY <1>3 DEF UploadReserve
  <2>2. CASE Becomes(r, Idle) /\ UNCHANGED count
    BY <1>0, <1>1, <1>2, <2>1, <2>2, RequestFrame DEF db, queue, CountStep
  <2>3. CASE /\ count.id + 1 \in Ids /\ count' = [count EXCEPT !.id = @ + 1]
             /\ Becomes(r, [op |-> "save", file |-> req[r].file, id |-> count.id + 1])
    <3>1. ReqHolds([op |-> "save", file |-> req[r].file, id |-> count.id + 1])
      BY <1>0, <1>3, <2>3 DEF UploadReserve, ReqHolds
    <3>2. CountStep
      BY <2>3 DEF CountStep
    <3>3. QED
      BY <1>0, <1>2, <2>1, <2>3, <3>1, <3>2, RequestFrame DEF db, queue
  <2>4. QED
    BY <1>3, <2>2, <2>3 DEF UploadReserve
<1>4. CASE UploadSave(r)
  <2>1. req[r] \in [op : {"save", "commit"}, file : Files, id : Ids]
    BY <1>0, <1>4 DEF UploadSave, ReqHolds
  <2>2. ReqHolds([req[r] EXCEPT !.op = "commit"])
    BY <2>1 DEF ReqHolds
  <2>3. CountStep /\ files' \subseteq Ids
    BY <1>0, <1>4, <2>1 DEF UploadSave, CountStep
  <2>4. \E q \in {Idle, [req[r] EXCEPT !.op = "commit"]} : Becomes(r, q)
    BY <1>4 DEF UploadSave
  <2>5. UNCHANGED <<db, queue, worker>>
    BY <1>4 DEF UploadSave
  <2>6. QED
    BY <1>0, <1>1, <1>2, <2>2, <2>3, <2>4, <2>5, RequestFrame DEF db, queue
<1>5. CASE UploadCommit(r)
  <2>1. req[r] \in [op : {"save", "commit"}, file : Files, id : Ids]
    BY <1>0, <1>5 DEF UploadCommit, ReqHolds
  <2>2. ReqHolds([op |-> "enqueue", id |-> req[r].id]) /\ ReqHolds([op |-> "remove", id |-> req[r].id])
    BY <2>1 DEF ReqHolds
  <2>3. rows' \in Rows /\ Stored \subseteq Stored'
    <3>1. NewSource(req[r].file) \in Source /\ NewSource(req[r].file) # NoRow
      BY <2>1 DEF NewSource, Source, Statuses, Errors, NoRow
    <3>2. rows' = rows \/ rows' = [rows EXCEPT ![req[r].id] = NewSource(req[r].file)]
      BY <1>5 DEF UploadCommit
    <3>3. QED
      BY <1>0, <2>1, <3>1, <3>2 DEF Rows, Stored, Exists
  <2>4. CountStep
    BY <1>5 DEF UploadCommit, CountStep
  <2>5. \E q \in {[op |-> "enqueue", id |-> req[r].id], [op |-> "remove", id |-> req[r].id]} :
           Becomes(r, q)
    BY <1>5 DEF UploadCommit
  <2>6. UNCHANGED <<texts, chunks, requests, alive, files, queue, worker>>
    BY <1>5 DEF UploadCommit
  <2>7. QED
    BY <1>0, <2>2, <2>3, <2>4, <2>5, <2>6, RequestFrame DEF queue
<1>6. CASE RemoveFile(r) \/ DeleteWorkspaceFiles(r) \/ ApiCrash(r)
  <2>1. Becomes(r, Idle) /\ UNCHANGED <<db, queue, worker>>
    BY <1>6 DEF RemoveFile, DeleteWorkspaceFiles, ApiCrash
  <2>2. CountStep /\ files' \subseteq Ids
    BY <1>0, <1>6 DEF RemoveFile, DeleteWorkspaceFiles, ApiCrash, CountStep
  <2>3. QED
    BY <1>0, <1>1, <1>2, <2>1, <2>2, RequestFrame DEF db, queue
<1>7. CASE Enqueue(r)
  <2>1. req[r].id \in Ids
    BY <1>0, <1>7 DEF Enqueue, ReqHolds
  <2>2. Becomes(r, Idle) /\ UNCHANGED <<db, files, running, swept, worker>>
    BY <1>7 DEF Enqueue
  <2>3. CountStep /\ jobs \subseteq jobs' /\ jobs' \subseteq Ids
    BY <1>0, <1>7, <2>1 DEF Enqueue, EnqueueSource, CountStep
  <2>4. QED
    BY <1>0, <1>1, <1>2, <2>2, <2>3, RequestFrame DEF db
<1>8. CASE RetryCommit(r)
  <2>1. req[r].id \in Ids /\ ReqHolds([op |-> "enqueue", id |-> req[r].id])
    BY <1>0, <1>8 DEF RetryCommit, ReqHolds
  <2>2. UNCHANGED <<texts, chunks, requests, alive, files, queue, worker, count>>
    BY <1>8 DEF RetryCommit
  <2>3. rows' \in Rows /\ Stored' = Stored
    <3>1. CASE Exists(req[r].id)
      <4>1. rows' = [rows EXCEPT ![req[r].id].status = "pending", ![req[r].id].error = "none",
                                 ![req[r].id].old = FALSE]
        BY <1>8, <3>1 DEF RetryCommit
      <4>2. "pending" \in Statuses /\ "none" \in Errors
        BY DEF Statuses, Errors
      <4>3. QED
        BY <1>0, <2>1, <3>1, <4>1, <4>2, RowUpdates
    <3>2. CASE ~Exists(req[r].id)
      BY <1>0, <1>2, <1>8, <3>2 DEF RetryCommit
    <3>3. QED
      BY <3>1, <3>2
  <2>4. \E q \in {Idle, [op |-> "enqueue", id |-> req[r].id]} : Becomes(r, q)
    BY <1>8 DEF RetryCommit
  <2>5. QED
    BY <1>0, <1>1, <2>1, <2>2, <2>3, <2>4, RequestFrame DEF queue, CountStep
<1>9. CASE ViewStoreText(r)
  <2>1. Becomes(r, Idle) /\ UNCHANGED <<rows, chunks, requests, alive, files, queue, worker, count>>
    BY <1>9 DEF ViewStoreText
  <2>2. texts' \subseteq Stored
    <3>1. req[r].id \in Ids
      BY <1>0, <1>9 DEF ViewStoreText, ReqHolds
    <3>2. QED
      BY <1>0, <1>9, <3>1 DEF ViewStoreText, StoreText, Stored
  <2>3. QED
    BY <1>0, <1>1, <1>2, <2>1, <2>2, RequestFrame DEF queue, CountStep
<1>10. QED
  BY <1>3, <1>4, <1>5, <1>6, <1>7, <1>8, <1>9 DEF RequestStep

(* What a run changes: itself, its own source's row and passages, its job.  *)
RunChanges(w, q) ==
  /\ worker[w].pc # "idle" /\ Moves(w, q) /\ RunHolds(q)
  /\ q.pc # "idle" => q.id = worker[w].id
  /\ CountStep /\ count'.id = count.id
  /\ rows' \in Rows /\ Stored' = Stored /\ texts' \subseteq Stored /\ chunks' \in Chunks
  /\ \A i \in Ids : i # worker[w].id => rows'[i] = rows[i] /\ chunks'[i] = chunks[i]
  /\ requests' \in Nat /\ jobs' \subseteq jobs /\ running' \subseteq jobs'
  /\ UNCHANGED <<alive, files, swept, req>>

(* A step of a run, or its end, is of that form.                            *)
LEMMA RunSteps ==
  ASSUME TypeInv, NEW w \in Workers, RunStep(w) \/ WorkerCrash(w)
  PROVE  \E q : RunChanges(w, q)
<1> DEFINE i == worker[w].id
           m == worker[w].model
<1>0. /\ rows \in Rows /\ chunks \in Chunks /\ texts \subseteq Stored /\ requests \in Nat
      /\ running \subseteq jobs /\ RunHolds(worker[w]) /\ m \in Models
  BY DEF TypeInv, TypeOK, Chunks, RunHolds
<1>1. count \in [id : Ids \cup {0}, faults : 0..MaxFaults, asked : 0..MaxAsked]
  BY DEF TypeInv, TypeOK
<1>2. /\ UNCHANGED count => CountStep /\ count'.id = count.id
      /\ CanFail /\ Fault(1) => CountStep /\ count'.id = count.id
  BY <1>1 DEF CountStep, Fault
<1>3. UNCHANGED rows => Stored' = Stored
  BY DEF Stored, Exists
<1>4. ASSUME NEW n \in Models
      PROVE  RunHolds(NoRun(n)) /\ NoRun(n).pc = "idle"
  BY DEF RunHolds, NoRun, Reading, Embedding
<1>5. ASSUME JobEnds(w)
      PROVE  Moves(w, NoRun(m)) /\ jobs' \subseteq jobs /\ running' \subseteq jobs'
  BY <1>0, <1>5 DEF JobEnds
<1>6. i \in Ids
  <2>1. worker[w].pc # "idle"
    BY DEF RunStep, Begin, ReadFile, KeepText, KeepReusable, RecordRequest, EmbedFails,
       EmbedBatch, Finish, WorkerCrash
  <2>2. QED
    BY <1>0, <2>1 DEF RunHolds
<1>7. ASSUME NEW e \in Errors, Ends(w, e), worker[w].pc # "idle"
      PROVE  \E q : Moves(w, q) /\ RunHolds(q) /\ q.id = i
  <2>1. RunHolds([pc |-> "finish", model |-> m, id |-> i, error |-> e])
    BY <1>0, <1>6 DEF RunHolds, Reading, Embedding
  <2>2. QED
    BY <1>7, <2>1 DEF Ends
<1>8. ASSUME NEW left \in SUBSET Passages, EmbedNext(w, left), worker[w].pc # "idle"
      PROVE  \E q : Moves(w, q) /\ RunHolds(q) /\ q.id = i
  <2>1. RunHolds([pc |-> "record", model |-> m, id |-> i, left |-> left, attempt |-> 0])
    BY <1>0, <1>6 DEF RunHolds, Reading, Embedding
  <2>2. "none" \in Errors
    BY DEF Errors
  <2>3. QED
    BY <1>7, <1>8, <2>1, <2>2 DEF EmbedNext
<1>9. ASSUME NEW pc \in Reading, worker[w].pc \in Reading, Moves(w, At(w, pc))
      PROVE  \E q : Moves(w, q) /\ RunHolds(q) /\ q.id = i
  <2>1. worker[w] \in [pc : Reading, model : Models, id : Ids, file : Files]
    BY <1>0, <1>9 DEF RunHolds
  <2>2. At(w, pc) \in [pc : Reading, model : Models, id : Ids, file : Files] /\ At(w, pc).id = i
    BY <1>9, <2>1 DEF At
  <2>3. RunHolds(At(w, pc))
    BY <2>2 DEF RunHolds, Reading, Embedding
  <2>4. QED
    BY <1>9, <2>2, <2>3
<1> HIDE DEF i, m
<1>10. CASE Begin(w)
  <2>0. Exists(i) => rows[i] \in Source
    BY <1>0, <1>6, RowExists
  <2>1. UNCHANGED <<texts, chunks, requests, alive, files, swept, req, count>>
    BY <1>10 DEF Begin
  <2>2. CASE JobEnds(w) /\ UNCHANGED rows
    <3>1. worker[w].pc # "idle"
      BY <1>10 DEF Begin
    <3>2. RunChanges(w, NoRun(m))
      BY <1>0, <1>2, <1>3, <1>4, <1>5, <2>1, <2>2, <3>1 DEF RunChanges
    <3>3. QED
      BY <3>2
  <2>3. CASE /\ Exists(i)
             /\ rows' = [rows EXCEPT ![i].status = "processing", ![i].error = "none", ![i].old = FALSE]
             /\ Moves(w, [pc |-> "read", model |-> m, id |-> i, file |-> rows[i].file])
             /\ UNCHANGED <<jobs, running>>
    <3>1. RunHolds([pc |-> "read", model |-> m, id |-> i, file |-> rows[i].file])
      BY <1>0, <1>6, <2>0, <2>3 DEF RunHolds, Reading, Embedding, Source
    <3>2. "processing" \in Statuses /\ "none" \in Errors
      BY DEF Statuses, Errors
    <3>3. rows' \in Rows /\ Stored' = Stored /\ \A j \in Ids : j # i => rows'[j] = rows[j]
      BY <1>0, <1>6, <2>3, <3>2, RowUpdates
    <3>4. worker[w].pc # "idle"
      BY <1>10 DEF Begin
    <3>5. RunChanges(w, [pc |-> "read", model |-> m, id |-> i, file |-> rows[i].file])
      BY <1>0, <1>2, <2>1, <2>3, <3>1, <3>3, <3>4 DEF RunChanges, i
    <3>6. QED
      BY <3>5
  <2>4. QED
    BY <1>10, <2>2, <2>3 DEF Begin, i, m
<1>11. ASSUME worker[w].pc # "idle", UNCHANGED <<db, files, queue, req>>, CountStep,
              count'.id = count.id, \E q : Moves(w, q) /\ RunHolds(q) /\ q.id = i
       PROVE  \E q : RunChanges(w, q)
  <2>1. PICK q : Moves(w, q) /\ RunHolds(q) /\ q.id = i
    BY <1>11
  <2>2. RunChanges(w, q)
    BY <1>0, <1>3, <1>11, <2>1 DEF RunChanges, db, queue, i
  <2>3. QED
    BY <2>2
<1>12. CASE ReadFile(w)
  <2>1. /\ worker[w].pc # "idle" /\ worker[w].pc \in Reading /\ "store" \in Reading
        /\ UNCHANGED <<db, files, queue, req>> /\ UNCHANGED count
    BY <1>12 DEF ReadFile, Reading
  <2>2. Moves(w, At(w, "store")) \/ \E e \in Errors : Ends(w, e)
    BY <1>12 DEF ReadFile, Errors
  <2>3. QED
    BY <1>2, <1>7, <1>9, <1>11, <2>1, <2>2
<1>13. CASE KeepText(w)
  <2>1. /\ worker[w].pc # "idle" /\ worker[w].pc \in Reading /\ "keep" \in Reading
        /\ UNCHANGED <<rows, chunks, requests, alive, files, swept, req, count>>
    BY <1>13 DEF KeepText, Reading
  <2>2. texts' \subseteq Stored
    BY <1>0, <1>6, <1>13 DEF KeepText, StoreText, Stored, i
  <2>3. CASE JobEnds(w)
    <3>1. RunChanges(w, NoRun(m))
      BY <1>0, <1>2, <1>3, <1>4, <1>5, <2>1, <2>2, <2>3 DEF RunChanges
    <3>2. QED
      BY <3>1
  <2>4. CASE Moves(w, At(w, "keep")) /\ UNCHANGED <<jobs, running>>
    <3>1. PICK q : Moves(w, q) /\ RunHolds(q) /\ q.id = i
      BY <1>9, <2>1, <2>4
    <3>2. RunChanges(w, q)
      BY <1>0, <1>2, <1>3, <2>1, <2>2, <2>4, <3>1 DEF RunChanges, i
    <3>3. QED
      BY <3>2
  <2>5. QED
    BY <1>13, <2>3, <2>4 DEF KeepText
<1>14. CASE KeepReusable(w)
  <2>1. /\ worker[w].pc # "idle"
        /\ UNCHANGED <<rows, texts, requests, alive, files, queue, req, count>>
    BY <1>14 DEF KeepReusable
  <2>2. PICK q : Moves(w, q) /\ RunHolds(q) /\ q.id = i
    <3>1. EmbedNext(w, Passages \ Reusable(w))
      BY <1>14 DEF KeepReusable
    <3>2. QED
      BY <1>8, <2>1, <3>1
  <2>3. chunks' \in Chunks /\ \A j \in Ids : j # i => chunks'[j] = chunks[j]
    <3>1. chunks' = [chunks EXCEPT ![i] = [c \in Passages |->
                       IF c \in Reusable(w) THEN chunks[i][c] ELSE None]]
      BY <1>14 DEF KeepReusable, i
    <3>2. [c \in Passages |-> IF c \in Reusable(w) THEN chunks[i][c] ELSE None]
             \in [Passages -> Models \cup {None}]
      BY <1>0, <1>6 DEF Chunks
    <3>3. QED
      BY <1>0, <1>6, <3>1, <3>2 DEF Chunks
  <2>4. RunChanges(w, q)
    BY <1>0, <1>2, <1>3, <2>1, <2>2, <2>3 DEF RunChanges, queue, i
  <2>5. QED
    BY <2>4
<1>15. ASSUME NEW pc \in Embedding, NEW a \in Nat, worker[w].pc \in Embedding,
              Moves(w, [At(w, pc) EXCEPT !.attempt = a]) \/ Moves(w, At(w, pc))
       PROVE  \E q : Moves(w, q) /\ RunHolds(q) /\ q.id = i
  <2> DEFINE S == [pc : Embedding, model : Models, id : Ids, left : SUBSET Passages, attempt : Nat]
  <2>1. worker[w] \in S
    BY <1>0, <1>15 DEF RunHolds
  <2>2. At(w, pc) \in S /\ At(w, pc).id = i
    BY <1>15, <2>1 DEF At, i
  <2>3. [At(w, pc) EXCEPT !.attempt = a] \in S /\ [At(w, pc) EXCEPT !.attempt = a].id = i
    BY <1>15, <2>2
  <2>4. ASSUME NEW q \in S
        PROVE  RunHolds(q)
    BY <2>4 DEF RunHolds, Reading, Embedding
  <2>5. QED
    BY <1>15, <2>2, <2>3, <2>4
<1>16. CASE RecordRequest(w)
  <2>1. /\ worker[w].pc # "idle" /\ worker[w].pc \in Embedding /\ "send" \in Embedding
        /\ UNCHANGED <<rows, texts, chunks, alive, files, swept, req, count>>
    BY <1>16 DEF RecordRequest, Embedding
  <2>2. requests' \in Nat
    BY <1>0, <1>16 DEF RecordRequest
  <2>3. CASE JobEnds(w)
    <3>1. RunChanges(w, NoRun(m))
      BY <1>0, <1>2, <1>3, <1>4, <1>5, <2>1, <2>2, <2>3 DEF RunChanges
    <3>2. QED
      BY <3>1
  <2>4. CASE (Ends(w, "embedding") \/ Moves(w, At(w, "send"))) /\ UNCHANGED <<jobs, running>>
    <3>0. "embedding" \in Errors /\ 0 \in Nat
      BY DEF Errors
    <3>1. PICK q : Moves(w, q) /\ RunHolds(q) /\ q.id = i
      BY <1>7, <1>15, <2>1, <2>4, <3>0
    <3>2. RunChanges(w, q)
      BY <1>0, <1>2, <1>3, <2>1, <2>2, <2>4, <3>1 DEF RunChanges, i
    <3>3. QED
      BY <3>2
  <2>5. QED
    BY <1>16, <2>3, <2>4 DEF RecordRequest
<1>17. CASE EmbedFails(w)
  <2>1. /\ worker[w].pc # "idle" /\ worker[w].pc \in Embedding /\ "record" \in Embedding
        /\ UNCHANGED <<db, files, queue, req>> /\ CanFail /\ Fault(1)
    BY <1>17 DEF EmbedFails, Embedding
  <2>2. worker[w].attempt \in Nat /\ At(w, "record").attempt = worker[w].attempt
    BY <1>0, <2>1 DEF RunHolds, At
  <2>3. Moves(w, [At(w, "record") EXCEPT !.attempt = worker[w].attempt + 1]) \/ Ends(w, "embedding")
    BY <1>17, <2>2 DEF EmbedFails
  <2>4. worker[w].attempt + 1 \in Nat
    BY <2>2
  <2>5. \E q : Moves(w, q) /\ RunHolds(q) /\ q.id = i
    <3>1. "embedding" \in Errors
      BY DEF Errors
    <3>2. QED
      BY <1>7, <1>15, <2>1, <2>3, <2>4, <3>1
  <2>6. QED
    BY <1>2, <1>11, <2>1, <2>5
<1>18. CASE EmbedBatch(w)
  <2>1. /\ worker[w].pc # "idle"
        /\ UNCHANGED <<texts, requests, alive, files, swept, req, count>>
    BY <1>18 DEF EmbedBatch
  <2>2. CASE JobEnds(w) /\ UNCHANGED <<chunks, rows>>
    <3>1. RunChanges(w, NoRun(m))
      BY <1>0, <1>2, <1>3, <1>4, <1>5, <2>1, <2>2 DEF RunChanges
    <3>2. QED
      BY <3>1
  <2>3. CASE /\ Exists(i)
             /\ chunks' = [chunks EXCEPT ![i] = [c \in Passages |->
                             IF c \in Batch(worker[w].left) THEN m ELSE chunks[i][c]]]
             /\ rows' = [rows EXCEPT ![i].old = FALSE]
             /\ EmbedNext(w, worker[w].left \ Batch(worker[w].left))
             /\ UNCHANGED <<jobs, running>>
    <3>1. worker[w].left \in SUBSET Passages
      BY <1>0, <1>18 DEF EmbedBatch, RunHolds, Embedding
    <3>2. PICK q : Moves(w, q) /\ RunHolds(q) /\ q.id = i
      <4>1. worker[w].left \ Batch(worker[w].left) \in SUBSET Passages
        BY <3>1
      <4>2. QED
        BY <1>8, <2>1, <2>3, <4>1
    <3>3. rows[i].status \in Statuses /\ rows[i].error \in Errors
      BY <1>0, <1>6, <2>3, RowExists DEF Source
    <3>4. rows' \in Rows /\ Stored' = Stored /\ \A j \in Ids : j # i => rows'[j] = rows[j]
      BY <1>0, <1>6, <2>3, <3>3, RowUpdates
    <3>5. chunks' \in Chunks /\ \A j \in Ids : j # i => chunks'[j] = chunks[j]
      <4>1. [c \in Passages |-> IF c \in Batch(worker[w].left) THEN m ELSE chunks[i][c]]
               \in [Passages -> Models \cup {None}]
        BY <1>0, <1>6 DEF Chunks
      <4>2. QED
        BY <1>0, <1>6, <2>3, <4>1 DEF Chunks
    <3>6. RunChanges(w, q)
      BY <1>0, <1>2, <2>1, <2>3, <3>2, <3>4, <3>5 DEF RunChanges, i
    <3>7. QED
      BY <3>6
  <2>4. QED
    BY <1>18, <2>2, <2>3 DEF EmbedBatch, i, m
<1>19. CASE Finish(w)
  <2>1. /\ worker[w].pc # "idle" /\ JobEnds(w)
        /\ UNCHANGED <<texts, chunks, requests, alive, files, swept, req, count>>
    BY <1>19 DEF Finish
  <2>2. rows' \in Rows /\ Stored' = Stored /\ \A j \in Ids : j # i => rows'[j] = rows[j]
    <3>1. CASE Exists(i) /\ rows[i].status = "processing"
      <4>1. rows' = [rows EXCEPT ![i].error = worker[w].error, ![i].old = FALSE,
                                 ![i].status = IF worker[w].error = "none" THEN "ready" ELSE "failed"]
        BY <1>19, <3>1, Zenon DEF Finish, i
      <4>2. worker[w].error \in Errors
        BY <1>0, <1>19 DEF Finish, RunHolds
      <4>3. (IF worker[w].error = "none" THEN "ready" ELSE "failed") \in Statuses
        BY DEF Statuses
      <4>4. QED
        BY <1>0, <1>6, <3>1, <4>1, <4>2, <4>3, RowUpdates
    <3>2. CASE ~(Exists(i) /\ rows[i].status = "processing")
      BY <1>0, <1>3, <1>19, <3>2 DEF Finish, i
    <3>3. QED
      BY <3>1, <3>2
  <2>3. RunChanges(w, NoRun(m))
    BY <1>0, <1>2, <1>4, <1>5, <2>1, <2>2 DEF RunChanges, i
  <2>4. QED
    BY <2>3
<1>20. CASE WorkerCrash(w)
  <2>1. PICK n \in Models : Moves(w, NoRun(n))
    BY <1>20 DEF WorkerCrash
  <2>2. /\ worker[w].pc # "idle" /\ CanFail /\ Fault(1) /\ UNCHANGED <<db, files, swept, req>>
        /\ jobs' \subseteq jobs /\ running' \subseteq jobs'
    BY <1>0, <1>20 DEF WorkerCrash
  <2>3. RunChanges(w, NoRun(n))
    BY <1>0, <1>2, <1>3, <1>4, <2>1, <2>2 DEF RunChanges, db
  <2>4. QED
    BY <2>3
<1>21. QED
  BY <1>10, <1>12, <1>13, <1>14, <1>16, <1>17, <1>18, <1>19, <1>20 DEF RunStep

(* A run begins on a source that no other run has locked.                   *)
Starts(w, i) ==
  /\ i \in jobs /\ Runs(i) = {} /\ worker[w].pc = "idle"
  /\ Moves(w, [pc |-> "begin", model |-> worker[w].model, id |-> i])

(* What time, Arq, the sweep and Redis change between requests and runs.    *)
SystemChanges ==
  /\ CountStep /\ count'.id = count.id
  /\ rows' \in Rows /\ Stored' = Stored /\ \A i \in Ids : rows'[i].status = rows[i].status
  /\ UNCHANGED <<texts, chunks, alive, files, req>>
  /\ requests' \in Nat /\ jobs' \subseteq jobs \cup swept /\ running' \subseteq jobs'
  /\ swept' \subseteq swept \cup Stored
  /\ UNCHANGED worker \/ \E w \in Workers, i \in Ids : Starts(w, i)

(* Every such step is of that form.                                         *)
LEMMA SystemSteps ==
  ASSUME TypeInv,
         \/ \E w \in Workers, i \in Ids : ProcessSource(w, i)
         \/ \E i \in Ids : Age(i) \/ SweepEnqueue(i)
         \/ SweepRead \/ Midnight \/ RedisRestart
  PROVE  SystemChanges
<1>0. rows \in Rows /\ requests \in Nat /\ running \subseteq jobs
  BY DEF TypeInv, TypeOK
<1>1. /\ UNCHANGED count => CountStep /\ count'.id = count.id
      /\ CanFail /\ Fault(1) => CountStep /\ count'.id = count.id
  <2>1. count \in [id : Ids \cup {0}, faults : 0..MaxFaults, asked : 0..MaxAsked]
    BY DEF TypeInv, TypeOK
  <2>2. QED
    BY <2>1 DEF CountStep, Fault
<1>2. UNCHANGED rows => Stored' = Stored
  BY DEF Stored, Exists
<1>3. ASSUME NEW w \in Workers, NEW i \in Ids, ProcessSource(w, i)
      PROVE  SystemChanges
  <2>1. UNCHANGED <<db, files, swept, req, count>>
    BY <1>3 DEF ProcessSource
  <2>2. CASE jobs' = jobs \ {i} /\ UNCHANGED <<running, worker>>
    <3>1. running' \subseteq jobs'
      BY <1>0, <1>3, <2>2 DEF ProcessSource
    <3>2. QED
      BY <1>0, <1>1, <1>2, <2>1, <2>2, <3>1 DEF SystemChanges, db
  <2>3. CASE /\ TryLock(i) /\ running' = running \cup {i} /\ UNCHANGED jobs
             /\ Moves(w, [pc |-> "begin", model |-> worker[w].model, id |-> i])
    <3>1. Starts(w, i)
      BY <1>3, <2>3 DEF ProcessSource, Starts, TryLock
    <3>2. running' \subseteq jobs'
      BY <1>0, <1>3, <2>3 DEF ProcessSource
    <3>3. QED
      BY <1>0, <1>1, <1>2, <2>1, <2>3, <3>1, <3>2 DEF SystemChanges, db
  <2>4. QED
    BY <1>3, <2>2, <2>3 DEF ProcessSource
<1>4. ASSUME NEW i \in Ids, Age(i)
      PROVE  SystemChanges
  <2>1. rows[i].status \in Statuses /\ rows[i].error \in Errors
    BY <1>0, <1>4, RowExists DEF Age, Source
  <2>2. /\ rows' \in Rows /\ Stored' = Stored /\ rows'[i].status = rows[i].status
        /\ \A j \in Ids : j # i => rows'[j] = rows[j]
    <3>1. Exists(i) /\ rows' = [rows EXCEPT ![i].old = TRUE] /\ TRUE \in BOOLEAN
      BY <1>4 DEF Age
    <3>2. QED
      BY <1>0, <2>1, <3>1, RowUpdates
  <2>3. \A j \in Ids : rows'[j].status = rows[j].status
    BY <2>2
  <2>4. QED
    BY <1>0, <1>1, <1>4, <2>2, <2>3 DEF Age, SystemChanges, queue
<1>5. ASSUME NEW i \in Ids, SweepEnqueue(i)
      PROVE  SystemChanges
  BY <1>0, <1>1, <1>2, <1>5 DEF SweepEnqueue, EnqueueSource, SystemChanges, db
<1>6. CASE SweepRead
  BY <1>0, <1>1, <1>2, <1>6 DEF SweepRead, Stalled, SystemChanges, db
<1>7. CASE Midnight
  BY <1>0, <1>1, <1>2, <1>7 DEF Midnight, SystemChanges, queue
<1>8. CASE RedisRestart
  BY <1>0, <1>1, <1>2, <1>8 DEF RedisRestart, SystemChanges, db
<1>9. QED
  BY <1>3, <1>4, <1>5, <1>6, <1>7, <1>8

(* Every step is a request's, a run's, or the system's.                     *)
LEMMA NextCases ==
  ASSUME TypeInv, [Next]_vars
  PROVE  \/ UNCHANGED vars
         \/ \E r \in Requests : User(r) \/ RequestStep(r) \/ ApiCrash(r)
         \/ \E w \in Workers : \E q : RunChanges(w, q)
         \/ SystemChanges
<1>1. \A w \in Workers : RunStep(w) \/ WorkerCrash(w) => \E q : RunChanges(w, q)
  BY RunSteps
<1>2. QED
  BY <1>1, SystemSteps, Zenon DEF Next

(* What runs and the system do keeps every type.                            *)
LEMMA BackgroundTypes ==
  ASSUME TypeInv, (\E w \in Workers : \E q : RunChanges(w, q)) \/ SystemChanges
  PROVE  TypeInv'
<1>0. /\ req = [r \in Requests |-> req[r]] /\ \A r \in Requests : ReqHolds(req[r])
      /\ texts \subseteq Stored /\ files \subseteq Ids /\ chunks \in Chunks /\ jobs \subseteq Ids
      /\ swept \subseteq Ids /\ Stored \subseteq Ids /\ alive \in BOOLEAN
  BY DEF TypeInv, TypeOK, Stored, Chunks
<1>1. worker' = [v \in Workers |-> worker'[v]] /\ \A v \in Workers : RunHolds(worker[v])'
  <2>1. ASSUME NEW w \in Workers, NEW q, RunHolds(q), Moves(w, q)
        PROVE  worker' = [v \in Workers |-> worker'[v]] /\ \A v \in Workers : RunHolds(worker[v])'
    BY <2>1, RunMoves
  <2>2. CASE UNCHANGED worker
    BY <2>2 DEF TypeInv
  <2>3. ASSUME NEW w \in Workers, NEW i \in Ids, Starts(w, i)
        PROVE  RunHolds([pc |-> "begin", model |-> worker[w].model, id |-> i])
    BY DEF TypeInv, RunHolds, Reading, Embedding
  <2>4. QED
    BY <2>1, <2>2, <2>3 DEF RunChanges, SystemChanges, Starts
<1>2. CountStep
  BY DEF RunChanges, SystemChanges
<1>3. count' \in [id : Ids \cup {0}, faults : 0..MaxFaults, asked : 0..MaxAsked]
  BY <1>2, CountTypes DEF TypeInv
<1>4. /\ rows' \in Rows /\ texts' \subseteq Stored' /\ files' \subseteq Ids /\ chunks' \in Chunks
      /\ requests' \in Nat /\ jobs' \subseteq Ids /\ running' \subseteq jobs' /\ swept' \subseteq Ids
      /\ alive' \in BOOLEAN /\ UNCHANGED req
  BY <1>0 DEF RunChanges, SystemChanges
<1>5. (\A i \in Ids : rows'[i] \in Source \cup {NoRow}) /\ \A w \in Workers : worker'[w].model \in Models
  BY <1>1, <1>4 DEF Rows, RunHolds
<1>6. req' = [r \in Requests |-> req'[r]] /\ \A r \in Requests : ReqHolds(req[r])'
  BY <1>0, <1>4
<1>7. QED
  BY <1>1, <1>3, <1>4, <1>5, <1>6, Zenon DEF TypeInv, TypeOK, Chunks

(* Every step keeps every type.                                             *)
LEMMA NextTypeInv == TypeInv /\ [Next]_vars => TypeInv'
<1> SUFFICES ASSUME TypeInv, [Next]_vars PROVE TypeInv'
  OBVIOUS
<1>1. CASE UNCHANGED vars
  <2>1. UNCHANGED <<rows, texts, chunks, files, requests, jobs, running, swept, worker, req,
                    alive, count>>
    BY <1>1 DEF vars
  <2>2. Stored' = Stored
    BY <2>1 DEF Stored, Exists
  <2>3. TypeOK'
    BY <2>1, <2>2, Zenon DEF TypeInv, TypeOK
  <2>4. QED
    BY <2>1, <2>3 DEF TypeInv
<1>2. QED
  BY <1>1, NextCases, UserTypes, RequestStepTypes, BackgroundTypes

(* Type correctness: rows, passages, jobs, runs and counters stay well      *)
(* formed, a text belongs to a row, and what is in progress is queued.      *)
THEOREM TypeCorrect == Spec => []TypeOK
<1>1. TypeInv => TypeOK
  BY DEF TypeInv
<1>2. QED
  BY <1>1, InitTypeInv, NextTypeInv, PTL DEF Spec

-----------------------------------------------------------------------------
(* Ids and files.                                                           *)

(* An id that was given out stays known: an upload takes a new one.         *)
LEMMA KnownGrows ==
  ASSUME TypeInv, NEW r \in Requests, NEW q, Becomes(r, q), ReqHolds(q), CountStep,
         q.op \in {"save", "commit"} =>
           (Uploading(r) /\ q.id = req[r].id) \/ q.id = count.id + 1
  PROVE  Known \subseteq Known'
<1>1. req'[r] = q /\ \A s \in Requests : s # r => req'[s] = req[s]
  BY ReqBecomes
<1>2. count.id <= count'.id /\ count.id \in Nat /\ count'.id \in Nat /\ Ids \subseteq Nat
  BY CountTypes, SourcesAssumption DEF TypeInv
<1>3. ASSUME NEW i \in Known
      PROVE  i \in Known'
  <2>1. i \in Ids /\ i \in Nat /\ i <= count.id /\ i <= count'.id
    BY <1>2, <1>3 DEF Known
  <2>2. ASSUME NEW s \in Requests, req'[s].op \in {"save", "commit"}
        PROVE  req'[s].id # i
    <3>1. CASE s # r
      BY <1>1, <1>3, <2>2, <3>1 DEF Known, Uploading
    <3>2. CASE s = r /\ Uploading(r) /\ q.id = req[r].id
      BY <1>1, <1>3, <3>2 DEF Known
    <3>3. CASE s = r /\ q.id = count.id + 1
      BY <1>1, <1>2, <2>1, <3>3
    <3>4. QED
      BY <1>1, <2>2, <3>1, <3>2, <3>3
  <2>3. QED
    BY <2>1, <2>2 DEF Known, Uploading
<1>4. QED
  BY <1>3

(* A request's step that gives no id away keeps what is known of ids.       *)
LEMMA FileFrame ==
  ASSUME TypeInv, FileInv, NEW r \in Requests, NEW q, Becomes(r, q), ReqHolds(q), CountStep,
         Known \subseteq Known', UNCHANGED <<swept, worker>>,
         q.op \in {"save", "commit"} =>
           /\ q.id <= count'.id
           /\ Uploading(r) \/ \A s \in Requests : ~Uploading(s),
         q.op = "commit" => q.id \in files',
         q.op \in {"remove", "enqueue"} => q.id \in Known',
         q.op = "remove" => q.id \notin Stored',
         q.op = "prefix" => ~alive',
         alive' => alive /\ \A s \in Requests : req[s].op = "commit" /\ s # r => req[s].id \in files',
         \A s \in Requests : req[s].op = "remove" => req[s].id \notin Stored',
         Stored' \subseteq Known', jobs' \subseteq Known', Stored' \subseteq files',
         ~alive' => Stored' = {}
  PROVE  FileInv'
<1>1. req'[r] = q /\ \A s \in Requests : s # r => req'[s] = req[s]
  BY ReqBecomes
<1>2. count.id <= count'.id /\ count.id \in Nat /\ count'.id \in Nat
  BY CountTypes DEF TypeInv
<1>3. UploadsHold'
  <2>1. ASSUME NEW s \in Requests, NEW t \in Requests, Uploading(s)', Uploading(t)'
        PROVE  s = t
    <3>1. (s # r => Uploading(s)) /\ (t # r => Uploading(t))
      BY <1>1, <2>1 DEF Uploading
    <3>2. (s = r \/ t = r) => Uploading(r) \/ \A u \in Requests : ~Uploading(u)
      BY <1>1, <2>1 DEF Uploading
    <3>3. QED
      BY <3>1, <3>2 DEF FileInv, UploadsHold
  <2>2. ASSUME NEW s \in Requests, Uploading(s)'
        PROVE  req'[s].id <= count'.id
    <3>1. CASE s = r
      BY <1>1, <2>2, <3>1 DEF Uploading
    <3>2. CASE s # r
      <4>1. Uploading(s) /\ req'[s].id = req[s].id /\ req[s].id <= count.id
        BY <1>1, <2>2, <3>2 DEF Uploading, FileInv, UploadsHold
      <4>2. req[s].id \in Nat
        <5>1. req[s].id \in Ids
          BY <4>1 DEF TypeInv, ReqHolds, Uploading
        <5>2. QED
          BY <5>1, SourcesAssumption
      <4>3. QED
        BY <1>2, <4>1, <4>2
    <3>3. QED
      BY <3>1, <3>2
  <2>3. ASSUME NEW s \in Requests, req'[s].op = "commit", alive'
        PROVE  req'[s].id \in files'
    BY <1>1, <2>3
  <2>4. QED
    BY <2>1, <2>2, <2>3 DEF UploadsHold
<1>4. IdsKnown'
  <2>1. swept' \subseteq Known' /\ \A w \in Workers : worker'[w].pc # "idle" => worker'[w].id \in Known'
    BY DEF FileInv, IdsKnown
  <2>2. ASSUME NEW s \in Requests
        PROVE  /\ req'[s].op \in {"remove", "enqueue"} => req'[s].id \in Known'
               /\ req'[s].op = "remove" => req'[s].id \notin Stored'
               /\ req'[s].op = "prefix" => ~alive'
    <3>1. CASE s = r
      BY <1>1, <3>1
    <3>2. CASE s # r
      BY <1>1, <3>2 DEF FileInv, IdsKnown
    <3>3. QED
      BY <3>1, <3>2
  <2>3. QED
    BY <2>1, <2>2 DEF IdsKnown
<1>5. QED
  BY <1>3, <1>4 DEF FileInv, RowsKept

(* A file is newly forgotten only by the request that was about to insert   *)
(* its row or to remove it.                                                 *)
LEMMA LeakPoint ==
  ASSUME TypeInv, NEW r \in Requests, NEW q, Becomes(r, q), ReqHolds(q),
         NEW x \in Leaked', x \in files \ Stored
  PROVE  x \in Leaked \/ req[r].op = "prefix" \/ (req[r].op \in {"commit", "remove"} /\ req[r].id = x)
<1>1. req'[r] = q /\ \A s \in Requests : s # r => req'[s] = req[s]
  BY ReqBecomes
<1>2. QED
  BY <1>1 DEF Leaked

(* What one step can add to the forgotten files.                            *)
LeakStep ==
  \/ Leaked' \subseteq Leaked
  \/ count'.faults = count.faults + 1 /\ (~alive' \/ \E x : Leaked' \subseteq Leaked \cup {x})

(* What users ask for.                                                      *)
LEMMA UserFiles ==
  ASSUME TypeInv, FileInv, NEW r \in Requests, User(r)
  PROVE  FileInv' /\ LeakStep
<1>0. /\ Stored \subseteq files /\ Stored \subseteq Known /\ jobs \subseteq Known
      /\ alive \in BOOLEAN /\ (~alive => Stored = {})
  BY DEF TypeInv, TypeOK, FileInv, IdsKnown, RowsKept
<1>1. /\ \A s \in Requests : req[s].op = "remove" => req[s].id \notin Stored
      /\ alive => \A s \in Requests : req[s].op = "commit" => req[s].id \in files
  BY DEF FileInv, IdsKnown, UploadsHold
<1>2. ASSUME NEW q, Becomes(r, q), ReqHolds(q), q.op \notin {"save", "commit", "remove", "enqueue", "prefix"},
             req[r] = Idle, CountStep, UNCHANGED <<db, files, queue, worker>>
      PROVE  FileInv' /\ LeakStep
  <2>1. Known \subseteq Known' /\ Stored' = Stored
    BY <1>2, KnownGrows DEF db, Stored, Exists
  <2>2. FileInv'
    BY <1>0, <1>1, <1>2, <2>1, FileFrame DEF db, queue
  <2>3. ASSUME NEW x \in Leaked'
        PROVE  x \in Leaked
    <3>1. x \in files \ Stored
      BY <1>2, <2>1 DEF Leaked
    <3>2. QED
      BY <1>2, <3>1, LeakPoint DEF Idle
  <2>4. QED
    BY <2>2, <2>3 DEF LeakStep
<1>3. ASSUME NEW f \in Files, UploadStart(r, f)
      PROVE  FileInv' /\ LeakStep
  <2>1. ReqHolds([op |-> "upload", file |-> f])
    BY DEF ReqHolds
  <2>2. CountStep /\ Becomes(r, [op |-> "upload", file |-> f]) /\ req[r] = Idle
    BY <1>3 DEF UploadStart, Asked, CountStep
  <2>3. UNCHANGED <<db, files, queue, worker>>
    BY <1>3 DEF UploadStart
  <2>4. QED
    BY <1>2, <2>1, <2>2, <2>3
<1>4. ASSUME NEW i \in Ids, RetryRead(r, i) \/ ViewReadAgain(r, i)
      PROVE  FileInv' /\ LeakStep
  <2>1. PICK op \in {"retry", "view"} : Becomes(r, [op |-> op, id |-> i])
    BY <1>4 DEF RetryRead, ViewReadAgain
  <2>2. ReqHolds([op |-> op, id |-> i])
    BY <2>1 DEF ReqHolds
  <2>3. CountStep /\ req[r] = Idle /\ UNCHANGED <<db, files, queue, worker>>
    BY <1>4 DEF RetryRead, ViewReadAgain, Asked, CountStep
  <2>4. QED
    BY <1>2, <2>1, <2>2, <2>3
<1>5. ASSUME NEW i \in Ids, DeleteSource(r, i)
      PROVE  FileInv' /\ LeakStep
  <2> DEFINE q == [op |-> "remove", id |-> i]
  <2>1. ReqHolds(q)
    BY DEF ReqHolds
  <2>2. CountStep /\ Becomes(r, q) /\ Cascade({i}) /\ req[r] = Idle /\ Exists(i)
    BY <1>5 DEF DeleteSource, Asked, CountStep
  <2>3. UNCHANGED <<alive, files, queue, worker>>
    BY <1>5 DEF DeleteSource
  <2>4. Stored' = Stored \ {i} /\ Known \subseteq Known' /\ i \in Known'
    <3>1. Stored' = Stored \ {i}
      BY <2>2, CascadeTypes
    <3>2. Known \subseteq Known'
      BY <2>1, <2>2, KnownGrows
    <3>3. i \in Stored
      BY <2>2 DEF Stored
    <3>4. QED
      BY <1>0, <3>1, <3>2, <3>3
  <2>5. FileInv'
    BY <1>0, <1>1, <2>1, <2>2, <2>3, <2>4, FileFrame DEF queue
  <2>6. ASSUME NEW x \in Leaked'
        PROVE  x \in Leaked
    <3>1. x # i
      <4>1. req'[r] = q
        BY <2>1, <2>2, ReqBecomes
      <4>2. QED
        BY <2>6, <4>1 DEF Leaked
    <3>2. x \in files \ Stored
      BY <2>3, <2>4, <2>6, <3>1 DEF Leaked
    <3>3. QED
      BY <2>1, <2>2, <3>2, LeakPoint DEF Idle
  <2>7. QED
    BY <2>5, <2>6 DEF LeakStep
<1>6. CASE DeleteWorkspace(r)
  <2> DEFINE q == [op |-> "prefix"]
  <2>1. ReqHolds(q)
    BY DEF ReqHolds
  <2>2. CountStep /\ Becomes(r, q) /\ Cascade(Ids) /\ alive' = FALSE
    BY <1>6 DEF DeleteWorkspace, Asked, CountStep
  <2>3. UNCHANGED <<files, queue, worker>>
    BY <1>6 DEF DeleteWorkspace
  <2>4. Stored' = {} /\ Known \subseteq Known'
    <3>1. Stored' = Stored \ Ids
      BY <2>2, CascadeTypes
    <3>2. Stored \subseteq Ids
      BY DEF Stored
    <3>3. Known \subseteq Known'
      BY <2>1, <2>2, KnownGrows
    <3>4. QED
      BY <3>1, <3>2, <3>3
  <2>5. FileInv'
    BY <1>0, <1>1, <2>1, <2>2, <2>3, <2>4, FileFrame DEF queue
  <2>6. Leaked' = {}
    <3>1. req'[r] = q
      BY <2>1, <2>2, ReqBecomes
    <3>2. QED
      BY <3>1 DEF Leaked
  <2>7. QED
    BY <2>5, <2>6 DEF LeakStep
<1>7. QED
  BY <1>3, <1>4, <1>5, <1>6 DEF User

(* The rest of a request, from one await to the next.                       *)
LEMMA RequestFiles ==
  ASSUME TypeInv, FileInv, NEW r \in Requests, RequestStep(r) \/ ApiCrash(r)
  PROVE  FileInv' /\ LeakStep
<1> DEFINE i == req[r].id
<1>0. /\ Stored \subseteq files /\ Stored \subseteq Known /\ jobs \subseteq Known
      /\ alive \in BOOLEAN /\ (~alive => Stored = {}) /\ ReqHolds(req[r])
      /\ count \in [id : Ids \cup {0}, faults : 0..MaxFaults, asked : 0..MaxAsked]
      /\ rows \in Rows
  BY DEF TypeInv, TypeOK, FileInv, IdsKnown, RowsKept
<1>1. /\ \A s \in Requests : req[s].op = "remove" => req[s].id \notin Stored
      /\ alive => \A s \in Requests : req[s].op = "commit" => req[s].id \in files
  BY DEF FileInv, IdsKnown, UploadsHold
<1>2. /\ CanFail /\ Fault(1) => CountStep /\ count'.faults = count.faults + 1
      /\ UNCHANGED count => CountStep
  BY <1>0 DEF CountStep, Fault
<1>3. ReqHolds(Idle) /\ Idle.op = "idle"
  BY DEF ReqHolds, Idle
<1>4. UNCHANGED rows => Stored' = Stored
  BY DEF Stored, Exists
<1>5. ASSUME Becomes(r, Idle), CountStep
      PROVE  Known \subseteq Known'
  BY <1>3, <1>5, KnownGrows
<1>6. CASE UploadReserve(r)
  <2>1. UNCHANGED <<db, files, queue, worker>> /\ req[r].op = "upload" /\ Stored' = Stored
    BY <1>4, <1>6 DEF UploadReserve, db
  <2>2. ASSUME NEW q, ReqHolds(q), Becomes(r, q), q.op \in {"idle", "save"}
        PROVE  LeakStep
    <3>1. ASSUME NEW x \in Leaked'
          PROVE  x \in Leaked
      <4>1. x \in files \ Stored
        BY <2>1, <3>1 DEF Leaked
      <4>2. QED
        BY <2>1, <2>2, <3>1, <4>1, LeakPoint
    <3>2. QED
      BY <3>1 DEF LeakStep
  <2>3. CASE Becomes(r, Idle) /\ UNCHANGED count
    <3>1. Known \subseteq Known' /\ CountStep
      BY <1>2, <1>5, <2>3
    <3>2. FileInv'
      BY <1>0, <1>1, <1>3, <2>1, <2>3, <3>1, FileFrame DEF db, queue
    <3>3. QED
      BY <1>3, <2>2, <2>3, <3>2
  <2>4. CASE /\ count.id + 1 \in Ids /\ count' = [count EXCEPT !.id = @ + 1]
             /\ Becomes(r, [op |-> "save", file |-> req[r].file, id |-> count.id + 1])
    <3> DEFINE q == [op |-> "save", file |-> req[r].file, id |-> count.id + 1]
    <3>1. ReqHolds(q) /\ CountStep /\ q.op = "save" /\ q.id = count.id + 1
      BY <1>0, <2>1, <2>4 DEF ReqHolds, CountStep
    <3>2. count'.id = count.id + 1 /\ count'.id \in Nat
      BY <1>0, <2>4, <3>1, CountTypes DEF TypeInv
    <3>3. Known \subseteq Known'
      BY <2>4, <3>1, KnownGrows
    <3>4. \A s \in Requests : ~Uploading(s)
      BY <1>6 DEF UploadReserve, StorageLocked, Uploading
    <3>5. Becomes(r, q)
      BY <2>4
    <3> HIDE DEF q
    <3>6. FileInv'
      BY <1>0, <1>1, <2>1, <3>1, <3>2, <3>3, <3>4, <3>5, FileFrame DEF db, queue
    <3>7. QED
      BY <2>2, <3>1, <3>5, <3>6
  <2>5. QED
    BY <1>6, <2>3, <2>4 DEF UploadReserve
<1>7. CASE UploadSave(r)
  <2>1. UNCHANGED <<db, queue, worker>> /\ req[r].op = "save" /\ Stored' = Stored
    BY <1>4, <1>7 DEF UploadSave, db
  <2>2. CASE Becomes(r, [req[r] EXCEPT !.op = "commit"]) /\ files' = files \cup {i} /\ UNCHANGED count
    <3> DEFINE q == [req[r] EXCEPT !.op = "commit"]
    <3>1. req[r] \in [op : {"save", "commit"}, file : Files, id : Ids]
      BY <1>0, <2>1 DEF ReqHolds
    <3>2. ReqHolds(q) /\ q.op = "commit" /\ q.id = i
      BY <3>1 DEF ReqHolds
    <3>3. CountStep /\ Uploading(r) /\ i <= count'.id /\ Becomes(r, q)
      BY <1>2, <2>1, <2>2 DEF Uploading, FileInv, UploadsHold
    <3> HIDE DEF q
    <3>4. Known \subseteq Known'
      BY <3>2, <3>3, KnownGrows
    <3>5. FileInv'
      BY <1>0, <1>1, <2>1, <2>2, <3>2, <3>3, <3>4, FileFrame DEF db, queue
    <3>6. ASSUME NEW x \in Leaked'
          PROVE  x \in Leaked
      <4>1. req'[r] = q
        BY <3>2, <3>3, ReqBecomes
      <4>2. x \in files \ Stored
        BY <2>1, <2>2, <3>2, <3>6, <4>1 DEF Leaked
      <4>3. QED
        BY <2>1, <3>2, <3>3, <3>6, <4>2, LeakPoint
    <3>7. QED
      BY <3>5, <3>6 DEF LeakStep
  <2>3. CASE Becomes(r, Idle) /\ UNCHANGED files /\ CanFail /\ Fault(1)
    <3>1. FileInv'
      BY <1>0, <1>1, <1>2, <1>3, <1>5, <2>1, <2>3, FileFrame DEF db, queue
    <3>2. ASSUME NEW x \in Leaked'
          PROVE  x \in Leaked
      <4>1. x \in files \ Stored
        BY <2>1, <2>3, <3>2 DEF Leaked
      <4>2. QED
        BY <1>3, <2>1, <2>3, <3>2, <4>1, LeakPoint
    <3>3. QED
      BY <3>1, <3>2 DEF LeakStep
  <2>4. QED
    BY <1>7, <2>2, <2>3 DEF UploadSave
<1>8. CASE UploadCommit(r)
  <2>1. /\ UNCHANGED <<texts, chunks, requests, alive, files, queue, worker>> /\ req[r].op = "commit"
        /\ CountStep /\ i \in Ids
    BY <1>0, <1>2, <1>8 DEF UploadCommit, ReqHolds
  <2>2. i \notin Known /\ Uploading(r) /\ i <= count.id
    BY <2>1 DEF Known, Uploading, FileInv, UploadsHold
  <2>3. \A s \in Requests : s # r => ~Uploading(s)
    BY <2>2 DEF FileInv, UploadsHold
  <2>4. \A q : Becomes(r, q) /\ ReqHolds(q) /\ q.op \in {"enqueue", "remove"} =>
                 Known \subseteq Known' /\ i \in Known'
    <3>1. ASSUME NEW q, Becomes(r, q), ReqHolds(q), q.op \in {"enqueue", "remove"}
          PROVE  Known \subseteq Known' /\ i \in Known'
      <4>1. Known \subseteq Known'
        BY <2>1, <3>1, KnownGrows
      <4>2. \A s \in Requests : ~Uploading(s)'
        BY <2>3, <3>1, ReqBecomes DEF Uploading
      <4>3. i \in Nat /\ count.id \in Nat /\ count'.id \in Nat /\ count.id <= count'.id
        BY <2>1, CountTypes, SourcesAssumption DEF TypeInv
      <4>4. i <= count'.id
        BY <2>2, <4>3
      <4>5. QED
        BY <2>1, <4>1, <4>2, <4>4 DEF Known
    <3>2. QED
      BY <3>1
  <2>5. \A s \in Requests : req[s].op = "remove" => req[s].id \in Known
    BY DEF FileInv, IdsKnown
  <2>6. CASE /\ alive /\ rows' = [rows EXCEPT ![i] = NewSource(req[r].file)]
             /\ Becomes(r, [op |-> "enqueue", id |-> i])
    <3> DEFINE q == [op |-> "enqueue", id |-> i]
    <3>1. ReqHolds(q) /\ q.op = "enqueue" /\ q.id = i /\ Becomes(r, q)
      BY <2>1, <2>6 DEF ReqHolds
    <3> HIDE DEF q
    <3>2. Stored' = Stored \cup {i} /\ i \in files
      <4>1. NewSource(req[r].file) # NoRow
        BY DEF NewSource, NoRow
      <4>2. Stored' = Stored \cup {i}
        BY <1>0, <2>1, <2>6, <4>1 DEF Rows, Stored, Exists
      <4>3. QED
        BY <1>1, <2>1, <2>6, <4>2
    <3>3. Known \subseteq Known' /\ i \in Known'
      BY <2>4, <3>1
    <3>4. FileInv'
      BY <1>0, <1>1, <2>1, <2>2, <2>5, <2>6, <3>1, <3>2, <3>3, FileFrame DEF queue
    <3>5. ASSUME NEW x \in Leaked'
          PROVE  x \in Leaked
      <4>1. x \in files \ Stored /\ x # i
        BY <2>1, <3>2, <3>5 DEF Leaked
      <4>2. QED
        BY <2>1, <3>1, <3>5, <4>1, LeakPoint
    <3>6. QED
      BY <3>4, <3>5 DEF LeakStep
  <2>7. CASE UNCHANGED rows /\ Becomes(r, [op |-> "remove", id |-> i])
    <3> DEFINE q == [op |-> "remove", id |-> i]
    <3>1. ReqHolds(q) /\ q.op = "remove" /\ q.id = i /\ Becomes(r, q)
      BY <2>1, <2>7 DEF ReqHolds
    <3> HIDE DEF q
    <3>2. Stored' = Stored /\ i \notin Stored
      BY <1>0, <1>4, <2>2, <2>7
    <3>3. Known \subseteq Known' /\ i \in Known'
      BY <2>4, <3>1
    <3>4. FileInv'
      BY <1>0, <1>1, <2>1, <3>1, <3>2, <3>3, FileFrame DEF queue
    <3>5. ASSUME NEW x \in Leaked'
          PROVE  x \in Leaked
      <4>1. req'[r] = q
        BY <3>1, ReqBecomes
      <4>2. x \in files \ Stored /\ x # i
        BY <2>1, <3>1, <3>2, <3>5, <4>1 DEF Leaked
      <4>3. QED
        BY <2>1, <3>1, <3>5, <4>2, LeakPoint
    <3>6. QED
      BY <3>4, <3>5 DEF LeakStep
  <2>8. QED
    BY <1>8, <2>6, <2>7 DEF UploadCommit
<1>9. CASE RemoveFile(r)
  <2>1. UNCHANGED <<db, queue, worker>> /\ Becomes(r, Idle) /\ req[r].op = "remove" /\ Stored' = Stored
    BY <1>4, <1>9 DEF RemoveFile, db
  <2>2. (files' = files \ {i} /\ UNCHANGED count) \/ (CanFail /\ Fault(1) /\ UNCHANGED files)
    BY <1>9 DEF RemoveFile
  <2>3. i \notin Stored /\ i \in Known /\ CountStep
    BY <1>1, <1>2, <2>1, <2>2 DEF FileInv, IdsKnown
  <2>4. alive => \A s \in Requests : req[s].op = "commit" => req[s].id \in files'
    BY <1>1, <2>2, <2>3 DEF Known, Uploading
  <2>5. FileInv'
    BY <1>0, <1>1, <1>3, <1>5, <2>1, <2>2, <2>3, <2>4, FileFrame DEF db, queue
  <2>6. ASSUME NEW x \in Leaked'
        PROVE  x \in Leaked \/ (x = i /\ i \in files')
    <3>1. x \in files \ Stored /\ x \in files'
      BY <2>1, <2>2, <2>6 DEF Leaked
    <3>2. QED
      BY <1>3, <2>1, <2>6, <3>1, LeakPoint
  <2>7. LeakStep
    <3>1. Leaked' \subseteq Leaked \cup {i}
      BY <2>6
    <3>2. i \notin files' => Leaked' \subseteq Leaked
      BY <2>6
    <3>3. QED
      BY <1>2, <2>2, <3>1, <3>2 DEF LeakStep
  <2>8. QED
    BY <2>5, <2>7
<1>10. CASE DeleteWorkspaceFiles(r)
  <2>1. /\ UNCHANGED <<db, queue, worker>> /\ Becomes(r, Idle) /\ req[r].op = "prefix"
        /\ Stored' = Stored /\ ~alive /\ ~alive'
    BY <1>4, <1>10 DEF DeleteWorkspaceFiles, db, FileInv, IdsKnown
  <2>2. (files' = {} /\ UNCHANGED count) \/ (CanFail /\ Fault(1) /\ UNCHANGED files)
    BY <1>10 DEF DeleteWorkspaceFiles
  <2>3. FileInv'
    BY <1>0, <1>1, <1>2, <1>3, <1>5, <2>1, <2>2, FileFrame DEF db, queue
  <2>4. LeakStep
    BY <1>2, <2>1, <2>2 DEF LeakStep, Leaked
  <2>5. QED
    BY <2>3, <2>4
<1>11. CASE ApiCrash(r)
  <2>1. UNCHANGED <<db, files, queue, worker>> /\ Becomes(r, Idle) /\ Stored' = Stored /\ CanFail /\ Fault(1)
    BY <1>4, <1>11 DEF ApiCrash, db
  <2>2. FileInv'
    BY <1>0, <1>1, <1>2, <1>3, <1>5, <2>1, FileFrame DEF db, queue
  <2>3. ASSUME NEW x \in Leaked'
        PROVE  x \in Leaked \/ x = i \/ ~alive'
    <3>1. x \in files \ Stored
      BY <2>1, <2>3 DEF Leaked
    <3>2. req[r].op = "prefix" => ~alive'
      BY <2>1 DEF FileInv, IdsKnown, db
    <3>3. QED
      BY <1>3, <2>1, <2>3, <3>1, <3>2, LeakPoint
  <2>4. ~alive' \/ Leaked' \subseteq Leaked \cup {i}
    BY <2>3
  <2>5. QED
    BY <1>2, <2>1, <2>2, <2>4 DEF LeakStep
<1>12. ASSUME NEW q, Becomes(r, q), ReqHolds(q), q.op \in {"idle", "enqueue"},
              q.op = "enqueue" => q.id \in Known,
              req[r].op \notin {"prefix", "commit", "remove"}, Stored' = Stored,
              UNCHANGED <<alive, files, swept, worker, count>>, jobs' \subseteq Known
       PROVE  FileInv' /\ LeakStep
  <2>1. CountStep /\ Known \subseteq Known'
    BY <1>2, <1>12, KnownGrows
  <2>2. FileInv'
    BY <1>0, <1>1, <1>12, <2>1, FileFrame
  <2>3. ASSUME NEW x \in Leaked'
        PROVE  x \in Leaked
    <3>1. x \in files \ Stored
      BY <1>12, <2>3 DEF Leaked
    <3>2. QED
      BY <1>12, <2>3, <3>1, LeakPoint
  <2>4. QED
    BY <2>2, <2>3 DEF LeakStep
<1>13. CASE Enqueue(r)
  <2>1. /\ Becomes(r, Idle) /\ Stored' = Stored /\ req[r].op = "enqueue" /\ i \in Known
        /\ UNCHANGED <<alive, files, swept, worker>>
    BY <1>4, <1>13 DEF Enqueue, db, FileInv, IdsKnown
  <2>2. CASE jobs' = jobs \cup {i} /\ UNCHANGED count
    BY <1>0, <1>3, <1>12, <2>1, <2>2
  <2>3. CASE CanFail /\ Fault(1) /\ UNCHANGED jobs
    <3>1. FileInv'
      BY <1>0, <1>1, <1>2, <1>3, <1>5, <2>1, <2>3, FileFrame
    <3>2. ASSUME NEW x \in Leaked'
          PROVE  x \in Leaked
      <4>1. x \in files \ Stored
        BY <2>1, <3>2 DEF Leaked
      <4>2. QED
        BY <1>3, <2>1, <3>2, <4>1, LeakPoint
    <3>3. QED
      BY <3>1, <3>2 DEF LeakStep
  <2>4. QED
    BY <1>13, <2>2, <2>3 DEF Enqueue, EnqueueSource
<1>14. CASE RetryCommit(r)
  <2>1. req[r].op = "retry" /\ UNCHANGED <<alive, files, queue, worker, count>> /\ i \in Ids
    BY <1>0, <1>14 DEF RetryCommit, ReqHolds
  <2>2. CASE ~Exists(i)
    <3>1. Becomes(r, Idle) /\ Stored' = Stored
      BY <1>4, <1>14, <2>2 DEF RetryCommit
    <3>2. QED
      BY <1>0, <1>3, <1>12, <2>1, <3>1 DEF queue
  <2>3. CASE Exists(i)
    <3>1. /\ Becomes(r, [op |-> "enqueue", id |-> i])
          /\ rows' = [rows EXCEPT ![i].status = "pending", ![i].error = "none", ![i].old = FALSE]
      BY <1>14, <2>3 DEF RetryCommit
    <3>2. Stored' = Stored
      <4>1. "pending" \in Statuses /\ "none" \in Errors
        BY DEF Statuses, Errors
      <4>2. QED
        BY <1>0, <2>1, <2>3, <3>1, <4>1, RowUpdates
    <3>3. ReqHolds([op |-> "enqueue", id |-> i]) /\ i \in Known
      BY <1>0, <2>1, <2>3 DEF ReqHolds, Stored
    <3>4. QED
      BY <1>0, <1>12, <2>1, <3>1, <3>2, <3>3 DEF queue
  <2>4. QED
    BY <2>2, <2>3
<1>15. CASE ViewStoreText(r)
  <2>1. /\ Becomes(r, Idle) /\ req[r].op = "view" /\ UNCHANGED <<alive, files, queue, worker, count>>
        /\ Stored' = Stored
    BY <1>4, <1>15 DEF ViewStoreText
  <2>2. QED
    BY <1>0, <1>3, <1>12, <2>1 DEF queue
<1>16. QED
  BY <1>6, <1>7, <1>8, <1>9, <1>10, <1>11, <1>13, <1>14, <1>15 DEF RequestStep

(* What runs and the system do leaves files and ids as they are.            *)
LEMMA BackgroundFiles ==
  ASSUME TypeInv, FileInv, (\E w \in Workers : \E q : RunChanges(w, q)) \/ SystemChanges
  PROVE  /\ FileInv' /\ Leaked' = Leaked /\ alive' = alive
         /\ \A v \in Workers : worker'[v].pc # "idle" =>
              \/ worker'[v] = worker[v]
              \/ worker[v].pc # "idle" /\ worker'[v].id = worker[v].id
              \/ worker[v].pc = "idle" /\ worker'[v].pc = "begin" /\ Runs(worker'[v].id) = {}
<1>1. UNCHANGED <<req, files, alive>> /\ Stored' = Stored /\ count'.id = count.id
  BY DEF RunChanges, SystemChanges
<1>2. Known' = Known /\ Leaked' = Leaked
  BY <1>1 DEF Known, Leaked, Uploading
<1>3. jobs' \subseteq Known /\ swept' \subseteq Known
  BY DEF RunChanges, SystemChanges, FileInv, IdsKnown
<1>4. ASSUME NEW v \in Workers, worker'[v].pc # "idle"
      PROVE  /\ worker'[v].id \in Known
             /\ \/ worker'[v] = worker[v]
                \/ worker[v].pc # "idle" /\ worker'[v].id = worker[v].id
                \/ worker[v].pc = "idle" /\ worker'[v].pc = "begin" /\ Runs(worker'[v].id) = {}
  <2>1. worker[v].pc # "idle" => worker[v].id \in Known
    BY DEF FileInv, IdsKnown
  <2>2. ASSUME NEW w \in Workers, NEW q, RunChanges(w, q)
        PROVE  /\ worker'[v].id \in Known
               /\ worker'[v] = worker[v] \/ (worker[v].pc # "idle" /\ worker'[v].id = worker[v].id)
    <3>1. worker'[w] = q /\ \A u \in Workers : u # w => worker'[u] = worker[u]
      BY <2>2, RunMoves DEF RunChanges
    <3>2. QED
      BY <1>4, <2>1, <2>2, <3>1 DEF RunChanges
  <2>3. ASSUME NEW w \in Workers, NEW i \in Ids, Starts(w, i)
        PROVE  /\ worker'[v].id \in Known
               /\ \/ worker'[v] = worker[v]
                  \/ worker[v].pc = "idle" /\ worker'[v].pc = "begin" /\ Runs(worker'[v].id) = {}
    <3> DEFINE q == [pc |-> "begin", model |-> worker[w].model, id |-> i]
    <3>1. RunHolds(q)
      BY DEF TypeInv, RunHolds, Reading, Embedding
    <3>2. worker'[w] = q /\ \A u \in Workers : u # w => worker'[u] = worker[u]
      BY <2>3, <3>1, RunMoves DEF Starts
    <3>3. i \in Known
      BY <2>3 DEF Starts, FileInv, IdsKnown
    <3>4. QED
      BY <1>4, <2>1, <2>3, <3>2, <3>3 DEF Starts
  <2>4. CASE UNCHANGED worker
    BY <1>4, <2>1, <2>4
  <2>5. QED
    BY <2>2, <2>3, <2>4 DEF SystemChanges
<1>5. UploadsHold'
  BY <1>1 DEF FileInv, UploadsHold, Uploading
<1>6. IdsKnown'
  BY <1>1, <1>2, <1>3, <1>4 DEF FileInv, IdsKnown
<1>7. RowsKept'
  BY <1>1 DEF FileInv, RowsKept
<1>8. QED
  BY <1>1, <1>2, <1>4, <1>5, <1>6, <1>7 DEF FileInv

(* Every fault leaves at most one file behind, unless the whole workspace   *)
(* is gone.                                                                 *)
LEMMA LeaksStayCounted ==
  ASSUME TypeInv, FileInv, LeaksCounted, LeakStep, CountStep, alive' => alive,
         IsFiniteSet(files')
  PROVE  LeaksCounted'
<1>1. /\ count.faults \in Nat /\ count'.faults \in Nat /\ count.faults <= count'.faults
  <2>1. count' \in [id : Ids \cup {0}, faults : 0..MaxFaults, asked : 0..MaxAsked]
        /\ count.faults <= count'.faults
    BY CountTypes DEF TypeInv
  <2>2. count \in [id : Ids \cup {0}, faults : 0..MaxFaults, asked : 0..MaxAsked]
    BY DEF TypeInv, TypeOK
  <2>3. QED
    BY <2>1, <2>2
<1>2. IsFiniteSet(Leaked')
  <2>1. Leaked' \subseteq files'
    BY DEF Leaked
  <2>2. QED
    BY <2>1, FS_Subset
<1>0. IsFiniteSet(Leaked)
  <2>1. Leaked \subseteq files
    BY DEF Leaked
  <2>2. QED
    BY <2>1, FS_Subset DEF LeaksCounted
<1>3. CASE Leaked' \subseteq Leaked
  <2>1. Cardinality(Leaked') <= Cardinality(Leaked) /\ Cardinality(Leaked) \in Nat
        /\ Cardinality(Leaked') \in Nat
    BY <1>0, <1>2, <1>3, FS_Subset, FS_CardinalityType
  <2>2. QED
    BY <1>1, <1>2, <1>3, <2>1 DEF LeaksCounted
<1>4. CASE count'.faults = count.faults + 1 /\ ~alive'
  BY <1>1, <1>2, <1>4 DEF LeaksCounted
<1>5. ASSUME NEW x, Leaked' \subseteq Leaked \cup {x}, count'.faults = count.faults + 1, alive'
      PROVE  LeaksCounted'
  <2>1. /\ IsFiniteSet(Leaked \cup {x}) /\ Cardinality(Leaked \cup {x}) <= Cardinality(Leaked) + 1
        /\ Cardinality(Leaked) \in Nat /\ Cardinality(Leaked) <= count.faults
    <3>1. Cardinality(Leaked) \in Nat
      BY <1>0, FS_CardinalityType
    <3>2. Cardinality(Leaked) <= count.faults
      BY <1>5 DEF LeaksCounted
    <3>3. /\ IsFiniteSet(Leaked \cup {x})
          /\ Cardinality(Leaked \cup {x}) \in {Cardinality(Leaked), Cardinality(Leaked) + 1}
      BY <1>0, FS_AddElement
    <3>4. QED
      BY <3>1, <3>2, <3>3
  <2>2. Cardinality(Leaked') <= Cardinality(Leaked \cup {x})
        /\ Cardinality(Leaked') \in Nat /\ Cardinality(Leaked \cup {x}) \in Nat
    BY <1>2, <1>5, <2>1, FS_Subset, FS_CardinalityType
  <2>3. Cardinality(Leaked') <= count'.faults /\ count'.faults # 0
    BY <1>1, <1>5, <2>1, <2>2
  <2>4. QED
    BY <1>2, <2>3 DEF LeaksCounted
<1>6. QED
  BY <1>3, <1>4, <1>5 DEF LeakStep

(* A step saves one file or none, and a deleted workspace does not return.  *)
LEMMA FilesFinite ==
  ASSUME TypeInv, [Next]_vars, IsFiniteSet(files)
  PROVE  IsFiniteSet(files') /\ CountStep /\ (alive' => alive)
<1>1. CASE UNCHANGED vars
  BY <1>1 DEF vars, CountStep
<1>2. CASE (\E w \in Workers : \E q : RunChanges(w, q)) \/ SystemChanges
  BY <1>2 DEF RunChanges, SystemChanges
<1>3. ASSUME NEW r \in Requests, UploadSave(r) \/ RemoveFile(r) \/ DeleteWorkspaceFiles(r)
      PROVE  IsFiniteSet(files') /\ CountStep /\ (alive' => alive)
  <2>1. CountStep /\ alive' = alive
    BY <1>3 DEF UploadSave, RemoveFile, DeleteWorkspaceFiles, db, CountStep
  <2>2. \/ files' = files \cup {req[r].id} \/ files' \subseteq files
    BY <1>3 DEF UploadSave, RemoveFile, DeleteWorkspaceFiles
  <2>3. QED
    BY <2>1, <2>2, FS_AddElement, FS_Subset
<1>4. ASSUME NEW r \in Requests, User(r)
      PROVE  IsFiniteSet(files') /\ CountStep /\ (alive' => alive)
  <2>1. CountStep
    BY <1>4 DEF User, UploadStart, RetryRead, ViewReadAgain, DeleteSource, DeleteWorkspace, Asked,
       CountStep
  <2>2. UNCHANGED files /\ (alive' = alive \/ alive' = FALSE)
    BY <1>4 DEF User, UploadStart, RetryRead, ViewReadAgain, DeleteSource, DeleteWorkspace, db
  <2>3. QED
    BY <2>1, <2>2
<1>5. ASSUME NEW r \in Requests,
             \/ UploadReserve(r) \/ UploadCommit(r) \/ Enqueue(r) \/ RetryCommit(r)
             \/ ViewStoreText(r) \/ ApiCrash(r)
      PROVE  IsFiniteSet(files') /\ CountStep /\ (alive' => alive)
  <2>1. CountStep
    BY <1>5 DEF UploadReserve, UploadCommit, Enqueue, RetryCommit, ViewStoreText, ApiCrash, CountStep
  <2>2. UNCHANGED <<files, alive>>
    BY <1>5 DEF UploadReserve, UploadCommit, Enqueue, RetryCommit, ViewStoreText, ApiCrash, db
  <2>3. QED
    BY <2>1, <2>2
<1>6. QED
  BY <1>1, <1>2, <1>3, <1>4, <1>5, NextCases DEF RequestStep

(* Every step keeps the files in order.                                     *)
LEMMA NextFiles ==
  ASSUME TypeInv, FileInv, LeaksCounted, [Next]_vars
  PROVE  FileInv' /\ LeaksCounted'
<1>1. CASE UNCHANGED vars
  <2>1. UNCHANGED <<rows, files, jobs, swept, worker, req, alive, count>>
    BY <1>1 DEF vars
  <2>2. Stored' = Stored /\ Known' = Known /\ Leaked' = Leaked
    BY <2>1 DEF Stored, Exists, Known, Leaked, Uploading
  <2>3. QED
    BY <2>1, <2>2 DEF FileInv, UploadsHold, Uploading, IdsKnown, RowsKept, LeaksCounted
<1>2. CASE ~UNCHANGED vars
  <2>1. FileInv' /\ LeakStep
    BY <1>2, NextCases, UserFiles, RequestFiles, BackgroundFiles DEF LeakStep
  <2>2. QED
    BY <2>1, FilesFinite, LeaksStayCounted DEF LeaksCounted
<1>3. QED
  BY <1>1, <1>2

-----------------------------------------------------------------------------
(* Passages.                                                                *)

(* What a request does to a source: nothing, or it removes it with all of   *)
(* its passages, or it sets it to work, a new one or one that was there.    *)
LEMMA RequestRows ==
  ASSUME TypeInv, FileInv, NEW r \in Requests, User(r) \/ RequestStep(r) \/ ApiCrash(r),
         NEW i \in Ids
  PROVE  /\ UNCHANGED worker
         /\ \/ rows'[i] = rows[i] /\ chunks'[i] = chunks[i]
            \/ rows'[i] = NoRow /\ chunks'[i] = [c \in Passages |-> None]
            \/ /\ chunks'[i] = chunks[i] /\ rows'[i].status = "pending"
               /\ i \in Known => Exists(i)
<1>0. rows \in Rows /\ ReqHolds(req[r])
  BY DEF TypeInv
<1>1. ASSUME NEW j, DeleteSource(r, j)
      PROVE  /\ UNCHANGED worker
             /\ \/ rows'[i] = rows[i] /\ chunks'[i] = chunks[i]
                \/ rows'[i] = NoRow /\ chunks'[i] = [c \in Passages |-> None]
  BY <1>1 DEF DeleteSource, Cascade
<1>2. CASE DeleteWorkspace(r)
  BY <1>2 DEF DeleteWorkspace, Cascade
<1>3. CASE UploadCommit(r)
  <2>1. req[r].id \in Ids /\ req[r].id \notin Known
    BY <1>0, <1>3 DEF UploadCommit, ReqHolds, Known, Uploading
  <2>2. UNCHANGED <<chunks, worker>>
    BY <1>3 DEF UploadCommit
  <2>3. rows' = rows \/ rows' = [rows EXCEPT ![req[r].id] = NewSource(req[r].file)]
    BY <1>3 DEF UploadCommit
  <2>4. rows'[i] = rows[i] \/ (i = req[r].id /\ rows'[i].status = "pending")
    BY <1>0, <2>1, <2>3 DEF Rows, NewSource
  <2>5. QED
    BY <2>1, <2>2, <2>4
<1>4. CASE RetryCommit(r)
  <2>1. UNCHANGED <<chunks, worker>> /\ req[r].id \in Ids
    BY <1>0, <1>4 DEF RetryCommit, ReqHolds
  <2>2. CASE Exists(req[r].id)
    <3>1. rows' = [rows EXCEPT ![req[r].id].status = "pending", ![req[r].id].error = "none",
                               ![req[r].id].old = FALSE]
      BY <1>4, <2>2 DEF RetryCommit
    <3>2. "pending" \in Statuses /\ "none" \in Errors
      BY DEF Statuses, Errors
    <3>3. rows'[req[r].id].status = "pending" /\ \A j \in Ids : j # req[r].id => rows'[j] = rows[j]
      BY <1>0, <2>1, <2>2, <3>1, <3>2, RowUpdates
    <3>4. QED
      BY <2>1, <2>2, <3>3
  <2>3. CASE ~Exists(req[r].id)
    BY <1>4, <2>1, <2>3 DEF RetryCommit
  <2>4. QED
    BY <2>2, <2>3
<1>5. ASSUME \/ \E f \in Files : UploadStart(r, f)
             \/ \E j \in Ids : RetryRead(r, j) \/ ViewReadAgain(r, j)
             \/ UploadReserve(r) \/ UploadSave(r) \/ RemoveFile(r) \/ Enqueue(r)
             \/ ViewStoreText(r) \/ DeleteWorkspaceFiles(r) \/ ApiCrash(r)
      PROVE  UNCHANGED <<rows, chunks, worker>>
  BY <1>5 DEF UploadStart, RetryRead, ViewReadAgain, UploadReserve, UploadSave, RemoveFile, Enqueue,
     ViewStoreText, DeleteWorkspaceFiles, ApiCrash, db
<1>6. QED
  BY <1>1, <1>2, <1>3, <1>4, <1>5 DEF User, RequestStep

(* A request leaves what runs rely on, and what a ready source has.         *)
LEMMA RequestChunks ==
  ASSUME TypeInv, FileInv, ChunkInv, NEW r \in Requests, User(r) \/ RequestStep(r) \/ ApiCrash(r)
  PROVE  ChunkInv'
<1>1. UNCHANGED worker
  <2>1. 1 \in Ids
    BY SourcesAssumption
  <2>2. QED
    BY <2>1, RequestRows
<1>2. ASSUME NEW i \in Ids
      PROVE  RowSound(i)'
  <2>0. RowSound(i)
    BY DEF ChunkInv
  <2>1. CASE rows'[i] = rows[i] /\ chunks'[i] = chunks[i]
    BY <2>0, <2>1 DEF RowSound, Exists, Whole
  <2>2. CASE rows'[i] = NoRow /\ chunks'[i] = [c \in Passages |-> None]
    BY <2>2 DEF RowSound, Exists
  <2>3. CASE chunks'[i] = chunks[i] /\ rows'[i].status = "pending" 
    <3>1. rows'[i] # NoRow
      BY <2>3 DEF NoRow
    <3>2. QED
      BY <2>3, <3>1 DEF RowSound, Exists
  <2>4. QED
    BY <2>1, <2>2, <2>3, RequestRows
<1>3. ASSUME NEW w \in Workers
      PROVE  RunSound(worker[w])'
  <2> DEFINE i == worker[w].id
  <2>0. RunSound(worker[w])
    BY DEF ChunkInv
  <2>1. CASE worker[w].pc = "idle"
    BY <1>1, <2>1 DEF RunSound
  <2>2. CASE worker[w].pc # "idle"
    <3>1. i \in Known /\ i \in Ids
      BY <2>2 DEF FileInv, IdsKnown, Known
    <3>2. CASE rows'[i] = rows[i] /\ chunks'[i] = chunks[i]
      BY <1>1, <2>0, <3>2 DEF RunSound, Exists, Whole
    <3>3. CASE rows'[i] = NoRow
      BY <1>1, <3>3 DEF RunSound, Exists
    <3>4. CASE chunks'[i] = chunks[i] /\ rows'[i].status = "pending" /\ Exists(i)
      BY <1>1, <2>0, <3>4 DEF RunSound, Whole
    <3>5. QED
      BY <3>1, <3>2, <3>3, <3>4, RequestRows
  <2>3. QED
    BY <2>1, <2>2
<1>4. OneRun'
  BY <1>1 DEF ChunkInv, OneRun
<1>5. QED
  BY <1>2, <1>3, <1>4 DEF ChunkInv

(* What a run leaves of its own source.                                     *)
OwnSound(w, i) == RunSound(worker[w])' /\ RowSound(i)'

(* A run that embeds goes on with sound passages.                           *)
LEMMA EmbedNextSound ==
  ASSUME TypeInv, NEW w \in Workers, worker[w].id \in Ids, NEW left \in SUBSET Passages,
         EmbedNext(w, left),
         rows'[worker[w].id] # NoRow =>
           /\ rows'[worker[w].id].status # "ready"
           /\ \A c \in Passages \ left : chunks'[worker[w].id][c] = worker[w].model
  PROVE  RunSound(worker[w])'
<1>0. worker = [v \in Workers |-> worker[v]]
  BY DEF TypeInv
<1>1. CASE left = {}
  <2>1. worker'[w] = [pc |-> "finish", model |-> worker[w].model, id |-> worker[w].id, error |-> "none"]
    BY <1>0, <1>1 DEF EmbedNext, Ends, Moves
  <2>2. QED
    BY <1>1, <2>1 DEF RunSound, Embedding, Whole, Exists
<1>2. CASE left # {}
  <2>1. worker'[w] = [pc |-> "record", model |-> worker[w].model, id |-> worker[w].id,
                      left |-> left, attempt |-> 0]
    BY <1>0, <1>2 DEF EmbedNext, Moves
  <2>2. QED
    BY <2>1 DEF RunSound, Embedding, Exists
<1>3. QED
  BY <1>1, <1>2

(* A run keeps to itself and its source what the invariant says of them.    *)
LEMMA OwnRun ==
  ASSUME TypeInv, ChunkInv, NEW w \in Workers, RunStep(w) \/ WorkerCrash(w),
         NEW i \in Ids, i = worker[w].id, NEW m \in Models, m = worker[w].model
  PROVE  OwnSound(w, i)
<1>0. /\ rows \in Rows /\ chunks \in Chunks /\ RunHolds(worker[w])
      /\ worker = [v \in Workers |-> worker[v]] /\ RunSound(worker[w])
  BY DEF TypeInv, TypeOK, Chunks, RunHolds, ChunkInv
<1>2. RowSound(i)
  BY DEF ChunkInv
<1>3. ASSUME UNCHANGED <<rows, chunks>>, RunSound(worker[w])'
      PROVE  OwnSound(w, i)
  BY <1>2, <1>3 DEF OwnSound, RowSound, Exists, Whole
<1>4. ASSUME worker'[w].pc = "idle"
      PROVE  RunSound(worker[w])'
  BY <1>4 DEF RunSound
<1>5. JobEnds(w) => worker'[w].pc = "idle"
  BY <1>0 DEF JobEnds, Moves, NoRun
<1>6. ASSUME NEW e, e # "none", Ends(w, e), UNCHANGED <<rows, chunks>>,
             worker[w].pc \notin {"idle", "begin"}
      PROVE  RunSound(worker[w])'
  <2>1. worker'[w] = [pc |-> "finish", model |-> m, id |-> i, error |-> e]
    BY <1>0, <1>6 DEF Ends, Moves
  <2>2. QED
    BY <1>0, <1>6, <2>1 DEF RunSound, Embedding, Exists
<1>7. CASE Begin(w)
  <2>1. UNCHANGED chunks /\ worker[w].pc = "begin"
    BY <1>7 DEF Begin
  <2>2. CASE JobEnds(w) /\ UNCHANGED rows
    BY <1>3, <1>4, <1>5, <2>1, <2>2
  <2>3. CASE /\ Exists(i)
             /\ rows' = [rows EXCEPT ![i].status = "processing", ![i].error = "none", ![i].old = FALSE]
             /\ Moves(w, [pc |-> "read", model |-> m, id |-> i, file |-> rows[i].file])
    <3>1. "processing" \in Statuses /\ "none" \in Errors
      BY DEF Statuses, Errors
    <3>2. rows'[i].status = "processing"
      <4>1. Exists(i) /\ rows' = [rows EXCEPT ![i].status = "processing", ![i].error = "none",
                                              ![i].old = FALSE]
        BY <2>3
      <4>2. rows \in Rows /\ FALSE \in BOOLEAN
        BY <1>0
      <4>3. QED
        BY <3>1, <4>1, <4>2, RowUpdates
    <3>3. worker'[w] = [pc |-> "read", model |-> m, id |-> i, file |-> rows[i].file]
      BY <1>0, <2>3 DEF Moves
    <3>4. RunSound(worker[w])'
      BY <3>2, <3>3 DEF RunSound, Embedding
    <3>5. rows'[i] # NoRow
      BY <3>2 DEF NoRow
    <3>6. QED
      BY <3>2, <3>4, <3>5 DEF OwnSound, RowSound, Exists
  <2>4. QED
    BY <1>7, <2>2, <2>3 DEF Begin
<1>8. ASSUME NEW pc \in {"store", "keep"}, worker[w].pc \in Reading, Moves(w, At(w, pc)),
             UNCHANGED <<rows, chunks>>
      PROVE  RunSound(worker[w])'
  <2>1. worker[w] \in [pc : Reading, model : Models, id : Ids, file : Files]
    BY <1>0, <1>8 DEF RunHolds
  <2>2. worker'[w].pc = pc /\ worker'[w].id = i
    BY <1>0, <1>8, <2>1 DEF Moves, At
  <2>3. QED
    BY <1>0, <1>8, <2>2 DEF RunSound, Reading, Embedding, Exists
<1>9. CASE ReadFile(w)
  <2>1. worker[w].pc = "read" /\ UNCHANGED <<rows, chunks>>
    BY <1>9 DEF ReadFile, db
  <2>2. Moves(w, At(w, "store")) \/ \E e : e # "none" /\ Ends(w, e)
    BY <1>9 DEF ReadFile
  <2>3. QED
    BY <1>3, <1>6, <1>8, <2>1, <2>2 DEF Reading
<1>10. CASE KeepText(w)
  <2>1. worker[w].pc = "store" /\ UNCHANGED <<rows, chunks>>
    BY <1>10 DEF KeepText
  <2>2. Moves(w, At(w, "keep")) \/ JobEnds(w)
    BY <1>10 DEF KeepText
  <2>3. QED
    BY <1>3, <1>4, <1>5, <1>8, <2>1, <2>2 DEF Reading
<1>11. CASE KeepReusable(w)
  <2>1. /\ worker[w].pc = "keep" /\ UNCHANGED rows /\ EmbedNext(w, Passages \ Reusable(w))
        /\ chunks' = [chunks EXCEPT ![i] = [c \in Passages |->
                        IF c \in Reusable(w) THEN chunks[i][c] ELSE None]]
    BY <1>11 DEF KeepReusable
  <2>2. \A c \in Passages : /\ c \in Reusable(w) => chunks[i][c] = m
                            /\ chunks'[i][c] = IF c \in Reusable(w) THEN chunks[i][c] ELSE None
    BY <1>0, <2>1 DEF Chunks, Reusable
  <2>3. Exists(i)' => Exists(i) /\ rows'[i].status # "ready"
    BY <1>0, <2>1 DEF RunSound, Exists
  <2>4. RunSound(worker[w])'
    <3>1. Passages \ Reusable(w) \in SUBSET Passages
      OBVIOUS
    <3>2. \A c \in Passages \ (Passages \ Reusable(w)) : chunks'[i][c] = m
      BY <2>2
    <3>3. QED
      <4>1. EmbedNext(w, Passages \ Reusable(w))
        BY <2>1
      <4>2. rows'[worker[w].id] # NoRow => Exists(i)'
        BY DEF Exists
      <4>3. QED
        BY <2>3, <3>1, <3>2, <4>1, <4>2, EmbedNextSound
  <2>5. rows' = rows /\ (Exists(i) => rows[i].status # "ready")
    BY <2>1, <2>3 DEF Exists
  <2>6. ~Exists(i) => \A c \in Passages : chunks'[i][c] = None
    BY <1>2, <2>2 DEF RowSound
  <2>7. QED
    BY <2>4, <2>5, <2>6 DEF OwnSound, RowSound, Exists
<1>12. ASSUME NEW pc \in Embedding, worker[w].pc \in Embedding, UNCHANGED <<rows, chunks>>,
              NEW a \in Nat, Moves(w, [At(w, pc) EXCEPT !.attempt = a]) \/ Moves(w, At(w, pc))
       PROVE  RunSound(worker[w])'
  <2>1. worker[w] \in [pc : Embedding, model : Models, id : Ids, left : SUBSET Passages, attempt : Nat]
    BY <1>0, <1>12 DEF RunHolds
  <2>2. At(w, pc) \in [pc : Embedding, model : Models, id : Ids, left : SUBSET Passages, attempt : Nat]
        /\ At(w, pc).pc = pc /\ At(w, pc).id = i /\ At(w, pc).left = worker[w].left
        /\ At(w, pc).model = m
    BY <1>12, <2>1 DEF At
  <2>3. /\ worker'[w].pc = pc /\ worker'[w].id = i /\ worker'[w].left = worker[w].left
        /\ worker'[w].model = m
    BY <1>0, <1>12, <2>2 DEF Moves
  <2>4. pc # "finish" /\ worker[w].pc \notin {"idle", "begin", "finish"}
    BY <1>12 DEF Embedding
  <2>5. QED
    BY <1>0, <1>12, <2>3, <2>4 DEF RunSound, Exists
<1>13. CASE RecordRequest(w)
  <2>1. worker[w].pc = "record" /\ UNCHANGED <<rows, chunks>>
    BY <1>13 DEF RecordRequest
  <2>2. Ends(w, "embedding") \/ JobEnds(w) \/ Moves(w, At(w, "send"))
    BY <1>13 DEF RecordRequest
  <2>3. QED
    BY <1>3, <1>4, <1>5, <1>6, <1>12, <2>1, <2>2 DEF Embedding
<1>14. CASE EmbedFails(w)
  <2>1. worker[w].pc = "send" /\ UNCHANGED <<rows, chunks>>
    BY <1>14 DEF EmbedFails, db
  <2>2. worker[w].attempt \in Nat /\ At(w, "record").attempt = worker[w].attempt
    BY <1>0, <2>1 DEF RunHolds, At, Embedding
  <2>3. Moves(w, [At(w, "record") EXCEPT !.attempt = worker[w].attempt + 1]) \/ Ends(w, "embedding")
    BY <1>14, <2>2 DEF EmbedFails
  <2>4. worker[w].attempt + 1 \in Nat /\ "record" \in Embedding /\ worker[w].pc \in Embedding
    BY <2>1, <2>2 DEF Embedding
  <2>5. QED
    BY <1>3, <1>6, <1>12, <2>1, <2>3, <2>4
<1>15. CASE EmbedBatch(w)
  <2>1. worker[w].pc = "send"
    BY <1>15 DEF EmbedBatch
  <2>2. CASE JobEnds(w) /\ UNCHANGED <<chunks, rows>>
    BY <1>3, <1>4, <1>5, <2>2
  <2>3. CASE /\ Exists(i)
             /\ chunks' = [chunks EXCEPT ![i] = [c \in Passages |->
                             IF c \in Batch(worker[w].left) THEN m ELSE chunks[i][c]]]
             /\ rows' = [rows EXCEPT ![i].old = FALSE]
             /\ EmbedNext(w, worker[w].left \ Batch(worker[w].left))
    <3> DEFINE left == worker[w].left
               batch == Batch(left)
    <3>1. left \in SUBSET Passages /\ left \ batch \in SUBSET Passages
      BY <1>0, <2>1 DEF RunHolds, Embedding
    <3>2. \A c \in Passages : chunks'[i][c] = IF c \in batch THEN m ELSE chunks[i][c]
      BY <1>0, <2>3 DEF Chunks
    <3>3. rows[i].status # "ready" /\ \A c \in Passages \ left : chunks[i][c] = m
      BY <1>0, <2>1, <2>3 DEF RunSound, Embedding
    <3>4. rows'[i].status = rows[i].status
      <4>1. rows[i].status \in Statuses /\ rows[i].error \in Errors
        BY <1>0, <2>3, RowExists DEF Source
      <4>2. QED
        BY <1>0, <2>3, <4>1, RowUpdates
    <3>5. \A c \in Passages \ (left \ batch) : chunks'[i][c] = m
      BY <3>2, <3>3
    <3>6. RunSound(worker[w])'
      <4> HIDE DEF batch, left
      <4>1. EmbedNext(w, left \ batch)
        BY <2>3 DEF left, batch
      <4>2. QED
        BY <3>1, <3>3, <3>4, <3>5, <4>1, EmbedNextSound
    <3>7. rows'[i] # NoRow
      <4>1. rows[i].status \in Statuses
        BY <1>0, <2>3, RowExists
      <4>2. QED
        BY <3>4, <4>1 DEF NoRow, Statuses
    <3>8. QED
      BY <3>3, <3>4, <3>6, <3>7 DEF OwnSound, RowSound, Exists
  <2>4. QED
    BY <1>15, <2>2, <2>3 DEF EmbedBatch
<1>16. CASE Finish(w)
  <2>1. worker[w].pc = "finish" /\ JobEnds(w) /\ UNCHANGED chunks
    BY <1>16 DEF Finish
  <2>2. RunSound(worker[w])'
    BY <1>4, <1>5, <2>1
  <2>3. CASE Exists(i) /\ rows[i].status = "processing"
    <3>1. rows' = [rows EXCEPT ![i].error = worker[w].error, ![i].old = FALSE,
                               ![i].status = IF worker[w].error = "none" THEN "ready" ELSE "failed"]
      BY <1>16, <2>3, Zenon DEF Finish
    <3>2. worker[w].error \in Errors
      BY <1>0, <2>1 DEF RunHolds
    <3>3. (IF worker[w].error = "none" THEN "ready" ELSE "failed") \in Statuses
      BY DEF Statuses
    <3>4. rows'[i].status = (IF worker[w].error = "none" THEN "ready" ELSE "failed")
      BY <1>0, <2>3, <3>1, <3>2, <3>3, RowUpdates
    <3>5. worker[w].error = "none" => Whole(i, m)'
      BY <1>0, <2>1, <2>3 DEF RunSound, Whole
    <3>6. rows'[i] # NoRow
      BY <3>4 DEF NoRow
    <3>7. QED
      BY <1>0, <2>2, <3>4, <3>5, <3>6 DEF OwnSound, RowSound, Exists, Whole
  <2>4. CASE ~(Exists(i) /\ rows[i].status = "processing")
    <3>1. UNCHANGED rows
      BY <1>16, <2>4 DEF Finish
    <3>2. QED
      BY <1>3, <2>1, <2>2, <3>1
  <2>5. QED
    BY <2>3, <2>4
<1>17. CASE WorkerCrash(w)
  <2>1. UNCHANGED <<rows, chunks>> /\ \E n \in Models : Moves(w, NoRun(n))
    BY <1>17 DEF WorkerCrash, db
  <2>2. worker'[w].pc = "idle"
    BY <1>0, <2>1 DEF Moves, NoRun
  <2>3. QED
    BY <1>3, <1>4, <2>1, <2>2
<1>18. QED
  BY <1>7, <1>9, <1>10, <1>11, <1>13, <1>14, <1>15, <1>16, <1>17 DEF RunStep

(* A step of a run disturbs neither the other sources nor the other runs,   *)
(* since it alone holds the lock of its source.                             *)
LEMMA RunChunks ==
  ASSUME TypeInv, ChunkInv, NEW w \in Workers, RunStep(w) \/ WorkerCrash(w)
  PROVE  ChunkInv'
<1>1. PICK q : RunChanges(w, q)
  BY RunSteps
<1>2. worker'[w] = q /\ \A v \in Workers : v # w => worker'[v] = worker[v]
  BY <1>1, RunMoves DEF RunChanges
<1>3. \A v \in Workers : RunHolds(worker[v])
  BY DEF TypeInv
<1>4. worker[w].pc # "idle" /\ (q.pc # "idle" => q.id = worker[w].id)
  BY <1>1 DEF RunChanges
<1>5. PICK i \in Ids : i = worker[w].id
  BY <1>3, <1>4 DEF RunHolds
<1>6. OwnSound(w, i)
  <2>1. PICK m \in Models : m = worker[w].model
    BY <1>3 DEF RunHolds
  <2>2. QED
    BY <1>5, <2>1, OwnRun
<1>7. \A j \in Ids : j # i => rows'[j] = rows[j] /\ chunks'[j] = chunks[j]
  BY <1>1, <1>5 DEF RunChanges
<1>8. OneRun'
  BY <1>2, <1>4 DEF ChunkInv, OneRun
<1>9. ASSUME NEW v \in Workers
      PROVE  RunSound(worker[v])'
  <2>1. CASE v = w
    BY <1>6, <2>1 DEF OwnSound
  <2>2. CASE v # w /\ worker[v].pc # "idle"
    <3>1. worker[v].id \in Ids /\ worker[v].id # i /\ worker'[v] = worker[v]
      BY <1>2, <1>3, <1>4, <1>5, <2>2 DEF ChunkInv, OneRun, RunHolds
    <3>2. RunSound(worker[v])
      BY DEF ChunkInv
    <3>3. QED
      BY <1>7, <3>1, <3>2 DEF RunSound, Exists, Whole
  <2>3. CASE v # w /\ worker[v].pc = "idle"
    BY <1>2, <2>3 DEF RunSound
  <2>4. QED
    BY <2>1, <2>2, <2>3
<1>10. ASSUME NEW j \in Ids
       PROVE  RowSound(j)'
  <2>1. CASE j = i
    BY <1>6, <2>1 DEF OwnSound
  <2>2. CASE j # i
    <3>1. RowSound(j)
      BY DEF ChunkInv
    <3>2. QED
      BY <1>7, <2>2, <3>1 DEF RowSound, Exists, Whole
  <2>3. QED
    BY <2>1, <2>2
<1>11. QED
  BY <1>8, <1>9, <1>10 DEF ChunkInv

(* A run starts only on a source that no other has, before its first look.  *)
LEMMA SystemChunks ==
  ASSUME TypeInv, ChunkInv, SystemChanges
  PROVE  ChunkInv'
<1>1. UNCHANGED chunks /\ \A i \in Ids : rows'[i].status = rows[i].status
  BY DEF SystemChanges
<1>2. ASSUME NEW i \in Ids
      PROVE  (rows'[i] # NoRow) <=> (rows[i] # NoRow)
  <2>1. Stored' = Stored
    BY DEF SystemChanges
  <2>2. QED
    BY <2>1 DEF Stored, Exists
<1>3. ASSUME NEW v \in Workers
      PROVE  \/ worker'[v] = worker[v]
             \/ /\ worker[v].pc = "idle" /\ worker'[v].pc = "begin"
                /\ \A u \in Workers : /\ u # v => worker'[u] = worker[u]
                                      /\ worker[u].pc # "idle" => worker[u].id # worker'[v].id
  <2>1. CASE UNCHANGED worker
    BY <2>1
  <2>2. ASSUME NEW w \in Workers, NEW i \in Ids, Starts(w, i)
        PROVE  \/ worker'[v] = worker[v]
               \/ /\ worker[v].pc = "idle" /\ worker'[v].pc = "begin"
                  /\ \A u \in Workers : /\ u # v => worker'[u] = worker[u]
                                        /\ worker[u].pc # "idle" => worker[u].id # worker'[v].id
    <3> DEFINE q == [pc |-> "begin", model |-> worker[w].model, id |-> i]
    <3>1. RunHolds(q)
      BY DEF TypeInv, RunHolds, Reading, Embedding
    <3>2. worker'[w] = q /\ \A u \in Workers : u # w => worker'[u] = worker[u]
      BY <2>2, <3>1, RunMoves DEF Starts
    <3>3. worker[w].pc = "idle" /\ \A u \in Workers : worker[u].pc # "idle" => worker[u].id # i
      BY <2>2 DEF Starts, Runs
    <3>4. QED
      BY <3>2, <3>3
  <2>3. QED
    BY <2>1, <2>2 DEF SystemChanges
<1>4. OneRun'
  <2>1. SUFFICES ASSUME NEW v \in Workers, NEW w \in Workers, worker'[v].pc # "idle",
                        worker'[w].pc # "idle", worker'[v].id = worker'[w].id
                 PROVE  v = w
    BY DEF OneRun
  <2>2. CASE worker'[v] = worker[v] /\ worker'[w] = worker[w]
    BY <2>1, <2>2 DEF ChunkInv, OneRun
  <2>3. QED
    BY <1>3, <2>1, <2>2
<1>5. ASSUME NEW v \in Workers
      PROVE  RunSound(worker[v])'
  <2>1. RunSound(worker[v]) /\ RunHolds(worker[v])
    BY DEF ChunkInv, TypeInv
  <2>2. CASE worker'[v] = worker[v]
    BY <1>1, <1>2, <2>1, <2>2 DEF RunSound, RunHolds, Exists, Whole
  <2>3. CASE worker'[v].pc = "begin"
    BY <2>3 DEF RunSound, Embedding
  <2>4. QED
    BY <1>3, <2>2, <2>3
<1>6. ASSUME NEW i \in Ids
      PROVE  RowSound(i)'
  <2>1. RowSound(i)
    BY DEF ChunkInv
  <2>2. QED
    BY <1>1, <1>2, <2>1 DEF RowSound, Exists, Whole
<1>7. QED
  BY <1>4, <1>5, <1>6 DEF ChunkInv

(* Every step keeps the passages in order.                                  *)
LEMMA NextChunks ==
  ASSUME TypeInv, FileInv, ChunkInv, [Next]_vars
  PROVE  ChunkInv'
<1>1. CASE UNCHANGED vars
  <2>1. UNCHANGED <<rows, chunks, worker>>
    BY <1>1 DEF vars
  <2>2. QED
    BY <2>1 DEF ChunkInv, OneRun, RunSound, RowSound, Exists, Whole
<1>2. ASSUME \/ \E w \in Workers, i \in Ids : ProcessSource(w, i)
             \/ \E i \in Ids : Age(i) \/ SweepEnqueue(i)
             \/ SweepRead \/ Midnight \/ RedisRestart
      PROVE  ChunkInv'
  BY <1>2, SystemSteps, SystemChunks
<1>3. QED
  BY <1>1, <1>2, RequestChunks, RunChunks, Zenon DEF Next

-----------------------------------------------------------------------------
(* The invariant and what follows from it.                                  *)

(* The invariant holds of an empty workspace, and of one with a source.     *)
LEMMA InitIInv == Init => IInv
<1> SUFFICES ASSUME Init PROVE IInv
  OBVIOUS
<1>1. TypeInv
  BY InitTypeInv
<1>2. /\ texts = {} /\ jobs = {} /\ swept = {} /\ alive = TRUE
      /\ req = [r \in Requests |-> Idle]
      /\ \A w \in Workers : worker[w].pc = "idle"
  BY DEF Init, NoRun
<1>3. \A r \in Requests : req[r].op = "idle"
  BY <1>2 DEF Idle
<1>4. OneRun /\ \A w \in Workers : RunSound(worker[w])
  BY <1>2 DEF OneRun, RunSound
<1>5. UploadsHold
  BY <1>3 DEF UploadsHold, Uploading
<1>6. CASE /\ rows = [i \in Ids |-> NoRow] /\ files = {}
           /\ chunks = [i \in Ids |-> [c \in Passages |-> None]]
  <2>1. Stored = {} /\ Leaked = {} /\ \A i \in Ids : RowSound(i)
    BY <1>6 DEF Stored, Exists, Leaked, RowSound
  <2>2. IdsKnown /\ RowsKept
    BY <1>2, <1>3, <2>1 DEF IdsKnown, RowsKept
  <2>3. count.faults \in Nat
    BY <1>1, SourcesAssumption DEF TypeInv, TypeOK
  <2>4. LeaksCounted
    BY <1>6, <2>1, <2>3, FS_EmptySet DEF LeaksCounted
  <2>5. QED
    BY <1>1, <1>4, <1>5, <2>1, <2>2, <2>4 DEF IInv, FileInv, ChunkInv
<1>7. CASE /\ \E f \in Files :
                rows = [i \in Ids |-> IF i = 1 THEN [NewSource(f) EXCEPT !.status = "ready"]
                                              ELSE NoRow]
           /\ files = {1}
           /\ chunks = [i \in Ids |-> [c \in Passages |->
                          IF i = 1 THEN CHOOSE m \in Models : TRUE ELSE None]]
           /\ count = [id |-> 1, faults |-> 0, asked |-> 0]
  <2>0. 1 \in Ids /\ (CHOOSE m \in Models : TRUE) \in Models
    BY SourcesAssumption
  <2>1. /\ rows[1] # NoRow /\ \A i \in Ids : i # 1 => rows[i] = NoRow
        /\ Stored = {1}
    BY <1>7, <2>0 DEF Stored, Exists, NewSource, NoRow
  <2>2. ASSUME NEW i \in Ids
        PROVE  RowSound(i)
    BY <1>7, <2>0, <2>1 DEF RowSound, Exists, Whole
  <2>3. Leaked = {}
    BY <1>7, <2>1 DEF Leaked
  <2>4. IdsKnown /\ RowsKept
    BY <1>2, <1>3, <1>7, <2>0, <2>1 DEF IdsKnown, RowsKept, Known, Uploading
  <2>5. LeaksCounted
    <3>1. IsFiniteSet({1}) /\ Cardinality({}) = 0
      BY FS_EmptySet, FS_Singleton
    <3>2. files = {1} /\ count.faults = 0
      BY <1>7
    <3>3. QED
      BY <2>3, <3>1, <3>2 DEF LeaksCounted
  <2>6. QED
    BY <1>1, <1>4, <1>5, <2>2, <2>4, <2>5 DEF IInv, FileInv, ChunkInv
<1>8. QED
  BY <1>6, <1>7 DEF Init

(* Every behaviour keeps it.                                                *)
LEMMA Invariance == Spec => []IInv
<1>1. IInv /\ [Next]_vars => IInv'
  BY NextTypeInv, NextFiles, NextChunks DEF IInv
<1>2. QED
  BY <1>1, InitIInv, PTL DEF Spec

(* A source deleted while it is read or embedded stays deleted: no passage  *)
(* of it comes back, and nothing of a deleted workspace (_embed_batch,      *)
(* store_text and record_request are refused by the foreign keys).          *)
THEOREM DeletedSourcesStayDeleted == Spec => []DeletedStaysDeleted
<1>1. ASSUME IInv
      PROVE  DeletedStaysDeleted
  <2>1. ASSUME NEW i \in Ids, ~Exists(i)
        PROVE  chunks[i] = [c \in Passages |-> None]
    <3>1. chunks[i] = [c \in Passages |-> chunks[i][c]]
      BY <1>1 DEF IInv, TypeInv, TypeOK
    <3>2. \A c \in Passages : chunks[i][c] = None
      BY <1>1, <2>1 DEF IInv, ChunkInv, RowSound
    <3>3. QED
      BY <3>1, <3>2
  <2>2. ~alive => Stored = {}
    BY <1>1 DEF IInv, FileInv, RowsKept
  <2>3. QED
    BY <2>1, <2>2 DEF DeletedStaysDeleted
<1>2. QED
  BY <1>1, Invariance, PTL

(* A ready source has all of its passages, all embedded by one model,       *)
(* whatever crashed, was delivered twice or was retried on the way.         *)
THEOREM ReadySourcesAreWhole == Spec => []ReadyIsWhole
<1>1. IInv => ReadyIsWhole
  BY DEF IInv, ChunkInv, RowSound, ReadyIsWhole, Stored
<1>2. QED
  BY <1>1, Invariance, PTL

(* No row is without its file; a file nobody will ask for again was left by *)
(* a crash or a failed call, one each while the workspace exists.           *)
THEOREM RowsKeepTheirFiles == Spec => []FilesMatchRows
<1>1. IInv => FilesMatchRows
  BY DEF IInv, FileInv, RowsKept, LeaksCounted, FilesMatchRows
<1>2. QED
  BY <1>1, Invariance, PTL

(* An embedded passage is lost only with its row, or to a run under another *)
(* model: neither a crash nor a second delivery pays for it again           *)
(* (_keep_reusable, and the embeddings kept batch by batch).                *)
THEOREM PaidWorkIsKept == Spec => PaidForIsKept
<1> DEFINE Kept(i, c) == chunks[i][c] # None /\ chunks'[i][c] # chunks[i][c]
                           => \/ rows'[i] = NoRow
                              \/ \E w \in Runs(i) : worker[w].model # chunks[i][c]
<1>1. ASSUME IInv, [Next]_vars, NEW i \in Ids, NEW c \in Passages
      PROVE  Kept(i, c)
  <2>0. TypeInv /\ FileInv /\ chunks \in Chunks
    BY <1>1 DEF IInv, TypeInv, TypeOK, Chunks
  <2>1. ASSUME chunks'[i] = chunks[i]
        PROVE  Kept(i, c)
    BY <2>1
  <2>2. ASSUME NEW r \in Requests, User(r) \/ RequestStep(r) \/ ApiCrash(r)
        PROVE  Kept(i, c)
    BY <2>0, <2>1, <2>2, RequestRows
  <2>3. ASSUME NEW w \in Workers, RunStep(w) \/ WorkerCrash(w)
        PROVE  Kept(i, c)
    <3>1. /\ worker[w].pc # "idle" /\ worker[w].id \in Ids
          /\ i # worker[w].id => chunks'[i] = chunks[i]
      BY <2>0, <2>3, RunSteps DEF RunChanges, TypeInv, RunHolds
    <3>2. CASE i # worker[w].id \/ UNCHANGED chunks
      BY <2>1, <3>1, <3>2
    <3>3. CASE i = worker[w].id /\ KeepReusable(w)
      <4>1. w \in Runs(i)
        BY <3>1, <3>3 DEF Runs
      <4>2. chunks' = [chunks EXCEPT ![i] = [d \in Passages |->
                         IF d \in Reusable(w) THEN chunks[i][d] ELSE None]]
        BY <3>3 DEF KeepReusable
      <4>3. chunks'[i][c] = IF c \in Reusable(w) THEN chunks[i][c] ELSE None
        BY <2>0, <4>2 DEF Chunks
      <4>4. c \notin Reusable(w) => chunks[i][c] # worker[w].model
        BY <3>3 DEF Reusable
      <4>5. QED
        BY <4>1, <4>3, <4>4
    <3>4. CASE i = worker[w].id /\ EmbedBatch(w)
      <4>1. CASE UNCHANGED chunks
        BY <2>1, <4>1
      <4>2. CASE /\ \A d \in Batch(worker[w].left) : chunks[i][d] = None
                 /\ chunks' = [chunks EXCEPT ![i] = [d \in Passages |->
                       IF d \in Batch(worker[w].left) THEN worker[w].model ELSE chunks[i][d]]]
        <5>1. c \notin Batch(worker[w].left) => chunks'[i][c] = chunks[i][c]
          BY <2>0, <4>2 DEF Chunks
        <5>2. QED
          BY <4>2, <5>1
      <4>3. QED
        BY <3>4, <4>1, <4>2 DEF EmbedBatch
    <3>5. RunStep(w) \/ WorkerCrash(w) => UNCHANGED chunks \/ KeepReusable(w) \/ EmbedBatch(w)
      BY DEF RunStep, Begin, ReadFile, KeepText, RecordRequest, EmbedFails, Finish, WorkerCrash, db
    <3>6. QED
      BY <2>3, <3>2, <3>3, <3>4, <3>5
  <2>4. CASE \/ \E w \in Workers, j \in Ids : ProcessSource(w, j)
             \/ \E j \in Ids : Age(j) \/ SweepEnqueue(j)
             \/ SweepRead \/ Midnight \/ RedisRestart
    BY <2>0, <2>1, <2>4, SystemSteps DEF SystemChanges
  <2>5. CASE UNCHANGED vars
    BY <2>1, <2>5 DEF vars
  <2> HIDE DEF Kept
  <2>6. QED
    BY <1>1, <2>2, <2>3, <2>4, <2>5, Zenon DEF Next
<1>2. IInv /\ [Next]_vars
        => [\A i \in Ids, c \in Passages :
              chunks[i][c] # None /\ chunks'[i][c] # chunks[i][c]
                => \/ rows'[i] = NoRow
                   \/ \E w \in Runs(i) : worker[w].model # chunks[i][c]]_vars
  BY <1>1
<1>3. QED
  BY <1>2, Invariance, PTL DEF Spec, PaidForIsKept

-----------------------------------------------------------------------------
(* The storage quota.                                                       *)

(* What the rows take, and what an upload that holds the lock will add.     *)
SpaceReserved ==
  Quota > 0 =>
    /\ Used <= Quota
    /\ \A r \in Requests : Uploading(r) => Used + req[r].file.size <= Quota

(* The sizes that _used_bytes adds up, as a function.                       *)
Sizes == [i \in Ids |-> rows[i].file.size]

StoredAddsUp ==
  /\ Used = SumOf(Sizes, Stored) /\ Used \in Int
  /\ \A i \in Stored : Sizes[i] \in Nat

(* The sum the model computes is the sum of that function.                  *)
LEMMA UsedIsASum == rows \in Rows /\ IsFiniteSet(Stored) => StoredAddsUp
<1> SUFFICES ASSUME rows \in Rows, IsFiniteSet(Stored)
             PROVE  StoredAddsUp
  OBVIOUS
<1> DEFINE Eqn(part) == part = [s \in SUBSET Stored |->
             IF s = {} THEN 0 ELSE rows[First(s)].file.size + part[s \ {First(s)}]]
           p == CHOOSE part : Eqn(part)
<1>0. \A i \in Stored : Sizes[i] \in Nat /\ Sizes[i] = rows[i].file.size
  BY SourcesAssumption, RowExists DEF Sizes, Stored, Source
<1>1. Used = p[Stored]
  BY DEF Used, MapThenSumSet, MapThenFoldSet, First
<1>2. ASSUME NEW part
      PROVE  Eqn(part) <=> PartialSums(part, Sizes, Stored)
  <2>1. \A s \in SUBSET Stored : s # {} => Sizes[First(s)] = rows[First(s)].file.size
    BY <1>0, FirstIsIn
  <2>2. [s \in SUBSET Stored |->
           IF s = {} THEN 0 ELSE rows[First(s)].file.size + part[s \ {First(s)}]]
        = [s \in SUBSET Stored |-> PartSum(part, Sizes, s)]
    BY <2>1 DEF PartSum
  <2> QED
    BY <2>2 DEF PartialSums
<1>3. Eqn(p)
  <2>1. \E part : Eqn(part)
    <3>1. \A i \in Stored : Sizes[i] \in Int
      BY <1>0
    <3> QED
      BY <1>2, <3>1, PartialSumsExist
  <2> HIDE DEF Eqn
  <2> QED
    BY <2>1, Zenon
<1>4. PartialSums(p, Sizes, Stored)
  BY <1>2, <1>3
<1> HIDE DEF p
<1>5. SumOf(Sizes, Stored) = p[Stored]
  BY <1>0, <1>4, SumIsAnyPartialSum
<1>6. SumOf(Sizes, Stored) \in Int
  BY <1>0, SumType
<1> QED
  BY <1>0, <1>1, <1>5, <1>6 DEF StoredAddsUp

(* So it is after a step.                                                   *)
LEMMA UsedIsASumNext == (rows \in Rows /\ IsFiniteSet(Stored))' => StoredAddsUp'
BY UsedIsASum, PTL

(* Nothing is added or given back while the rows stay.                      *)
LEMMA UsedStays ==
  ASSUME rows \in Rows, IsFiniteSet(Stored), UNCHANGED rows
  PROVE  Used' = Used
<1>1. Sizes' = Sizes /\ Stored' = Stored
  BY DEF Sizes, Stored, Exists
<1>2. StoredAddsUp /\ StoredAddsUp'
  BY <1>1, UsedIsASum, UsedIsASumNext
<1>3. Used = SumOf(Sizes, Stored) /\ Used' = SumOf(Sizes', Stored')
  BY <1>2 DEF StoredAddsUp
<1> QED
  BY <1>1, <1>3

(* Rows, which have files, are as finitely many as files.                   *)
LEMMA StoredFinite == FileInv /\ LeaksCounted => IsFiniteSet(Stored)
BY FS_Subset DEF FileInv, RowsKept, LeaksCounted

(* A step that brings no row and changes no row's file, and lets no upload  *)
(* in.                                                                      *)
Spares ==
  /\ \A i \in Ids : rows'[i] # NoRow => rows[i] # NoRow /\ rows'[i].file = rows[i].file
  /\ \A r \in Requests : Uploading(r)' => Uploading(r) /\ req'[r].file = req[r].file

(* Only a reserved id lets an upload in, and only its insert brings a row.  *)
LEMMA SpaceSteps ==
  ASSUME TypeInv, [Next]_vars
  PROVE  Spares \/ \E r \in Requests : UploadReserve(r) \/ UploadCommit(r)
<1>0. rows \in Rows /\ req = [r \in Requests |-> req[r]]
  BY DEF TypeInv
<1>1. ASSUME UNCHANGED req, \A i \in Ids : rows'[i] # NoRow => rows[i] # NoRow /\ rows'[i].file = rows[i].file
      PROVE  Spares
  BY <1>1 DEF Spares, Uploading
<1>2. ASSUME NEW r \in Requests, NEW q, Becomes(r, q), q.op \notin {"save", "commit"},
             \A i \in Ids : rows'[i] # NoRow => rows[i] # NoRow /\ rows'[i].file = rows[i].file
      PROVE  Spares
  <2>1. req'[r] = q /\ \A s \in Requests : s # r => req'[s] = req[s]
    BY <1>0, <1>2 DEF Becomes
  <2> QED
    BY <1>2, <2>1 DEF Spares, Uploading
<1>3. ASSUME NEW r \in Requests, UploadSave(r)
      PROVE  Spares
  <2>1. UNCHANGED rows
    BY <1>3 DEF UploadSave, db
  <2>2. CASE Becomes(r, Idle)
    BY <1>2, <2>1, <2>2 DEF Idle
  <2>3. CASE Becomes(r, [req[r] EXCEPT !.op = "commit"])
    <3>1. req'[r] = [req[r] EXCEPT !.op = "commit"] /\ \A s \in Requests : s # r => req'[s] = req[s]
      BY <1>0, <2>3 DEF Becomes
    <3>2. req[r] \in [op : {"save", "commit"}, file : Files, id : Ids] /\ Uploading(r)
      BY <1>3 DEF TypeInv, ReqHolds, UploadSave, Uploading
    <3>3. req'[r].file = req[r].file
      BY <3>1, <3>2
    <3> QED
      BY <2>1, <3>1, <3>2, <3>3 DEF Spares, Uploading
  <2> QED
    BY <1>3, <2>2, <2>3 DEF UploadSave
<1>4. ASSUME NEW r \in Requests,
             \/ RemoveFile(r) \/ Enqueue(r) \/ ViewStoreText(r) \/ DeleteWorkspaceFiles(r)
             \/ ApiCrash(r)
      PROVE  Spares
  <2>1. UNCHANGED rows /\ Becomes(r, Idle)
    BY <1>4 DEF RemoveFile, Enqueue, ViewStoreText, DeleteWorkspaceFiles, ApiCrash, db
  <2> QED
    BY <1>2, <2>1 DEF Idle
<1>5. ASSUME NEW r \in Requests, RetryCommit(r)
      PROVE  Spares
  <2> DEFINE i == req[r].id
  <2>1. i \in Ids
    BY <1>5 DEF RetryCommit, TypeInv, ReqHolds
  <2>2. CASE Exists(i)
    <3>1. Becomes(r, [op |-> "enqueue", id |-> i])
          /\ rows' = [rows EXCEPT ![i].status = "pending", ![i].error = "none", ![i].old = FALSE]
      BY <1>5, <2>2 DEF RetryCommit
    <3>2. rows[i] \in Source
      BY <1>0, <2>1, <2>2, RowExists
    <3>3. rows'[i].file = rows[i].file /\ \A j \in Ids : j # i => rows'[j] = rows[j]
      BY <1>0, <2>1, <3>1, <3>2 DEF Rows, Source
    <3> QED
      BY <1>2, <2>1, <2>2, <3>1, <3>3 DEF Exists
  <2>3. CASE ~Exists(i)
    BY <1>2, <1>5, <2>3 DEF RetryCommit, Idle
  <2> QED
    BY <2>2, <2>3
<1>6. ASSUME NEW r \in Requests, User(r)
      PROVE  Spares
  <2>1. ASSUME NEW f \in Files, UploadStart(r, f)
        PROVE  Spares
    BY <1>2, <2>1 DEF UploadStart, db
  <2>2. ASSUME NEW i \in Ids, RetryRead(r, i)
        PROVE  Spares
    BY <1>2, <2>2 DEF RetryRead, db
  <2>3. ASSUME NEW i \in Ids, ViewReadAgain(r, i)
        PROVE  Spares
    BY <1>2, <2>3 DEF ViewReadAgain, db
  <2>4. ASSUME NEW gone, Cascade(gone)
        PROVE  \A i \in Ids : rows'[i] # NoRow => rows[i] # NoRow /\ rows'[i].file = rows[i].file
    BY <2>4 DEF Cascade
  <2>5. ASSUME NEW i \in Ids, DeleteSource(r, i)
        PROVE  Spares
    BY <1>2, <2>4, <2>5 DEF DeleteSource
  <2>6. CASE DeleteWorkspace(r)
    BY <1>2, <2>4, <2>6 DEF DeleteWorkspace
  <2> QED
    BY <1>6, <2>1, <2>2, <2>3, <2>5, <2>6 DEF User
<1>7. ASSUME NEW w \in Workers, RunStep(w) \/ WorkerCrash(w)
      PROVE  Spares
  <2> DEFINE i == worker[w].id
  <2>0. i \in Ids /\ UNCHANGED req
    BY <1>7, RunSteps DEF RunChanges, TypeInv, RunHolds
  <2>1. CASE UNCHANGED rows
    BY <1>1, <2>0, <2>1
  <2>2. ASSUME NEW st, NEW e, NEW o, Exists(i),
               \/ rows' = [rows EXCEPT ![i].status = st, ![i].error = e, ![i].old = o]
               \/ rows' = [rows EXCEPT ![i].error = e, ![i].old = o, ![i].status = st]
               \/ rows' = [rows EXCEPT ![i].old = o]
        PROVE  Spares
    <3>1. rows[i] \in Source
      BY <1>0, <2>0, <2>2, RowExists
    <3>2. rows'[i].file = rows[i].file /\ \A j \in Ids : j # i => rows'[j] = rows[j]
      BY <1>0, <2>0, <2>2, <3>1 DEF Rows, Source
    <3> QED
      BY <1>1, <2>0, <2>2, <3>2 DEF Exists
  <2>3. CASE Begin(w)
    <3>1. \/ UNCHANGED rows
          \/ Exists(i) /\ rows' = [rows EXCEPT ![i].status = "processing", ![i].error = "none",
                                             ![i].old = FALSE]
      BY <2>3 DEF Begin
    <3>2. CASE UNCHANGED rows
      BY <2>1, <3>2
    <3>3. CASE Exists(i) /\ rows' = [rows EXCEPT ![i].status = "processing", ![i].error = "none",
                                                ![i].old = FALSE]
      BY <2>2, <3>3
    <3> QED
      BY <3>1, <3>2, <3>3
  <2>4. CASE EmbedBatch(w)
    BY <2>1, <2>2, <2>4 DEF EmbedBatch
  <2>5. CASE Finish(w)
    BY <2>1, <2>2, <2>5 DEF Finish
  <2>6. CASE \/ ReadFile(w) \/ KeepText(w) \/ KeepReusable(w) \/ RecordRequest(w) \/ EmbedFails(w)
             \/ WorkerCrash(w)
    BY <2>1, <2>6 DEF ReadFile, KeepText, KeepReusable, RecordRequest, EmbedFails, WorkerCrash, db
  <2> QED
    BY <1>7, <2>3, <2>4, <2>5, <2>6 DEF RunStep
<1>8. ASSUME NEW i \in Ids, Age(i)
      PROVE  Spares
  <2>1. rows[i] \in Source /\ rows' = [rows EXCEPT ![i].old = TRUE] /\ UNCHANGED req
    BY <1>0, <1>8, RowExists DEF Age
  <2>2. rows'[i].file = rows[i].file /\ \A j \in Ids : j # i => rows'[j] = rows[j]
    BY <1>0, <2>1 DEF Rows, Source
  <2> QED
    BY <1>1, <1>8, <2>1, <2>2 DEF Age, Exists
<1>9. ASSUME \/ \E w \in Workers, i \in Ids : ProcessSource(w, i)
             \/ \E i \in Ids : SweepEnqueue(i)
             \/ SweepRead \/ Midnight \/ RedisRestart \/ UNCHANGED vars
      PROVE  Spares
  <2>1. UNCHANGED <<rows, req>>
    BY <1>9 DEF ProcessSource, SweepEnqueue, SweepRead, Midnight, RedisRestart, db, vars
  <2> QED
    BY <1>1, <2>1
<1> QED
  BY <1>3, <1>4, <1>5, <1>6, <1>7, <1>8, <1>9, Zenon DEF Next, RequestStep

(* A step that spares the space leaves no more used.                        *)
LEMMA SparesSpace ==
  ASSUME TypeInv, TypeInv', IsFiniteSet(Stored), Spares
  PROVE  Used' <= Used
<1>1. Stored' \subseteq Stored /\ \A i \in Stored' : Sizes'[i] = Sizes[i]
  BY DEF Spares, Stored, Exists, Sizes
<1>2. IsFiniteSet(Stored') /\ rows \in Rows /\ rows' \in Rows
  BY <1>1, FS_Subset DEF TypeInv
<1>3. StoredAddsUp /\ StoredAddsUp'
  BY <1>2, UsedIsASum, UsedIsASumNext
<1> DEFINE S == Stored
           T == Stored'
           f == Sizes
           g == Sizes'
<1>4. /\ Used = SumOf(f, S) /\ Used' = SumOf(g, T)
      /\ T \subseteq S /\ IsFiniteSet(S) /\ IsFiniteSet(T)
      /\ \A i \in S : f[i] \in Nat
      /\ \A i \in T : g[i] = f[i] /\ g[i] \in Int
  BY <1>1, <1>2, <1>3 DEF StoredAddsUp
<1> HIDE DEF S, T, f, g
<1>5. SumOf(g, T) = SumOf(f, T)
  BY <1>4, SumsAgree
<1>6. SumOf(f, T) <= SumOf(f, S)
  BY <1>4, PartOfSum
<1> QED
  BY <1>4, <1>5, <1>6

(* The insert takes the space that was reserved for it.                     *)
LEMMA CommitTakesSpace ==
  ASSUME TypeInv, TypeInv', FileInv, IsFiniteSet(Stored), SpaceReserved,
         NEW r \in Requests, UploadCommit(r), ~UNCHANGED rows
  PROVE  Quota > 0 => Used' <= Quota
<1> DEFINE i == req[r].id
<1>1. /\ i \in Ids /\ req[r].file \in Files
      /\ rows' = [rows EXCEPT ![i] = NewSource(req[r].file)]
      /\ Uploading(r)
  BY DEF UploadCommit, TypeInv, ReqHolds, Uploading
<1>2. i \notin Stored
  BY <1>1 DEF FileInv, IdsKnown, Known
<1>3. rows'[i] = NewSource(req[r].file) /\ \A j \in Ids : j # i => rows'[j] = rows[j]
  BY <1>1 DEF TypeInv, Rows
<1>4. Stored' = Stored \cup {i}
  BY <1>1, <1>3 DEF Stored, Exists, NewSource, NoRow
<1>5. IsFiniteSet(Stored') /\ rows \in Rows /\ rows' \in Rows
  BY <1>4, FS_AddElement DEF TypeInv
<1>6. StoredAddsUp /\ StoredAddsUp'
  BY <1>5, UsedIsASum, UsedIsASumNext
<1> DEFINE S == Stored
           f == Sizes
           g == Sizes'
<1>7. /\ Used = SumOf(f, S) /\ Used' = SumOf(g, S \cup {i})
      /\ i \notin S /\ IsFiniteSet(S)
      /\ \A j \in S \cup {i} : g[j] \in Int
      /\ \A j \in S : f[j] \in Int /\ f[j] = g[j]
      /\ g[i] = req[r].file.size
  <2>1. g[i] = req[r].file.size
    BY <1>1, <1>3 DEF Sizes, NewSource
  <2>2. \A j \in S : f[j] = g[j]
    BY <1>2, <1>3 DEF Sizes, Stored
  <2>3. Used = SumOf(f, S) /\ \A j \in S : f[j] \in Int
    BY <1>6 DEF StoredAddsUp
  <2>4. Used' = SumOf(g, Stored') /\ \A j \in Stored' : g[j] \in Int
    BY <1>6 DEF StoredAddsUp
  <2> QED
    BY <1>2, <1>4, <2>1, <2>2, <2>3, <2>4
<1> HIDE DEF i, S, f, g
<1>8. SumOf(f, S) = SumOf(g, S)
  BY <1>7, SumsAgree
<1>9. SumOf(g, S \cup {i}) = SumOf(g, S) + g[i]
  BY <1>7, SumWith
<1>10. Quota > 0 => Used + req[r].file.size <= Quota
  BY <1>1 DEF SpaceReserved
<1> QED
  BY <1>7, <1>8, <1>9, <1>10

(* Every step keeps the rows, and the upload in progress, within the quota. *)
LEMMA NextSpaceReserved ==
  ASSUME IInv, IInv', SpaceReserved, [Next]_vars
  PROVE  SpaceReserved'
<1>0. /\ TypeInv /\ TypeInv' /\ FileInv /\ IsFiniteSet(Stored) /\ IsFiniteSet(Stored')
      /\ Quota \in Nat
  <2>1. IsFiniteSet(Stored)'
    BY StoredFinite, PTL DEF IInv
  <2> QED
    BY <2>1, StoredFinite, SourcesAssumption DEF IInv
<1>1. Used \in Int /\ Used' \in Int
  BY <1>0, UsedIsASum, UsedIsASumNext DEF StoredAddsUp, TypeInv
<1>2. ASSUME NEW r \in Requests, NEW q, Becomes(r, q)
      PROVE  req'[r] = q /\ \A s \in Requests : s # r => req'[s] = req[s]
  BY <1>0, <1>2 DEF Becomes, TypeInv
<1>3. CASE Spares
  <2>1. Used' <= Used
    BY <1>0, <1>3, SparesSpace
  <2>2. ASSUME Quota > 0, NEW r \in Requests, Uploading(r)'
        PROVE  Used' + req'[r].file.size <= Quota
    <3>1. Uploading(r) /\ req'[r].file = req[r].file
      BY <1>3, <2>2 DEF Spares
    <3>2. Used + req[r].file.size <= Quota
      BY <2>2, <3>1 DEF SpaceReserved
    <3>3. req[r].file.size \in Nat
      BY <1>0, <3>1, SourcesAssumption DEF TypeInv, ReqHolds, Uploading
    <3> QED
      BY <1>0, <1>1, <2>1, <3>1, <3>2, <3>3
  <2> QED
    BY <1>0, <1>1, <2>1, <2>2 DEF SpaceReserved
<1>4. ASSUME NEW r \in Requests, UploadReserve(r)
      PROVE  SpaceReserved'
  <2>1. UNCHANGED rows /\ \A s \in Requests : ~Uploading(s)
    BY <1>4 DEF UploadReserve, StorageLocked, Uploading, db
  <2>2. Used' = Used
    BY <1>0, <2>1, UsedStays DEF TypeInv
  <2>3. CASE Becomes(r, Idle)
    BY <1>2, <2>1, <2>2, <2>3 DEF SpaceReserved, Uploading, Idle
  <2>4. CASE /\ ~(Quota > 0 /\ Used + req[r].file.size > Quota)
             /\ Becomes(r, [op |-> "save", file |-> req[r].file, id |-> count.id + 1])
    <3>1. /\ req'[r].file = req[r].file
          /\ \A s \in Requests : s # r => ~Uploading(s)'
      BY <1>2, <2>1, <2>4 DEF Uploading
    <3>2. req[r].file.size \in Nat
      BY <1>0, <1>4, SourcesAssumption DEF UploadReserve, TypeInv, ReqHolds
    <3>3. Quota > 0 => Used + req[r].file.size <= Quota
      BY <1>0, <1>1, <2>4, <3>2
    <3> QED
      BY <2>2, <3>1, <3>3 DEF SpaceReserved
  <2> QED
    BY <1>4, <2>3, <2>4 DEF UploadReserve
<1>5. ASSUME NEW r \in Requests, UploadCommit(r)
      PROVE  SpaceReserved'
  <2>1. PICK op \in {"enqueue", "remove"} : Becomes(r, [op |-> op, id |-> req[r].id])
    BY <1>5 DEF UploadCommit
  <2>2. \A s \in Requests : ~Uploading(s)'
    <3>1. \A s \in Requests : Uploading(s) => s = r
      BY <1>0, <1>5 DEF FileInv, UploadsHold, Uploading, UploadCommit
    <3> QED
      BY <1>2, <2>1, <3>1 DEF Uploading
  <2>3. Quota > 0 => Used' <= Quota
    <3>1. CASE UNCHANGED rows
      <4>1. Used' = Used
        BY <1>0, <3>1, UsedStays DEF TypeInv
      <4> QED
        BY <4>1 DEF SpaceReserved
    <3>2. CASE ~UNCHANGED rows
      BY <1>0, <1>5, <3>2, CommitTakesSpace
    <3> QED
      BY <3>1, <3>2
  <2> QED
    BY <2>2, <2>3 DEF SpaceReserved
<1> QED
  BY <1>0, <1>3, <1>4, <1>5, SpaceSteps

(* At the start there is nothing, or one file within the quota.             *)
LEMMA InitSpaceReserved == Init => SpaceReserved
<1> SUFFICES ASSUME Init
             PROVE  SpaceReserved
  OBVIOUS
<1>5. \A r \in Requests : ~Uploading(r)
  <2> SUFFICES ASSUME NEW r \in Requests
               PROVE  ~Uploading(r)
    OBVIOUS
  <2>1. req[r] = Idle
    <3>1. req = [x \in Requests |-> Idle]
      BY Zenon DEF Init
    <3> QED
      BY <3>1
  <2> QED
    BY <2>1 DEF Idle, Uploading
<1> SUFFICES ASSUME Quota > 0
             PROVE  Used <= Quota
  BY <1>5 DEF SpaceReserved
<1>0. rows \in Rows /\ IsFiniteSet(Stored) /\ Quota \in Nat
  BY InitIInv, StoredFinite, SourcesAssumption DEF IInv, TypeInv
<1>1. StoredAddsUp
  BY <1>0, UsedIsASum
<1>2. CASE Stored = {}
  <2>1. Used = 0
    BY <1>1, <1>2, SumOfNothing DEF StoredAddsUp
  <2> QED
    BY <1>0, <2>1
<1>3. ASSUME NEW f \in Files, f.size <= Quota,
             rows = [i \in Ids |-> IF i = 1 THEN [NewSource(f) EXCEPT !.status = "ready"]
                                            ELSE NoRow]
      PROVE  Used <= Quota
  <2>1. 1 \in Ids /\ rows[1].file = f
    BY <1>3, SourcesAssumption DEF NewSource
  <2>2. Stored = {} \cup {1}
    BY <1>3, <2>1 DEF Stored, Exists, NewSource, NoRow
  <2>3. Sizes[1] = f.size /\ f.size \in Nat
    BY <2>1, SourcesAssumption DEF Sizes
  <2>4. IsFiniteSet({})
    BY FS_EmptySet
  <2>5. SumOf(Sizes, {} \cup {1}) = SumOf(Sizes, {}) + Sizes[1]
    <3>1. \A x \in {} \cup {1} : Sizes[x] \in Int
      BY <2>3
    <3> QED
      BY <2>4, <3>1, SumWith
  <2>6. SumOf(Sizes, {}) = 0
    BY SumOfNothing
  <2> QED
    BY <1>1, <1>3, <2>2, <2>3, <2>5, <2>6 DEF StoredAddsUp
<1>4. CASE rows = [i \in Ids |-> NoRow]
  BY <1>2, <1>4 DEF Stored, Exists
<1> QED
  BY <1>3, <1>4 DEF Init


(* What the day's counter may never pass.                                   *)
DayKept == DailyLimit > 0 => requests <= DailyLimit

(* Requests are counted one at a time, each after the count was compared    *)
(* with the limit under one lock (record_request: "two workers cannot both  *)
(* take the last one").                                                     *)
THEOREM DailyLimitIsKept == Spec => []DayKept
<1>1. Init => DayKept
  BY SourcesAssumption DEF Init, DayKept
<1>2. TypeInv /\ DayKept /\ [Next]_vars => DayKept'
  <2> SUFFICES ASSUME TypeInv, DayKept, [Next]_vars PROVE DayKept'
    OBVIOUS
  <2>0. requests \in Nat /\ DailyLimit \in Nat
    BY SourcesAssumption DEF TypeInv, TypeOK
  <2>1. ASSUME UNCHANGED requests
        PROVE  DayKept'
    BY <2>1 DEF DayKept
  <2>2. ASSUME NEW r \in Requests, User(r) \/ RequestStep(r) \/ ApiCrash(r)
        PROVE  UNCHANGED requests
    BY <2>2 DEF User, UploadStart, DeleteSource, RetryRead, ViewReadAgain, DeleteWorkspace,
       RequestStep, UploadReserve, UploadSave, UploadCommit, RemoveFile, Enqueue, RetryCommit,
       ViewStoreText, DeleteWorkspaceFiles, ApiCrash, db
  <2>3. ASSUME NEW w \in Workers, RecordRequest(w)
        PROVE  DayKept'
    <3>1. UNCHANGED requests \/ (~OverLimit /\ requests' = requests + 1)
      BY <2>3 DEF RecordRequest
    <3>2. QED
      BY <2>0, <2>1, <3>1 DEF OverLimit, DayKept
  <2>4. ASSUME NEW w \in Workers, RunStep(w) \/ WorkerCrash(w), ~RecordRequest(w)
        PROVE  UNCHANGED requests
    BY <2>4 DEF RunStep, Begin, ReadFile, KeepText, KeepReusable, EmbedFails, EmbedBatch, Finish,
       WorkerCrash, db
  <2>5. CASE Midnight
    BY <2>0, <2>5 DEF Midnight, DayKept
  <2>6. ASSUME \/ \E w \in Workers, i \in Ids : ProcessSource(w, i)
               \/ \E i \in Ids : Age(i) \/ SweepEnqueue(i)
               \/ SweepRead \/ RedisRestart \/ UNCHANGED vars
        PROVE  UNCHANGED requests
    BY <2>6 DEF ProcessSource, Age, SweepEnqueue, SweepRead, RedisRestart, db, vars
  <2>7. QED
    BY <2>1, <2>2, <2>3, <2>4, <2>5, <2>6, Zenon DEF Next
<1>3. QED
  BY <1>1, <1>2, InitTypeInv, NextTypeInv, PTL DEF Spec

(* upload counts and inserts under the workspace's lock, and records are    *)
(* counted under another: for any number of requests, workers and files,    *)
(* neither the storage quota nor the day's embedding limit is ever passed.  *)
THEOREM LimitsAreKept == Spec => []LimitsKept
<1>1. SpaceReserved /\ DayKept => LimitsKept
  BY DEF SpaceReserved, DayKept, LimitsKept
<1>2. IInv /\ IInv' /\ SpaceReserved /\ [Next]_vars => SpaceReserved'
  BY NextSpaceReserved
<1> QED
  BY <1>1, <1>2, InitSpaceReserved, Invariance, DailyLimitIsKept, PTL DEF Spec

=============================================================================
