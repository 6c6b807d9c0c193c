------------------------------- MODULE Sources -------------------------------
(***************************************************************************)
(* The uploaded sources of one workspace, from the upload to the passages   *)
(* the AI may search: services/sources.py and source_viewer.py (the API's   *)
(* requests), services/ingestion.py and embedding_usage.py (one run over    *)
(* one source), worker.py and core/queue.py (Arq jobs and the sweep for     *)
(* lost ones), storage.py (the files).                                      *)
(*                                                                         *)
(* A source is spread over a file, a row with its passages and text, and a  *)
(* job.  They are written one after the other by requests and workers that  *)
(* may die between any two steps, and Redis forgets its jobs when it        *)
(* restarts.  Time is left to nondeterminism: a row that makes no progress  *)
(* grows old.  Passages are their indexes; a vector is the model it is from.*)
(***************************************************************************)
EXTENDS Naturals, FiniteSets, FiniteSetsExt

CONSTANTS
  Files,        \* the files users upload: [sum, size, magic, zip, holds]
  Requests,     \* API requests that can be in progress at once
  Workers,      \* worker processes, one job each
  Ids,          \* source ids; a bound on the uploads, 1..n
  Models,       \* embedding models a worker may be deployed with
  Passages,     \* 1..n, the passages a readable file is split into
  BatchSize,    \* embedding_batch_size
  MaxRetries,   \* embedding_max_retries
  MaxFileBytes, \* source_max_file_bytes
  Quota,        \* source_workspace_quota_bytes; 0 is no limit
  DailyLimit,   \* embedding_daily_request_limit; 0 is no limit
  MaxAsked,     \* bound: what users ask for in a behaviour
  MaxFaults,    \* bound: crashes, Redis restarts and failed calls in a behaviour
  None

ASSUME SourcesAssumption ==
  /\ 1 \in Ids /\ Ids \subseteq Nat /\ Passages \subseteq Nat
  /\ {BatchSize, MaxRetries, MaxFileBytes, Quota, DailyLimit, MaxAsked,
      MaxFaults} \subseteq Nat
  /\ BatchSize > 0 /\ \A f \in Files : f.size \in Nat
  /\ Models # {} /\ None \notin Models

VARIABLES
  rows,      \* rows[i]: the sources row, or NoRow
  texts,     \* the sources with a source_texts row
  chunks,    \* chunks[i][c]: the model of the stored passage c, or None
  files,     \* the storage keys with a file behind them
  requests,  \* embedding requests the workspace made today
  jobs,      \* Arq: the sources with a job queued or running
  running,   \* Arq: the jobs marked as in progress
  swept,     \* what the sweep found stalled and has still to queue
  worker,    \* worker[w]: one run of process_source
  req,       \* req[r]: one API request
  alive,     \* the workspace exists
  count      \* [id, faults, asked]: ids given out and the bounds' counters

vars == <<rows, texts, chunks, files, requests, jobs, running, swept, worker,
          req, alive, count>>
db == <<rows, texts, chunks, requests, alive>>
queue == <<jobs, running, swept>>

Statuses == {"pending", "processing", "ready", "failed"}

(* error_code, by the clause of _process that decides it.                   *)
Errors == {"none", "extraction", "embedding", "server"}

(* A sources row: what the steps below read or write of it.                 *)
Source == [status : Statuses, error : Errors, file : Files, old : BOOLEAN]
NoRow == [status |-> "none"]
Exists(i) == rows[i] # NoRow
Stored == {i \in Ids : Exists(i)}

Idle == [op |-> "idle"]
NoRun(m) == [pc |-> "idle", model |-> m]

-----------------------------------------------------------------------------
(* The file: source_files.py, and what extraction.py makes of it.           *)

(* measure: an empty or too large file is refused.                          *)
Measure(f) == f.size > 0 /\ f.size <= MaxFileBytes

(* check_docx: of ZIPs only a plain Word document is taken, not one that is *)
(* encrypted or damaged, expands too far, or is some other archive.         *)
CheckDocx(f) == f.zip = "word"

(* decode_text: UTF-8, UTF-16 with its mark or a guessed encoding, without  *)
(* many control characters.                                                 *)
DecodeText(f) == f.holds \in {"words", "spaces"}

(* sniff: the kind the bytes show, whatever the file is called.             *)
Sniff(f) ==
  CASE f.magic = "pdf" -> "pdf"
    [] f.magic = "zip" -> IF CheckDocx(f) THEN "docx" ELSE "refused"
    [] f.magic = "archive" -> "refused"
    [] OTHER -> IF DecodeText(f) THEN "text" ELSE "refused"

Accepted(f) == Measure(f) /\ Sniff(f) # "refused"

(* extract: a PDF may need a password, not parse, or be a scan without a    *)
(* text layer; a document may not parse; any file may hold only spaces.     *)
ExtractPdf(f) == f.holds \notin {"password", "damage", "scan", "spaces"}
ExtractDocx(f) == f.holds # "damage"
Extract(f) ==
  /\ f.holds # "spaces"
  /\ CASE Sniff(f) = "pdf" -> ExtractPdf(f)
       [] Sniff(f) = "docx" -> ExtractDocx(f)
       [] OTHER -> DecodeText(f)

(* extract_isolated: whether it works.  Also a good file's child may        *)
(* overrun, be killed or run out of memory.                                 *)
ExtractIsolated(f) == {Extract(f), FALSE}

(* What embed may raise: _map_api_error and the kinds of errors.py; of      *)
(* these, another attempt is worth it, unless the quota is the day's.       *)
ProviderErrors == {"rate_limited", "daily_quota", "unavailable", "invalid_key", "failed"}
WorthRetrying(e) == e \in {"rate_limited", "unavailable"}

-----------------------------------------------------------------------------
(* Requests: sources.py, with the handlers of routers/sources.py.           *)

Fault(k) == count' = [count EXCEPT !.faults = @ + k]
CanFail == count.faults < MaxFaults

(* A new request, within the bound on them.                                 *)
Asked(r) ==
  /\ req[r] = Idle /\ count.asked < MaxAsked
  /\ count' = [count EXCEPT !.asked = @ + 1]

Becomes(r, state) == req' = [req EXCEPT ![r] = state]

Used == MapThenSumSet(LAMBDA i : rows[i].file.size, Stored)

FindDuplicate(f) == \E i \in Stored : rows[i].file.sum = f.sum

(* Mutant: the space is counted without the lock.                           *)
StorageLockedMutant == FALSE

(* The storage lock: held from the quota check to the end of the            *)
(* transaction.                                                             *)
StorageLocked == \E r \in Requests : req[r].op \in {"save", "commit"}

(* upload, up to the advisory lock.  A file already there is returned.      *)
UploadStart(r, f) ==
  /\ Asked(r) /\ alive
  /\ Accepted(f)
  /\ ~FindDuplicate(f)
  /\ Becomes(r, [op |-> "upload", file |-> f])
  /\ UNCHANGED <<db, files, queue, worker>>

(* upload, under the lock: refused over the quota, else given an id.        *)
UploadReserve(r) ==
  /\ req[r].op = "upload" /\ ~StorageLocked
  /\ IF Quota > 0 /\ Used + req[r].file.size > Quota
       THEN /\ Becomes(r, Idle)
            /\ UNCHANGED count
       ELSE /\ count.id + 1 \in Ids
            /\ count' = [count EXCEPT !.id = @ + 1]
            /\ Becomes(r, [op |-> "save", file |-> req[r].file, id |-> count.id + 1])
  /\ UNCHANGED <<db, files, queue, worker>>

(* storage.save: renamed into place, so all of the file or none of it.      *)
UploadSave(r) ==
  /\ req[r].op = "save"
  /\ \/ /\ files' = files \cup {req[r].id}
        /\ Becomes(r, [req[r] EXCEPT !.op = "commit"])
        /\ UNCHANGED count
     \/ /\ CanFail /\ Fault(1)
        /\ Becomes(r, Idle)
        /\ UNCHANGED files
  /\ UNCHANGED <<db, queue, worker>>

NewSource(f) == [status |-> "pending", error |-> "none", file |-> f, old |-> FALSE]

(* The insert.  The unique checksum or the workspace's foreign key refuses  *)
(* it, or the commit fails: the file is to be removed again.                *)
UploadCommit(r) ==
  LET i == req[r].id IN
  /\ req[r].op = "commit"
  /\ \/ /\ alive /\ ~FindDuplicate(req[r].file)
        /\ rows' = [rows EXCEPT ![i] = NewSource(req[r].file)]
        /\ Becomes(r, [op |-> "enqueue", id |-> i])
        /\ UNCHANGED count
     \/ /\ \/ (~alive \/ FindDuplicate(req[r].file)) /\ UNCHANGED count
           \/ CanFail /\ Fault(1)
        /\ Becomes(r, [op |-> "remove", id |-> i])
        /\ UNCHANGED rows
  /\ UNCHANGED <<texts, chunks, requests, alive, files, queue, worker>>

(* storage.delete: of a refused upload, or of a deleted source, where a     *)
(* failure is logged and leaves the file.                                   *)
RemoveFile(r) ==
  /\ req[r].op = "remove"
  /\ \/ files' = files \ {req[r].id} /\ UNCHANGED count
     \/ CanFail /\ Fault(1) /\ UNCHANGED files
  /\ Becomes(r, Idle)
  /\ UNCHANGED <<db, queue, worker>>

(* enqueue_source: one job per source, not queued again while it is queued  *)
(* or running.                                                              *)
EnqueueSource(i) == jobs' = jobs \cup {i}

(* _enqueue: a failure is logged, not raised.                               *)
Enqueue(r) ==
  /\ req[r].op = "enqueue"
  /\ \/ EnqueueSource(req[r].id) /\ UNCHANGED count
     \/ CanFail /\ Fault(1) /\ UNCHANGED jobs
  /\ Becomes(r, Idle)
  /\ UNCHANGED <<db, files, running, swept, worker>>

(* A row and, by ON DELETE CASCADE, its passages and its text.              *)
Cascade(gone) ==
  /\ rows' = [i \in Ids |-> IF i \in gone THEN NoRow ELSE rows[i]]
  /\ texts' = texts \ gone
  /\ chunks' = [i \in Ids |-> IF i \in gone THEN [c \in Passages |-> None]
                                            ELSE chunks[i]]

(* Mutant: the file first, then the row.                                    *)
DeleteSourceFileFirst(r, i) ==
  /\ Asked(r) /\ Exists(i)
  /\ files' = files \ {i}
  /\ UNCHANGED <<db, queue, worker, req>>

(* delete_source: the row first, then the file.                             *)
DeleteSource(r, i) ==
  /\ Asked(r) /\ Exists(i)
  /\ Cascade({i})
  /\ Becomes(r, [op |-> "remove", id |-> i])
  /\ UNCHANGED <<requests, alive, files, queue, worker>>

(* retry_source: the status is checked on a row read before the commit.     *)
RetryRead(r, i) ==
  /\ Asked(r) /\ Exists(i) /\ rows[i].status = "failed"
  /\ Becomes(r, [op |-> "retry", id |-> i])
  /\ UNCHANGED <<db, files, queue, worker>>

RetryCommit(r) ==
  LET i == req[r].id IN
  /\ req[r].op = "retry"
  /\ IF Exists(i)
       THEN /\ rows' = [rows EXCEPT ![i].status = "pending", ![i].error = "none",
                                    ![i].old = FALSE]
            /\ Becomes(r, [op |-> "enqueue", id |-> i])
       ELSE Becomes(r, Idle) /\ UNCHANGED rows
  /\ UNCHANGED <<texts, chunks, requests, alive, files, queue, worker, count>>

(* view of a ready source whose text was never kept: _read_again reads the  *)
(* file (404 when it is gone) and extracts it once more (409 when it fails).*)
ViewReadAgain(r, i) ==
  /\ Asked(r) /\ Exists(i) /\ rows[i].status = "ready"
  /\ i \notin texts /\ i \in files
  /\ Becomes(r, [op |-> "view", id |-> i])
  /\ UNCHANGED <<db, files, queue, worker>>

(* Mutant: nothing ties a text to its source's row.                         *)
StoreTextNoForeignKey(i) == texts' = texts \cup {i}

(* store_text, which a source deleted meanwhile refuses.                    *)
StoreText(i) == texts' = IF Exists(i) THEN texts \cup {i} ELSE texts

ViewStoreText(r) ==
  /\ req[r].op = "view"
  /\ StoreText(req[r].id)
  /\ Becomes(r, Idle)
  /\ UNCHANGED <<rows, chunks, requests, alive, files, queue, worker, count>>

(* The workspace goes with all its rows, then delete_workspace_files.       *)
DeleteWorkspace(r) ==
  /\ Asked(r) /\ alive
  /\ alive' = FALSE
  /\ Cascade(Ids)
  /\ Becomes(r, [op |-> "prefix"])
  /\ UNCHANGED <<requests, files, queue, worker>>

DeleteWorkspaceFiles(r) ==
  /\ req[r].op = "prefix"
  /\ \/ files' = {} /\ UNCHANGED count
     \/ CanFail /\ Fault(1) /\ UNCHANGED files
  /\ Becomes(r, Idle)
  /\ UNCHANGED <<db, queue, worker>>

(* The API process stops: its requests are not resumed.                     *)
ApiCrash(r) ==
  /\ req[r] # Idle /\ CanFail /\ Fault(1)
  /\ Becomes(r, Idle)
  /\ UNCHANGED <<db, files, queue, worker>>

-----------------------------------------------------------------------------
(* The worker: ingestion.process_source under Arq.                          *)

Moves(w, state) == worker' = [worker EXCEPT ![w] = state]
At(w, pc) == [worker[w] EXCEPT !.pc = pc]
Runs(i) == {w \in Workers : worker[w].pc # "idle" /\ worker[w].id = i}

(* Arq's end of a job, which frees its id.                                  *)
JobEnds(w) ==
  /\ jobs' = jobs \ {worker[w].id}
  /\ running' = running \ {worker[w].id}
  /\ Moves(w, NoRun(worker[w].model))

(* pg_try_advisory_lock: held by the run that got it, until it ends.        *)
TryLock(i) == Runs(i) = {}

(* A job is taken.  Another run on the same source makes it a no-op.        *)
ProcessSource(w, i) ==
  /\ worker[w].pc = "idle"
  /\ i \in jobs \ running
  /\ IF TryLock(i)
       THEN /\ running' = running \cup {i}
            /\ Moves(w, [pc |-> "begin", model |-> worker[w].model, id |-> i])
            /\ UNCHANGED jobs
       ELSE /\ jobs' = jobs \ {i}
            /\ UNCHANGED <<running, worker>>
  /\ UNCHANGED <<db, files, swept, req, count>>

(* _process: gone, or already decided, or marked as processing.             *)
Begin(w) ==
  LET i == worker[w].id IN
  /\ worker[w].pc = "begin"
  /\ IF ~Exists(i) \/ rows[i].status \in {"ready", "failed"}
       THEN JobEnds(w) /\ UNCHANGED rows
       ELSE /\ rows' = [rows EXCEPT ![i].status = "processing", ![i].error = "none",
                                    ![i].old = FALSE]
            /\ Moves(w, [pc |-> "read", model |-> worker[w].model, id |-> i,
                         file |-> rows[i].file])
            /\ UNCHANGED <<jobs, running>>
  /\ UNCHANGED <<texts, chunks, requests, alive, files, swept, req, count>>

Ends(w, error) ==
  Moves(w, [pc |-> "finish", model |-> worker[w].model, id |-> worker[w].id,
            error |-> error])

(* storage.read and extract_file.                                           *)
ReadFile(w) ==
  /\ worker[w].pc = "read"
  /\ IF worker[w].id \in files
       THEN \E ok \in ExtractIsolated(worker[w].file) :
              IF ok THEN Moves(w, At(w, "store")) ELSE Ends(w, "extraction")
       ELSE Ends(w, "server")
  /\ UNCHANGED <<db, files, queue, req, count>>

(* store_text: an IntegrityError means the source was deleted.              *)
KeepText(w) ==
  /\ worker[w].pc = "store"
  /\ StoreText(worker[w].id)
  /\ IF Exists(worker[w].id)
       THEN Moves(w, At(w, "keep")) /\ UNCHANGED <<jobs, running>>
       ELSE JobEnds(w)
  /\ UNCHANGED <<rows, chunks, requests, alive, files, swept, req, count>>

(* Mutant: a passage is kept whatever model embedded it.                    *)
ReusableAnyModel(w) ==
  {c \in Passages : chunks[worker[w].id][c] # None}

(* Mutant: nothing is kept.                                                 *)
ReusableNone(w) == {}

(* What _keep_reusable keeps: passages the same file gives again, embedded  *)
(* by the same model.                                                       *)
Reusable(w) ==
  {c \in Passages : chunks[worker[w].id][c] = worker[w].model}

(* Where a run goes with these passages still to embed.                     *)
EmbedNext(w, left) ==
  IF left = {} THEN Ends(w, "none")
  ELSE Moves(w, [pc |-> "record", model |-> worker[w].model, id |-> worker[w].id,
                 left |-> left, attempt |-> 0])

KeepReusable(w) ==
  LET i == worker[w].id IN
  /\ worker[w].pc = "keep"
  /\ chunks' = [chunks EXCEPT ![i] = [c \in Passages |->
                  IF c \in Reusable(w) THEN chunks[i][c] ELSE None]]
  /\ EmbedNext(w, Passages \ Reusable(w))
  /\ UNCHANGED <<rows, texts, requests, alive, files, queue, req, count>>

Batch(left) == {c \in left : Cardinality({d \in left : d <= c}) <= BatchSize}

OverLimit == DailyLimit > 0 /\ requests >= DailyLimit

(* record_request, under its own advisory lock: refused over the ceiling,   *)
(* refused by the foreign key of a deleted source, else counted.            *)
RecordRequest(w) ==
  /\ worker[w].pc = "record"
  /\ \/ /\ OverLimit
        /\ Ends(w, "embedding")
        /\ UNCHANGED <<requests, jobs, running>>
     \/ /\ ~OverLimit /\ ~Exists(worker[w].id)
        /\ JobEnds(w)
        /\ UNCHANGED requests
     \/ /\ ~OverLimit /\ Exists(worker[w].id)
        /\ requests' = requests + 1
        /\ Moves(w, At(w, "send"))
        /\ UNCHANGED <<jobs, running>>
  /\ UNCHANGED <<rows, texts, chunks, alive, files, swept, req, count>>

(* provider.embed fails: tried again, a few times, if it is worth it.       *)
EmbedFails(w) ==
  /\ worker[w].pc = "send" /\ CanFail /\ Fault(1)
  /\ \E e \in ProviderErrors :
       IF WorthRetrying(e) /\ worker[w].attempt < MaxRetries
         THEN Moves(w, [At(w, "record") EXCEPT !.attempt = @ + 1])
         ELSE Ends(w, "embedding")
  /\ UNCHANGED <<db, files, queue, req>>

(* Mutant: nothing ties a passage to its source's row.                      *)
EmbedBatchNoForeignKey(w) ==
  LET i == worker[w].id IN
  /\ worker[w].pc = "send"
  /\ chunks' = [chunks EXCEPT ![i] = [c \in Passages |->
                  IF c \in Batch(worker[w].left) THEN worker[w].model
                                                 ELSE chunks[i][c]]]
  /\ EmbedNext(w, worker[w].left \ Batch(worker[w].left))
  /\ UNCHANGED <<rows, texts, requests, alive, files, queue, req, count>>

(* The batch is stored and the row's updated_at moved, in one transaction;  *)
(* a deleted source or a passage already there is an IntegrityError.        *)
EmbedBatch(w) ==
  LET i == worker[w].id
      batch == Batch(worker[w].left)
  IN
  /\ worker[w].pc = "send"
  /\ IF Exists(i) /\ \A c \in batch : chunks[i][c] = None
       THEN /\ chunks' = [chunks EXCEPT ![i] = [c \in Passages |->
                            IF c \in batch THEN worker[w].model ELSE chunks[i][c]]]
            /\ rows' = [rows EXCEPT ![i].old = FALSE]
            /\ EmbedNext(w, worker[w].left \ batch)
            /\ UNCHANGED <<jobs, running>>
       ELSE JobEnds(w) /\ UNCHANGED <<chunks, rows>>
  /\ UNCHANGED <<texts, requests, alive, files, swept, req, count>>

(* _finish: only a row still processing takes the outcome.                  *)
Finish(w) ==
  LET i == worker[w].id IN
  /\ worker[w].pc = "finish"
  /\ rows' = IF Exists(i) /\ rows[i].status = "processing"
               THEN [rows EXCEPT ![i].error = worker[w].error, ![i].old = FALSE,
                      ![i].status = IF worker[w].error = "none" THEN "ready"
                                                                ELSE "failed"]
               ELSE rows
  /\ JobEnds(w)
  /\ UNCHANGED <<texts, chunks, requests, alive, files, swept, req, count>>

(* The worker dies or the job times out: the lock is released, and Arq runs *)
(* the job again or, after its last try, drops it.  The worker may come     *)
(* back deployed with another model.                                        *)
WorkerCrash(w) ==
  /\ worker[w].pc # "idle" /\ CanFail /\ Fault(1)
  /\ running' = running \ {worker[w].id}
  /\ \E kept \in BOOLEAN : jobs' = IF kept THEN jobs ELSE jobs \ {worker[w].id}
  /\ \E m \in Models : Moves(w, NoRun(m))
  /\ UNCHANGED <<db, files, swept, req>>

(* Redis keeps nothing across a restart.                                    *)
RedisRestart ==
  /\ jobs # {} /\ CanFail /\ Fault(1)
  /\ jobs' = {} /\ running' = {}
  /\ UNCHANGED <<db, files, swept, worker, req>>

-----------------------------------------------------------------------------
(* The sweep: requeue_stalled, once a minute.                               *)

(* A pending row grows old as it waits.  The threshold for a processing one *)
(* is longer than a job may last, so its run is over.                       *)
Age(i) ==
  /\ Exists(i) /\ ~rows[i].old
  /\ \/ rows[i].status = "pending"
     \/ rows[i].status = "processing" /\ Runs(i) = {}
  /\ rows' = [rows EXCEPT ![i].old = TRUE]
  /\ UNCHANGED <<texts, chunks, requests, alive, files, queue, worker, req, count>>

(* Mutant: only rows still pending are looked for.                          *)
StalledPendingOnly == {i \in Stored : rows[i].old /\ rows[i].status = "pending"}

Stalled == {i \in Stored : rows[i].old /\ rows[i].status \in {"pending", "processing"}}

SweepRead ==
  /\ swept = {} /\ Stalled # {}
  /\ swept' = Stalled
  /\ UNCHANGED <<db, files, jobs, running, worker, req, count>>

(* The same job id as an upload's: not queued twice.                        *)
SweepEnqueue(i) ==
  /\ i \in swept
  /\ swept' = swept \ {i}
  /\ EnqueueSource(i)
  /\ UNCHANGED <<db, files, running, worker, req, count>>

(* The day ends at 00:00 UTC.                                               *)
Midnight ==
  /\ requests > 0 /\ CanFail /\ Fault(1)
  /\ requests' = 0
  /\ UNCHANGED <<rows, texts, chunks, alive, files, queue, worker, req>>

-----------------------------------------------------------------------------
Whole(i, m) == \A c \in Passages : chunks[i][c] = m

(* An empty workspace, or one with a source read before texts were kept.    *)
Init ==
  /\ texts = {} /\ requests = 0 /\ jobs = {} /\ running = {} /\ swept = {}
  /\ alive = TRUE
  /\ req = [r \in Requests |-> Idle]
  /\ worker = [w \in Workers |-> NoRun(CHOOSE m \in Models : TRUE)]
  /\ \/ /\ rows = [i \in Ids |-> NoRow] /\ files = {}
        /\ chunks = [i \in Ids |-> [c \in Passages |-> None]]
        /\ count = [id |-> 0, faults |-> 0, asked |-> 0]
     \/ /\ \E f \in Files :
             /\ Accepted(f) /\ Extract(f) /\ (Quota > 0 => f.size <= Quota)
             /\ rows = [i \in Ids |-> IF i = 1 THEN [NewSource(f) EXCEPT !.status = "ready"]
                                               ELSE NoRow]
        /\ files = {1}
        /\ chunks = [i \in Ids |-> [c \in Passages |->
                       IF i = 1 THEN CHOOSE m \in Models : TRUE ELSE None]]
        /\ count = [id |-> 1, faults |-> 0, asked |-> 0]

RequestStep(r) ==
  \/ UploadReserve(r) \/ UploadSave(r) \/ UploadCommit(r) \/ RemoveFile(r)
  \/ Enqueue(r) \/ RetryCommit(r) \/ ViewStoreText(r) \/ DeleteWorkspaceFiles(r)

RunStep(w) ==
  \/ Begin(w) \/ ReadFile(w) \/ KeepText(w) \/ KeepReusable(w)
  \/ RecordRequest(w) \/ EmbedFails(w) \/ EmbedBatch(w) \/ Finish(w)

User(r) ==
  \/ \E f \in Files : UploadStart(r, f)
  \/ \E i \in Ids : DeleteSource(r, i) \/ RetryRead(r, i) \/ ViewReadAgain(r, i)
  \/ DeleteWorkspace(r)

Next ==
  \/ \E r \in Requests : User(r) \/ RequestStep(r) \/ ApiCrash(r)
  \/ \E w \in Workers, i \in Ids : ProcessSource(w, i)
  \/ \E w \in Workers : RunStep(w) \/ WorkerCrash(w)
  \/ \E i \in Ids : Age(i) \/ SweepEnqueue(i)
  \/ SweepRead \/ Midnight \/ RedisRestart

(* Requests and runs go on, a worker takes a job that waits, time passes    *)
(* and the sweep runs every minute.  Users, faults and the day's end may    *)
(* never come.                                                              *)
Fairness ==
  /\ \A r \in Requests : WF_vars(RequestStep(r))
  /\ \A w \in Workers : WF_vars(RunStep(w))
  /\ \A i \in Ids : /\ WF_vars(\E w \in Workers : ProcessSource(w, i))
                    /\ WF_vars(Age(i)) /\ WF_vars(SweepEnqueue(i))
  /\ WF_vars(SweepRead)

Spec == Init /\ [][Next]_vars /\ Fairness

-----------------------------------------------------------------------------
(* What should hold.                                                        *)

(* Every variable has its type; a passage or a text belongs to a row.       *)
TypeOK ==
  /\ \A i \in Ids : rows[i] \in Source \cup {NoRow}
  /\ texts \subseteq Stored /\ files \subseteq Ids
  /\ chunks \in [Ids -> [Passages -> Models \cup {None}]]
  /\ requests \in Nat /\ jobs \subseteq Ids /\ running \subseteq jobs
  /\ swept \subseteq Ids /\ alive \in BOOLEAN
  /\ \A w \in Workers : worker[w].model \in Models
  /\ count \in [id : Ids \cup {0}, faults : 0..MaxFaults, asked : 0..MaxAsked]

(* A ready source has all of its passages, all embedded by one model        *)
(* (ingestion.py: "Safe to run twice, or after a crash part-way"), so a     *)
(* search never ranks half a source, or two models' vectors of one source.  *)
ReadyIsWhole ==
  \A i \in Stored : rows[i].status = "ready" => \E m \in Models : Whole(i, m)

(* A source deleted while it is being read or embedded stays deleted: no    *)
(* passage, text or row of it comes back (ingestion._embed_batch).          *)
DeletedStaysDeleted ==
  /\ \A i \in Ids : ~Exists(i) => chunks[i] = [c \in Passages |-> None]
  /\ ~alive => Stored = {}

(* Uploads in parallel never take the workspace past its storage quota, and *)
(* the day's embedding requests, retries and all workers' together, never   *)
(* pass its limit (sources.upload, embedding_usage.record_request: "two     *)
(* workers cannot both take the last one").                                 *)
LimitsKept ==
  /\ Quota > 0 => Used <= Quota
  /\ DailyLimit > 0 => requests <= DailyLimit

(* Files that nobody will ask for again: without a row, and without a       *)
(* request that is about to insert it or to remove the file.                *)
Leaked == {i \in files \ Stored :
             ~\E r \in Requests : req[r].op = "prefix"
                \/ (req[r].op \in {"commit", "remove"} /\ req[r].id = i)}

(* A row is never without its file, whichever of upload, delete, crash and  *)
(* failed call come between (delete_source: "a row without its file would   *)
(* be a source that can never be retried").  A file without a row is on its *)
(* way to one, is about to be removed, or was left by a crash or a failed   *)
(* call, one file each; only the removal of a whole workspace's files can   *)
(* leave more when it fails.  No order of calls leaks one.                  *)
FilesMatchRows ==
  /\ Stored \subseteq files
  /\ alive => Cardinality(Leaked) <= count.faults
  /\ count.faults = 0 => Leaked = {}

(* An embedded passage is lost only with its row, or to a run under another *)
(* model: a crash, a retry or a second delivery never pays for it again     *)
(* (ingestion.py: "a run that dies loses at most the batch in flight").     *)
PaidForIsKept ==
  [][\A i \in Ids, c \in Passages :
       chunks[i][c] # None /\ chunks'[i][c] # chunks[i][c]
         => \/ rows'[i] = NoRow
            \/ \E w \in Runs(i) : worker[w].model # chunks[i][c]]_vars

(* A source waiting or in work is ready or failed in the end, or deleted,   *)
(* though its job was never queued, was lost with Redis or died with its    *)
(* worker (sources._enqueue: "the sweep will").                             *)
SourceSettles ==
  \A i \in Ids : (Exists(i) /\ rows[i].status \in {"pending", "processing"})
                   ~> (~Exists(i) \/ rows[i].status \in {"ready", "failed"})
=============================================================================
