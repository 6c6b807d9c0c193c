---------------------------- MODULE AIGeneration ----------------------------
(***************************************************************************)
(* AI queries of one workspace, from creation to what their readers are    *)
(* told: services/ai_queries.py and ai_usage.py (the row, the slots and the *)
(* daily budget), ai_runner.py (the task that drives the model),            *)
(* ai_buffer.py (its events and flags in Redis) and ai_stream.py (a reader  *)
(* of the event stream).                                                    *)
(*                                                                         *)
(* The row in Postgres, the events in Redis and the task in one process     *)
(* can each outlive the others.  Tokens are left out: of an event stream    *)
(* only the terminal event is kept.  Time is left to nondeterminism: a row  *)
(* grows old, and a heartbeat that is not refreshed lapses.                 *)
(***************************************************************************)
EXTENDS Naturals, FiniteSets, FiniteSetsExt

CONSTANTS
  Queries,         \* the queries of one workspace
  Readers,         \* open event streams
  MaxConcurrent,   \* ai_max_concurrent_queries; 0 is no limit
  DailyLimit,      \* ai_daily_token_limit; 0 is no limit
  PromptTokens,    \* what a prompt costs, as estimated up front
  ResponseTokens,  \* what a response costs at most
  Nobody           \* no query

ASSUME AIAssumption ==
  /\ {MaxConcurrent, DailyLimit, PromptTokens, ResponseTokens} \subseteq Nat
  /\ Nobody \notin Queries /\ IsFiniteSet(Queries)

VARIABLES
  row,        \* row[q]: [status, tokens], the ai_queries row
  old,        \* the queries created longer than ai_query_timeout_seconds ago
  txn,        \* txn[q]: [open, expired], the transaction that creates q
  task,       \* task[q]: [pc, outcome], the GenerationRunner task
  event,      \* event[q]: the terminal event in the Redis stream, or "none"
  flag,       \* flag[q]: the Redis keys [cancel, reader, runner]
  reader      \* reader[r]: [pc, query, seen, told]

vars == <<row, old, txn, task, event, flag, reader>>

Ended == {"completed", "cancelled", "failed"}

Streaming == {q \in Queries : row[q].status = "streaming"}

(* Mutant: the status itself goes out as the event's type.                  *)
EventOfStatus(status) == status

(* terminal_from_row and _terminal_event: one event per final status.       *)
EventOf(status) ==
  CASE status = "completed" -> "done"
    [] status = "cancelled" -> "cancelled"
    [] OTHER -> "error"

-----------------------------------------------------------------------------
(* The row: ai_queries.py and ai_usage.py.                                  *)

(* get_usage: the tokens of the rows that ended today.                      *)
TokensUsed == MapThenSumSet(LAMBDA q : row[q].tokens, Queries)

(* expire_abandoned: what the transaction that holds the lock would end.    *)
Abandoned == Streaming \cap old

(* What enforce checks once the abandoned rows are ended.                   *)
SlotIsFree == MaxConcurrent > 0 => Cardinality(Streaming \ Abandoned) < MaxConcurrent

(* Mutant: the prompt that asks to be admitted is not counted.              *)
WithinBudgetBefore == DailyLimit > 0 => TokensUsed <= DailyLimit

WithinBudget == DailyLimit > 0 => TokensUsed + PromptTokens <= DailyLimit

Closed == [open |-> FALSE, expired |-> {}]

(* A row that an open transaction has expired is locked until that ends.    *)
RowFree(q) == \A p \in Queries : q \notin txn[p].expired

(* Mutant: the limits are checked without taking the workspace's lock.      *)
EnforceUnlocked(q) ==
  /\ row[q].status = "none" /\ ~txn[q].open
  /\ SlotIsFree /\ WithinBudget
  /\ txn' = [txn EXCEPT ![q] = [open |-> TRUE, expired |-> Abandoned]]
  /\ UNCHANGED <<row, old, task, event, flag, reader>>

(* lock_workspace and enforce: one transaction at a time ends the abandoned *)
(* rows, then checks the slots and the budget.  A refusal is rolled back    *)
(* whole, so it leaves no trace.                                            *)
Enforce(q) ==
  /\ row[q].status = "none"
  /\ \A p \in Queries : ~txn[p].open
  /\ SlotIsFree /\ WithinBudget
  /\ txn' = [txn EXCEPT ![q] = [open |-> TRUE, expired |-> Abandoned]]
  /\ UNCHANGED <<row, old, task, event, flag, reader>>

(* create_query inserts the row and commits, which releases the lock.       *)
Insert(q) ==
  /\ txn[q].open
  /\ row' = [p \in Queries |->
               IF p = q THEN [status |-> "streaming", tokens |-> 0]
               ELSE IF p \in txn[q].expired THEN [status |-> "failed", tokens |-> 0]
               ELSE row[p]]
  /\ txn' = [txn EXCEPT ![q] = Closed]
  /\ task' = [task EXCEPT ![q].pc = "created"]
  /\ UNCHANGED <<old, event, flag, reader>>

(* The request dies before its commit.                                      *)
Rollback(q) ==
  /\ txn[q].open
  /\ txn' = [txn EXCEPT ![q] = Closed]
  /\ UNCHANGED <<row, old, task, event, flag, reader>>

(* A sources-only question without sources is answered without the model.   *)
AnswerWithoutSources(q) ==
  /\ row[q].status = "none" /\ ~txn[q].open
  /\ row' = [row EXCEPT ![q].status = "completed"]
  /\ UNCHANGED <<old, txn, task, event, flag, reader>>

(* Mutant: finish() without its WHERE status = 'streaming'.                 *)
FinishedAnyway(q, status, tokens) ==
  [row EXCEPT ![q] = [status |-> status, tokens |-> tokens]]

(* finish(): only a row that still streams is ended.                        *)
Finished(q, status, tokens) ==
  IF row[q].status = "streaming" THEN [row EXCEPT ![q] = [status |-> status, tokens |-> tokens]]
                                 ELSE row

(* The row is now older than ai_query_timeout_seconds.                      *)
GrowOld(q) ==
  /\ q \in Streaming \ old
  /\ old' = old \cup {q}
  /\ UNCHANGED <<row, txn, task, event, flag, reader>>

-----------------------------------------------------------------------------
(* The runner: ai_runner.py.                                                *)

(* start(): both heartbeats, then the task.                                 *)
Start(q) ==
  /\ task[q].pc = "created"
  /\ task' = [task EXCEPT ![q].pc = "relay"]
  /\ flag' = [flag EXCEPT ![q].reader = TRUE, ![q].runner = TRUE]
  /\ UNCHANGED <<row, old, txn, event, reader>>

(* _relay returns: it was cancelled or is unread, is out of time, has been  *)
(* told the usage, or the provider failed; shutdown cancels the task.       *)
Outcomes(q) ==
  {"completed", "failed"} \cup (IF flag[q].cancel \/ ~flag[q].reader THEN {"cancelled"} ELSE {})

RelayEnds(q) ==
  /\ task[q].pc = "relay"
  /\ \E s \in Outcomes(q) : task' = [task EXCEPT ![q] = [pc |-> "finish", outcome |-> s]]
  /\ UNCHANGED <<row, old, txn, event, flag, reader>>

(* The periodic check refreshes the runner's heartbeat.                     *)
Control(q) ==
  /\ task[q].pc = "relay"
  /\ ~flag[q].cancel /\ flag[q].reader /\ ~flag[q].runner
  /\ flag' = [flag EXCEPT ![q].runner = TRUE]
  /\ UNCHANGED <<row, old, txn, task, event, reader>>

(* What an ended generation is charged: the prompt and up to a response; a  *)
(* failure that produced nothing is free.                                   *)
Charges(s) ==
  {PromptTokens + n : n \in 0..ResponseTokens} \cup (IF s = "failed" THEN {0} ELSE {})

(* _finish, the row: recorded, or found ended already, or the database      *)
(* raised -- with or without having committed.                              *)
Record(q) ==
  /\ task[q].pc = "finish"
  /\ RowFree(q)
  /\ \E n \in Charges(task[q].outcome) :
       \/ /\ row' = Finished(q, task[q].outcome, n)
          /\ task' = [task EXCEPT ![q] =
                        [pc |-> "publish",
                         outcome |-> IF row[q].status = "streaming" THEN @.outcome ELSE "failed"]]
       \/ /\ row' \in {row, Finished(q, task[q].outcome, n)}
          /\ task' = [task EXCEPT ![q] = [pc |-> "publish", outcome |-> "failed"]]
  /\ UNCHANGED <<old, txn, event, flag, reader>>

(* Mutant: the terminal event goes out before the row is written.           *)
AnnounceEarly(q) ==
  /\ task[q].pc \in {"finish", "publish"}
  /\ event' = [event EXCEPT ![q] = EventOf(task[q].outcome)]
  /\ flag' = [flag EXCEPT ![q].runner = FALSE]
  /\ task' = [task EXCEPT ![q].pc = IF @ = "publish" THEN "over" ELSE @]
  /\ UNCHANGED <<row, old, txn, reader>>

(* _finish, the event: after the row, so that a reader that sees `done` may *)
(* apply at once.  If Redis fails, the heartbeat just lapses.               *)
Announce(q) ==
  /\ task[q].pc = "publish"
  /\ task' = [task EXCEPT ![q].pc = "over"]
  /\ \/ /\ event' = [event EXCEPT ![q] = EventOf(task[q].outcome)]
        /\ flag' = [flag EXCEPT ![q].runner = FALSE]
     \/ UNCHANGED <<event, flag>>
  /\ UNCHANGED <<row, old, txn, reader>>

(* The process dies: the task is gone, whatever it was doing.               *)
Crash(q) ==
  /\ task[q].pc \in {"created", "relay", "finish", "publish"}
  /\ task' = [task EXCEPT ![q].pc = "over"]
  /\ UNCHANGED <<row, old, txn, event, flag, reader>>

(* A heartbeat lapses: the runner's if its task is gone, is finishing or is *)
(* held up; the reader's, which only a running relay looks at, if nobody    *)
(* follows the stream or a slow client does.                                *)
RunnerLapses(q) ==
  /\ flag[q].runner
  /\ flag' = [flag EXCEPT ![q].runner = FALSE]
  /\ UNCHANGED <<row, old, txn, task, event, reader>>

ReaderLapses(q) ==
  /\ flag[q].reader /\ task[q].pc = "relay"
  /\ flag' = [flag EXCEPT ![q].reader = FALSE]
  /\ UNCHANGED <<row, old, txn, task, event, reader>>

(* The events expire some time after the last one was added.                *)
BufferExpires(q) ==
  /\ event[q] # "none" /\ task[q].pc = "over"
  /\ event' = [event EXCEPT ![q] = "none"]
  /\ UNCHANGED <<row, old, txn, task, flag, reader>>

-----------------------------------------------------------------------------
(* Readers: routers/ai.py and ai_stream.py.                                 *)

Unconnected == [pc |-> "idle", query |-> Nobody, seen |-> "none", told |-> "none"]

Tell(r, e) == reader' = [reader EXCEPT ![r].pc = "told", ![r].told = e]

(* cancel_query: a flag, for a row that still streams.                      *)
RequestCancel(q) ==
  /\ q \in Streaming
  /\ ~flag[q].cancel
  /\ flag' = [flag EXCEPT ![q].cancel = TRUE]
  /\ UNCHANGED <<row, old, txn, task, event, reader>>

(* stream_query reads the row and ends its transaction; follow() then works *)
(* from that copy of it.                                                    *)
OpenStream(r, q) ==
  /\ reader[r].pc = "idle"
  /\ row[q].status # "none"
  /\ reader' = [reader EXCEPT ![r] = [pc |-> IF row[q].status = "streaming" THEN "loop" ELSE "replay",
                                      query |-> q, seen |-> row[q].status, told |-> "none"]]
  /\ UNCHANGED <<row, old, txn, task, event, flag>>

(* A row that had ended: its events if they are still there, or the row.    *)
ReplayRow(r) ==
  LET q == reader[r].query
  IN  /\ reader[r].pc = "replay"
      /\ Tell(r, IF event[q] # "none" THEN event[q] ELSE EventOf(reader[r].seen))
      /\ UNCHANGED <<row, old, txn, task, event, flag>>

(* The loop refreshes the readers' heartbeat and reads, until it is handed  *)
(* the terminal event.                                                      *)
TouchReader(r) ==
  LET q == reader[r].query
  IN  /\ reader[r].pc = "loop"
      /\ ~flag[q].reader
      /\ flag' = [flag EXCEPT ![q].reader = TRUE]
      /\ UNCHANGED <<row, old, txn, task, event, reader>>

ReadEvents(r) ==
  LET q == reader[r].query
  IN  /\ reader[r].pc = "loop"
      /\ event[q] # "none"
      /\ Tell(r, event[q])
      /\ UNCHANGED <<row, old, txn, task, event, flag>>

(* Nothing to read and no heartbeat: the runner seems dead.                 *)
FindDead(r) ==
  LET q == reader[r].query
  IN  /\ reader[r].pc = "loop"
      /\ event[q] = "none" /\ ~flag[q].runner
      /\ reader' = [reader EXCEPT ![r].pc = "dead"]
      /\ UNCHANGED <<row, old, txn, task, event, flag>>

(* Mutant: a runner found dead sends the reader round the loop again.       *)
ReadAgainForever(r) ==
  LET q == reader[r].query
  IN  /\ reader[r].pc = "dead"
      /\ \/ event[q] # "none" /\ Tell(r, event[q])
         \/ event[q] = "none" /\ reader' = [reader EXCEPT ![r].pc = "loop"]
      /\ UNCHANGED <<row, old, txn, task, event, flag>>

(* It may have finished between the read and the check: read once more.     *)
ReadAgain(r) ==
  LET q == reader[r].query
  IN  /\ reader[r].pc = "dead"
      /\ \/ event[q] # "none" /\ Tell(r, event[q])
         \/ event[q] = "none" /\ reader' = [reader EXCEPT ![r].pc = "abandon"]
      /\ UNCHANGED <<row, old, txn, task, event, flag>>

(* _abandon: the row is ended here, unless it ended meanwhile, and the      *)
(* reader is told what the row then says.                                   *)
Abandon(r) ==
  LET q == reader[r].query
  IN  /\ reader[r].pc = "abandon"
      /\ RowFree(q)
      /\ row' = Finished(q, "failed", 0)
      /\ Tell(r, EventOf(row'[q].status))
      /\ UNCHANGED <<old, txn, task, event, flag>>

(* The connection drops; the client resumes it, at most a few times.        *)
CloseStream(r) ==
  /\ reader[r].pc \in {"replay", "loop", "dead", "abandon"}
  /\ reader' = [reader EXCEPT ![r] = Unconnected]
  /\ UNCHANGED <<row, old, txn, task, event, flag>>

-----------------------------------------------------------------------------
Init ==
  /\ row = [q \in Queries |-> [status |-> "none", tokens |-> 0]]
  /\ old = {}
  /\ txn = [q \in Queries |-> Closed]
  /\ task = [q \in Queries |-> [pc |-> "none", outcome |-> "failed"]]
  /\ event = [q \in Queries |-> "none"]
  /\ flag = [q \in Queries |-> [cancel |-> FALSE, reader |-> FALSE, runner |-> FALSE]]
  /\ reader = [r \in Readers |-> Unconnected]

Run(q) == Start(q) \/ RelayEnds(q) \/ Record(q) \/ Announce(q)

Follow(r) == ReplayRow(r) \/ ReadEvents(r) \/ FindDead(r) \/ ReadAgain(r) \/ Abandon(r)

Next ==
  \/ \E q \in Queries :
       \/ Enforce(q) \/ Insert(q) \/ Rollback(q) \/ AnswerWithoutSources(q) \/ GrowOld(q)
       \/ Run(q) \/ Control(q) \/ Crash(q) \/ RunnerLapses(q) \/ ReaderLapses(q)
       \/ BufferExpires(q) \/ RequestCancel(q)
  \/ \E r \in Readers :
       \/ Follow(r) \/ TouchReader(r) \/ CloseStream(r)
       \/ \E q \in Queries : OpenStream(r, q)

Spec == Init /\ [][Next]_vars

(* The runner and a reader each keep taking their steps; both go on even if *)
(* the row they update is locked now and then, since a lock queue is fair.  *)
(* A transaction ends, and a heartbeat nobody refreshes runs out.           *)
Fairness ==
  /\ \A q \in Queries :
       /\ SF_vars(Run(q))
       /\ WF_vars(Insert(q) \/ Rollback(q))
       /\ WF_vars(task[q].pc = "over" /\ RunnerLapses(q))
  /\ \A r \in Readers : SF_vars(Follow(r))

FairSpec == Spec /\ Fairness

-----------------------------------------------------------------------------
(* Properties.                                                              *)

(* Every variable keeps its type.                                           *)
TypeOK ==
  /\ row \in [Queries -> [status : Ended \cup {"none", "streaming"}, tokens : Nat]]
  /\ old \subseteq Queries
  /\ txn \in [Queries -> [open : BOOLEAN, expired : SUBSET Queries]]
  /\ task \in [Queries -> [pc : {"none", "created", "relay", "finish", "publish", "over"},
                           outcome : Ended]]
  /\ event \in [Queries -> {"none", "done", "cancelled", "error"}]
  /\ flag \in [Queries -> [cancel : BOOLEAN, reader : BOOLEAN, runner : BOOLEAN]]
  /\ reader \in [Readers -> [pc : {"idle", "replay", "loop", "dead", "abandon", "told"},
                             query : Queries \cup {Nobody},
                             seen : Ended \cup {"none", "streaming"},
                             told : {"none", "done", "cancelled", "error"}]]

(* lock_workspace: "two requests cannot both take the last slot": however   *)
(* requests, expiries and finishing runners interleave, a workspace never   *)
(* has more rows streaming than ai_max_concurrent_queries.                  *)
StreamingWithinLimit == MaxConcurrent > 0 => Cardinality(Streaming) <= MaxConcurrent

(* What concurrent admissions can cost: enforce admits on the prompt alone, *)
(* and counts only rows that ended, so a day's total can exceed the limit   *)
(* by the last response and by everything the other slots were running, not *)
(* just "by one response's worth" (enforce).                                *)
OvershootBounded ==
  MaxConcurrent > 0 /\ DailyLimit > 0 =>
    TokensUsed <= DailyLimit + ResponseTokens
                  + (MaxConcurrent - 1) * (PromptTokens + ResponseTokens)

(* _finish writes "the row first: a reader that sees `done` may apply at    *)
(* once": a reader told `done` or `cancelled`, by the runner's event or     *)
(* from the row, finds a row that says the same -- even if another reader   *)
(* or an expiry ended the row while the runner was finishing.               *)
ToldWhatTheRowSays ==
  \A r \in Readers :
    LET status == row[reader[r].query].status
    IN  /\ reader[r].told = "done" => status = "completed"
        /\ reader[r].told = "cancelled" => status = "cancelled"

(* A row ends once: the runner, an expiry and any number of readers that    *)
(* take the runner for dead may all try to end it, and whoever comes second *)
(* changes neither its status nor what it was charged.                      *)
EndedIsFinal ==
  [][\A q \in Queries : row[q].status \in Ended => row'[q] = row[q]]_vars

(* A reader that stays connected is told how the query ended, whether the   *)
(* runner finished, died, lost its event or outlived the buffer.            *)
ReaderIsTold ==
  \A r \in Readers :
    (reader[r].pc \in {"replay", "loop", "dead", "abandon"})
      ~> (reader[r].pc \in {"told", "idle"})
=============================================================================
