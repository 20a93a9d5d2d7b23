------------------------------ MODULE BatchJob ------------------------------
(***************************************************************************)
(* CSV batch jobs: the API call that creates the job, stores the input in  *)
(* Redis under a time to live and sends the task; the broker; the worker   *)
(* task, which checks the job, fetches the input, analyses row after row   *)
(* and commits progress every ProgressInterval rows.  The task has no      *)
(* retry: an exception ends it and its message is acknowledged.            *)
(***************************************************************************)
EXTENDS Integers, OrmSession

CONSTANTS
  Jobs,              \* batches clients submit
  Workers,           \* worker processes of the Celery pool
  Length,            \* number of CSV rows of each job
  MaxRows,           \* MAX_ROWS
  ProgressInterval,  \* PROGRESS_INTERVAL
  Analysis,          \* Analysis[v][j][i]: outcome of row i of job j under
                     \* revision v of the integration profile
  MaxRevision,       \* bound: edits of the profile row
  MaxFaults,         \* bound: crashes, lost children, errors, failed requests
  MaxDuplicates,     \* bound: redeliveries of a message a worker still holds
  NoJob

Outcomes == {"ready", "repairable", "review_required", "unresolved", "failed"}

ASSUME ConstantsAssumption ==
  /\ Length \in [Jobs -> Nat]
  /\ MaxRows \in Nat
  /\ ProgressInterval \in Nat \ {0}
  /\ MaxRevision \in Nat
  /\ \A v \in 0..MaxRevision, j \in Jobs : Analysis[v][j] \in [1..Length[j] -> Outcomes]
  /\ MaxFaults \in Nat /\ MaxDuplicates \in Nat
  /\ NoJob \notin Jobs

VARIABLES
  api,         \* progress of each create_batch request
  job,         \* the batch_jobs rows
  input,       \* jobs whose CSV is in Redis
  revision,    \* current content of the profile row
  queue,       \* broker: copies waiting of each job's message
  pc, held,    \* worker: step of the task, job whose message it holds
  base, mem,   \* worker: the row as last flushed, and as changed in memory
  profile,     \* worker: profile revision loaded
  next,        \* worker: index of the next CSV row
  counts,      \* worker: outcomes counted so far
  faults, duplicates,
  dropped      \* jobs whose message was acknowledged before they ended

requestVars == <<api, input, revision>>
taskVars    == <<base, mem, profile, next, counts>>
vars == <<requestVars, job, queue, pc, held, taskVars, faults, duplicates, dropped>>

Terminal == {"COMPLETED", "PARTIAL", "FAILED"}
NoCounts == [o \in Outcomes |-> 0]

\* A batch_jobs row.  Its columns are one function so that a flush can be
\* told column by column.
Columns == Outcomes \cup {"status", "total_records", "processed_records"}
Row(status, total, processed, n) ==
  [f \in Columns |->
     CASE f = "status" -> status
       [] f = "total_records" -> total
       [] f = "processed_records" -> processed
       [] OTHER -> n[f]]
NoRow == Row("NONE", 0, 0, NoCounts)

Init ==
  /\ api = [j \in Jobs |-> "new"]
  /\ job = [j \in Jobs |-> NoRow]
  /\ input = {}
  /\ revision = 0
  /\ queue = [j \in Jobs |-> 0]
  /\ pc = [w \in Workers |-> "idle"]
  /\ held = [w \in Workers |-> NoJob]
  /\ base = [w \in Workers |-> NoRow]
  /\ mem = [w \in Workers |-> NoRow]
  /\ profile = [w \in Workers |-> 0]
  /\ next = [w \in Workers |-> 1]
  /\ counts = [w \in Workers |-> NoCounts]
  /\ faults = 0 /\ duplicates = 0
  /\ dropped = {}

-----------------------------------------------------------------------------
(* The API request: job row, input, task, in this order.                   *)

CreateJob(j) ==
  /\ api[j] = "new"
  /\ api' = [api EXCEPT ![j] = "created"]
  /\ job' = [job EXCEPT ![j] = Row("QUEUED", 0, 0, NoCounts)]
  /\ UNCHANGED <<input, revision, queue, pc, held, taskVars, faults, duplicates, dropped>>

StoreInput(j) ==
  /\ api[j] = "created"
  /\ api' = [api EXCEPT ![j] = "stored"]
  /\ input' = input \cup {j}
  /\ UNCHANGED <<job, revision, queue, pc, held, taskVars, faults, duplicates, dropped>>

Enqueue(j) ==
  /\ api[j] = "stored"
  /\ api' = [api EXCEPT ![j] = "enqueued"]
  /\ queue' = [queue EXCEPT ![j] = @ + 1]
  /\ UNCHANGED <<job, input, revision, pc, held, taskVars, faults, duplicates, dropped>>

\* Redis or the broker is unreachable, or the process dies, in between.
RequestFails(j) ==
  /\ api[j] \in {"created", "stored"}
  /\ faults < MaxFaults
  /\ faults' = faults + 1
  /\ api' = [api EXCEPT ![j] = "dead"]
  /\ UNCHANGED <<job, input, revision, queue, pc, held, taskVars, duplicates, dropped>>

\* INPUT_TTL_SECONDS pass.
ExpireInput(j) ==
  /\ j \in input
  /\ faults < MaxFaults
  /\ faults' = faults + 1
  /\ input' = input \ {j}
  /\ UNCHANGED <<api, job, revision, queue, pc, held, taskVars, duplicates, dropped>>

\* The profile row a job refers to is edited (drafts may be used for jobs).
EditProfile ==
  /\ revision < MaxRevision
  /\ revision' = revision + 1
  /\ UNCHANGED <<api, job, input, queue, pc, held, taskVars, faults, duplicates, dropped>>

-----------------------------------------------------------------------------
(* The worker's task.                                                      *)

Goto(w, step) == pc' = [pc EXCEPT ![w] = step]

Fetch(w, j) ==
  /\ pc[w] = "idle" /\ queue[j] > 0
  /\ queue' = [queue EXCEPT ![j] = @ - 1]
  /\ held' = [held EXCEPT ![w] = j]
  /\ Goto(w, "fetched")
  /\ UNCHANGED <<requestVars, job, taskVars, faults, duplicates, dropped>>

\* Mutant: a redelivered message reprocesses a job that ended.
LoadJobAlways(w) ==
  LET row == job[held[w]] IN
  /\ pc[w] = "fetched"
  /\ base' = [base EXCEPT ![w] = row]
  /\ mem' = [mem EXCEPT ![w] = row]
  /\ Goto(w, "loaded")
  /\ UNCHANGED <<requestVars, job, queue, held, profile, next, counts,
                 faults, duplicates, dropped>>

\* Idempotency: a completed, partial or failed job is not reprocessed.
LoadJob(w) ==
  LET row == job[held[w]] IN
  /\ pc[w] = "fetched"
  /\ base' = [base EXCEPT ![w] = row]
  /\ mem' = [mem EXCEPT ![w] = row]
  /\ Goto(w, IF row["status"] \in Terminal THEN "returned" ELSE "loaded")
  /\ UNCHANGED <<requestVars, job, queue, held, profile, next, counts,
                 faults, duplicates, dropped>>

GetInput(w) ==
  /\ pc[w] = "loaded"
  /\ Goto(w, IF held[w] \in input THEN "input" ELSE "raised")
  /\ UNCHANGED <<requestVars, job, queue, held, taskVars, faults, duplicates, dropped>>

\* session.commit() of the worker with the in-memory row m.
Commit(w, m) ==
  /\ job' = [job EXCEPT ![held[w]] = Flush(@, m, base[w])]
  /\ base' = [base EXCEPT ![w] = m]
  /\ mem' = [mem EXCEPT ![w] = m]

\* Mutant: a status the job model does not have.
LimitExceededOther(w) ==
  /\ pc[w] = "input"
  /\ Length[held[w]] > MaxRows
  /\ Commit(w, [mem[w] EXCEPT !["status"] = "LIMIT_EXCEEDED"])
  /\ Goto(w, "raised")
  /\ UNCHANGED <<requestVars, queue, held, profile, next, counts, faults, duplicates, dropped>>

LimitExceeded(w) ==
  /\ pc[w] = "input"
  /\ Length[held[w]] > MaxRows
  /\ Commit(w, [mem[w] EXCEPT !["status"] = "FAILED"])
  /\ Goto(w, "raised")
  /\ UNCHANGED <<requestVars, queue, held, profile, next, counts, faults, duplicates, dropped>>

Begin(w) ==
  /\ pc[w] = "input"
  /\ Length[held[w]] <= MaxRows
  /\ Commit(w, [mem[w] EXCEPT !["status"] = "RUNNING", !["total_records"] = Length[held[w]]])
  /\ next' = [next EXCEPT ![w] = 1]
  /\ counts' = [counts EXCEPT ![w] = NoCounts]
  /\ Goto(w, "begun")
  /\ UNCHANGED <<requestVars, queue, held, profile, faults, duplicates, dropped>>

\* _load_profile reads the live profile row, not the version of the job.
LoadProfile(w) ==
  /\ pc[w] = "begun"
  /\ profile' = [profile EXCEPT ![w] = revision]
  /\ Goto(w, "rows")
  /\ UNCHANGED <<requestVars, job, queue, held, base, mem, next, counts,
                 faults, duplicates, dropped>>

\* _write_counts
WithCounts(row, n) == [f \in DOMAIN row |-> IF f \in Outcomes THEN n[f] ELSE row[f]]

\* Mutant: the interval commit writes the counters before the row is counted.
ProcessRowStaleCounts(w) ==
  LET j == held[w]
      i == next[w]
      m == [mem[w] EXCEPT !["processed_records"] = i]
  IN
  /\ pc[w] = "rows" /\ i <= Length[j]
  /\ counts' = [counts EXCEPT ![w][Analysis[profile[w]][j][i]] = @ + 1]
  /\ next' = [next EXCEPT ![w] = i + 1]
  /\ IF i % ProgressInterval = 0 \/ i = Length[j]
     THEN Commit(w, WithCounts(m, counts[w]))
     ELSE mem' = [mem EXCEPT ![w] = m] /\ UNCHANGED <<job, base>>
  /\ UNCHANGED <<requestVars, queue, pc, held, profile, faults, duplicates, dropped>>

\* One iteration over the CSV rows: analyse, count, and at the interval or
\* the last row write the counters and commit.
ProcessRow(w) ==
  LET j == held[w]
      i == next[w]
      n == [counts[w] EXCEPT ![Analysis[profile[w]][j][i]] = @ + 1]
      m == [mem[w] EXCEPT !["processed_records"] = i]
  IN
  /\ pc[w] = "rows" /\ i <= Length[j]
  /\ counts' = [counts EXCEPT ![w] = n]
  /\ next' = [next EXCEPT ![w] = i + 1]
  /\ IF i % ProgressInterval = 0 \/ i = Length[j]
     THEN Commit(w, WithCounts(m, n))
     ELSE mem' = [mem EXCEPT ![w] = m] /\ UNCHANGED <<job, base>>
  /\ UNCHANGED <<requestVars, queue, pc, held, profile, faults, duplicates, dropped>>

\* Mutant: failed rows do not make the job PARTIAL.
FinishCompleted(w) ==
  /\ pc[w] = "rows" /\ next[w] > Length[held[w]]
  /\ Commit(w, WithCounts([mem[w] EXCEPT !["status"] = "COMPLETED"], counts[w]))
  /\ Goto(w, "finished")
  /\ UNCHANGED <<requestVars, queue, held, profile, next, counts, faults, duplicates, dropped>>

Finish(w) ==
  LET status == IF counts[w]["failed"] = 0 THEN "COMPLETED" ELSE "PARTIAL" IN
  /\ pc[w] = "rows" /\ next[w] > Length[held[w]]
  /\ Commit(w, WithCounts([mem[w] EXCEPT !["status"] = status], counts[w]))
  /\ Goto(w, "finished")
  /\ UNCHANGED <<requestVars, queue, held, profile, next, counts, faults, duplicates, dropped>>

\* The input is deleted; a failing delete is only logged.
DeleteInput(w) ==
  /\ pc[w] = "finished"
  /\ \/ input' = input \ {held[w]} /\ faults' = faults
     \/ faults < MaxFaults /\ faults' = faults + 1 /\ input' = input
  /\ Goto(w, "returned")
  /\ UNCHANGED <<api, revision, job, queue, held, taskVars, duplicates, dropped>>

\* The task ends: session closed, message acknowledged or given back.
Release(w) ==
  /\ Goto(w, "idle")
  /\ held' = [held EXCEPT ![w] = NoJob]
  /\ base' = [base EXCEPT ![w] = NoRow]
  /\ mem' = [mem EXCEPT ![w] = NoRow]
  /\ profile' = [profile EXCEPT ![w] = 0]
  /\ next' = [next EXCEPT ![w] = 1]
  /\ counts' = [counts EXCEPT ![w] = NoCounts]

Acknowledge(w) ==
  /\ pc[w] = "returned"
  /\ Release(w)
  /\ UNCHANGED <<requestVars, job, queue, faults, duplicates, dropped>>

\* An exception ends the task; with no retry the message is acknowledged.
Raise(w) ==
  /\ pc[w] = "raised"
  /\ Release(w)
  /\ dropped' = dropped \cup {held[w]}
  /\ UNCHANGED <<requestVars, job, queue, faults, duplicates>>

TaskError(w) ==
  /\ pc[w] \in {"fetched", "loaded", "input", "begun", "rows"}
  /\ faults < MaxFaults
  /\ faults' = faults + 1
  /\ Goto(w, "raised")
  /\ UNCHANGED <<requestVars, job, queue, held, taskVars, duplicates, dropped>>

\* Mutant: the message was acknowledged when it was fetched.
WorkerDiesAckedEarly(w) ==
  /\ pc[w] # "idle"
  /\ faults < MaxFaults
  /\ faults' = faults + 1
  /\ Release(w)
  /\ UNCHANGED <<requestVars, job, queue, duplicates, dropped>>

WorkerDies(w) ==
  /\ pc[w] # "idle"
  /\ faults < MaxFaults
  /\ faults' = faults + 1
  /\ queue' = [queue EXCEPT ![held[w]] = @ + 1]
  /\ Release(w)
  /\ UNCHANGED <<requestVars, job, duplicates, dropped>>

ChildDies(w) ==
  /\ pc[w] # "idle"
  /\ faults < MaxFaults
  /\ faults' = faults + 1
  /\ dropped' = dropped \cup {held[w]}
  /\ Release(w)
  /\ UNCHANGED <<requestVars, job, queue, duplicates>>

Redeliver(w) ==
  /\ pc[w] # "idle"
  /\ duplicates < MaxDuplicates
  /\ duplicates' = duplicates + 1
  /\ queue' = [queue EXCEPT ![held[w]] = @ + 1]
  /\ UNCHANGED <<requestVars, job, pc, held, taskVars, faults, dropped>>

-----------------------------------------------------------------------------
Request(j) == CreateJob(j) \/ StoreInput(j) \/ Enqueue(j)

Task(w) == \/ \E j \in Jobs : Fetch(w, j)
           \/ LoadJob(w) \/ GetInput(w) \/ LimitExceeded(w) \/ Begin(w) \/ LoadProfile(w)
           \/ ProcessRow(w) \/ Finish(w) \/ DeleteInput(w) \/ Acknowledge(w) \/ Raise(w)

Fault(w) == TaskError(w) \/ WorkerDies(w) \/ ChildDies(w) \/ Redeliver(w)

Next == \/ \E j \in Jobs : Request(j) \/ RequestFails(j) \/ ExpireInput(j)
        \/ EditProfile
        \/ \E w \in Workers : Task(w) \/ Fault(w)

Spec == Init /\ [][Next]_vars

\* Workers keep taking messages and their tasks run on.
FairSpec == Spec /\ \A w \in Workers : WF_vars(Task(w))

-----------------------------------------------------------------------------
Steps == {"idle", "fetched", "loaded", "input", "begun", "rows", "finished", "returned", "raised"}
Statuses == {"NONE", "QUEUED", "RUNNING"} \cup Terminal
IsRow(row) ==
  /\ DOMAIN row = Columns
  /\ row["status"] \in Statuses
  /\ \A f \in Columns \ {"status"} : row[f] \in Nat

TypeOK ==
  /\ api \in [Jobs -> {"new", "created", "stored", "enqueued", "dead"}]
  /\ \A j \in Jobs : IsRow(job[j])
  /\ input \subseteq Jobs
  /\ revision \in 0..MaxRevision
  /\ queue \in [Jobs -> Nat]
  /\ pc \in [Workers -> Steps]
  /\ held \in [Workers -> Jobs \cup {NoJob}]
  /\ \A w \in Workers : pc[w] = "idle" <=> held[w] = NoJob
  /\ \A w \in Workers : IsRow(base[w]) /\ IsRow(mem[w])
  /\ profile \in [Workers -> 0..MaxRevision]
  /\ next \in [Workers -> Nat]
  /\ counts \in [Workers -> [Outcomes -> Nat]]
  /\ faults \in 0..MaxFaults /\ duplicates \in 0..MaxDuplicates
  /\ dropped \subseteq Jobs

Counted(row) == row["ready"] + row["repairable"] + row["review_required"] + row["unresolved"]
                  + row["failed"]

\* The committed counters always add up to the committed progress, which never
\* passes the total: the row a client polls is consistent at every commit, also
\* after a restart has begun the job again.
ProgressAddsUp ==
  \A j \in Jobs : /\ Counted(job[j]) = job[j]["processed_records"]
                  /\ job[j]["processed_records"] <= job[j]["total_records"]

\* A COMPLETED or PARTIAL job has processed every row, and is PARTIAL exactly
\* when a row failed, however often the task was redelivered.
FinishedIsWhole ==
  \A j \in Jobs : job[j]["status"] \in {"COMPLETED", "PARTIAL"} =>
    /\ job[j]["processed_records"] = Length[j]
    /\ job[j]["status"] = "PARTIAL" <=> job[j]["failed"] > 0

\* "A completed/partial/failed job is not reprocessed": once the row says that
\* the job ended, no step changes the row.
TerminalIsFinal ==
  [][\A j \in Jobs : job[j]["status"] \in Terminal => job'[j] = job[j]]_vars

\* An enqueued job ends, unless an exception, a lost child or an expired input
\* made the task give its message up.
EndsUnlessDropped ==
  \A j \in Jobs : api[j] = "enqueued" ~> (job[j]["status"] \in Terminal \/ j \in dropped)

\* A job is owed while its message waits or a worker holds it, and carried out
\* when its row says that it ended.
Owed == {j \in Jobs : queue[j] > 0 \/ \E w \in Workers : held[w] = j}
Ended == [j \in Jobs |-> IF job[j]["status"] \in Terminal THEN 1 ELSE 0]
Queue == INSTANCE AtLeastOnce WITH Tasks <- Jobs, owed <- Owed, done <- Ended

\* With one worker at a time on a job, the API, broker and worker implement
\* execution of a job once and for good: a message is acknowledged only when
\* the job ended or was given up, and an ended job is not carried out again
\* whatever is redelivered.
ImplementsAtLeastOnce == Queue!Spec
=============================================================================
