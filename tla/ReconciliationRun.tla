-------------------------- MODULE ReconciliationRun --------------------------
(***************************************************************************)
(* Matching reconciliation runs: the API call that stores the records and  *)
(* queues a run, the Celery broker (late acknowledgement, redelivery,      *)
(* retry), the worker task that executes the run in one database session,  *)
(* the operator's decisions and the publication of matching policies.      *)
(*                                                                         *)
(* A match record is a row of match_records.  Two rows may carry the same  *)
(* record_id (there is no unique constraint), so Rows are the rows and     *)
(* RecordId gives each one its record_id.  What the matcher says of a pair *)
(* of rows under a policy version is the table Judge.                      *)
(***************************************************************************)
EXTENDS Integers, FiniteSets

CONSTANTS
  Runs,           \* reconciliation runs a client may start
  Workers,        \* worker processes of the Celery pool
  Rows,           \* rows that may be inserted in match_records
  Ids,            \* record_id values
  RecordId,       \* record_id of each row
  SourceRows,     \* rows each request submits as source_records
  CandRows,       \* rows each request submits as candidate_records
  MaxVersion,     \* bound: policy versions published
  Judge,          \* verdict of filter + evaluate_pair, by version and pair
  MaxCandidates,  \* DEFAULT_MAX_CANDIDATES
  MaxRetries,     \* max_retries of the reconcile task
  MaxFaults,      \* bound: crashes, lost children, database errors
  MaxDuplicates,  \* bound: redeliveries of a message a worker still holds
  DecideActions,  \* actions operators take on match candidates
  NoId, NoMsg     \* "no claim", "no message"

Classes  == {"MATCHED", "POSSIBLE_MATCH", "REVIEW_REQUIRED", "UNMATCHED"}
Versions == 0..MaxVersion    \* 0 is the development baseline policy

\* What the in-memory filter and evaluate_pair make of a pair: dropped by the
\* filter, an exception, or a classification with its score.  "poison" says
\* that the field results hold a raw Decimal, which has no JSON encoding.
Verdict == [cls : Classes \cup {"DROPPED", "RAISES"}, score : Nat, poison : BOOLEAN]

ASSUME ConstantsAssumption ==
  /\ IsFiniteSet(Rows)
  /\ RecordId \in [Rows -> Ids]
  /\ SourceRows \in [Runs -> SUBSET Rows]
  /\ CandRows \in [Runs -> SUBSET Rows]
  /\ MaxVersion \in Nat
  /\ Judge \in [Versions -> [Rows -> [Rows -> Verdict]]]
  /\ MaxCandidates \in Nat \ {0}
  /\ MaxRetries \in Nat
  /\ MaxFaults \in Nat
  /\ MaxDuplicates \in Nat
  /\ DecideActions \subseteq {"confirm", "reject", "duplicate", "review"}
  /\ NoId \notin Ids
  /\ NoMsg \notin Runs \X (0..MaxRetries)

VARIABLES
  records,     \* rows present in match_records
  api,         \* progress of each start_reconciliation request
  run,         \* the match_runs rows
  candidates,  \* the match_candidates rows
  executions,  \* executions of each run that reached their final commit
  version,     \* latest published policy version
  queue,       \* broker: copies waiting of each (run, retries) message
  pc, msg,     \* worker: step of the task, message held
  seen,        \* worker: the run row as its session loaded it
  todo,        \* worker: source rows not yet processed
  pool,        \* worker: candidate rows loaded
  policy,      \* worker: policy version resolved for this execution
  bucket,      \* worker: counter each processed source row went to
  claimed,     \* worker: candidate record_id -> source record_id
  out,         \* worker: MatchCandidate rows added to the session
  faults,      \* faults injected so far
  duplicates,  \* redeliveries of held messages so far
  abandoned    \* runs whose last message was dropped without completion

store == <<records, api, run, candidates, executions, version>>
local == <<seen, todo, pool, policy, bucket, claimed, out>>
vars  == <<store, queue, pc, msg, local, faults, duplicates, abandoned>>

Buckets  == {"matched", "possible_match", "review_required", "unmatched",
             "duplicate_candidate", "failed"}
Claiming == {"MATCHED", "POSSIBLE_MATCH"}
RowClass == Classes \cup {"DUPLICATE_CANDIDATE"}
StatusOf == [confirm |-> "CONFIRMED", reject |-> "REJECTED",
             duplicate |-> "DUPLICATE", review |-> "REVIEW_REQUIRED"]
Decided  == {"CONFIRMED", "REJECTED", "DUPLICATE", "REVIEW_REQUIRED"}
Terminal == {"COMPLETED", "PARTIAL"}
Messages == Runs \X (0..MaxRetries)
Steps    == {"idle", "fetched", "found", "loaded", "running", "committed", "failed"}

RunRow == [status : {"NONE", "QUEUED", "RUNNING"} \cup Terminal,
           total : Nat, counters : [Buckets -> Nat], policyVersion : Versions]
Pending == [src : Rows, cand : Rows, cls : RowClass, poison : BOOLEAN]
CandidateRow == [run : Runs, exec : Nat \ {0}, src : Rows, cand : Rows,
                 cls : RowClass, version : Versions, status : Decided \cup {"PENDING"}]

NoRun   == [status |-> "NONE", total |-> 0, counters |-> [b \in Buckets |-> 0],
            policyVersion |-> 0]
NoClaim == [i \in Ids |-> NoId]
NoBucket == [s \in Rows |-> "none"]

Init ==
  /\ records = {}
  /\ api = [r \in Runs |-> "storing"]
  /\ run = [r \in Runs |-> NoRun]
  /\ candidates = {}
  /\ executions = [r \in Runs |-> 0]
  /\ version = 0
  /\ queue = [m \in Messages |-> 0]
  /\ pc = [w \in Workers |-> "idle"]
  /\ msg = [w \in Workers |-> NoMsg]
  /\ seen = [w \in Workers |-> NoRun]
  /\ todo = [w \in Workers |-> {}]
  /\ pool = [w \in Workers |-> {}]
  /\ policy = [w \in Workers |-> 0]
  /\ bucket = [w \in Workers |-> NoBucket]
  /\ claimed = [w \in Workers |-> NoClaim]
  /\ out = [w \in Workers |-> {}]
  /\ faults = 0
  /\ duplicates = 0
  /\ abandoned = {}

-----------------------------------------------------------------------------
(* The API request.  Every create_match_record is a commit of its own, the *)
(* run row is another, and the task is sent after it; a failure in between *)
(* leaves what was committed.                                              *)

StoreRecord(r, x) ==
  /\ api[r] = "storing"
  /\ x \in (SourceRows[r] \cup CandRows[r]) \ records
  /\ records' = records \cup {x}
  /\ UNCHANGED <<api, run, candidates, executions, version, queue, pc, msg, local,
                 faults, duplicates, abandoned>>

CreateRun(r) ==
  /\ api[r] = "storing"
  /\ SourceRows[r] \cup CandRows[r] \subseteq records
  /\ SourceRows[r] \cup CandRows[r] # {}
  /\ api' = [api EXCEPT ![r] = "created"]
  /\ run' = [run EXCEPT ![r] = [NoRun EXCEPT !.status = "QUEUED", !.policyVersion = version]]
  /\ UNCHANGED <<records, candidates, executions, version, queue, pc, msg, local,
                 faults, duplicates, abandoned>>

Enqueue(r) ==
  /\ api[r] = "created"
  /\ api' = [api EXCEPT ![r] = "enqueued"]
  /\ queue' = [queue EXCEPT ![<<r, 0>>] = @ + 1]
  /\ UNCHANGED <<records, run, candidates, executions, version, pc, msg, local,
                 faults, duplicates, abandoned>>

\* The request dies, or sending the task fails, before the task is queued.
RequestFails(r) ==
  /\ api[r] \in {"storing", "created"}
  /\ faults < MaxFaults
  /\ api' = [api EXCEPT ![r] = "dead"]
  /\ faults' = faults + 1
  /\ UNCHANGED <<records, run, candidates, executions, version, queue, pc, msg, local,
                 duplicates, abandoned>>

PublishPolicy ==
  /\ version < MaxVersion
  /\ version' = version + 1
  /\ UNCHANGED <<records, api, run, candidates, executions, queue, pc, msg, local,
                 faults, duplicates, abandoned>>

\* No action is refused because of an earlier one: the last decision stands.
DecideCandidate(c, action) ==
  /\ candidates' = (candidates \ {c}) \cup {[c EXCEPT !.status = StatusOf[action]]}
  /\ UNCHANGED <<records, api, run, executions, version, queue, pc, msg, local,
                 faults, duplicates, abandoned>>

-----------------------------------------------------------------------------
(* The worker's task.                                                      *)

Fetch(w, m) ==
  /\ pc[w] = "idle"
  /\ queue[m] > 0
  /\ queue' = [queue EXCEPT ![m] = @ - 1]
  /\ msg' = [msg EXCEPT ![w] = m]
  /\ pc' = [pc EXCEPT ![w] = "fetched"]
  /\ UNCHANGED <<store, local, faults, duplicates, abandoned>>

\* session.get(MatchRun): the attributes the session compares with when it
\* decides, at each later flush, which columns to write.
LoadRun(w) ==
  /\ pc[w] = "fetched"
  /\ seen' = [seen EXCEPT ![w] = run[msg[w][1]]]
  /\ pc' = [pc EXCEPT ![w] = "found"]
  /\ UNCHANGED <<store, queue, msg, todo, pool, policy, bucket, claimed, out,
                 faults, duplicates, abandoned>>

\* _load_records selects by record_id, so a run also gets the rows another
\* request stored under the same record_id.
RowsWithIds(S) == {x \in records : \E y \in S : RecordId[x] = RecordId[y]}

LoadDataset(w) ==
  LET r == msg[w][1] IN
  /\ pc[w] = "found"
  /\ todo' = [todo EXCEPT ![w] = RowsWithIds(SourceRows[r])]
  /\ pool' = [pool EXCEPT ![w] = RowsWithIds(CandRows[r])]
  /\ policy' = [policy EXCEPT ![w] = version]
  /\ pc' = [pc EXCEPT ![w] = "loaded"]
  /\ UNCHANGED <<store, queue, msg, seen, bucket, claimed, out,
                 faults, duplicates, abandoned>>

\* status = RUNNING is committed first.  The run's status is not examined: a
\* redelivered task starts over.  An attribute set to the value it was loaded
\* with is not written.
Begin(w) ==
  LET r == msg[w][1] IN
  /\ pc[w] = "loaded"
  /\ run' = [run EXCEPT ![r].status = IF seen[w].status = "RUNNING" THEN @ ELSE "RUNNING"]
  /\ bucket' = [bucket EXCEPT ![w] = NoBucket]
  /\ claimed' = [claimed EXCEPT ![w] = NoClaim]
  /\ out' = [out EXCEPT ![w] = {}]
  /\ pc' = [pc EXCEPT ![w] = "running"]
  /\ UNCHANGED <<records, api, candidates, executions, version, queue, msg, seen, todo,
                 pool, policy, faults, duplicates, abandoned>>

\* _filter_candidates: the rows that pass, cut to the first MaxCandidates of
\* a list whose order the query leaves open.
Narrowed(w, s) ==
  LET passing == {x \in pool[w] : /\ RecordId[x] # RecordId[s]
                                  /\ Judge[policy[w]][s][x].cls # "DROPPED"}
  IN  IF Cardinality(passing) <= MaxCandidates
      THEN {passing}
      ELSE {K \in SUBSET passing : Cardinality(K) = MaxCandidates}

Strongest(K, verdict) == {x \in K : \A y \in K : verdict[y].score <= verdict[x].score}

BucketOf(cls) ==
  CASE cls = "MATCHED" -> "matched"
    [] cls = "POSSIBLE_MATCH" -> "possible_match"
    [] cls = "DUPLICATE_CANDIDATE" -> "duplicate_candidate"
    [] OTHER -> "review_required"

\* Mutant: the claims of earlier sources are not consulted.
ClassificationUnclaimed(w, s, x, K, verdict) ==
  IF Cardinality({y \in K : verdict[y].cls = "MATCHED"}) > 1
  THEN "DUPLICATE_CANDIDATE"
  ELSE verdict[x].cls

\* The classification persisted for source s whose strongest candidate is x.
Classification(w, s, x, K, verdict) ==
  IF Cardinality({y \in K : verdict[y].cls = "MATCHED"}) > 1
  THEN "DUPLICATE_CANDIDATE"
  ELSE IF claimed[w][RecordId[x]] \notin {NoId, RecordId[s]}
  THEN "REVIEW_REQUIRED"
  ELSE verdict[x].cls

Count(w, s, b) ==
  /\ todo' = [todo EXCEPT ![w] = @ \ {s}]
  /\ bucket' = [bucket EXCEPT ![w][s] = b]
  /\ UNCHANGED <<store, queue, pc, msg, seen, pool, policy, faults, duplicates, abandoned>>

\* One iteration of the loop over the sources.
SourceFails(w, s) ==
  /\ pc[w] = "running" /\ s \in todo[w]
  /\ \E K \in Narrowed(w, s) : \E x \in K : Judge[policy[w]][s][x].cls = "RAISES"
  /\ Count(w, s, "failed")
  /\ UNCHANGED <<claimed, out>>

SourceUnmatched(w, s) ==
  LET verdict == Judge[policy[w]][s] IN
  /\ pc[w] = "running" /\ s \in todo[w]
  /\ \E K \in Narrowed(w, s) :
       /\ \A x \in K : verdict[x].cls # "RAISES"
       /\ K = {} \/ \E x \in Strongest(K, verdict) : verdict[x].cls = "UNMATCHED"
  /\ Count(w, s, "unmatched")
  /\ UNCHANGED <<claimed, out>>

SourcePaired(w, s) ==
  LET verdict == Judge[policy[w]][s] IN
  /\ pc[w] = "running" /\ s \in todo[w]
  /\ \E K \in Narrowed(w, s) :
       /\ \A x \in K : verdict[x].cls # "RAISES"
       /\ \E x \in Strongest(K, verdict) :
            LET cls == Classification(w, s, x, K, verdict) IN
            /\ verdict[x].cls # "UNMATCHED"
            /\ Count(w, s, BucketOf(cls))
            /\ claimed' = IF cls \in Claiming
                          THEN [claimed EXCEPT ![w][RecordId[x]] = RecordId[s]]
                          ELSE claimed
            /\ out' = [out EXCEPT ![w] =
                 @ \cup {[src |-> s, cand |-> x, cls |-> cls, poison |-> verdict[x].poison]}]

\* The counters of this execution, and the columns the flush writes: those
\* that differ from what the session loaded.
Tally(w) == [b \in Buckets |-> Cardinality({s \in Rows : bucket[w][s] = b})]
Total(w) == Cardinality({s \in Rows : bucket[w][s] # "none"})
\* Mutant: failed sources do not make the run PARTIAL.
FinalRowCompleted(w, row) ==
  [row EXCEPT !.status = "COMPLETED", !.total = Total(w), !.counters = Tally(w)]
\* Mutant: failed sources make the run FAILED, a status no reader expects here.
FinalRowFailed(w, row) ==
  [row EXCEPT !.status = IF Tally(w)["failed"] = 0 THEN "COMPLETED" ELSE "FAILED",
              !.total = Total(w), !.counters = Tally(w)]

FinalRow(w, row) ==
  [row EXCEPT
     !.status   = IF Tally(w)["failed"] = 0 THEN "COMPLETED" ELSE "PARTIAL",
     !.total    = IF Total(w) = seen[w].total THEN row.total ELSE Total(w),
     !.counters = [b \in Buckets |-> IF Tally(w)[b] = seen[w].counters[b]
                                     THEN row.counters[b] ELSE Tally(w)[b]]]

\* The single final commit: candidate rows, counters and status together.
Finish(w) ==
  LET r == msg[w][1] IN
  /\ pc[w] = "running" /\ todo[w] = {}
  /\ \A o \in out[w] : ~o.poison
  /\ run' = [run EXCEPT ![r] = FinalRow(w, @)]
  /\ executions' = [executions EXCEPT ![r] = @ + 1]
  /\ candidates' = candidates \cup
       {[run |-> r, exec |-> executions[r] + 1, src |-> o.src, cand |-> o.cand, cls |-> o.cls,
         version |-> policy[w], status |-> "PENDING"] : o \in out[w]}
  /\ pc' = [pc EXCEPT ![w] = "committed"]
  /\ UNCHANGED <<records, api, version, queue, msg, local, faults, duplicates, abandoned>>

\* A row that cannot be encoded makes the flush raise: everything since the
\* RUNNING commit is rolled back and the exception reaches the task.
FinishRaises(w) ==
  /\ pc[w] = "running" /\ todo[w] = {}
  /\ \E o \in out[w] : o.poison
  /\ pc' = [pc EXCEPT ![w] = "failed"]
  /\ UNCHANGED <<store, queue, msg, local, faults, duplicates, abandoned>>

\* The task ends: its session is closed and its variables are gone.
Release(w) ==
  /\ pc' = [pc EXCEPT ![w] = "idle"]
  /\ msg' = [msg EXCEPT ![w] = NoMsg]
  /\ seen' = [seen EXCEPT ![w] = NoRun]
  /\ todo' = [todo EXCEPT ![w] = {}]
  /\ pool' = [pool EXCEPT ![w] = {}]
  /\ policy' = [policy EXCEPT ![w] = 0]
  /\ bucket' = [bucket EXCEPT ![w] = NoBucket]
  /\ claimed' = [claimed EXCEPT ![w] = NoClaim]
  /\ out' = [out EXCEPT ![w] = {}]

\* Late acknowledgement after the task returned.
Acknowledge(w) ==
  /\ pc[w] = "committed"
  /\ Release(w)
  /\ UNCHANGED <<store, queue, faults, duplicates, abandoned>>

\* Mutant: the number of retries is not limited.
RetryForever(w) ==
  LET m == msg[w] IN
  /\ pc[w] = "failed"
  /\ queue' = [queue EXCEPT ![<<m[1], IF m[2] < MaxRetries THEN m[2] + 1 ELSE m[2]>>] = @ + 1]
  /\ Release(w)
  /\ UNCHANGED <<store, faults, duplicates, abandoned>>

\* self.retry: a new message with one more retry, then the old one is acked.
Retry(w) ==
  LET m == msg[w] IN
  /\ pc[w] = "failed" /\ m[2] < MaxRetries
  /\ queue' = [queue EXCEPT ![<<m[1], m[2] + 1>>] = @ + 1]
  /\ Release(w)
  /\ UNCHANGED <<store, faults, duplicates, abandoned>>

\* Retries exhausted: the message is acked; nothing touches the run row.
GiveUp(w) ==
  /\ pc[w] = "failed" /\ msg[w][2] = MaxRetries
  /\ abandoned' = abandoned \cup {msg[w][1]}
  /\ Release(w)
  /\ UNCHANGED <<store, queue, faults, duplicates>>

\* A database call raises: also the refresh that follows the final commit.
DatabaseError(w) ==
  /\ pc[w] \in {"fetched", "found", "loaded", "running", "committed"}
  /\ faults < MaxFaults
  /\ faults' = faults + 1
  /\ pc' = [pc EXCEPT ![w] = "failed"]
  /\ UNCHANGED <<store, queue, msg, local, duplicates, abandoned>>

\* Mutant: the message was acknowledged when it was fetched.
WorkerDiesAckedEarly(w) ==
  /\ pc[w] # "idle"
  /\ faults < MaxFaults
  /\ faults' = faults + 1
  /\ Release(w)
  /\ UNCHANGED <<store, queue, duplicates, abandoned>>

\* The worker dies holding the message: the broker delivers it again.
WorkerDies(w) ==
  /\ pc[w] # "idle"
  /\ faults < MaxFaults
  /\ faults' = faults + 1
  /\ queue' = [queue EXCEPT ![msg[w]] = @ + 1]
  /\ Release(w)
  /\ UNCHANGED <<store, duplicates, abandoned>>

\* The pool process dies under a living parent, which acks the message
\* (reject_on_worker_lost is not set).
ChildDies(w) ==
  /\ pc[w] # "idle"
  /\ faults < MaxFaults
  /\ faults' = faults + 1
  /\ abandoned' = abandoned \cup {msg[w][1]}
  /\ Release(w)
  /\ UNCHANGED <<store, queue, duplicates>>

\* The visibility timeout passes while the worker is still busy.
Redeliver(w) ==
  /\ pc[w] # "idle"
  /\ duplicates < MaxDuplicates
  /\ duplicates' = duplicates + 1
  /\ queue' = [queue EXCEPT ![msg[w]] = @ + 1]
  /\ UNCHANGED <<store, pc, msg, local, faults, abandoned>>

-----------------------------------------------------------------------------
Request(r) == \/ \E x \in Rows : StoreRecord(r, x)
              \/ CreateRun(r)
              \/ Enqueue(r)

Source(w, s) == SourceFails(w, s) \/ SourceUnmatched(w, s) \/ SourcePaired(w, s)

Task(w) == \/ \E m \in Messages : Fetch(w, m)
           \/ LoadRun(w) \/ LoadDataset(w) \/ Begin(w)
           \/ \E s \in Rows : Source(w, s)
           \/ Finish(w) \/ FinishRaises(w) \/ Acknowledge(w) \/ Retry(w) \/ GiveUp(w)

Fault(w) == DatabaseError(w) \/ WorkerDies(w) \/ ChildDies(w) \/ Redeliver(w)

Next == \/ \E r \in Runs : Request(r) \/ RequestFails(r)
        \/ PublishPolicy
        \/ \E c \in candidates, a \in DecideActions : DecideCandidate(c, a)
        \/ \E w \in Workers : Task(w) \/ Fault(w)

Spec == Init /\ [][Next]_vars

\* The broker keeps offering queued messages and a worker's task runs on; the
\* API request and the faults owe nothing.
FairSpec == Spec /\ \A w \in Workers : WF_vars(Task(w))
-----------------------------------------------------------------------------
TypeOK ==
  /\ records \subseteq Rows
  /\ api \in [Runs -> {"storing", "created", "enqueued", "dead"}]
  /\ run \in [Runs -> RunRow]
  /\ candidates \subseteq CandidateRow
  /\ executions \in [Runs -> Nat]
  /\ version \in Versions
  /\ queue \in [Messages -> Nat]
  /\ pc \in [Workers -> Steps]
  /\ msg \in [Workers -> Messages \cup {NoMsg}]
  /\ \A w \in Workers : pc[w] = "idle" <=> msg[w] = NoMsg
  /\ seen \in [Workers -> RunRow]
  /\ todo \in [Workers -> SUBSET Rows]
  /\ pool \in [Workers -> SUBSET Rows]
  /\ policy \in [Workers -> Versions]
  /\ bucket \in [Workers -> [Rows -> Buckets \cup {"none"}]]
  /\ claimed \in [Workers -> [Ids -> Ids \cup {NoId}]]
  /\ out \in [Workers -> SUBSET Pending]
  /\ faults \in 0..MaxFaults
  /\ duplicates \in 0..MaxDuplicates
  /\ abandoned \subseteq Runs

\* One-to-one safety (the claimed dictionary of execute_reconciliation): among
\* the rows one execution persisted, a candidate record_id is claimed
\* (MATCHED or POSSIBLE_MATCH) for at most one source record_id, whatever the
\* order of the sources, the duplicate rows, the policy and the faults.
OneToOneClaims ==
  \A a, b \in candidates :
    (/\ a.run = b.run /\ a.exec = b.exec
     /\ a.cls \in Claiming /\ b.cls \in Claiming
     /\ RecordId[a.cand] = RecordId[b.cand])
      => RecordId[a.src] = RecordId[b.src]

\* A run that was enqueued and is not COMPLETED or PARTIAL still has a message
\* that will execute it (waiting, or held by a worker that has not done its
\* final commit), unless its message was dropped for good: task_acks_late
\* makes a crash at any step harmless to it.
Waiting(r) == \E k \in 0..MaxRetries : queue[<<r, k>>] > 0
Held(r) == \E w \in Workers : /\ pc[w] \notin {"idle", "committed"}
                               /\ msg[w][1] = r
NotForgotten ==
  \A r \in Runs : (api[r] = "enqueued" /\ run[r].status \notin Terminal)
                     => (r \in abandoned \/ Waiting(r) \/ Held(r))

\* The counters of a finished run are those of one of its executions: they
\* agree with the candidate rows that execution stored, add up to the total,
\* and PARTIAL says that a source failed.
RowsOf(r, e, b) == {c \in candidates : c.run = r /\ c.exec = e /\ BucketOf(c.cls) = b}
CountersOfOneExecution ==
  \A r \in Runs : run[r].status \in Terminal =>
    LET n == run[r].counters IN
    /\ \E e \in 1..executions[r] : \A b \in Buckets \ {"unmatched", "failed"} :
         n[b] = Cardinality(RowsOf(r, e, b))
    /\ run[r].total = n["matched"] + n["possible_match"] + n["review_required"]
                        + n["unmatched"] + n["duplicate_candidate"] + n["failed"]
    /\ run[r].status = "PARTIAL" <=> n["failed"] > 0

\* Every enqueued run ends COMPLETED or PARTIAL for good, or its message was
\* dropped: redeliveries and retries come to an end.
EventuallySettled ==
  \A r \in Runs :
    <>[](api[r] = "enqueued" => (run[r].status \in Terminal \/ r \in abandoned))

\* Per-source isolation: what one source's record holds never keeps an
\* enqueued run from finishing.
IsolationFinishes ==
  \A r \in Runs : api[r] = "enqueued" ~> run[r].status \in Terminal

\* A run is owed while its message waits or a worker holds it, and carried out
\* by the final commit of an execution.
Owed == {r \in Runs : Waiting(r) \/ \E w \in Workers : pc[w] # "idle" /\ msg[w][1] = r}
Queue == INSTANCE AtLeastOnce WITH Tasks <- Runs, owed <- Owed, done <- executions,
                                   dropped <- abandoned

\* Whatever crashes, retries and redeliveries happen, the API, broker and worker
\* implement at-least-once execution of an enqueued run: its last message is
\* acknowledged only after a final commit, unless the run was given up.
ImplementsAtLeastOnce == Queue!Spec
=============================================================================
