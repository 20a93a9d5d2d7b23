---------------------------- MODULE BatchJobProofs ----------------------------
(***************************************************************************)
(* Proofs about BatchJob for every set of jobs and workers, every length,  *)
(* limit and progress interval, and any number of faults.                  *)
(***************************************************************************)
EXTENDS BatchJob, TLAPS

\* No job is in the hands of two workers: what the theorems about rows rest on.
Exclusive == \A v, w \in Workers : held[v] = held[w] /\ held[v] # NoJob => v = w

\* When that is so: the pool has one process, or the broker never delivers a
\* message again while its worker is busy (a task is always shorter than the
\* visibility timeout).
OneAtATime == (\A v, w \in Workers : v = w) \/ MaxDuplicates = 0

\* Before its task is sent, a job has no message and no holder,
Unsent ==
  \A j \in Jobs : api[j] # "enqueued" => queue[j] = 0 /\ \A w \in Workers : held[w] # j

\* and neither was given up nor ended.
Untouched ==
  \A j \in Jobs : api[j] # "enqueued" => j \notin dropped /\ job[j]["status"] \notin Terminal

\* Without redeliveries a job has one message, waiting or held.
OneMessage ==
  MaxDuplicates = 0 =>
    \A j \in Jobs : queue[j] <= 1 /\ (queue[j] = 1 => \A w \in Workers : held[w] # j)

\* The row a client polls.
SoundRow(j, row) ==
  /\ Counted(row) = row["processed_records"]
  /\ row["processed_records"] <= row["total_records"]
  /\ row["processed_records"] <= Length[j]
  /\ row["status"] \in {"COMPLETED", "PARTIAL"} =>
       /\ row["processed_records"] = Length[j]
       /\ row["status"] = "PARTIAL" <=> row["failed"] > 0

\* A worker that works on a job has the row in its session as it is in the
\* database, but for the progress made since the last commit.
InStep(w) ==
  LET j == held[w] IN
  /\ pc[w] \in {"loaded", "input", "begun", "rows"} =>
       base[w] = job[j] /\ job[j]["status"] \notin Terminal
  /\ pc[w] \in {"loaded", "input", "begun"} => mem[w] = job[j]
  /\ pc[w] \in {"begun", "rows"} =>
       /\ job[j]["total_records"] = Length[j]
       /\ next[w] \in 1..(Length[j] + 1)
       /\ Counted(counts[w]) = next[w] - 1
  /\ pc[w] = "begun" => next[w] = 1
  /\ pc[w] = "rows" =>
       mem[w] = [job[j] EXCEPT !["processed_records"] = IF next[w] = 1 THEN @ ELSE next[w] - 1]
  /\ pc[w] \in {"finished", "returned"} => job[j]["status"] \in Terminal

-----------------------------------------------------------------------------
(* Rows.                                                                    *)

RowType == {row \in [Columns -> Statuses \cup Nat] : IsRow(row)}

\* What TypeOK says, with the domains of the functions; rows are counted from 1.
Shape ==
  /\ api \in [Jobs -> {"new", "created", "stored", "enqueued", "dead"}]
  /\ job \in [Jobs -> RowType]
  /\ input \subseteq Jobs
  /\ revision \in 0..MaxRevision
  /\ queue \in [Jobs -> Nat]
  /\ pc \in [Workers -> Steps]
  /\ held \in [Workers -> Jobs \cup {NoJob}]
  /\ \A w \in Workers : pc[w] = "idle" <=> held[w] = NoJob
  /\ base \in [Workers -> RowType] /\ mem \in [Workers -> RowType]
  /\ profile \in [Workers -> 0..MaxRevision]
  /\ next \in [Workers -> Nat \ {0}]
  /\ counts \in [Workers -> [Outcomes -> Nat]]
  /\ faults \in 0..MaxFaults /\ duplicates \in 0..MaxDuplicates
  /\ dropped \subseteq Jobs

BatchInv ==
  /\ Shape /\ Exclusive /\ Unsent /\ Untouched /\ OneMessage
  /\ \A j \in Jobs : SoundRow(j, job[j])
  /\ \A w \in Workers : InStep(w)

\* A new row has the columns it was given.
LEMMA NewRow ==
  ASSUME NEW s \in Statuses, NEW t \in Nat, NEW p \in Nat, NEW n \in [Outcomes -> Nat]
  PROVE  /\ Row(s, t, p, n) \in RowType
         /\ Row(s, t, p, n)["status"] = s
         /\ Row(s, t, p, n)["total_records"] = t
         /\ Row(s, t, p, n)["processed_records"] = p
         /\ \A o \in Outcomes : Row(s, t, p, n)[o] = n[o]
<1> DEFINE r == Row(s, t, p, n)
<1>1. /\ r["status"] = s /\ r["total_records"] = t /\ r["processed_records"] = p
      /\ \A o \in Outcomes : r[o] = n[o]
      /\ r = [f \in Columns |-> r[f]]
  BY DEF Row, Columns, Outcomes
<1> HIDE DEF r
<1>2. \A f \in Columns \ {"status"} : r[f] \in Nat
  BY <1>1 DEF Columns
<1>3. \A f \in Columns : r[f] \in Statuses \cup Nat
  BY <1>1, <1>2
<1>4. DOMAIN r = Columns /\ r \in [Columns -> Statuses \cup Nat]
  BY <1>1, <1>3
<1> QED BY <1>1, <1>2, <1>4 DEF RowType, IsRow, r

\* Reading the columns of a row.
LEMMA RowColumns ==
  ASSUME NEW row \in RowType
  PROVE  /\ row["status"] \in Statuses
         /\ row["total_records"] \in Nat /\ row["processed_records"] \in Nat
         /\ \A o \in Outcomes : row[o] \in Nat
         /\ Counted(row) \in Nat
<1>1. \A f \in Columns \ {"status"} : row[f] \in Nat
  BY DEF RowType, IsRow
<1>2. \A o \in Outcomes : row[o] \in Nat
  BY <1>1 DEF Columns, Outcomes
<1>3. row["total_records"] \in Nat /\ row["processed_records"] \in Nat
  BY <1>1 DEF Columns
<1>4. Counted(row) \in Nat
  BY <1>2 DEF Counted, Outcomes
<1> QED BY <1>2, <1>3, <1>4 DEF RowType, IsRow

\* Setting a column.
LEMMA SetStatus ==
  ASSUME NEW row \in RowType, NEW s \in Statuses
  PROVE  /\ [row EXCEPT !["status"] = s] \in RowType
         /\ [row EXCEPT !["status"] = s]["status"] = s
         /\ \A f \in Columns \ {"status"} : [row EXCEPT !["status"] = s][f] = row[f]
BY DEF RowType, IsRow, Columns

\* Setting one of the two progress columns leaves the others.
LEMMA SetNumber ==
  ASSUME NEW row \in RowType, NEW c \in {"total_records", "processed_records"}, NEW n \in Nat
  PROVE  /\ [row EXCEPT ![c] = n] \in RowType
         /\ [row EXCEPT ![c] = n][c] = n
         /\ \A f \in Columns \ {c} : [row EXCEPT ![c] = n][f] = row[f]
BY DEF RowType, IsRow, Columns

\* The row that begins a job is RUNNING, has its total and keeps its counters.
LEMMA BegunRow ==
  ASSUME NEW row \in RowType, NEW n \in Nat
  PROVE  LET r == [row EXCEPT !["status"] = "RUNNING", !["total_records"] = n] IN
         /\ r \in RowType /\ r["status"] = "RUNNING" /\ r["total_records"] = n
         /\ r["processed_records"] = row["processed_records"]
         /\ \A o \in Outcomes : r[o] = row[o]
<1> DEFINE s == [row EXCEPT !["status"] = "RUNNING"]
<1>1. s \in RowType
  BY SetStatus DEF Statuses
<1>2. [s EXCEPT !["total_records"] = n] \in RowType
  BY <1>1, SetNumber
<1>3. [row EXCEPT !["status"] = "RUNNING", !["total_records"] = n] = [s EXCEPT !["total_records"] = n]
  OBVIOUS
<1>4. row \in [Columns -> Statuses \cup Nat] /\ {"status", "total_records", "processed_records"} \subseteq Columns
  BY DEF RowType, Columns
<1> QED BY <1>2, <1>3, <1>4 DEF Columns, Outcomes

\* Writing the counters.
LEMMA WrittenCounts ==
  ASSUME NEW row \in RowType, NEW n \in [Outcomes -> Nat]
  PROVE  /\ WithCounts(row, n) \in RowType
         /\ \A o \in Outcomes : WithCounts(row, n)[o] = n[o]
         /\ \A f \in Columns \ Outcomes : WithCounts(row, n)[f] = row[f]
         /\ Counted(WithCounts(row, n)) = Counted(n)
<1> DEFINE r == WithCounts(row, n)
<1>1. DOMAIN row = Columns /\ row \in [Columns -> Statuses \cup Nat]
  BY DEF RowType, IsRow
<1>2. r = [f \in Columns |-> IF f \in Outcomes THEN n[f] ELSE row[f]]
  BY <1>1 DEF WithCounts
<1>3. Outcomes \subseteq Columns /\ "status" \in Columns /\ "status" \notin Outcomes
  BY DEF Columns, Outcomes
<1>4. /\ \A o \in Outcomes : r[o] = n[o]
      /\ \A f \in Columns \ Outcomes : r[f] = row[f]
  BY <1>2, <1>3
<1>5. \A f \in Columns \ {"status"} : row[f] \in Nat
  BY DEF RowType, IsRow
<1>6. r["status"] \in Statuses /\ \A f \in Columns \ {"status"} : r[f] \in Nat
  <2>1. row["status"] \in Statuses
    BY DEF RowType, IsRow
  <2>2. \A f \in Columns \ {"status"} : f \in Outcomes \/ f \in Columns \ Outcomes
    OBVIOUS
  <2> HIDE DEF r
  <2> QED BY <1>3, <1>4, <1>5, <2>1, <2>2
<1>7. DOMAIN r = Columns /\ r \in [Columns -> Statuses \cup Nat]
  BY <1>1, <1>2, <1>3
<1> HIDE DEF r
<1>8. r \in RowType
  BY <1>6, <1>7 DEF RowType, IsRow
<1>9. Counted(r) = Counted(n)
  BY <1>4 DEF Counted, Outcomes
<1> QED BY <1>4, <1>8, <1>9 DEF r

\* A flush of a row over a row is a row, and a flush over the row the session
\* has in step is the row in memory.
LEMMA FlushType ==
  ASSUME NEW db \in RowType, NEW m \in RowType, NEW b \in RowType
  PROVE  Flush(db, m, b) \in RowType
<1> DEFINE r == Flush(db, m, b)
<1>1. /\ DOMAIN db = Columns /\ db \in [Columns -> Statuses \cup Nat]
      /\ m \in [Columns -> Statuses \cup Nat]
      /\ db["status"] \in Statuses /\ m["status"] \in Statuses
      /\ \A f \in Columns \ {"status"} : db[f] \in Nat /\ m[f] \in Nat
  BY DEF RowType, IsRow
<1>2. r = [f \in Columns |-> IF m[f] = b[f] THEN db[f] ELSE m[f]]
  BY <1>1 DEF Flush
<1>3. "status" \in Columns
  BY DEF Columns
<1>4. \A f \in Columns : r[f] \in {db[f], m[f]}
  BY <1>2
<1>5. DOMAIN r = Columns /\ r = [f \in Columns |-> r[f]]
  BY <1>2
<1> HIDE DEF r
<1>6. \A f \in Columns : r[f] \in Statuses \cup Nat
  BY <1>1, <1>4
<1>7. r \in [Columns -> Statuses \cup Nat]
  BY <1>5, <1>6
<1>8. r["status"] \in Statuses /\ \A f \in Columns \ {"status"} : r[f] \in Nat
  BY <1>1, <1>3, <1>4
<1> QED BY <1>5, <1>7, <1>8 DEF RowType, IsRow, r

\* A session that holds the row as it is stored flushes exactly what it changed.
LEMMA FlushInStep ==
  ASSUME NEW db \in RowType, NEW m \in RowType
  PROVE  Flush(db, m, db) = m
<1>1. DOMAIN db = Columns /\ m \in [Columns -> Statuses \cup Nat]
  BY DEF RowType, IsRow
<1> QED BY <1>1 DEF Flush

\* The row of a job not created yet, with no outcome counted.
LEMMA NoRowType ==
  /\ NoRow \in RowType /\ NoRow["status"] = "NONE"
  /\ NoCounts \in [Outcomes -> Nat] /\ Counted(NoCounts) = 0
<1>1. NoCounts \in [Outcomes -> Nat]
  BY DEF NoCounts
<1>2. Counted(NoCounts) = 0
  BY DEF NoCounts, Counted, Outcomes
<1> QED BY <1>1, <1>2, NewRow DEF NoRow, Statuses

-----------------------------------------------------------------------------
(* Types.                                                                   *)

\* The types hold when no batch has been submitted.
LEMMA ShapeInit == Init => Shape
<1> SUFFICES ASSUME Init PROVE Shape
  OBVIOUS
<1>1. job \in [Jobs -> RowType] /\ base \in [Workers -> RowType] /\ mem \in [Workers -> RowType]
  BY NoRowType DEF Init
<1>2. next \in [Workers -> Nat \ {0}] /\ counts \in [Workers -> [Outcomes -> Nat]]
  BY NoRowType DEF Init
<1> QED BY <1>1, <1>2, ConstantsAssumption DEF Init, Shape, Steps

\* What a commit and the end of a task do to the typed state.
LEMMA CommitType ==
  ASSUME Shape, NEW w \in Workers, held[w] \in Jobs, NEW m \in RowType, Commit(w, m)
  PROVE  /\ job' \in [Jobs -> RowType]
         /\ base' \in [Workers -> RowType] /\ mem' \in [Workers -> RowType]
<1>1. job[held[w]] \in RowType /\ base[w] \in RowType
  BY DEF Shape
<1>2. Flush(job[held[w]], m, base[w]) \in RowType
  BY <1>1, FlushType
<1> QED BY <1>2 DEF Commit, Shape

\* The end of a task leaves its worker idle and typed.
LEMMA ReleaseType ==
  ASSUME Shape, NEW w \in Workers, Release(w)
  PROVE  /\ pc' \in [Workers -> Steps] /\ held' \in [Workers -> Jobs \cup {NoJob}]
         /\ \A v \in Workers : pc'[v] = "idle" <=> held'[v] = NoJob
         /\ base' \in [Workers -> RowType] /\ mem' \in [Workers -> RowType]
         /\ profile' \in [Workers -> 0..MaxRevision]
         /\ next' \in [Workers -> Nat \ {0}]
         /\ counts' \in [Workers -> [Outcomes -> Nat]]
<1>1. 0 \in 0..MaxRevision
  BY ConstantsAssumption
<1> QED BY <1>1, NoRowType DEF Release, Goto, Shape, Steps

\* Every step keeps the types: one case per action.
LEMMA ShapeStep == Shape /\ [Next]_vars => Shape'
<1> SUFFICES ASSUME Shape, [Next]_vars PROVE Shape'
  OBVIOUS
<1> USE ConstantsAssumption DEF requestVars, taskVars
<1>0. ASSUME NEW w \in Workers, pc[w] # "idle" PROVE held[w] \in Jobs
  BY <1>0 DEF Shape
<1>1. ASSUME NEW j \in Jobs, Request(j) PROVE Shape'
  <2>1. CASE CreateJob(j)
    <3>0. "QUEUED" \in Statuses /\ 0 \in Nat /\ NoCounts \in [Outcomes -> Nat]
      BY NoRowType DEF Statuses
    <3>1. Row("QUEUED", 0, 0, NoCounts) \in RowType
      BY ONLY <3>0, NewRow
    <3>2. job' \in [Jobs -> RowType]
      BY <2>1, <3>1 DEF CreateJob, Shape
    <3> QED BY <2>1, <3>2 DEF CreateJob, Shape
  <2>2. CASE StoreInput(j)
    BY <2>2 DEF StoreInput, Shape
  <2>3. CASE Enqueue(j)
    BY <2>3 DEF Enqueue, Shape
  <2> QED BY <1>1, <2>1, <2>2, <2>3 DEF Request
<1>2. ASSUME NEW j \in Jobs, RequestFails(j) \/ ExpireInput(j) PROVE Shape'
  <2>1. CASE RequestFails(j)
    BY <2>1 DEF RequestFails, Shape
  <2>2. CASE ExpireInput(j)
    BY <2>2 DEF ExpireInput, Shape
  <2> QED BY <1>2, <2>1, <2>2
<1>3. CASE EditProfile
  BY <1>3 DEF EditProfile, Shape
<1>4. ASSUME NEW w \in Workers, NEW j \in Jobs, Fetch(w, j) PROVE Shape'
  BY <1>4 DEF Fetch, Goto, Shape, Steps
<1>5. ASSUME NEW w \in Workers, LoadJob(w) PROVE Shape'
  <2>1. held[w] \in Jobs
    BY <1>0, <1>5 DEF LoadJob
  <2>2. base' \in [Workers -> RowType] /\ mem' \in [Workers -> RowType]
    BY <1>5, <2>1 DEF LoadJob, Shape
  <2>3. job' = job
    BY <1>5 DEF LoadJob
  <2> QED BY <1>5, <2>2, <2>3 DEF LoadJob, Goto, Shape, Steps
<1>6. ASSUME NEW w \in Workers, GetInput(w) \/ TaskError(w) PROVE Shape'
  <2>1. CASE GetInput(w)
    BY <2>1 DEF GetInput, Goto, Shape, Steps
  <2>2. CASE TaskError(w)
    BY <2>2 DEF TaskError, Goto, Shape, Steps
  <2> QED BY <1>6, <2>1, <2>2
\* A step of worker w that commits a row and goes on.
<1>7. ASSUME NEW w \in Workers, pc[w] # "idle", NEW m \in RowType, Commit(w, m),
             NEW step \in Steps \ {"idle"}, Goto(w, step),
             UNCHANGED <<requestVars, queue, held, profile, faults, duplicates, dropped>>,
             next' \in [Workers -> Nat \ {0}], counts' \in [Workers -> [Outcomes -> Nat]]
      PROVE  Shape'
  <2>1. /\ job' \in [Jobs -> RowType]
        /\ base' \in [Workers -> RowType] /\ mem' \in [Workers -> RowType]
    BY <1>0, <1>7, CommitType
  <2> QED BY <1>7, <2>1 DEF Goto, Shape
<1>8. ASSUME NEW w \in Workers, LimitExceeded(w) PROVE Shape'
  <2>1. [mem[w] EXCEPT !["status"] = "FAILED"] \in RowType
    BY SetStatus DEF Shape, Statuses, Terminal
  <2>2. /\ pc[w] # "idle" /\ Commit(w, [mem[w] EXCEPT !["status"] = "FAILED"])
        /\ Goto(w, "raised") /\ "raised" \in Steps \ {"idle"}
        /\ UNCHANGED <<requestVars, queue, held, profile, faults, duplicates, dropped>>
        /\ next' = next /\ counts' = counts
    BY <1>8 DEF LimitExceeded, Steps
  <2>3. next' \in [Workers -> Nat \ {0}] /\ counts' \in [Workers -> [Outcomes -> Nat]]
    BY <2>2 DEF Shape
  <2> QED BY <1>7, <2>1, <2>2, <2>3
<1>9. ASSUME NEW w \in Workers, Begin(w) PROVE Shape'
  <2>1. Length[held[w]] \in Nat
    BY <1>0, <1>9 DEF Begin
  <2>2. [mem[w] EXCEPT !["status"] = "RUNNING", !["total_records"] = Length[held[w]]] \in RowType
    <3>1. mem[w] \in RowType
      BY DEF Shape
    <3> QED BY ONLY <2>1, <3>1, BegunRow
  <2>3. next' \in [Workers -> Nat \ {0}] /\ counts' \in [Workers -> [Outcomes -> Nat]]
    BY <1>9, NoRowType DEF Begin, Shape
  <2> DEFINE m == [mem[w] EXCEPT !["status"] = "RUNNING", !["total_records"] = Length[held[w]]]
  <2>4. /\ pc[w] # "idle" /\ Commit(w, m)
        /\ Goto(w, "begun") /\ "begun" \in Steps \ {"idle"}
        /\ UNCHANGED <<requestVars, queue, held, profile, faults, duplicates, dropped>>
    BY <1>9 DEF Begin, Steps
  <2>5. m \in RowType
    BY <2>2
  <2> HIDE DEF m
  <2> QED BY <1>7, <2>3, <2>4, <2>5
<1>10. ASSUME NEW w \in Workers, LoadProfile(w) PROVE Shape'
  BY <1>10 DEF LoadProfile, Goto, Shape, Steps
<1>11. ASSUME NEW w \in Workers, ProcessRow(w) PROVE Shape'
  <2> DEFINE j == held[w]
             i == next[w]
             n == [counts[w] EXCEPT ![Analysis[profile[w]][j][i]] = @ + 1]
             m == [mem[w] EXCEPT !["processed_records"] = i]
  <2>1. j \in Jobs /\ i \in 1..Length[j]
    <3>1. pc[w] = "rows" /\ i <= Length[j]
      BY <1>11 DEF ProcessRow
    <3>2. j \in Jobs /\ Length[j] \in Nat
      BY <1>0, <3>1
    <3>3. i \in Nat \ {0}
      BY DEF Shape
    <3> HIDE DEF i, j
    <3> QED BY ONLY <3>1, <3>2, <3>3
  <2>2. Analysis[profile[w]][j][i] \in Outcomes
    BY <2>1 DEF Shape
  <2>3. n \in [Outcomes -> Nat]
    BY <2>2 DEF Shape
  <2>4. m \in RowType /\ WithCounts(m, n) \in RowType
    BY <2>1, <2>3, SetNumber, WrittenCounts DEF Shape
  <2>5. next' \in [Workers -> Nat \ {0}] /\ counts' \in [Workers -> [Outcomes -> Nat]]
    <3>1. next' = [next EXCEPT ![w] = i + 1] /\ counts' = [counts EXCEPT ![w] = n]
      BY <1>11 DEF ProcessRow
    <3> HIDE DEF i, n
    <3>2. i + 1 \in Nat \ {0}
      BY ONLY <2>1
    <3>3. next \in [Workers -> Nat \ {0}] /\ counts \in [Workers -> [Outcomes -> Nat]]
      BY DEF Shape
    <3> QED BY ONLY <2>3, <3>1, <3>2, <3>3
  <2>6. /\ Commit(w, WithCounts(m, n)) \/ (mem' = [mem EXCEPT ![w] = m] /\ UNCHANGED <<job, base>>)
        /\ UNCHANGED <<requestVars, queue, pc, held, profile, faults, duplicates, dropped>>
    BY <1>11 DEF ProcessRow
  <2> HIDE DEF j, i, n, m
  <2>7. /\ job' \in [Jobs -> RowType]
        /\ base' \in [Workers -> RowType] /\ mem' \in [Workers -> RowType]
    <3>1. CASE Commit(w, WithCounts(m, n))
      BY <2>1, <2>4, <3>1, CommitType DEF j
    <3>2. CASE mem' = [mem EXCEPT ![w] = m] /\ UNCHANGED <<job, base>>
      BY <2>4, <3>2 DEF Shape
    <3> QED BY <2>6, <3>1, <3>2
  <2> QED BY <2>5, <2>6, <2>7 DEF Shape
<1>12. ASSUME NEW w \in Workers, Finish(w) PROVE Shape'
  <2> DEFINE status == IF counts[w]["failed"] = 0 THEN "COMPLETED" ELSE "PARTIAL"
  <2>1. WithCounts([mem[w] EXCEPT !["status"] = status], counts[w]) \in RowType
    <3>1. mem[w] \in RowType /\ counts[w] \in [Outcomes -> Nat]
      BY DEF Shape
    <3>2. status \in Statuses
      BY DEF Statuses, Terminal
    <3> HIDE DEF status
    <3>3. [mem[w] EXCEPT !["status"] = status] \in RowType
      BY ONLY <3>1, <3>2, SetStatus
    <3> QED BY <3>1, <3>3, WrittenCounts
  <2> DEFINE m == WithCounts([mem[w] EXCEPT !["status"] = status], counts[w])
  <2>2. /\ pc[w] # "idle" /\ Commit(w, m)
        /\ Goto(w, "finished") /\ "finished" \in Steps \ {"idle"}
        /\ UNCHANGED <<requestVars, queue, held, profile, faults, duplicates, dropped>>
        /\ next' = next /\ counts' = counts
    BY <1>12 DEF Finish, Steps
  <2>3. next' \in [Workers -> Nat \ {0}] /\ counts' \in [Workers -> [Outcomes -> Nat]]
    BY <2>2 DEF Shape
  <2>4. m \in RowType
    BY <2>1
  <2> HIDE DEF m
  <2> QED BY <1>7, <2>2, <2>3, <2>4
<1>13. ASSUME NEW w \in Workers, DeleteInput(w) PROVE Shape'
  BY <1>13 DEF DeleteInput, Goto, Shape, Steps
<1>14. ASSUME NEW w \in Workers, Acknowledge(w) PROVE Shape'
  BY <1>14, ReleaseType DEF Acknowledge, Shape
<1>15. ASSUME NEW w \in Workers, Raise(w) \/ ChildDies(w) PROVE Shape'
  <2>1. held[w] \in Jobs
    BY <1>0, <1>15 DEF Raise, ChildDies
  <2>2. CASE Raise(w)
    BY <2>1, <2>2, ReleaseType DEF Raise, Shape
  <2>3. CASE ChildDies(w)
    BY <2>1, <2>3, ReleaseType DEF ChildDies, Shape
  <2> QED BY <1>15, <2>2, <2>3
<1>16. ASSUME NEW w \in Workers, WorkerDies(w) PROVE Shape'
  <2>1. held[w] \in Jobs
    BY <1>0, <1>16 DEF WorkerDies
  <2>2. queue' \in [Jobs -> Nat] /\ faults' \in 0..MaxFaults
    BY <1>16, <2>1 DEF WorkerDies, Shape
  <2> QED BY <1>16, <2>2, ReleaseType DEF WorkerDies, Shape
<1>17. ASSUME NEW w \in Workers, Redeliver(w) PROVE Shape'
  BY <1>0, <1>17 DEF Redeliver, Shape
<1>18. CASE UNCHANGED vars
  BY <1>18 DEF vars, Shape
<1> QED
  BY <1>1, <1>2, <1>3, <1>4, <1>5, <1>6, <1>8, <1>9, <1>10, <1>11, <1>12, <1>13, <1>14, <1>15,
     <1>16, <1>17, <1>18 DEF Next, Task, Fault

\* Type correctness for every instance, any number of workers and redeliveries:
\* the row stays a row of batch_jobs whatever flushes interleave.
THEOREM TypeInvariant == Spec => []TypeOK
<1>1. Shape => TypeOK
  BY DEF Shape, TypeOK, RowType
<1> QED BY <1>1, ShapeInit, ShapeStep, PTL DEF Spec

-----------------------------------------------------------------------------
(* Who holds a job.                                                         *)

Ownership == Exclusive /\ Unsent /\ OneMessage

\* Steps that move no message.
LEMMA OwnershipFrame ==
  ASSUME Shape, Ownership, queue' = queue, held' = held,
         \A j \in Jobs : api'[j] # "enqueued" => api[j] # "enqueued"
  PROVE  Ownership'
BY DEF Ownership, Exclusive, Unsent, OneMessage

\* A worker gives its message up or back.
LEMMA OwnershipReleased ==
  ASSUME Shape, Ownership, NEW w \in Workers, held[w] \in Jobs, Release(w), api' = api,
         queue' = queue \/ queue' = [queue EXCEPT ![held[w]] = @ + 1]
  PROVE  Ownership'
<1> USE ConstantsAssumption
<1>1. held'[w] = NoJob /\ \A v \in Workers : v # w => held'[v] = held[v]
  BY DEF Release, Shape
<1>2. Exclusive'
  BY <1>1 DEF Ownership, Exclusive
<1>3. Unsent'
  <2> SUFFICES ASSUME NEW j \in Jobs, api[j] # "enqueued"
               PROVE  queue'[j] = 0 /\ \A v \in Workers : held'[v] # j
    BY DEF Unsent
  <2>1. queue[j] = 0 /\ \A v \in Workers : held[v] # j
    BY DEF Ownership, Unsent
  <2> QED BY <1>1, <2>1 DEF Shape
<1>4. OneMessage'
  <2> SUFFICES ASSUME MaxDuplicates = 0, NEW j \in Jobs
               PROVE  queue'[j] <= 1 /\ (queue'[j] = 1 => \A v \in Workers : held'[v] # j)
    BY DEF OneMessage
  <2>1. queue[j] \in Nat /\ queue[j] <= 1 /\ (queue[j] = 1 => \A v \in Workers : held[v] # j)
    BY DEF Ownership, OneMessage, Shape
  <2>2. CASE j # held[w]
    BY <1>1, <2>1, <2>2 DEF Shape
  <2>3. CASE j = held[w]
    <3>1. \A v \in Workers : held'[v] # j
      BY <1>1, <2>3 DEF Ownership, Exclusive
    <3>2. queue[j] = 0
      BY <2>1, <2>3
    <3> QED BY <2>3, <3>1, <3>2 DEF Shape
  <2> QED BY <2>2, <2>3
<1> QED BY <1>2, <1>3, <1>4 DEF Ownership

\* The broker hands a job that is held to nobody else, if tasks run one at a time.
LEMMA FetchedAlone ==
  ASSUME OneAtATime, Shape, Ownership, NEW w \in Workers, NEW j \in Jobs, Fetch(w, j)
  PROVE  Exclusive'
<1> USE ConstantsAssumption DEF taskVars
<1>1. queue[j] > 0 /\ held'[w] = j /\ \A v \in Workers : v # w => held'[v] = held[v]
  BY DEF Fetch, Shape
<1>2. CASE \A u, v \in Workers : u = v
  BY <1>2 DEF Exclusive
<1>3. CASE MaxDuplicates = 0
  <2>1. queue[j] = 1
    BY <1>1, <1>3 DEF Ownership, OneMessage, Shape
  <2>2. \A v \in Workers : held[v] # j
    BY <1>3, <2>1 DEF Ownership, OneMessage
  <2> QED BY <1>1, <2>2 DEF Ownership, Exclusive
<1> QED BY <1>2, <1>3 DEF OneAtATime

\* Any other step leaves a job with who has it.
LEMMA HandsStay ==
  ASSUME Shape, Ownership, [Next]_vars, \A w \in Workers, j \in Jobs : ~Fetch(w, j)
  PROVE  Exclusive'
<1> USE ConstantsAssumption DEF requestVars, taskVars
<1>1. ASSUME \A w \in Workers : held'[w] \in {held[w], NoJob} PROVE Exclusive'
  BY <1>1 DEF Ownership, Exclusive
<1>2. ASSUME held' = held PROVE Exclusive'
  BY <1>1, <1>2
<1>3. ASSUME NEW j \in Jobs, Request(j) \/ RequestFails(j) \/ ExpireInput(j) PROVE Exclusive'
  BY <1>2, <1>3 DEF Request, CreateJob, StoreInput, Enqueue, RequestFails, ExpireInput
<1>4. ASSUME NEW w \in Workers,
             LoadJob(w) \/ GetInput(w) \/ LimitExceeded(w) \/ Begin(w) \/ LoadProfile(w)
               \/ ProcessRow(w) \/ Finish(w) \/ DeleteInput(w) \/ TaskError(w) \/ Redeliver(w)
      PROVE  Exclusive'
  BY <1>2, <1>4 DEF LoadJob, GetInput, LimitExceeded, Begin, LoadProfile, ProcessRow, Finish,
     DeleteInput, TaskError, Redeliver
<1>5. ASSUME NEW w \in Workers, Acknowledge(w) \/ Raise(w) \/ WorkerDies(w) \/ ChildDies(w)
      PROVE  Exclusive'
  <2>1. \A v \in Workers : held'[v] \in {held[v], NoJob}
    BY <1>5 DEF Acknowledge, Raise, WorkerDies, ChildDies, Release, Shape
  <2> QED BY <1>1, <2>1
<1>6. CASE EditProfile \/ UNCHANGED vars
  BY <1>2, <1>6 DEF EditProfile, vars
<1> QED BY <1>3, <1>4, <1>5, <1>6 DEF Next, Request, Task, Fault

\* While no job is in two pairs of hands, every step keeps count of its messages.
LEMMA OwnershipStep ==
  ASSUME Exclusive', Shape, Ownership, [Next]_vars
  PROVE  Ownership'
<1> USE ConstantsAssumption DEF requestVars, taskVars
<1>1. ASSUME NEW j \in Jobs, Enqueue(j) PROVE Ownership'
  <2>1. queue[j] = 0 /\ (\A v \in Workers : held[v] # j) /\ held' = held
    BY <1>1 DEF Enqueue, Ownership, Unsent
  <2>2. queue'[j] = 1 /\ (\A k \in Jobs : k # j => queue'[k] = queue[k]) /\ api'[j] = "enqueued"
        /\ \A k \in Jobs : k # j => api'[k] = api[k]
    BY <1>1, <2>1 DEF Enqueue, Shape
  <2> QED BY <2>1, <2>2 DEF Ownership, Exclusive, Unsent, OneMessage
<1>2. ASSUME NEW j \in Jobs,
             CreateJob(j) \/ StoreInput(j) \/ RequestFails(j) \/ ExpireInput(j)
      PROVE  Ownership'
  <2>1. queue' = queue /\ held' = held
    BY <1>2 DEF CreateJob, StoreInput, RequestFails, ExpireInput
  <2>2. \A k \in Jobs : api'[k] # "enqueued" => api[k] # "enqueued"
    BY <1>2 DEF CreateJob, StoreInput, RequestFails, ExpireInput, Shape
  <2> QED BY <2>1, <2>2, OwnershipFrame
<1>3. CASE EditProfile \/ UNCHANGED vars
  BY <1>3, OwnershipFrame DEF EditProfile, vars
<1>4. ASSUME NEW w \in Workers, NEW j \in Jobs, Fetch(w, j) PROVE Ownership'
  <2>1. /\ queue[j] > 0 /\ queue'[j] = queue[j] - 1 /\ api' = api
        /\ \A k \in Jobs : k # j => queue'[k] = queue[k]
        /\ held'[w] = j /\ \A v \in Workers : v # w => held'[v] = held[v]
    BY <1>4 DEF Fetch, Shape
  <2>2. api[j] = "enqueued" /\ queue[j] \in Nat
    BY <2>1 DEF Ownership, Unsent, Shape
  <2>3. Unsent'
    BY <2>1, <2>2 DEF Ownership, Unsent
  <2>4. OneMessage'
    BY <2>1, <2>2 DEF Ownership, OneMessage
  <2> QED BY <2>3, <2>4 DEF Ownership
<1>5. ASSUME NEW w \in Workers,
             LoadJob(w) \/ GetInput(w) \/ LimitExceeded(w) \/ Begin(w) \/ LoadProfile(w)
               \/ ProcessRow(w) \/ Finish(w) \/ DeleteInput(w) \/ TaskError(w)
      PROVE  Ownership'
  <2>1. UNCHANGED <<queue, held, api>>
    BY <1>5 DEF LoadJob, GetInput, LimitExceeded, Begin, LoadProfile, ProcessRow, Finish,
       DeleteInput, TaskError
  <2> QED BY <2>1, OwnershipFrame
<1>6. ASSUME NEW w \in Workers, Acknowledge(w) \/ Raise(w) \/ WorkerDies(w) \/ ChildDies(w)
      PROVE  Ownership'
  <2>1. held[w] \in Jobs
    BY <1>6 DEF Acknowledge, Raise, WorkerDies, ChildDies, Shape
  <2>2. /\ Release(w) /\ api' = api
        /\ queue' = queue \/ queue' = [queue EXCEPT ![held[w]] = @ + 1]
    BY <1>6 DEF Acknowledge, Raise, WorkerDies, ChildDies
  <2> QED BY <2>1, <2>2, OwnershipReleased
<1>7. ASSUME NEW w \in Workers, Redeliver(w) PROVE Ownership'
  <2>1. held[w] \in Jobs /\ held' = held /\ api' = api /\ MaxDuplicates # 0
    BY <1>7 DEF Redeliver, Shape
  <2>2. \A j \in Jobs : api[j] # "enqueued" => queue'[j] = queue[j]
    BY <1>7, <2>1 DEF Redeliver, Shape, Ownership, Unsent
  <2> QED BY <2>1, <2>2 DEF Ownership, Exclusive, Unsent, OneMessage
<1> QED BY <1>1, <1>2, <1>3, <1>4, <1>5, <1>6, <1>7 DEF Next, Request, Task, Fault

-----------------------------------------------------------------------------
(* The row and the session in step with it.                                 *)

\* One more row counted.
LEMMA CountedOne ==
  ASSUME NEW c \in [Outcomes -> Nat], NEW o \in Outcomes
  PROVE  /\ [c EXCEPT ![o] = @ + 1] \in [Outcomes -> Nat]
         /\ Counted([c EXCEPT ![o] = @ + 1]) = Counted(c) + 1
<1>1. [c EXCEPT ![o] = @ + 1] \in [Outcomes -> Nat]
  OBVIOUS
<1>2. \A p \in Outcomes : [c EXCEPT ![o] = @ + 1][p] = IF p = o THEN c[p] + 1 ELSE c[p]
  OBVIOUS
<1>3. \A p \in Outcomes : c[p] \in Nat
  OBVIOUS
<1> QED BY <1>1, <1>2, <1>3 DEF Counted, Outcomes

\* A worker that works on a job commits exactly the row it has in memory.
LEMMA CommitInStep ==
  ASSUME Shape, NEW w \in Workers, held[w] \in Jobs, base[w] = job[held[w]],
         NEW m \in RowType, Commit(w, m)
  PROVE  /\ job' = [job EXCEPT ![held[w]] = m]
         /\ job'[held[w]] = m /\ base'[w] = m /\ mem'[w] = m
         /\ \A j \in Jobs : j # held[w] => job'[j] = job[j]
         /\ \A v \in Workers : v # w => base'[v] = base[v] /\ mem'[v] = mem[v]
<1>1. Flush(job[held[w]], m, base[w]) = m
  BY FlushInStep DEF Shape
<1>2. job' = [job EXCEPT ![held[w]] = m]
  BY <1>1 DEF Commit
<1> QED BY <1>2 DEF Commit, Shape

\* A step of worker w that only touches the row of its own job has to answer
\* for that row and for its own session.
LEMMA WorkerStep ==
  ASSUME Exclusive', BatchInv, [Next]_vars, NEW w \in Workers,
         api' = api, dropped' \subseteq dropped \cup {held[w]},
         \A v \in Workers : v # w => /\ pc'[v] = pc[v] /\ held'[v] = held[v]
                                     /\ base'[v] = base[v] /\ mem'[v] = mem[v]
                                     /\ next'[v] = next[v] /\ counts'[v] = counts[v],
         \A j \in Jobs : j # held[w] => job'[j] = job[j],
         held[w] \in Jobs => SoundRow(held[w], job'[held[w]]), InStep(w)'
  PROVE  BatchInv'
<1>1. Shape' /\ Ownership'
  BY ShapeStep, OwnershipStep DEF BatchInv, Ownership
<1>2. Untouched'
  <2> SUFFICES ASSUME NEW j \in Jobs, api[j] # "enqueued"
               PROVE  j \notin dropped' /\ job'[j]["status"] \notin Terminal
    BY DEF Untouched
  <2>1. j # held[w]
    BY DEF BatchInv, Unsent
  <2> QED BY <2>1 DEF BatchInv, Untouched
<1>3. \A j \in Jobs : SoundRow(j, job'[j])
  BY DEF BatchInv
<1>4. ASSUME NEW v \in Workers PROVE InStep(v)'
  <2>1. CASE v = w
    BY <2>1
  <2>2. CASE v # w /\ pc[v] = "idle"
    BY <2>2 DEF InStep
  <2>3. CASE v # w /\ pc[v] # "idle"
    <3>1. held[v] \in Jobs /\ held[v] # held[w]
      BY <2>3, ConstantsAssumption DEF BatchInv, Shape, Exclusive
    <3>2. job'[held[v]] = job[held[v]]
      BY <3>1
    <3> QED BY <2>3, <3>2 DEF BatchInv, InStep
  <2> QED BY <2>1, <2>2, <2>3
<1> QED BY <1>1, <1>2, <1>3, <1>4 DEF BatchInv, Ownership

\* The same for a step of worker w that changes no row.
LEMMA QuietStep ==
  ASSUME Exclusive', BatchInv, [Next]_vars, NEW w \in Workers,
         api' = api, job' = job, dropped' \subseteq dropped \cup {held[w]},
         \A v \in Workers : v # w => /\ pc'[v] = pc[v] /\ held'[v] = held[v]
                                     /\ base'[v] = base[v] /\ mem'[v] = mem[v]
                                     /\ next'[v] = next[v] /\ counts'[v] = counts[v],
         InStep(w)'
  PROVE  BatchInv'
<1>1. held[w] \in Jobs => SoundRow(held[w], job'[held[w]])
  BY DEF BatchInv
<1> QED BY <1>1, WorkerStep

\* Every step keeps the invariant, while no job is in two pairs of hands.
LEMMA BatchStep ==
  ASSUME Exclusive', BatchInv, [Next]_vars
  PROVE  BatchInv'
<1> USE DEF requestVars, taskVars
<1>0. Shape /\ Shape' /\ Ownership'
  BY ShapeStep, OwnershipStep DEF BatchInv, Ownership
<1>1. ASSUME NEW w \in Workers, pc[w] # "idle" PROVE held[w] \in Jobs
  BY <1>0, <1>1 DEF Shape
\* Steps of the API and the environment.
<1>2. ASSUME UNCHANGED <<job, pc, held, base, mem, next, counts, dropped>>,
             \A j \in Jobs : api'[j] # "enqueued" => api[j] # "enqueued"
      PROVE  BatchInv'
  BY <1>0, <1>2 DEF BatchInv, Ownership, Untouched, InStep
<1>3. ASSUME NEW j \in Jobs, CreateJob(j) PROVE BatchInv'
  <2> DEFINE r == Row("QUEUED", 0, 0, NoCounts)
  <2>1. /\ r \in RowType /\ r["status"] = "QUEUED" /\ r["total_records"] = 0
        /\ r["processed_records"] = 0 /\ \A o \in Outcomes : r[o] = 0
    <3>1. "QUEUED" \in Statuses /\ 0 \in Nat /\ NoCounts \in [Outcomes -> Nat]
      BY NoRowType DEF Statuses
    <3>2. \A o \in Outcomes : NoCounts[o] = 0
      BY DEF NoCounts
    <3> QED BY <3>1, <3>2, NewRow
  <2> HIDE DEF r
  <2>2. job'[j] = r /\ \A k \in Jobs : k # j => job'[k] = job[k]
    BY <1>0, <1>3 DEF CreateJob, Shape, r
  <2>3. /\ UNCHANGED <<pc, held, base, mem, next, counts, dropped>> /\ api[j] = "new"
        /\ \A k \in Jobs : k # j => api'[k] = api[k]
    BY <1>0, <1>3 DEF CreateJob, Shape
  <2>4. Untouched'
    BY <2>1, <2>2, <2>3 DEF BatchInv, Untouched, Terminal
  <2>5. \A k \in Jobs : SoundRow(k, job'[k])
    <3>1. SoundRow(j, r)
      BY <2>1, ConstantsAssumption DEF SoundRow, Counted, Outcomes
    <3> QED BY <2>2, <3>1 DEF BatchInv
  <2>6. ASSUME NEW v \in Workers PROVE InStep(v)'
    <3>1. CASE pc[v] = "idle"
      BY <2>3, <3>1 DEF InStep
    <3>2. CASE pc[v] # "idle"
      <4>1. held[v] \in Jobs /\ held[v] # j
        BY <1>1, <2>3, <3>2 DEF BatchInv, Unsent
      <4> QED BY <2>2, <2>3, <4>1 DEF BatchInv, InStep
    <3> QED BY <3>1, <3>2
  <2> QED BY <1>0, <2>4, <2>5, <2>6 DEF BatchInv, Ownership
<1>4. ASSUME NEW j \in Jobs, StoreInput(j) \/ Enqueue(j) \/ RequestFails(j) \/ ExpireInput(j)
      PROVE  BatchInv'
  <2>1. UNCHANGED <<job, pc, held, base, mem, next, counts, dropped>>
    BY <1>4 DEF StoreInput, Enqueue, RequestFails, ExpireInput
  <2>2. \A k \in Jobs : api'[k] # "enqueued" => api[k] # "enqueued"
    BY <1>0, <1>4 DEF StoreInput, Enqueue, RequestFails, ExpireInput, Shape
  <2> QED BY <1>2, <2>1, <2>2
<1>5. CASE EditProfile \/ UNCHANGED vars
  BY <1>2, <1>5 DEF EditProfile, vars
\* Steps of a task that change no row.
<1>6. ASSUME NEW w \in Workers, NEW j \in Jobs, Fetch(w, j) PROVE BatchInv'
  <2>1. InStep(w)'
    BY <1>0, <1>6 DEF Fetch, Goto, InStep, Shape
  <2> QED BY <1>0, <1>6, <2>1, QuietStep DEF Fetch, Goto, Shape
<1>7. ASSUME NEW w \in Workers, LoadJob(w) PROVE BatchInv'
  <2>1. /\ held' = held /\ job' = job /\ base'[w] = job[held[w]] /\ mem'[w] = job[held[w]]
        /\ pc'[w] = IF job[held[w]]["status"] \in Terminal THEN "returned" ELSE "loaded"
    BY <1>0, <1>7 DEF LoadJob, Goto, Shape
  <2>2. InStep(w)'
    BY <2>1 DEF InStep
  <2> QED BY <1>0, <1>7, <2>2, QuietStep DEF LoadJob, Goto, Shape
<1>8. ASSUME NEW w \in Workers, GetInput(w) \/ TaskError(w) PROVE BatchInv'
  <2>1. /\ UNCHANGED <<api, job, held, taskVars, dropped>>
        /\ \A v \in Workers : v # w => pc'[v] = pc[v]
        /\ pc'[w] = "raised" \/ (pc[w] = "loaded" /\ pc'[w] = "input")
    BY <1>0, <1>8 DEF GetInput, TaskError, Goto, Shape
  <2>2. InStep(w)'
    BY <2>1 DEF BatchInv, InStep
  <2> QED BY <2>1, <2>2, QuietStep
<1>9. ASSUME NEW w \in Workers, LoadProfile(w) PROVE BatchInv'
  <2>1. /\ UNCHANGED <<api, job, held, base, mem, next, counts, dropped>>
        /\ \A v \in Workers : v # w => pc'[v] = pc[v]
        /\ pc[w] = "begun" /\ pc'[w] = "rows"
    BY <1>0, <1>9 DEF LoadProfile, Goto, Shape
  <2>2. mem[w] = job[held[w]] /\ next[w] = 1
    BY <2>1 DEF BatchInv, InStep
  <2>3. job[held[w]] \in [Columns -> Statuses \cup Nat]
    BY <1>0, <1>1, <2>1 DEF Shape, RowType
  <2>4. [job[held[w]] EXCEPT !["processed_records"] = @] = job[held[w]]
    BY <2>3
  <2>5. InStep(w)'
    BY <2>1, <2>2, <2>4 DEF BatchInv, InStep
  <2> QED BY <2>1, <2>5, QuietStep
<1>10. ASSUME NEW w \in Workers, DeleteInput(w) PROVE BatchInv'
  <2>1. /\ UNCHANGED <<api, job, held, taskVars, dropped>>
        /\ \A v \in Workers : v # w => pc'[v] = pc[v]
        /\ pc[w] = "finished" /\ pc'[w] = "returned"
    BY <1>0, <1>10 DEF DeleteInput, Goto, Shape
  <2>2. InStep(w)'
    BY <2>1 DEF BatchInv, InStep
  <2> QED BY <2>1, <2>2, QuietStep
<1>11. ASSUME NEW w \in Workers, Acknowledge(w) \/ Raise(w) \/ WorkerDies(w) \/ ChildDies(w)
       PROVE  BatchInv'
  <2>1. /\ Release(w) /\ UNCHANGED <<api, job>> /\ dropped' \subseteq dropped \cup {held[w]}
    BY <1>11 DEF Acknowledge, Raise, WorkerDies, ChildDies
  <2>2. InStep(w)'
    BY <1>0, <2>1 DEF Release, Goto, InStep, Shape
  <2>3. \A v \in Workers : v # w => /\ pc'[v] = pc[v] /\ held'[v] = held[v]
                                    /\ base'[v] = base[v] /\ mem'[v] = mem[v]
                                    /\ next'[v] = next[v] /\ counts'[v] = counts[v]
    BY <1>0, <2>1 DEF Release, Goto, Shape
  <2> QED BY <2>1, <2>2, <2>3, QuietStep
<1>12. ASSUME NEW w \in Workers, Redeliver(w) PROVE BatchInv'
  BY <1>2, <1>12 DEF Redeliver
\* Steps of a task that commit.
<1>13. ASSUME NEW w \in Workers, LimitExceeded(w) PROVE BatchInv'
  <2> DEFINE j == held[w]
             m == [mem[w] EXCEPT !["status"] = "FAILED"]
  <2>1. /\ pc[w] = "input" /\ Commit(w, m) /\ j \in Jobs
        /\ UNCHANGED <<api, held, next, counts, dropped>>
        /\ pc'[w] = "raised" /\ \A v \in Workers : v # w => pc'[v] = pc[v]
    BY <1>0, <1>1, <1>13 DEF LimitExceeded, Goto, Shape
  <2>2. base[w] = job[j] /\ mem[w] = job[j] /\ job[j] \in RowType
    BY <1>0, <2>1 DEF BatchInv, InStep, Shape
  <2>3. /\ m \in RowType /\ m["status"] = "FAILED"
        /\ \A f \in Columns \ {"status"} : m[f] = job[j][f]
    <3>1. "FAILED" \in Statuses
      BY DEF Statuses, Terminal
    <3> QED BY <2>2, <3>1, SetStatus
  <2> HIDE DEF m
  <2>4. /\ job'[j] = m
        /\ \A k \in Jobs : k # j => job'[k] = job[k]
        /\ \A v \in Workers : v # w => base'[v] = base[v] /\ mem'[v] = mem[v]
    BY <1>0, <2>1, <2>2, <2>3, CommitInStep
  <2>5. SoundRow(j, job'[j])
    BY <2>1, <2>3, <2>4 DEF BatchInv, SoundRow, Counted, Columns, Outcomes
  <2>6. InStep(w)'
    BY <2>1 DEF InStep
  <2> QED BY <2>1, <2>4, <2>5, <2>6, WorkerStep
<1>14. ASSUME NEW w \in Workers, Begin(w) PROVE BatchInv'
  <2> DEFINE j == held[w]
             m == [mem[w] EXCEPT !["status"] = "RUNNING", !["total_records"] = Length[held[w]]]
  <2>1. /\ pc[w] = "input" /\ Commit(w, m) /\ j \in Jobs
        /\ UNCHANGED <<api, held, dropped>>
        /\ pc'[w] = "begun" /\ next'[w] = 1 /\ counts'[w] = NoCounts
        /\ \A v \in Workers : v # w => pc'[v] = pc[v] /\ next'[v] = next[v] /\ counts'[v] = counts[v]
    BY <1>0, <1>1, <1>14 DEF Begin, Goto, Shape
  <2>2. base[w] = job[j] /\ mem[w] = job[j] /\ job[j] \in RowType /\ Length[j] \in Nat
    BY <1>0, <2>1, ConstantsAssumption DEF BatchInv, InStep, Shape
  <2>3. /\ m \in RowType /\ m["status"] = "RUNNING" /\ m["total_records"] = Length[j]
        /\ m["processed_records"] = job[j]["processed_records"]
        /\ \A o \in Outcomes : m[o] = job[j][o]
    BY <2>2, BegunRow
  <2> HIDE DEF m
  <2>4. /\ job'[j] = m /\ base'[w] = m /\ mem'[w] = m
        /\ \A k \in Jobs : k # j => job'[k] = job[k]
        /\ \A v \in Workers : v # w => base'[v] = base[v] /\ mem'[v] = mem[v]
    BY <1>0, <2>1, <2>2, <2>3, CommitInStep
  <2>5. SoundRow(j, job'[j])
    BY <2>1, <2>3, <2>4 DEF BatchInv, SoundRow, Counted, Outcomes
  <2>6. InStep(w)'
    BY <2>1, <2>2, <2>3, <2>4, NoRowType DEF InStep, Terminal
  <2> QED BY <2>1, <2>4, <2>5, <2>6, WorkerStep
<1>15. ASSUME NEW w \in Workers, ProcessRow(w) PROVE BatchInv'
  <2> DEFINE j == held[w]
             i == next[w]
             n == [counts[w] EXCEPT ![Analysis[profile[w]][j][i]] = @ + 1]
             m == [mem[w] EXCEPT !["processed_records"] = i]
  <2>1. /\ pc[w] = "rows" /\ j \in Jobs /\ i \in 1..Length[j] /\ Length[j] \in Nat /\ i \in Nat
        /\ UNCHANGED <<api, held, pc, dropped>>
        /\ next'[w] = i + 1 /\ counts'[w] = n
        /\ \A v \in Workers : v # w => next'[v] = next[v] /\ counts'[v] = counts[v]
        /\ Commit(w, WithCounts(m, n)) \/ (mem' = [mem EXCEPT ![w] = m] /\ UNCHANGED <<job, base>>)
    <3>1. /\ pc[w] = "rows" /\ i <= Length[j]
          /\ UNCHANGED <<api, held, pc, dropped>>
          /\ next' = [next EXCEPT ![w] = i + 1] /\ counts' = [counts EXCEPT ![w] = n]
          /\ Commit(w, WithCounts(m, n)) \/ (mem' = [mem EXCEPT ![w] = m] /\ UNCHANGED <<job, base>>)
      BY <1>15 DEF ProcessRow, requestVars
    <3>2. j \in Jobs
      BY <1>0, <1>1, <3>1
    <3>3. next \in [Workers -> Nat \ {0}] /\ counts \in [Workers -> [Outcomes -> Nat]]
      BY <1>0 DEF Shape
    <3>4. Length[j] \in Nat
      BY <3>2, ConstantsAssumption
    <3> HIDE DEF j, n, m
    <3>5. i \in Nat /\ i \in 1..Length[j]
      BY <3>1, <3>3, <3>4
    <3>6. next'[w] = i + 1 /\ counts'[w] = n
      BY <3>1, <3>3
    <3>7. \A v \in Workers : v # w => next'[v] = next[v] /\ counts'[v] = counts[v]
      BY <3>1, <3>3
    <3> QED BY <3>1, <3>2, <3>4, <3>5, <3>6, <3>7
  <2>2. /\ base[w] = job[j] /\ job[j] \in RowType /\ job[j]["status"] \notin Terminal
        /\ job[j]["total_records"] = Length[j] /\ Counted(counts[w]) = i - 1
        /\ mem[w] = [job[j] EXCEPT !["processed_records"] = IF i = 1 THEN @ ELSE i - 1]
    BY <1>0, <2>1 DEF BatchInv, InStep, Shape
  <2>3. n \in [Outcomes -> Nat] /\ Counted(n) = i
    <3>1. profile[w] \in 0..MaxRevision /\ counts[w] \in [Outcomes -> Nat]
      BY <1>0 DEF Shape
    <3>2. Analysis[profile[w]][j][i] \in Outcomes
      <4>1. Analysis[profile[w]][j] \in [1..Length[j] -> Outcomes]
        BY <2>1, <3>1, ConstantsAssumption
      <4> QED BY <2>1, <4>1
    <3>3. Counted(n) = Counted(counts[w]) + 1 /\ n \in [Outcomes -> Nat]
      BY <3>1, <3>2, CountedOne
    <3> HIDE DEF i, n
    <3> QED BY <2>1, <2>2, <3>3
  <2>4. /\ m = [job[j] EXCEPT !["processed_records"] = i]
        /\ m \in RowType /\ m["processed_records"] = i
        /\ \A f \in Columns \ {"processed_records"} : m[f] = job[j][f]
    <3>1. m = [job[j] EXCEPT !["processed_records"] = i]
      BY <2>2 DEF RowType
    <3> HIDE DEF i, j, m
    <3> QED BY <2>1, <2>2, <3>1, SetNumber
  <2> HIDE DEF n, m
  <2>5. CASE mem' = [mem EXCEPT ![w] = m] /\ UNCHANGED <<job, base>>
    <3>1. mem'[w] = m /\ \A v \in Workers : v # w => mem'[v] = mem[v]
      BY <1>0, <2>5 DEF Shape
    <3>2. i + 1 \in 1..(Length[j] + 1) /\ i + 1 # 1 /\ i = (i + 1) - 1
      BY ONLY <2>1
    <3>3. InStep(w)'
      BY <2>1, <2>2, <2>3, <2>4, <2>5, <3>1, <3>2 DEF InStep
    <3> QED BY <2>1, <2>5, <3>1, <3>3, QuietStep
  <2>6. CASE Commit(w, WithCounts(m, n))
    <3> DEFINE r == WithCounts(m, n)
    <3>0. {"status", "total_records", "processed_records"} \subseteq Columns \ Outcomes
      BY DEF Columns, Outcomes
    <3>1. /\ r \in RowType /\ Counted(r) = i /\ r["processed_records"] = i
          /\ r["status"] = job[j]["status"] /\ r["total_records"] = Length[j]
      <4>1. /\ r \in RowType /\ Counted(r) = Counted(n)
            /\ \A f \in Columns \ Outcomes : r[f] = m[f]
        BY <2>3, <2>4, WrittenCounts
      <4>2. m["status"] = job[j]["status"] /\ m["total_records"] = job[j]["total_records"]
        BY <2>4, <3>0
      <4> HIDE DEF r
      <4> QED BY <2>2, <2>3, <2>4, <3>0, <4>1, <4>2
    <3>2. Commit(w, r)
      BY <2>6
    <3> HIDE DEF r
    <3>3. /\ job'[j] = r /\ base'[w] = r /\ mem'[w] = r
          /\ \A k \in Jobs : k # j => job'[k] = job[k]
          /\ \A v \in Workers : v # w => base'[v] = base[v] /\ mem'[v] = mem[v]
      BY <1>0, <2>1, <2>2, <3>1, <3>2, CommitInStep
    <3>4. SoundRow(j, job'[j])
      BY <2>1, <2>2, <3>1, <3>3 DEF SoundRow, Terminal
    <3>5. r = [r EXCEPT !["processed_records"] = (i + 1) - 1]
      BY <2>1, <3>1 DEF RowType
    <3>6. InStep(w)'
      <4>1. i + 1 \in 1..(Length[j] + 1) /\ i + 1 # 1 /\ i = (i + 1) - 1
        BY ONLY <2>1
      <4> QED BY <2>1, <2>2, <2>3, <3>1, <3>3, <3>5, <4>1 DEF InStep
    <3> QED BY <2>1, <3>3, <3>4, <3>6, WorkerStep
  <2> QED BY <2>1, <2>5, <2>6
<1>16. ASSUME NEW w \in Workers, Finish(w) PROVE BatchInv'
  <2> DEFINE j == held[w]
             status == IF counts[w]["failed"] = 0 THEN "COMPLETED" ELSE "PARTIAL"
             m == [mem[w] EXCEPT !["status"] = status]
             r == WithCounts(m, counts[w])
  <2>1. /\ pc[w] = "rows" /\ j \in Jobs /\ next[w] > Length[j] /\ Length[j] \in Nat
        /\ Commit(w, r) /\ UNCHANGED <<api, held, next, counts, dropped>>
        /\ pc'[w] = "finished" /\ \A v \in Workers : v # w => pc'[v] = pc[v]
    BY <1>0, <1>1, <1>16, ConstantsAssumption DEF Finish, Goto, Shape
  <2>2. /\ base[w] = job[j] /\ job[j] \in RowType /\ mem[w] \in RowType
        /\ job[j]["total_records"] = Length[j] /\ Counted(counts[w]) = next[w] - 1
        /\ next[w] \in 1..(Length[j] + 1)
        /\ mem[w] = [job[j] EXCEPT !["processed_records"] = IF next[w] = 1 THEN @ ELSE next[w] - 1]
    BY <1>0, <2>1 DEF BatchInv, InStep, Shape
  <2>3. next[w] = Length[j] + 1 /\ counts[w] \in [Outcomes -> Nat]
    <3>1. next[w] = Length[j] + 1
      BY ONLY <2>1, <2>2
    <3> QED BY <1>0, <3>1 DEF Shape
  <2>4. mem[w]["processed_records"] = Length[j] /\ mem[w]["total_records"] = Length[j]
    <3>1. job[j]["processed_records"] \in Nat /\ job[j]["processed_records"] <= Length[j]
      BY <2>1, <2>2, RowColumns DEF BatchInv, SoundRow
    <3>2. /\ mem[w]["processed_records"] = IF next[w] = 1 THEN job[j]["processed_records"]
                                                           ELSE next[w] - 1
          /\ mem[w]["total_records"] = job[j]["total_records"]
      BY <2>2 DEF RowType, Columns
    <3>3. next[w] = 1 => job[j]["processed_records"] = Length[j]
      BY ONLY <2>1, <2>3, <3>1
    <3>4. next[w] - 1 = Length[j]
      BY ONLY <2>1, <2>3
    <3> QED BY <2>2, <3>2, <3>3, <3>4
  <2>5. status \in Statuses /\ status \in {"COMPLETED", "PARTIAL"}
    BY DEF Statuses, Terminal
  <2>6. /\ m \in RowType /\ m["status"] = status
        /\ m["processed_records"] = Length[j] /\ m["total_records"] = Length[j]
    <3>1. {"total_records", "processed_records"} \subseteq Columns \ {"status"}
      BY DEF Columns
    <3> HIDE DEF status
    <3>2. /\ m \in RowType /\ m["status"] = status
          /\ \A f \in Columns \ {"status"} : m[f] = mem[w][f]
      <4>1. mem[w] \in RowType
        BY <2>2
      <4> QED BY <2>5, <4>1, SetStatus
    <3> HIDE DEF m
    <3> QED BY <2>4, <3>1, <3>2
  <2>7. status = "PARTIAL" <=> counts[w]["failed"] > 0
    BY <2>3 DEF Outcomes
  <2> HIDE DEF m, status
  <2>8. /\ r \in RowType /\ Counted(r) = Length[j] /\ r["failed"] = counts[w]["failed"]
        /\ r["status"] = status
        /\ r["processed_records"] = Length[j] /\ r["total_records"] = Length[j]
    BY <2>1, <2>2, <2>3, <2>6, WrittenCounts DEF Columns, Outcomes
  <2> HIDE DEF r
  <2>9. /\ job'[j] = r
        /\ \A k \in Jobs : k # j => job'[k] = job[k]
        /\ \A v \in Workers : v # w => base'[v] = base[v] /\ mem'[v] = mem[v]
    BY <1>0, <2>1, <2>2, <2>8, CommitInStep
  <2>10. SoundRow(j, job'[j])
    BY <2>1, <2>5, <2>7, <2>8, <2>9 DEF SoundRow
  <2>11. InStep(w)'
    BY <2>1, <2>5, <2>8, <2>9 DEF InStep, Terminal
  <2> QED BY <2>1, <2>9, <2>10, <2>11, WorkerStep
<1> QED
  BY <1>3, <1>4, <1>5, <1>6, <1>7, <1>8, <1>9, <1>10, <1>11, <1>12, <1>13, <1>14, <1>15, <1>16
     DEF Next, Request, Task, Fault

\* The inductive invariant holds when no batch has been submitted.
LEMMA BatchInit == Init => BatchInv
<1> SUFFICES ASSUME Init PROVE BatchInv
  OBVIOUS
<1>1. Shape
  BY ShapeInit
<1>2. \A w \in Workers : pc[w] = "idle" /\ held[w] = NoJob
  BY DEF Init
<1>3. \A j \in Jobs : queue[j] = 0 /\ job[j] = NoRow /\ j \notin dropped
  BY DEF Init
<1>4. Exclusive /\ Unsent /\ OneMessage
  BY <1>2, <1>3, ConstantsAssumption DEF Exclusive, Unsent, OneMessage
<1>5. Untouched
  BY <1>3, NoRowType DEF Untouched, Terminal
<1>6. \A j \in Jobs : SoundRow(j, NoRow)
  <2>1. /\ NoRow["status"] = "NONE" /\ NoRow["total_records"] = 0 /\ NoRow["processed_records"] = 0
        /\ \A o \in Outcomes : NoRow[o] = 0
    <3>1. "NONE" \in Statuses /\ 0 \in Nat /\ NoCounts \in [Outcomes -> Nat]
      BY NoRowType DEF Statuses
    <3>2. \A o \in Outcomes : NoCounts[o] = 0
      BY DEF NoCounts
    <3> QED BY <3>1, <3>2, NewRow DEF NoRow
  <2> QED BY <2>1, ConstantsAssumption DEF SoundRow, Counted, Outcomes
<1>7. \A w \in Workers : InStep(w)
  BY <1>2 DEF InStep
<1> QED BY <1>1, <1>3, <1>4, <1>5, <1>6, <1>7 DEF BatchInv

-----------------------------------------------------------------------------
\* The row a client polls adds up at every commit, for every job, length and
\* progress interval and however often the task is restarted or delivered again,
\* as long as two tasks never work on one job at once.
THEOREM ProgressAddsUpAlways == Spec /\ []Exclusive => []ProgressAddsUp
<1>1. Exclusive' /\ BatchInv /\ [Next]_vars => BatchInv'
  BY BatchStep
<1>2. BatchInv => ProgressAddsUp
  BY DEF BatchInv, SoundRow, ProgressAddsUp
<1> QED BY <1>1, <1>2, BatchInit, PTL DEF Spec

\* Under the same condition a COMPLETED or PARTIAL job has processed all its
\* rows, and is PARTIAL exactly when one of them failed.
THEOREM FinishedIsWholeAlways == Spec /\ []Exclusive => []FinishedIsWhole
<1>1. Exclusive' /\ BatchInv /\ [Next]_vars => BatchInv'
  BY BatchStep
<1>2. BatchInv => FinishedIsWhole
  BY DEF BatchInv, SoundRow, FinishedIsWhole
<1> QED BY <1>1, <1>2, BatchInit, PTL DEF Spec

-----------------------------------------------------------------------------
(* A job that ended stays as it is.                                         *)

\* What one step may do to the rows: create a job, or commit the row of a job
\* that has not ended.
LEMMA RowsWritten ==
  ASSUME BatchInv, [Next]_vars, NEW j \in Jobs
  PROVE  \/ job'[j] = job[j]
         \/ api[j] = "new" /\ api'[j] = "created" /\ job'[j]["status"] \notin Terminal
         \/ \E w \in Workers : held[w] = j /\ job[j]["status"] \notin Terminal
<1> USE DEF requestVars, taskVars
<1>0. Shape
  BY DEF BatchInv
<1>1. ASSUME NEW k \in Jobs, CreateJob(k)
      PROVE  \/ job'[j] = job[j]
             \/ api[j] = "new" /\ api'[j] = "created" /\ job'[j]["status"] \notin Terminal
  <2>1. Row("QUEUED", 0, 0, NoCounts)["status"] = "QUEUED"
    BY NewRow, NoRowType DEF Statuses
  <2> QED BY <1>0, <1>1, <2>1 DEF CreateJob, Shape, Terminal
<1>2. ASSUME NEW k \in Jobs, StoreInput(k) \/ Enqueue(k) \/ RequestFails(k) \/ ExpireInput(k)
      PROVE  job'[j] = job[j]
  BY <1>2 DEF StoreInput, Enqueue, RequestFails, ExpireInput
<1>3. ASSUME NEW w \in Workers,
             \/ \E k \in Jobs : Fetch(w, k)
             \/ LoadJob(w) \/ GetInput(w) \/ LoadProfile(w) \/ DeleteInput(w)
             \/ Acknowledge(w) \/ Raise(w) \/ Fault(w)
      PROVE  job'[j] = job[j]
  BY <1>3 DEF Fetch, LoadJob, GetInput, LoadProfile, DeleteInput, Acknowledge, Raise, Fault,
     TaskError, WorkerDies, ChildDies, Redeliver
<1>4. ASSUME NEW w \in Workers, LimitExceeded(w) \/ Begin(w) \/ ProcessRow(w) \/ Finish(w)
      PROVE  job'[j] = job[j] \/ (held[w] = j /\ job[j]["status"] \notin Terminal)
  <2>1. pc[w] \in {"input", "rows"} /\ (job' = job \/ \E m : Commit(w, m))
    BY <1>4 DEF LimitExceeded, Begin, ProcessRow, Finish
  <2>2. job[held[w]]["status"] \notin Terminal
    BY <2>1 DEF BatchInv, InStep
  <2>3. CASE job' = job
    BY <2>3
  <2>4. CASE held[w] # j /\ \E m : Commit(w, m)
    BY <1>0, <2>4 DEF Commit, Shape
  <2> QED BY <2>1, <2>2, <2>3, <2>4
<1>5. CASE EditProfile \/ UNCHANGED vars
  BY <1>5 DEF EditProfile, vars
<1> QED BY <1>1, <1>2, <1>3, <1>4, <1>5 DEF Next, Request, Task

\* "A completed/partial/failed job is not reprocessed", as long as two tasks never
\* work on one job at once: no step changes the row of a job that ended.
THEOREM TerminalIsFinalAlways == Spec /\ []Exclusive => TerminalIsFinal
<1>1. Exclusive' /\ BatchInv /\ [Next]_vars => BatchInv'
  BY BatchStep
<1>2. BatchInv /\ [Next]_vars
        => [\A j \in Jobs : job[j]["status"] \in Terminal => job'[j] = job[j]]_vars
  <2> SUFFICES ASSUME BatchInv, [Next]_vars, NEW j \in Jobs, job[j]["status"] \in Terminal
               PROVE  job'[j] = job[j]
    OBVIOUS
  <2>1. api[j] # "new"
    BY DEF BatchInv, Untouched
  <2> QED BY <2>1, RowsWritten
<1> QED BY <1>1, <1>2, BatchInit, PTL DEF Spec, TerminalIsFinal

-----------------------------------------------------------------------------
(* Refinement: the API, the broker and the workers implement AtLeastOnce.   *)

\* Steps that move no message owe the same jobs.
LEMMA OwedUnchanged ==
  ASSUME queue' = queue, held' = held
  PROVE  Owed' = Owed
BY DEF Owed

\* A worker that ends its task without touching the broker can only stop owing
\* its own job.
LEMMA OwedReleased ==
  ASSUME Shape, NEW w \in Workers, held[w] \in Jobs, Release(w), queue' = queue
  PROVE  held[w] \in Owed /\ Owed' \in {Owed, Owed \ {held[w]}}
<1> USE ConstantsAssumption
<1> DEFINE j == held[w]
<1>1. j \in Jobs /\ j \in Owed
  BY DEF Owed
<1>2. held'[w] = NoJob /\ \A v \in Workers : v # w => held'[v] = held[v]
  BY DEF Release, Shape
<1>3. \A t \in Jobs : t # j => (t \in Owed' <=> t \in Owed)
  BY <1>2 DEF Owed
<1>4. Owed \subseteq Jobs /\ Owed' \subseteq Jobs
  BY DEF Owed
<1> HIDE DEF j
<1>5. CASE j \in Owed'
  <2>1. \A t : t \in Owed' <=> t \in Owed
    BY <1>1, <1>3, <1>4, <1>5
  <2>2. Owed' = Owed
    BY <2>1, Zenon
  <2> QED BY <1>1, <2>2 DEF j
<1>6. CASE j \notin Owed'
  <2>1. \A t : t \in Owed' <=> t \in Owed \ {j}
    BY <1>1, <1>3, <1>4, <1>6
  <2>2. Owed' = Owed \ {j}
    BY <2>1, Zenon
  <2> QED BY <1>1, <2>2 DEF j
<1> QED BY <1>5, <1>6

\* A message that goes back to the broker, or is delivered once more, keeps its
\* job owed, whether or not its worker lets go of it.
LEMMA OwedRequeued ==
  ASSUME Shape, NEW w \in Workers, held[w] \in Jobs, held' = held \/ Release(w),
         queue' = [queue EXCEPT ![held[w]] = @ + 1]
  PROVE  Owed' = Owed
<1> USE ConstantsAssumption
<1> DEFINE j == held[w]
<1>1. j \in Jobs /\ j \in Owed
  BY DEF Owed
<1>2. /\ \A v \in Workers : v # w => held'[v] = held[v]
      /\ held'[w] \in {j, NoJob}
  BY DEF Release, Shape
<1>3. queue'[j] > 0 /\ \A t \in Jobs : t # j => queue'[t] = queue[t]
  BY DEF Shape
<1>4. j \in Owed'
  BY <1>1, <1>3 DEF Owed
<1>5. \A t \in Jobs : t # j => (t \in Owed' <=> t \in Owed)
  BY <1>2, <1>3 DEF Owed
<1>6. Owed \subseteq Jobs /\ Owed' \subseteq Jobs
  BY DEF Owed
<1>7. \A t : t \in Owed' <=> t \in Owed
  BY <1>1, <1>4, <1>5, <1>6
<1> QED BY <1>7, Zenon

\* Fetching a message changes nothing that is owed.
LEMMA OwedFetched ==
  ASSUME Shape, NEW w \in Workers, NEW j \in Jobs, Fetch(w, j)
  PROVE  Owed' = Owed
<1> USE ConstantsAssumption
<1>1. j \in Owed /\ j \in Owed'
  BY DEF Owed, Fetch, Shape
<1>2. \A v \in Workers : v # w => held'[v] = held[v]
  BY DEF Fetch, Shape
<1>3. held[w] = NoJob /\ held'[w] = j
  BY DEF Fetch, Shape
<1>4. \A t \in Jobs : t # j => queue'[t] = queue[t]
  BY DEF Fetch, Shape
<1>5. \A t \in Jobs : t # j => (t \in Owed' <=> t \in Owed)
  BY <1>2, <1>3, <1>4 DEF Owed
<1>6. Owed \subseteq Jobs /\ Owed' \subseteq Jobs
  BY DEF Owed
<1>7. \A t : t \in Owed' <=> t \in Owed
  BY <1>1, <1>5, <1>6
<1> QED BY <1>7, Zenon

\* Sending the task makes its job owed and no other.
LEMMA OwedSent ==
  ASSUME Shape, NEW j \in Jobs, Enqueue(j)
  PROVE  Owed' = Owed \cup {j}
<1>1. j \in Owed'
  BY DEF Owed, Enqueue, Shape
<1>2. \A t \in Jobs : t # j => queue'[t] = queue[t]
  BY DEF Enqueue, Shape
<1>3. \A t \in Jobs : t # j => (t \in Owed' <=> t \in Owed)
  BY <1>2 DEF Owed, Enqueue
<1>4. Owed \subseteq Jobs /\ Owed' \subseteq Jobs
  BY DEF Owed
<1> QED BY <1>1, <1>3, <1>4

\* A commit of a worker's row carries its job out exactly when the row it
\* leaves says that the job ended, and carries no other job out.
LEMMA EndedCommitted ==
  ASSUME Shape, NEW w \in Workers, held[w] \in Jobs, NEW m, Commit(w, m),
         job[held[w]]["status"] \notin Terminal
  PROVE  Ended' = IF job'[held[w]]["status"] \in Terminal
                  THEN [Ended EXCEPT ![held[w]] = @ + 1] ELSE Ended
<1> DEFINE j == held[w]
<1>1. \A t \in Jobs : t # j => job'[t] = job[t]
  BY DEF Commit, Shape
<1>2. Ended[j] = 0 /\ DOMAIN Ended = Jobs
  BY DEF Ended
<1>3. CASE job'[j]["status"] \in Terminal
  <2>1. \A t \in Jobs : Ended'[t] = [Ended EXCEPT ![j] = @ + 1][t]
    BY <1>1, <1>2, <1>3 DEF Ended
  <2> QED BY <1>2, <1>3, <2>1 DEF Ended
<1>4. CASE job'[j]["status"] \notin Terminal
  <2>1. \A t \in Jobs : Ended'[t] = Ended[t]
    BY <1>1, <1>2, <1>4 DEF Ended
  <2> QED BY <1>4, <2>1 DEF Ended
<1> QED BY <1>3, <1>4

-----------------------------------------------------------------------------
\* What one step does to the mapped state: one case per kind of step of the
\* abstract queue, and everything else is a stutter.
MappedStep ==
  \/ UNCHANGED <<Owed, Ended, dropped>>
  \/ \E j \in Jobs : /\ api[j] = "stored"
                     /\ Owed' = Owed \cup {j}
                     /\ UNCHANGED <<Ended, dropped>>
  \/ \E j \in Owed : /\ Ended' = [Ended EXCEPT ![j] = @ + 1]
                     /\ UNCHANGED <<Owed, dropped>>
  \/ \E j \in Owed : /\ Ended[j] > 0
                     /\ Owed' \in {Owed, Owed \ {j}}
                     /\ UNCHANGED <<Ended, dropped>>
  \/ \E j \in Owed : /\ dropped' = dropped \cup {j}
                     /\ Owed' \in {Owed, Owed \ {j}}
                     /\ UNCHANGED Ended

\* Every step of the system does one of these.  That the worker acknowledges
\* only an ended job, and ends only a job that had not ended, is what the
\* invariant is needed for.
LEMMA EveryStepMapped ==
  ASSUME BatchInv, [Next]_vars
  PROVE  MappedStep
<1>0. Shape /\ \A w \in Workers : InStep(w)
  BY DEF BatchInv
<1>h. \A w \in Workers : pc[w] # "idle" => held[w] \in Jobs /\ held[w] \in Owed
  BY <1>0 DEF Shape, Owed
<1>1. ASSUME job' = job PROVE Ended' = Ended
  BY <1>1 DEF Ended
<1>2. ASSUME NEW j \in Jobs, CreateJob(j) PROVE MappedStep
  <2>1. Row("QUEUED", 0, 0, NoCounts)["status"] = "QUEUED"
    BY NewRow, NoRowType DEF Statuses
  <2>2. job'[j]["status"] \notin Terminal /\ \A t \in Jobs : t # j => job'[t] = job[t]
    BY <1>0, <1>2, <2>1 DEF CreateJob, Shape, Terminal
  <2>3. job[j]["status"] \notin Terminal
    BY <1>2 DEF BatchInv, Untouched, CreateJob
  <2>4. \A t \in Jobs : Ended'[t] = Ended[t]
    BY <2>2, <2>3 DEF Ended
  <2>5. Ended' = Ended
    BY <2>4 DEF Ended
  <2> QED BY <1>2, <2>5, OwedUnchanged DEF CreateJob, MappedStep
<1>3. ASSUME NEW j \in Jobs, Enqueue(j) PROVE MappedStep
  BY <1>0, <1>1, <1>3, OwedSent DEF Enqueue, MappedStep
<1>4. ASSUME NEW j \in Jobs, StoreInput(j) \/ RequestFails(j) \/ ExpireInput(j)
      PROVE  MappedStep
  BY <1>1, <1>4, OwedUnchanged DEF StoreInput, RequestFails, ExpireInput, MappedStep
<1>5. CASE EditProfile \/ UNCHANGED vars
  BY <1>1, <1>5, OwedUnchanged DEF EditProfile, vars, MappedStep
<1>6. ASSUME NEW w \in Workers, NEW j \in Jobs, Fetch(w, j) PROVE MappedStep
  BY <1>0, <1>1, <1>6, OwedFetched DEF Fetch, MappedStep
<1>7. ASSUME NEW w \in Workers,
             LoadJob(w) \/ GetInput(w) \/ LoadProfile(w) \/ DeleteInput(w) \/ TaskError(w)
      PROVE  MappedStep
  <2>1. UNCHANGED <<job, queue, held, dropped>>
    BY <1>7 DEF LoadJob, GetInput, LoadProfile, DeleteInput, TaskError
  <2> QED BY <1>1, <2>1, OwedUnchanged DEF MappedStep
<1>8. ASSUME NEW w \in Workers, LimitExceeded(w) \/ Begin(w) \/ ProcessRow(w) \/ Finish(w)
      PROVE  MappedStep
  <2>1. /\ pc[w] \in {"input", "rows"} /\ (job' = job \/ \E m : Commit(w, m))
        /\ UNCHANGED <<queue, held, dropped>>
    BY <1>8 DEF LimitExceeded, Begin, ProcessRow, Finish
  <2>2. job[held[w]]["status"] \notin Terminal
    BY <1>0, <2>1 DEF InStep
  <2>3. Owed' = Owed
    BY <2>1, OwedUnchanged
  <2>4. CASE job' = job
    BY <1>1, <2>1, <2>3, <2>4 DEF MappedStep
  <2>5. ASSUME NEW m, Commit(w, m) PROVE MappedStep
    <3>1. Ended' = Ended \/ Ended' = [Ended EXCEPT ![held[w]] = @ + 1]
      BY <1>0, <1>h, <2>1, <2>2, <2>5, EndedCommitted
    <3> QED BY <1>h, <2>1, <2>3, <3>1 DEF MappedStep
  <2> QED BY <2>1, <2>4, <2>5
<1>9. ASSUME NEW w \in Workers, Acknowledge(w) PROVE MappedStep
  <2>1. pc[w] = "returned" /\ Release(w) /\ UNCHANGED <<job, queue, dropped>>
    BY <1>9 DEF Acknowledge
  <2>2. held[w] \in Jobs /\ job[held[w]]["status"] \in Terminal
    BY <1>0, <1>h, <2>1 DEF InStep
  <2>3. Ended[held[w]] > 0
    BY <2>2 DEF Ended
  <2> QED BY <1>0, <1>1, <2>1, <2>2, <2>3, OwedReleased DEF MappedStep
<1>10. ASSUME NEW w \in Workers, Raise(w) \/ ChildDies(w) PROVE MappedStep
  <2>1. /\ pc[w] # "idle" /\ Release(w) /\ UNCHANGED <<job, queue>>
        /\ dropped' = dropped \cup {held[w]}
    BY <1>10 DEF Raise, ChildDies
  <2> QED BY <1>0, <1>1, <1>h, <2>1, OwedReleased DEF MappedStep
<1>11. ASSUME NEW w \in Workers, WorkerDies(w) \/ Redeliver(w) PROVE MappedStep
  <2>1. /\ pc[w] # "idle" /\ UNCHANGED <<job, dropped>>
        /\ held' = held \/ Release(w)
        /\ queue' = [queue EXCEPT ![held[w]] = @ + 1]
    BY <1>11 DEF WorkerDies, Redeliver
  <2> QED BY <1>0, <1>1, <1>h, <2>1, OwedRequeued DEF MappedStep
<1> QED
  BY <1>2, <1>3, <1>4, <1>5, <1>6, <1>7, <1>8, <1>9, <1>10, <1>11
     DEF Next, Request, Task, Fault

\* The API, the broker and the workers keep the promise of task_acks_late for
\* every set of jobs and workers and any number of faults, as long as two tasks
\* never work on one job at once: an enqueued job leaves the queue only ended
\* or given up, and no job ends twice.
THEOREM BatchJobImplementsAtLeastOnce == Spec /\ []Exclusive => ImplementsAtLeastOnce
<1>1. Init => Queue!Init
  <2> SUFFICES ASSUME Init PROVE Queue!Init
    OBVIOUS
  <2>1. Owed = {}
    BY ConstantsAssumption DEF Init, Owed
  <2>2. \A j \in Jobs : job[j] = NoRow
    BY DEF Init
  <2>3. NoRow["status"] \notin Terminal
    BY NoRowType DEF Terminal
  <2>4. Ended = [j \in Jobs |-> 0]
    BY <2>2, <2>3 DEF Ended
  <2> QED BY <2>1, <2>4 DEF Init, Queue!Init
<1>2. Exclusive' /\ BatchInv /\ [Next]_vars => BatchInv'
  BY BatchStep
<1>3. BatchInv /\ [Next]_vars => [Queue!Next]_(Queue!vars)
  <2> SUFFICES ASSUME BatchInv, [Next]_vars PROVE [Queue!Next]_(Queue!vars)
    OBVIOUS
  <2>1. Unsent /\ Untouched /\ MappedStep
    BY EveryStepMapped DEF BatchInv
  <2>2. Owed \subseteq Jobs
    BY DEF Owed
  <2>3. CASE UNCHANGED <<Owed, Ended, dropped>>
    BY <2>3 DEF Queue!vars
  <2>4. ASSUME NEW j \in Jobs, api[j] = "stored", Owed' = Owed \cup {j},
               UNCHANGED <<Ended, dropped>>
        PROVE  Queue!Submit(j)
    <3>1. queue[j] = 0 /\ (\A w \in Workers : held[w] # j) /\ j \notin dropped
          /\ job[j]["status"] \notin Terminal
      BY <2>1, <2>4 DEF Unsent, Untouched
    <3>2. j \notin Owed /\ Ended[j] = 0
      BY <3>1 DEF Owed, Ended
    <3> QED BY <2>4, <3>1, <3>2 DEF Queue!Submit
  <2>5. ASSUME NEW j \in Owed, Ended' = [Ended EXCEPT ![j] = @ + 1],
               UNCHANGED <<Owed, dropped>>
        PROVE  Queue!Execute(j)
    BY <2>5 DEF Queue!Execute
  <2>6. ASSUME NEW j \in Owed, Ended[j] > 0, Owed' \in {Owed, Owed \ {j}},
               UNCHANGED <<Ended, dropped>>
        PROVE  Queue!Consume(j) \/ UNCHANGED Queue!vars
    BY <2>6 DEF Queue!Consume, Queue!vars
  <2>7. ASSUME NEW j \in Owed, dropped' = dropped \cup {j},
               Owed' \in {Owed, Owed \ {j}}, UNCHANGED Ended
        PROVE  Queue!Drop(j)
    BY <2>7 DEF Queue!Drop
  <2> QED BY <2>1, <2>2, <2>3, <2>4, <2>5, <2>6, <2>7 DEF MappedStep, Queue!Next
<1> QED BY <1>1, <1>2, <1>3, BatchInit, PTL DEF Spec, ImplementsAtLeastOnce, Queue!Spec

\* With one process in the pool, or a broker that never delivers a message again
\* while its worker is busy, two tasks never work on one job at once: the row adds
\* up, an ended job is whole and stays as it is, and none is lost.
THEOREM OneAtATimeSuffices ==
  ASSUME OneAtATime
  PROVE  Spec => /\ [](ProgressAddsUp /\ FinishedIsWhole)
                 /\ TerminalIsFinal /\ ImplementsAtLeastOnce
<1>1. Shape /\ Ownership /\ [Next]_vars => Shape' /\ Ownership'
  <2> SUFFICES ASSUME Shape, Ownership, [Next]_vars PROVE Exclusive'
    BY ShapeStep, OwnershipStep
  <2> QED BY FetchedAlone, HandsStay
<1>2. Init => Shape /\ Ownership
  BY BatchInit DEF BatchInv, Ownership
<1>3. Ownership => Exclusive
  BY DEF Ownership
<1>4. Spec => []Exclusive
  BY <1>1, <1>2, <1>3, PTL DEF Spec
<1> QED
  BY <1>4, ProgressAddsUpAlways, FinishedIsWholeAlways, TerminalIsFinalAlways,
     BatchJobImplementsAtLeastOnce, PTL
=============================================================================
