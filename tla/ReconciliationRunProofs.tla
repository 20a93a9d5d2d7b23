----------------------- MODULE ReconciliationRunProofs -----------------------
(***************************************************************************)
(* Proofs about ReconciliationRun for every set of runs, workers and rows, *)
(* every matcher table and any number of faults and redeliveries: types,   *)
(* one-to-one safety, no forgotten run, the refinement of AtLeastOnce, and *)
(* (while no two executions overlap) the counters of finished runs.        *)
(***************************************************************************)
EXTENDS ReconciliationRun, FiniteSetTheorems, TLAPS

USE DEF Terminal, Messages, Steps, Claiming

\* The candidate rows the loop looks at come from the loaded pool and passed
\* the filter.
LEMMA NarrowedType ==
  ASSUME NEW w, NEW s, NEW K \in Narrowed(w, s)
  PROVE  /\ K \subseteq pool[w]
         /\ \A x \in K : Judge[policy[w]][s][x].cls # "DROPPED"
BY DEF Narrowed

\* The counters of an execution are natural numbers.
LEMMA TallyType ==
  ASSUME NEW w
  PROVE  Tally(w) \in [Buckets -> Nat] /\ Total(w) \in Nat
<1>1. \A S \in SUBSET Rows : Cardinality(S) \in Nat
  BY ConstantsAssumption, FS_Subset, FS_CardinalityType
<1>2. \A b : {s \in Rows : bucket[w][s] = b} \in SUBSET Rows
  OBVIOUS
<1>3. {s \in Rows : bucket[w][s] # "none"} \in SUBSET Rows
  OBVIOUS
<1> QED BY <1>1, <1>2, <1>3 DEF Tally, Total

\* What pairing source s does: one row x is chosen, and a claiming
\* classification is only given when the claim on x is free or the source's own.
LEMMA PairedEffect ==
  ASSUME TypeOK, NEW w \in Workers, NEW s \in Rows, SourcePaired(w, s)
  PROVE  \E x \in Rows, cls \in RowClass, p \in BOOLEAN :
           /\ Count(w, s, BucketOf(cls))
           /\ claimed' = IF cls \in Claiming
                         THEN [claimed EXCEPT ![w][RecordId[x]] = RecordId[s]]
                         ELSE claimed
           /\ out' = [out EXCEPT ![w] =
                @ \cup {[src |-> s, cand |-> x, cls |-> cls, poison |-> p]}]
           /\ cls \in Claiming => claimed[w][RecordId[x]] \in {NoId, RecordId[s]}
<1> USE ConstantsAssumption
<1> DEFINE verdict == Judge[policy[w]][s]
           Step(x, cls) ==
             /\ Count(w, s, BucketOf(cls))
             /\ claimed' = IF cls \in Claiming
                           THEN [claimed EXCEPT ![w][RecordId[x]] = RecordId[s]]
                           ELSE claimed
             /\ out' = [out EXCEPT ![w] =
                  @ \cup {[src |-> s, cand |-> x, cls |-> cls, poison |-> verdict[x].poison]}]
<1>1. PICK K \in Narrowed(w, s) :
        /\ \A x \in K : verdict[x].cls # "RAISES"
        /\ \E x \in Strongest(K, verdict) : Step(x, Classification(w, s, x, K, verdict))
  BY DEF SourcePaired
<1>2. PICK x \in Strongest(K, verdict) : Step(x, Classification(w, s, x, K, verdict))
  BY <1>1
<1> DEFINE cls == Classification(w, s, x, K, verdict)
<1>3. x \in K /\ x \in Rows /\ verdict[x].cls # "DROPPED" /\ verdict[x].cls # "RAISES"
  <2>1. x \in K
    BY DEF Strongest
  <2>2. verdict[x].cls # "RAISES"
    BY <1>1, <2>1
  <2>3. K \subseteq {y \in Rows : Judge[policy[w]][s][y].cls # "DROPPED"}
    BY NarrowedType DEF TypeOK
  <2> QED BY <2>1, <2>2, <2>3
<1>4. verdict[x] \in Verdict
  BY <1>3 DEF TypeOK
<1>5. cls \in RowClass
  BY <1>3, <1>4 DEF Classification, Verdict, RowClass, Classes
<1>6. verdict[x].poison \in BOOLEAN
  BY <1>4 DEF Verdict
<1>7. cls \in Claiming => claimed[w][RecordId[x]] \in {NoId, RecordId[s]}
  BY DEF Classification
<1> QED BY <1>2, <1>3, <1>5, <1>6, <1>7

\* The task's local state after it ended.
LEMMA ReleaseType ==
  ASSUME TypeOK, NEW w \in Workers, Release(w)
  PROVE  /\ pc' \in [Workers -> Steps]
         /\ msg' \in [Workers -> Messages \cup {NoMsg}]
         /\ \A v \in Workers : pc'[v] = "idle" <=> msg'[v] = NoMsg
         /\ seen' \in [Workers -> RunRow]
         /\ todo' \in [Workers -> SUBSET Rows]
         /\ pool' \in [Workers -> SUBSET Rows]
         /\ policy' \in [Workers -> Versions]
         /\ bucket' \in [Workers -> [Rows -> Buckets \cup {"none"}]]
         /\ claimed' \in [Workers -> [Ids -> Ids \cup {NoId}]]
         /\ out' \in [Workers -> SUBSET Pending]
<1>1. NoRun \in RunRow
  BY ConstantsAssumption DEF NoRun, RunRow, Versions, Buckets
<1>2. NoClaim \in [Ids -> Ids \cup {NoId}] /\ NoBucket \in [Rows -> Buckets \cup {"none"}]
  BY DEF NoClaim, NoBucket
<1>3. 0 \in Versions
  BY ConstantsAssumption DEF Versions
<1> QED BY <1>1, <1>2, <1>3 DEF TypeOK, Release

\* The row of a run after the final commit.
LEMMA FinalRowType ==
  ASSUME NEW w \in Workers, seen \in [Workers -> RunRow], NEW row \in RunRow
  PROVE  /\ FinalRow(w, row) \in RunRow
         /\ FinalRow(w, row).status \in Terminal
<1>1. Tally(w) \in [Buckets -> Nat] /\ Total(w) \in Nat
  BY TallyType
<1>2. [b \in Buckets |-> IF Tally(w)[b] = seen[w].counters[b]
                         THEN row.counters[b] ELSE Tally(w)[b]] \in [Buckets -> Nat]
  BY <1>1 DEF RunRow
<1>3. (IF Total(w) = seen[w].total THEN row.total ELSE Total(w)) \in Nat
  BY <1>1 DEF RunRow
<1> QED BY <1>2, <1>3 DEF FinalRow, RunRow

-----------------------------------------------------------------------------
\* Every step keeps the types: one case per action.
LEMMA TypeStep == TypeOK /\ [Next]_vars => TypeOK'
<1> SUFFICES ASSUME TypeOK, [Next]_vars PROVE TypeOK'
  OBVIOUS
<1> USE ConstantsAssumption
<1>1. ASSUME NEW r \in Runs, NEW x \in Rows, StoreRecord(r, x) PROVE TypeOK'
  BY <1>1 DEF TypeOK, StoreRecord, local
<1>2. ASSUME NEW r \in Runs, CreateRun(r) PROVE TypeOK'
  <2>1. [NoRun EXCEPT !.status = "QUEUED", !.policyVersion = version] \in RunRow
    BY DEF NoRun, RunRow, TypeOK, Buckets
  <2> QED BY <1>2, <2>1 DEF TypeOK, CreateRun, local
<1>3. ASSUME NEW r \in Runs, Enqueue(r) PROVE TypeOK'
  BY <1>3 DEF TypeOK, Enqueue, local
<1>4. ASSUME NEW r \in Runs, RequestFails(r) PROVE TypeOK'
  BY <1>4 DEF TypeOK, RequestFails, local
<1>5. CASE PublishPolicy
  BY <1>5 DEF TypeOK, PublishPolicy, local, Versions
<1>6. ASSUME NEW c \in candidates, NEW a \in DecideActions, DecideCandidate(c, a) PROVE TypeOK'
  <2>1. StatusOf[a] \in Decided
    BY DEF StatusOf, Decided
  <2>2. \A st \in Decided : [c EXCEPT !.status = st] \in CandidateRow
    <3>1. c \in CandidateRow
      BY DEF TypeOK
    <3> QED BY <3>1 DEF CandidateRow
  <2> QED BY <1>6, <2>1, <2>2 DEF TypeOK, DecideCandidate, local
<1>7. ASSUME NEW w \in Workers, NEW m \in Messages, Fetch(w, m) PROVE TypeOK'
  BY <1>7 DEF TypeOK, Fetch, store, local
<1>8. ASSUME NEW w \in Workers, LoadRun(w) PROVE TypeOK'
  <2>1. msg[w][1] \in Runs
    BY <1>8 DEF TypeOK, LoadRun
  <2> QED BY <1>8, <2>1 DEF TypeOK, LoadRun, store
<1>9. ASSUME NEW w \in Workers, LoadDataset(w) PROVE TypeOK'
  <2>1. \A S : RowsWithIds(S) \subseteq Rows
    BY DEF TypeOK, RowsWithIds
  <2> QED BY <1>9, <2>1 DEF TypeOK, LoadDataset, store
<1>10. ASSUME NEW w \in Workers, Begin(w) PROVE TypeOK'
  <2>1. msg[w][1] \in Runs
    BY <1>10 DEF TypeOK, Begin
  <2>2. \A row \in RunRow, b \in BOOLEAN :
          [row EXCEPT !.status = IF b THEN row.status ELSE "RUNNING"] \in RunRow
    BY DEF RunRow
  <2>3. run' \in [Runs -> RunRow]
    BY <1>10, <2>1, <2>2 DEF TypeOK, Begin
  <2> QED BY <1>10, <2>3 DEF TypeOK, Begin, NoClaim, NoBucket
<1>11. ASSUME NEW w \in Workers, NEW s \in Rows, SourceFails(w, s) PROVE TypeOK'
  BY <1>11 DEF TypeOK, SourceFails, Count, store, Buckets
<1>12. ASSUME NEW w \in Workers, NEW s \in Rows, SourceUnmatched(w, s) PROVE TypeOK'
  BY <1>12 DEF TypeOK, SourceUnmatched, Count, store, Buckets
<1>13. ASSUME NEW w \in Workers, NEW s \in Rows, SourcePaired(w, s) PROVE TypeOK'
  <2>1. PICK x \in Rows, cls \in RowClass, p \in BOOLEAN :
          /\ Count(w, s, BucketOf(cls))
          /\ claimed' = IF cls \in Claiming
                        THEN [claimed EXCEPT ![w][RecordId[x]] = RecordId[s]]
                        ELSE claimed
          /\ out' = [out EXCEPT ![w] =
               @ \cup {[src |-> s, cand |-> x, cls |-> cls, poison |-> p]}]
    BY <1>13, PairedEffect
  <2>2. [src |-> s, cand |-> x, cls |-> cls, poison |-> p] \in Pending
    BY DEF Pending
  <2>3. BucketOf(cls) \in Buckets
    BY DEF BucketOf, Buckets
  <2>4. claimed' \in [Workers -> [Ids -> Ids \cup {NoId}]]
    BY <2>1 DEF TypeOK
  <2>5. out' \in [Workers -> SUBSET Pending]
    BY <2>1, <2>2 DEF TypeOK
  <2> QED BY <2>1, <2>3, <2>4, <2>5 DEF TypeOK, Count, store
<1>14. ASSUME NEW w \in Workers, Finish(w) PROVE TypeOK'
  <2>1. msg[w][1] \in Runs
    BY <1>14 DEF TypeOK, Finish
  <2>2. run' \in [Runs -> RunRow]
    <3>1. run \in [Runs -> RunRow] /\ seen \in [Workers -> RunRow]
      BY DEF TypeOK
    <3>2. FinalRow(w, run[msg[w][1]]) \in RunRow
      BY <2>1, <3>1, FinalRowType
    <3>3. run' = [run EXCEPT ![msg[w][1]] = FinalRow(w, run[msg[w][1]])]
      BY <1>14 DEF Finish
    <3> QED BY ONLY <2>1, <3>1, <3>2, <3>3
  <2>3. \A o \in out[w] :
          [run |-> msg[w][1], exec |-> executions[msg[w][1]] + 1, src |-> o.src, cand |-> o.cand,
           cls |-> o.cls, version |-> policy[w], status |-> "PENDING"] \in CandidateRow
    BY <2>1 DEF TypeOK, CandidateRow, Pending
  <2>4. candidates' \subseteq CandidateRow
    BY <1>14, <2>3 DEF TypeOK, Finish
  <2>5. executions' \in [Runs -> Nat]
    BY <1>14, <2>1 DEF TypeOK, Finish
  <2> QED BY <1>14, <2>2, <2>4, <2>5 DEF TypeOK, Finish, local
<1>15. ASSUME NEW w \in Workers, FinishRaises(w) PROVE TypeOK'
  BY <1>15 DEF TypeOK, FinishRaises, store, local
<1>16. ASSUME NEW w \in Workers, Acknowledge(w) PROVE TypeOK'
  BY <1>16, ReleaseType DEF TypeOK, Acknowledge, store
<1>17. ASSUME NEW w \in Workers, Retry(w) PROVE TypeOK'
  <2>1. <<msg[w][1], msg[w][2] + 1>> \in Messages
    <3>1. msg[w] \in Messages /\ msg[w][2] < MaxRetries
      BY <1>17 DEF TypeOK, Retry
    <3>2. msg[w][1] \in Runs /\ msg[w][2] \in 0..MaxRetries
      BY <3>1
    <3>3. msg[w][2] + 1 \in 0..MaxRetries
      BY <3>1, <3>2
    <3> QED BY <3>2, <3>3
  <2> QED BY <1>17, <2>1, ReleaseType DEF TypeOK, Retry, store
<1>18. ASSUME NEW w \in Workers, GiveUp(w) PROVE TypeOK'
  <2>1. msg[w][1] \in Runs
    BY <1>18 DEF TypeOK, GiveUp
  <2> QED BY <1>18, <2>1, ReleaseType DEF TypeOK, GiveUp, store
<1>19. ASSUME NEW w \in Workers, DatabaseError(w) PROVE TypeOK'
  BY <1>19 DEF TypeOK, DatabaseError, store, local
<1>20. ASSUME NEW w \in Workers, WorkerDies(w) PROVE TypeOK'
  <2>1. msg[w] \in Messages
    BY <1>20 DEF TypeOK, WorkerDies
  <2> QED BY <1>20, <2>1, ReleaseType DEF TypeOK, WorkerDies, store
<1>21. ASSUME NEW w \in Workers, ChildDies(w) PROVE TypeOK'
  <2>1. msg[w][1] \in Runs
    BY <1>21 DEF TypeOK, ChildDies
  <2> QED BY <1>21, <2>1, ReleaseType DEF TypeOK, ChildDies, store
<1>22. ASSUME NEW w \in Workers, Redeliver(w) PROVE TypeOK'
  <2>1. msg[w] \in Messages
    BY <1>22 DEF TypeOK, Redeliver
  <2> QED BY <1>22, <2>1 DEF TypeOK, Redeliver, store, local
<1>23. CASE UNCHANGED vars
  BY <1>23 DEF TypeOK, vars, store, local
<1> QED
  BY <1>1, <1>2, <1>3, <1>4, <1>5, <1>6, <1>7, <1>8, <1>9, <1>10, <1>11, <1>12, <1>13, <1>14,
     <1>15, <1>16, <1>17, <1>18, <1>19, <1>20, <1>21, <1>22, <1>23
     DEF Next, Request, Task, Source, Fault

\* The initial state is well typed.
LEMMA InitType == Init => TypeOK
<1> SUFFICES ASSUME Init PROVE TypeOK
  OBVIOUS
<1>1. NoRun \in RunRow
  BY ConstantsAssumption DEF NoRun, RunRow, Versions, Buckets
<1> QED BY <1>1, ConstantsAssumption DEF Init, TypeOK, Versions, NoBucket, NoClaim

\* Type correctness, for every instance: the counters stay natural numbers, the
\* worker holds a message exactly while it is busy, and no row of a run or of a
\* candidate leaves its columns' domains.
THEOREM TypeInvariant == Spec => []TypeOK
BY InitType, TypeStep, PTL DEF Spec

-----------------------------------------------------------------------------
(* One-to-one safety.  The claim is inductive once it is known that what    *)
(* the session is about to store agrees with the claimed dictionary, and    *)
(* that no stored row belongs to an execution that has not committed.       *)

ClaimsRecorded ==
  \A w \in Workers : \A o \in out[w] :
    o.cls \in Claiming => claimed[w][RecordId[o.cand]] = RecordId[o.src]

ExecutionsKnown == \A c \in candidates : c.exec <= executions[c.run]

OneToOneInv == TypeOK /\ ClaimsRecorded /\ ExecutionsKnown /\ OneToOneClaims

\* Every step keeps ClaimsRecorded: only a paired source adds a claim.
LEMMA ClaimsStep == TypeOK /\ ClaimsRecorded /\ [Next]_vars => ClaimsRecorded'
<1> SUFFICES ASSUME TypeOK, ClaimsRecorded, [Next]_vars PROVE ClaimsRecorded'
  OBVIOUS
<1> USE ConstantsAssumption
<1>1. CASE UNCHANGED <<claimed, out>>
  BY <1>1 DEF ClaimsRecorded
<1>2. ASSUME NEW w \in Workers,
             out' = [out EXCEPT ![w] = {}],
             claimed' = [claimed EXCEPT ![w] = NoClaim]
      PROVE  ClaimsRecorded'
  BY <1>2 DEF ClaimsRecorded, TypeOK
<1>3. ASSUME NEW w \in Workers, NEW s \in Rows, SourcePaired(w, s) PROVE ClaimsRecorded'
  <2>1. PICK x \in Rows, cls \in RowClass, p \in BOOLEAN :
          /\ claimed' = IF cls \in Claiming
                        THEN [claimed EXCEPT ![w][RecordId[x]] = RecordId[s]]
                        ELSE claimed
          /\ out' = [out EXCEPT ![w] =
               @ \cup {[src |-> s, cand |-> x, cls |-> cls, poison |-> p]}]
          /\ cls \in Claiming => claimed[w][RecordId[x]] \in {NoId, RecordId[s]}
    BY <1>3, PairedEffect
  <2> SUFFICES ASSUME NEW v \in Workers, NEW o \in out'[v], o.cls \in Claiming
               PROVE  claimed'[v][RecordId[o.cand]] = RecordId[o.src]
    BY DEF ClaimsRecorded
  <2>2. CASE v # w
    BY <2>1, <2>2 DEF ClaimsRecorded, TypeOK
  <2>3. CASE v = w /\ o \in out[w]
    <3>1. claimed[w][RecordId[o.cand]] = RecordId[o.src]
      BY <2>3 DEF ClaimsRecorded
    <3>2. o \in Pending
      BY <2>3 DEF TypeOK
    <3>3. RecordId[o.cand] \in Ids /\ RecordId[o.src] \in Ids /\ RecordId[x] \in Ids
      BY <3>2 DEF Pending
    <3>4. CASE cls \in Claiming /\ RecordId[o.cand] = RecordId[x]
      <4>1. RecordId[o.src] = RecordId[s]
        BY <2>1, <3>1, <3>3, <3>4
      <4>2. claimed'[w][RecordId[x]] = RecordId[s]
        BY <2>1, <3>3, <3>4 DEF TypeOK
      <4> QED BY <4>1, <4>2, <3>4, <2>3
    <3>5. CASE ~(cls \in Claiming /\ RecordId[o.cand] = RecordId[x])
      BY <2>1, <2>3, <3>1, <3>3, <3>5 DEF TypeOK
    <3> QED BY <3>4, <3>5
  <2>4. CASE v = w /\ o = [src |-> s, cand |-> x, cls |-> cls, poison |-> p]
    BY <2>1, <2>4 DEF TypeOK
  <2> QED BY <2>1, <2>2, <2>3, <2>4 DEF TypeOK
<1>4. ASSUME NEW w \in Workers, Release(w) PROVE ClaimsRecorded'
  BY <1>4, <1>2 DEF Release
<1>5. ASSUME NEW r \in Runs, Request(r) \/ RequestFails(r) PROVE ClaimsRecorded'
  BY <1>5, <1>1 DEF Request, StoreRecord, CreateRun, Enqueue, RequestFails, local
<1>6. CASE PublishPolicy \/ \E c \in candidates, a \in DecideActions : DecideCandidate(c, a)
  BY <1>6, <1>1 DEF PublishPolicy, DecideCandidate, local
<1>7. ASSUME NEW w \in Workers, Task(w) PROVE ClaimsRecorded'
  <2>1. CASE \E m \in Messages : Fetch(w, m)
    BY <2>1, <1>1 DEF Fetch, local
  <2>2. CASE LoadRun(w) \/ LoadDataset(w) \/ Finish(w) \/ FinishRaises(w)
    BY <2>2, <1>1 DEF LoadRun, LoadDataset, Finish, FinishRaises, local
  <2>3. CASE Begin(w)
    BY <2>3, <1>2 DEF Begin
  <2>4. ASSUME NEW s \in Rows, Source(w, s) PROVE ClaimsRecorded'
    BY <2>4, <1>1, <1>3 DEF Source, SourceFails, SourceUnmatched
  <2>5. CASE Acknowledge(w) \/ Retry(w) \/ GiveUp(w)
    BY <2>5, <1>4 DEF Acknowledge, Retry, GiveUp
  <2> QED BY <1>7, <2>1, <2>2, <2>3, <2>4, <2>5 DEF Task
<1>8. ASSUME NEW w \in Workers, Fault(w) PROVE ClaimsRecorded'
  BY <1>8, <1>1, <1>4 DEF Fault, DatabaseError, WorkerDies, ChildDies, Redeliver, local
<1>9. CASE UNCHANGED vars
  BY <1>9, <1>1 DEF vars, local
<1> QED BY <1>5, <1>6, <1>7, <1>8, <1>9 DEF Next

\* Only the two commits of the task write to the database.
LEMMA StoreKept ==
  ASSUME NEW w \in Workers, Task(w) \/ Fault(w), ~Begin(w), ~Finish(w)
  PROVE  UNCHANGED <<api, run, candidates, executions>>
<1>1. ASSUME NEW m \in Messages, Fetch(w, m) PROVE UNCHANGED store
  BY <1>1 DEF Fetch
<1>2. CASE LoadRun(w) \/ LoadDataset(w) \/ FinishRaises(w)
  <2>1. UNCHANGED store
    BY <1>2 DEF LoadRun, LoadDataset, FinishRaises
  <2> QED BY <2>1 DEF store
<1>3. ASSUME NEW s \in Rows, Source(w, s) PROVE UNCHANGED store
  <2>1. \E b : Count(w, s, b)
    BY <1>3 DEF Source, SourceFails, SourceUnmatched, SourcePaired
  <2> QED BY <2>1 DEF Count
<1>4. CASE Acknowledge(w) \/ Retry(w) \/ GiveUp(w)
  <2>1. UNCHANGED store
    BY <1>4 DEF Acknowledge, Retry, GiveUp
  <2> QED BY <2>1 DEF store
<1>5. CASE Fault(w)
  <2>1. UNCHANGED store
    BY <1>5 DEF Fault, DatabaseError, WorkerDies, ChildDies, Redeliver
  <2> QED BY <2>1 DEF store
<1>6. UNCHANGED store => UNCHANGED <<api, run, candidates, executions>>
  BY DEF store
<1> QED BY <1>1, <1>2, <1>3, <1>4, <1>5, <1>6 DEF Task

\* Which steps touch the match_candidates table.
LEMMA CandidatesFrame ==
  ASSUME [Next]_vars
  PROVE  \/ UNCHANGED <<candidates, executions>>
         \/ \E c \in candidates, a \in DecideActions : DecideCandidate(c, a)
         \/ \E w \in Workers : Finish(w)
<1>1. ASSUME NEW r \in Runs, Request(r) \/ RequestFails(r) PROVE UNCHANGED <<candidates, executions>>
  BY <1>1 DEF Request, StoreRecord, CreateRun, Enqueue, RequestFails
<1>2. CASE PublishPolicy
  BY <1>2 DEF PublishPolicy
<1>3. ASSUME NEW w \in Workers, Task(w), ~Finish(w) PROVE UNCHANGED <<candidates, executions>>
  <2>1. CASE Begin(w)
    BY <2>1 DEF Begin
  <2> QED BY <1>3, <2>1, StoreKept
<1>4. ASSUME NEW w \in Workers, Fault(w) PROVE UNCHANGED <<candidates, executions>>
  BY <1>4 DEF Fault, DatabaseError, WorkerDies, ChildDies, Redeliver, store
<1>5. CASE UNCHANGED vars
  BY <1>5 DEF vars, store
<1> QED BY <1>1, <1>2, <1>3, <1>4, <1>5 DEF Next

\* Every step keeps the inductive invariant of OneToOneSafety.
LEMMA OneToOneStep == OneToOneInv /\ [Next]_vars => OneToOneInv'
<1> SUFFICES ASSUME OneToOneInv, [Next]_vars PROVE OneToOneInv'
  OBVIOUS
<1> USE ConstantsAssumption
<1>1. TypeOK' /\ ClaimsRecorded'
  BY TypeStep, ClaimsStep DEF OneToOneInv
<1>2. ASSUME NEW w \in Workers, Finish(w) PROVE ExecutionsKnown' /\ OneToOneClaims'
  <2> DEFINE r == msg[w][1]
             Stored(o) == [run |-> r, exec |-> executions[r] + 1, src |-> o.src, cand |-> o.cand,
                           cls |-> o.cls, version |-> policy[w], status |-> "PENDING"]
  <2>1. r \in Runs
    BY <1>2 DEF Finish, OneToOneInv, TypeOK
  <2>2. candidates' = candidates \cup {Stored(o) : o \in out[w]}
    BY <1>2 DEF Finish
  <2>3. executions' = [executions EXCEPT ![r] = @ + 1]
    BY <1>2 DEF Finish
  <2>4. \A c \in candidates : c.run \in Runs /\ c.exec \in Nat /\ c.exec <= executions[c.run]
    BY DEF OneToOneInv, TypeOK, CandidateRow, ExecutionsKnown
  <2>5. executions \in [Runs -> Nat]
    BY DEF OneToOneInv, TypeOK
  <2> HIDE DEF r
  <2>6. ExecutionsKnown'
    BY <2>1, <2>2, <2>3, <2>4, <2>5 DEF ExecutionsKnown
  <2>7. OneToOneClaims'
    <3> SUFFICES ASSUME NEW a \in candidates', NEW b \in candidates',
                        a.run = b.run, a.exec = b.exec,
                        a.cls \in Claiming, b.cls \in Claiming,
                        RecordId[a.cand] = RecordId[b.cand]
                 PROVE  RecordId[a.src] = RecordId[b.src]
      BY DEF OneToOneClaims
    <3>1. CASE a \in candidates /\ b \in candidates
      BY <3>1 DEF OneToOneInv, OneToOneClaims
    <3>2. ASSUME NEW o \in out[w], NEW q \in out[w], a = Stored(o), b = Stored(q)
          PROVE  RecordId[a.src] = RecordId[b.src]
      BY <3>2 DEF OneToOneInv, ClaimsRecorded
    <3>3. ASSUME NEW c \in candidates, NEW o \in out[w]
          PROVE  c.run # Stored(o).run \/ c.exec # Stored(o).exec
      BY <2>1, <2>4, <2>5, <3>3
    <3> QED BY <2>2, <3>1, <3>2, <3>3
  <2> QED BY <2>6, <2>7
<1>3. ASSUME NEW c \in candidates, NEW a \in DecideActions, DecideCandidate(c, a)
      PROVE  ExecutionsKnown' /\ OneToOneClaims'
  <2> DEFINE d == [c EXCEPT !.status = StatusOf[a]]
  <2>1. c \in CandidateRow
    BY DEF OneToOneInv, TypeOK
  <2>2. /\ d.run = c.run /\ d.exec = c.exec /\ d.cls = c.cls
        /\ d.src = c.src /\ d.cand = c.cand
    BY <2>1 DEF CandidateRow
  <2>3. candidates' = (candidates \ {c}) \cup {d} /\ executions' = executions
    BY <1>3 DEF DecideCandidate
  <2> HIDE DEF d
  <2>4. \A e \in candidates' : \E f \in candidates :
           /\ e.run = f.run /\ e.exec = f.exec /\ e.cls = f.cls
           /\ e.src = f.src /\ e.cand = f.cand
    BY <2>2, <2>3
  <2>5. ExecutionsKnown'
    BY <2>3, <2>4 DEF OneToOneInv, ExecutionsKnown
  <2>6. OneToOneClaims'
    BY <2>4 DEF OneToOneInv, OneToOneClaims
  <2> QED BY <2>5, <2>6
<1>4. CASE UNCHANGED <<candidates, executions>>
  BY <1>1, <1>4 DEF OneToOneInv, ExecutionsKnown, OneToOneClaims
<1> QED BY <1>1, <1>2, <1>3, <1>4, CandidatesFrame DEF OneToOneInv

\* One-to-one safety for every instance: in the rows one execution of a run
\* stored, no candidate record is claimed for two source records, whatever the
\* matcher answers, the order of the rows, and the faults.
THEOREM OneToOneSafety == Spec => []OneToOneClaims
<1>1. Init => OneToOneInv
  <2> SUFFICES ASSUME Init PROVE OneToOneInv
    OBVIOUS
  <2>1. TypeOK
    BY InitType
  <2> QED BY <2>1 DEF Init, OneToOneInv, ClaimsRecorded, ExecutionsKnown, OneToOneClaims
<1>2. OneToOneInv => OneToOneClaims
  BY DEF OneToOneInv
<1> QED BY <1>1, <1>2, OneToOneStep, PTL DEF Spec

-----------------------------------------------------------------------------
(* No enqueued run is forgotten.                                            *)

\* A run that is waiting or held, seen from the next state.
LEMMA StillHeld ==
  ASSUME NEW w \in Workers, NEW r, msg'[w][1] = r, pc'[w] \notin {"idle", "committed"}
  PROVE  Held(r)'
BY DEF Held

\* Every step keeps NotForgotten: a message leaves the queue only for a worker,
\* and leaves a worker only back to the queue, after the final commit, or abandoned.
LEMMA NotForgottenStep == TypeOK /\ NotForgotten /\ [Next]_vars => NotForgotten'
<1> SUFFICES ASSUME TypeOK, NotForgotten, [Next]_vars,
                    NEW r \in Runs, api'[r] = "enqueued", run'[r].status \notin Terminal
             PROVE  r \in abandoned' \/ Waiting(r)' \/ Held(r)'
  BY DEF NotForgotten
<1> USE ConstantsAssumption
<1>1. ASSUME api[r] = "enqueued", run[r].status \notin Terminal
      PROVE  r \in abandoned \/ Waiting(r) \/ Held(r)
  BY <1>1 DEF NotForgotten
<1>2. ASSUME UNCHANGED <<queue, pc, msg, abandoned>>, api'[r] = api[r], run'[r] = run[r]
      PROVE  r \in abandoned' \/ Waiting(r)' \/ Held(r)'
  BY <1>1, <1>2 DEF Waiting, Held
<1>3. ASSUME NEW q \in Runs, Request(q) \/ RequestFails(q)
      PROVE  r \in abandoned' \/ Waiting(r)' \/ Held(r)'
  <2>1. CASE (\E x \in Rows : StoreRecord(q, x)) \/ CreateRun(q) \/ RequestFails(q)
    BY <2>1, <1>2 DEF StoreRecord, CreateRun, RequestFails, TypeOK
  <2>2. CASE Enqueue(q) /\ q = r
    <3>1. <<r, 0>> \in Messages /\ 0 \in 0..MaxRetries
      OBVIOUS
    <3>2. queue'[<<r, 0>>] > 0
      BY <2>2, <3>1 DEF Enqueue, TypeOK
    <3> QED BY <3>1, <3>2 DEF Waiting
  <2>3. CASE Enqueue(q) /\ q # r
    <3>1. api[r] = "enqueued" /\ run' = run
      BY <2>3 DEF Enqueue, TypeOK
    <3>2. \A k \in 0..MaxRetries : queue'[<<r, k>>] = queue[<<r, k>>]
      BY <2>3 DEF Enqueue, TypeOK
    <3> QED BY <2>3, <1>1, <3>1, <3>2 DEF Enqueue, Waiting, Held
  <2> QED BY <1>3, <2>1, <2>2, <2>3 DEF Request
<1>4. CASE PublishPolicy \/ \E c \in candidates, a \in DecideActions : DecideCandidate(c, a)
  BY <1>4, <1>2 DEF PublishPolicy, DecideCandidate
<1> DEFINE Goal == r \in abandoned' \/ Waiting(r)' \/ Held(r)'
           HeldBy(w) == pc[w] \notin {"idle", "committed"} /\ msg[w][1] = r
\* A step of worker w that takes no message of r away from the broker only has
\* to answer for the message of r that w itself holds.
<1>5. ASSUME NEW w \in Workers,
             \A v \in Workers : v # w => pc'[v] = pc[v] /\ msg'[v] = msg[v],
             \A k \in 0..MaxRetries : queue[<<r, k>>] > 0 => queue'[<<r, k>>] > 0,
             abandoned \subseteq abandoned', api'[r] = api[r], run'[r] = run[r],
             HeldBy(w) => Goal
      PROVE  Goal
  <2>1. r \in abandoned \/ Waiting(r) \/ Held(r)
    BY <1>1, <1>5
  <2>2. Waiting(r) => Goal
    BY <1>5 DEF Waiting
  <2>3. ASSUME NEW v \in Workers, HeldBy(v) PROVE Goal
    BY <1>5, <2>3 DEF Held
  <2> QED BY <1>5, <2>1, <2>2, <2>3 DEF Held
<1>6. ASSUME NEW w \in Workers, Release(w)
      PROVE  \A v \in Workers : v # w => pc'[v] = pc[v] /\ msg'[v] = msg[v]
  BY <1>6 DEF Release, TypeOK
<1>7. ASSUME NEW w \in Workers, NEW step \in Steps \ {"idle", "committed"},
             pc' = [pc EXCEPT ![w] = step], UNCHANGED <<api, run, queue, msg, abandoned>>
      PROVE  Goal
  <2>1. HeldBy(w) => Goal
    BY <1>7, StillHeld DEF TypeOK
  <2> QED BY <1>5, <1>7, <2>1 DEF TypeOK
<1>8. ASSUME NEW w \in Workers, NEW m \in Messages, Fetch(w, m) PROVE Goal
  <2>1. CASE m[1] = r
    BY <1>8, <2>1, StillHeld DEF Fetch, TypeOK
  <2>2. CASE m[1] # r
    <3>1. \A k \in 0..MaxRetries : queue'[<<r, k>>] = queue[<<r, k>>]
      BY <1>8, <2>2 DEF Fetch, TypeOK
    <3>2. ~HeldBy(w)
      BY <1>8 DEF Fetch
    <3>3. \A v \in Workers : v # w => pc'[v] = pc[v] /\ msg'[v] = msg[v]
      BY <1>8 DEF Fetch, TypeOK
    <3> QED BY <1>5, <1>8, <3>1, <3>2, <3>3 DEF Fetch, store
  <2> QED BY <2>1, <2>2
<1>9. ASSUME NEW w \in Workers, LoadRun(w) \/ LoadDataset(w) \/ FinishRaises(w) \/ DatabaseError(w)
      PROVE  Goal
  <2>1. \E step \in Steps \ {"idle", "committed"} : pc' = [pc EXCEPT ![w] = step]
    BY <1>9 DEF LoadRun, LoadDataset, FinishRaises, DatabaseError
  <2>2. UNCHANGED <<api, run, queue, msg, abandoned>>
    BY <1>9 DEF LoadRun, LoadDataset, FinishRaises, DatabaseError, store
  <2> QED BY <1>7, <2>1, <2>2
<1>10. ASSUME NEW w \in Workers, Begin(w) PROVE Goal
  <2>1. msg[w][1] \in Runs /\ msg' = msg /\ pc' = [pc EXCEPT ![w] = "running"]
    BY <1>10 DEF Begin, TypeOK
  <2>2. CASE msg[w][1] = r
    BY <2>1, <2>2, StillHeld DEF TypeOK
  <2>3. CASE msg[w][1] # r
    <3>1. run'[r] = run[r]
      BY <1>10, <2>1, <2>3 DEF Begin, TypeOK
    <3> QED BY <1>5, <1>10, <2>1, <2>3, <3>1 DEF Begin, TypeOK
  <2> QED BY <2>2, <2>3
<1>11. ASSUME NEW w \in Workers, NEW s \in Rows, Source(w, s) PROVE Goal
  BY <1>2, <1>11 DEF Source, SourceFails, SourceUnmatched, SourcePaired, Count, store
<1>12. ASSUME NEW w \in Workers, Finish(w) PROVE Goal
  <2>1. msg[w][1] \in Runs /\ msg' = msg /\ pc' = [pc EXCEPT ![w] = "committed"]
    BY <1>12 DEF Finish, TypeOK
  <2>2. CASE msg[w][1] = r
    <3>1. run'[r] = FinalRow(w, run[r])
      BY <1>12, <2>1, <2>2 DEF Finish, TypeOK
    <3>2. run'[r].status \in Terminal
      BY <3>1, FinalRowType DEF TypeOK
    <3> QED BY <3>2
  <2>3. CASE msg[w][1] # r
    <3>1. run'[r] = run[r]
      BY <1>12, <2>1, <2>3 DEF Finish, TypeOK
    <3> QED BY <1>5, <1>12, <2>1, <2>3, <3>1 DEF Finish, TypeOK
  <2> QED BY <2>2, <2>3
<1>13. ASSUME NEW w \in Workers, Acknowledge(w) PROVE Goal
  BY <1>5, <1>6, <1>13 DEF Acknowledge, store
<1>14. ASSUME NEW w \in Workers, GiveUp(w) \/ ChildDies(w) PROVE Goal
  <2>1. HeldBy(w) => Goal
    BY <1>14 DEF GiveUp, ChildDies
  <2> QED BY <1>5, <1>6, <1>14, <2>1 DEF GiveUp, ChildDies, store
<1>15. ASSUME NEW w \in Workers, NEW m \in Messages, Release(w),
              queue' = [queue EXCEPT ![m] = @ + 1], msg[w][1] = m[1],
              UNCHANGED <<api, run, abandoned>>
       PROVE  Goal
  <2>1. \A k \in 0..MaxRetries : queue[<<r, k>>] > 0 => queue'[<<r, k>>] > 0
    BY <1>15 DEF TypeOK
  <2>2. HeldBy(w) => Goal
    <3>1. SUFFICES ASSUME m[1] = r PROVE Goal
      BY <1>15
    <3>2. m = <<r, m[2]>> /\ m[2] \in 0..MaxRetries
      BY <3>1
    <3>3. queue'[<<r, m[2]>>] > 0
      BY <1>15, <3>2 DEF TypeOK
    <3> QED BY <3>2, <3>3 DEF Waiting
  <2> QED BY <1>5, <1>6, <1>15, <2>1, <2>2
<1>16. ASSUME NEW w \in Workers, Retry(w) PROVE Goal
  <2>1. msg[w] \in Messages /\ msg[w][2] < MaxRetries
    BY <1>16 DEF TypeOK, Retry
  <2>2. msg[w][1] \in Runs /\ msg[w][2] \in 0..MaxRetries
    BY <2>1
  <2>3. msg[w][2] + 1 \in 0..MaxRetries
    BY <2>1, <2>2
  <2>4. <<msg[w][1], msg[w][2] + 1>> \in Messages
    BY <2>2, <2>3
  <2> QED BY <1>15, <1>16, <2>4 DEF Retry, store
<1>17. ASSUME NEW w \in Workers, WorkerDies(w) PROVE Goal
  <2>1. msg[w] \in Messages
    BY <1>17 DEF TypeOK, WorkerDies
  <2> QED BY <1>15, <1>17, <2>1 DEF WorkerDies, store
<1>18. ASSUME NEW w \in Workers, Redeliver(w) PROVE Goal
  <2>1. msg[w] \in Messages
    BY <1>18 DEF TypeOK, Redeliver
  <2>2. \A k \in 0..MaxRetries : queue[<<r, k>>] > 0 => queue'[<<r, k>>] > 0
    BY <1>18, <2>1 DEF Redeliver, TypeOK
  <2>3. HeldBy(w) => Goal
    BY <1>18, StillHeld DEF Redeliver
  <2> QED BY <1>5, <1>18, <2>2, <2>3 DEF Redeliver, store
<1>19. CASE UNCHANGED vars
  BY <1>2, <1>19 DEF vars, store
<1> QED
  BY <1>3, <1>4, <1>8, <1>9, <1>10, <1>11, <1>12, <1>13, <1>14, <1>16, <1>17, <1>18, <1>19
     DEF Next, Task, Fault

\* Late acknowledgement at work, for every instance: an enqueued run that has
\* not finished always has a message that will execute it, or its message was
\* dropped after the last retry or by a lost child.
THEOREM NoRunForgotten == Spec => []NotForgotten
<1>1. Init => NotForgotten
  BY DEF Init, NotForgotten
<1> QED BY <1>1, TypeInvariant, NotForgottenStep, PTL DEF Spec

-----------------------------------------------------------------------------
(* Refinement: the API, the broker and the workers implement AtLeastOnce.   *)

\* A run whose task was not sent yet has left no trace outside the database.
NothingBeforeSending ==
  \A r \in Runs : api[r] \in {"storing", "created"} =>
                     r \notin Owed \cup abandoned /\ executions[r] = 0

\* A worker that only has to acknowledge has done its final commit.
CommittedExecuted ==
  \A w \in Workers : pc[w] = "committed" => executions[msg[w][1]] > 0

RefinementInv == TypeOK /\ NothingBeforeSending /\ CommittedExecuted

\* Steps that leave the broker and the held messages alone owe the same runs.
LEMMA OwedUnchanged ==
  ASSUME queue' = queue, msg' = msg,
         \A w \in Workers : pc'[w] = "idle" <=> pc[w] = "idle"
  PROVE  Owed' = Owed
BY DEF Owed, Waiting

\* A run whose messages stay where they are, with the broker and with the
\* workers, is owed afterwards when it was owed before.
LEMMA OwedElsewhere ==
  ASSUME NEW t \in Runs, NEW w \in Workers,
         \A k \in 0..MaxRetries : queue'[<<t, k>>] = queue[<<t, k>>],
         \A v \in Workers : v # w => pc'[v] = pc[v] /\ msg'[v] = msg[v],
         pc[w] = "idle" \/ msg[w][1] # t, pc'[w] = "idle" \/ msg'[w][1] # t
  PROVE  t \in Owed' <=> t \in Owed
<1>1. Waiting(t)' <=> Waiting(t)
  BY DEF Waiting
<1>2. ASSUME NEW v \in Workers
      PROVE  (pc'[v] # "idle" /\ msg'[v][1] = t) <=> (pc[v] # "idle" /\ msg[v][1] = t)
  <2>1. CASE v = w
    BY <2>1
  <2>2. CASE v # w
    BY <2>2
  <2> QED BY <2>1, <2>2
<1>3. t \in Owed <=> \/ Waiting(t)
                     \/ \E v \in Workers : pc[v] # "idle" /\ msg[v][1] = t
  BY DEF Owed
<1>4. t \in Owed' <=> \/ Waiting(t)'
                      \/ \E v \in Workers : pc'[v] # "idle" /\ msg'[v][1] = t
  BY DEF Owed
<1> QED BY ONLY <1>1, <1>2, <1>3, <1>4

\* A worker that ends its task without touching the broker can only stop owing
\* the run of its own message.
LEMMA OwedReleased ==
  ASSUME TypeOK, NEW w \in Workers, pc[w] # "idle", Release(w), queue' = queue
  PROVE  msg[w][1] \in Owed /\ Owed' \in {Owed, Owed \ {msg[w][1]}}
<1> DEFINE r == msg[w][1]
<1>1. r \in Runs
  BY DEF TypeOK
<1>2. r \in Owed
  BY <1>1 DEF Owed
<1>3. \A v \in Workers : v # w => pc'[v] = pc[v] /\ msg'[v] = msg[v]
  BY DEF Release, TypeOK
<1>4. pc'[w] = "idle"
  BY DEF Release, TypeOK
<1> HIDE DEF r
<1>5. \A t \in Runs : t # r => (t \in Owed' <=> t \in Owed)
  BY <1>3, <1>4, OwedElsewhere DEF r
<1>6. Owed \subseteq Runs /\ Owed' \subseteq Runs
  BY DEF Owed
<1> QED BY <1>2, <1>5, <1>6 DEF r

\* A worker that ends its task and leaves a message for the same run with the
\* broker (retry, redelivery after a crash) keeps the run owed.
LEMMA OwedRequeued ==
  ASSUME TypeOK, NEW w \in Workers, pc[w] # "idle", Release(w),
         NEW m \in Messages, m[1] = msg[w][1], queue' = [queue EXCEPT ![m] = @ + 1]
  PROVE  Owed' = Owed
<1> USE ConstantsAssumption
<1> DEFINE r == msg[w][1]
<1>1. r \in Runs
  BY DEF TypeOK
<1>2. r \in Owed
  BY <1>1 DEF Owed
<1>3. \A v \in Workers : v # w => pc'[v] = pc[v] /\ msg'[v] = msg[v]
  BY DEF Release, TypeOK
<1>4. pc'[w] = "idle"
  BY DEF Release, TypeOK
<1>5. m = <<r, m[2]>> /\ m[2] \in 0..MaxRetries
  OBVIOUS
<1>6. queue'[m] > 0
  BY DEF TypeOK
<1>7. r \in Owed'
  BY <1>1, <1>5, <1>6 DEF Owed, Waiting
<1>8. \A t \in Runs, k \in 0..MaxRetries : t # r => queue'[<<t, k>>] = queue[<<t, k>>]
  BY <1>5 DEF TypeOK
<1> HIDE DEF r
<1>9. \A t \in Runs : t # r => (t \in Owed' <=> t \in Owed)
  BY <1>3, <1>4, <1>8, OwedElsewhere DEF r
<1>10. Owed \subseteq Runs /\ Owed' \subseteq Runs
  BY DEF Owed
<1>11. \A t : t \in Owed' <=> t \in Owed
  BY <1>2, <1>7, <1>9, <1>10
<1> QED BY <1>11, Zenon

\* Fetching a message, or delivering a held one again, changes nothing that is
\* owed.
LEMMA OwedFetched ==
  ASSUME TypeOK, NEW w \in Workers, NEW m \in Messages, Fetch(w, m)
  PROVE  Owed' = Owed
<1> USE ConstantsAssumption
<1> DEFINE r == m[1]
<1>1. m = <<r, m[2]>> /\ m[2] \in 0..MaxRetries /\ r \in Runs
  OBVIOUS
<1>2. r \in Owed
  BY <1>1 DEF Owed, Waiting, Fetch
<1>3. r \in Owed'
  BY <1>1 DEF Owed, Fetch, TypeOK
<1>4. \A t \in Runs, k \in 0..MaxRetries : t # r => queue'[<<t, k>>] = queue[<<t, k>>]
  BY <1>1 DEF TypeOK, Fetch
<1>5. \A v \in Workers : v # w => pc'[v] = pc[v] /\ msg'[v] = msg[v]
  BY DEF Fetch, TypeOK
<1>6. pc[w] = "idle" /\ msg'[w][1] = r
  BY DEF Fetch, TypeOK
<1> HIDE DEF r
<1>7. \A t \in Runs : t # r => (t \in Owed' <=> t \in Owed)
  BY <1>4, <1>5, <1>6, OwedElsewhere
<1>8. Owed \subseteq Runs /\ Owed' \subseteq Runs
  BY DEF Owed
<1>9. \A t : t \in Owed' <=> t \in Owed
  BY <1>2, <1>3, <1>7, <1>8
<1> QED BY <1>9, Zenon

\* Sending the task makes its run owed and no other.
LEMMA OwedSent ==
  ASSUME TypeOK, NEW r \in Runs, Enqueue(r)
  PROVE  Owed' = Owed \cup {r}
<1> USE ConstantsAssumption
<1>1. <<r, 0>> \in Messages /\ 0 \in 0..MaxRetries
  OBVIOUS
<1>2. r \in Owed'
  BY <1>1 DEF Owed, Waiting, Enqueue, TypeOK
<1>3. \A t \in Runs, k \in 0..MaxRetries : t # r => queue'[<<t, k>>] = queue[<<t, k>>]
  BY DEF Enqueue, TypeOK
<1>4. \A t \in Runs : t # r => (t \in Owed' <=> t \in Owed)
  BY <1>3 DEF Owed, Waiting, Enqueue
<1>5. Owed \subseteq Runs /\ Owed' \subseteq Runs
  BY DEF Owed
<1> QED BY <1>2, <1>4, <1>5

\* Before the first request no run is owed.
LEMMA InitiallyNothingOwed == Init => Owed = {}
<1> SUFFICES ASSUME Init PROVE Owed = {}
  OBVIOUS
<1>1. \A r \in Runs, k \in 0..MaxRetries : queue[<<r, k>>] = 0
  <2>1. queue = [m \in Runs \X (0..MaxRetries) |-> 0]
    BY DEF Init
  <2> QED BY ONLY <2>1
<1>2. ASSUME NEW r \in Runs PROVE ~Waiting(r)
  <2>1. ASSUME NEW k \in 0..MaxRetries PROVE ~(queue[<<r, k>>] > 0)
    <3>1. queue[<<r, k>>] = 0
      BY <1>1, <2>1, Zenon
    <3> QED BY ONLY <3>1
  <2> QED BY <2>1, Zenon DEF Waiting
<1>3. \A w \in Workers : pc[w] = "idle"
  BY DEF Init
<1> QED BY <1>2, <1>3 DEF Owed

-----------------------------------------------------------------------------
\* What one step does to the mapped state: one case per kind of step of the
\* abstract queue, and everything else is a stutter.
MappedStep ==
  \/ UNCHANGED <<Owed, executions, abandoned>>
  \/ \E r \in Runs : /\ api[r] = "created" /\ api'[r] = "enqueued"
                     /\ Owed' = Owed \cup {r}
                     /\ UNCHANGED <<executions, abandoned>>
  \/ \E r \in Owed : /\ executions' = [executions EXCEPT ![r] = @ + 1]
                     /\ UNCHANGED <<Owed, abandoned>>
  \/ \E r \in Owed : /\ executions[r] > 0
                     /\ Owed' \in {Owed, Owed \ {r}}
                     /\ UNCHANGED <<executions, abandoned>>
  \/ \E r \in Owed : /\ abandoned' = abandoned \cup {r}
                     /\ Owed' \in {Owed, Owed \ {r}}
                     /\ UNCHANGED executions

\* Every action maps to a step of AtLeastOnce or to a stutter.
LEMMA EveryStepMapped ==
  ASSUME TypeOK, CommittedExecuted, [Next]_vars
  PROVE  MappedStep
<1> USE ConstantsAssumption
<1>1. ASSUME NEW r \in Runs, Request(r) \/ RequestFails(r) PROVE MappedStep
  <2>1. CASE Enqueue(r)
    BY <2>1, OwedSent DEF Enqueue, MappedStep, TypeOK
  <2>2. CASE (\E x \in Rows : StoreRecord(r, x)) \/ CreateRun(r) \/ RequestFails(r)
    BY <2>2, OwedUnchanged DEF StoreRecord, CreateRun, RequestFails, MappedStep
  <2> QED BY <1>1, <2>1, <2>2 DEF Request
<1>2. CASE PublishPolicy \/ \E c \in candidates, a \in DecideActions : DecideCandidate(c, a)
  BY <1>2, OwedUnchanged DEF PublishPolicy, DecideCandidate, MappedStep
<1>3. ASSUME NEW w \in Workers, NEW m \in Messages, Fetch(w, m) PROVE MappedStep
  BY <1>3, OwedFetched DEF Fetch, store, MappedStep
<1>4. ASSUME NEW w \in Workers,
             LoadRun(w) \/ LoadDataset(w) \/ Begin(w) \/ FinishRaises(w) \/ DatabaseError(w)
      PROVE  MappedStep
  <2>1. \A v \in Workers : pc'[v] = "idle" <=> pc[v] = "idle"
    BY <1>4 DEF LoadRun, LoadDataset, Begin, FinishRaises, DatabaseError, TypeOK
  <2>2. UNCHANGED <<queue, msg, executions, abandoned>>
    BY <1>4 DEF LoadRun, LoadDataset, Begin, FinishRaises, DatabaseError, store
  <2> QED BY <2>1, <2>2, OwedUnchanged DEF MappedStep
<1>5. ASSUME NEW w \in Workers, NEW s \in Rows, Source(w, s) PROVE MappedStep
  <2>1. UNCHANGED <<queue, pc, msg, executions, abandoned>>
    BY <1>5 DEF Source, SourceFails, SourceUnmatched, SourcePaired, Count, store
  <2> QED BY <2>1, OwedUnchanged DEF MappedStep
<1>6. ASSUME NEW w \in Workers, Finish(w) PROVE MappedStep
  <2>1. msg[w][1] \in Owed
    BY <1>6 DEF Finish, Owed, TypeOK
  <2>2. Owed' = Owed
    <3>1. \A v \in Workers : pc'[v] = "idle" <=> pc[v] = "idle"
      BY <1>6 DEF Finish, TypeOK
    <3> QED BY <1>6, <3>1, OwedUnchanged DEF Finish
  <2>3. executions' = [executions EXCEPT ![msg[w][1]] = @ + 1] /\ abandoned' = abandoned
    BY <1>6 DEF Finish
  <2> QED BY <2>1, <2>2, <2>3 DEF MappedStep
<1>7. ASSUME NEW w \in Workers, Acknowledge(w) PROVE MappedStep
  <2>1. pc[w] # "idle" /\ Release(w) /\ UNCHANGED <<queue, executions, abandoned>>
    BY <1>7 DEF Acknowledge, store
  <2>2. executions[msg[w][1]] > 0
    BY <1>7 DEF Acknowledge, CommittedExecuted
  <2> QED BY <2>1, <2>2, OwedReleased DEF MappedStep
<1>8. ASSUME NEW w \in Workers, GiveUp(w) \/ ChildDies(w) PROVE MappedStep
  <2>1. /\ pc[w] # "idle" /\ Release(w) /\ UNCHANGED <<queue, executions>>
        /\ abandoned' = abandoned \cup {msg[w][1]}
    BY <1>8 DEF GiveUp, ChildDies, store
  <2> QED BY <2>1, OwedReleased DEF MappedStep
<1>9. ASSUME NEW w \in Workers, Retry(w) PROVE MappedStep
  <2>1. msg[w] \in Messages /\ msg[w][2] < MaxRetries /\ pc[w] # "idle"
    BY <1>9 DEF TypeOK, Retry
  <2>2. msg[w][2] + 1 \in 0..MaxRetries /\ msg[w][1] \in Runs
    BY <2>1
  <2>3. <<msg[w][1], msg[w][2] + 1>> \in Messages
    BY <2>2
  <2>4. Owed' = Owed
    BY <1>9, <2>1, <2>3, OwedRequeued DEF Retry
  <2> QED BY <1>9, <2>4 DEF Retry, store, MappedStep
<1>10. ASSUME NEW w \in Workers, WorkerDies(w) PROVE MappedStep
  <2>1. msg[w] \in Messages
    BY <1>10 DEF TypeOK, WorkerDies
  <2>2. Owed' = Owed
    BY <1>10, <2>1, OwedRequeued DEF WorkerDies
  <2> QED BY <1>10, <2>2 DEF WorkerDies, store, MappedStep
<1>11. ASSUME NEW w \in Workers, Redeliver(w) PROVE MappedStep
  <2>1. msg[w] \in Messages /\ pc[w] # "idle" /\ msg' = msg /\ pc' = pc
    BY <1>11 DEF TypeOK, Redeliver
  <2>2. \A t \in Runs, k \in 0..MaxRetries : t # msg[w][1] => queue'[<<t, k>>] = queue[<<t, k>>]
    BY <1>11, <2>1 DEF TypeOK, Redeliver
  <2>3. \A t \in Runs : t \in Owed' <=> t \in Owed
    BY <2>1, <2>2 DEF Owed, Waiting
  <2>4. Owed' = Owed
    BY <2>3 DEF Owed
  <2> QED BY <1>11, <2>4 DEF Redeliver, store, MappedStep
<1>12. CASE UNCHANGED vars
  BY <1>12, OwedUnchanged DEF vars, store, MappedStep
<1> QED
  BY <1>1, <1>2, <1>3, <1>4, <1>5, <1>6, <1>7, <1>8, <1>9, <1>10, <1>11, <1>12
     DEF Next, Task, Fault

\* Every step keeps the invariant the refinement rests on.
LEMMA RefinementStep == RefinementInv /\ [Next]_vars => RefinementInv'
<1> SUFFICES ASSUME RefinementInv, [Next]_vars PROVE RefinementInv'
  OBVIOUS
<1> USE ConstantsAssumption
<1>1. TypeOK /\ TypeOK' /\ MappedStep
  BY TypeStep, EveryStepMapped DEF RefinementInv
<1>2. NothingBeforeSending'
  <2> SUFFICES ASSUME NEW r \in Runs, api'[r] \in {"storing", "created"}
               PROVE  r \notin Owed' \cup abandoned' /\ executions'[r] = 0
    BY DEF NothingBeforeSending
  <2>1. api[r] \in {"storing", "created"}
    <3>1. ASSUME NEW q \in Runs, Request(q) \/ RequestFails(q) PROVE api[r] \in {"storing", "created"}
      BY <1>1, <3>1 DEF Request, StoreRecord, CreateRun, Enqueue, RequestFails, TypeOK
    <3>2. ASSUME NEW w \in Workers, Task(w) \/ Fault(w) PROVE UNCHANGED api
      <4>1. CASE Begin(w) \/ Finish(w)
        BY <4>1 DEF Begin, Finish
      <4> QED BY <3>2, <4>1, StoreKept
    <3> QED BY <3>1, <3>2 DEF Next, PublishPolicy, DecideCandidate, vars, store
  <2>2. r \notin Owed /\ r \notin abandoned /\ executions[r] = 0
    BY <2>1 DEF RefinementInv, NothingBeforeSending
  <2>3. executions \in [Runs -> Nat]
    BY <1>1 DEF TypeOK
  <2> QED BY <1>1, <2>2, <2>3 DEF MappedStep
<1>3. CommittedExecuted'
  <2> SUFFICES ASSUME NEW v \in Workers, pc'[v] = "committed"
               PROVE  executions'[msg'[v][1]] > 0
    BY DEF CommittedExecuted
  <2>1. \A r \in Runs : executions[r] > 0 => executions'[r] > 0
    <3>1. \/ executions' = executions
          \/ \E q \in Owed : executions' = [executions EXCEPT ![q] = @ + 1]
      BY <1>1 DEF MappedStep
    <3>2. executions \in [Runs -> Nat]
      BY <1>1 DEF TypeOK
    <3> QED BY ONLY <3>1, <3>2
  <2>2. ASSUME pc[v] = "committed", msg'[v] = msg[v] PROVE executions'[msg'[v][1]] > 0
    <3>1. msg[v][1] \in Runs
      BY <1>1, <2>2 DEF TypeOK
    <3> QED BY <2>1, <2>2, <3>1 DEF RefinementInv, CommittedExecuted
  <2>3. ASSUME NEW w \in Workers, Finish(w) PROVE executions'[msg'[v][1]] > 0
    <3>1. msg[w][1] \in Runs
      BY <1>1, <2>3 DEF Finish, TypeOK
    <3>2. CASE v = w
      BY <1>1, <2>3, <3>1, <3>2 DEF Finish, TypeOK
    <3>3. CASE v # w
      BY <1>1, <2>2, <2>3, <3>3 DEF Finish, TypeOK
    <3> QED BY <3>2, <3>3
  <2>4. ASSUME NEW w \in Workers, Task(w), ~Finish(w) PROVE executions'[msg'[v][1]] > 0
    <3>0. pc \in [Workers -> Steps] /\ msg \in [Workers -> Messages \cup {NoMsg}]
      BY <1>1 DEF TypeOK
    <3>1. ASSUME NEW m \in Messages, Fetch(w, m) PROVE pc[v] = "committed" /\ msg'[v] = msg[v]
      BY <3>0, <3>1 DEF Fetch
    <3>2. CASE LoadRun(w) \/ LoadDataset(w) \/ Begin(w) \/ FinishRaises(w)
      <4>1. msg' = msg /\ \E p \in Steps \ {"committed"} : pc' = [pc EXCEPT ![w] = p]
        BY <3>2 DEF LoadRun, LoadDataset, Begin, FinishRaises, Steps
      <4> QED BY ONLY <2>2, <3>0, <4>1, v \in Workers, pc'[v] = "committed"
    <3>3. ASSUME NEW s \in Rows, Source(w, s) PROVE pc[v] = "committed" /\ msg'[v] = msg[v]
      <4>1. \E b : Count(w, s, b)
        BY <3>3 DEF Source, SourceFails, SourceUnmatched, SourcePaired
      <4> QED BY <4>1 DEF Count
    <3>4. CASE Acknowledge(w) \/ Retry(w) \/ GiveUp(w)
      <4>1. pc' = [pc EXCEPT ![w] = "idle"] /\ msg' = [msg EXCEPT ![w] = NoMsg]
        BY <3>4 DEF Acknowledge, Retry, GiveUp, Release
      <4>2. pc[v] = "committed" /\ msg'[v] = msg[v]
        BY ONLY <3>0, <4>1, v \in Workers, pc'[v] = "committed"
      <4> QED BY <2>2, <4>2
    <3> QED BY <2>2, <2>4, <3>1, <3>2, <3>3, <3>4 DEF Task
  <2>5. ASSUME NEW w \in Workers, Fault(w) PROVE executions'[msg'[v][1]] > 0
    <3>1. pc[v] = "committed" /\ msg'[v] = msg[v]
      BY <1>1, <2>5 DEF TypeOK, Fault, DatabaseError, WorkerDies, ChildDies, Redeliver, Release
    <3> QED BY <2>2, <3>1
  <2>6. ASSUME UNCHANGED <<pc, msg>> PROVE executions'[msg'[v][1]] > 0
    BY <2>2, <2>6
  <2>7. ASSUME NEW r \in Runs, Request(r) \/ RequestFails(r) PROVE UNCHANGED <<pc, msg>>
    BY <2>7 DEF Request, StoreRecord, CreateRun, Enqueue, RequestFails
  <2> QED BY <2>3, <2>4, <2>5, <2>6, <2>7 DEF Next, PublishPolicy, DecideCandidate, vars
<1> QED BY <1>1, <1>2, <1>3 DEF RefinementInv

\* The API, the broker and the workers keep the promise of task_acks_late for
\* every instance, any number of faults and redeliveries: each step of the
\* system is a step of the abstract queue or a stutter, so a sent run leaves
\* the queue only after a final commit or given up.
THEOREM ReconciliationRunImplementsAtLeastOnce == Spec => ImplementsAtLeastOnce
<1>1. Init => RefinementInv
  <2> SUFFICES ASSUME Init PROVE RefinementInv
    OBVIOUS
  <2>1. TypeOK
    BY InitType
  <2>2. Owed = {}
    BY InitiallyNothingOwed
  <2> QED BY <2>1, <2>2 DEF Init, RefinementInv, NothingBeforeSending, CommittedExecuted
<1>2. Init => Queue!Init
  <2> SUFFICES ASSUME Init PROVE Queue!Init
    OBVIOUS
  <2>1. Owed = {}
    BY InitiallyNothingOwed
  <2> QED BY <2>1 DEF Init, Queue!Init
<1>3. RefinementInv /\ [Next]_vars => [Queue!Next]_(Queue!vars)
  <2> SUFFICES ASSUME RefinementInv, [Next]_vars PROVE [Queue!Next]_(Queue!vars)
    OBVIOUS
  <2>1. TypeOK /\ NothingBeforeSending /\ MappedStep
    BY EveryStepMapped DEF RefinementInv
  <2>2. Owed \subseteq Runs
    BY DEF Owed
  <2>3. CASE UNCHANGED <<Owed, executions, abandoned>>
    BY <2>3 DEF Queue!vars
  <2>4. ASSUME NEW r \in Runs, api[r] = "created", Owed' = Owed \cup {r},
               UNCHANGED <<executions, abandoned>>
        PROVE  Queue!Submit(r)
    BY <2>1, <2>4 DEF NothingBeforeSending, Queue!Submit
  <2>5. ASSUME NEW r \in Owed, executions' = [executions EXCEPT ![r] = @ + 1],
               UNCHANGED <<Owed, abandoned>>
        PROVE  Queue!Execute(r)
    BY <2>5 DEF Queue!Execute
  <2>6. ASSUME NEW r \in Owed, executions[r] > 0, Owed' \in {Owed, Owed \ {r}},
               UNCHANGED <<executions, abandoned>>
        PROVE  Queue!Consume(r) \/ UNCHANGED Queue!vars
    BY <2>6 DEF Queue!Consume, Queue!vars
  <2>7. ASSUME NEW r \in Owed, abandoned' = abandoned \cup {r},
               Owed' \in {Owed, Owed \ {r}}, UNCHANGED executions
        PROVE  Queue!Drop(r)
    BY <2>7 DEF Queue!Drop
  <2> QED BY <2>1, <2>2, <2>3, <2>4, <2>5, <2>6, <2>7 DEF MappedStep, Queue!Next
<1> QED BY <1>1, <1>2, <1>3, RefinementStep, PTL DEF Spec, ImplementsAtLeastOnce, Queue!Spec

-----------------------------------------------------------------------------
(* The counters of a run.  They are written column by column, by a session  *)
(* that compares with the row it loaded, and a crashed execution may have   *)
(* left any value; so the claim needs that a run is in one worker's hands,  *)
(* that its session is in step with the row, and that what it has added is  *)
(* what it has counted.                                                     *)

\* No run is in the hands of two workers: executions of a run never overlap.
Exclusive ==
  \A v, w \in Workers : pc[v] # "idle" /\ pc[w] # "idle" /\ msg[v][1] = msg[w][1] => v = w

\* When that is so: the pool has one process, or the broker never delivers a
\* message again while its worker is busy (a task is always shorter than the
\* visibility timeout).
OneAtATime == (\A v, w \in Workers : v = w) \/ MaxDuplicates = 0

\* Without redeliveries a sent run has one message, waiting or held.
OneMessage ==
  MaxDuplicates = 0 =>
    \A r \in Runs, k \in 0..MaxRetries :
      /\ queue[<<r, k>>] <= 1
      /\ queue[<<r, k>>] = 1 =>
           /\ \A l \in 0..MaxRetries : l # k => queue[<<r, l>>] = 0
           /\ \A w \in Workers : pc[w] # "idle" => msg[w][1] # r

HandsInv == RefinementInv /\ Exclusive /\ OneMessage

\* Steps that move no message.
LEMMA HandsFrame ==
  ASSUME Exclusive, OneMessage, queue' = queue, msg' = msg,
         \A w \in Workers : pc'[w] = "idle" <=> pc[w] = "idle"
  PROVE  Exclusive' /\ OneMessage'
BY DEF Exclusive, OneMessage

\* A worker that gives its message up.
LEMMA HandsReleased ==
  ASSUME TypeOK, Exclusive, OneMessage, NEW w \in Workers, Release(w), queue' = queue
  PROVE  Exclusive' /\ OneMessage'
<1>1. pc'[w] = "idle" /\ \A v \in Workers : v # w => pc'[v] = pc[v] /\ msg'[v] = msg[v]
  BY DEF Release, TypeOK
<1>2. \A v \in Workers : pc'[v] # "idle" => pc[v] # "idle" /\ msg'[v] = msg[v]
  BY <1>1
<1> QED BY <1>2 DEF Exclusive, OneMessage

\* A change of one message's copies, seen from the message of run r with l retries.
LEMMA OneMessageChanged ==
  ASSUME queue \in [Messages -> Nat], NEW m \in Messages, NEW e,
         queue' = [queue EXCEPT ![m] = e], NEW r \in Runs, NEW l \in 0..MaxRetries
  PROVE  queue'[<<r, l>>] = IF r = m[1] /\ l = m[2] THEN e ELSE queue[<<r, l>>]
<1>1. <<r, l>> \in Messages
  OBVIOUS
<1>2. m = <<m[1], m[2]>>
  OBVIOUS
<1>3. <<r, l>> = m <=> (r = m[1] /\ l = m[2])
  BY ONLY <1>2
<1>4. queue'[<<r, l>>] = IF <<r, l>> = m THEN e ELSE queue[<<r, l>>]
  <2> HIDE DEF Messages
  <2> QED BY <1>1
<1> QED BY ONLY <1>3, <1>4

\* One more copy of a message of a run that nobody holds nor waits for.
LEMMA HandsQueued ==
  ASSUME TypeOK, Exclusive, OneMessage, NEW m \in Messages, queue' = [queue EXCEPT ![m] = @ + 1],
         MaxDuplicates = 0 => \A k \in 0..MaxRetries : queue[<<m[1], k>>] = 0,
         \A v \in Workers : pc'[v] # "idle" =>
            pc[v] # "idle" /\ msg'[v] = msg[v] /\ (MaxDuplicates = 0 => msg[v][1] # m[1])
  PROVE  Exclusive' /\ OneMessage'
<1>1. Exclusive'
  BY DEF Exclusive
<1>2. ASSUME MaxDuplicates = 0, NEW r \in Runs, NEW k \in 0..MaxRetries
      PROVE  /\ queue'[<<r, k>>] <= 1
             /\ queue'[<<r, k>>] = 1 =>
                  /\ \A l \in 0..MaxRetries : l # k => queue'[<<r, l>>] = 0
                  /\ \A v \in Workers : pc'[v] # "idle" => msg'[v][1] # r
  <2>1. m = <<m[1], m[2]>> /\ m[1] \in Runs /\ m[2] \in 0..MaxRetries
    OBVIOUS
  <2>2. \A l \in 0..MaxRetries :
          queue'[<<r, l>>] = IF r = m[1] /\ l = m[2] THEN queue[<<r, l>>] + 1 ELSE queue[<<r, l>>]
    <3>1. queue[m] = queue[<<m[1], m[2]>>]
      BY <2>1
    <3>2. \A l \in 0..MaxRetries :
            queue'[<<r, l>>] = IF r = m[1] /\ l = m[2] THEN queue[m] + 1 ELSE queue[<<r, l>>]
      BY OneMessageChanged DEF TypeOK
    <3> QED BY ONLY <3>1, <3>2
  <2>3. CASE r = m[1]
    BY <1>2, <2>2, <2>3
  <2>4. CASE r # m[1]
    <3>1. \A l \in 0..MaxRetries : queue'[<<r, l>>] = queue[<<r, l>>]
      BY <2>2, <2>4
    <3> QED BY <1>2, <3>1 DEF OneMessage
  <2> QED BY <2>3, <2>4
<1> QED BY <1>1, <1>2 DEF OneMessage

\* A message is held: without redeliveries its run does not wait.
LEMMA HeldAlone ==
  ASSUME TypeOK, Exclusive, OneMessage, NEW w \in Workers, pc[w] # "idle", MaxDuplicates = 0
  PROVE  /\ msg[w] \in Messages /\ msg[w][1] \in Runs
         /\ \A k \in 0..MaxRetries : queue[<<msg[w][1], k>>] = 0
<1>1. msg[w] \in Messages /\ msg[w][1] \in Runs
  BY DEF TypeOK
<1>2. ASSUME NEW k \in 0..MaxRetries PROVE queue[<<msg[w][1], k>>] = 0
  <2>1. queue[<<msg[w][1], k>>] \in Nat
    BY <1>1 DEF TypeOK
  <2>2. queue[<<msg[w][1], k>>] <= 1 /\ queue[<<msg[w][1], k>>] # 1
    BY <1>1 DEF OneMessage
  <2> QED BY <2>1, <2>2
<1> QED BY <1>1, <1>2

\* A worker that ends its task and leaves a message of its run with the broker.
LEMMA HandsRequeued ==
  ASSUME TypeOK, Exclusive, OneMessage, NEW w \in Workers, pc[w] # "idle", Release(w),
         NEW m \in Messages, m[1] = msg[w][1], queue' = [queue EXCEPT ![m] = @ + 1]
  PROVE  Exclusive' /\ OneMessage'
<1>1. pc'[w] = "idle" /\ \A v \in Workers : v # w => pc'[v] = pc[v] /\ msg'[v] = msg[v]
  BY DEF Release, TypeOK
<1>2. MaxDuplicates = 0 => \A k \in 0..MaxRetries : queue[<<m[1], k>>] = 0
  BY HeldAlone
<1>3. \A v \in Workers : pc'[v] # "idle" =>
         pc[v] # "idle" /\ msg'[v] = msg[v] /\ msg[v][1] # m[1]
  BY <1>1 DEF Exclusive
<1> QED BY <1>2, <1>3, HandsQueued

\* A message that waits is the only one of its run, when there are no redeliveries.
LEMMA WaitingAlone ==
  ASSUME TypeOK, OneMessage, NEW m \in Messages, queue[m] > 0, MaxDuplicates = 0
  PROVE  /\ queue[m] = 1 /\ \A l \in 0..MaxRetries : l # m[2] => queue[<<m[1], l>>] = 0
         /\ \A v \in Workers : pc[v] # "idle" => msg[v][1] # m[1]
<1>1. m = <<m[1], m[2]>> /\ m[1] \in Runs /\ m[2] \in 0..MaxRetries
  OBVIOUS
<1>2. queue[<<m[1], m[2]>>] \in Nat
  BY <1>1 DEF TypeOK
<1>3. queue[<<m[1], m[2]>>] = 1
  BY <1>1, <1>2 DEF OneMessage
<1> QED BY <1>1, <1>3 DEF OneMessage

\* The broker hands a run that is held to nobody else, if tasks run one at a time.
LEMMA FetchedAlone ==
  ASSUME OneAtATime, TypeOK, Exclusive, OneMessage, NEW w \in Workers, NEW m \in Messages,
         Fetch(w, m)
  PROVE  Exclusive'
<1>1. /\ queue[m] > 0 /\ msg'[w] = m
      /\ \A v \in Workers : v # w => pc'[v] = pc[v] /\ msg'[v] = msg[v]
  BY DEF Fetch, TypeOK
<1>2. CASE \A u, v \in Workers : u = v
  BY <1>2 DEF Exclusive
<1>3. CASE MaxDuplicates = 0
  <2>1. \A v \in Workers : pc[v] # "idle" => msg[v][1] # m[1]
    BY <1>1, <1>3, WaitingAlone
  <2> QED BY <1>1, <2>1 DEF Exclusive
<1> QED BY <1>2, <1>3 DEF OneAtATime

\* Every step keeps HandsInv, if no run is handed to a second worker.
LEMMA HandsStep ==
  ASSUME HandsInv, [Next]_vars, \A w \in Workers, m \in Messages : Fetch(w, m) => Exclusive'
  PROVE  HandsInv'
<1> SUFFICES Exclusive' /\ OneMessage'
  BY RefinementStep DEF HandsInv
<1>0. TypeOK /\ Exclusive /\ OneMessage /\ NothingBeforeSending
  BY DEF HandsInv, RefinementInv
<1>1. ASSUME NEW r \in Runs, Request(r) \/ RequestFails(r) PROVE Exclusive' /\ OneMessage'
  <2>1. CASE Enqueue(r)
    <3>1. /\ queue' = [queue EXCEPT ![<<r, 0>>] = @ + 1]
          /\ UNCHANGED <<pc, msg>>
      BY <2>1 DEF Enqueue
    <3>2. r \notin Owed
      BY <1>0, <2>1 DEF Enqueue, NothingBeforeSending
    <3>3. <<r, 0>> \in Messages
      BY ConstantsAssumption
    <3>4. ASSUME NEW k \in 0..MaxRetries PROVE queue[<<r, k>>] = 0
      <4>1. queue[<<r, k>>] \in Nat
        BY <1>0 DEF TypeOK
      <4>2. ~(queue[<<r, k>>] > 0)
        BY <3>2 DEF Owed, Waiting
      <4> QED BY ONLY <4>1, <4>2
    <3>5. \A v \in Workers : pc[v] # "idle" => msg[v][1] # r
      BY <3>2 DEF Owed
    <3>6. <<r, 0>>[1] = r
      OBVIOUS
    <3> HIDE DEF Messages
    <3> QED BY <1>0, <3>1, <3>3, <3>4, <3>5, <3>6, HandsQueued
  <2>2. CASE (\E x \in Rows : StoreRecord(r, x)) \/ CreateRun(r) \/ RequestFails(r)
    BY <1>0, <2>2, HandsFrame DEF StoreRecord, CreateRun, RequestFails
  <2> QED BY <1>1, <2>1, <2>2 DEF Request
<1>2. CASE PublishPolicy \/ \E c \in candidates, a \in DecideActions : DecideCandidate(c, a)
  BY <1>0, <1>2, HandsFrame DEF PublishPolicy, DecideCandidate
<1>3. ASSUME NEW w \in Workers, NEW m \in Messages, Fetch(w, m) PROVE Exclusive' /\ OneMessage'
  <2>1. /\ queue[m] > 0 /\ queue' = [queue EXCEPT ![m] = @ - 1]
        /\ msg' = [msg EXCEPT ![w] = m] /\ pc' = [pc EXCEPT ![w] = "fetched"]
    BY <1>3 DEF Fetch
  <2>2. m = <<m[1], m[2]>> /\ m[1] \in Runs /\ m[2] \in 0..MaxRetries
    OBVIOUS
  <2>3. /\ pc'[w] # "idle" /\ msg'[w] = m
        /\ \A v \in Workers : v # w => pc'[v] = pc[v] /\ msg'[v] = msg[v]
    BY <1>0, <2>1 DEF TypeOK
  <2>4. ASSUME MaxDuplicates = 0
        PROVE  /\ queue[m] = 1 /\ \A l \in 0..MaxRetries : l # m[2] => queue[<<m[1], l>>] = 0
               /\ \A v \in Workers : pc[v] # "idle" => msg[v][1] # m[1]
    BY <1>0, <2>1, <2>4, WaitingAlone
  <2>5. Exclusive'
    BY <1>3
  <2>6. OneMessage'
    <3> SUFFICES ASSUME MaxDuplicates = 0, NEW r \in Runs, NEW k \in 0..MaxRetries
                 PROVE  /\ queue'[<<r, k>>] <= 1
                        /\ queue'[<<r, k>>] = 1 =>
                             /\ \A l \in 0..MaxRetries : l # k => queue'[<<r, l>>] = 0
                             /\ \A v \in Workers : pc'[v] # "idle" => msg'[v][1] # r
      BY DEF OneMessage
    <3>1. \A l \in 0..MaxRetries :
            queue'[<<r, l>>] = IF r = m[1] /\ l = m[2] THEN queue[<<r, l>>] - 1 ELSE queue[<<r, l>>]
      <4>1. queue[m] = queue[<<m[1], m[2]>>]
        BY <2>2
      <4>2. \A l \in 0..MaxRetries :
              queue'[<<r, l>>] = IF r = m[1] /\ l = m[2] THEN queue[m] - 1 ELSE queue[<<r, l>>]
        BY <1>0, <2>1, OneMessageChanged DEF TypeOK
      <4> QED BY ONLY <4>1, <4>2
    <3>2. CASE r = m[1]
      <4>1. \A l \in 0..MaxRetries : queue'[<<r, l>>] = 0
        BY <2>2, <2>4, <3>1, <3>2
      <4> QED BY <4>1
    <3>3. CASE r # m[1]
      <4>1. \A l \in 0..MaxRetries : queue'[<<r, l>>] = queue[<<r, l>>]
        BY <3>1, <3>3
      <4>2. \A v \in Workers : pc'[v] # "idle" /\ msg'[v][1] = r => pc[v] # "idle" /\ msg[v][1] = r
        BY <2>3, <3>3
      <4> QED BY <1>0, <4>1, <4>2 DEF OneMessage
    <3> QED BY <3>2, <3>3
  <2> QED BY <2>5, <2>6
<1>4. ASSUME NEW w \in Workers, LoadRun(w) \/ LoadDataset(w) \/ Begin(w) \/ Finish(w)
                                 \/ FinishRaises(w) \/ DatabaseError(w)
      PROVE  Exclusive' /\ OneMessage'
  <2>1. \A v \in Workers : pc'[v] = "idle" <=> pc[v] = "idle"
    BY <1>0, <1>4 DEF LoadRun, LoadDataset, Begin, Finish, FinishRaises, DatabaseError, TypeOK
  <2>2. queue' = queue /\ msg' = msg
    BY <1>4 DEF LoadRun, LoadDataset, Begin, Finish, FinishRaises, DatabaseError
  <2> QED BY <1>0, <2>1, <2>2, HandsFrame
<1>5. ASSUME NEW w \in Workers, NEW s \in Rows, Source(w, s) PROVE Exclusive' /\ OneMessage'
  <2>1. UNCHANGED <<queue, pc, msg>>
    BY <1>5 DEF Source, SourceFails, SourceUnmatched, SourcePaired, Count
  <2> QED BY <1>0, <2>1, HandsFrame
<1>6. ASSUME NEW w \in Workers, Acknowledge(w) \/ GiveUp(w) \/ ChildDies(w)
      PROVE  Exclusive' /\ OneMessage'
  BY <1>0, <1>6, HandsReleased DEF Acknowledge, GiveUp, ChildDies
<1>7. ASSUME NEW w \in Workers, Retry(w) PROVE Exclusive' /\ OneMessage'
  <2>1. msg[w] \in Messages /\ msg[w][2] < MaxRetries /\ pc[w] # "idle"
    BY <1>0, <1>7 DEF TypeOK, Retry
  <2>2. msg[w][2] + 1 \in 0..MaxRetries /\ msg[w][1] \in Runs
    BY <2>1, ConstantsAssumption
  <2>3. <<msg[w][1], msg[w][2] + 1>> \in Messages
    BY <2>2
  <2> QED BY <1>0, <1>7, <2>1, <2>3, HandsRequeued DEF Retry
<1>8. ASSUME NEW w \in Workers, WorkerDies(w) PROVE Exclusive' /\ OneMessage'
  <2>1. msg[w] \in Messages
    BY <1>0, <1>8 DEF TypeOK, WorkerDies
  <2> QED BY <1>0, <1>8, <2>1, HandsRequeued DEF WorkerDies
<1>9. ASSUME NEW w \in Workers, Redeliver(w) PROVE Exclusive' /\ OneMessage'
  <2>1. MaxDuplicates # 0 /\ UNCHANGED <<pc, msg>>
    BY <1>0, <1>9, ConstantsAssumption DEF Redeliver, TypeOK
  <2> QED BY <1>0, <2>1 DEF Exclusive, OneMessage
<1>10. CASE UNCHANGED vars
  BY <1>0, <1>10, HandsFrame DEF vars
<1> QED
  BY <1>1, <1>2, <1>3, <1>4, <1>5, <1>6, <1>7, <1>8, <1>9, <1>10 DEF Next, Task, Fault

-----------------------------------------------------------------------------
\* The counters of sources for which a candidate row is stored.
StoredBuckets == Buckets \ {"unmatched", "failed"}

\* What a running execution has counted is what it has added to its session.
Working(w) ==
  pc[w] = "running" =>
    /\ \A s \in todo[w] : bucket[w][s] = "none"
    /\ \A o \in out[w] : bucket[w][o.src] = BucketOf(o.cls)
    /\ \A s \in Rows : bucket[w][s] \in StoredBuckets => \E o \in out[w] : o.src = s
    /\ \A o, p \in out[w] : o.src = p.src => o = p

\* The session compares with the counters the row still has.
InStep(w) ==
  pc[w] \in {"found", "loaded", "running"} =>
    /\ seen[w].total = run[msg[w][1]].total
    /\ seen[w].counters = run[msg[w][1]].counters

\* An execution stores at most one candidate row per source.
RowsUnique ==
  \A a, b \in candidates : a.run = b.run /\ a.exec = b.exec /\ a.src = b.src => a = b

\* The worker of a step, and the others: their local state stays.
LEMMA OthersKept ==
  ASSUME TypeOK, NEW w \in Workers, Task(w) \/ Fault(w), NEW v \in Workers, v # w
  PROVE  /\ pc'[v] = pc[v] /\ msg'[v] = msg[v] /\ seen'[v] = seen[v]
         /\ todo'[v] = todo[v] /\ bucket'[v] = bucket[v] /\ out'[v] = out[v]
<1>1. ASSUME NEW m \in Messages, Fetch(w, m)
      PROVE  /\ pc'[v] = pc[v] /\ msg'[v] = msg[v] /\ seen'[v] = seen[v]
             /\ todo'[v] = todo[v] /\ bucket'[v] = bucket[v] /\ out'[v] = out[v]
  BY <1>1 DEF Fetch, TypeOK, local
<1>2. CASE LoadRun(w) \/ LoadDataset(w) \/ Begin(w)
  BY <1>2 DEF LoadRun, LoadDataset, Begin, TypeOK
<1>3. CASE Finish(w) \/ FinishRaises(w) \/ DatabaseError(w) \/ Redeliver(w)
  BY <1>3 DEF Finish, FinishRaises, DatabaseError, Redeliver, TypeOK, local
<1>4. ASSUME NEW s \in Rows, Source(w, s)
      PROVE  /\ pc'[v] = pc[v] /\ msg'[v] = msg[v] /\ seen'[v] = seen[v]
             /\ todo'[v] = todo[v] /\ bucket'[v] = bucket[v] /\ out'[v] = out[v]
  <2>1. CASE SourceFails(w, s) \/ SourceUnmatched(w, s)
    BY <2>1 DEF SourceFails, SourceUnmatched, Count, TypeOK
  <2>2. CASE SourcePaired(w, s)
    BY <2>2, PairedEffect DEF Count, TypeOK
  <2> QED BY <1>4, <2>1, <2>2 DEF Source
<1>5. CASE Acknowledge(w) \/ Retry(w) \/ GiveUp(w) \/ WorkerDies(w) \/ ChildDies(w)
  <2>1. Release(w)
    BY <1>5 DEF Acknowledge, Retry, GiveUp, WorkerDies, ChildDies
  <2> QED BY <2>1 DEF Release, TypeOK
<1> QED BY <1>1, <1>2, <1>3, <1>4, <1>5 DEF Task, Fault

\* Every step keeps Working.
LEMMA WorkingStep ==
  ASSUME TypeOK, NEW v \in Workers, Working(v), [Next]_vars
  PROVE  Working(v)'
<1>1. CASE pc'[v] = pc[v] /\ todo'[v] = todo[v] /\ bucket'[v] = bucket[v] /\ out'[v] = out[v]
  BY <1>1 DEF Working
<1>2. CASE pc'[v] # "running"
  BY <1>2 DEF Working
<1>3. CASE Begin(v)
  BY <1>3 DEF Begin, Working, TypeOK, NoBucket, StoredBuckets, Buckets
<1>4. ASSUME NEW s \in Rows, Source(v, s) PROVE Working(v)'
  <2>1. /\ pc[v] = "running" /\ pc' = pc /\ s \in todo[v]
        /\ todo' = [todo EXCEPT ![v] = @ \ {s}]
    BY <1>4 DEF Source, SourceFails, SourceUnmatched, SourcePaired, Count
  <2>2. /\ bucket[v][s] = "none"
        /\ \A o \in out[v] : o.src # s /\ o.src \in Rows /\ bucket[v][o.src] = BucketOf(o.cls)
        /\ bucket[v] \in [Rows -> Buckets \cup {"none"}]
    BY <2>1 DEF Working, TypeOK, Pending, BucketOf
  <2>3. ASSUME NEW b, b \notin StoredBuckets, bucket' = [bucket EXCEPT ![v][s] = b], out' = out
        PROVE  Working(v)'
    <3>1. bucket'[v] = [bucket[v] EXCEPT ![s] = b] /\ out'[v] = out[v] /\ todo'[v] = todo[v] \ {s}
      BY <2>1, <2>3 DEF TypeOK
    <3>2. \A t \in Rows : t # s => bucket'[v][t] = bucket[v][t]
      BY <2>2, <3>1
    <3>3. bucket'[v][s] = b
      BY <2>2, <3>1
    <3>4. todo[v] \subseteq Rows
      BY DEF TypeOK
    <3> QED BY <2>1, <2>2, <2>3, <3>1, <3>2, <3>3, <3>4 DEF Working
  <2>4. CASE SourceFails(v, s) \/ SourceUnmatched(v, s)
    BY <2>3, <2>4 DEF SourceFails, SourceUnmatched, Count, StoredBuckets
  <2>5. CASE SourcePaired(v, s)
    <3>1. PICK x \in Rows, cls \in RowClass, p \in BOOLEAN :
            /\ bucket' = [bucket EXCEPT ![v][s] = BucketOf(cls)]
            /\ out' = [out EXCEPT ![v] =
                 @ \cup {[src |-> s, cand |-> x, cls |-> cls, poison |-> p]}]
      BY <2>5, PairedEffect DEF Count
    <3> DEFINE new == [src |-> s, cand |-> x, cls |-> cls, poison |-> p]
    <3>2. bucket'[v] = [bucket[v] EXCEPT ![s] = BucketOf(cls)] /\ todo'[v] = todo[v] \ {s}
      BY <2>1, <3>1 DEF TypeOK
    <3>3. out'[v] = out[v] \cup {new}
      BY <3>1 DEF TypeOK
    <3>4. new.src = s /\ new.cls = cls
      OBVIOUS
    <3>5. \A t \in Rows : t # s => bucket'[v][t] = bucket[v][t]
      BY <2>2, <3>2
    <3>6. bucket'[v][s] = BucketOf(cls)
      BY <2>2, <3>2
    <3>7. todo[v] \subseteq Rows
      BY DEF TypeOK
    <3> HIDE DEF new
    <3>8. \A o \in out'[v] : bucket'[v][o.src] = BucketOf(o.cls)
      BY <2>2, <3>3, <3>4, <3>5, <3>6
    <3>9. \A t \in Rows : bucket'[v][t] \in StoredBuckets => \E o \in out'[v] : o.src = t
      BY <2>1, <3>3, <3>4, <3>5 DEF Working
    <3>10. \A o, q \in out'[v] : o.src = q.src => o = q
      BY <2>1, <2>2, <3>3, <3>4 DEF Working
    <3>11. \A t \in todo'[v] : bucket'[v][t] = "none"
      BY <2>1, <3>2, <3>5, <3>7 DEF Working
    <3> QED BY <3>8, <3>9, <3>10, <3>11 DEF Working
  <2> QED BY <1>4, <2>4, <2>5 DEF Source
<1>5. CASE \E r \in Runs : Request(r) \/ RequestFails(r)
  BY <1>1, <1>5 DEF Request, StoreRecord, CreateRun, Enqueue, RequestFails, local
<1>6. CASE PublishPolicy \/ \E c \in candidates, a \in DecideActions : DecideCandidate(c, a)
  BY <1>1, <1>6 DEF PublishPolicy, DecideCandidate, local
<1>7. ASSUME NEW w \in Workers, Task(w) \/ Fault(w), w # v PROVE Working(v)'
  BY <1>1, <1>7, OthersKept
<1>8. ASSUME NEW m \in Messages, Fetch(v, m) PROVE Working(v)'
  BY <1>2, <1>8 DEF Fetch, TypeOK
<1>9. CASE LoadRun(v) \/ LoadDataset(v) \/ Finish(v) \/ FinishRaises(v) \/ DatabaseError(v)
  BY <1>2, <1>9 DEF LoadRun, LoadDataset, Finish, FinishRaises, DatabaseError, TypeOK
<1>10. CASE Acknowledge(v) \/ Retry(v) \/ GiveUp(v) \/ WorkerDies(v) \/ ChildDies(v)
  BY <1>2, <1>10 DEF Acknowledge, Retry, GiveUp, WorkerDies, ChildDies, Release, TypeOK
<1>11. CASE Redeliver(v)
  BY <1>1, <1>11 DEF Redeliver, local
<1>12. CASE UNCHANGED vars
  BY <1>1, <1>12 DEF vars, local
<1> QED
  BY <1>3, <1>4, <1>5, <1>6, <1>7, <1>8, <1>9, <1>10, <1>11, <1>12 DEF Next, Task, Fault

\* Every step keeps InStep: while a run is in one worker's hands, nobody else
\* writes its counters.
LEMMA InStepStep ==
  ASSUME HandsInv, NEW v \in Workers, InStep(v), [Next]_vars
  PROVE  InStep(v)'
<1>0. TypeOK /\ Exclusive /\ NothingBeforeSending
  BY DEF HandsInv, RefinementInv
<1> DEFINE r == msg[v][1]
<1>1. ASSUME pc'[v] = pc[v], msg'[v] = msg[v], seen'[v] = seen[v],
             pc[v] # "idle" => /\ run'[r].total = run[r].total
                               /\ run'[r].counters = run[r].counters
      PROVE  InStep(v)'
  BY <1>1 DEF InStep
<1>2. CASE pc'[v] \notin {"found", "loaded", "running"}
  BY <1>2 DEF InStep
<1>3. pc[v] # "idle" => r \in Runs /\ r \in Owed
  BY <1>0 DEF TypeOK, Owed
<1>4. ASSUME NEW q \in Runs, CreateRun(q) PROVE InStep(v)'
  <2>1. q \notin Owed
    BY <1>0, <1>4 DEF CreateRun, NothingBeforeSending
  <2>2. pc[v] # "idle" => run'[r] = run[r]
    BY <1>0, <1>3, <1>4, <2>1 DEF CreateRun, TypeOK
  <2> QED BY <1>1, <1>4, <2>2 DEF CreateRun, local
<1>5. ASSUME NEW q \in Runs, Request(q) \/ RequestFails(q) PROVE InStep(v)'
  BY <1>1, <1>4, <1>5 DEF Request, StoreRecord, Enqueue, RequestFails, local
<1>6. CASE PublishPolicy \/ \E c \in candidates, a \in DecideActions : DecideCandidate(c, a)
  BY <1>1, <1>6 DEF PublishPolicy, DecideCandidate, local
<1>7. ASSUME NEW w \in Workers, Begin(w)
      PROVE  pc[v] # "idle" => run'[r].total = run[r].total /\ run'[r].counters = run[r].counters
  <2>1. \A q \in Runs : run'[q].total = run[q].total /\ run'[q].counters = run[q].counters
    <3>1. msg[w][1] \in Runs
      BY <1>0, <1>7 DEF Begin, TypeOK
    <3>2. \A row \in RunRow, b \in BOOLEAN :
            LET new == [row EXCEPT !.status = IF b THEN row.status ELSE "RUNNING"]
            IN  new.total = row.total /\ new.counters = row.counters
      BY DEF RunRow
    <3> QED BY <1>0, <1>7, <3>1, <3>2 DEF Begin, TypeOK
  <2> QED BY <1>3, <2>1
<1>8. ASSUME NEW w \in Workers, Finish(w), w # v
      PROVE  pc[v] # "idle" => run'[r] = run[r]
  <2>1. pc[w] # "idle" /\ msg[w][1] \in Runs
    BY <1>0, <1>8 DEF Finish, TypeOK
  <2>2. pc[v] # "idle" => msg[w][1] # r
    BY <1>0, <1>8, <2>1 DEF Exclusive
  <2> QED BY <1>0, <1>3, <1>8, <2>1, <2>2 DEF Finish, TypeOK
<1>9. ASSUME NEW w \in Workers, Task(w) \/ Fault(w), ~Begin(w), ~Finish(w) PROVE run' = run
  BY <1>9, StoreKept
<1>10. ASSUME NEW w \in Workers, Task(w) \/ Fault(w), w # v PROVE InStep(v)'
  <2>1. pc'[v] = pc[v] /\ msg'[v] = msg[v] /\ seen'[v] = seen[v]
    BY <1>0, <1>10, OthersKept
  <2> HIDE DEF r
  <2>2. pc[v] # "idle" => run'[r].total = run[r].total /\ run'[r].counters = run[r].counters
    BY <1>7, <1>8, <1>9, <1>10
  <2> QED BY <1>1, <2>1, <2>2
<1>11. CASE LoadRun(v)
  <2>1. msg' = msg /\ run' = run /\ seen'[v] = run[r]
    BY <1>0, <1>11 DEF LoadRun, store, TypeOK
  <2> QED BY <2>1 DEF InStep
<1>12. CASE LoadDataset(v) \/ Begin(v)
  <2>1. pc[v] \in {"found", "loaded"} /\ seen' = seen /\ msg' = msg
    BY <1>12 DEF LoadDataset, Begin
  <2>2. run'[r].total = run[r].total /\ run'[r].counters = run[r].counters
    <3>1. CASE LoadDataset(v)
      BY <3>1 DEF LoadDataset, store
    <3> HIDE DEF r
    <3>2. CASE Begin(v)
      BY <1>7, <2>1, <3>2
    <3> QED BY <1>12, <3>1, <3>2
  <2> QED BY <2>1, <2>2 DEF InStep
<1>13. ASSUME NEW s \in Rows, Source(v, s) PROVE InStep(v)'
  BY <1>1, <1>13 DEF Source, SourceFails, SourceUnmatched, SourcePaired, Count, store
<1>14. CASE Redeliver(v)
  BY <1>1, <1>14 DEF Redeliver, store, local
<1>15. ASSUME NEW m \in Messages, Fetch(v, m) PROVE InStep(v)'
  BY <1>0, <1>2, <1>15 DEF Fetch, TypeOK
<1>16. CASE Finish(v) \/ FinishRaises(v) \/ DatabaseError(v)
  BY <1>0, <1>2, <1>16 DEF Finish, FinishRaises, DatabaseError, TypeOK
<1>17. CASE Acknowledge(v) \/ Retry(v) \/ GiveUp(v) \/ WorkerDies(v) \/ ChildDies(v)
  BY <1>0, <1>2, <1>17 DEF Acknowledge, Retry, GiveUp, WorkerDies, ChildDies, Release, TypeOK
<1>18. CASE UNCHANGED vars
  BY <1>1, <1>18 DEF vars, store, local
<1> QED
  BY <1>5, <1>6, <1>10, <1>11, <1>12, <1>13, <1>14, <1>15, <1>16, <1>17, <1>18
     DEF Next, Task, Fault

-----------------------------------------------------------------------------
\* The sources whose rows, of bucket b, execution e of run r stored.
SourcesOf(r, e, b) == {c.src : c \in RowsOf(r, e, b)}

\* A finished run carries the counters of one of its executions.
Settled(r) ==
  run[r].status \in Terminal =>
    LET n == run[r].counters IN
    /\ \E e \in 1..executions[r] : \A b \in StoredBuckets : n[b] = Cardinality(SourcesOf(r, e, b))
    /\ run[r].total = n["matched"] + n["possible_match"] + n["review_required"]
                        + n["unmatched"] + n["duplicate_candidate"] + n["failed"]
    /\ run[r].status = "PARTIAL" <=> n["failed"] > 0

CountersInv ==
  /\ OneToOneInv /\ HandsInv /\ RowsUnique
  /\ \A w \in Workers : Working(w) /\ InStep(w)
  /\ \A r \in Runs : Settled(r)

\* Two disjoint sets of rows, counted together.
LEMMA CountDisjoint ==
  ASSUME NEW S \in SUBSET Rows, NEW T \in SUBSET Rows, S \cap T = {}
  PROVE  Cardinality(S \cup T) = Cardinality(S) + Cardinality(T)
<1>1. IsFiniteSet(S) /\ IsFiniteSet(T)
  BY ConstantsAssumption, FS_Subset
<1>2. Cardinality(S) \in Nat /\ Cardinality(T) \in Nat
  BY <1>1, FS_CardinalityType
<1>3. Cardinality(S \cap T) = 0
  BY FS_EmptySet
<1>4. Cardinality(S \cup T) = Cardinality(S) + Cardinality(T) - Cardinality(S \cap T)
  BY <1>1, FS_Union
<1> QED BY ONLY <1>2, <1>3, <1>4

\* The six counters of an execution add up to its total.
LEMMA CountsAddUp ==
  ASSUME TypeOK, NEW w \in Workers
  PROVE  LET n == Tally(w) IN
         Total(w) = n["matched"] + n["possible_match"] + n["review_required"]
                      + n["unmatched"] + n["duplicate_candidate"] + n["failed"]
<1> DEFINE In(b) == {s \in Rows : bucket[w][s] = b}
           U2 == In("matched") \cup In("possible_match")
           U3 == U2 \cup In("review_required")
           U4 == U3 \cup In("unmatched")
           U5 == U4 \cup In("duplicate_candidate")
           U6 == U5 \cup In("failed")
<1>1. \A b : In(b) \in SUBSET Rows
  OBVIOUS
<1>2. U6 = {s \in Rows : bucket[w][s] # "none"}
  BY DEF TypeOK, Buckets
<1>3. /\ In("matched") \cap In("possible_match") = {}
      /\ U2 \cap In("review_required") = {}
      /\ U3 \cap In("unmatched") = {}
      /\ U4 \cap In("duplicate_candidate") = {}
      /\ U5 \cap In("failed") = {}
  OBVIOUS
<1>4. \A b \in Buckets : Tally(w)[b] = Cardinality(In(b)) /\ Tally(w)[b] \in Nat
  BY TallyType DEF Tally
<1>5. Total(w) = Cardinality(U6)
  BY <1>2 DEF Total
<1> HIDE DEF In
<1>6. /\ U2 \in SUBSET Rows /\ U3 \in SUBSET Rows /\ U4 \in SUBSET Rows
      /\ U5 \in SUBSET Rows
  BY <1>1
<1>7. Cardinality(U2) = Cardinality(In("matched")) + Cardinality(In("possible_match"))
  BY <1>1, <1>3, CountDisjoint
<1> HIDE DEF U2
<1>8. Cardinality(U3) = Cardinality(U2) + Cardinality(In("review_required"))
  BY <1>1, <1>3, <1>6, CountDisjoint
<1> HIDE DEF U3
<1>9. Cardinality(U4) = Cardinality(U3) + Cardinality(In("unmatched"))
  BY <1>1, <1>3, <1>6, CountDisjoint
<1> HIDE DEF U4
<1>10. Cardinality(U5) = Cardinality(U4) + Cardinality(In("duplicate_candidate"))
  BY <1>1, <1>3, <1>6, CountDisjoint
<1> HIDE DEF U5
<1>11. Cardinality(U6) = Cardinality(U5) + Cardinality(In("failed"))
  BY <1>1, <1>3, <1>6, CountDisjoint
<1> HIDE DEF U6
<1>12. {"matched", "possible_match", "review_required", "unmatched",
        "duplicate_candidate", "failed"} \subseteq Buckets
  BY DEF Buckets
<1> QED BY <1>4, <1>5, <1>7, <1>8, <1>9, <1>10, <1>11, <1>12

\* With one row per source, counting rows is counting sources.
LEMMA RowsAreSources ==
  ASSUME TypeOK, RowsUnique, NEW r, NEW e, NEW b
  PROVE  Cardinality(RowsOf(r, e, b)) = Cardinality(SourcesOf(r, e, b))
<1> DEFINE S == SourcesOf(r, e, b)
           T == RowsOf(r, e, b)
           f == [s \in S |-> CHOOSE c \in T : c.src = s]
<1>1. S \in SUBSET Rows
  BY DEF SourcesOf, RowsOf, TypeOK, CandidateRow
<1>2. IsFiniteSet(S)
  BY <1>1, ConstantsAssumption, FS_Subset
<1>3. \A s \in S : f[s] \in T /\ f[s].src = s
  BY DEF SourcesOf
<1>4. \A c, d \in T : c.src = d.src => c = d
  BY DEF RowsOf, RowsUnique
<1>5. \A c \in T : c.src \in S
  BY DEF SourcesOf
<1>6. f \in [S -> T]
  BY <1>3
<1> HIDE DEF f, S, T
<1>7. f \in Injection(S, T)
  BY <1>3, <1>6 DEF Injection, IsInjective
<1>8. f \in Surjection(S, T)
  BY <1>3, <1>4, <1>5, <1>6 DEF Surjection
<1>9. ExistsBijection(S, T)
  BY <1>7, <1>8 DEF Bijection, ExistsBijection
<1> QED BY <1>2, <1>9, FS_Bijection DEF S, T

\* The final commit of an execution in step with its row writes what it counted.
LEMMA FinalRowCounts ==
  ASSUME TypeOK, NEW w \in Workers, pc[w] = "running", InStep(w)
  PROVE  LET row == FinalRow(w, run[msg[w][1]]) IN
         /\ row.total = Total(w) /\ row.counters = Tally(w)
         /\ row.status = IF Tally(w)["failed"] = 0 THEN "COMPLETED" ELSE "PARTIAL"
<1> DEFINE r == msg[w][1]
<1>1. r \in Runs
  BY DEF TypeOK
<1>2. run[r] \in RunRow
  BY <1>1 DEF TypeOK
<1>3. seen[w].total = run[r].total /\ seen[w].counters = run[r].counters
  BY DEF InStep
<1> HIDE DEF r
<1>4. Tally(w) \in [Buckets -> Nat]
  BY TallyType
<1>5. /\ FinalRow(w, run[r]).total = IF Total(w) = seen[w].total THEN run[r].total ELSE Total(w)
      /\ FinalRow(w, run[r]).counters =
           [b \in Buckets |-> IF Tally(w)[b] = seen[w].counters[b]
                              THEN run[r].counters[b] ELSE Tally(w)[b]]
      /\ FinalRow(w, run[r]).status = IF Tally(w)["failed"] = 0 THEN "COMPLETED" ELSE "PARTIAL"
  BY <1>2 DEF FinalRow, RunRow
<1>6. FinalRow(w, run[r]).counters = [b \in Buckets |-> Tally(w)[b]]
  BY ONLY <1>3, <1>5
<1> QED BY <1>3, <1>4, <1>5, <1>6 DEF r

\* A decision changes the status of a stored row and nothing the counters say.
LEMMA DecisionKeepsRows ==
  ASSUME TypeOK, RowsUnique, NEW c \in candidates, NEW a \in DecideActions, DecideCandidate(c, a)
  PROVE  RowsUnique' /\ \A r, e, b : SourcesOf(r, e, b)' = SourcesOf(r, e, b)
<1> DEFINE d == [c EXCEPT !.status = StatusOf[a]]
<1>1. c \in CandidateRow
  BY DEF TypeOK
<1>2. d.run = c.run /\ d.exec = c.exec /\ d.cls = c.cls /\ d.src = c.src
  BY <1>1 DEF CandidateRow
<1>3. candidates' = (candidates \ {c}) \cup {d}
  BY DEF DecideCandidate
<1> HIDE DEF d
<1>4. RowsUnique'
  BY <1>2, <1>3 DEF RowsUnique
<1>5. ASSUME NEW r, NEW e, NEW b PROVE SourcesOf(r, e, b)' = SourcesOf(r, e, b)
  <2>1. \A s : s \in SourcesOf(r, e, b)' <=> s \in SourcesOf(r, e, b)
    BY <1>2, <1>3 DEF SourcesOf, RowsOf
  <2> QED BY <2>1, Zenon
<1> QED BY <1>4, <1>5

\* The final commit adds the rows of a new execution: one per source it counted
\* in a bucket with rows, and none to the executions before it.
LEMMA FinishRows ==
  ASSUME TypeOK, ExecutionsKnown, RowsUnique, NEW w \in Workers, Working(w), Finish(w)
  PROVE  /\ RowsUnique'
         /\ \A r \in Runs : \A e \in 1..executions[r], b \in StoredBuckets :
              SourcesOf(r, e, b)' = SourcesOf(r, e, b)
         /\ \A r \in Runs, n \in Nat, b \in StoredBuckets :
              r = msg[w][1] /\ n = executions[r] + 1 =>
                SourcesOf(r, n, b)' = {s \in Rows : bucket[w][s] = b}
<1> DEFINE q == msg[w][1]
           Row(o) == [run |-> q, exec |-> executions[q] + 1, src |-> o.src, cand |-> o.cand,
                      cls |-> o.cls, version |-> policy[w], status |-> "PENDING"]
<1>1. q \in Runs /\ executions \in [Runs -> Nat]
  BY DEF Finish, TypeOK
<1>2. candidates' = candidates \cup {Row(o) : o \in out[w]}
  BY DEF Finish
<1>3. \A c \in candidates : c.run \in Runs /\ c.exec \in Nat /\ c.exec <= executions[c.run]
  BY DEF TypeOK, CandidateRow, ExecutionsKnown
<1>4. /\ \A o \in out[w] : bucket[w][o.src] = BucketOf(o.cls) /\ o.src \in Rows
      /\ \A s \in Rows : bucket[w][s] \in StoredBuckets => \E o \in out[w] : o.src = s
      /\ \A o, p \in out[w] : o.src = p.src => o = p
  BY DEF Working, Finish, TypeOK, Pending
<1>5. \A o \in out[w] : /\ Row(o).run = q /\ Row(o).exec = executions[q] + 1
                        /\ Row(o).src = o.src /\ Row(o).cls = o.cls
  OBVIOUS
<1> HIDE DEF q, Row
<1>6. \A c \in candidates : c.run = q => c.exec # executions[q] + 1
  BY <1>1, <1>3
<1>7. RowsUnique'
  <2> SUFFICES ASSUME NEW a \in candidates', NEW b \in candidates',
                      a.run = b.run, a.exec = b.exec, a.src = b.src
               PROVE  a = b
    BY DEF RowsUnique
  <2>1. CASE a \in candidates /\ b \in candidates
    BY <2>1 DEF RowsUnique
  <2>2. CASE \E o, p \in out[w] : a = Row(o) /\ b = Row(p)
    BY <1>4, <1>5, <2>2
  <2>3. CASE \/ a \in candidates /\ \E o \in out[w] : b = Row(o)
             \/ b \in candidates /\ \E o \in out[w] : a = Row(o)
    BY <1>5, <1>6, <2>3
  <2> QED BY <1>2, <2>1, <2>2, <2>3
<1>8. ASSUME NEW r \in Runs, NEW e \in 1..executions[r], NEW b
      PROVE  SourcesOf(r, e, b)' = SourcesOf(r, e, b)
  <2>1. \A o \in out[w] : Row(o).run # r \/ Row(o).exec # e
    BY <1>1, <1>5
  <2>2. \A c : (c \in candidates' /\ c.run = r /\ c.exec = e)
                 <=> (c \in candidates /\ c.run = r /\ c.exec = e)
    BY <1>2, <2>1
  <2> QED BY <2>2 DEF SourcesOf, RowsOf
<1>9. ASSUME NEW r \in Runs, NEW n \in Nat, NEW b \in StoredBuckets,
             r = q, n = executions[q] + 1
      PROVE  SourcesOf(r, n, b)' = {s \in Rows : bucket[w][s] = b}
  <2> DEFINE New == {c \in candidates' : c.run = r /\ c.exec = n /\ BucketOf(c.cls) = b}
  <2>1. SourcesOf(r, n, b)' = {c.src : c \in New}
    BY DEF SourcesOf, RowsOf
  <2>2. \A s : s \in {c.src : c \in New} <=> s \in Rows /\ bucket[w][s] = b
    <3>1. ASSUME NEW c \in New PROVE c.src \in Rows /\ bucket[w][c.src] = b
      <4>1. PICK o \in out[w] : c = Row(o)
        BY <1>2, <1>6, <1>9
      <4> QED BY <1>4, <1>5, <4>1
    <3>2. ASSUME NEW s \in Rows, bucket[w][s] = b PROVE \E c \in New : c.src = s
      <4>1. PICK o \in out[w] : o.src = s
        BY <1>4, <3>2
      <4>2. Row(o) \in New /\ Row(o).src = s
        BY <1>2, <1>4, <1>5, <1>9, <3>2, <4>1
      <4> QED BY <4>2
    <3> HIDE DEF New
    <3> QED BY <3>1, <3>2
  <2> QED BY <2>1, <2>2
<1> QED BY <1>7, <1>8, <1>9 DEF q

\* Every step keeps CountersInv, while no run is in the hands of two workers.
LEMMA CountersStep == ASSUME Exclusive', CountersInv, [Next]_vars PROVE CountersInv'
<1>1. OneToOneInv' /\ HandsInv'
  BY OneToOneStep, HandsStep DEF CountersInv
<1>2. /\ TypeOK /\ ExecutionsKnown /\ RowsUnique /\ HandsInv /\ NothingBeforeSending
      /\ \A w \in Workers : Working(w) /\ InStep(w)
  BY DEF CountersInv, OneToOneInv, HandsInv, RefinementInv
<1>3. \A w \in Workers : Working(w)' /\ InStep(w)'
  BY <1>2, WorkingStep, InStepStep
<1>4. RowsUnique'
  <2>1. CASE UNCHANGED <<candidates, executions>>
    BY <1>2, <2>1 DEF RowsUnique
  <2> QED BY <1>2, <2>1, CandidatesFrame, DecisionKeepsRows, FinishRows
<1>5. ASSUME NEW r \in Runs PROVE Settled(r)'
  <2>1. /\ Settled(r) /\ executions[r] \in Nat /\ run[r] \in RunRow
    BY <1>2 DEF CountersInv, TypeOK
  <2>2. ASSUME run'[r].status \in Terminal => run'[r].status = run[r].status,
               run'[r].total = run[r].total, run'[r].counters = run[r].counters,
               executions'[r] \in Nat, executions'[r] >= executions[r],
               \A e \in 1..executions[r], b \in StoredBuckets :
                  SourcesOf(r, e, b)' = SourcesOf(r, e, b)
        PROVE  Settled(r)'
    <3> SUFFICES ASSUME run'[r].status \in Terminal PROVE Settled(r)'
      BY DEF Settled
    <3>1. PICK e \in 1..executions[r] : \A b \in StoredBuckets :
             run[r].counters[b] = Cardinality(SourcesOf(r, e, b))
      BY <2>1, <2>2 DEF Settled
    <3>2. \A b \in StoredBuckets : run'[r].counters[b] = Cardinality(SourcesOf(r, e, b)')
      BY <2>2, <3>1
    <3>3. e \in 1..executions'[r]
      BY <2>1, <2>2
    <3>4. \E x \in 1..executions'[r] : \A b \in StoredBuckets :
             run'[r].counters[b] = Cardinality(SourcesOf(r, x, b)')
      BY <3>2, <3>3
    <3> QED BY <2>1, <2>2, <3>4 DEF Settled
  <2>3. CASE UNCHANGED <<run, candidates, executions>>
    BY <2>1, <2>2, <2>3 DEF SourcesOf, RowsOf
  <2>4. ASSUME NEW c \in candidates, NEW a \in DecideActions, DecideCandidate(c, a)
        PROVE  Settled(r)'
    <3>1. run' = run /\ executions' = executions
      BY <2>4 DEF DecideCandidate
    <3> QED BY <1>2, <2>1, <2>2, <2>4, <3>1, DecisionKeepsRows
  <2>5. ASSUME NEW q \in Runs, CreateRun(q) PROVE Settled(r)'
    <3>1. UNCHANGED <<candidates, executions>>
      BY <2>5 DEF CreateRun
    <3>2. CASE q = r
      <4>1. run'[r].status = "QUEUED"
        BY <1>2, <2>5, <3>2 DEF CreateRun, TypeOK, NoRun
      <4> QED BY <4>1 DEF Settled
    <3>3. CASE q # r
      <4>1. run'[r] = run[r]
        BY <1>2, <2>5, <3>3 DEF CreateRun, TypeOK
      <4> QED BY <2>1, <2>2, <3>1, <4>1 DEF SourcesOf, RowsOf
    <3> QED BY <3>2, <3>3
  <2>6. ASSUME NEW w \in Workers, Begin(w) PROVE Settled(r)'
    <3>1. UNCHANGED <<candidates, executions>> /\ msg[w][1] \in Runs
      BY <1>2, <2>6 DEF Begin, TypeOK
    <3>2. \/ run'[r] = run[r]
          \/ run'[r] = [run[r] EXCEPT !.status = "RUNNING"]
          \/ run'[r] = [run[r] EXCEPT !.status = run[r].status]
      BY <1>2, <2>6, <3>1 DEF Begin, TypeOK
    <3>3. /\ run'[r].total = run[r].total /\ run'[r].counters = run[r].counters
          /\ run'[r].status \in {run[r].status, "RUNNING"}
      BY <2>1, <3>2 DEF RunRow
    <3> QED BY <2>1, <2>2, <3>1, <3>3 DEF SourcesOf, RowsOf
  <2>7. ASSUME NEW w \in Workers, Finish(w) PROVE Settled(r)'
    <3> DEFINE q == msg[w][1]
    <3>1. /\ q \in Runs /\ pc[w] = "running"
          /\ run' = [run EXCEPT ![q] = FinalRow(w, run[q])]
          /\ executions' = [executions EXCEPT ![q] = @ + 1]
      BY <1>2, <2>7 DEF Finish, TypeOK
    <3>2. /\ \A e \in 1..executions[r], b \in StoredBuckets :
               SourcesOf(r, e, b)' = SourcesOf(r, e, b)
          /\ \A n \in Nat, b \in StoredBuckets :
               q = r /\ n = executions[r] + 1 =>
                 SourcesOf(r, n, b)' = {s \in Rows : bucket[w][s] = b}
      BY <1>2, <2>7, FinishRows
    <3>3. CASE q # r
      <4>1. run'[r] = run[r] /\ executions'[r] = executions[r]
        BY <1>2, <3>1, <3>3 DEF TypeOK
      <4> QED BY <2>1, <2>2, <3>2, <4>1
    <3>4. CASE q = r
      <4>1. /\ run'[r].total = Total(w) /\ run'[r].counters = Tally(w)
            /\ run'[r].status = IF Tally(w)["failed"] = 0 THEN "COMPLETED" ELSE "PARTIAL"
        BY <1>2, <3>1, <3>4, FinalRowCounts DEF TypeOK
      <4>2. executions'[r] = executions[r] + 1
        BY <1>2, <3>1, <3>4 DEF TypeOK
      <4>3. Tally(w)["failed"] \in Nat
        BY TallyType DEF Buckets
      <4>4. \A n \in Nat, b \in StoredBuckets :
               n = executions[r] + 1 => run'[r].counters[b] = Cardinality(SourcesOf(r, n, b)')
        BY <3>2, <3>4, <4>1 DEF Tally, StoredBuckets
      <4>5. \E e \in 1..executions'[r] : \A b \in StoredBuckets :
               run'[r].counters[b] = Cardinality(SourcesOf(r, e, b)')
        <5>1. executions[r] + 1 \in Nat /\ executions[r] + 1 \in 1..executions'[r]
          BY <2>1, <4>2
        <5> QED BY <4>4, <5>1
      <4>6. LET n == run'[r].counters IN
            run'[r].total = n["matched"] + n["possible_match"] + n["review_required"]
                              + n["unmatched"] + n["duplicate_candidate"] + n["failed"]
        BY <1>2, <4>1, CountsAddUp
      <4>7. run'[r].status = "PARTIAL" <=> run'[r].counters["failed"] > 0
        BY <4>1, <4>3
      <4> QED BY <4>5, <4>6, <4>7 DEF Settled
    <3> QED BY <3>3, <3>4
  <2>8. ASSUME NEW q \in Runs, Request(q) \/ RequestFails(q) PROVE Settled(r)'
    BY <2>3, <2>5, <2>8 DEF Request, StoreRecord, Enqueue, RequestFails
  <2>9. ASSUME NEW w \in Workers, Task(w) \/ Fault(w), ~Begin(w), ~Finish(w)
        PROVE  UNCHANGED <<run, candidates, executions>>
    BY <2>9, StoreKept
  <2>10. CASE PublishPolicy \/ UNCHANGED vars
    BY <2>3, <2>10 DEF PublishPolicy, vars, store
  <2> QED BY <2>3, <2>4, <2>6, <2>7, <2>8, <2>9, <2>10 DEF Next
<1> QED BY <1>1, <1>3, <1>4, <1>5 DEF CountersInv

\* The invariant holds when nothing has been requested.
LEMMA CountersInit == Init => CountersInv
<1> SUFFICES ASSUME Init PROVE CountersInv
  OBVIOUS
<1>1. TypeOK /\ Owed = {}
  BY InitType, InitiallyNothingOwed
<1>2. OneToOneInv /\ RefinementInv
  BY <1>1 DEF Init, OneToOneInv, ClaimsRecorded, ExecutionsKnown, OneToOneClaims,
     RefinementInv, NothingBeforeSending, CommittedExecuted
<1>3. Exclusive /\ OneMessage
  <2>1. \A r \in Runs, k \in 0..MaxRetries : <<r, k>> \in Messages
    OBVIOUS
  <2>2. \A m \in Messages : queue[m] = 0
    BY DEF Init
  <2>3. \A w \in Workers : pc[w] = "idle"
    BY DEF Init
  <2>4. \A r \in Runs, k \in 0..MaxRetries : queue[<<r, k>>] = 0
    BY <2>1, <2>2, Zenon
  <2> QED BY <2>3, <2>4 DEF Exclusive, OneMessage
<1>4. RowsUnique /\ \A w \in Workers : Working(w) /\ InStep(w)
  BY DEF Init, RowsUnique, Working, InStep
<1>5. \A r \in Runs : Settled(r)
  BY DEF Init, Settled, NoRun
<1> QED BY <1>2, <1>3, <1>4, <1>5 DEF CountersInv, HandsInv

\* The counters of a finished run are those of one of its executions, as long as
\* no two executions of a run overlap: they count the rows that execution
\* stored, add up to the total, and PARTIAL says that a source failed, after any
\* number of crashes, retries, redeliveries and renewed executions.
THEOREM CountersOfOneExecutionAlways == Spec /\ []Exclusive => []CountersOfOneExecution
<1>1. CountersInv => CountersOfOneExecution
  <2> SUFFICES ASSUME CountersInv PROVE CountersOfOneExecution
    OBVIOUS
  <2>1. TypeOK /\ RowsUnique
    BY DEF CountersInv, OneToOneInv
  <2>2. \A r, e, b : Cardinality(RowsOf(r, e, b)) = Cardinality(SourcesOf(r, e, b))
    BY <2>1, RowsAreSources
  <2>3. \A r \in Runs : Settled(r)
    BY DEF CountersInv
  <2> QED BY <2>2, <2>3 DEF Settled, CountersOfOneExecution, StoredBuckets
<1>2. Exclusive' /\ CountersInv /\ [Next]_vars => CountersInv'
  BY CountersStep
<1> QED BY <1>1, <1>2, CountersInit, PTL DEF Spec

\* With one process in the pool, or a broker that never delivers a message again
\* while its worker is busy, executions of a run never overlap, so the counters
\* are those of one execution.
THEOREM OneAtATimeSuffices == ASSUME OneAtATime PROVE Spec => []CountersOfOneExecution
<1>1. Init => HandsInv
  BY CountersInit DEF CountersInv
<1>2. HandsInv /\ [Next]_vars => HandsInv'
  <2> SUFFICES ASSUME HandsInv, [Next]_vars PROVE HandsInv'
    OBVIOUS
  <2>1. TypeOK /\ Exclusive /\ OneMessage
    BY DEF HandsInv, RefinementInv
  <2> QED BY <2>1, FetchedAlone, HandsStep
<1>3. HandsInv => Exclusive
  BY DEF HandsInv
<1>4. Spec => []Exclusive
  BY <1>1, <1>2, <1>3, PTL DEF Spec
<1> QED BY <1>4, CountersOfOneExecutionAlways, PTL
=============================================================================
