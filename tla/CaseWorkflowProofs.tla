-------------------------- MODULE CaseWorkflowProofs --------------------------
(***************************************************************************)
(* Proofs about CaseWorkflow for every finite set of requests and every    *)
(* bound on those in flight: what the unlocked read-decide-commit sequence *)
(* of transition_case still guarantees.                                    *)
(***************************************************************************)
EXTENDS CaseWorkflow, FiniteSetTheorems, TLAPS

Started  == {q \in Requests : pc[q] # "new"}
Finished == {q \in Requests : pc[q] = "done"}

\* The clock ticks once for every decision and once for every commit.
ClockCounts == clock = Cardinality(Started) + Cardinality(Finished)

\* Stamps lie in the past, and a decision is stamped before it is committed.
StampsPast ==
  /\ \A e \in audit : e.at < e.end /\ e.end <= clock
  /\ \A q \in Requests : mine[q].at <= clock

\* The types with the clock left unbounded: the part that is inductive alone.
Shape ==
  /\ case \in [status : Open \cup Closed]
  /\ audit \subseteq [action : Actions, at : Nat, end : Nat]
  /\ clock \in Nat
  /\ pc \in [Requests -> {"new", "accepted", "refused", "done", "failed"}]
  /\ mine \in [Requests -> [row : [status : Open \cup Closed], action : Actions, at : Nat]]

Agreeing == \A e, f \in audit : ~Contradict(e, f)

\* A status other than an open one was put there by a decision on record.
ClosedByDecision ==
  audit = {} => case.status \in Open /\ \A q \in InFlight : mine[q].row.status \in Open

\* While all decisions on record agree, the case has the status they lead to,
\* and so had it for a request that read it after one of them was committed.
StatusAgrees ==
  Agreeing => \A e \in audit :
                 /\ case.status = Allowed[e.action]
                 /\ \A q \in InFlight : e.end <= mine[q].at
                                          => mine[q].row.status = Allowed[e.action]

\* A decision that no commit has overtaken was made on the status the case has.
ReadStillCurrent ==
  \A q \in InFlight : (\A e \in audit : e.end <= mine[q].at)
                        => mine[q].row.status = case.status

Accepted == \A q \in InFlight : ~Refused(mine[q].row, mine[q].action)

CaseInv ==
  /\ Shape /\ StampsPast /\ ClosedByDecision /\ StatusAgrees /\ ReadStillCurrent
  /\ Accepted /\ OnlyOverlapsContradict /\ AuditTellsStatus

-----------------------------------------------------------------------------
\* What committing a decision makes of the row: the status is written unless
\* it is the one that was read.
LEMMA CommittedStatus ==
  ASSUME Shape, NEW q \in Requests, Commit(q)
  PROVE  /\ case' \in [status : Open \cup Closed]
         /\ case'.status = IF mine[q].row.status = Allowed[mine[q].action]
                           THEN case.status ELSE Allowed[mine[q].action]
<1> DEFINE d == mine[q]
           mem == [d.row EXCEPT !.status = Allowed[d.action]]
<1>1. /\ d.row \in [status : Open \cup Closed] /\ d.action \in Actions
      /\ case \in [status : Open \cup Closed]
  BY DEF Shape
<1>2. Allowed[d.action] \in Closed
  BY <1>1 DEF Allowed, Actions, Closed
<1>3. DOMAIN case = {"status"} /\ mem.status = Allowed[d.action]
  BY <1>1
<1>4. case' = [f \in {"status"} |-> IF mem[f] = d.row[f] THEN case[f] ELSE mem[f]]
  BY <1>3 DEF Commit, Flush
<1> HIDE DEF mem, d
<1>5. case'.status = IF mem.status = d.row.status THEN case.status ELSE mem.status
  BY <1>4
<1>6. case' = [status |-> case'.status]
  BY <1>4
<1> QED BY <1>1, <1>2, <1>3, <1>5, <1>6 DEF d

\* The entry a commit adds, and what stays.
LEMMA CommittedEntry ==
  ASSUME Shape, StampsPast, NEW q \in Requests, Commit(q)
  PROVE  LET n == [action |-> mine[q].action, at |-> mine[q].at, end |-> clock + 1] IN
         /\ audit' = audit \cup {n}
         /\ n \in [action : Actions, at : Nat, end : Nat]
         /\ n \notin audit /\ n.at < n.end
         /\ \A e \in audit : e.at < n.end /\ e.end < n.end
         /\ q \in InFlight /\ InFlight' = InFlight \ {q}
         /\ clock' = clock + 1 /\ mine' = mine
<1> DEFINE n == [action |-> mine[q].action, at |-> mine[q].at, end |-> clock + 1]
<1>1. mine[q].action \in Actions /\ mine[q].at \in Nat /\ clock \in Nat /\ mine[q].at <= clock
  BY DEF Shape, StampsPast
<1>2. audit' = audit \cup {n} /\ clock' = clock + 1 /\ mine' = mine
  BY DEF Commit
<1>3. \A e \in audit : e.at \in Nat /\ e.end \in Nat /\ e.at < e.end /\ e.end <= clock
  BY DEF Shape, StampsPast
<1>4. q \in InFlight /\ InFlight' = InFlight \ {q}
  BY DEF InFlight, Commit, Shape
<1>5. n.end = clock + 1 /\ n.at = mine[q].at
  OBVIOUS
<1>6. n \in [action : Actions, at : Nat, end : Nat] /\ n.at < n.end
  BY <1>1
<1> HIDE DEF n
<1>7. \A e \in audit : e.at < n.end /\ e.end < n.end
  BY <1>1, <1>3, <1>5
<1>8. n \notin audit
  BY <1>3, <1>7
<1> QED BY <1>2, <1>4, <1>6, <1>7, <1>8 DEF n

\* Every step keeps the types and the order of the stamps.
LEMMA ShapeStep == Shape /\ StampsPast /\ [Next]_vars => Shape' /\ StampsPast'
<1> SUFFICES ASSUME Shape, StampsPast, [Next]_vars PROVE Shape' /\ StampsPast'
  OBVIOUS
<1>1. ASSUME NEW q \in Requests, NEW a \in Actions, Decide(q, a) PROVE Shape' /\ StampsPast'
  <2>1. clock \in Nat /\ clock' = clock + 1 /\ audit' = audit /\ case' = case
    BY <1>1 DEF Shape, Decide
  <2>2. pc' \in [Requests -> {"new", "accepted", "refused", "done", "failed"}]
    BY <1>1 DEF Shape, Decide
  <2>3. mine' = mine \/ mine' = [mine EXCEPT ![q] = [row |-> case, action |-> a, at |-> clock + 1]]
    BY <1>1, <2>1 DEF Decide
  <2>4. /\ mine' \in [Requests -> [row : [status : Open \cup Closed], action : Actions, at : Nat]]
        /\ \A p \in Requests : mine'[p].at <= clock + 1
    <3> DEFINE d == [row |-> case, action |-> a, at |-> clock + 1]
    <3>1. d \in [row : [status : Open \cup Closed], action : Actions, at : Nat]
      BY <2>1 DEF Shape
    <3>2. d.at = clock + 1
      OBVIOUS
    <3>3. \A p \in Requests : mine[p].at \in Nat /\ mine[p].at <= clock + 1
      BY <2>1 DEF Shape, StampsPast
    <3>4. mine' = mine \/ mine' = [mine EXCEPT ![q] = d]
      BY <2>3
    <3> HIDE DEF d
    <3> QED BY <2>1, <3>1, <3>2, <3>3, <3>4 DEF Shape
  <2>5. \A e \in audit : e.at < e.end /\ e.end <= clock + 1
    BY <2>1 DEF Shape, StampsPast
  <2> QED BY <2>1, <2>2, <2>4, <2>5 DEF Shape, StampsPast
<1>2. ASSUME NEW q \in Requests, Commit(q) PROVE Shape' /\ StampsPast'
  <2> DEFINE n == [action |-> mine[q].action, at |-> mine[q].at, end |-> clock + 1]
  <2>0. /\ audit' = audit \cup {n} /\ n.at < n.end
        /\ n \in [action : Actions, at : Nat, end : Nat]
        /\ clock' = clock + 1 /\ mine' = mine /\ n.end = clock + 1
    BY <1>2, CommittedEntry
  <2> HIDE DEF n
  <2>1. Shape'
    <3>1. case' \in [status : Open \cup Closed]
      BY <1>2, CommittedStatus
    <3>2. pc' \in [Requests -> {"new", "accepted", "refused", "done", "failed"}]
      BY <1>2 DEF Shape, Commit
    <3> QED BY <2>0, <3>1, <3>2 DEF Shape
  <2>2. StampsPast'
    <3>1. clock \in Nat /\ \A e \in audit : e.at \in Nat /\ e.end \in Nat
      BY DEF Shape
    <3>2. \A p \in Requests : mine[p].at <= clock + 1
      BY <3>1 DEF Shape, StampsPast
    <3>3. \A e \in audit : e.at < e.end /\ e.end <= clock + 1
      BY <3>1 DEF StampsPast
    <3> QED BY <2>0, <3>1, <3>2, <3>3 DEF StampsPast
  <2> QED BY <2>1, <2>2
<1>3. ASSUME NEW q \in Requests, Fail(q) PROVE Shape' /\ StampsPast'
  BY <1>3 DEF Shape, StampsPast, Fail, InFlight
<1>4. CASE UNCHANGED vars
  BY <1>4 DEF vars, Shape, StampsPast, InFlight
<1> QED BY <1>1, <1>2, <1>3, <1>4 DEF Next

\* Every step keeps the inductive invariant.
LEMMA CaseStep == CaseInv /\ [Next]_vars => CaseInv'
<1> SUFFICES ASSUME CaseInv, [Next]_vars PROVE CaseInv'
  OBVIOUS
<1>0. Shape /\ StampsPast /\ Shape' /\ StampsPast'
  BY ShapeStep DEF CaseInv
<1>1. ASSUME NEW q \in Requests, NEW a \in Actions, Decide(q, a) PROVE CaseInv'
  <2>1. UNCHANGED <<case, audit>> /\ clock' = clock + 1
    BY <1>1 DEF Decide
  <2>2. ASSUME NEW p \in InFlight'
        PROVE  \/ p \in InFlight /\ mine'[p] = mine[p]
               \/ /\ mine'[p].row = case /\ mine'[p].at = clock + 1
                  /\ mine'[p].action = a /\ ~Refused(case, a)
    BY <1>0, <1>1, <2>2 DEF Decide, InFlight, Shape
  <2>3. \A e \in audit : e.end <= clock /\ e.end \in Nat /\ clock \in Nat
    BY <1>0 DEF Shape, StampsPast
  <2>4. ClosedByDecision' /\ Accepted'
    BY <2>1, <2>2 DEF CaseInv, ClosedByDecision, Accepted, Refused
  <2>5. StatusAgrees' /\ ReadStillCurrent'
    BY <2>1, <2>2, <2>3 DEF CaseInv, StatusAgrees, ReadStillCurrent, Agreeing, Contradict
  <2>6. OnlyOverlapsContradict' /\ AuditTellsStatus'
    BY <2>1 DEF CaseInv, OnlyOverlapsContradict, AuditTellsStatus, Alone, Overlap, Contradict
  <2> QED BY <1>0, <2>4, <2>5, <2>6 DEF CaseInv
<1>2. ASSUME NEW q \in Requests, Commit(q) PROVE CaseInv'
  <2> DEFINE n == [action |-> mine[q].action, at |-> mine[q].at, end |-> clock + 1]
             new == Allowed[mine[q].action]
             old == mine[q].row.status
  <2>1. /\ audit' = audit \cup {n} /\ n \notin audit /\ n.at < n.end
        /\ \A e \in audit : e.at < n.end /\ e.end < n.end
        /\ q \in InFlight /\ InFlight' = InFlight \ {q} /\ mine' = mine
    BY <1>0, <1>2, CommittedEntry
  <2>2. case'.status = IF old = new THEN case.status ELSE new
    BY <1>0, <1>2, CommittedStatus
  <2>3. Allowed[n.action] = new /\ new \in Closed /\ n.at = mine[q].at /\ n.end = clock + 1
    BY <1>0 DEF Shape, Allowed, Actions, Closed
  <2>4. n.at \in Nat /\ n.end \in Nat /\ clock \in Nat
        /\ \A e \in audit : e.at \in Nat /\ e.end \in Nat /\ e.at < e.end
    BY <1>0, <2>3 DEF Shape, StampsPast
  <2>5. old \in Closed => old = new
    BY <2>1, <2>3 DEF CaseInv, Accepted, Refused
  <2> HIDE DEF n, old, new
  <2>6. \A p \in InFlight' : /\ p \in InFlight /\ mine'[p] = mine[p]
                             /\ mine[p].at \in Nat /\ mine[p].at < n.end
    <3>1. \A p \in InFlight : mine[p].at \in Nat /\ mine[p].at <= clock
      BY <1>0 DEF Shape, StampsPast, InFlight
    <3> QED BY <2>1, <2>3, <2>4, <3>1
  <2>7. ClosedByDecision' /\ Accepted'
    BY <2>1, <2>6 DEF CaseInv, ClosedByDecision, Accepted
  <2>8. ReadStillCurrent'
    <3>1. \A p \in InFlight' : ~(n.end <= mine'[p].at)
      BY <2>4, <2>6
    <3> QED BY <2>1, <3>1 DEF ReadStillCurrent
  <2>9. ASSUME Agreeing' PROVE /\ Agreeing
                               /\ \A e \in audit : Allowed[e.action] = new
                               /\ case'.status = new
    <3>1. Agreeing /\ \A e \in audit : Allowed[e.action] = new
      BY <2>1, <2>3, <2>9 DEF Agreeing, Contradict
    <3>2. CASE old = new
      <4>1. PICK e \in audit : TRUE
        BY <2>1, <2>3, <3>2 DEF CaseInv, ClosedByDecision, Open, Closed, old
      <4> QED BY <2>2, <3>1, <3>2, <4>1 DEF CaseInv, StatusAgrees
    <3>3. CASE old # new
      BY <2>2, <3>1, <3>3
    <3> QED BY <3>1, <3>2, <3>3
  <2>10. StatusAgrees'
    <3> SUFFICES ASSUME Agreeing', NEW e \in audit'
                 PROVE  /\ case'.status = Allowed[e.action]
                        /\ \A p \in InFlight' : e.end <= mine'[p].at
                                                  => mine'[p].row.status = Allowed[e.action]
      BY DEF StatusAgrees
    <3>1. CASE e \in audit
      BY <2>6, <2>9, <3>1 DEF CaseInv, StatusAgrees
    <3>2. CASE e = n
      <4>1. \A p \in InFlight' : ~(n.end <= mine'[p].at)
        BY <2>4, <2>6
      <4> QED BY <2>3, <2>9, <3>2, <4>1
    <3> QED BY <2>1, <3>1, <3>2
  <2>11. OnlyOverlapsContradict'
    <3>1. CASE ~Agreeing
      BY <2>1, <3>1 DEF CaseInv, OnlyOverlapsContradict, Agreeing
    <3>2. ASSUME Agreeing, NEW e \in audit, Contradict(e, n)
          PROVE  \E f \in audit : Contradict(f, n) /\ Overlap(f, n)
      <4>1. CASE n.at < e.end
        BY <2>1, <3>2, <4>1 DEF Overlap
      <4>2. CASE ~(n.at < e.end)
        <5>1. old = Allowed[e.action]
          BY <2>1, <2>3, <2>4, <3>2, <4>2 DEF CaseInv, StatusAgrees, old
        <5>2. e.action \in Actions
          BY <1>0 DEF Shape
        <5>3. old \in Closed
          BY <5>1, <5>2 DEF Allowed, Actions, Closed
        <5> QED BY <2>3, <2>5, <3>2, <5>1, <5>3 DEF Contradict
      <4> QED BY <4>1, <4>2
    <3>3. \A e, f : Contradict(e, f) <=> Contradict(f, e)
      BY DEF Contradict
    <3>4. ~Contradict(n, n)
      BY DEF Contradict
    <3> QED BY <2>1, <3>1, <3>2, <3>3, <3>4 DEF OnlyOverlapsContradict, Agreeing
  <2>12. AuditTellsStatus'
    <3> SUFFICES ASSUME NEW e \in audit', \A f \in audit' : f.at <= e.at, Alone(e)'
                 PROVE  case'.status = Allowed[e.action]
      BY DEF AuditTellsStatus
    <3>1. e = n
      <4>1. SUFFICES ASSUME e \in audit PROVE FALSE
        BY <2>1
      <4>2. n \in audit' \ {e} /\ n.at <= e.at
        BY <2>1, <4>1
      <4>3. ~Overlap(e, n)
        BY <4>2 DEF Alone
      <4> QED BY <2>1, <2>4, <4>1, <4>2, <4>3 DEF Overlap
    <3>2. \A f \in audit : f.end <= n.at
      <4> SUFFICES ASSUME NEW f \in audit PROVE f.end <= n.at
        OBVIOUS
      <4>1. ~Overlap(n, f)
        BY <2>1, <3>1 DEF Alone
      <4> QED BY <2>1, <2>4, <4>1 DEF Overlap
    <3>3. old = case.status
      BY <2>1, <2>3, <3>2 DEF CaseInv, ReadStillCurrent, old
    <3> QED BY <2>2, <2>3, <3>1, <3>3
  <2> QED BY <1>0, <2>7, <2>8, <2>10, <2>11, <2>12 DEF CaseInv
<1>3. ASSUME NEW q \in Requests, Fail(q) PROVE CaseInv'
  <2>1. UNCHANGED <<case, audit, mine>> /\ InFlight' \subseteq InFlight
    BY <1>0, <1>3 DEF Fail, InFlight, Shape
  <2> QED BY <1>0, <2>1 DEF CaseInv, ClosedByDecision, StatusAgrees, ReadStillCurrent, Accepted,
       Agreeing, OnlyOverlapsContradict, AuditTellsStatus, Alone, Overlap, Contradict
<1>4. CASE UNCHANGED vars
  <2>1. UNCHANGED <<case, audit, mine>> /\ InFlight' = InFlight
    BY <1>4 DEF vars, InFlight
  <2> QED BY <1>0, <2>1 DEF CaseInv, ClosedByDecision, StatusAgrees, ReadStillCurrent, Accepted,
       Agreeing, OnlyOverlapsContradict, AuditTellsStatus, Alone, Overlap, Contradict
<1> QED BY <1>1, <1>2, <1>3, <1>4 DEF Next

\* The initial state satisfies the invariant.
LEMMA CaseInit == Init => CaseInv /\ ClockCounts
<1> SUFFICES ASSUME Init PROVE CaseInv /\ ClockCounts
  OBVIOUS
<1>1. InFlight = {} /\ Started = {} /\ Finished = {}
  BY DEF Init, InFlight, Started, Finished
<1>2. NoDecision \in [row : [status : Open \cup Closed], action : Actions, at : Nat]
      /\ NoDecision.at = 0
  BY DEF NoDecision, Open, Actions, Allowed
<1>3. Shape
  BY <1>2 DEF Init, Shape
<1>4. StampsPast
  BY <1>2 DEF Init, StampsPast
<1>5. case.status \in Open /\ audit = {}
  BY DEF Init
<1>6. ClockCounts
  BY <1>1, FS_EmptySet DEF Init, ClockCounts
<1> QED BY <1>1, <1>3, <1>4, <1>5, <1>6 DEF CaseInv, ClosedByDecision, StatusAgrees,
     ReadStillCurrent, Accepted, OnlyOverlapsContradict, AuditTellsStatus

\* Every step keeps the clock in step with the requests decided and committed.
LEMMA ClockStep == Shape /\ ClockCounts /\ [Next]_vars => ClockCounts'
<1> SUFFICES ASSUME Shape, ClockCounts, [Next]_vars PROVE ClockCounts'
  OBVIOUS
<1>1. /\ IsFiniteSet(Started) /\ IsFiniteSet(Finished)
      /\ Cardinality(Started) \in Nat /\ Cardinality(Finished) \in Nat
  BY ConstantsAssumption, FS_Subset, FS_CardinalityType DEF Started, Finished
<1>2. ASSUME NEW q \in Requests, NEW a \in Actions, Decide(q, a) PROVE ClockCounts'
  <2>1. q \notin Started /\ Started' = Started \cup {q} /\ Finished' = Finished
    BY <1>2 DEF Decide, Started, Finished, Shape
  <2>2. Cardinality(Started') = Cardinality(Started) + 1
    BY <1>1, <2>1, FS_AddElement
  <2> QED BY <1>1, <1>2, <2>1, <2>2 DEF Decide, ClockCounts
<1>3. ASSUME NEW q \in Requests, Commit(q) PROVE ClockCounts'
  <2>1. q \notin Finished /\ Finished' = Finished \cup {q} /\ Started' = Started
    BY <1>3 DEF Commit, Started, Finished, Shape
  <2>2. Cardinality(Finished') = Cardinality(Finished) + 1
    BY <1>1, <2>1, FS_AddElement
  <2> QED BY <1>1, <1>3, <2>1, <2>2 DEF Commit, ClockCounts
<1>4. ASSUME NEW q \in Requests, Fail(q) PROVE ClockCounts'
  BY <1>4 DEF Fail, Started, Finished, ClockCounts, Shape
<1>5. CASE UNCHANGED vars
  BY <1>5 DEF vars, Started, Finished, ClockCounts
<1> QED BY <1>2, <1>3, <1>4, <1>5 DEF Next

\* Types, with every stamp within the bound: a request ticks the clock at most
\* twice, once when it decides and once when it commits.
LEMMA TypeFromCounts == Shape /\ StampsPast /\ ClockCounts => TypeOK
<1> SUFFICES ASSUME Shape, StampsPast, ClockCounts PROVE TypeOK
  OBVIOUS
<1>1. Cardinality(Started) <= Cardinality(Requests) /\ Cardinality(Finished) <= Cardinality(Requests)
  BY ConstantsAssumption, FS_Subset DEF Started, Finished
<1>2. /\ Cardinality(Started) \in Nat /\ Cardinality(Finished) \in Nat
      /\ Cardinality(Requests) \in Nat
  BY ConstantsAssumption, FS_Subset, FS_CardinalityType DEF Started, Finished
<1>3. clock \in Ticks
  BY <1>1, <1>2 DEF ClockCounts, Ticks
<1>4. \A t \in Nat : t <= clock => t \in Ticks
  BY <1>2, <1>3 DEF Ticks
<1>5. audit \subseteq [action : Actions, at : Ticks, end : Ticks]
  <2> SUFFICES ASSUME NEW e \in audit PROVE e \in [action : Actions, at : Ticks, end : Ticks]
    OBVIOUS
  <2>1. e \in [action : Actions, at : Nat, end : Nat] /\ clock \in Nat
    BY DEF Shape
  <2>2. e.at <= clock /\ e.end <= clock
    BY <2>1 DEF StampsPast
  <2>3. e.at \in Ticks /\ e.end \in Ticks
    BY <1>4, <2>1, <2>2
  <2> QED BY <2>1, <2>3
<1>6. mine \in [Requests -> [row : [status : Open \cup Closed], action : Actions, at : Ticks]]
  <2> SUFFICES ASSUME NEW q \in Requests
               PROVE  mine[q] \in [row : [status : Open \cup Closed], action : Actions, at : Ticks]
    BY DEF Shape
  <2>1. mine[q] \in [row : [status : Open \cup Closed], action : Actions, at : Nat]
    BY DEF Shape
  <2>2. mine[q].at \in Ticks
    BY <1>4, <2>1 DEF StampsPast
  <2> QED BY <2>1, <2>2
<1> QED BY <1>3, <1>5, <1>6 DEF Shape, TypeOK

-----------------------------------------------------------------------------
\* Type correctness for every set of requests; the clock never exceeds two
\* ticks a request.
THEOREM TypeInvariant == Spec => []TypeOK
<1>1. CaseInv /\ ClockCounts /\ [Next]_vars => CaseInv' /\ ClockCounts'
  BY CaseStep, ClockStep DEF CaseInv
<1>2. CaseInv /\ ClockCounts => TypeOK
  BY TypeFromCounts DEF CaseInv
<1> QED BY <1>1, <1>2, CaseInit, PTL DEF Spec

\* The guard of transition_case, for any number of requests interleaved in any
\* way: contradicting decisions are on record only if two of them overlapped.
THEOREM OnlyOverlapsContradictAlways == Spec => []OnlyOverlapsContradict
<1>1. CaseInv => OnlyOverlapsContradict
  BY DEF CaseInv
<1> QED BY <1>1, CaseInit, CaseStep, PTL DEF Spec

\* The audit trail tells the status, for any number of requests: if the
\* decision stamped last overlapped no other, the case has the status it led to.
THEOREM AuditTellsStatusAlways == Spec => []AuditTellsStatus
<1>1. CaseInv => AuditTellsStatus
  BY DEF CaseInv
<1> QED BY <1>1, CaseInit, CaseStep, PTL DEF Spec
=============================================================================
