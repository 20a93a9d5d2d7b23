---------------------------- MODULE CaseWorkflow ----------------------------
(***************************************************************************)
(* Operator actions on one payment case.  transition_case reads the case,  *)
(* decides, and commits the new status together with a CaseAction and an   *)
(* AuditEvent; nothing locks the row in between.  The time stamp of the    *)
(* audit event is taken when the decision is made, before the commit, and  *)
(* the audit trail is read back in the order of the stamps.                *)
(***************************************************************************)
EXTENDS Integers, FiniteSets, OrmSession

CONSTANTS
  Requests,     \* requests operators make on the case
  MaxInFlight   \* requests that may be between their read and their commit

ASSUME ConstantsAssumption == IsFiniteSet(Requests) /\ MaxInFlight \in Nat \ {0}

VARIABLES
  case,    \* the payment_cases row
  audit,   \* committed CaseAction/AuditEvent pairs: stamp "at", commit time "end"
  clock,   \* time, one tick per decision or commit
  pc,      \* step of each request
  mine     \* what each request read and decided

vars == <<case, audit, clock, pc, mine>>

Allowed == [approve |-> "APPROVED", reject |-> "REJECTED", close |-> "CLOSED"]
Actions == DOMAIN Allowed
Closed  == {"APPROVED", "REJECTED", "CLOSED"}
Open    == {"NEW", "ANALYZED", "REVIEW_REQUIRED"}

NoDecision == [row |-> [status |-> "NEW"], action |-> "approve", at |-> 0]

Init ==
  /\ case \in [status : Open]
  /\ audit = {}
  /\ clock = 0
  /\ pc = [q \in Requests |-> "new"]
  /\ mine = [q \in Requests |-> NoDecision]

InFlight == {q \in Requests : pc[q] = "accepted"}

\* Mutant: only a CLOSED case counts as closed.
RefusedIfClosed(row, action) == row.status = "CLOSED" /\ action # "close"

\* The guard of transition_case: a closed case only accepts its own action again.
Refused(row, action) == row.status \in Closed /\ row.status # Allowed[action]

Decide(q, action) ==
  /\ pc[q] = "new"
  /\ Cardinality(InFlight) < MaxInFlight
  /\ clock' = clock + 1
  /\ IF Refused(case, action)
     THEN pc' = [pc EXCEPT ![q] = "refused"] /\ UNCHANGED mine
     ELSE /\ pc' = [pc EXCEPT ![q] = "accepted"]
          /\ mine' = [mine EXCEPT ![q] = [row |-> case, action |-> action, at |-> clock']]
  /\ UNCHANGED <<case, audit>>

\* Mutant: the action is stored in place of the status it leads to.
CommitRawAction(q) ==
  LET d == mine[q] IN
  /\ pc[q] = "accepted"
  /\ clock' = clock + 1
  /\ case' = Flush(case, [d.row EXCEPT !.status = d.action], d.row)
  /\ audit' = audit \cup {[action |-> d.action, at |-> d.at, end |-> clock']}
  /\ pc' = [pc EXCEPT ![q] = "done"]
  /\ UNCHANGED mine

\* Mutant: the new status is not part of the transaction.
CommitAuditOnly(q) ==
  LET d == mine[q] IN
  /\ pc[q] = "accepted"
  /\ clock' = clock + 1
  /\ audit' = audit \cup {[action |-> d.action, at |-> d.at, end |-> clock']}
  /\ pc' = [pc EXCEPT ![q] = "done"]
  /\ UNCHANGED <<case, mine>>

Commit(q) ==
  LET d == mine[q] IN
  /\ pc[q] = "accepted"
  /\ clock' = clock + 1
  /\ case' = Flush(case, [d.row EXCEPT !.status = Allowed[d.action]], d.row)
  /\ audit' = audit \cup {[action |-> d.action, at |-> d.at, end |-> clock']}
  /\ pc' = [pc EXCEPT ![q] = "done"]
  /\ UNCHANGED mine

\* The commit fails or the process dies: the transaction is rolled back.
Fail(q) ==
  /\ pc[q] = "accepted"
  /\ pc' = [pc EXCEPT ![q] = "failed"]
  /\ UNCHANGED <<case, audit, clock, mine>>

Next == \E q \in Requests : (\E a \in Actions : Decide(q, a)) \/ Commit(q) \/ Fail(q)

Spec == Init /\ [][Next]_vars

-----------------------------------------------------------------------------
Ticks == 0..2 * Cardinality(Requests)

TypeOK ==
  /\ case \in [status : Open \cup Closed]
  /\ audit \subseteq [action : Actions, at : Ticks, end : Ticks]
  /\ clock \in Ticks
  /\ pc \in [Requests -> {"new", "accepted", "refused", "done", "failed"}]
  /\ mine \in [Requests -> [row : [status : Open \cup Closed], action : Actions,
                            at : Ticks]]

\* Two decisions one of which was taken before the other was committed, and
\* the other way round.
Overlap(e, f) == e.at < f.end /\ f.at < e.end
Alone(e) == \A f \in audit \ {e} : ~Overlap(e, f)

Contradict(e, f) == Allowed[e.action] # Allowed[f.action]

\* A closed case accepts no other decision: contradicting decisions are on
\* record only if two of them came from overlapping requests.
OnlyOverlapsContradict ==
  (\E e, f \in audit : Contradict(e, f)) =>
     \E e, f \in audit : Contradict(e, f) /\ Overlap(e, f)

\* The audit trail, read by time stamp as the case page reads it, ends with the
\* action that gave the case its status, if no other decision overlapped it.
AuditTellsStatus ==
  \A e \in audit :
    (\A f \in audit : f.at <= e.at) /\ Alone(e) => case.status = Allowed[e.action]

=============================================================================
