---------------------------- MODULE MissingEvents ----------------------------
(***************************************************************************)
(* detect_missing_account_events, run by POST /account-reconciliation/run  *)
(* or by the account_reconcile task, beside the ingestion of messages: a   *)
(* sweep selects the accepted payments older than a cutoff and, one after  *)
(* the other, looks for an account entry, looks for the case and inserts   *)
(* it.  A retry of the task is one more sweep.                             *)
(***************************************************************************)
EXTENDS IsoIngestion

CONSTANT Sweeps   \* sweeps that are made

VARIABLES
  missing,   \* lifecycles that have a MISSING_ACCOUNT_EVENT case
  sweep,     \* step of each sweep
  selected,  \* lifecycles each sweep selected
  todo,      \* those it has not been through yet
  subject,   \* the lifecycle it is at
  onFile     \* history: lifecycles that had an account entry when it began

sweepVars == <<missing, sweep, selected, todo, subject, onFile>>

InitMonitored ==
  /\ Init
  /\ missing = {}
  /\ sweep = [w \in Sweeps |-> "new"]
  /\ selected = [w \in Sweeps |-> {}]
  /\ todo = [w \in Sweeps |-> {}]
  /\ subject = [w \in Sweeps |-> 0]
  /\ onFile = [w \in Sweeps |-> {}]

\* Lifecycles some account entry is linked to, whatever its status.
WithEntry == {entries[s].life : s \in EntrySlots} \ {0}

SweepTo(w, step) == sweep' = [sweep EXCEPT ![w] = step]

\* The cutoff separates the older lifecycles from the newer ones.
SelectAccepted(w) ==
  /\ sweep[w] = "new"
  /\ \E n \in 0 .. Len(lifecycles) :
       LET old == {m \in 1 .. n : lifecycles[m].status = "ACCEPTED"} IN
       IF old = {}
       THEN SweepTo(w, "ended") /\ UNCHANGED <<selected, todo, onFile>>
       ELSE /\ SweepTo(w, "loop")
            /\ selected' = [selected EXCEPT ![w] = old]
            /\ todo' = [todo EXCEPT ![w] = old]
            /\ onFile' = [onFile EXCEPT ![w] = WithEntry]
  /\ UNCHANGED <<vars, missing, subject>>

\* Mutant: only a reconciled entry counts as the event.
FindAccountEventReconciled(w) ==
  /\ sweep[w] = "loop"
  /\ \E n \in todo[w] :
       /\ todo' = [todo EXCEPT ![w] = @ \ {n}]
       /\ IF \E s \in EntrySlots : entries[s].life = n /\ entries[s].status = "RECONCILED"
          THEN UNCHANGED <<sweep, subject>>
          ELSE subject' = [subject EXCEPT ![w] = n] /\ SweepTo(w, "unseen")
  /\ UNCHANGED <<vars, missing, selected, onFile>>

FindAccountEvent(w) ==
  /\ sweep[w] = "loop"
  /\ \E n \in todo[w] :
       /\ todo' = [todo EXCEPT ![w] = @ \ {n}]
       /\ IF n \in WithEntry THEN UNCHANGED <<sweep, subject>>
          ELSE subject' = [subject EXCEPT ![w] = n] /\ SweepTo(w, "unseen")
  /\ UNCHANGED <<vars, missing, selected, onFile>>

FindMissingCase(w) ==
  /\ sweep[w] = "unseen"
  /\ SweepTo(w, IF subject[w] \in missing THEN "loop" ELSE "caseless")
  /\ UNCHANGED <<vars, missing, selected, todo, subject, onFile>>

\* The sweep is over, with an answer or without: its session is gone.
Leave(w) ==
  /\ SweepTo(w, "ended")
  /\ selected' = [selected EXCEPT ![w] = {}]
  /\ todo' = [todo EXCEPT ![w] = {}]
  /\ subject' = [subject EXCEPT ![w] = 0]
  /\ onFile' = [onFile EXCEPT ![w] = {}]

\* case_id is unique: the later of two concurrent inserts raises and ends its sweep.
InsertMissingCase(w) ==
  /\ sweep[w] = "caseless"
  /\ missing' = missing \cup {subject[w]}
  /\ IF subject[w] \in missing THEN Leave(w)
     ELSE SweepTo(w, "loop") /\ UNCHANGED <<selected, todo, subject, onFile>>
  /\ UNCHANGED vars

Answer(w) ==
  /\ sweep[w] = "loop"
  /\ todo[w] = {}
  /\ Leave(w)
  /\ UNCHANGED <<vars, missing>>

NextMonitored ==
  \/ Next /\ UNCHANGED sweepVars
  \/ \E w \in Sweeps :
       \/ SelectAccepted(w) \/ FindAccountEvent(w) \/ FindMissingCase(w)
       \/ InsertMissingCase(w) \/ Answer(w)

SpecMonitored == InitMonitored /\ [][NextMonitored]_<<vars, sweepVars>>

-----------------------------------------------------------------------------
\* What a sweep reports is right although messages and other sweeps go on
\* meanwhile: when it answers, every payment it selected has a case or an
\* account entry, and it opens a case only for a payment that had no entry when
\* it began.
MissingIsMissing ==
  [][\A w \in Sweeps :
       /\ Answer(w) => selected[w] \subseteq missing \cup WithEntry
       /\ InsertMissingCase(w) => missing' \ missing \subseteq selected[w] \ onFile[w]
    ]_<<vars, sweepVars>>

=============================================================================
