---------------------------- MODULE IsoIngestion ----------------------------
(***************************************************************************)
(* POST /api/v1/iso/analyze: payment messages (pain.001, pacs.008,         *)
(* pacs.009), status reports (pacs.002) and account reports (camt.053,     *)
(* camt.054) of one organization, and the lifecycles, events, account      *)
(* entries, reconciliations and cases they leave in the database.          *)
(*                                                                         *)
(* A request commits many times; each commit, and each read another        *)
(* request can invalidate, is one action.  A request may die between any   *)
(* two of them, and a client that got no answer sends the message again as *)
(* another request with the same Message.                                  *)
(*                                                                         *)
(* Lifecycle rows never get a uetr, an original_message_id or accounts:    *)
(* no payment profile carries the first two and _profile_from_dict drops   *)
(* the accounts, so those columns are None here.                           *)
(***************************************************************************)
EXTENDS AccountRules, Sequences, FiniteSets, OrmSession

CONSTANTS
  Requests,     \* requests clients make
  Message,      \* what each request submits
  Body,         \* kind and items of each message
  MaxInFlight,  \* requests that may be under way at the same time
  MaxFaults     \* bound: requests that die

Kinds == {"payment", "status", "camt.053", "camt.054"}
Kind(q)  == Body[Message[q]].kind
Items(q) == Body[Message[q]].items
IsReport(q) == Kind(q) \in {"camt.053", "camt.054"}
Slots == UNION {{q} \X DOMAIN Items(q) : q \in Requests}

\* The hash of the entry covers its identifiers and references, amount, currency
\* and direction.
Identity(i) ==
  [f \in IdFields \cup {"entry_reference", "amount", "currency", "credit_debit"} |-> i[f]]

\* account_entries rows: "none" until the entry is classified, life 0 for no link.
AccountEntry ==
  [identity : {Identity(Items(s[1])[s[2]]) : s \in {t \in Slots : IsReport(t[1])}},
   report : Kinds, status : Classifications \cup {"none"}, life : Nat]

ASSUME ConstantsAssumption ==
  /\ IsFiniteSet(Requests)
  /\ \A q \in Requests : Message[q] \in DOMAIN Body /\ Kind(q) \in Kinds
  /\ \A q \in Requests : Items(q) \in Seq({Items(q)[i] : i \in DOMAIN Items(q)})
  /\ None \notin AccountEntry
  /\ MaxInFlight \in Nat \ {0}
  /\ MaxFaults \in Nat

VARIABLES
  messages,    \* requests that stored their iso_messages row
  reports,     \* requests that stored their account_reports row and its balances
  lifecycles,  \* payment_lifecycles rows, in order of creation
  events,      \* payment_lifecycle_events rows
  entries,     \* account_entries row of each item, or None
  recs,        \* account_reconciliations rows
  cases,       \* account exception cases: identity -> classification
  pc,          \* step of each request
  item,        \* item each request is at
  life,        \* lifecycle the request loaded for its item, 0 if none
  known,       \* current_status of the lifecycles in the request's session
  twin,        \* entry of the same identity the request found, or None
  looked,      \* history: lifecycles there were when the request last looked
  faults

stored == <<messages, reports, lifecycles, events, entries, recs, cases>>
session == <<life, known, twin, looked>>
vars == <<stored, pc, item, session, faults>>

Init ==
  /\ messages = {}
  /\ reports = {}
  /\ lifecycles = <<>>
  /\ events = {}
  /\ entries = [s \in Slots |-> None]
  /\ recs = {}
  /\ cases = <<>>
  /\ pc = [q \in Requests |-> "new"]
  /\ item = [q \in Requests |-> 1]
  /\ life = [q \in Requests |-> 0]
  /\ known = [q \in Requests |-> <<>>]
  /\ twin = [q \in Requests |-> None]
  /\ looked = [q \in Requests |-> 0]
  /\ faults = 0

Ended    == {"done", "failed"}
InFlight == {q \in Requests : pc[q] \notin Ended \cup {"new"}}
Current(q) == Items(q)[item[q]]
Slot(q)    == <<q, item[q]>>
Goto(q, step) == pc' = [pc EXCEPT ![q] = step]
At(q, step)   == pc[q] = step

\* On to the next item, or to the answer.
NextItem(q) ==
  /\ item' = [item EXCEPT ![q] = @ + 1]
  /\ Goto(q, IF item[q] < Len(Items(q)) THEN "item" ELSE "done")

\* The hash of a payment covers the time it was received, that of the other
\* messages only their content.
Hash(q) == IF Kind(q) = "payment" THEN <<Message[q], q>> ELSE <<Message[q]>>

\* Mutant: the lookup never finds anything.
FindByHashNever(q) == FALSE

FindByHash(q) == \E r \in messages : Hash(r) = Hash(q)

\* analyze_iso_message: parse, look the hash up, answer at once if it is known.
Analyze(q) ==
  /\ At(q, "new")
  /\ Cardinality(InFlight) < MaxInFlight
  /\ Goto(q, IF FindByHash(q) THEN "done" ELSE "unseen")
  /\ UNCHANGED <<stored, item, session, faults>>

PersistMessage(q) ==
  /\ At(q, "unseen")
  /\ messages' = messages \cup {q}
  /\ Goto(q, IF IsReport(q) THEN "report" ELSE IF Items(q) = <<>> THEN "done" ELSE "item")
  /\ UNCHANGED <<reports, lifecycles, events, entries, recs, cases, item, session, faults>>

-----------------------------------------------------------------------------
(* Payments and status reports.                                            *)

\* The columns a lifecycle is looked up by: any one that is equal will do.
LookupFields == {"transaction_id", "end_to_end_id", "instruction_id"}

\* Mutant: only the transaction id is looked up.
MatchesByTransaction(i, l) == i.transaction_id # None /\ i.transaction_id = l.transaction_id

Matches(i, l) == \E f \in LookupFields : i[f] # None /\ i[f] = l[f]

Matching(i) == {n \in DOMAIN lifecycles : Matches(i, lifecycles[n])}

\* A row the session already holds keeps the attribute values it was loaded with.
Remember(held, n, status) ==
  [m \in DOMAIN held \cup {n} |-> IF m \in DOMAIN held THEN held[m] ELSE status]

\* first() of an unordered SELECT: any row that matches.
Load(q, n) ==
  /\ life' = [life EXCEPT ![q] = n]
  /\ known' = [known EXCEPT ![q] = Remember(@, n, lifecycles[n].status)]

FindLifecycle(q) ==
  /\ At(q, "item")
  /\ Kind(q) \in {"payment", "status"}
  /\ \/ \E n \in Matching(Current(q)) : Load(q, n) /\ Goto(q, "correlated") /\ UNCHANGED item
     \/ /\ Matching(Current(q)) = {}
        /\ IF Kind(q) = "payment"
           THEN Goto(q, "absent") /\ UNCHANGED item
           ELSE NextItem(q)                       \* UNRESOLVED
        /\ UNCHANGED <<life, known>>
  /\ looked' = [looked EXCEPT ![q] = Len(lifecycles)]
  /\ UNCHANGED <<stored, twin, faults>>

\* The columns a payment gives its lifecycle.
PaymentColumns == LookupFields \cup {"amount", "currency"}

\* Mutant: a new lifecycle is taken for accepted.
NewLifecycleAccepted(i) ==
  [f \in PaymentColumns \cup {"status"} |-> IF f = "status" THEN "ACCEPTED" ELSE i[f]]

\* A lifecycle starts out UNKNOWN.
NewLifecycle(i) ==
  [f \in PaymentColumns \cup {"status"} |-> IF f = "status" THEN "UNKNOWN" ELSE i[f]]

CreateLifecycle(q) ==
  /\ At(q, "absent")
  /\ lifecycles' = Append(lifecycles, NewLifecycle(Current(q)))
  /\ life' = [life EXCEPT ![q] = Len(lifecycles) + 1]
  /\ known' = [known EXCEPT ![q] = Remember(@, Len(lifecycles) + 1, "UNKNOWN")]
  /\ Goto(q, "correlated")
  /\ UNCHANGED <<messages, reports, events, entries, recs, cases, item, twin, looked, faults>>

\* The one status a status report is given: that of its first transaction.
NormalizedStatus(q) == IF Kind(q) = "status" THEN Items(q)[1].status ELSE "UNKNOWN"

AddEvent(q) ==
  /\ At(q, "correlated")
  /\ events' = events \cup {[life |-> life[q], slot |-> Slot(q), type |-> Kind(q),
                             status |-> NormalizedStatus(q)]}
  /\ IF Kind(q) = "status" THEN Goto(q, "evented") /\ UNCHANGED item ELSE NextItem(q)
  /\ UNCHANGED <<messages, reports, lifecycles, entries, recs, cases, session, faults>>

SetStatus(q) ==
  LET loaded == [status |-> known[q][life[q]]]
      wanted == [status |-> NormalizedStatus(q)]
      row    == [status |-> lifecycles[life[q]].status]
  IN /\ At(q, "evented")
     /\ lifecycles' = [lifecycles EXCEPT ![life[q]].status = Flush(row, wanted, loaded).status]
     /\ known' = [known EXCEPT ![q][life[q]] = NormalizedStatus(q)]
     /\ NextItem(q)
     /\ UNCHANGED <<messages, reports, events, entries, recs, cases, life, twin, looked, faults>>

-----------------------------------------------------------------------------
(* Account reports.                                                        *)

PersistReport(q) ==
  /\ At(q, "report")
  /\ reports' = reports \cup {q}
  /\ Goto(q, IF Items(q) = <<>> THEN "done" ELSE "item")
  /\ UNCHANGED <<messages, lifecycles, events, entries, recs, cases, item, session, faults>>

EntrySlots == {s \in Slots : entries[s] # None}
Twins(q) == {s \in EntrySlots : entries[s].identity = Identity(Current(q))}

\* Mutant: an entry of the same identity is not looked for.
FindEntryNever(q) ==
  /\ At(q, "item")
  /\ IsReport(q)
  /\ twin' = [twin EXCEPT ![q] = None]
  /\ Goto(q, "identified")
  /\ UNCHANGED <<stored, item, life, known, looked, faults>>

\* The row is read fresh: the session holds no row of an earlier item, as no
\* variable of _ingest_entry outlives the item.
FindEntry(q) ==
  /\ At(q, "item")
  /\ IsReport(q)
  /\ \/ \E s \in Twins(q) : twin' = [twin EXCEPT ![q] = entries[s]]
     \/ Twins(q) = {} /\ twin' = [twin EXCEPT ![q] = None]
  /\ Goto(q, "identified")
  /\ UNCHANGED <<stored, item, life, known, looked, faults>>

InsertEntry(q) ==
  /\ At(q, "identified")
  /\ entries' = [entries EXCEPT ![Slot(q)] =
       [identity |-> Identity(Current(q)), report |-> Kind(q), status |-> "none", life |-> 0]]
  /\ Goto(q, IF twin[q] = None THEN "inserted" ELSE "repeated")
  /\ UNCHANGED <<messages, reports, lifecycles, events, recs, cases, item, session, faults>>

\* The same identity in the same kind of report is a duplicate; in the other
\* kind it confirms the event, whatever became of the first entry.
MarkTwin(q) ==
  LET duplicate == twin[q].report = Kind(q) IN
  /\ At(q, "repeated")
  /\ entries' = [entries EXCEPT
       ![Slot(q)].status = IF duplicate THEN "DUPLICATE_ACCOUNT_ENTRY" ELSE "RECONCILED",
       ![Slot(q)].life = twin[q].life]
  /\ IF duplicate THEN Goto(q, "exception") /\ UNCHANGED item
     ELSE IF twin[q].life # 0 THEN Goto(q, "confirmed") /\ UNCHANGED item
     ELSE NextItem(q)
  /\ UNCHANGED <<messages, reports, lifecycles, events, recs, cases, session, faults>>

ConfirmEvent(q) ==
  /\ At(q, "confirmed")
  /\ events' = events \cup {[life |-> twin[q].life, slot |-> Slot(q),
                             type |-> "ACCOUNT_EVENT_CONFIRMED", status |-> "BOOK"]}
  /\ NextItem(q)
  /\ UNCHANGED <<messages, reports, lifecycles, entries, recs, cases, session, faults>>

FindLifecycleForEntry(q) ==
  /\ At(q, "inserted")
  /\ \/ \E n \in Matching(Current(q)) : Load(q, n)
     \/ Matching(Current(q)) = {} /\ life' = [life EXCEPT ![q] = 0] /\ UNCHANGED known
  /\ Goto(q, "located")
  /\ UNCHANGED <<stored, item, twin, looked, faults>>

\* The context reconcile_account_entry is given.
Context(l) ==
  [f \in IdFields \cup PaymentColumns \cup {"debtor_account", "creditor_account"} |->
     IF f \in PaymentColumns THEN l[f] ELSE None]

Verdict(i, n) ==
  IF n = 0 THEN "UNMATCHED_ACCOUNT_ENTRY" ELSE ReconcileEntry(i, None, Context(lifecycles[n]))

Reconcile(q) ==
  /\ At(q, "located")
  /\ entries' = [entries EXCEPT ![Slot(q)].status = Verdict(Current(q), life[q]),
                                ![Slot(q)].life = life[q]]
  /\ Goto(q, "reconciled")
  /\ UNCHANGED <<messages, reports, lifecycles, events, recs, cases, item, session, faults>>

PersistReconciliation(q) ==
  /\ At(q, "reconciled")
  /\ recs' = recs \cup {[slot |-> Slot(q), life |-> life[q],
                         classification |-> Verdict(Current(q), life[q])]}
  /\ IF life[q] = 0 THEN NextItem(q) ELSE Goto(q, "recorded") /\ UNCHANGED item
  /\ UNCHANGED <<messages, reports, lifecycles, events, entries, cases, session, faults>>

AddLifecycleEvent(q) ==
  /\ At(q, "recorded")
  /\ events' = events \cup {[life |-> life[q], slot |-> Slot(q), type |-> "RECORDED",
                             status |-> "BOOK"]}
  /\ IF Verdict(Current(q), life[q]) \in ExceptionStatuses
     THEN Goto(q, "exception") /\ UNCHANGED item
     ELSE NextItem(q)
  /\ UNCHANGED <<messages, reports, lifecycles, entries, recs, cases, session, faults>>

\* _ensure_case: look for the case of this identity, then insert it.
FindCase(q) ==
  /\ At(q, "exception")
  /\ IF Identity(Current(q)) \in DOMAIN cases THEN NextItem(q)
     ELSE Goto(q, "caseless") /\ UNCHANGED item
  /\ UNCHANGED <<stored, session, faults>>

\* Mutant: the case row is added to the session but not committed.
InsertCaseUncommitted(q) ==
  /\ At(q, "caseless")
  /\ NextItem(q)
  /\ UNCHANGED <<stored, session, faults>>

\* case_id is unique: the second of two concurrent inserts raises.
InsertCase(q) ==
  /\ At(q, "caseless")
  /\ IF Identity(Current(q)) \in DOMAIN cases
     THEN Goto(q, "failed") /\ UNCHANGED <<cases, item>>
     ELSE /\ cases' = [c \in DOMAIN cases \cup {Identity(Current(q))} |->
                        IF c \in DOMAIN cases THEN cases[c] ELSE entries[Slot(q)].status]
          /\ NextItem(q)
  /\ UNCHANGED <<messages, reports, lifecycles, events, entries, recs, session, faults>>

\* The process dies or the database refuses a statement: what was committed stays.
Die(q) ==
  /\ q \in InFlight
  /\ faults < MaxFaults
  /\ faults' = faults + 1
  /\ Goto(q, "failed")
  /\ UNCHANGED <<stored, item, session>>

Next ==
  \E q \in Requests :
    \/ Analyze(q) \/ PersistMessage(q)
    \/ FindLifecycle(q) \/ CreateLifecycle(q) \/ AddEvent(q) \/ SetStatus(q)
    \/ PersistReport(q) \/ FindEntry(q) \/ InsertEntry(q) \/ MarkTwin(q) \/ ConfirmEvent(q)
    \/ FindLifecycleForEntry(q) \/ Reconcile(q) \/ PersistReconciliation(q)
    \/ AddLifecycleEvent(q) \/ FindCase(q) \/ InsertCase(q)
    \/ Die(q)

Spec == Init /\ [][Next]_vars

-----------------------------------------------------------------------------
\* A status report or account report that is sent again, after an answer or
\* after a crash, leaves no second trace: all events and entries of a message
\* hash come from one request.
AppliedOnce ==
  /\ \A e, f \in events : Hash(e.slot[1]) = Hash(f.slot[1]) => e.slot[1] = f.slot[1]
  /\ \A s, t \in EntrySlots : Hash(s[1]) = Hash(t[1]) => s[1] = t[1]

\* However many requests look for the lifecycle of a payment at once, a second
\* lifecycle for an identifier comes only from a request that had looked before
\* the first was stored: a payment that is known is never split.
OnlyRacesSplit ==
  [][\A n \in DOMAIN lifecycles' \ DOMAIN lifecycles, m \in DOMAIN lifecycles :
       (\E f \in LookupFields : lifecycles[m][f] # None /\ lifecycles[m][f] = lifecycles'[n][f])
         => \E q \in Requests : At(q, "absent") /\ ~At(q, "absent")' /\ looked[q] < m]_vars

\* One account event, whichever reports carry it and however often, is
\* reconciled against the payments once.
ReconciledOnce ==
  \A r, t \in recs : entries[r.slot].identity = entries[t.slot].identity => r = t

\* A status was given to a lifecycle only after the event that reports it was
\* stored, whatever request or crash comes in between.
StatusHasEvent ==
  \A n \in DOMAIN lifecycles :
    lifecycles[n].status # "UNKNOWN" =>
      \E e \in events : e.life = n /\ e.type = "status" /\ e.status = lifecycles[n].status

\* _ensure_case, the last of five commits: an exception has the case of its
\* identity, unless its request is still at that entry or ended there; and the
\* case stands for an entry of that identity with the classification it names.
CaseForException ==
  /\ \A s \in EntrySlots :
       entries[s].status \in ExceptionStatuses =>
         \/ entries[s].identity \in DOMAIN cases
         \/ item[s[1]] = s[2] /\ pc[s[1]] \notin {"item", "done"}
  /\ \A c \in DOMAIN cases : \E s \in EntrySlots :
       /\ entries[s].identity = c /\ entries[s].status = cases[c]
       /\ cases[c] \in ExceptionStatuses

-----------------------------------------------------------------------------
(* What the documentation says and the code does not do.                   *)

\* An out-of-order status report "resolves when the parent arrives".
StatusResolves ==
  (\A q \in Requests : At(q, "done")) =>
    \A s \in Slots :
      Kind(s[1]) = "status" /\ Matching(Items(s[1])[s[2]]) # {} =>
        \E e \in events : e.slot = s

\* "Amount mismatches are never silently reconciled."
MismatchNeverReconciled ==
  \A s \in EntrySlots :
    entries[s].status = "RECONCILED" /\ entries[s].life # 0 =>
      entries[s].identity.amount = lifecycles[entries[s].life].amount

\* "Create a single PaymentCase per (entry, classification) exception": an
\* exception that its request is past has a case of its own classification.
CasePerClassification ==
  \A s \in EntrySlots :
    entries[s].status \in ExceptionStatuses /\ item[s[1]] > s[2] =>
      entries[s].identity \in DOMAIN cases /\ cases[entries[s].identity] = entries[s].status
=============================================================================
