---------------------------- MODULE AccountRules ----------------------------
(***************************************************************************)
(* How an account entry (camt.053/camt.054) is classified against the      *)
(* payment lifecycle it was linked to.  Pure operators.                    *)
(*                                                                         *)
(* A value is None when the message does not carry it.  Each kind of value *)
(* has its own normalisation: identifiers are compared after strip and     *)
(* upper, currencies after upper alone, accounts after upper without any   *)
(* blanks and hyphens.  Canon[kind] maps a spelling to what is compared.   *)
(***************************************************************************)
EXTENDS Integers

CONSTANTS
  None,     \* an absent value
  Canon     \* Canon[kind]: spelling -> what is compared; "id", "currency", "account"

\* The directions of an entry are values.
ASSUME DirectionsAreValues == None \notin {"CRDT", "DBIT"}

IdFields == {"uetr", "transaction_id", "end_to_end_id", "instruction_id",
             "account_servicer_reference"}
StrongIds == IdFields \ {"account_servicer_reference"}

Classifications ==
  {"RECONCILED", "POSSIBLE_RECONCILIATION", "UNMATCHED_ACCOUNT_ENTRY",
   "AMOUNT_MISMATCH", "CURRENCY_MISMATCH", "ACCOUNT_MISMATCH", "REVIEW_REQUIRED",
   "DUPLICATE_ACCOUNT_ENTRY"}

\* The classifications that open a case.
ExceptionStatuses ==
  {"AMOUNT_MISMATCH", "CURRENCY_MISMATCH", "ACCOUNT_MISMATCH", "DUPLICATE_ACCOUNT_ENTRY",
   "REVIEW_REQUIRED"}

Both(a, b) == a # None /\ b # None

Same(kind, a, b) == Both(a, b) /\ Canon[kind][a] = Canon[kind][b]

\* The direction the lifecycle leads one to expect on the account of the report.
ExpectedDirection(account, life) ==
  IF Same("account", account, life.creditor_account) THEN "CRDT"
  ELSE IF Same("account", account, life.debtor_account) THEN "DBIT"
  ELSE None

Evidence(entry, life) ==
  {f \in IdFields : Same("id", entry[f], life[f])}
    \cup {f \in {"amount"} : Both(entry.amount, life.amount) /\ entry.amount = life.amount}
    \cup {f \in {"currency"} : Same("currency", entry.currency, life.currency)}

\* An account known to differ from both accounts of the lifecycle is a conflict
\* only when no direction was expected or the entry states none.
Conflicts(entry, account, life) ==
  LET expected == ExpectedDirection(account, life)
      directed == Both(expected, entry.credit_debit)
  IN {c \in {"id"} : \E f \in IdFields : /\ Both(entry[f], life[f])
                                         /\ ~Same("id", entry[f], life[f])}
       \cup {c \in {"amount"} : Both(entry.amount, life.amount) /\ entry.amount # life.amount}
       \cup {c \in {"currency"} : Both(entry.currency, life.currency)
                                    /\ ~Same("currency", entry.currency, life.currency)}
       \cup {c \in {"direction"} : directed /\ entry.credit_debit # expected}
       \cup {c \in {"account"} : /\ ~directed
                                 /\ Both(account, life.creditor_account)
                                 /\ Both(account, life.debtor_account)
                                 /\ ~Same("account", account, life.creditor_account)
                                 /\ ~Same("account", account, life.debtor_account)}

ClassOfConflicts(conflicts) ==
  IF "currency" \in conflicts THEN "CURRENCY_MISMATCH"
  ELSE IF "amount" \in conflicts THEN "AMOUNT_MISMATCH"
  ELSE IF "account" \in conflicts THEN "ACCOUNT_MISMATCH"
  ELSE "REVIEW_REQUIRED"

ClassOfEvidence(evidence) ==
  LET strong == evidence \cap StrongIds # {}
      money  == {"amount", "currency"} \subseteq evidence
  IN IF strong /\ money THEN "RECONCILED"
     ELSE IF strong \/ money THEN "POSSIBLE_RECONCILIATION"
     ELSE "UNMATCHED_ACCOUNT_ENTRY"

\* Mutant: agreement on a strong identifier, amount and currency is decided first.
ClassifyEvidenceFirst(evidence, conflicts) ==
  IF ClassOfEvidence(evidence) = "RECONCILED" \/ conflicts = {}
  THEN ClassOfEvidence(evidence) ELSE ClassOfConflicts(conflicts)

Classify(evidence, conflicts) ==
  IF conflicts # {} THEN ClassOfConflicts(conflicts) ELSE ClassOfEvidence(evidence)

\* reconcile_account_entry.
ReconcileEntry(entry, account, life) ==
  Classify(Evidence(entry, life), Conflicts(entry, account, life))
=============================================================================
