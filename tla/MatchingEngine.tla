--------------------------- MODULE MatchingEngine ---------------------------
(***************************************************************************)
(* packages/matching_engine: how two match records are compared, scored    *)
(* and classified under a policy, and which records are compared at all.   *)
(* Pure operators.  ReconciliationRun takes the verdicts as given.         *)
(*                                                                         *)
(* A text is a token; Normal gives the normal form of the tokens that      *)
(* normalisation changes, None when nothing is left of one.  Amounts are   *)
(* in minor units, dates in days, similarities and weights whole numbers,  *)
(* and a score is in hundredths, as it is rounded.                         *)
(***************************************************************************)
EXTENDS Integers, Sequences, FiniteSets, FiniteSetsExt, Functions

CONSTANTS
    None,      \* an absent value (None or the empty string)
    Normal,    \* Normal[kind]: raw token -> normal form
    Similar,   \* Similar[{x, y}]: fuzzy similarity of two normal forms
    Prefix     \* first eight characters, for the references that are longer

Table(t, x, default) == IF x \in DOMAIN t THEN t[x] ELSE default

(* _FIELD_SPECS: how each field is compared. *)
Exact == {"transaction_id", "end_to_end_id", "debtor_account", "creditor_account",
          "debtor_agent", "creditor_agent", "currency", "country"}
Fuzzy == {"remittance_reference", "external_reference", "debtor_name", "creditor_name"}
Dates == {"booking_date", "value_date"}
Fields == Exact \cup Fuzzy \cup Dates \cup {"amount"}

(* _NORMALIZERS: the normaliser of each field; amounts and dates are typed. *)
Kind(f) ==
    CASE f \in {"transaction_id", "end_to_end_id"} -> "identifier"
      [] f \in {"debtor_account", "creditor_account"} -> "iban"
      [] f \in {"debtor_agent", "creditor_agent", "currency", "country"} -> "code"
      [] f \in {"remittance_reference", "external_reference"} -> "reference"
      [] f \in {"debtor_name", "creditor_name"} -> "name"
      [] OTHER -> "typed"

normalize(kind, v) == IF v = None \/ kind = "typed" THEN v ELSE Table(Normal[kind], v, v)

normalize_record(r) == [f \in Fields |-> normalize(Kind(f), r[f])]

-----------------------------------------------------------------------------
(* policy.py: the development baseline. *)

default_policy ==
    [weights |-> [f \in Fields |->
        CASE f = "transaction_id" -> 30
          [] f = "end_to_end_id" -> 25
          [] f \in {"debtor_account", "creditor_account"} -> 20
          [] f \in {"amount", "remittance_reference"} -> 15
          [] f \in {"currency", "external_reference", "debtor_name", "creditor_name"} -> 10
          [] OTHER -> 5],
     matched |-> 85, possible |-> 60, review |-> 40,
     date_tolerance |-> 3,
     amount_tolerance |-> None,
     critical |-> {"currency", "amount", "transaction_id", "debtor_account", "creditor_account"}]

-----------------------------------------------------------------------------
(* The comparison of one field. *)

Missing == [status |-> "MISSING", sim |-> 0]
Agrees == [status |-> "EXACT", sim |-> 100]
Differs == [status |-> "MISMATCH", sim |-> 0]
Verdict(ok) == IF ok THEN Agrees ELSE Differs

Abs(n) == IF n < 0 THEN -n ELSE n

_exact_result(a, b) == Verdict(a = b)

_amount_result(a, b, policy) ==
    Verdict(\/ a = b
            \/ /\ policy.amount_tolerance # None
               /\ Abs(a - b) * 100 <= Max({Abs(a), Abs(b), 1}) * policy.amount_tolerance)

_date_result(a, b, policy) == Verdict(Abs(a - b) <= policy.date_tolerance)

_sim(a, b) == Table(Similar, {a, b}, 0)

_fuzzy_result(a, b) ==
    IF a = b THEN Agrees
    ELSE [status |-> IF _sim(a, b) >= 85 THEN "EXACT" ELSE "MISMATCH", sim |-> _sim(a, b)]

FieldResult(f, a, b, policy) ==
    IF a = None \/ b = None THEN Missing
    ELSE IF f \in Exact THEN _exact_result(a, b)
    ELSE IF f \in Dates THEN _date_result(a, b, policy)
    ELSE IF f \in Fuzzy THEN _fuzzy_result(a, b)
    ELSE _amount_result(a, b, policy)

-----------------------------------------------------------------------------
(* The verdict on a pair. *)

NAME_MISMATCH_THRESHOLD == 70

_critical_conflicts(results, policy) ==
    {f \in Fields : /\ results[f].status = "MISMATCH"
                    /\ \/ f \in policy.critical
                       \/ /\ f \in {"debtor_name", "creditor_name"}
                          /\ results[f].sim < NAME_MISMATCH_THRESHOLD}

Compared(results, policy) ==
    {f \in Fields : policy.weights[f] > 0 /\ results[f].status # "MISSING"}

(* round(weighted / total_weight, 2), over the fields both records carry. *)
_score(results, policy) ==
    LET fields == Compared(results, policy)
        total == SumFunctionOnSet(policy.weights, fields)
        weighted == SumFunctionOnSet([f \in fields |-> policy.weights[f] * results[f].sim], fields)
    IN  IF fields = {} THEN 0 ELSE (200 * weighted + total) \div (2 * total)

\* Mutant: the two verdicts on a conflict are swapped.
_classify_swapped(score, conflicts, policy) ==
    IF conflicts # {}
    THEN IF score < 100 * policy.review THEN "REVIEW_REQUIRED" ELSE "UNMATCHED"
    ELSE IF score >= 100 * policy.matched THEN "MATCHED"
    ELSE IF score >= 100 * policy.possible THEN "POSSIBLE_MATCH"
    ELSE IF score >= 100 * policy.review THEN "REVIEW_REQUIRED" ELSE "UNMATCHED"

_classify(score, conflicts, policy) ==
    IF conflicts # {}
    THEN IF score >= 100 * policy.review THEN "REVIEW_REQUIRED" ELSE "UNMATCHED"
    ELSE IF score >= 100 * policy.matched THEN "MATCHED"
    ELSE IF score >= 100 * policy.possible THEN "POSSIBLE_MATCH"
    ELSE IF score >= 100 * policy.review THEN "REVIEW_REQUIRED" ELSE "UNMATCHED"

evaluate_pair(a, b, policy) ==
    LET na == normalize_record(a)
        nb == normalize_record(b)
        results == [f \in Fields |-> FieldResult(f, na[f], nb[f], policy)]
        conflicts == _critical_conflicts(results, policy)
        score == _score(results, policy)
    IN  [classification |-> _classify(score, conflicts, policy), score |-> score,
         conflicts |-> conflicts, results |-> results]

-----------------------------------------------------------------------------
(* Narrowing: the candidates a source record is compared with. *)

DEFAULT_DATE_WINDOW_DAYS == 7
DEFAULT_AMOUNT_PCT == 20

FirstOf(a, b) == IF a # None THEN a ELSE b
PrefixOf(ref) == LET n == normalize("reference", ref) IN Table(Prefix, n, n)

(* A tolerance of 0 means no window.  The bounds are in hundredths. *)
narrowing_criteria(r, policy) ==
    LET tolerance == IF policy.amount_tolerance = None THEN DEFAULT_AMOUNT_PCT
                     ELSE policy.amount_tolerance
    IN  [currency |-> r.currency,
         windowed |-> r.amount # None /\ tolerance # 0,
         amount_min |-> IF r.amount = None THEN None ELSE r.amount * (100 - tolerance),
         amount_max |-> IF r.amount = None THEN None ELSE r.amount * (100 + tolerance),
         dates |-> {f \in Dates : r[f] # None}, day |-> [f \in Dates |-> r[f]],
         reference_prefix |-> PrefixOf(FirstOf(r.remittance_reference, r.external_reference)),
         account |-> normalize("iban", FirstOf(r.debtor_account, r.creditor_account))]

\* Mutant: the bounds of the window are excluded.
InWindow_strict(amount, crit) ==
    crit.amount_min < 100 * amount /\ 100 * amount < crit.amount_max

InWindow(amount, crit) == crit.amount_min <= 100 * amount /\ 100 * amount <= crit.amount_max

(* Currencies are compared as written, accounts without blanks and hyphens. *)
_candidate_matches(c, crit) ==
    /\ crit.currency # None /\ c.currency # None => c.currency = crit.currency
    /\ crit.windowed /\ c.amount # None => InWindow(c.amount, crit)
    /\ crit.dates # {} /\ (\E f \in Dates : c[f] # None) =>
          \E f \in crit.dates : c[f] # None /\ Abs(c[f] - crit.day[f]) <= DEFAULT_DATE_WINDOW_DAYS
    /\ crit.reference_prefix # None =>
          PrefixOf(FirstOf(c.remittance_reference, c.external_reference)) = crit.reference_prefix
    /\ crit.account # None =>
          normalize("iban", FirstOf(c.debtor_account, c.creditor_account)) = crit.account

=============================================================================
