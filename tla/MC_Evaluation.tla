--------------------------- MODULE MC_Evaluation ----------------------------
(***************************************************************************)
(* The deterministic algorithms, each asked every question of a bounded    *)
(* set: an account entry against a lifecycle, two match records under a    *)
(* policy, a match record and an incomplete copy of it, a mapping          *)
(* definition on a payload.  Values are possibly absent and spelled in     *)
(* different ways.                                                         *)
(***************************************************************************)
EXTENDS AccountRules, Sequences, FiniteSets, SequencesExt, TLC

CONSTANTS Normal, Similar, Prefix,               \* of MatchingEngine
          Transforms, MinorUnits, CurrencyOf     \* of MappingEngine

\* Similarities are in per cent, whatever they are of.
ASSUME SimilarIsPercent == \A p \in DOMAIN Similar : Similar[p] \in 0..100

VARIABLES question, answer

vars == <<question, answer>>

-----------------------------------------------------------------------------
(* Account entries. *)

\* One spelling may be another of the same value under one normalisation and
\* not under the others: a trailing blank is that of an identifier ("X1 ") but
\* not of a currency ("EUR "), a hyphen is left out of an account only.
Spelling ==
  [id |-> [v \in {"x1", "X1 ", "x-1", "x2"} |-> IF v = "X1 " THEN "x1" ELSE v],
   currency |-> [v \in {"eur", "EUR", "EUR "} |-> IF v = "EUR" THEN "eur" ELSE v],
   account |-> [v \in {"a1", "A-1", "a2", "a 2", "a3"} |->
                  CASE v = "A-1" -> "a1" [] v = "a 2" -> "a2" [] OTHER -> v]]

\* Three of the five identifiers vary; the other two take the same code path.
Entries ==
  [uetr : {None}, instruction_id : {None}, transaction_id : {"X1 ", "x-1", None},
   end_to_end_id : {"X1 ", None}, account_servicer_reference : {"x1", None},
   amount : {"100", "200", None}, currency : {"EUR", "EUR ", None},
   credit_debit : {"CRDT", "DBIT", None}]

Lifecycles ==
  [uetr : {None}, instruction_id : {None}, transaction_id : {"x1", None},
   end_to_end_id : {"x1", None}, account_servicer_reference : {"x2", None},
   amount : {"100", None}, currency : {"eur", None},
   debtor_account : {"a 2", None}, creditor_account : {"a1", "a2", None}]

AskAccount ==
  \E entry \in Entries, account \in {"A-1", "a2", "a3", None}, life \in Lifecycles :
    question = [kind |-> "account", entry |-> entry, account |-> account, life |-> life]

-----------------------------------------------------------------------------
(* Match records.  "t1" and "T1" are one identifier, the reference "---"
   normalises to nothing, "acme" and "acmo" are similar and "apex" is not. *)

MCNormal ==
  [identifier |-> [x \in {"t1"} |-> "T1"], iban |-> [x \in {"a-1"} |-> "A1"],
   code |-> [x \in {"eur"} |-> "EUR"], name |-> [x \in {"Acme"} |-> "acme"],
   reference |-> [x \in {"---"} |-> None]]
MCSimilar == [p \in {{"acme", "acmo"}, {"acme", "apex"}} |-> IF "acmo" \in p THEN 90 ELSE 61]
MCPrefix == [x \in {"INVOICE100"} |-> "INVOICE1"]

M == INSTANCE MatchingEngine

Empty == [f \in M!Fields |-> None]

Tolerant == [M!default_policy EXCEPT !.amount_tolerance = 10, !.date_tolerance = 0]

RecordsOf(T, C, A, R, N, D, K) ==
  {[Empty EXCEPT !.transaction_id = r[1], !.currency = r[2], !.amount = r[3],
                 !.remittance_reference = r[4], !.creditor_name = r[5], !.value_date = r[6],
                 !.debtor_account = r[7]] : r \in T \X C \X A \X R \X N \X D \X K}

AskMatch ==
  \E a \in RecordsOf({"t1", None}, {"EUR", None}, {0, 1000, None}, {"INVOICE100", "---", None},
                     {"Acme", None}, {1, None}, {"a-1", None}),
     b \in RecordsOf({"T1", None}, {"eur", "USD", None}, {1000, 1100}, {"INVOICE100", None},
                     {"acmo", "apex", None}, {4, None}, {"A1"}),
     policy \in {M!default_policy, Tolerant} :
    question = [kind |-> "match", a |-> a, b |-> b, policy |-> policy]

\* A record that says what a says, except for some fields that it lacks.
Copy(a, gaps) == [f \in M!Fields |-> IF f \in gaps THEN None ELSE a[f]]

Originals == RecordsOf({"t1", None}, {"EUR", None}, {-1000, 0, 1000, None},
                       {"INVOICE100", "---", None}, {"Acme", None}, {1, None}, {"a-1", None})

AskCopy ==
  \E a \in Originals, policy \in {M!default_policy, Tolerant} :
    \E gaps \in SUBSET {f \in M!Fields : a[f] # None} :
      question = [kind |-> "copy", a |-> a, gaps |-> gaps, policy |-> policy]

-----------------------------------------------------------------------------
(* Mapping definitions over two records, one of which lacks a field. *)

MCTransforms == [country_to_iso2 |-> [x \in {"Germany"} |-> "DE"],
                 upper |-> [x \in {"Germany", "de"} |-> IF x = "de" THEN "DE" ELSE "GERMANY"],
                 parse_decimal |-> [x \in {} |-> x]]
MCMinor == [x \in {"12.50"} |-> 1250]
MCCurrency == [x \in {"euro"} |-> "EUR"]

E == INSTANCE MappingEngine

Key(k) == [kind |-> "key", v |-> k]
All == [kind |-> "wildcard", v |-> None]
T(x) == [kind |-> "text", v |-> x]
Dict(s) == [kind |-> "dict", v |-> s]

Rows == <<Dict(<<<<"id", T("x1")>>, <<"amt", T("12.50")>>, <<"ctry", T("Germany")>>,
                 <<"lines", [kind |-> "list", v |-> <<T("l1"), T("l2")>>]>>>>),
          Dict(<<<<"id", T(None)>>, <<"amt", [kind |-> "num", v |-> 7]>>, <<"ctry", T("de")>>>>)>>
Payload == Dict(<<<<"payments", [kind |-> "list", v |-> Rows]>>>>)
Element == [kind |-> "xml", v |-> [x \in {<<Key("id")>>, <<Key("ctry")>>} |->
                                      IF x = <<Key("id")>> THEN <<T(None), T("x2")>> ELSE <<>>]]

MoneyMappings ==
  {[source |-> <<Key("amt")>>, target |-> <<"amount", "amount_minor">>, required |-> TRUE,
    transforms |-> <<"parse_decimal">>, default |-> None],
   [source |-> <<>>, target |-> <<"amount", "currency">>, required |-> FALSE,
    transforms |-> <<>>, default |-> "euro"]}

\* A target and a transform that do not exist.
UnknownMappings ==
  {[source |-> <<Key("id")>>, target |-> <<"debtor_agent", "postal_address">>,
    required |-> FALSE, transforms |-> <<"rot13">>, default |-> None]}

FieldMappings ==
  [source : {<<Key("id")>>, <<Key("ctry")>>, <<Key("lines"), All>>},
   target : {<<"instruction_id">>, <<"debtor", "postal_address", "country">>,
             <<"remittance", "unstructured">>},
   required : BOOLEAN, transforms : {<<>>, <<"country_to_iso2", "upper">>},
   default : {None, "de"}]
  \cup MoneyMappings \cup UnknownMappings

Sources ==
  {[format |-> "json", selector |-> <<Key("payments"), All>>, data |-> Payload],
   [format |-> "json", selector |-> None, data |-> Rows[1]],
   [format |-> "csv", selector |-> None, data |-> [kind |-> "list", v |-> Rows]],
   [format |-> "custom_xml", selector |-> <<Key("pmt")>>,
    data |-> [kind |-> "document", v |-> <<Element>>]]}

AskMapping ==
  \E src \in Sources, f \in FieldMappings, g \in FieldMappings :
    question = [kind |-> "mapping", data |-> src.data,
                definition |-> [source_format |-> src.format, record_selector |-> src.selector,
                                fields |-> <<f, g>>]]

-----------------------------------------------------------------------------
Init ==
  /\ AskAccount \/ AskMatch \/ AskCopy \/ AskMapping
  /\ answer = None

Answer(q) ==
  CASE q.kind = "account" -> ReconcileEntry(q.entry, q.account, q.life)
    [] q.kind = "match" -> M!evaluate_pair(q.a, q.b, q.policy)
    [] q.kind = "copy" -> M!evaluate_pair(q.a, Copy(q.a, q.gaps), q.policy)
    [] q.kind = "mapping" -> E!map_to_canonical(q.definition, q.data)

Evaluate ==
  /\ answer = None
  /\ answer' = Answer(question)
  /\ UNCHANGED question

Spec == Init /\ [][Evaluate]_vars

Answered(kind) == answer # None /\ question.kind = kind

-----------------------------------------------------------------------------
\* Two spellings of a value of this kind are of the same thing.
Agree(kind, a, b)    == a # None /\ b # None /\ Canon[kind][a] = Canon[kind][b]
Disagree(kind, a, b) == a # None /\ b # None /\ Canon[kind][a] # Canon[kind][b]

\* "Critical conflicts never auto-reconcile" (reconciliation.py), and nothing
\* else is held back: an entry is reconciled exactly when it agrees with the
\* lifecycle on a strong identifier, on the amount and on the currency,
\* disagrees on no identifier, and its account and direction are those of one
\* side of the payment or are not known.
ReconciledExactlyWhenSafe ==
  Answered("account") =>
    LET entry == question.entry
        account == question.account
        life == question.life
    IN (answer = "RECONCILED" <=>
       /\ \E f \in {"transaction_id", "end_to_end_id", "uetr", "instruction_id"} :
            Agree("id", entry[f], life[f])
       /\ \A f \in IdFields : ~Disagree("id", entry[f], life[f])
       /\ entry.amount # None /\ entry.amount = life.amount
       /\ Agree("currency", entry.currency, life.currency)
       /\ LET credited == Agree("account", account, life.creditor_account)
              debited == Agree("account", account, life.debtor_account)
          IN \/ credited /\ entry.credit_debit \in {"CRDT", None}
             \/ debited /\ ~credited /\ entry.credit_debit \in {"DBIT", None}
             \/ /\ ~credited /\ ~debited
                /\ None \in {account, life.creditor_account, life.debtor_account})

Standing == <<"UNMATCHED", "REVIEW_REQUIRED", "POSSIBLE_MATCH", "MATCHED">>
StandingOf(c) == CHOOSE i \in DOMAIN Standing : Standing[i] = c

\* matcher.py, _score and _classify: agreement never counts against a pair.  If
\* both records are given the same value of a field that neither carries, the
\* score does not fall and the classification does not get worse.
AgreementHelps ==
  Answered("match") =>
    \A f \in {"end_to_end_id", "creditor_agent", "external_reference"} :
      LET more == M!evaluate_pair([question.a EXCEPT ![f] = "same"],
                                  [question.b EXCEPT ![f] = "same"], question.policy)
      IN  /\ more.score >= answer.score
          /\ StandingOf(more.classification) >= StandingOf(answer.classification)

\* The copy is among the candidates its original is compared with.
CopyIsCandidate ==
  M!_candidate_matches(Copy(question.a, question.gaps),
                       M!narrowing_criteria(question.a, question.policy))

\* The fields by which a candidate must be found if the source carries them.
KeyFields == {"remittance_reference", "external_reference", "debtor_account", "creditor_account"}

Negative(amount) == amount # None /\ amount < 0

\* candidates.py, matching_service.py (_candidate_matches) and matcher.py
\* together: a record is compared with a copy of itself whatever the copy
\* lacks, the reference and the account apart, unless both carry a negative
\* amount, of which the window is empty; the comparison finds no conflict; and
\* one common identifier is enough for MATCHED.
CopyCompared ==
  Answered("copy") /\ question.gaps \cap KeyFields = {} =>
    /\ CopyIsCandidate <=> ~Negative(Copy(question.a, question.gaps).amount)
    /\ answer.conflicts = {}
    /\ (\E f \in {"transaction_id", "end_to_end_id"} : answer.results[f].status = "EXACT")
         => answer.classification = "MATCHED"

\* mapper.py, "Missing REQUIRED source fields produce a structured MAP-001
\* finding (never silently null)": under a definition that may be published,
\* every field of every record ends in its own target, transformed, or is
\* reported, whatever the other fields and the other records hold.
MappedOrReported ==
  Answered("mapping") /\ E!validate_mapping(question.definition) =>
    LET d == question.definition
        records == E!_extract_records(d, question.data)
    IN  \A i \in DOMAIN answer, k \in DOMAIN d.fields :
          LET fm == d.fields[k]
              found == E!_get_value(records[i], fm.source)
              alone == E!_set_target(E!NoTransaction, fm.target,
                         E!_apply_transforms(IF E!Absent(found) THEN T(fm.default) ELSE found,
                                             fm.transforms))
          IN  IF E!Absent(found) /\ (fm.required \/ fm.default = None)
              THEN /\ answer[i].tx[fm.target] = E!NoTransaction[fm.target]
                   /\ (fm.target \in Range(answer[i].issues)) <=> fm.required
              ELSE /\ answer[i].tx[fm.target] = alone[fm.target]
                   /\ fm.target \notin Range(answer[i].issues)

-----------------------------------------------------------------------------
(* What the documentation says and the code does not do.                   *)

\* "amount+currency alone are insufficient to auto-match": a record and its copy
\* that have just the amount and the currency in common are not MATCHED.
MoneyAloneInsufficient ==
  Answered("copy") /\ CopyIsCandidate
    /\ {f \in M!Fields : answer.results[f].status = "EXACT"} = {"amount", "currency"}
    => answer.classification # "MATCHED"

\* The criteria "only *narrow*, never drop a possible match on insufficient
\* data": a copy that lacks some fields and would be MATCHED by its transaction
\* id is among the candidates.
NeverDropsPossible ==
  Answered("copy") /\ ~Negative(question.a.amount)
    /\ answer.results.transaction_id.status = "EXACT" /\ answer.classification = "MATCHED"
    => CopyIsCandidate
=============================================================================
