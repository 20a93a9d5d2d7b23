----------------------------- MODULE RulesEngine -----------------------------
(***************************************************************************)
(* packages/rules_engine: the baseline ruleset and the declarative rules   *)
(* of a customer, as the set of findings they raise on a transaction.      *)
(*                                                                         *)
(* A transaction is [amount, lacks, addresses]: its amount in minor units  *)
(* (0 when absent), the identifiers it lacks, and per party the postal     *)
(* address or NoAddress.                                                   *)
(***************************************************************************)
EXTENDS AddressEngine

CONSTANTS
    ContainsPairs,  \* <<value, part>> such that part occurs in value
    PrefixPairs,    \* <<value, part>> such that value starts with part
    Numerals        \* the number a text spells, for the texts that spell one

Labels == {"Dbtr", "Cdtr", "DbtrAgt", "CdtrAgt"}
NoAddress == [none |-> TRUE]

Severities == {"INFO", "WARNING", "ERROR", "CRITICAL"}
Finding(rule, severity, at) == [rule |-> rule, severity |-> severity, at |-> at]

(* The parties of the transaction that carry a postal address. *)
_addresses(tx) == {l \in Labels : tx.addresses[l] # NoAddress}

-----------------------------------------------------------------------------
(* Structural and semantic rules: the identifier each one asks for. *)

MissingInstructionIdRule(tx) ==
    {Finding("ISO-001", "WARNING", "PmtId") : x \in tx.lacks \cap {"instruction_id"}}
MissingAmountRule(tx) ==
    IF tx.amount <= 0 THEN {Finding("ISO-002", "ERROR", "Amt")} ELSE {}
MissingEndToEndIdRule(tx) ==
    {Finding("ISO-003", "INFO", "PmtId") : x \in tx.lacks \cap {"end_to_end_id"}}
MissingDebtorAgentBicRule(tx) ==
    {Finding("SEM-001", "WARNING", "DbtrAgt") : x \in tx.lacks \cap {"debtor_agent.bic"}}
MissingCreditorAgentBicRule(tx) ==
    {Finding("SEM-002", "WARNING", "CdtrAgt") : x \in tx.lacks \cap {"creditor_agent.bic"}}
MissingCreditorAccountRule(tx) ==
    {Finding("SEM-003", "WARNING", "CdtrAcct") : x \in tx.lacks \cap {"creditor_account.id"}}

(* Address rules: one finding per address they hold of. *)
OnAddresses(tx, rule, severity, Holds(_)) ==
    {Finding(rule, severity, l) : l \in {m \in _addresses(tx) : Holds(tx.addresses[m])}}

HasStructured(a) == a.street \/ a.town # None \/ a.country # None

TownMissingRule(tx) ==
    OnAddresses(tx, "ADR-001", "WARNING", LAMBDA a : a.town = None /\ a.country # None)
CountryMissingRule(tx) ==
    OnAddresses(tx, "ADR-002", "ERROR", LAMBDA a : a.country = None)
InvalidCountryCodeRule(tx) ==
    OnAddresses(tx, "ADR-003", "ERROR",
                LAMBDA a : a.country # None /\ ~is_valid_country_code(a.country))
UnstructuredAddressRule(tx) ==
    OnAddresses(tx, "ADR-004", "WARNING", LAMBDA a : ~HasStructured(a) /\ a.lines # <<>>)
HybridAddressRule(tx) ==
    OnAddresses(tx, "ADR-005", "INFO", LAMBDA a : HasStructured(a) /\ a.lines # <<>>)

ADDRESS_RULESET(tx) ==
    MissingInstructionIdRule(tx) \cup MissingAmountRule(tx) \cup MissingEndToEndIdRule(tx)
    \cup MissingDebtorAgentBicRule(tx) \cup MissingCreditorAgentBicRule(tx)
    \cup MissingCreditorAccountRule(tx) \cup TownMissingRule(tx) \cup CountryMissingRule(tx)
    \cup InvalidCountryCodeRule(tx) \cup UnstructuredAddressRule(tx) \cup HybridAddressRule(tx)

-----------------------------------------------------------------------------
(* Declarative customer rules.  A value has a kind, so that a number is
   never equal to the text that spells it; a list holds values. *)

Null == [kind |-> "null", v |-> None]
Text(t) == IF t = None THEN Null ELSE [kind |-> "str", v |-> t]
Number(n) == [kind |-> "num", v |-> n]
Same(a, b) == a.kind = b.kind /\ a.v = b.v

OPERATORS == {"in", "not_in", "equals", "not_equals", "is_empty", "not_empty",
              "greater_than", "less_than", "contains", "starts_with"}

(* float(str(value)), where it does not raise. *)
IsNumber(value) == value.kind = "num" \/ (value.kind = "str" /\ value.v \in DOMAIN Numerals)
_num(value) == IF value.kind = "num" THEN value.v ELSE Numerals[value.v]

_matches(value, operator, expected) ==
    LET listed == \E x \in expected.v : Same(value, x)
        numbers == IsNumber(value) /\ IsNumber(expected)
        texts == value.kind = "str" /\ expected.kind = "str"
    IN  CASE operator = "in" -> expected.kind = "list" /\ listed
          [] operator = "not_in" -> expected.kind = "list" /\ ~listed
          [] operator = "equals" -> Same(value, expected)
          [] operator = "not_equals" -> ~Same(value, expected)
          [] operator = "is_empty" -> value.kind = "null"
          [] operator = "not_empty" -> value.kind # "null"
          [] operator = "greater_than" -> numbers /\ _num(value) > _num(expected)
          [] operator = "less_than" -> numbers /\ _num(value) < _num(expected)
          [] operator = "contains" -> texts /\ <<value.v, expected.v>> \in ContainsPairs
          [] operator = "starts_with" -> texts /\ <<value.v, expected.v>> \in PrefixPairs
          [] OTHER -> FALSE

(* A field path is <<"amount">> or <<party, "country" or "town">>; a path
   through an absent party resolves to None. *)
resolve_field(tx, path) ==
    IF path[1] = "amount" THEN Number(tx.amount)
    ELSE IF tx.addresses[path[1]] = NoAddress THEN Null
    ELSE Text(tx.addresses[path[1]][path[2]])

(* Refused before publication: an operator outside the list, or a customer
   rule that claims to be a system rule. *)
validate_rule_config(config) ==
    config.operator \in OPERATORS /\ config.classification # "SYSTEM_MANDATORY"

DeclarativeRule(config, tx) ==
    IF _matches(resolve_field(tx, config.field), config.operator, config.value)
    THEN {Finding(config.rule, config.severity, config.field[1])}
    ELSE {}

(* CompositeRuleEngine.evaluate: baseline first, customer rules appended. *)
RuleEngineEvaluate(message, configs) ==
    UNION {ADDRESS_RULESET(message.txs[i]) \cup UNION {DeclarativeRule(c, message.txs[i]) : c \in configs}
           : i \in DOMAIN message.txs}

=============================================================================
