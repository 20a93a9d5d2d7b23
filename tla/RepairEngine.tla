---------------------------- MODULE RepairEngine -----------------------------
(***************************************************************************)
(* packages/repair_engine: the changes proposed for a message, the         *)
(* candidate built from them and its verdict.                              *)
(*                                                                         *)
(* A message is [format, sound, txs]: sound says whether the parts of the  *)
(* document outside the postal addresses satisfy the schema.               *)
(***************************************************************************)
EXTENDS RulesEngine

CONSTANTS
    TwoLetters,   \* tokens of the schema's CountryCode pattern [A-Z]{2}
    TooLong       \* tokens longer than the schema's Max35Text

ASSUME CodesAreTwoLetters == CountryCodes \subseteq TwoLetters

(* What a party contributes to addresses(tx): its address, if it has one. *)
AddressAt(message, i, label) ==
    IF label \in _addresses(message.txs[i])
    THEN <<[tx |-> i, label |-> label, addr |-> message.txs[i].addresses[label]]>> ELSE <<>>

(* Every address of the message, in the order both passes visit them: of each
   transaction the debtor's, the creditor's, then those of the agents. *)
AddressesOf(message) ==
    FlattenSeq([i \in DOMAIN message.txs |->
        AddressAt(message, i, "Dbtr") \o AddressAt(message, i, "Cdtr")
        \o AddressAt(message, i, "DbtrAgt") \o AddressAt(message, i, "CdtrAgt")])

(* The segments of source_path before the party, by the adapter or mapper
   that made the message. *)
PathPrefix(format) ==
    CASE format = "XML_PACS_008" -> <<"Document", "FIToFICstmrCdtTrf", "CdtTrfTxInf[i]">>
      [] format = "XML_PAIN_001" -> <<"CstmrCdtTrfInitn", "PmtInf">>
      [] OTHER -> <<"transactions[i]">>

DiffEntry(a, field, before, after) ==
    [tx |-> a.tx, label |-> a.label, field |-> field,
     before |-> before, after |-> after, status |-> "PROPOSED"]

\* Mutant: an absent field is not filled in.
ProposedChanges_present(a, analysis) ==
    (IF a.addr.country # None /\ analysis.country # None /\ a.addr.country # analysis.country
     THEN <<DiffEntry(a, "country", a.addr.country, analysis.country)>> ELSE <<>>)
    \o
    (IF a.addr.town # None /\ analysis.town # None /\ a.addr.town # analysis.town
     THEN <<DiffEntry(a, "town", a.addr.town, analysis.town)>> ELSE <<>>)

(* The changes one address contributes, given the provider's analysis. *)
ProposedChanges(a, analysis) ==
    (IF analysis.country # None /\ a.addr.country # analysis.country
     THEN <<DiffEntry(a, "country", a.addr.country, analysis.country)>> ELSE <<>>)
    \o
    (IF analysis.town # None /\ a.addr.town # analysis.town
     THEN <<DiffEntry(a, "town", a.addr.town, analysis.town)>> ELSE <<>>)

SetField(message, c) ==
    [message EXCEPT !.txs[c.tx].addresses[c.label][c.field] = c.after]

(* apply_changes: each change is navigated to in a copy of the document, or
   its element is created under the address it belongs to. *)
apply_changes(message, changes) ==
    [message |-> FoldLeft(SetField, message, changes),
     applied |-> [i \in DOMAIN changes |->
        [changes[i] EXCEPT !.status =
            IF changes[i].label \in _addresses(message.txs[changes[i].tx])
            THEN "VALIDATED" ELSE "REJECTED"]]]

(* _apply_to_message reads a transaction index from the second segment of
   the path and skips the change when it is not one. *)
IndexSegments == {"0", "1", "[0]", "[1]"}
_apply_to_message(message, changes) ==
    LET Readable(c) ==
            LET path == PathPrefix(message.format) \o <<c.label, "PstlAdr", c.field>>
            IN  path[2] \in IndexSegments /\ c.label \in {"Dbtr", "Cdtr"}
    IN  FoldLeft(SetField, message, SelectSeq(changes, Readable))

(* The schema of the message on its addresses, and on the rest of it. *)
validate_pacs008(message) ==
    /\ message.sound
    /\ \A a \in Range(AddressesOf(message)) :
          /\ a.addr.country # None => a.addr.country \in TwoLetters
          /\ a.addr.town \notin TooLong

_blocking_findings(findings) ==
    \E f \in findings : f.severity \in {"ERROR", "CRITICAL"}

\* Mutant: the rules are not evaluated again on the rebuilt document.
generate_candidate_schema_only(message, changes, configs) ==
    LET repaired == apply_changes(message, changes)
    IN  IF changes = <<>> \/ validate_pacs008(repaired.message)
        THEN [status |-> "VALIDATED", changes |-> repaired.applied, xml |-> TRUE,
              message |-> repaired.message]
        ELSE [status |-> "REVIEW_REQUIRED", changes |-> repaired.applied, xml |-> TRUE,
              message |-> repaired.message]

(* generate_candidate, once every address has been analysed. *)
generate_candidate(message, changes, configs) ==
    LET repaired == apply_changes(message, changes)
        updated == _apply_to_message(message, changes)
        Blocked(m) == _blocking_findings(RuleEngineEvaluate(m, configs))
        verdict(ok) == IF ok THEN "VALIDATED" ELSE "REVIEW_REQUIRED"
    IN  IF changes = <<>>
        THEN [status |-> "VALIDATED", changes |-> <<>>, xml |-> FALSE, message |-> message]
        ELSE IF message.format = "XML_PACS_008"
        THEN [status |-> verdict(validate_pacs008(repaired.message) /\ ~Blocked(repaired.message)),
              changes |-> repaired.applied, xml |-> TRUE, message |-> repaired.message]
        ELSE [status |-> verdict(~Blocked(updated)),
              changes |-> changes, xml |-> FALSE, message |-> updated]

=============================================================================
