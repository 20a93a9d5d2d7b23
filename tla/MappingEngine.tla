---------------------------- MODULE MappingEngine ----------------------------
(***************************************************************************)
(* packages/mapping_engine: a customer's JSON, CSV or XML records mapped   *)
(* to canonical transactions by a declarative definition, and the          *)
(* validation a definition passes before its profile is published.         *)
(*                                                                         *)
(* A source value is [kind, v]: a dict is a sequence of <<key, value>>, a  *)
(* list a sequence of values, a text or a number a token, an XML element   *)
(* the texts each XPath finds in it.  A field mapping is [source, target,  *)
(* required, transforms, default].                                         *)
(***************************************************************************)
EXTENDS Integers, Sequences, FiniteSets, SequencesExt

CONSTANTS
    None,
    Transforms,  \* Transforms[name]: what it makes of the tokens it changes
    MinorUnits,  \* round(Decimal(text) * 100), for the texts that are amounts
    CurrencyOf   \* str(value)[:3].upper(), on the tokens that it changes

(* A target is the sequence of the segments of its dotted path. *)
_ALLOWED_TARGETS ==
    {<<f>> : f \in {"instruction_id", "end_to_end_id", "transaction_id"}}
    \cup ({"amount"} \X {"amount_minor", "currency"})
    \cup ({"debtor", "creditor"} \X {"name"})
    \cup ({"debtor", "creditor"} \X {"postal_address"}
           \X {"street_name", "building_number", "postcode", "town_name", "country",
               "address_lines"})
    \cup ({"debtor_account", "creditor_account"} \X {"iban", "name"})
    \cup {<<"debtor_account", "other_identification">>}
    \cup ({"debtor_agent", "creditor_agent"} \X {"bic", "name"})
    \cup {<<"remittance", "unstructured">>}

-----------------------------------------------------------------------------
(* Selectors. *)

(* What one step of a path makes of one value. *)
Children(item, step) ==
    CASE step.kind = "key" /\ item.kind = "dict" ->
            LET at == SelectInSeq(item.v, LAMBDA e : e[1] = step.v)
            IN  IF at = 0 THEN <<>> ELSE <<item.v[at][2]>>
      [] step.kind = "index" /\ item.kind = "list" ->
            IF step.v < Len(item.v) THEN <<item.v[step.v + 1]>> ELSE <<>>
      [] step.kind = "wildcard" /\ item.kind = "list" -> item.v
      [] step.kind = "wildcard" /\ item.kind = "dict" -> [i \in DOMAIN item.v |-> item.v[i][2]]
      [] OTHER -> <<>>

resolve_json_path(data, path) ==
    FoldLeft(LAMBDA items, step : FlattenSeq([i \in DOMAIN items |-> Children(items[i], step)]),
             <<data>>, path)

(* Blank texts are dropped; a path that is not XPath finds nothing. *)
resolve_xpath(element, path) ==
    IF path \in DOMAIN element.v THEN SelectSeq(element.v[path], LAMBDA x : x.v # None) ELSE <<>>

NullValue == [kind |-> "null", v |-> None]
FirstIn(values) == IF values = <<>> THEN NullValue ELSE values[1]

(* The first hit: a "$" path or a plain key of a dict, XPath in an element. *)
_get_value(record, source) ==
    CASE record.kind = "dict" -> FirstIn(resolve_json_path(record, source))
      [] record.kind = "xml" -> FirstIn(resolve_xpath(record, source))
      [] OTHER -> NullValue

(* No selector over JSON means the payload is one record. *)
_extract_records(definition, source) ==
    CASE definition.source_format = "csv" -> IF source.kind = "list" THEN source.v ELSE <<>>
      [] definition.source_format = "json" ->
            IF definition.record_selector # None
            THEN resolve_json_path(source, definition.record_selector)
            ELSE IF source.kind = "dict" THEN <<source>> ELSE <<>>
      [] definition.source_format = "custom_xml" ->
            IF source.kind = "document" /\ definition.record_selector # None
            THEN source.v ELSE <<>>

-----------------------------------------------------------------------------
(* Values. *)

(* An unknown transform, or one that cannot apply, returns the value. *)
transform(value, name) ==
    IF name \in DOMAIN Transforms /\ value.v \in DOMAIN Transforms[name]
    THEN [value EXCEPT !.v = Transforms[name][value.v]] ELSE value

_apply_transforms(value, names) == FoldLeft(transform, value, names)

(* Numbers are taken for major units; what is not an amount becomes 0. *)
_to_minor(value) ==
    CASE value.kind = "num" -> value.v * 100
      [] value.kind = "text" /\ value.v \in DOMAIN MinorUnits -> MinorUnits[value.v]
      [] OTHER -> 0

Listed(target) == target[Len(target)] \in {"unstructured", "address_lines"}

(* PaymentTransaction(), by target: lists are empty, the rest is absent. *)
NoTransaction == [t \in _ALLOWED_TARGETS |-> IF Listed(t) THEN <<>> ELSE None]

(* _set_target with _set_party, _set_address, _set_account and _set_agent: a
   target none of them knows is passed over. *)
_set_target(tx, target, value) ==
    IF target \notin _ALLOWED_TARGETS THEN tx
    ELSE [tx EXCEPT ![target] =
             IF Listed(target) THEN Append(@, value.v)
             ELSE IF target = <<"amount", "amount_minor">> THEN _to_minor(value)
             ELSE IF target = <<"amount", "currency">> /\ value.v \in DOMAIN CurrencyOf
             THEN CurrencyOf[value.v]
             ELSE value.v]

-----------------------------------------------------------------------------
(* map_to_canonical. *)

Absent(value) == value.kind = "null" \/ value.v = None

(* One field of one record: REQUIRED is looked at before the default. *)
MapField(done, fm, record) ==
    LET found == _get_value(record, fm.source)
        value == IF Absent(found) THEN [kind |-> "text", v |-> fm.default] ELSE found
    IN  IF Absent(found) /\ fm.required
        THEN [done EXCEPT !.issues = Append(@, fm.target)]
        ELSE IF Absent(value) THEN done
        ELSE [done EXCEPT !.tx = _set_target(@, fm.target, _apply_transforms(value, fm.transforms))]

MapRecord(definition, record) ==
    FoldLeft(LAMBDA done, fm : MapField(done, fm, record),
             [tx |-> NoTransaction, issues |-> <<>>], definition.fields)

map_to_canonical(definition, source) ==
    LET records == _extract_records(definition, source)
    IN  [i \in DOMAIN records |-> MapRecord(definition, records[i])]

\* Mutant: a target may be mapped twice.
validate_mapping_twice(definition) ==
    /\ definition.fields # <<>>
    /\ definition.source_format = "custom_xml" => definition.record_selector # None
    /\ \A i \in DOMAIN definition.fields :
          /\ definition.fields[i].source # <<>>
          /\ definition.fields[i].target \in _ALLOWED_TARGETS
          /\ Range(definition.fields[i].transforms) \subseteq DOMAIN Transforms

(* validate_mapping: MAP-002, MAP-011 and, per field, MAP-003 to MAP-006. *)
validate_mapping(definition) ==
    /\ definition.fields # <<>>
    /\ definition.source_format = "custom_xml" => definition.record_selector # None
    /\ \A i \in DOMAIN definition.fields :
          /\ definition.fields[i].source # <<>>
          /\ definition.fields[i].target \in _ALLOWED_TARGETS
          /\ \A j \in DOMAIN definition.fields :
                definition.fields[j].target = definition.fields[i].target => i = j
          /\ Range(definition.fields[i].transforms) \subseteq DOMAIN Transforms

=============================================================================
