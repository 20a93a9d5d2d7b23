-------------------------- MODULE AnalysisPipeline ---------------------------
(***************************************************************************)
(* packages/analysis/pipeline.py with the address providers of one         *)
(* process: the client of the address-structuring service with its retries *)
(* and circuit breaker, the CloudNova fallback, and the service itself.    *)
(* The application has one client, "app"; an analysis under a profile      *)
(* makes a client of its own, "own", whose circuit starts closed.          *)
(*                                                                         *)
(* The pipeline is synchronous code called from async handlers: one        *)
(* request at a time.  What interleaves with it is the service, which may  *)
(* be slow, restart or change its answer, and the clock.  Every address is *)
(* sent to the provider twice: once for the report and once for the repair.*)
(***************************************************************************)
EXTENDS RepairEngine

CONSTANTS
    Inputs,       \* what the entry points are given, see Input below
    Configs,      \* the customer rules of the profile
    DEV_COVERAGE, \* countries the address provider is said to cover
    Answers,      \* what the structuring engine may infer for an address
    MaxRetries,   \* swift_address_max_retries
    Threshold,    \* circuit_threshold
    Cooldown,     \* circuit_cooldown_seconds, in ticks
    MaxTime,      \* bound: ticks of the clock
    MaxRequests   \* bound: requests of a behaviour

ASSUME PipelineAssumption ==
    /\ MaxRetries \in Nat /\ Threshold \in Nat \ {0} /\ Cooldown \in Nat \ {0}
    /\ MaxTime \in Nat /\ MaxRequests \in Nat

(* The message of an input has transactions, one after another. *)
ASSUME InputAssumption ==
    \A in \in Inputs : /\ "txs" \in DOMAIN in.message
                      /\ in.message.txs \in Seq(Range(in.message.txs))

VARIABLES
    now,        \* time.monotonic()
    failures,   \* SwiftDerivedAddressProvider._failures, by client
    openUntil,  \* SwiftDerivedAddressProvider._circuit_open_until, by client
    loaded,     \* SwiftStructureProvider: the inference pipeline is loaded
    req,        \* the request being analysed
    result,     \* what the last request returned
    served,     \* how many requests were received
    streak      \* history: failed calls of a client since its last success

Clients == {"app", "own"}
vars == <<now, failures, openUntil, loaded, req, result, served, streak>>

-----------------------------------------------------------------------------
(* What an entry point is given.  doc is the parser's verdict, version the
   ISO version its namespace resolves to, message what the adapter maps. *)

SupportedVersions == {"pacs.008", "pain.001", "pacs.002", "camt.053"}
PaymentVersions == {"pacs.008", "pain.001"}

(* secure_parse: the checks in order; each refusal is an XmlError. *)
secure_parse(doc) == doc = "well_formed"

(* IsoMessageRegistry.resolve_root; identify_pacs008 accepts one family. *)
resolve_root(version) == version \in SupportedVersions
identify_pacs008(version) == version = "pacs.008"

(* Why the entry point refuses the input before any analysis, or None.
   A profile also maps JSON, which has neither document nor version.  One
   limit bounds the transactions of a payment and the entries of an account
   report, which txs stands for there; a status report has none. *)
Refusal(in) ==
    IF in.entry = "profile" /\ in.message.format = "JSON" THEN None
    ELSE IF ~secure_parse(in.doc) THEN "XmlError"
    ELSE IF in.entry = "analyze" /\ ~identify_pacs008(in.version) THEN "UnsupportedMessageTypeError"
    ELSE IF in.entry # "analyze" /\ ~resolve_root(in.version) THEN "UnsupportedMessageError"
    ELSE IF in.entry = "profile" /\ in.allowed # {} /\ in.version \notin in.allowed
         THEN "ValueError"
    ELSE IF in.entry = "profile" /\ in.version \notin PaymentVersions THEN "ValueError"
    ELSE IF in.entry = "iso" /\ in.version # "pacs.002"
            /\ Len(in.message.txs) > in.limit THEN "PayloadTooLargeError"
    ELSE None

(* Status and account reports end here: no rule and no address is looked at. *)
IsReport(in) == in.entry = "iso" /\ in.version \notin PaymentVersions

-----------------------------------------------------------------------------
(* The result of an analysis. *)

_aggregate_readiness(levels) ==
    IF levels = <<>> THEN "UNRESOLVED"
    ELSE IF \A i \in DOMAIN levels : levels[i] = "READY" THEN "READY"
    ELSE IF "UNRESOLVED" \in Range(levels) THEN "UNRESOLVED"
    ELSE IF "REVIEW_REQUIRED" \in Range(levels) THEN "REVIEW_REQUIRED"
    ELSE "REPAIRABLE"

_warnings(xsdValid, status, fallback) ==
    {w \in {"XSD", "REVIEW", "ADDRESS_PROVIDER_FALLBACK"} :
        CASE w = "XSD" -> ~xsdValid
          [] w = "REVIEW" -> status = "REVIEW_REQUIRED"
          [] OTHER -> fallback}

(* build_profile_rules: only a profile adds customer rules to the baseline. *)
RulesFor(in) == IF in.entry = "profile" THEN Configs ELSE {}

Failed(reason) == [kind |-> "error", reason |-> reason]
NoRequest == [pc |-> "idle"]
NoResult == [kind |-> "none"]

(* doc is None for mapped input, so nothing validates it against a schema. *)
XsdValid(message) == message.format = "JSON" \/ validate_pacs008(message)

(* Of the message as it was mapped, before any repair. *)
compute_coverage(message) ==
    LET countries == {upper(a.addr.country) : a \in {b \in Range(AddressesOf(message)) :
                                                        b.addr.country # None}}
    IN  IF countries = {} THEN "UNKNOWN"
        ELSE IF countries \subseteq DEV_COVERAGE THEN "SUPPORTED" ELSE "UNSUPPORTED_GEOGRAPHY"

Conclusion(r, candidate) ==
    LET m == r.in.message
        status == IF r.in.repair THEN candidate.status ELSE None
        fallback == \E i \in DOMAIN r.reports : r.reports[i].fallback
    IN  [kind |-> "analysis", in |-> r.in,
         valid |-> XsdValid(m),
         findings |-> RuleEngineEvaluate(m, RulesFor(r.in)),
         reports |-> r.reports, repairs |-> r.repairs,
         readiness |-> _aggregate_readiness([i \in DOMAIN r.reports |-> r.reports[i].readiness]),
         status |-> status,
         diff |-> IF r.in.repair THEN candidate.changes ELSE <<>>,
         candidate |-> candidate.message,
         fallback |-> fallback,
         coverage |-> IF r.in.entry = "profile" THEN compute_coverage(m) ELSE None,
         warnings |-> _warnings(XsdValid(m), status, fallback)]

-----------------------------------------------------------------------------
Init ==
    /\ now = 0
    /\ failures = [c \in Clients |-> 0] /\ openUntil = [c \in Clients |-> 0]
    /\ loaded \in BOOLEAN
    /\ req = NoRequest /\ result = NoResult
    /\ served = 0 /\ streak = [c \in Clients |-> 0]

(* analyze, analyze_iso and analyze_profile up to the first address. *)
Receive(in) ==
    /\ req.pc = "idle" /\ served < MaxRequests
    /\ served' = served + 1
    /\ IF Refusal(in) # None
       THEN /\ result' = Failed(Refusal(in)) /\ req' = req
       ELSE IF IsReport(in)
       THEN /\ result' = [kind |-> "report", valid |-> in.message.sound] /\ req' = req
       ELSE /\ result' = NoResult
            /\ req' = [pc |-> "report", in |-> in, todo |-> AddressesOf(in.message),
                       k |-> 1, attempt |-> 0,
                       reports |-> <<>>, repairs |-> <<>>, changes |-> <<>>]
    /\ UNCHANGED <<now, failures, openUntil, loaded, streak>>

Client == IF req.in.entry = "profile" THEN "own" ELSE "app"
Visiting == req.pc \in {"report", "repair"}
Todo == req.todo
Current == Todo[req.k]

(* The repair pass leaves out an address without a source path. *)
Skipped == req.pc = "repair" /\ ~Current.addr.path
AtAddress == Visiting /\ req.k <= Len(Todo)

(* The provider's result for the current address enters the report, or
   becomes proposed changes. *)
Take(primary) ==
    \E analysis \in {FallbackAnalyze(primary, Current.addr)} :
        req' = IF req.pc = "report"
               THEN [req EXCEPT !.k = @ + 1, !.attempt = 0, !.reports = Append(@, analysis)]
               ELSE [req EXCEPT !.k = @ + 1, !.attempt = 0, !.repairs = Append(@, analysis),
                                !.changes = @ \o ProposedChanges(Current, analysis)]

SkipAddress ==
    /\ AtAddress /\ Skipped
    /\ req' = [req EXCEPT !.k = @ + 1, !.repairs = Append(@, _unavailable)]
    /\ UNCHANGED <<now, failures, openUntil, loaded, result, served, streak>>

_circuit_open == now < openUntil[Client]

\* Mutant: the call waits for the circuit to close.
Unavailable_waits ==
    /\ AtAddress /\ ~Skipped /\ req.attempt = 0
    /\ ~_address_lines(Current.addr)
    /\ Take(_unavailable)
    /\ UNCHANGED <<now, failures, openUntil, loaded, result, served, streak>>

(* analyze returns at once: circuit open, or nothing to send. *)
Unavailable ==
    /\ AtAddress /\ ~Skipped /\ req.attempt = 0
    /\ _circuit_open \/ ~_address_lines(Current.addr)
    /\ Take(_unavailable)
    /\ UNCHANGED <<now, failures, openUntil, loaded, result, served, streak>>

\* Mutant: the circuit is not looked at.
Calling_regardless ==
    AtAddress /\ ~Skipped /\ _address_lines(Current.addr)

(* A POST to the service: only the first attempt looks at the circuit. *)
Calling ==
    /\ AtAddress /\ ~Skipped /\ _address_lines(Current.addr)
    /\ req.attempt = 0 => ~_circuit_open

_record_failure ==
    IF failures[Client] + 1 >= Threshold
    THEN /\ failures' = [failures EXCEPT ![Client] = 0]
         /\ openUntil' = [openUntil EXCEPT ![Client] = now + Cooldown]
    ELSE failures' = [failures EXCEPT ![Client] = @ + 1] /\ UNCHANGED openUntil

\* Mutant: a success does not reset the counter.
_record_success_keeps == UNCHANGED <<failures, openUntil>>

_record_success == failures' = [failures EXCEPT ![Client] = 0] /\ UNCHANGED openUntil

(* SwiftStructureProvider.structure: a forced country is not contradicted. *)
structure(addr) ==
    {a \in Answers : _suggestion(addr).force => a.country = _suggestion(addr).country}

(* The service answers 200.  A service that is not loaded tries to load
   first, and may succeed now where it failed before. *)
PostAnswered(answer) ==
    /\ Calling /\ answer \in structure(Current.addr)
    /\ loaded' = TRUE
    /\ _record_success /\ streak' = [streak EXCEPT ![Client] = 0]
    /\ Take(_build_analysis(answer))
    /\ UNCHANGED <<now, result, served>>

(* 503 while not loaded, 500 when the inference raises: not retried. *)
PostRefused ==
    /\ Calling
    /\ _record_failure /\ streak' = [streak EXCEPT ![Client] = @ + 1]
    /\ Take(_unavailable)
    /\ UNCHANGED <<now, loaded, result, served>>

(* Timeout or transport error: retried, and a failure after the last try. *)
PostTimedOut ==
    /\ Calling
    /\ IF req.attempt < MaxRetries
       THEN /\ req' = [req EXCEPT !.attempt = @ + 1]
            /\ UNCHANGED <<failures, openUntil, streak>>
       ELSE /\ _record_failure /\ streak' = [streak EXCEPT ![Client] = @ + 1]
            /\ Take(_unavailable)
    /\ UNCHANGED <<now, loaded, result, served>>

(* The request ends, and with it the client build_profile_provider made. *)
End ==
    /\ req' = NoRequest
    /\ failures' = [failures EXCEPT !["own"] = 0]
    /\ openUntil' = [openUntil EXCEPT !["own"] = 0]
    /\ streak' = [streak EXCEPT !["own"] = 0]

(* A 200 whose body is not JSON: resp.json() raises past analyze, past the
   fallback and past the pipeline. *)
PostGarbled ==
    /\ Calling
    /\ End /\ result' = Failed("JSONDecodeError")
    /\ UNCHANGED <<now, loaded, served>>

StartRepair ==
    /\ req.pc = "report" /\ req.k > Len(Todo) /\ req.in.repair
    /\ req' = [req EXCEPT !.pc = "repair", !.k = 1]
    /\ UNCHANGED <<now, failures, openUntil, loaded, result, served, streak>>

Conclude ==
    /\ Visiting /\ req.k > Len(Todo)
    /\ req.pc = "repair" \/ ~req.in.repair
    /\ \E candidate \in {generate_candidate(req.in.message, req.changes, RulesFor(req.in))} :
          result' = Conclusion(req, candidate)
    /\ End
    /\ UNCHANGED <<now, loaded, served>>

(* Time passes at any point; the service may be restarted at any point. *)
Tick ==
    /\ now < MaxTime /\ now' = now + 1
    /\ UNCHANGED <<failures, openUntil, loaded, req, result, served, streak>>

ServiceRestart ==
    /\ loaded /\ loaded' = FALSE
    /\ UNCHANGED <<now, failures, openUntil, req, result, served, streak>>

Work == \/ SkipAddress \/ Unavailable \/ PostRefused \/ PostTimedOut \/ PostGarbled
        \/ (\E answer \in Answers : PostAnswered(answer))
        \/ StartRepair \/ Conclude

Next == (\E in \in Inputs : Receive(in)) \/ Work \/ Tick \/ ServiceRestart

(* The handler runs to its end once called. *)
Spec == Init /\ [][Next]_vars /\ WF_vars(Work)

-----------------------------------------------------------------------------
(* swift_derived.py, _record_failure and _record_success: the counter holds
   the failures since the last success or the last opening, so the circuit
   opens on every Threshold-th failure of an unbroken run of failures, and
   never because of failures that a success has separated. *)
CircuitCountsARun == \A c \in Clients : failures[c] = streak[c] % Threshold

(* swift_derived.py, _circuit_open: a request under way during the cooldown
   gets nothing from the service, neither an answer nor a failure to count. *)
OpenCircuitIsSilent ==
    [][req.pc = "report" /\ req'.pc = "report" /\ _circuit_open =>
          /\ streak' = streak
          /\ \A i \in DOMAIN req'.reports \ DOMAIN req.reports : req'.reports[i].fallback]_vars

(* The passes disagree about no address that both gave to CloudNova. *)
ByCloudNova(i) ==
    /\ i \in DOMAIN result.repairs
    /\ result.reports[i].provider = "cloudnova" /\ result.repairs[i].provider = "cloudnova"

(* generator.py, generate_candidate, with readiness.py: where CloudNova made
   both passes, an address reported REPAIRABLE gets a change, and one
   reported READY keeps its country. *)
RepairableIsRepaired ==
    result.kind = "analysis" /\ result.in.repair =>
        LET todo == AddressesOf(result.in.message)
        IN  \A i \in DOMAIN todo : ByCloudNova(i) =>
            LET entries == {e \in Range(result.diff) :
                               e.tx = todo[i].tx /\ e.label = todo[i].label}
            IN  /\ result.reports[i].readiness = "REPAIRABLE" => entries # {}
                /\ result.reports[i].readiness = "READY"
                       => \A e \in entries : e.field = "town"

(* generator.py, generate_candidate: a pacs.008 candidate with changes is
   VALIDATED only if each address of the rebuilt document names a country by
   its ISO code, also where the source document did not. *)
ValidatedNamesCountries ==
    result.kind = "analysis" /\ result.status = "VALIDATED"
    /\ result.diff # <<>> /\ result.in.message.format = "XML_PACS_008" =>
        \A a \in Range(AddressesOf(result.candidate)) : a.addr.country \in CountryCodes

(* swift_derived.py, _suggestion, with generator.py and the fallback: a valid
   country code of the message survives whoever analysed the address, in
   whatever mixture of answers, failures and fallbacks: no diff entry
   replaces one. *)
ForcedCountryKept ==
    result.kind = "analysis" =>
        \A i \in DOMAIN result.diff :
            result.diff[i].field = "country" => result.diff[i].before \notin CountryCodes

(* swift_derived.py, "bounded retries (no infinite loop)": every request
   that is accepted comes to its end. *)
RequestConcludes == (req.pc # "idle") ~> (req.pc = "idle")

=============================================================================
