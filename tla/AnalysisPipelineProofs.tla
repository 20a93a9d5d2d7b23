------------------------ MODULE AnalysisPipelineProofs ------------------------
(***************************************************************************)
(* Proofs about AnalysisPipeline for every input, every set of answers of  *)
(* the structuring service, every reference table, any number of retries,  *)
(* threshold and cooldown: the circuit breaker, the country codes that a   *)
(* repair keeps, the countries a validated candidate names, and the two    *)
(* passes that report an address and repair it.                            *)
(*                                                                         *)
(* FlattenSeq and FoldLeft are defined by recursion.  What they compute is *)
(* shown by induction over sets of natural numbers: the set of the lengths *)
(* up to which a statement holds has 0, and with a number the next one.    *)
(***************************************************************************)
EXTENDS AnalysisPipeline, FiniteSetTheorems, WellFoundedInduction, TLAPS

-----------------------------------------------------------------------------
(* Counting failures.                                                       *)

\* Quotient and remainder.
LEMMA Division ==
  ASSUME NEW k \in Nat, NEW M \in Nat \ {0}
  PROVE  k = M * (k \div M) + (k % M) /\ k \div M \in Nat /\ k % M \in 0..(M - 1)
OBVIOUS

\* A multiple of M less than M away from zero is zero.
LEMMA SmallMultiple ==
  ASSUME NEW a \in Int, NEW M \in Nat \ {0}, NEW r \in Int, -M < r, r < M, M * a = r
  PROVE  a = 0
<1>1. CASE a > 0
  <2>1. M * a >= M
    BY <1>1
  <2> QED BY <2>1
<1>2. CASE a < 0
  <2>1. M * a <= -M
    BY <1>2
  <2> QED BY <2>1
<1> QED BY <1>1, <1>2

\* The remainder is the only one.
LEMMA UniqueRemainder ==
  ASSUME NEW k \in Nat, NEW M \in Nat \ {0}, NEW q \in Int, NEW r \in 0..(M - 1), k = M * q + r
  PROVE  k % M = r
<1> DEFINE p == k \div M
           t == k % M
<1>1. k = M * p + t /\ p \in Nat /\ t \in 0..(M - 1)
  BY Division
<1> HIDE DEF p, t
<1>2. M * (p - q) = r - t
  <2>1. M * (p - q) = M * p - M * q
    BY <1>1
  <2> QED BY <1>1, <2>1
<1>3. p - q = 0
  BY <1>1, <1>2, SmallMultiple
<1>4. t = r
  BY ONLY <1>1, <1>2, <1>3, q \in Int, r \in Int, M \in Int
<1> QED BY <1>4 DEF t

\* Counting one more, modulo the openings of the circuit.
LEMMA NextRemainder ==
  ASSUME NEW k \in Nat, NEW M \in Nat \ {0}
  PROVE  (k + 1) % M = IF (k % M) + 1 >= M THEN 0 ELSE (k % M) + 1
<1> DEFINE q == k \div M
           r == k % M
           n == k + 1
<1>0. n \in Nat
  OBVIOUS
<1>1. k = M * q + r /\ q \in Nat /\ r \in 0..(M - 1)
  BY Division
<1> HIDE DEF q, r
<1>2. CASE r + 1 >= M
  <2>1. M * (q + 1) = M * q + M
    BY <1>1
  <2>2. n = M * (q + 1) + 0
    BY <1>1, <1>2, <2>1
  <2>3. 0 \in 0..(M - 1) /\ q + 1 \in Int
    BY <1>1
  <2> HIDE DEF n
  <2>4. n % M = 0
    BY <1>0, <2>2, <2>3, UniqueRemainder
  <2> QED BY <1>2, <2>4 DEF n, r
<1>3. CASE r + 1 < M
  <2>1. n = M * q + (r + 1)
    BY <1>1
  <2>2. r + 1 \in 0..(M - 1) /\ q \in Int
    BY <1>1, <1>3
  <2> HIDE DEF n
  <2>3. n % M = r + 1
    BY <1>0, <2>1, <2>2, UniqueRemainder
  <2> QED BY <1>1, <1>3, <2>3 DEF n, r
<1> QED BY <1>1, <1>2, <1>3

-----------------------------------------------------------------------------
(* The circuit counts a run of failures.                                    *)

CircuitInv ==
  /\ failures \in [Clients -> Nat] /\ streak \in [Clients -> Nat]
  /\ CircuitCountsARun

\* A failed call is counted in the run and in the circuit alike.
LEMMA FailureCounted ==
  ASSUME CircuitInv, _record_failure, streak' = [streak EXCEPT ![Client] = @ + 1]
  PROVE  CircuitInv'
<1> DEFINE c == Client
<1>1. c \in Clients
  BY DEF Clients, Client
<1>2. failures[c] \in Nat /\ streak[c] \in Nat /\ failures[c] = streak[c] % Threshold
  BY <1>1 DEF CircuitInv, CircuitCountsARun
<1>3. failures' = [failures EXCEPT ![c] = IF failures[c] + 1 >= Threshold THEN 0 ELSE failures[c] + 1]
  BY DEF _record_failure
<1>4. (streak[c] + 1) % Threshold = IF failures[c] + 1 >= Threshold THEN 0 ELSE failures[c] + 1
  BY <1>2, NextRemainder, PipelineAssumption
<1> HIDE DEF c
<1>5. streak' = [streak EXCEPT ![c] = streak[c] + 1]
  BY DEF c
<1>6. failures' \in [Clients -> Nat] /\ streak' \in [Clients -> Nat]
  BY <1>1, <1>2, <1>3, <1>5 DEF CircuitInv
<1>7. ASSUME NEW d \in Clients PROVE failures'[d] = streak'[d] % Threshold
  <2>1. CASE d = c
    BY <1>1, <1>3, <1>4, <1>5, <2>1 DEF CircuitInv
  <2>2. CASE d # c
    BY <1>1, <1>3, <1>5, <2>2 DEF CircuitInv, CircuitCountsARun
  <2> QED BY <2>1, <2>2
<1> QED BY <1>6, <1>7 DEF CircuitInv, CircuitCountsARun

\* A client whose circuit is reset starts a run of its own.
LEMMA RunReset ==
  ASSUME CircuitInv, NEW c \in Clients,
         failures' = [failures EXCEPT ![c] = 0], streak' = [streak EXCEPT ![c] = 0]
  PROVE  CircuitInv'
<1>1. 0 % Threshold = 0
  BY NextRemainder, UniqueRemainder, PipelineAssumption
<1> QED BY <1>1 DEF CircuitInv, CircuitCountsARun

\* Failures, successes and the end of a profile's client keep the count.
LEMMA CircuitStep == CircuitInv /\ [Next]_vars => CircuitInv'
<1> SUFFICES ASSUME CircuitInv, [Next]_vars PROVE CircuitInv'
  OBVIOUS
<1>0. Client \in Clients /\ "own" \in Clients
  BY DEF Client, Clients
<1>1. ASSUME UNCHANGED <<failures, streak>> PROVE CircuitInv'
  BY <1>1 DEF CircuitInv, CircuitCountsARun
<1>2. ASSUME NEW in \in Inputs, Receive(in) PROVE CircuitInv'
  BY <1>1, <1>2 DEF Receive
<1>3. CASE SkipAddress \/ Unavailable \/ StartRepair \/ Tick \/ ServiceRestart
  BY <1>1, <1>3 DEF SkipAddress, Unavailable, StartRepair, Tick, ServiceRestart
<1>4. CASE PostRefused
  BY <1>4, FailureCounted DEF PostRefused
<1>5. CASE PostTimedOut
  BY <1>1, <1>5, FailureCounted DEF PostTimedOut
<1>6. CASE PostGarbled \/ Conclude
  BY <1>0, <1>6, RunReset DEF PostGarbled, Conclude, End
<1>7. ASSUME NEW answer \in Answers, PostAnswered(answer) PROVE CircuitInv'
  BY <1>0, <1>7, RunReset DEF PostAnswered, _record_success
<1>8. CASE UNCHANGED vars
  BY <1>1, <1>8 DEF vars
<1> QED BY <1>2, <1>3, <1>4, <1>5, <1>6, <1>7, <1>8 DEF Next, Work

\* swift_derived.py, _record_failure: for every threshold, the circuit opens on
\* every Threshold-th failure of an unbroken run and on no other, across
\* requests, timeouts, restarts of the service and clients of profiles.
THEOREM CircuitCountsARunAlways == Spec => []CircuitCountsARun
<1>1. Init => CircuitInv
  <2>1. 0 % Threshold = 0
    BY UniqueRemainder, PipelineAssumption
  <2> QED BY <2>1 DEF Init, CircuitInv, CircuitCountsARun
<1>2. CircuitInv => CircuitCountsARun
  BY DEF CircuitInv
<1> QED BY <1>1, <1>2, CircuitStep, PTL DEF Spec

-----------------------------------------------------------------------------
(* The request under way.                                                   *)

\* A sequence, whatever it holds.
IsSequence(s) == s \in Seq(Range(s))

\* A change that replaces no valid country code.
Keeps(e) ==
  /\ {"field", "before"} \subseteq DOMAIN e
  /\ e.field = "country" => e.before \notin CountryCodes
\* A sequence of them.
KeepsAll(changes) == IsSequence(changes) /\ \A e \in Range(changes) : Keeps(e)

\* The fields of a request; what it has proposed so far keeps valid codes.
RequestInv ==
  req # NoRequest =>
    /\ req = [pc |-> req.pc, in |-> req.in, todo |-> req.todo, k |-> req.k,
              attempt |-> req.attempt, reports |-> req.reports, repairs |-> req.repairs,
              changes |-> req.changes]
    /\ req.pc \in {"report", "repair"}
    /\ req.k \in Nat /\ req.attempt \in Nat
    /\ IsSequence(req.reports)
    /\ KeepsAll(req.changes)

\* Only the first attempt of a call looks at the circuit.  The later ones need
\* not: while a call is retried its circuit is closed and stays closed.
RetryInv ==
  /\ now \in Nat /\ openUntil \in [Clients -> Nat]
  /\ req.pc # "idle" /\ req.attempt > 0 => ~_circuit_open

PipelineInv == RequestInv /\ RetryInv /\ ForcedCountryKept

\* Its indices are 1..Len.
LEMMA SequenceDomain ==
  ASSUME NEW s, IsSequence(s)
  PROVE  DOMAIN s = 1..Len(s) /\ Len(s) \in Nat /\ \A i \in 1..Len(s) : s[i] \in Range(s)
BY DEF IsSequence, Range

\* Appending and concatenating.
LEMMA AppendSequence ==
  ASSUME NEW s, NEW e, IsSequence(s)
  PROVE  /\ IsSequence(Append(s, e))
         /\ DOMAIN Append(s, e) = 1..(Len(s) + 1)
         /\ Append(s, e)[Len(s) + 1] = e
<1> DEFINE S == Range(s) \cup {e}
           t == Append(s, e)
<1>1. s \in Seq(S) /\ e \in S
  BY DEF IsSequence
<1>2. t \in Seq(S) /\ Len(t) = Len(s) + 1 /\ Len(s) \in Nat /\ t[Len(s) + 1] = e
  BY <1>1
<1> HIDE DEF t
<1>3. DOMAIN t = 1..Len(t) /\ t \in [1..Len(t) -> Range(t)] /\ Len(t) \in Nat
  BY <1>2 DEF Range
<1>4. t \in Seq(Range(t))
  BY <1>3
<1> QED BY <1>2, <1>3, <1>4 DEF IsSequence, t

\* Changes that keep valid codes, one sequence after the other.
LEMMA KeepsConcatenated ==
  ASSUME NEW s, NEW t, KeepsAll(s), KeepsAll(t)
  PROVE  KeepsAll(s \o t)
<1> DEFINE S == Range(s) \cup Range(t)
           u == s \o t
<1>1. s \in Seq(S) /\ t \in Seq(S)
  BY DEF KeepsAll, IsSequence
<1>2. u \in Seq(S)
  BY <1>1
<1> HIDE DEF u, S
<1>3. DOMAIN u = 1..Len(u) /\ Len(u) \in Nat /\ \A i \in DOMAIN u : u[i] \in S
  BY <1>2
<1>4. Range(u) \subseteq S /\ u \in [1..Len(u) -> Range(u)]
  BY <1>2, <1>3 DEF Range
<1>5. u \in Seq(Range(u))
  BY <1>3, <1>4
<1> QED BY <1>4, <1>5 DEF KeepsAll, IsSequence, S, u

\* No change, or one, keeps them too.
LEMMA KeepsNothing == KeepsAll(<<>>)
BY DEF KeepsAll, IsSequence, Range

LEMMA KeepsOne ==
  ASSUME NEW e, Keeps(e)
  PROVE  KeepsAll(<<e>>)
BY DEF KeepsAll, IsSequence, Range

-----------------------------------------------------------------------------
(* A valid country code survives every provider.                            *)

\* generate_candidate hands on the changes it was given, but for their status.
LEMMA CandidateKeeps ==
  ASSUME NEW m, NEW changes, NEW configs, KeepsAll(changes)
  PROVE  \A i \in DOMAIN generate_candidate(m, changes, configs).changes :
            Keeps(generate_candidate(m, changes, configs).changes[i])
<1>1. \A i \in DOMAIN changes : Keeps(changes[i])
  BY DEF KeepsAll, Range
<1>2. \A i \in DOMAIN apply_changes(m, changes).applied : Keeps(apply_changes(m, changes).applied[i])
  BY <1>1 DEF apply_changes, Keeps
<1>3. \/ generate_candidate(m, changes, configs).changes = <<>>
      \/ generate_candidate(m, changes, configs).changes = apply_changes(m, changes).applied
      \/ generate_candidate(m, changes, configs).changes = changes
  BY DEF generate_candidate
<1> HIDE DEF generate_candidate, apply_changes
<1> QED BY <1>1, <1>2, <1>3

\* An analysis that agrees with a valid code proposes no other.
Agrees(analysis, addr) == addr.country \in CountryCodes => analysis.country = addr.country

\* generator.py: it yields only changes that keep a valid code.
LEMMA ProposalsKeep ==
  ASSUME NEW a, NEW analysis, Agrees(analysis, a.addr)
  PROVE  KeepsAll(ProposedChanges(a, analysis))
<1> DEFINE c == DiffEntry(a, "country", a.addr.country, analysis.country)
           t == DiffEntry(a, "town", a.addr.town, analysis.town)
           cs == IF analysis.country # None /\ a.addr.country # analysis.country THEN <<c>> ELSE <<>>
           ts == IF analysis.town # None /\ a.addr.town # analysis.town THEN <<t>> ELSE <<>>
<1>1. Keeps(t)
  BY DEF Keeps, DiffEntry
<1>2. a.addr.country # analysis.country => Keeps(c)
  BY DEF Keeps, DiffEntry, Agrees
<1> HIDE DEF c, t
<1>3. KeepsAll(cs)
  BY <1>2, KeepsNothing, KeepsOne
<1>4. KeepsAll(ts)
  BY <1>1, KeepsNothing, KeepsOne
<1>5. ProposedChanges(a, analysis) = cs \o ts
  BY DEF ProposedChanges, c, t
<1> HIDE DEF cs, ts
<1> QED BY <1>3, <1>4, <1>5, KeepsConcatenated

\* CloudNova keeps it, and so does a service that is forced to.
LEMMA FallbackAgrees ==
  ASSUME NEW addr
  PROVE  /\ FallbackAnalyze(_unavailable, addr).fallback
         /\ Agrees(FallbackAnalyze(_unavailable, addr), addr)
<1>1. CloudNovaAnalyze(addr).country = addr.country \/ addr.country \notin CountryCodes
  BY CodesAreUpperCase DEF CloudNovaAnalyze, is_valid_country_code
<1>2. {"country", "fallback"} \subseteq DOMAIN CloudNovaAnalyze(addr)
  BY DEF CloudNovaAnalyze
<1>3. FallbackAnalyze(_unavailable, addr) = [CloudNovaAnalyze(addr) EXCEPT !.fallback = TRUE]
  BY DEF FallbackAnalyze, _unavailable
<1> QED BY <1>1, <1>2, <1>3 DEF Agrees

\* swift_derived.py: an answer obeys the suggestion it was sent.
LEMMA AnswerAgrees ==
  ASSUME NEW addr, NEW answer \in structure(addr)
  PROVE  Agrees(FallbackAnalyze(_build_analysis(answer), addr), addr)
<1>1. FallbackAnalyze(_build_analysis(answer), addr) = _build_analysis(answer)
  BY DEF FallbackAnalyze, _build_analysis
<1>2. _build_analysis(answer).country = answer.country
  BY DEF _build_analysis
<1>3. addr.country \in CountryCodes => answer.country = addr.country
  BY DEF structure, _suggestion, is_valid_country_code
<1> QED BY <1>1, <1>2, <1>3 DEF Agrees

-----------------------------------------------------------------------------
(* The steps of a request.                                                  *)

\* The provider's result for one address enters the request.
LEMMA TakeStep ==
  ASSUME RequestInv, req.pc # "idle", NEW primary, Take(primary),
         Agrees(FallbackAnalyze(primary, Current.addr), Current.addr)
  PROVE  /\ RequestInv' /\ req'.pc = req.pc /\ req'.attempt = 0
         /\ req.pc = "report" =>
              req'.reports = Append(req.reports, FallbackAnalyze(primary, Current.addr))
<1> DEFINE analysis == FallbackAnalyze(primary, Current.addr)
           proposed == ProposedChanges(Current, analysis)
<1>1. KeepsAll(proposed)
  BY ProposalsKeep
<1>2. req' = IF req.pc = "report"
             THEN [req EXCEPT !.k = @ + 1, !.attempt = 0, !.reports = Append(@, analysis)]
             ELSE [req EXCEPT !.k = @ + 1, !.attempt = 0, !.repairs = Append(@, analysis),
                              !.changes = @ \o proposed]
  BY DEF Take
<1>3. req # NoRequest
  BY DEF NoRequest
<1>4. /\ req = [pc |-> req.pc, in |-> req.in, todo |-> req.todo, k |-> req.k,
                attempt |-> req.attempt, reports |-> req.reports, repairs |-> req.repairs,
                changes |-> req.changes]
      /\ req.pc \in {"report", "repair"} /\ req.k \in Nat
      /\ IsSequence(req.reports) /\ KeepsAll(req.changes)
  BY <1>3 DEF RequestInv
<1> HIDE DEF analysis, proposed
<1>5. IsSequence(Append(req.reports, analysis)) /\ KeepsAll(req.changes \o proposed)
  BY <1>1, <1>4, AppendSequence, KeepsConcatenated
<1> DEFINE reports == Append(req.reports, analysis)
           repairs == Append(req.repairs, analysis)
           changes == req.changes \o proposed
<1>6. \/ /\ req.pc = "report"
         /\ req' = [pc |-> req.pc, in |-> req.in, todo |-> req.todo, k |-> req.k + 1,
                    attempt |-> 0, reports |-> reports, repairs |-> req.repairs,
                    changes |-> req.changes]
      \/ /\ req.pc # "report"
         /\ req' = [pc |-> req.pc, in |-> req.in, todo |-> req.todo, k |-> req.k + 1,
                    attempt |-> 0, reports |-> req.reports, repairs |-> repairs,
                    changes |-> changes]
  BY <1>2, <1>4
<1>7. IsSequence(reports) /\ KeepsAll(changes)
  BY <1>5
<1> HIDE DEF reports, repairs, changes
<1>8. RequestInv' /\ req'.pc = req.pc /\ req'.attempt = 0
  BY <1>4, <1>6, <1>7 DEF RequestInv
<1>9. req.pc = "report" => req'.reports = reports
  BY <1>6
<1> QED BY <1>8, <1>9 DEF analysis, reports

\* A request that takes a result retries nothing.
LEMMA RetryAfterTake ==
  ASSUME RetryInv, req'.attempt = 0, now' = now,
         openUntil' = openUntil \/ openUntil' = [openUntil EXCEPT ![Client] = now + Cooldown]
  PROVE  RetryInv'
BY PipelineAssumption DEF RetryInv

\* The end of a request leaves none behind.
LEMMA EndStep ==
  ASSUME RetryInv, End, now' = now
  PROVE  RequestInv' /\ RetryInv' /\ req'.pc = "idle"
<1>1. req' = NoRequest /\ openUntil' \in [Clients -> Nat]
  BY DEF End, RetryInv
<1> QED BY <1>1 DEF RequestInv, RetryInv, NoRequest

\* No request, no result.
LEMMA PipelineInit == Init => PipelineInv
BY DEF Init, PipelineInv, RequestInv, RetryInv, ForcedCountryKept, NoRequest, NoResult

\* Every action keeps a request in shape and its retries below the circuit.
LEMMA PipelineStep == PipelineInv /\ [Next]_vars => PipelineInv'
<1> SUFFICES ASSUME PipelineInv, [Next]_vars PROVE PipelineInv'
  OBVIOUS
<1> USE DEF PipelineInv
<1>0. ASSUME UNCHANGED result PROVE ForcedCountryKept'
  BY <1>0 DEF ForcedCountryKept
<1>1. ASSUME NEW in \in Inputs, Receive(in) PROVE PipelineInv'
  <2>1. req.pc = "idle" /\ UNCHANGED <<now, openUntil>>
    BY <1>1 DEF Receive
  <2>2. ForcedCountryKept'
    <3>1. result' = Failed(Refusal(in)) \/ result' = [kind |-> "report", valid |-> in.message.sound]
          \/ result' = NoResult
      BY <1>1 DEF Receive
    <3>2. result'.kind # "analysis"
      BY <3>1 DEF Failed, NoResult
    <3> QED BY <3>2 DEF ForcedCountryKept
  <2>3. CASE req' = req
    BY <2>1, <2>2, <2>3 DEF RequestInv, RetryInv
  <2>4. CASE req' = [pc |-> "report", in |-> in, todo |-> AddressesOf(in.message),
                     k |-> 1, attempt |-> 0, reports |-> <<>>, repairs |-> <<>>, changes |-> <<>>]
    <3>1. IsSequence(<<>>) /\ KeepsAll(<<>>)
      BY KeepsNothing DEF KeepsAll
    <3>2. RequestInv'
      BY <2>4, <3>1 DEF RequestInv
    <3>3. RetryInv'
      BY <2>1, <2>4 DEF RetryInv
    <3> QED BY <2>2, <3>2, <3>3
  <2> QED BY <1>1, <2>3, <2>4 DEF Receive
<1>2. CASE SkipAddress
  <2>1. req # NoRequest /\ req.pc # "idle"
    BY <1>2 DEF SkipAddress, AtAddress, Visiting, NoRequest
  <2>2. /\ req' = [req EXCEPT !.k = @ + 1, !.repairs = Append(@, _unavailable)]
        /\ UNCHANGED <<now, openUntil, result>>
    BY <1>2 DEF SkipAddress
  <2> DEFINE more == Append(req.repairs, _unavailable)
  <2>3. req' = [pc |-> req.pc, in |-> req.in, todo |-> req.todo, k |-> req.k + 1,
                attempt |-> req.attempt, reports |-> req.reports, repairs |-> more,
                changes |-> req.changes]
    BY <2>1, <2>2 DEF RequestInv
  <2> HIDE DEF more
  <2>4. RequestInv'
    BY <2>1, <2>3 DEF RequestInv
  <2>5. RetryInv'
    BY <2>1, <2>2, <2>3 DEF RetryInv, _circuit_open, Client
  <2> QED BY <1>0, <2>2, <2>4, <2>5
<1>3. CASE Unavailable
  <2>1. req.pc # "idle" /\ Take(_unavailable) /\ UNCHANGED <<now, openUntil, result>>
    BY <1>3 DEF Unavailable, AtAddress, Visiting
  <2>2. RequestInv' /\ req'.attempt = 0
    BY <2>1, TakeStep, FallbackAgrees
  <2>3. RetryInv'
    BY <2>1, <2>2, RetryAfterTake
  <2> QED BY <1>0, <2>1, <2>2, <2>3
<1>4. ASSUME req.pc # "idle", Take(_unavailable), _record_failure, UNCHANGED <<now, result>>
      PROVE  PipelineInv'
  <2>1. RequestInv' /\ req'.attempt = 0
    BY <1>4, TakeStep, FallbackAgrees
  <2>2. RetryInv'
    BY <1>4, <2>1, RetryAfterTake DEF _record_failure
  <2> QED BY <1>0, <1>4, <2>1, <2>2
<1>5. CASE PostRefused
  BY <1>4, <1>5 DEF PostRefused, Calling, AtAddress, Visiting
<1>6. CASE PostTimedOut
  <2>1. req # NoRequest /\ req.pc # "idle" /\ Calling /\ UNCHANGED <<now, result>>
    BY <1>6 DEF PostTimedOut, Calling, AtAddress, Visiting, NoRequest
  <2>2. CASE req' = [req EXCEPT !.attempt = @ + 1] /\ UNCHANGED openUntil
    <3>1. req' = [pc |-> req.pc, in |-> req.in, todo |-> req.todo, k |-> req.k,
                  attempt |-> req.attempt + 1, reports |-> req.reports, repairs |-> req.repairs,
                  changes |-> req.changes]
      BY <2>1, <2>2 DEF RequestInv
    <3>2. RequestInv'
      BY <2>1, <3>1 DEF RequestInv
    <3>3. ~_circuit_open
      BY <2>1 DEF Calling, RetryInv, RequestInv
    <3>4. RetryInv'
      BY <2>1, <2>2, <3>1, <3>3 DEF RetryInv, _circuit_open, Client
    <3> QED BY <1>0, <2>1, <3>2, <3>4
  <2> QED BY <1>4, <1>6, <2>1, <2>2 DEF PostTimedOut
<1>7. ASSUME NEW answer \in Answers, PostAnswered(answer) PROVE PipelineInv'
  <2>1. /\ req.pc # "idle" /\ answer \in structure(Current.addr)
        /\ Take(_build_analysis(answer)) /\ UNCHANGED <<now, openUntil, result>>
    BY <1>7 DEF PostAnswered, Calling, AtAddress, Visiting, _record_success
  <2>2. RequestInv' /\ req'.attempt = 0
    BY <2>1, TakeStep, AnswerAgrees
  <2>3. RetryInv'
    BY <2>1, <2>2, RetryAfterTake
  <2> QED BY <1>0, <2>1, <2>2, <2>3
<1>8. CASE PostGarbled
  <2>1. End /\ result' = Failed("JSONDecodeError") /\ now' = now
    BY <1>8 DEF PostGarbled
  <2>2. ForcedCountryKept'
    BY <2>1 DEF ForcedCountryKept, Failed
  <2> QED BY <2>1, <2>2, EndStep
<1>9. CASE StartRepair
  <2>1. req # NoRequest /\ req.pc # "idle"
    BY <1>9 DEF StartRepair, NoRequest
  <2>2. /\ req' = [req EXCEPT !.pc = "repair", !.k = 1]
        /\ UNCHANGED <<now, openUntil, result>>
    BY <1>9 DEF StartRepair
  <2>3. req' = [pc |-> "repair", in |-> req.in, todo |-> req.todo, k |-> 1,
                attempt |-> req.attempt, reports |-> req.reports, repairs |-> req.repairs,
                changes |-> req.changes]
    BY <2>1, <2>2 DEF RequestInv
  <2>4. RequestInv'
    BY <2>1, <2>3 DEF RequestInv
  <2>5. RetryInv'
    BY <2>1, <2>2, <2>3 DEF RetryInv, _circuit_open, Client
  <2> QED BY <1>0, <2>2, <2>4, <2>5
<1>10. CASE Conclude
  <2> DEFINE candidate == generate_candidate(req.in.message, req.changes, RulesFor(req.in))
  <2>1. End /\ result' = Conclusion(req, candidate) /\ now' = now /\ req # NoRequest
    BY <1>10 DEF Conclude, Visiting, NoRequest
  <2>2. KeepsAll(req.changes)
    BY <2>1 DEF RequestInv
  <2>3. \A i \in DOMAIN candidate.changes : Keeps(candidate.changes[i])
    BY <2>2, CandidateKeeps
  <2> HIDE DEF candidate
  <2>4. result'.diff = IF req.in.repair THEN candidate.changes ELSE <<>>
    BY <2>1 DEF Conclusion
  <2>5. ForcedCountryKept'
    BY <2>3, <2>4 DEF ForcedCountryKept, Keeps
  <2> QED BY <2>1, <2>5, EndStep
<1>11. CASE Tick
  <2>1. now \in Nat /\ now' = now + 1 /\ UNCHANGED <<openUntil, req, result>>
    BY <1>11 DEF Tick, RetryInv
  <2>2. Client' = Client /\ openUntil[Client] \in Nat
    BY <2>1 DEF RetryInv, Client, Clients
  <2>3. ~_circuit_open => ~_circuit_open'
    BY <2>1, <2>2 DEF _circuit_open
  <2> QED BY <1>0, <2>1, <2>3 DEF RequestInv, RetryInv
<1>12. CASE ServiceRestart \/ UNCHANGED vars
  BY <1>0, <1>12 DEF ServiceRestart, vars, RequestInv, RetryInv, _circuit_open, Client
<1> QED
  BY <1>1, <1>2, <1>3, <1>5, <1>6, <1>7, <1>8, <1>9, <1>10, <1>11, <1>12 DEF Next, Work

\* swift_derived.py, _suggestion, and generator.py: for every answer, failure
\* and fallback, no repair replaces a valid country code.
THEOREM ForcedCountryKeptAlways == Spec => []ForcedCountryKept
<1>1. PipelineInv => ForcedCountryKept
  BY DEF PipelineInv
<1> QED BY <1>1, PipelineInit, PipelineStep, PTL DEF Spec

-----------------------------------------------------------------------------
(* An open circuit is silent.                                               *)

\* What a step does while the circuit of its client is open.
Silent ==
  req.pc = "report" /\ req'.pc = "report" /\ _circuit_open =>
    /\ streak' = streak
    /\ \A i \in DOMAIN req'.reports \ DOMAIN req.reports : req'.reports[i].fallback

\* A step that calls the service finds the circuit closed; one that does not
\* reports the address by the fallback, or reports none.
LEMMA SilentStep == PipelineInv /\ [Next]_vars => Silent
<1> SUFFICES ASSUME PipelineInv, [Next]_vars, req.pc = "report", req'.pc = "report", _circuit_open
             PROVE  /\ streak' = streak
                    /\ \A i \in DOMAIN req'.reports \ DOMAIN req.reports : req'.reports[i].fallback
  BY DEF Silent
<1>0. req # NoRequest
  BY DEF NoRequest
<1>1. ~Calling
  <2>1. req.attempt \in Nat
    BY <1>0 DEF PipelineInv, RequestInv
  <2> QED BY <2>1 DEF PipelineInv, RetryInv, Calling
<1>2. ~PostRefused /\ ~PostTimedOut /\ ~PostGarbled /\ \A answer \in Answers : ~PostAnswered(answer)
  BY <1>1 DEF PostRefused, PostTimedOut, PostGarbled, PostAnswered
<1>3. ~Conclude
  BY DEF Conclude, End, NoRequest
<1>4. ~StartRepair
  <2>1. ASSUME StartRepair PROVE req'.pc = "repair"
    BY <1>0, <2>1 DEF StartRepair, PipelineInv, RequestInv
  <2> QED BY <2>1
<1>5. ~SkipAddress /\ \A in \in Inputs : ~Receive(in)
  BY DEF SkipAddress, Skipped, Receive
<1>6. CASE Unavailable
  <2>1. Take(_unavailable) /\ streak' = streak
    BY <1>6 DEF Unavailable
  <2> DEFINE analysis == FallbackAnalyze(_unavailable, Current.addr)
  <2>2. req'.reports = Append(req.reports, analysis) /\ analysis.fallback
    BY <2>1, TakeStep, FallbackAgrees DEF PipelineInv
  <2> HIDE DEF analysis
  <2>3. IsSequence(req.reports)
    BY <1>0 DEF PipelineInv, RequestInv
  <2>4. /\ DOMAIN req'.reports = 1..(Len(req.reports) + 1)
        /\ req'.reports[Len(req.reports) + 1].fallback
        /\ DOMAIN req.reports = 1..Len(req.reports) /\ Len(req.reports) \in Nat
    BY <2>2, <2>3, AppendSequence, SequenceDomain
  <2>5. \A i \in DOMAIN req'.reports \ DOMAIN req.reports : i = Len(req.reports) + 1
    BY <2>4
  <2> QED BY <2>1, <2>4, <2>5
<1>7. CASE Tick \/ ServiceRestart \/ UNCHANGED vars
  BY <1>7 DEF Tick, ServiceRestart, vars
<1> QED BY <1>2, <1>3, <1>4, <1>5, <1>6, <1>7 DEF Next, Work

\* swift_derived.py, _circuit_open: during the cooldown of its circuit a
\* request gets neither an answer nor a counted failure from the service,
\* retries included, although only the first attempt looks at the circuit.
THEOREM OpenCircuitIsSilentAlways == Spec => OpenCircuitIsSilent
<1>1. PipelineInv /\ [Next]_vars => [Silent]_vars
  BY SilentStep
<1>2. OpenCircuitIsSilent <=> [][Silent]_vars
  BY DEF OpenCircuitIsSilent, Silent
<1> QED BY <1>1, <1>2, PipelineInit, PipelineStep, PTL DEF Spec

-----------------------------------------------------------------------------
(* Induction, and sequences joined.                                         *)

\* The order a proof by induction goes down.
Descends == {p \in Nat \X Nat : p[1] < p[2]}

\* A set of natural numbers that has 0, and with a number the next one, has all.
LEMMA InductionOverNat ==
  ASSUME NEW T, T \subseteq Nat, 0 \in T, \A n \in T : n + 1 \in T
  PROVE  T = Nat
<1> SUFFICES ASSUME Nat \ T # {} PROVE FALSE
  OBVIOUS
<1>1. IsWellFoundedOn(Descends, Nat)
  BY Zenon, NatLessThanWellFounded DEF OpToRel, Descends
<1>2. PICK n \in Nat \ T : \A m \in Nat \ T : ~(<<m, n>> \in Descends)
  <2>1. Nat \ T \subseteq Nat
    OBVIOUS
  <2> QED BY <1>1, <2>1, WFMin
<1>3. n - 1 \in Nat /\ n - 1 \notin T
  <2>1. n # 0
    OBVIOUS
  <2>2. n - 1 \in Nat /\ (n - 1) + 1 = n
    BY <2>1
  <2> QED BY <2>2
<1>4. <<n - 1, n>> \in Descends
  BY <1>3 DEF Descends
<1> QED BY <1>2, <1>3, <1>4

\* Two sequences, one after the other.
LEMMA Concatenation ==
  ASSUME NEW s, NEW t, IsSequence(s), IsSequence(t)
  PROVE  /\ IsSequence(s \o t) /\ Range(s \o t) = Range(s) \cup Range(t)
         /\ DOMAIN (s \o t) = 1..(Len(s) + Len(t))
         /\ \A j \in 1..Len(s) : (s \o t)[j] = s[j]
         /\ \A j \in 1..Len(t) : (s \o t)[Len(s) + j] = t[j]
<1> DEFINE S == Range(s) \cup Range(t)
           u == s \o t
           m == Len(s)
           n == Len(t)
<1>1. s \in Seq(S) /\ t \in Seq(S)
  BY DEF IsSequence
<1>2. DOMAIN s = 1..m /\ DOMAIN t = 1..n /\ m \in Nat /\ n \in Nat
  BY <1>1
<1>3. u \in Seq(S) /\ Len(u) = m + n /\ DOMAIN u = 1..(m + n)
  BY <1>1
<1>4. /\ \A j \in 1..m : u[j] = s[j]
      /\ \A j \in 1..n : u[m + j] = t[j]
  BY <1>1
<1> HIDE DEF u, m, n
<1>5. \A j \in 1..(m + n) : j \in 1..m \/ (j - m \in 1..n /\ j = m + (j - m))
  BY <1>2
<1>6. \A j \in 1..n : m + j \in 1..(m + n)
  BY <1>2
<1>7. \A j \in 1..m : j \in 1..(m + n)
  BY <1>2
<1>8. Range(u) = Range(s) \cup Range(t)
  <2>1. ASSUME NEW j \in DOMAIN u PROVE u[j] \in Range(s) \cup Range(t)
    <3>1. CASE j \in 1..m
      BY <1>2, <1>4, <3>1 DEF Range
    <3>2. CASE j - m \in 1..n /\ j = m + (j - m)
      <4>1. u[j] = t[j - m]
        BY <1>4, <3>2
      <4> QED BY <1>2, <3>2, <4>1 DEF Range
    <3> QED BY <1>3, <1>5, <3>1, <3>2
  <2>2. ASSUME NEW j \in DOMAIN s PROVE s[j] \in Range(u)
    <3>1. j \in DOMAIN u /\ u[j] = s[j]
      BY <1>2, <1>3, <1>4, <1>7
    <3> QED BY <3>1 DEF Range
  <2>3. ASSUME NEW j \in DOMAIN t PROVE t[j] \in Range(u)
    <3>1. m + j \in DOMAIN u /\ u[m + j] = t[j]
      BY <1>2, <1>3, <1>4, <1>6
    <3> QED BY <3>1 DEF Range
  <2> QED BY <2>1, <2>2, <2>3 DEF Range
<1>9. u \in Seq(Range(u))
  BY <1>3, <1>8
<1> QED BY <1>3, <1>4, <1>8, <1>9 DEF IsSequence, u, m, n

-----------------------------------------------------------------------------
(* The addresses of a message, in a row.                                    *)

\* The place of an address: its transaction and its party.
KeyOf(e) == <<e.tx, e.label>>

\* Addresses of m at some of the places in K, no two of one place.
AddressList(s, m, K) ==
  /\ IsSequence(s)
  /\ \A j \in DOMAIN s : /\ KeyOf(s[j]) \in K
                         /\ s[j].label \in _addresses(m.txs[s[j].tx])
                         /\ s[j].addr = m.txs[s[j].tx].addresses[s[j].label]
  /\ \A j, k \in DOMAIN s : KeyOf(s[j]) = KeyOf(s[k]) => j = k

\* One party lists its address, if it has one,
LEMMA ListOfOne ==
  ASSUME NEW m, NEW i, NEW l
  PROVE  AddressList(AddressAt(m, i, l), m, {<<i, l>>})
<1>1. CASE l \in _addresses(m.txs[i])
  <2> DEFINE e == [tx |-> i, label |-> l, addr |-> m.txs[i].addresses[l]]
  <2>1. AddressAt(m, i, l) = <<e>>
    BY <1>1 DEF AddressAt
  <2>2. KeyOf(e) = <<i, l>> /\ e.label = l /\ e.tx = i /\ e.addr = m.txs[i].addresses[l]
    BY DEF KeyOf
  <2> HIDE DEF e
  <2>3. DOMAIN <<e>> = {1} /\ <<e>>[1] = e /\ IsSequence(<<e>>)
    BY DEF IsSequence, Range
  <2>4. ASSUME NEW s, DOMAIN s = {1}, s[1] = e, IsSequence(s)
        PROVE  AddressList(s, m, {<<i, l>>})
    BY <1>1, <2>2, <2>4 DEF AddressList
  <2> QED BY <2>1, <2>3, <2>4
<1>2. CASE l \notin _addresses(m.txs[i])
  <2>1. AddressAt(m, i, l) = <<>>
    BY <1>2 DEF AddressAt
  <2>2. DOMAIN <<>> = {} /\ IsSequence(<<>>)
    BY DEF IsSequence, Range
  <2> QED BY <2>1, <2>2 DEF AddressList
<1> QED BY <1>1, <1>2

\* and lists of different places make one list.
LEMMA ListsJoined ==
  ASSUME NEW m, NEW s, NEW t, NEW K, NEW L, AddressList(s, m, K), AddressList(t, m, L),
         K \cap L = {}
  PROVE  AddressList(s \o t, m, K \cup L)
<1> DEFINE u == s \o t
           a == Len(s)
           b == Len(t)
<1>1. /\ IsSequence(u) /\ DOMAIN u = 1..(a + b)
      /\ \A j \in 1..a : u[j] = s[j]
      /\ \A j \in 1..b : u[a + j] = t[j]
  BY Concatenation DEF AddressList
<1>2. DOMAIN s = 1..a /\ DOMAIN t = 1..b /\ a \in Nat /\ b \in Nat
  BY SequenceDomain DEF AddressList
<1> HIDE DEF u, a, b
<1>3. \A j \in DOMAIN u : \/ j \in DOMAIN s /\ u[j] = s[j]
                          \/ j - a \in DOMAIN t /\ u[j] = t[j - a]
  <2> TAKE j \in DOMAIN u
  <2>1. CASE j \in 1..a
    BY <1>1, <1>2, <2>1
  <2>2. CASE j \notin 1..a
    <3>1. j - a \in 1..b /\ a + (j - a) = j
      BY <1>1, <1>2, <2>2
    <3> QED BY <1>1, <1>2, <3>1
  <2> QED BY <2>1, <2>2
<1>4. \A j \in DOMAIN u : /\ KeyOf(u[j]) \in K \cup L
                          /\ u[j].label \in _addresses(m.txs[u[j].tx])
                          /\ u[j].addr = m.txs[u[j].tx].addresses[u[j].label]
  BY <1>3 DEF AddressList
<1>5. ASSUME NEW j \in DOMAIN u, NEW k \in DOMAIN u, KeyOf(u[j]) = KeyOf(u[k])
      PROVE  j = k
  <2>1. CASE j \in DOMAIN s /\ u[j] = s[j] /\ k \in DOMAIN s /\ u[k] = s[k]
    BY <1>5, <2>1 DEF AddressList
  <2>2. CASE j \in DOMAIN s /\ u[j] = s[j] /\ k - a \in DOMAIN t /\ u[k] = t[k - a]
    BY <1>5, <2>2 DEF AddressList
  <2>3. CASE k \in DOMAIN s /\ u[k] = s[k] /\ j - a \in DOMAIN t /\ u[j] = t[j - a]
    BY <1>5, <2>3 DEF AddressList
  <2>4. CASE j - a \in DOMAIN t /\ u[j] = t[j - a] /\ k - a \in DOMAIN t /\ u[k] = t[k - a]
    <3>1. j - a = k - a
      BY <1>5, <2>4 DEF AddressList
    <3>2. j \in Int /\ k \in Int
      BY <1>1, <1>2
    <3> QED BY <1>2, <3>1, <3>2
  <2> QED BY <1>3, <2>1, <2>2, <2>3, <2>4
<1> QED BY <1>1, <1>4, <1>5 DEF AddressList, u

\* The addresses of one transaction.
OfTransaction(m, i) ==
  AddressAt(m, i, "Dbtr") \o AddressAt(m, i, "Cdtr")
    \o AddressAt(m, i, "DbtrAgt") \o AddressAt(m, i, "CdtrAgt")

\* The four parties of a transaction are four places.
LEMMA ListOfTransaction ==
  ASSUME NEW m, NEW i
  PROVE  AddressList(OfTransaction(m, i), m, {i} \X Labels)
<1> DEFINE At(l) == AddressAt(m, i, l)
           one == At("Dbtr") \o At("Cdtr")
           two == one \o At("DbtrAgt")
           K(S) == {i} \X S
<1>1. \A l : AddressList(At(l), m, K({l}))
  <2> TAKE l
  <2>1. K({l}) = {<<i, l>>}
    OBVIOUS
  <2> QED BY <2>1, ListOfOne
<1>2. \A S, R : (\A l \in S : l \notin R) => K(S) \cap K(R) = {} /\ K(S) \cup K(R) = K(S \cup R)
  OBVIOUS
<1> HIDE DEF At, K
<1>3. AddressList(one, m, K({"Dbtr", "Cdtr"}))
  <2>1. /\ K({"Dbtr"}) \cap K({"Cdtr"}) = {}
        /\ K({"Dbtr"}) \cup K({"Cdtr"}) = K({"Dbtr", "Cdtr"})
    <3>1. {"Dbtr"} \cup {"Cdtr"} = {"Dbtr", "Cdtr"} /\ \A l \in {"Dbtr"} : l \notin {"Cdtr"}
      OBVIOUS
    <3> QED BY <1>2, <3>1
  <2> QED BY <1>1, <2>1, ListsJoined
<1> HIDE DEF one
<1>4. AddressList(two, m, K({"Dbtr", "Cdtr", "DbtrAgt"}))
  <2>1. /\ K({"Dbtr", "Cdtr"}) \cap K({"DbtrAgt"}) = {}
        /\ K({"Dbtr", "Cdtr"}) \cup K({"DbtrAgt"}) = K({"Dbtr", "Cdtr", "DbtrAgt"})
    <3>1. /\ {"Dbtr", "Cdtr"} \cup {"DbtrAgt"} = {"Dbtr", "Cdtr", "DbtrAgt"}
          /\ \A l \in {"Dbtr", "Cdtr"} : l \notin {"DbtrAgt"}
      OBVIOUS
    <3> QED BY <1>2, <3>1
  <2> QED BY <1>1, <1>3, <2>1, ListsJoined
<1> HIDE DEF two
<1>5. AddressList(two \o At("CdtrAgt"), m, K(Labels))
  <2>1. /\ K({"Dbtr", "Cdtr", "DbtrAgt"}) \cap K({"CdtrAgt"}) = {}
        /\ K({"Dbtr", "Cdtr", "DbtrAgt"}) \cup K({"CdtrAgt"}) = K(Labels)
    <3>1. /\ {"Dbtr", "Cdtr", "DbtrAgt"} \cup {"CdtrAgt"} = Labels
          /\ \A l \in {"Dbtr", "Cdtr", "DbtrAgt"} : l \notin {"CdtrAgt"}
      BY DEF Labels
    <3> QED BY <1>2, <3>1
  <2> QED BY <1>1, <1>4, <2>1, ListsJoined
<1>6. OfTransaction(m, i) = two \o At("CdtrAgt")
  BY DEF OfTransaction, two, one, At
<1> QED BY <1>5, <1>6 DEF K

\* What the recursion under FlattenSeq asks of the function it defines.
Flattens(seqs, P, f) ==
  f = [i \in P |-> IF i = 1 THEN seqs[i] ELSE f[i - 1] \o seqs[i]]

\* Sequences are flattened one after the other.
LEMMA FlattenedOneByOne ==
  ASSUME NEW seqs, NEW n \in Nat \ {0}, Len(seqs) = n
  PROVE  \E f : /\ f[1] = seqs[1]
                /\ \A i \in 2..n : f[i] = f[i - 1] \o seqs[i]
                /\ FlattenSeq(seqs) = f[n]
<1> DEFINE T == {k \in Nat : \E f : Flattens(seqs, 1..k, f)}
<1>1. 0 \in T
  <2>1. 1..0 = {}
    OBVIOUS
  <2>2. Flattens(seqs, 1..0, [i \in 1..0 |-> i])
    BY <2>1 DEF Flattens
  <2> QED BY <2>2
<1>2. ASSUME NEW k \in T PROVE k + 1 \in T
  <2>1. PICK f : Flattens(seqs, 1..k, f)
    OBVIOUS
  <2> DEFINE Step(i, g) == IF i = 1 THEN seqs[i] ELSE g[i - 1] \o seqs[i]
             h == [i \in 1..(k + 1) |-> Step(i, f)]
  <2>2. \A i \in 1..k : f[i] = Step(i, f)
    BY <2>1, Zenon DEF Flattens
  <2>3. \A i \in 1..k : i \in 1..(k + 1)
    OBVIOUS
  <2>4. \A i \in 1..k : f[i] = h[i]
    BY <2>2, <2>3
  <2>5. \A i \in 1..(k + 1) : i # 1 => i - 1 \in 1..k
    OBVIOUS
  <2>6. \A i \in 1..(k + 1) : Step(i, f) = Step(i, h)
    BY <2>4, <2>5
  <2>7. h = [i \in 1..(k + 1) |-> Step(i, h)]
    <3> HIDE DEF Step
    <3>1. h = [i \in 1..(k + 1) |-> Step(i, f)]
      OBVIOUS
    <3> HIDE DEF h
    <3> QED BY <2>6, <3>1
  <2>8. Flattens(seqs, 1..(k + 1), h)
    <3> HIDE DEF h
    <3> QED BY <2>7 DEF Flattens
  <2> HIDE DEF h
  <2> QED BY <2>8
<1>3. T = Nat
  <2> HIDE DEF T
  <2>1. T \subseteq Nat
    BY DEF T
  <2> QED BY <1>1, <1>2, <2>1, InductionOverNat
<1> DEFINE f == CHOOSE g : Flattens(seqs, 1..n, g)
<1>4. Flattens(seqs, 1..n, f)
  BY <1>3
<1>5. FlattenSeq(seqs) = f[n]
  BY DEF FlattenSeq, Flattens
<1> HIDE DEF f
<1>6. \A i \in 1..n : f[i] = IF i = 1 THEN seqs[i] ELSE f[i - 1] \o seqs[i]
  BY <1>4, Zenon DEF Flattens
<1>7. 1 \in 1..n /\ \A i \in 2..n : i \in 1..n /\ i # 1
  OBVIOUS
<1> QED BY <1>5, <1>6, <1>7

\* The addresses of a message are those of its transactions, one after another;
\* no party of a transaction has two.
LEMMA AddressesListed ==
  ASSUME NEW m, IsSequence(m.txs)
  PROVE  AddressList(AddressesOf(m), m, (DOMAIN m.txs) \X Labels)
<1> DEFINE seqs == [i \in DOMAIN m.txs |-> OfTransaction(m, i)]
           n == Len(m.txs)
<1>1. AddressesOf(m) = FlattenSeq(seqs)
  BY DEF AddressesOf, OfTransaction
<1>2. n \in Nat /\ DOMAIN m.txs = 1..n
  BY SequenceDomain
<1>3. Len(seqs) = n /\ DOMAIN seqs = 1..n
  <2>1. seqs \in [1..n -> Range(seqs)]
    BY <1>2 DEF Range
  <2> HIDE DEF seqs, n
  <2> QED BY <1>2, <2>1
<1>4. \A i \in 1..n : seqs[i] = OfTransaction(m, i)
  BY <1>2
<1> HIDE DEF seqs, n
<1>5. CASE n = 0
  <2>1. AddressesOf(m) = seqs /\ DOMAIN seqs = {}
    BY <1>1, <1>3, <1>5 DEF FlattenSeq
  <2>2. IsSequence(seqs)
    <3>1. seqs \in [1..0 -> Range(seqs)]
      BY <1>3, <1>5, <2>1 DEF seqs, Range
    <3> QED BY <3>1 DEF IsSequence
  <2> QED BY <2>1, <2>2 DEF AddressList
<1>6. CASE n # 0
  <2>1. n \in Nat \ {0}
    BY <1>2, <1>6
  <2>2. PICK f : /\ f[1] = seqs[1]
                 /\ \A i \in 2..n : f[i] = f[i - 1] \o seqs[i]
                 /\ FlattenSeq(seqs) = f[n]
    BY <1>3, <2>1, FlattenedOneByOne
  <2> DEFINE Kth(k) == (1..k) \X Labels
             Good(k) == k \in 1..n => AddressList(f[k], m, Kth(k))
             P == {k \in Nat : Good(k)}
  <2>3. 0 \in P
    OBVIOUS
  <2>4. ASSUME NEW k \in P PROVE k + 1 \in P
    <3>0. Good(k) /\ k \in Nat
      OBVIOUS
    <3> SUFFICES ASSUME k + 1 \in 1..n PROVE AddressList(f[k + 1], m, Kth(k + 1))
      <4> DEFINE j == k + 1
      <4>1. j \in Nat
        BY <3>0
      <4> HIDE DEF j
      <4>2. (j \in 1..n => AddressList(f[j], m, Kth(j))) => j \in P
        BY <4>1
      <4> QED BY <4>2 DEF j
    <3>1. k \in Nat /\ k + 1 \in 1..n
      BY <3>0
    <3>2. AddressList(seqs[k + 1], m, {k + 1} \X Labels)
      BY <1>4, <3>1, ListOfTransaction
    <3>3. CASE k = 0
      <4>1. Kth(k + 1) = {k + 1} \X Labels /\ f[k + 1] = seqs[k + 1]
        BY <2>2, <3>3
      <4> QED BY <3>2, <4>1
    <3>4. CASE k # 0
      <4>0. k \in 1..n
        BY <2>1, <3>1, <3>4
      <4>1. AddressList(f[k], m, Kth(k))
        BY <3>0, <4>0
      <4>2. k + 1 \in 2..n /\ (k + 1) - 1 = k
        BY <3>1, <3>4
      <4>3. f[k + 1] = f[k] \o seqs[k + 1]
        BY <2>2, <4>2
      <4>4. /\ Kth(k) \cap ({k + 1} \X Labels) = {}
            /\ Kth(k) \cup ({k + 1} \X Labels) = Kth(k + 1)
        <5>1. (1..k) \cup {k + 1} = 1..(k + 1) /\ k + 1 \notin 1..k
          BY <3>1
        <5> QED BY <5>1
      <4> HIDE DEF Kth, P
      <4>5. AddressList(f[k] \o seqs[k + 1], m, Kth(k) \cup ({k + 1} \X Labels))
        BY <3>2, <4>1, <4>4, ListsJoined
      <4> QED BY <4>3, <4>4, <4>5
    <3> QED BY <3>3, <3>4
  <2>5. P = Nat
    <3> HIDE DEF P
    <3>1. P \subseteq Nat
      BY DEF P
    <3> QED BY <2>3, <2>4, <3>1, InductionOverNat
  <2>6. AddressList(f[n], m, Kth(n))
    <3>1. n \in P /\ n \in 1..n
      BY <2>1, <2>5
    <3>2. Good(n)
      BY <3>1
    <3> QED BY <3>1, <3>2
  <2> QED BY <1>1, <1>2, <2>2, <2>6
<1> QED BY <1>5, <1>6

-----------------------------------------------------------------------------
(* The changes, one by one.                                                 *)

\* The parts of S with up to n elements.
Small(S, n) == {s \in SUBSET S : Cardinality(s) <= n}

\* The element that a fold over a sequence takes last.
Biggest(s) == CHOOSE x \in s : \A y \in s : x >= y

\* A set of the first numbers has a biggest element,
LEMMA BiggestIsThere ==
  ASSUME NEW n \in Nat, NEW s \in SUBSET (1..n), s # {}
  PROVE  Biggest(s) \in s
<1> DEFINE T == {m \in Nat : \A r \in SUBSET (1..m) : r # {} => \E x \in r : \A y \in r : x >= y}
<1>1. 0 \in T
  <2>1. 1..0 = {}
    OBVIOUS
  <2> QED BY <2>1
<1>2. ASSUME NEW m \in T PROVE m + 1 \in T
  <2> SUFFICES ASSUME NEW r \in SUBSET (1..(m + 1)), r # {}
               PROVE  \E x \in r : \A y \in r : x >= y
    OBVIOUS
  <2>1. CASE m + 1 \in r
    BY <2>1
  <2>2. CASE m + 1 \notin r
    <3>1. r \in SUBSET (1..m)
      BY <2>2
    <3> QED BY <3>1
  <2> QED BY <2>1, <2>2
<1>3. T = Nat
  <2> HIDE DEF T
  <2>1. T \subseteq Nat
    BY DEF T
  <2> QED BY <1>1, <1>2, <2>1, InductionOverNat
<1>4. \E x \in s : \A y \in s : x >= y
  BY <1>3
<1> QED BY <1>4 DEF Biggest

\* the one up to k has k, and without it is the one up to k - 1.
LEMMA FirstNumbers ==
  ASSUME NEW n \in Nat, NEW k \in 1..n
  PROVE  /\ 1..k \in SUBSET (1..n) /\ 1..k # {}
         /\ Biggest(1..k) = k /\ (1..k) \ {k} = 1..(k - 1)
<1>1. 1..k \in SUBSET (1..n) /\ 1..k # {} /\ (1..k) \ {k} = 1..(k - 1)
  OBVIOUS
<1>2. Biggest(1..k) = k
  <2> DEFINE b == Biggest(1..k)
  <2>1. \E x \in 1..k : \A y \in 1..k : x >= y
    OBVIOUS
  <2>2. b \in 1..k /\ \A y \in 1..k : b >= y
    BY <2>1 DEF Biggest
  <2> HIDE DEF b
  <2>3. b = k
    BY <2>2
  <2> QED BY <2>3 DEF b
<1> QED BY <1>1, <1>2

\* To take the biggest leaves a smaller set.
LEMMA SubsetsShrink ==
  ASSUME NEW n \in Nat, NEW s \in SUBSET (1..n)
  PROVE  /\ IsFiniteSet(s) /\ Cardinality(s) \in Nat /\ (Cardinality(s) = 0 <=> s = {})
         /\ s # {} => Biggest(s) \in s /\ Cardinality(s \ {Biggest(s)}) = Cardinality(s) - 1
<1>1. IsFiniteSet(s)
  <2>1. 1 \in Int /\ n \in Int
    OBVIOUS
  <2>2. IsFiniteSet(1..n)
    BY <2>1, FS_Interval, Zenon
  <2> QED BY <2>2, FS_Subset
<1>2. s # {} => Biggest(s) \in s
  BY BiggestIsThere
<1> QED BY <1>1, <1>2, FS_CardinalityType, FS_EmptySet, FS_RemoveElement

\* What the fold under apply_changes asks of the function it defines.
SetsSubsets(message, changes, P, g) ==
  g = [s \in P |-> IF s = {} THEN message
                   ELSE SetField(g[s \ {Biggest(s)}], changes[Biggest(s)])]

\* There is a function as the fold asks for one.
LEMMA SetFoldExists ==
  ASSUME NEW n \in Nat, NEW message, NEW changes
  PROVE  \E g : SetsSubsets(message, changes, SUBSET (1..n), g)
<1> DEFINE S == 1..n
           T == {m \in Nat : \E g : SetsSubsets(message, changes, Small(S, m), g)}
<1>1. 0 \in T
  <2>1. Small(S, 0) = {{}}
    <3>1. ASSUME NEW s \in SUBSET S PROVE Cardinality(s) <= 0 <=> s = {}
      <4>1. Cardinality(s) \in Nat /\ (Cardinality(s) = 0 <=> s = {})
        BY SubsetsShrink
      <4> QED BY <4>1
    <3> QED BY <3>1 DEF Small
  <2>2. SetsSubsets(message, changes, Small(S, 0),
                    [s \in Small(S, 0) |-> message])
    BY <2>1 DEF SetsSubsets
  <2> QED BY <2>2
<1>2. ASSUME NEW m \in T PROVE m + 1 \in T
  <2>1. PICK g : SetsSubsets(message, changes, Small(S, m), g)
    OBVIOUS
  <2> DEFINE Step(s, f) == IF s = {} THEN message
                           ELSE SetField(f[s \ {Biggest(s)}], changes[Biggest(s)])
             h == [s \in Small(S, m + 1) |-> Step(s, g)]
  <2>2. \A s \in Small(S, m + 1) : s # {} => s \ {Biggest(s)} \in Small(S, m)
    <3> SUFFICES ASSUME NEW s \in Small(S, m + 1), s # {}
                 PROVE  s \ {Biggest(s)} \in Small(S, m)
      OBVIOUS
    <3>1. s \in SUBSET S /\ Cardinality(s) <= m + 1
      BY DEF Small
    <3>2. Cardinality(s \ {Biggest(s)}) = Cardinality(s) - 1 /\ Cardinality(s) \in Nat
      BY <3>1, SubsetsShrink
    <3>3. s \ {Biggest(s)} \in SUBSET S /\ Cardinality(s \ {Biggest(s)}) <= m
      <4> HIDE DEF T
      <4> DEFINE c == Cardinality(s)
                 e == Cardinality(s \ {Biggest(s)})
      <4>1. c \in Nat /\ e = c - 1 /\ c <= m + 1 /\ m \in Nat
        BY <3>1, <3>2 DEF T
      <4> HIDE DEF c, e
      <4>2. e <= m
        BY <4>1
      <4> QED BY <3>1, <4>2 DEF e
    <3> QED BY <3>3 DEF Small
  <2>3. \A s \in Small(S, m) : s \in Small(S, m + 1)
    <3>1. ASSUME NEW s \in SUBSET S, Cardinality(s) <= m PROVE Cardinality(s) <= m + 1
      <4>1. Cardinality(s) \in Nat
        BY SubsetsShrink
      <4> QED BY <3>1, <4>1
    <3> QED BY <3>1 DEF Small
  <2>4. \A s \in Small(S, m) : g[s] = Step(s, g)
    BY <2>1, Zenon DEF SetsSubsets
  <2>5. \A s \in Small(S, m) : g[s] = h[s]
    BY <2>3, <2>4
  <2>6. \A s \in Small(S, m + 1) : Step(s, g) = Step(s, h)
    BY <2>2, <2>5
  <2>7. h = [s \in Small(S, m + 1) |-> Step(s, h)]
    <3> HIDE DEF Step
    <3>1. h = [s \in Small(S, m + 1) |-> Step(s, g)]
      OBVIOUS
    <3> HIDE DEF h
    <3> QED BY <2>6, <3>1
  <2>8. SetsSubsets(message, changes, Small(S, m + 1), h)
    <3> HIDE DEF h
    <3> QED BY <2>7 DEF SetsSubsets
  <2> HIDE DEF h
  <2> QED BY <2>8
<1>3. T = Nat
  <2> HIDE DEF T
  <2>1. T \subseteq Nat
    BY DEF T
  <2> QED BY <1>1, <1>2, <2>1, InductionOverNat
<1>4. n \in T
  BY <1>3
<1>5. Cardinality(S) \in T
  BY <1>3, SubsetsShrink
<1>6. Small(S, Cardinality(S)) = SUBSET S
  <2>1. IsFiniteSet(S)
    BY SubsetsShrink
  <2> QED BY <2>1, FS_Subset DEF Small
<1> QED BY <1>5, <1>6

\* done[k] is the message after the first k changes.
Steps(message, changes, n, done) ==
  /\ done[0] = message
  /\ \A k \in 1..n : done[k] = SetField(done[k - 1], changes[k])
  /\ FoldLeft(SetField, message, changes) = done[n]

\* xml_reconstruction.py, apply_changes: the changes are made one by one.
LEMMA ChangedOneByOne ==
  ASSUME NEW message, NEW changes, NEW n \in Nat, DOMAIN changes = 1..n
  PROVE  \E done : Steps(message, changes, n, done)
<1> DEFINE g == CHOOSE f : SetsSubsets(message, changes, SUBSET (1..n), f)
           done == [k \in 0..n |-> g[1..k]]
<1>1. SetsSubsets(message, changes, SUBSET (1..n), g)
  BY SetFoldExists
<1>2. FoldLeft(SetField, message, changes) = g[1..n]
  BY DEF SetsSubsets, FoldLeft, MapThenFoldSet, Max, Biggest
<1> HIDE DEF g
<1>3. \A s \in SUBSET (1..n) :
        g[s] = IF s = {} THEN message
               ELSE SetField(g[s \ {Biggest(s)}], changes[Biggest(s)])
  BY <1>1, Zenon DEF SetsSubsets
<1>4. done[0] = message
  <2>1. 1..0 = {} /\ {} \in SUBSET (1..n) /\ 0 \in 0..n
    OBVIOUS
  <2> QED BY <1>3, <2>1
<1>5. ASSUME NEW k \in 1..n PROVE done[k] = SetField(done[k - 1], changes[k])
  <2>1. /\ 1..k \in SUBSET (1..n) /\ 1..k # {}
        /\ Biggest(1..k) = k /\ (1..k) \ {k} = 1..(k - 1)
    BY FirstNumbers
  <2>2. g[1..k] = SetField(g[1..(k - 1)], changes[k])
    BY <1>3, <2>1
  <2>3. k \in 0..n /\ k - 1 \in 0..n
    OBVIOUS
  <2> QED BY <2>2, <2>3
<1>6. done[n] = g[1..n]
  OBVIOUS
<1>7. Steps(message, changes, n, done)
  <2> HIDE DEF done
  <2> QED BY <1>2, <1>4, <1>5, <1>6 DEF Steps
<1> QED BY <1>7

\* It keeps the transactions a sequence, of the same length.
LEMMA ChangedKeepsSequence ==
  ASSUME NEW message, "txs" \in DOMAIN message, IsSequence(message.txs),
         NEW changes, IsSequence(changes)
  PROVE  IsSequence(FoldLeft(SetField, message, changes).txs)
<1> DEFINE n == Len(changes)
           m == Len(message.txs)
           Shaped(x) == "txs" \in DOMAIN x /\ DOMAIN x.txs = 1..m /\ x.txs = [i \in 1..m |-> x.txs[i]]
<1>1. n \in Nat /\ DOMAIN changes = 1..n /\ m \in Nat
  BY SequenceDomain
<1>2. Shaped(message)
  BY DEF IsSequence
<1>3. \A x, c : Shaped(x) => Shaped(SetField(x, c))
  <2> TAKE x, c
  <2> HAVE Shaped(x)
  <2> DEFINE v == [x.txs[c.tx] EXCEPT !.addresses[c.label][c.field] = c.after]
             t == [x.txs EXCEPT ![c.tx] = v]
  <2>1. SetField(x, c) = [x EXCEPT !.txs = t]
    BY DEF SetField
  <2> HIDE DEF v
  <2>2. DOMAIN t = 1..m /\ t = [i \in 1..m |-> t[i]]
    OBVIOUS
  <2> HIDE DEF t
  <2>3. "txs" \in DOMAIN SetField(x, c) /\ SetField(x, c).txs = t
    BY <2>1
  <2> QED BY <2>2, <2>3
<1> HIDE DEF Shaped, n, m
<1>4. PICK done : Steps(message, changes, n, done)
  BY <1>1, ChangedOneByOne
<1> DEFINE P == {k \in Nat : k <= n => Shaped(done[k])}
<1>5. 0 \in P
  BY <1>2, <1>4 DEF Steps
<1>6. ASSUME NEW k \in P PROVE k + 1 \in P
  <2> SUFFICES ASSUME k + 1 <= n PROVE Shaped(done[k + 1])
    OBVIOUS
  <2>1. k \in Nat /\ k + 1 \in 1..n /\ (k + 1) - 1 = k /\ Shaped(done[k])
    BY <1>1
  <2>2. done[k + 1] = SetField(done[k], changes[k + 1])
    BY <1>4, <2>1 DEF Steps
  <2> QED BY <1>3, <2>1, <2>2
<1>7. P = Nat
  <2> HIDE DEF P
  <2>1. P \subseteq Nat
    BY DEF P
  <2> QED BY <1>5, <1>6, <2>1, InductionOverNat
<1>8. Shaped(FoldLeft(SetField, message, changes))
  <2>1. Shaped(done[n])
    BY <1>1, <1>7
  <2> QED BY <1>4, <2>1 DEF Steps
<1> DEFINE t == FoldLeft(SetField, message, changes).txs
<1>9. t = [i \in 1..m |-> t[i]]
  BY <1>8 DEF Shaped
<1> HIDE DEF t
<1>10. t \in [1..m -> Range(t)]
  BY <1>9 DEF Range
<1>11. t \in Seq(Range(t))
  BY <1>1, <1>10
<1> QED BY <1>11 DEF IsSequence, t

-----------------------------------------------------------------------------
(* A validated candidate names its countries.                               *)

\* address.py, CountryMissingRule and InvalidCountryCodeRule: where no finding
\* blocks, every address carries a country code.
LEMMA UnblockedNamesCountries ==
  ASSUME NEW m, NEW configs, ~_blocking_findings(RuleEngineEvaluate(m, configs)),
         NEW i \in DOMAIN m.txs, NEW l \in _addresses(m.txs[i])
  PROVE  m.txs[i].addresses[l].country \in CountryCodes
<1> DEFINE tx == m.txs[i]
           a == tx.addresses[l]
           absent == Finding("ADR-002", "ERROR", l)
           invalid == Finding("ADR-003", "ERROR", l)
<1>1. \A f \in ADDRESS_RULESET(tx) : f.severity # "ERROR"
  <2> DEFINE S(j) == ADDRESS_RULESET(m.txs[j]) \cup UNION {DeclarativeRule(c, m.txs[j]) : c \in configs}
  <2>1. ADDRESS_RULESET(tx) \subseteq RuleEngineEvaluate(m, configs)
    <3>1. ADDRESS_RULESET(tx) \subseteq S(i)
      OBVIOUS
    <3>2. RuleEngineEvaluate(m, configs) = UNION {S(j) : j \in DOMAIN m.txs}
      BY DEF RuleEngineEvaluate
    <3> HIDE DEF S, tx
    <3>3. S(i) \subseteq UNION {S(j) : j \in DOMAIN m.txs}
      OBVIOUS
    <3> QED BY <3>1, <3>2, <3>3
  <2> QED BY <2>1 DEF _blocking_findings
<1>2. a.country = None => absent \in ADDRESS_RULESET(tx)
  <2>1. a.country = None => absent \in CountryMissingRule(tx)
    BY DEF CountryMissingRule, OnAddresses
  <2> QED BY <2>1 DEF ADDRESS_RULESET
<1>3. a.country # None /\ ~is_valid_country_code(a.country) => invalid \in ADDRESS_RULESET(tx)
  <2>1. a.country # None /\ ~is_valid_country_code(a.country) => invalid \in InvalidCountryCodeRule(tx)
    BY DEF InvalidCountryCodeRule, OnAddresses
  <2> QED BY <2>1 DEF ADDRESS_RULESET
<1>4. absent.severity = "ERROR" /\ invalid.severity = "ERROR"
  BY DEF Finding
<1> QED BY <1>1, <1>2, <1>3, <1>4 DEF is_valid_country_code

\* generator.py, generate_candidate: a pacs.008 candidate is VALIDATED only when
\* the rules, evaluated again on the rebuilt document, block nothing.
LEMMA CandidateNamesCountries ==
  ASSUME NEW m, "txs" \in DOMAIN m, IsSequence(m.txs), m.format = "XML_PACS_008",
         NEW changes, IsSequence(changes), NEW configs,
         generate_candidate(m, changes, configs).changes # <<>>,
         generate_candidate(m, changes, configs).status = "VALIDATED"
  PROVE  \A a \in Range(AddressesOf(generate_candidate(m, changes, configs).message)) :
            a.addr.country \in CountryCodes
<1> DEFINE repaired == apply_changes(m, changes).message
           candidate == generate_candidate(m, changes, configs)
<1>1. changes # <<>>
  BY DEF generate_candidate
<1>2. /\ candidate.message = repaired
      /\ ~_blocking_findings(RuleEngineEvaluate(repaired, configs))
  BY <1>1 DEF generate_candidate
<1>3. repaired = FoldLeft(SetField, m, changes)
  BY DEF apply_changes
<1> HIDE DEF repaired, candidate
<1>4. IsSequence(repaired.txs)
  BY <1>3, ChangedKeepsSequence
<1>5. AddressList(AddressesOf(repaired), repaired, (DOMAIN repaired.txs) \X Labels)
  BY <1>4, AddressesListed
<1>6. ASSUME NEW j \in DOMAIN AddressesOf(repaired)
      PROVE  AddressesOf(repaired)[j].addr.country \in CountryCodes
  <2> DEFINE a == AddressesOf(repaired)[j]
  <2>1. /\ KeyOf(a) \in (DOMAIN repaired.txs) \X Labels
        /\ a.label \in _addresses(repaired.txs[a.tx])
        /\ a.addr = repaired.txs[a.tx].addresses[a.label]
    BY <1>5 DEF AddressList
  <2>2. a.tx \in DOMAIN repaired.txs
    BY <2>1 DEF KeyOf
  <2> HIDE DEF a
  <2>3. repaired.txs[a.tx].addresses[a.label].country \in CountryCodes
    BY <1>2, <2>1, <2>2, UnblockedNamesCountries
  <2> QED BY <2>1, <2>3 DEF a
<1> QED BY <1>2, <1>6 DEF Range, candidate

\* The request is one of the inputs, and visits its addresses.
InputInv ==
  req # NoRequest => req.in \in Inputs /\ req.todo = AddressesOf(req.in.message)

\* No step changes what the request is about.
LEMMA SameInput ==
  ASSUME RequestInv, [Next]_vars, req # NoRequest
  PROVE  req' = NoRequest \/ (req'.in = req.in /\ req'.todo = req.todo)
<1>1. req.pc # "idle" /\ req = [pc |-> req.pc, in |-> req.in, todo |-> req.todo, k |-> req.k,
              attempt |-> req.attempt, reports |-> req.reports, repairs |-> req.repairs,
              changes |-> req.changes]
  BY DEF RequestInv
<1>2. \A in \in Inputs : ~Receive(in)
  BY <1>1 DEF Receive
<1>3. CASE SkipAddress
  BY <1>1, <1>3 DEF SkipAddress
<1>4. ASSUME NEW primary, Take(primary) PROVE req'.in = req.in /\ req'.todo = req.todo
  <2> DEFINE analysis == FallbackAnalyze(primary, Current.addr)
             proposed == ProposedChanges(Current, analysis)
  <2>1. req' = IF req.pc = "report"
             THEN [req EXCEPT !.k = @ + 1, !.attempt = 0, !.reports = Append(@, analysis)]
             ELSE [req EXCEPT !.k = @ + 1, !.attempt = 0, !.repairs = Append(@, analysis),
                              !.changes = @ \o proposed]
    BY <1>4 DEF Take
  <2> HIDE DEF analysis, proposed
  <2> QED BY <1>1, <2>1
<1>5. CASE Unavailable \/ PostRefused \/ \E answer \in Answers : PostAnswered(answer)
  BY <1>4, <1>5 DEF Unavailable, PostRefused, PostAnswered
<1>6. CASE PostTimedOut
  BY <1>1, <1>4, <1>6 DEF PostTimedOut
<1>7. CASE PostGarbled \/ Conclude
  BY <1>7 DEF PostGarbled, Conclude, End
<1>8. CASE StartRepair
  BY <1>1, <1>8 DEF StartRepair
<1>9. CASE Tick \/ ServiceRestart \/ UNCHANGED vars
  BY <1>9 DEF Tick, ServiceRestart, vars
<1> QED BY <1>2, <1>3, <1>5, <1>6, <1>7, <1>8, <1>9 DEF Next, Work

\* Every request under way is of an input, and visits that input's addresses.
LEMMA InputStep == RequestInv /\ InputInv /\ [Next]_vars => InputInv'
<1> SUFFICES ASSUME RequestInv, InputInv, [Next]_vars PROVE InputInv'
  OBVIOUS
<1>1. CASE req # NoRequest
  BY <1>1, SameInput DEF InputInv
<1>2. CASE req = NoRequest
  <2>1. req.pc = "idle"
    BY <1>2 DEF NoRequest
  <2>2. ASSUME NEW in \in Inputs, Receive(in) PROVE InputInv'
    BY <1>2, <2>2 DEF Receive, InputInv
  <2>3. ~Work
    BY <2>1 DEF Work, SkipAddress, Unavailable, PostRefused, PostTimedOut, PostGarbled,
                PostAnswered, StartRepair, Conclude, Calling, AtAddress, Visiting
  <2>4. CASE Tick \/ ServiceRestart \/ UNCHANGED vars
    BY <1>2, <2>4 DEF Tick, ServiceRestart, vars, InputInv
  <2> QED BY <2>2, <2>3, <2>4 DEF Next
<1> QED BY <1>1, <1>2

\* A result is taken as it is, or the request under way is concluded.
LEMMA ResultStep ==
  ASSUME [Next]_vars
  PROVE  \/ result' = result \/ result'.kind # "analysis"
         \/ /\ Conclude /\ req # NoRequest
            /\ result' = Conclusion(req, generate_candidate(req.in.message, req.changes,
                                                            RulesFor(req.in)))
<1>1. ASSUME NEW in \in Inputs, Receive(in) PROVE result'.kind # "analysis"
  <2>1. result' = Failed(Refusal(in)) \/ result' = [kind |-> "report", valid |-> in.message.sound]
        \/ result' = NoResult
    BY <1>1 DEF Receive
  <2> QED BY <2>1 DEF Failed, NoResult
<1>2. CASE PostGarbled
  BY <1>2 DEF PostGarbled, Failed
<1>3. CASE Conclude
  BY <1>3 DEF Conclude, Visiting, NoRequest
<1>4. CASE SkipAddress \/ Unavailable \/ PostRefused \/ PostTimedOut \/ StartRepair
           \/ Tick \/ ServiceRestart \/ UNCHANGED vars
  BY <1>4 DEF SkipAddress, Unavailable, PostRefused, PostTimedOut, StartRepair, Tick,
              ServiceRestart, vars
<1>5. ASSUME NEW answer \in Answers, PostAnswered(answer) PROVE result' = result
  BY <1>5 DEF PostAnswered
<1> QED BY <1>1, <1>2, <1>3, <1>4, <1>5 DEF Next, Work

\* generator.py, generate_candidate: for every message, rule set and mixture of
\* answers, a VALIDATED pacs.008 candidate with changes names the country of
\* each of its addresses by an ISO code, those no change touched included.
THEOREM ValidatedNamesCountriesAlways == Spec => []ValidatedNamesCountries
<1>1. Init => InputInv /\ ValidatedNamesCountries
  BY DEF Init, InputInv, ValidatedNamesCountries, NoResult
<1>2. PipelineInv /\ InputInv /\ ValidatedNamesCountries /\ [Next]_vars
        => ValidatedNamesCountries'
  <2> SUFFICES ASSUME PipelineInv, InputInv, ValidatedNamesCountries, [Next]_vars
               PROVE  ValidatedNamesCountries'
    OBVIOUS
  <2>1. CASE result' = result \/ result'.kind # "analysis"
    BY <2>1 DEF ValidatedNamesCountries
  <2> DEFINE m == req.in.message
             candidate == generate_candidate(m, req.changes, RulesFor(req.in))
  <2>2. CASE req # NoRequest /\ result' = Conclusion(req, candidate)
    <3>1. /\ "txs" \in DOMAIN m /\ IsSequence(m.txs) /\ IsSequence(req.changes)
      BY <2>2, InputAssumption DEF InputInv, PipelineInv, RequestInv, KeepsAll, IsSequence
    <3> HIDE DEF m, candidate
    <3>2. /\ result'.in = req.in /\ result'.candidate = candidate.message
          /\ result'.status = (IF req.in.repair THEN candidate.status ELSE None)
          /\ result'.diff = (IF req.in.repair THEN candidate.changes ELSE <<>>)
      BY <2>2 DEF Conclusion
    <3>3. ASSUME result'.status = "VALIDATED", result'.diff # <<>>,
                 result'.in.message.format = "XML_PACS_008"
          PROVE  \A a \in Range(AddressesOf(result'.candidate)) : a.addr.country \in CountryCodes
      <4>1. /\ candidate.status = "VALIDATED" /\ candidate.changes # <<>>
            /\ m.format = "XML_PACS_008"
        BY <3>2, <3>3 DEF None, m
      <4>2. \A a \in Range(AddressesOf(candidate.message)) : a.addr.country \in CountryCodes
        BY <3>1, <4>1, CandidateNamesCountries DEF candidate
      <4> QED BY <3>2, <4>2
    <3> QED BY <3>3 DEF ValidatedNamesCountries
  <2> QED BY <2>1, <2>2, ResultStep
<1> QED BY <1>1, <1>2, PipelineInit, PipelineStep, InputStep, PTL DEF Spec, PipelineInv

-----------------------------------------------------------------------------
(* What CloudNova finds to repair is proposed.                              *)

\* Nothing of a sequence is lost when something is appended.
LEMMA AppendKeeps ==
  ASSUME NEW s, NEW e, IsSequence(s)
  PROVE  /\ Len(Append(s, e)) = Len(s) + 1
         /\ \A j \in DOMAIN Append(s, e) : \/ j \in DOMAIN s /\ Append(s, e)[j] = s[j]
                                           \/ j = Len(s) + 1 /\ Append(s, e)[j] = e
<1> DEFINE S == Range(s) \cup {e}
           t == Append(s, e)
           n == Len(s)
<1>1. s \in Seq(S) /\ e \in S
  BY DEF IsSequence
<1>2. DOMAIN s = 1..n /\ n \in Nat
  BY <1>1
<1>3. /\ Len(t) = n + 1 /\ DOMAIN t = 1..(n + 1) /\ t[n + 1] = e
      /\ \A j \in 1..n : t[j] = s[j]
  BY <1>1
<1> HIDE DEF t, n
<1>4. \A j \in 1..(n + 1) : j \in 1..n \/ j = n + 1
  BY <1>2
<1> QED BY <1>2, <1>3, <1>4 DEF t, n

\* The changes proposed for one address.
CountryChange(a, analysis) == DiffEntry(a, "country", a.addr.country, analysis.country)
TownChange(a, analysis) == DiffEntry(a, "town", a.addr.town, analysis.town)
NewCountry(a, analysis) == analysis.country # None /\ a.addr.country # analysis.country
NewTown(a, analysis) == analysis.town # None /\ a.addr.town # analysis.town

\* generator.py: what is proposed for an address is a new country and a new town.
LEMMA ProposalsListed ==
  ASSUME NEW a, NEW analysis
  PROVE  /\ IsSequence(ProposedChanges(a, analysis))
         /\ Range(ProposedChanges(a, analysis)) =
              (IF NewCountry(a, analysis) THEN {CountryChange(a, analysis)} ELSE {})
                \cup (IF NewTown(a, analysis) THEN {TownChange(a, analysis)} ELSE {})
<1> DEFINE c == CountryChange(a, analysis)
           t == TownChange(a, analysis)
           cs == IF NewCountry(a, analysis) THEN <<c>> ELSE <<>>
           ts == IF NewTown(a, analysis) THEN <<t>> ELSE <<>>
<1>1. ProposedChanges(a, analysis) = cs \o ts
  BY DEF ProposedChanges, NewCountry, NewTown, CountryChange, TownChange
<1> HIDE DEF c, t
<1>2. IsSequence(<<>>) /\ Range(<<>>) = {}
  BY DEF IsSequence, Range
<1>3. \A x : IsSequence(<<x>>) /\ Range(<<x>>) = {x}
  BY DEF IsSequence, Range
<1>4. IsSequence(cs) /\ Range(cs) = IF NewCountry(a, analysis) THEN {c} ELSE {}
  BY <1>2, <1>3
<1>5. IsSequence(ts) /\ Range(ts) = IF NewTown(a, analysis) THEN {t} ELSE {}
  BY <1>2, <1>3
<1> HIDE DEF cs, ts
<1> QED BY <1>1, <1>4, <1>5, Concatenation DEF c, t

\* cloudnova.py, analyze: REPAIRABLE means something to propose, and READY a
\* country that is left alone.
LEMMA CloudNovaProposes ==
  ASSUME NEW a
  PROVE  LET found == FallbackAnalyze(_unavailable, a.addr)
         IN  /\ found.readiness = "REPAIRABLE" => NewCountry(a, found) \/ NewTown(a, found)
             /\ found.readiness = "READY" => ~NewCountry(a, found)
<1> DEFINE addr == a.addr
           nova == CloudNovaAnalyze(addr)
           found == FallbackAnalyze(_unavailable, addr)
           fromField == addr.country # None
           countryOk == fromField /\ is_valid_country_code(addr.country)
           townOk == addr.town # None
<1>1. found = [nova EXCEPT !.fallback = TRUE]
  BY DEF FallbackAnalyze, _unavailable
<1>2. {"country", "town", "readiness", "fallback"} \subseteq DOMAIN nova
  BY DEF CloudNovaAnalyze
<1> HIDE DEF nova, found
<1>3. found.country = nova.country /\ found.town = nova.town /\ found.readiness = nova.readiness
  BY <1>1, <1>2
<1>4. nova.country = IF countryOk THEN upper(addr.country)
                     ELSE IF fromField THEN normalize_country_name(addr.country)
                     ELSE extract_country_from_lines(addr.lines)
  BY DEF nova, CloudNovaAnalyze
<1>5. nova.readiness = classify_readiness(countryOk, townOk, nova.country # None /\ ~countryOk,
                           nova.town # None /\ ~townOk, fromField \/ townOk \/ addr.lines # <<>>)
  BY DEF nova, CloudNovaAnalyze
<1>6. nova.readiness = "REPAIRABLE" =>
        (nova.country # None /\ ~countryOk) \/ (nova.town # None /\ ~townOk)
  BY <1>5 DEF classify_readiness
<1>7. nova.readiness = "READY" => countryOk
  BY <1>5 DEF classify_readiness
<1>8. countryOk => nova.country = addr.country
  BY <1>4, CodesAreUpperCase DEF is_valid_country_code
<1>9. nova.country # None /\ ~countryOk => nova.country # addr.country
  <2>1. fromField /\ nova.country = normalize_country_name(addr.country) /\ nova.country # None
          => nova.country \in CountryCodes
    BY NamesAreOfCodes DEF normalize_country_name
  <2> QED BY <1>4, <2>1 DEF is_valid_country_code
<1>10. nova.town # None /\ ~townOk => nova.town # addr.town
  OBVIOUS
<1> QED BY <1>3, <1>6, <1>7, <1>8, <1>9, <1>10 DEF NewCountry, NewTown, found

\* Only CloudNova signs as CloudNova: the client of the service does not.
LEMMA OneCloudNova ==
  ASSUME NEW primary, NEW addr,
         primary = _unavailable \/ \E answer : primary = _build_analysis(answer),
         FallbackAnalyze(primary, addr).provider = "cloudnova"
  PROVE  FallbackAnalyze(primary, addr) = FallbackAnalyze(_unavailable, addr)
<1>1. CASE primary = _unavailable
  BY <1>1
<1>2. ASSUME NEW answer, primary = _build_analysis(answer) PROVE FALSE
  <2>1. FallbackAnalyze(primary, addr) = primary /\ primary.provider = "swift_derived"
    BY <1>2 DEF FallbackAnalyze, _build_analysis
  <2> QED BY <2>1
<1> QED BY <1>1, <1>2

-----------------------------------------------------------------------------
(* What a pass keeps of the addresses it has visited.                       *)

\* An analysis of CloudNova in the list is of the address at its place.
Traced(list, todo) ==
  \A j \in DOMAIN list : list[j].provider = "cloudnova" =>
    list[j] = FallbackAnalyze(_unavailable, todo[j].addr)

\* The changes are those that the analyses propose, all of CloudNova's included.
Sourced(changes, repairs, todo) ==
  /\ \A j \in DOMAIN repairs : repairs[j].provider = "cloudnova" =>
        Range(ProposedChanges(todo[j], repairs[j])) \subseteq Range(changes)
  /\ \A e \in Range(changes) : \E j \in DOMAIN repairs :
        e \in Range(ProposedChanges(todo[j], repairs[j]))

\* Both passes go through the same addresses, place by place.
TwoPasses(r) ==
  /\ IsSequence(r.todo) /\ IsSequence(r.repairs)
  /\ r.k \in 1..(Len(r.todo) + 1)
  /\ IF r.pc = "report"
     THEN Len(r.reports) = r.k - 1 /\ r.repairs = <<>> /\ r.changes = <<>>
     ELSE Len(r.reports) = Len(r.todo) /\ Len(r.repairs) = r.k - 1
  /\ Traced(r.reports, r.todo) /\ Traced(r.repairs, r.todo)
  /\ Sourced(r.changes, r.repairs, r.todo)

\* So for the request under way.
PassesInv == req # NoRequest => TwoPasses(req)

\* One more analysis keeps a list traced,
LEMMA TracedMore ==
  ASSUME NEW list, NEW todo, NEW analysis, IsSequence(list), Traced(list, todo),
         analysis.provider = "cloudnova" =>
           analysis = FallbackAnalyze(_unavailable, todo[Len(list) + 1].addr)
  PROVE  Traced(Append(list, analysis), todo)
<1> DEFINE more == Append(list, analysis)
<1>1. \A j \in DOMAIN more : \/ j \in DOMAIN list /\ more[j] = list[j]
                             \/ j = Len(list) + 1 /\ more[j] = analysis
  BY AppendKeeps
<1> HIDE DEF more
<1>2. Traced(more, todo)
  BY <1>1 DEF Traced
<1> QED BY <1>2 DEF more

\* and its proposals keep the changes sourced,
LEMMA SourcedMore ==
  ASSUME NEW changes, NEW repairs, NEW todo, NEW analysis, NEW proposed,
         IsSequence(changes), IsSequence(repairs), Sourced(changes, repairs, todo),
         IsSequence(proposed),
         Range(proposed) \subseteq Range(ProposedChanges(todo[Len(repairs) + 1], analysis)),
         analysis.provider = "cloudnova" =>
           proposed = ProposedChanges(todo[Len(repairs) + 1], analysis)
  PROVE  Sourced(changes \o proposed, Append(repairs, analysis), todo)
<1> DEFINE more == Append(repairs, analysis)
           all == changes \o proposed
           n == Len(repairs)
<1>1. \A j \in DOMAIN more : \/ j \in DOMAIN repairs /\ more[j] = repairs[j]
                             \/ j = n + 1 /\ more[j] = analysis
  BY AppendKeeps
<1>2. /\ DOMAIN more = 1..(n + 1) /\ more[n + 1] = analysis
      /\ DOMAIN repairs = 1..n /\ n \in Nat
  BY AppendSequence, SequenceDomain
<1>3. Range(all) = Range(changes) \cup Range(proposed)
  BY Concatenation
<1> HIDE DEF more, all, n
<1>4. \A j \in DOMAIN repairs : j \in DOMAIN more /\ more[j] = repairs[j]
  <2>1. \A j \in 1..n : j \in 1..(n + 1) /\ j # n + 1
    BY <1>2
  <2> QED BY <1>1, <1>2, <2>1
<1>5. n + 1 \in DOMAIN more
  BY <1>2
<1>6. \A j \in DOMAIN more : more[j].provider = "cloudnova" =>
        Range(ProposedChanges(todo[j], more[j])) \subseteq Range(all)
  BY <1>1, <1>3 DEF Sourced, n
<1>7. \A e \in Range(all) : \E j \in DOMAIN more :
        e \in Range(ProposedChanges(todo[j], more[j]))
  <2> TAKE e \in Range(all)
  <2>1. CASE e \in Range(changes)
    BY <1>4, <2>1 DEF Sourced
  <2>2. CASE e \in Range(proposed)
    BY <1>2, <1>5, <2>2 DEF n
  <2> QED BY <1>3, <2>1, <2>2
<1>8. Sourced(all, more, todo)
  BY <1>6, <1>7 DEF Sourced
<1> QED BY <1>8 DEF all, more

-----------------------------------------------------------------------------
(* Each step keeps the two passes in step.                                  *)

\* A result taken in the report pass, and one taken in the repair pass.
Reported(r, analysis) ==
  [pc |-> r.pc, in |-> r.in, todo |-> r.todo, k |-> r.k + 1, attempt |-> 0,
   reports |-> Append(r.reports, analysis), repairs |-> r.repairs, changes |-> r.changes]
Repaired(r, analysis, attempt, proposed) ==
  [pc |-> r.pc, in |-> r.in, todo |-> r.todo, k |-> r.k + 1, attempt |-> attempt,
   reports |-> r.reports, repairs |-> Append(r.repairs, analysis),
   changes |-> r.changes \o proposed]

\* Either keeps the passes in step.
LEMMA ReportedKeeps ==
  ASSUME NEW r, NEW analysis, r.pc = "report", r.k <= Len(r.todo), IsSequence(r.reports),
         TwoPasses(r),
         analysis.provider = "cloudnova" =>
           analysis = FallbackAnalyze(_unavailable, r.todo[r.k].addr)
  PROVE  TwoPasses(Reported(r, analysis))
<1> DEFINE n == Len(r.todo)
           reports == Append(r.reports, analysis)
<1>1. n \in Nat /\ r.k \in 1..(n + 1) /\ Len(r.reports) = r.k - 1
  BY SequenceDomain DEF TwoPasses
<1>2. Len(reports) = r.k /\ r.k + 1 \in 1..(n + 1) /\ (r.k + 1) - 1 = r.k /\ r.k - 1 + 1 = r.k
  <2>1. Len(reports) = Len(r.reports) + 1
    BY AppendKeeps
  <2> HIDE DEF reports
  <2> QED BY <1>1, <2>1
<1>3. Traced(reports, r.todo)
  BY <1>1, <1>2, TracedMore DEF TwoPasses
<1> HIDE DEF reports
<1> DEFINE q == [pc |-> r.pc, in |-> r.in, todo |-> r.todo, k |-> r.k + 1, attempt |-> 0,
                 reports |-> reports, repairs |-> r.repairs, changes |-> r.changes]
<1>4. TwoPasses(q)
  BY <1>2, <1>3 DEF TwoPasses
<1> QED BY <1>4 DEF Reported, reports

\* The repair pass adds the analysis and what it proposes.
LEMMA RepairedKeeps ==
  ASSUME NEW r, NEW analysis, NEW attempt, NEW proposed,
         r.pc = "repair", r.k <= Len(r.todo), IsSequence(r.changes), TwoPasses(r),
         analysis.provider = "cloudnova" =>
           /\ analysis = FallbackAnalyze(_unavailable, r.todo[r.k].addr)
           /\ proposed = ProposedChanges(r.todo[r.k], analysis),
         IsSequence(proposed),
         Range(proposed) \subseteq Range(ProposedChanges(r.todo[r.k], analysis))
  PROVE  TwoPasses(Repaired(r, analysis, attempt, proposed))
<1> DEFINE n == Len(r.todo)
           repairs == Append(r.repairs, analysis)
           changes == r.changes \o proposed
<1>1. /\ n \in Nat /\ r.k \in 1..(n + 1) /\ Len(r.reports) = n /\ Len(r.repairs) = r.k - 1
      /\ IsSequence(r.repairs)
  BY SequenceDomain DEF TwoPasses
<1>2. Len(repairs) = r.k /\ r.k + 1 \in 1..(n + 1) /\ (r.k + 1) - 1 = r.k /\ Len(r.repairs) + 1 = r.k
  BY <1>1, AppendKeeps
<1>3. Traced(repairs, r.todo)
  BY <1>1, <1>2, TracedMore DEF TwoPasses
<1>4. Sourced(changes, repairs, r.todo)
  <2>1. Sourced(r.changes, r.repairs, r.todo)
    BY DEF TwoPasses
  <2> QED BY <1>1, <1>2, <2>1, SourcedMore
<1>5. IsSequence(repairs)
  BY <1>1, AppendSequence
<1> HIDE DEF repairs, changes
<1> DEFINE q == [pc |-> r.pc, in |-> r.in, todo |-> r.todo, k |-> r.k + 1, attempt |-> attempt,
                 reports |-> r.reports, repairs |-> repairs, changes |-> changes]
<1>6. TwoPasses(q)
  BY <1>1, <1>2, <1>3, <1>4, <1>5 DEF TwoPasses
<1> QED BY <1>6 DEF Repaired, repairs, changes

\* The provider's result for one address keeps the passes in step.
LEMMA TakeKeepsPasses ==
  ASSUME RequestInv, PassesInv, AtAddress, NEW primary, Take(primary),
         primary = _unavailable \/ \E answer : primary = _build_analysis(answer)
  PROVE  PassesInv'
<1> DEFINE analysis == FallbackAnalyze(primary, Current.addr)
           proposed == ProposedChanges(Current, analysis)
<1>1. req # NoRequest /\ req.pc \in {"report", "repair"} /\ req.k <= Len(req.todo)
  BY DEF AtAddress, Visiting, Todo, NoRequest
<1>2. /\ req = [pc |-> req.pc, in |-> req.in, todo |-> req.todo, k |-> req.k,
                attempt |-> req.attempt, reports |-> req.reports, repairs |-> req.repairs,
                changes |-> req.changes]
      /\ IsSequence(req.reports) /\ IsSequence(req.changes)
  BY <1>1 DEF RequestInv, KeepsAll
<1>3. TwoPasses(req)
  BY <1>1 DEF PassesInv
<1>4. req' = IF req.pc = "report"
             THEN [req EXCEPT !.k = @ + 1, !.attempt = 0, !.reports = Append(@, analysis)]
             ELSE [req EXCEPT !.k = @ + 1, !.attempt = 0, !.repairs = Append(@, analysis),
                              !.changes = @ \o proposed]
  BY DEF Take
<1>5. Current = req.todo[req.k]
  BY DEF Current, Todo
<1>6. analysis.provider = "cloudnova" => analysis = FallbackAnalyze(_unavailable, req.todo[req.k].addr)
  BY <1>5, OneCloudNova
<1>7. proposed = ProposedChanges(req.todo[req.k], analysis) /\ IsSequence(proposed)
  BY <1>5, ProposalsListed
<1> HIDE DEF analysis, proposed
<1>8. CASE req.pc = "report"
  <2>1. req' = Reported(req, analysis)
    BY <1>2, <1>4, <1>8 DEF Reported
  <2> QED BY <1>1, <1>2, <1>3, <1>6, <1>8, <2>1, ReportedKeeps DEF PassesInv
<1>9. CASE req.pc = "repair"
  <2>1. req' = Repaired(req, analysis, 0, proposed)
    BY <1>2, <1>4, <1>9 DEF Repaired
  <2> QED BY <1>1, <1>2, <1>3, <1>6, <1>7, <1>9, <2>1, RepairedKeeps DEF PassesInv
<1> QED BY <1>1, <1>8, <1>9

\* The steps of a request: skipped, retried, answered or refused.
LEMMA PassesStep == RequestInv /\ InputInv /\ PassesInv /\ [Next]_vars => PassesInv'
<1> SUFFICES ASSUME RequestInv, InputInv, PassesInv, [Next]_vars PROVE PassesInv'
  OBVIOUS
<1>0. req # NoRequest =>
        /\ req = [pc |-> req.pc, in |-> req.in, todo |-> req.todo, k |-> req.k,
                  attempt |-> req.attempt, reports |-> req.reports, repairs |-> req.repairs,
                  changes |-> req.changes]
        /\ TwoPasses(req) /\ IsSequence(req.changes)
  BY DEF RequestInv, PassesInv, KeepsAll
<1>1. ASSUME NEW in \in Inputs, Receive(in) PROVE PassesInv'
  <2>1. CASE req' = req
    BY <2>1 DEF PassesInv
  <2> DEFINE todo == AddressesOf(in.message)
             fresh == [pc |-> "report", in |-> in, todo |-> todo,
                       k |-> 1, attempt |-> 0, reports |-> <<>>, repairs |-> <<>>, changes |-> <<>>]
  <2>2. CASE req' = fresh
    <3>1. IsSequence(todo)
      <4>1. IsSequence(in.message.txs)
        BY InputAssumption DEF IsSequence
      <4> QED BY <4>1, AddressesListed DEF AddressList
    <3> HIDE DEF todo
    <3>2. 1 \in 1..(Len(todo) + 1)
      BY <3>1, SequenceDomain
    <3>3. Range(<<>>) = {} /\ DOMAIN <<>> = {} /\ IsSequence(<<>>) /\ Len(<<>>) = 1 - 1
      BY DEF Range, IsSequence
    <3>4. TwoPasses(fresh)
      BY <3>1, <3>2, <3>3 DEF TwoPasses, Traced, Sourced
    <3> QED BY <2>2, <3>4 DEF PassesInv
  <2> QED BY <1>1, <2>1, <2>2 DEF Receive
<1>2. CASE SkipAddress
  <2>1. /\ req # NoRequest /\ req.pc = "repair" /\ req.k <= Len(req.todo)
        /\ req' = [req EXCEPT !.k = @ + 1, !.repairs = Append(@, _unavailable)]
    BY <1>2 DEF SkipAddress, AtAddress, Visiting, Skipped, Todo, NoRequest
  <2>2. req.changes \o <<>> = req.changes
    <3> DEFINE S == Range(req.changes)
               c == req.changes
    <3>1. c \in Seq(S)
      BY <1>0, <2>1 DEF IsSequence
    <3> HIDE DEF c, S
    <3>2. c \o <<>> = c
      BY <3>1
    <3> QED BY <3>2 DEF c
  <2>3. req' = Repaired(req, _unavailable, req.attempt, <<>>)
    <3> DEFINE more == Append(req.repairs, _unavailable)
    <3>1. req' = [pc |-> req.pc, in |-> req.in, todo |-> req.todo, k |-> req.k + 1,
                  attempt |-> req.attempt, reports |-> req.reports, repairs |-> more,
                  changes |-> req.changes]
      BY <1>0, <2>1
    <3> QED BY <2>2, <3>1 DEF Repaired
  <2>4. _unavailable.provider # "cloudnova" /\ IsSequence(<<>>) /\ Range(<<>>) = {}
    BY DEF _unavailable, IsSequence, Range
  <2>5. TwoPasses(Repaired(req, _unavailable, req.attempt, <<>>))
    BY <1>0, <2>1, <2>4, RepairedKeeps
  <2> QED BY <2>3, <2>5 DEF PassesInv
<1>3. CASE Unavailable
  BY <1>3, TakeKeepsPasses DEF Unavailable
<1>4. CASE PostRefused
  BY <1>4, TakeKeepsPasses DEF PostRefused, Calling
<1>5. ASSUME NEW answer \in Answers, PostAnswered(answer) PROVE PassesInv'
  BY <1>5, TakeKeepsPasses DEF PostAnswered, Calling
<1>6. CASE PostTimedOut
  <2>1. AtAddress /\ req # NoRequest
    BY <1>6 DEF PostTimedOut, Calling, AtAddress, Visiting, NoRequest
  <2>2. CASE req' = [req EXCEPT !.attempt = @ + 1]
    <3>1. req' = [pc |-> req.pc, in |-> req.in, todo |-> req.todo, k |-> req.k,
                  attempt |-> req.attempt + 1, reports |-> req.reports, repairs |-> req.repairs,
                  changes |-> req.changes]
      BY <1>0, <2>1, <2>2
    <3>2. TwoPasses(req')
      BY <1>0, <2>1, <3>1 DEF TwoPasses
    <3> QED BY <3>2 DEF PassesInv
  <2> QED BY <1>6, <2>1, <2>2, TakeKeepsPasses DEF PostTimedOut
<1>7. CASE PostGarbled \/ Conclude
  BY <1>7 DEF PostGarbled, Conclude, End, PassesInv
<1>8. CASE StartRepair
  <2>1. /\ req # NoRequest /\ req.pc = "report" /\ req.k > Len(req.todo)
        /\ req' = [req EXCEPT !.pc = "repair", !.k = 1]
    BY <1>8 DEF StartRepair, Todo, NoRequest
  <2>2. req' = [pc |-> "repair", in |-> req.in, todo |-> req.todo, k |-> 1,
                attempt |-> req.attempt, reports |-> req.reports, repairs |-> req.repairs,
                changes |-> req.changes]
    BY <1>0, <2>1
  <2>3. Len(req.todo) \in Nat /\ req.k \in 1..(Len(req.todo) + 1)
    BY <1>0, <2>1, SequenceDomain DEF TwoPasses
  <2>4. /\ 1 \in 1..(Len(req.todo) + 1) /\ Len(req.reports) = Len(req.todo)
        /\ req.repairs = <<>> /\ Len(<<>>) = 1 - 1
    BY <1>0, <2>1, <2>3 DEF TwoPasses
  <2>5. TwoPasses(req')
    BY <1>0, <2>1, <2>2, <2>4 DEF TwoPasses
  <2> QED BY <2>5 DEF PassesInv
<1>9. CASE Tick \/ ServiceRestart \/ UNCHANGED vars
  BY <1>9 DEF Tick, ServiceRestart, vars, PassesInv
<1> QED BY <1>1, <1>2, <1>3, <1>4, <1>5, <1>6, <1>7, <1>8, <1>9 DEF Next, Work

-----------------------------------------------------------------------------
(* An address reported REPAIRABLE is repaired.                              *)

\* generator.py, generate_candidate: the diff has the proposed changes, all of
\* them and no other, but for their status.
SamePlace(d, e) == d.tx = e.tx /\ d.label = e.label /\ d.field = e.field
\* Each change of the one stands at a place of the other.
SamePlaces(diff, changes) ==
  /\ \A d \in Range(diff) : \E e \in Range(changes) : SamePlace(d, e)
  /\ \A e \in Range(changes) : \E d \in Range(diff) : SamePlace(d, e)

\* The changes of a candidate stand at the places of the proposed ones.
LEMMA DiffIsOfChanges ==
  ASSUME NEW m, NEW changes, NEW configs,
         \A e \in Range(changes) : {"tx", "label", "field", "status"} \subseteq DOMAIN e
  PROVE  SamePlaces(generate_candidate(m, changes, configs).changes, changes)
<1> DEFINE diff == generate_candidate(m, changes, configs).changes
           applied == apply_changes(m, changes).applied
<1>1. DOMAIN applied = DOMAIN changes
  BY DEF apply_changes
<1>2. \A i \in DOMAIN changes : SamePlace(applied[i], changes[i])
  <2> TAKE i \in DOMAIN changes
  <2>1. {"tx", "label", "field", "status"} \subseteq DOMAIN changes[i]
    BY DEF Range
  <2>2. applied[i] = [changes[i] EXCEPT !.status =
            IF changes[i].label \in _addresses(m.txs[changes[i].tx])
            THEN "VALIDATED" ELSE "REJECTED"]
    BY DEF apply_changes
  <2> HIDE DEF applied
  <2> QED BY <2>1, <2>2 DEF SamePlace
<1>3. diff = applied \/ diff = changes
  <2>1. changes = <<>> => diff = changes
    BY DEF generate_candidate
  <2>2. changes # <<>> => diff = applied \/ diff = changes
    BY DEF generate_candidate
  <2> QED BY <2>1, <2>2
<1> HIDE DEF diff, applied
<1>4. /\ \A d \in Range(diff) : \E e \in Range(changes) : SamePlace(d, e)
      /\ \A e \in Range(changes) : \E d \in Range(diff) : SamePlace(d, e)
  BY <1>1, <1>2, <1>3 DEF Range, SamePlace
<1> QED BY <1>4 DEF diff, SamePlaces

\* The places of the diff at an address are those of its report.
ReportHolds(diff, a, analysis) ==
  LET entries == {e \in Range(diff) : e.tx = a.tx /\ e.label = a.label}
  IN  /\ analysis.readiness = "REPAIRABLE" => entries # {}
      /\ analysis.readiness = "READY" => \A e \in entries : e.field = "town"

\* The end of a request of which both passes kept step.
LEMMA ConcludedIsRepaired ==
  ASSUME NEW r, TwoPasses(r), r.pc # "report", r.todo = AddressesOf(r.in.message),
         IsSequence(r.reports), r.k > Len(r.todo),
         AddressList(r.todo, r.in.message, (DOMAIN r.in.message.txs) \X Labels),
         NEW diff, SamePlaces(diff, r.changes),
         NEW i \in DOMAIN r.todo, i \in DOMAIN r.repairs,
         r.reports[i].provider = "cloudnova", r.repairs[i].provider = "cloudnova"
  PROVE  ReportHolds(diff, r.todo[i], r.reports[i])
<1> DEFINE a == r.todo[i]
           found == FallbackAnalyze(_unavailable, a.addr)
           entries == {e \in Range(diff) : e.tx = a.tx /\ e.label = a.label}
<1>1. /\ DOMAIN r.todo = 1..Len(r.todo) /\ DOMAIN r.reports = 1..Len(r.reports)
      /\ DOMAIN r.repairs = 1..Len(r.repairs) /\ Len(r.todo) \in Nat
      /\ Len(r.reports) = Len(r.todo) /\ Len(r.repairs) = r.k - 1
      /\ r.k \in 1..(Len(r.todo) + 1)
  BY SequenceDomain DEF TwoPasses
<1>2. DOMAIN r.reports = DOMAIN r.todo /\ DOMAIN r.repairs = DOMAIN r.todo
  <2>1. Len(r.repairs) = Len(r.todo)
    BY <1>1
  <2> QED BY <1>1, <2>1
<1>3. r.reports[i] = found /\ r.repairs[i] = found
  BY <1>2 DEF TwoPasses, Traced
<1>4. \A b, analysis : /\ CountryChange(b, analysis).tx = b.tx
                       /\ CountryChange(b, analysis).label = b.label
                       /\ CountryChange(b, analysis).field = "country"
                       /\ TownChange(b, analysis).tx = b.tx
                       /\ TownChange(b, analysis).label = b.label
                       /\ TownChange(b, analysis).field = "town"
  BY DEF CountryChange, TownChange, DiffEntry
<1> HIDE DEF a, found
<1>5. /\ found.readiness = "REPAIRABLE" => NewCountry(a, found) \/ NewTown(a, found)
      /\ found.readiness = "READY" => ~NewCountry(a, found)
  BY CloudNovaProposes DEF found
<1>6. ASSUME found.readiness = "REPAIRABLE" PROVE entries # {}
  <2>1. PICK e \in Range(ProposedChanges(a, found)) : e.tx = a.tx /\ e.label = a.label
    BY <1>4, <1>5, <1>6, ProposalsListed
  <2>2. e \in Range(r.changes)
    BY <1>3, <2>1 DEF TwoPasses, Sourced, a
  <2>3. PICK d \in Range(diff) : SamePlace(d, e)
    BY <2>2 DEF SamePlaces
  <2> QED BY <2>1, <2>3 DEF SamePlace
<1>7. ASSUME found.readiness = "READY", NEW d \in entries PROVE d.field = "town"
  <2>1. PICK e \in Range(r.changes) : SamePlace(d, e)
    BY DEF SamePlaces
  <2>2. PICK j \in DOMAIN r.repairs : e \in Range(ProposedChanges(r.todo[j], r.repairs[j]))
    BY DEF TwoPasses, Sourced
  <2>3. \/ NewCountry(r.todo[j], r.repairs[j]) /\ e = CountryChange(r.todo[j], r.repairs[j])
        \/ e = TownChange(r.todo[j], r.repairs[j])
    BY <2>2, ProposalsListed
  <2>4. e.tx = r.todo[j].tx /\ e.label = r.todo[j].label
    BY <1>4, <2>3
  <2>5. KeyOf(r.todo[j]) = KeyOf(r.todo[i])
    BY <2>1, <2>4 DEF SamePlace, KeyOf, a
  <2>6. j = i
    BY <1>2, <2>5 DEF AddressList
  <2>7. e.field = "town"
    BY <1>3, <1>4, <1>5, <1>7, <2>3, <2>6 DEF a
  <2> QED BY <2>1, <2>7 DEF SamePlace
<1> QED BY <1>3, <1>6, <1>7 DEF a, found, ReportHolds

\* generator.py, generate_candidate, with readiness.py: for every message and
\* every mixture of answers, failures and fallbacks, an address that both passes
\* gave to CloudNova gets a change if it was reported REPAIRABLE, and keeps its
\* country if it was reported READY.
THEOREM RepairableIsRepairedAlways == Spec => []RepairableIsRepaired
<1>1. Init => InputInv /\ PassesInv /\ RepairableIsRepaired
  BY DEF Init, InputInv, PassesInv, RepairableIsRepaired, NoResult
<1>2. PipelineInv /\ InputInv /\ PassesInv /\ RepairableIsRepaired /\ [Next]_vars
        => RepairableIsRepaired'
  <2> SUFFICES ASSUME PipelineInv, InputInv, PassesInv, RepairableIsRepaired, [Next]_vars
               PROVE  RepairableIsRepaired'
    OBVIOUS
  <2>1. CASE result' = result \/ result'.kind # "analysis"
    BY <2>1 DEF RepairableIsRepaired, ByCloudNova
  <2> DEFINE m == req.in.message
             candidate == generate_candidate(m, req.changes, RulesFor(req.in))
             diff == candidate.changes
  <2>2. CASE Conclude /\ req # NoRequest /\ result' = Conclusion(req, candidate)
    <3> SUFFICES ASSUME req.in.repair PROVE RepairableIsRepaired'
      <4>1. result'.in = req.in
        BY <2>2 DEF Conclusion
      <4> QED BY <4>1 DEF RepairableIsRepaired
    <3>1. /\ TwoPasses(req) /\ req.pc = "repair" /\ req.todo = AddressesOf(m)
          /\ IsSequence(req.reports) /\ IsSequence(req.changes) /\ req.k > Len(req.todo)
      BY <2>2 DEF PassesInv, InputInv, PipelineInv, RequestInv, KeepsAll, Conclude, Todo
    <3>2. AddressList(req.todo, m, (DOMAIN m.txs) \X Labels)
      <4>1. IsSequence(m.txs)
        BY <2>2, InputAssumption DEF InputInv, IsSequence
      <4> HIDE DEF m
      <4> QED BY <3>1, <4>1, AddressesListed
    <3>3. \A e \in Range(req.changes) : {"tx", "label", "field", "status"} \subseteq DOMAIN e
      <4> TAKE e \in Range(req.changes)
      <4>1. PICK j \in DOMAIN req.repairs :
               e \in Range(ProposedChanges(req.todo[j], req.repairs[j]))
        BY <3>1 DEF TwoPasses, Sourced
      <4>2. e = CountryChange(req.todo[j], req.repairs[j]) \/ e = TownChange(req.todo[j], req.repairs[j])
        BY <4>1, ProposalsListed
      <4> QED BY <4>2 DEF CountryChange, TownChange, DiffEntry
    <3>4. SamePlaces(diff, req.changes)
      BY <3>3, DiffIsOfChanges
    <3> HIDE DEF candidate
    <3>5. /\ result'.in = req.in /\ result'.diff = diff
          /\ result'.reports = req.reports /\ result'.repairs = req.repairs
      BY <2>2 DEF Conclusion
    <3> HIDE DEF diff
    <3>6. ASSUME NEW i \in DOMAIN req.todo, ByCloudNova(i)'
          PROVE  ReportHolds(diff, req.todo[i], req.reports[i])
      <4>1. /\ i \in DOMAIN req.repairs
            /\ req.reports[i].provider = "cloudnova" /\ req.repairs[i].provider = "cloudnova"
        BY <3>5, <3>6 DEF ByCloudNova
      <4>2. req.pc # "report"
        BY <3>1
      <4>3. /\ req.todo = AddressesOf(req.in.message)
            /\ AddressList(req.todo, req.in.message, (DOMAIN req.in.message.txs) \X Labels)
            /\ TwoPasses(req) /\ IsSequence(req.reports) /\ req.k > Len(req.todo)
        BY <3>1, <3>2
      <4> QED BY <3>4, <4>1, <4>2, <4>3, ConcludedIsRepaired
    <3>7. AddressesOf(result'.in.message) = req.todo
      BY <3>1, <3>5
    <3> QED BY <3>5, <3>6, <3>7 DEF RepairableIsRepaired, ReportHolds
  <2> QED BY <2>1, <2>2, ResultStep
<1> QED BY <1>1, <1>2, PipelineInit, PipelineStep, InputStep, PassesStep, PTL DEF Spec, PipelineInv
=============================================================================
