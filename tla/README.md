# PaymentOps: a TLA+ verification project

PaymentOps analyses payment messages: it validates ISO 20022 XML and mapped CSV or JSON,
proposes repairs, correlates messages of one payment, reconciles account reports, matches
records, and keeps the cases operators decide on. It never moves money; what can go wrong is that
its database tells an operator something that is not so. This directory models the parts that
change that database, checks them with TLC and proves the most important ones with TLAPS.

`PROJECT.json` holds the machine-readable side: which definition models which lines, every run
with its properties, the mutants, the findings, the hazards and the theorems.

## 1. Inventory

| Component | State | Operations | Correct when |
|---|---|---|---|
| Matching runs (`matching_service`, `routers/matching`, `reconciliation_tasks`) | match records, run row with counters, candidate rows | start a run, execute it in a worker, decide a candidate, publish a policy | a candidate is claimed once; no enqueued run is lost; counters are those of an execution |
| Batch jobs (`batch_service`, `batch_tasks`, `queue`) | job row, input text in Redis with an expiry | create, store, enqueue, process, delete input | progress adds up; a finished job is whole and stays so; a job ends |
| Broker and worker pool (`celery_app`, Celery, Redis) | queued and unacknowledged messages | fetch, acknowledge late, redeliver, retry, lose a child | at-least-once delivery |
| Database session (`db/base`) | identity map of loaded rows | load, flush changed attributes, roll back | writers do not undo one another |
| Payment cases (`case_service`, `routers/cases`) | case status, case actions, audit events | approve, reject, close | first decision stands; the audit trail explains the status |
| Integration profiles (`integration_service`, `routers/profiles`, `routers/integrations`) | profile row, version snapshots, cases with idempotency keys | create, update, publish, analyse | what is published was validated and snapshotted; a case can be reproduced |
| ISO ingestion and lifecycles (`iso_analysis_service`, `lifecycle_service`, `iso_engine/lifecycle`) | messages by hash, lifecycles, events | analyse payment, status report | a known payment is never split; a message applied once; a status is one that was reported |
| Account reporting (`account_service`, `iso_engine/account`) | reports, entries, reconciliations, exception cases | analyse camt.053/054, detect missing events, decide | no mismatch reconciled; an event reconciled once; an exception has its case, and a case its exception |
| Matching policies | policy rows, versions | create, publish | one version number, one content |
| Matching engine (`packages/matching_engine`) | none | normalise, compare fields, score, classify, narrow candidates | agreement never counts against a pair; a record is compared with its copy, however incomplete, and matches it |
| Mapping engine (`packages/mapping_engine`) | none | validate a definition, map records | every field ends in its own target or is reported |
| Analysis pipeline (`packages/analysis`), rules, address and repair engines | failure counter and opening time of each client of the structuring service | parse, dispatch, report on addresses, propose and re-validate a repair | a good country survives; a validated document passes; report and repair agree; a request ends |
| Users and sessions (`user_service`, `auth`, `scripts/user_admin`, the console's proxy) | account row with failure counter and lock, session rows | log in and out, reset, disable, enable, set role, revoke, act through the proxy | lockout counts failures; a revoked session is dead; only the entitled act |
| API clients | client rows | look a key up | outside the model |
| ISO adapters, registry, XML security, XSD | none | parse, dispatch by version | dispatch and refusal are in AnalysisPipeline, extraction is outside |
| Web pages, migrations, vendored SWIFT data | — | — | outside the model |

The API handlers and the Celery workers share one PostgreSQL database at READ COMMITTED. There
are no row locks, no version columns and few unique constraints (user e-mail, session token,
client id, case id, lifecycle id). Every session is created with `expire_on_commit=False`, so what
a handler read stays what it sees. A handler that commits several times leaves its early commits
behind when it dies. Messages to workers are acknowledged late and redelivered when the
acknowledgement does not come, also while the first worker is still busy. These four facts are
where the hard behaviour comes from, and the models keep all of them.

## 2. Modules

**OrmSession** — `Flush`: the row in the database after a session writes back the attributes it
changed, given what it had loaded. Used wherever two sessions may hold the same row.

**ReconciliationRun** — the request (`StoreRecord`, `CreateRun`, `Enqueue`, `RequestFails`), the
broker (`Fetch`, `Acknowledge`, `Retry`, `GiveUp`, `Redeliver`, `ChildDies`), the task (`LoadRun`,
`LoadDataset`, `Begin`, one `Source…` action per source record, `Finish` or `FinishRaises`,
`DatabaseError`, `WorkerDies`), and `PublishPolicy`, `DecideCandidate`. Match records are rows that
may share a record id. What the matcher answers for a pair under a policy version is the constant
table `Judge`, so the properties hold for any matcher; a verdict may also raise or be *poison*,
i.e. hold a value that has no JSON encoding. The counters, the claimed dictionary and the rows
waiting in the session are explicit because the final commit stores them together.

**AtLeastOnce** — what the API relies on when it sends a task: it stays owed until it has been
carried out at least once or is dropped for good; it may be carried out more often.
ReconciliationRun and BatchJob implement it: owed is what is queued, due for a retry or held by a
worker, done counts committed executions (for a batch, that its job has ended), dropped is what
was given up. `ImplementsAtLeastOnce` states the refinement in both modules.

**BatchJob** — the request, the input with its expiry, the task from `LoadJob` to `DeleteInput`,
and the same broker and faults. A row's outcome depends on the revision of the profile, which
`EditProfile` may change: the task reads the live profile.

**CaseWorkflow** — `Decide` reads the case, applies the guard and takes the time stamp; `Commit`
stores status, action and audit event in one transaction; `Fail` rolls back.

**ProfilePublishing** — create, update, publish and analyse, each split at the point where
another request's commit can come between its read and its write. Any requests may overlap. Three history
variables record where they did: `drifted` (the row was created as PUBLISHED, or an update changed it
after its publication), `overtaken` (analyses that read such a row) and `collided` (analyses that
looked their key up beside another one).

**AccountRules** — `reconcile_account_entry` as operators: evidence, conflicts, expected
direction, classification. The code has three normalisations: identifiers are compared in upper case
without surrounding blanks, currencies in upper case, accounts in upper case without blanks and hyphens. `Canon` is a table
with one row for each, so that two spellings may be one account and two identifiers. The match score is left out: nothing
decides on it.

**IsoIngestion** — `POST /api/v1/iso/analyze`, one action per commit or per read that can go stale.
Payments and status reports: `Analyze`, `PersistMessage`, `FindLifecycle`, `CreateLifecycle`,
`AddEvent`, `SetStatus`. Account reports: `PersistReport`, `FindEntry`, `InsertEntry`, `MarkTwin`,
`ConfirmEvent`, `FindLifecycleForEntry`, `Reconcile`, `PersistReconciliation`,
`AddLifecycleEvent`, `FindCase`, `InsertCase`. Which lifecycle an unordered SELECT returns is
a free choice. `known` is the session's identity map: a status equal to the one loaded is not
written. `FindEntry` reads the repeated entry from the table: the identity map is weak, and no variable
of `_ingest_entry` keeps a row beyond its item. `looked` is history: how many lifecycles there were when a
request looked for its own. A message carries one report; a bundle of several behaves like one longer report,
because all its reports are of one kind. The hash of a payment contains the time of receipt, so
payments are never recognised as repeated. Lifecycle rows have no accounts, uetr or original
message id, because `_profile_from_dict` and the payment profiles never supply them. `decide_correlation` is not an
action: nothing inserts the rows it would change.

**MissingEvents** — extends IsoIngestion by the sweeps of `detect_missing_account_events`: select the
accepted payments older than the cutoff (which of them are older is a free choice of a prefix), look
for an entry, look for the case, insert it. The last three are separate steps, and ingestion and
other sweeps go on in between. A retry of the task is one more sweep.

**MatchingEngine** — `packages/matching_engine` as operators: normal forms, the comparison of each kind
of field with its tolerances, the weighted score in hundredths, critical conflicts,
classification, the narrowing criteria and the filter that applies them. Texts are tokens;
normal forms and similarities of tokens are constant tables.

**MappingEngine** — records from JSON, CSV or XML, selectors, transforms, defaults, targets, MAP-001
issues, and `validate_mapping`.

**AddressEngine**, **RulesEngine**, **RepairEngine**, **AnalysisPipeline** — each extends the one
before. AddressEngine has the CloudNova provider and how an answer of the structuring service is
read (suggested and forced country, confidence to evidence, readiness). RulesEngine has the
baseline rules and the declarative ones with the conversions their operators make. RepairEngine has
the proposed changes, how far `_apply_to_message` really applies them to each format, the
schema's verdict and the candidate's status. AnalysisPipeline is a state machine of one process:
`Receive` with the refusals of the three entry points, one step per call of the service
(`PostAnswered`, `PostRefused`, `PostTimedOut`, `PostGarbled`, `Unavailable`) in the report pass and
again in the repair pass, `Conclude`, the clock and restarts of the service. The circuit breaker is
per client: the application keeps one (`app`); an analysis under a profile builds its own (`own`),
which is discarded with the request. An address about which the service finds nothing is answered with
the texts NO COUNTRY and NO TOWN and a confidence of 0.15, which the client takes as it takes any other text.

**UserSessions** — one account: logins split at their commits (account row, session row, audit
event), the administrator's commands split at read, select and commit, logout, expiry, and the proxy
that validates session, tenant, role and CSRF token in one request and forwards in another. The select autoflushes the
changed row, so the row is locked from there to the commit (`RowLocked`). `epoch` is the last revocation
that committed. A session carries the epoch it was stored in and, in `raced`, the command whose select it
came too late for, if there is one: it is `Current` as long as the epoch is one of the two, so one command may miss it
and no later one.

The `…Proofs` modules hold the theorems of section 5: ReconciliationRunProofs, BatchJobProofs,
CaseWorkflowProofs, ProfilePublishingProofs, UserSessionsProofs, IsoIngestionProofs (IsoIngestion and
MissingEvents), AnalysisPipelineProofs (AnalysisPipeline and the engines under it) and EvaluationProofs
(AccountRules, MatchingEngine and MappingEngine, through MC_Evaluation).

`MC_*` modules give the constants their values for TLC, MC_ProfilePublishing only a symmetry;
CaseWorkflow needs none. Definitions introduced by a comment `Mutant:` are faulty variants of the definition that
follows; each is used to show that a property can be violated.

## 3. Runs

Passing runs:

| Run | Instance | Shows |
|---|---|---|
| `recon_faults` | 1 run, 1 worker, 1 fault and a final commit that may raise, 2 retries, 1 redelivery of a held message, 2 publications, candidate limit 1, operators confirming | `OneToOneClaims`, `NotForgotten`, `CountersOfOneExecution`, `ImplementsAtLeastOnce`, and under fairness `EventuallySettled` |
| `batch_faults` | a 3-row and an over-long job, 1 worker, 2 faults, 1 redelivery, 1 profile edit | `ProgressAddsUp`, `FinishedIsWhole`, `TerminalIsFinal`, `ImplementsAtLeastOnce`, and under fairness `EndsUnlessDropped` |
| `case_actions` | 3 requests on a case in any overlap | `OnlyOverlapsContradict`, `AuditTellsStatus` |
| `profile_overlap` | 5 requests on one profile in any overlap, created as a draft or as PUBLISHED under either of two version numbers | `OnlyRacesMutate`, `CaseReproducible`, `OneCasePerKey` |
| `evaluation` | every entry, account and lifecycle over up to three values per field; every pair of match records over seven fields, and every record with every subset of its fields as a copy, under two policies; every mapping of two fields out of 75 on four sources | `ReconciledExactlyWhenSafe`; `AgreementHelps`, `CopyCompared`; `MappedOrReported` |
| `iso_serial` | a payment, its status report, a notification sent twice and a statement that carries its entry twice and a matching one, one at a time, one death, beside two sweeps | `AppliedOnce`, `ReconciledOnce`, `MissingIsMissing` |
| `iso_overlap` | two messages of a payment, a status report of two transactions, one of them unknown, another that contradicts it, a notification and the statement that repeats its entry, two at a time, one death | `StatusHasEvent`, `CaseForException`, `OnlyRacesSplit` |
| `pipeline` | 2 requests out of 15 inputs, 4 possible answers of the service, 1 retry, circuit threshold 2 | `CircuitCountsARun`, `OpenCircuitIsSilent`, `RepairableIsRepaired`, `ValidatedNamesCountries`, `ForcedCountryKept`, and under fairness `RequestConcludes` |
| `users` | 3 logins, 2 at a time, 2 passwords, lockout at 2 failures, 2 commands, 1 operator's request | `RevocationHolds`, `LockoutCounts`, `OnlyEntitledAct` |

ReconciliationRun, BatchJob, CaseWorkflow, ProfilePublishing and UserSessions also have a `TypeOK`.

Runs that are expected to fail, each a disagreement between the code and what it says of itself
(quoted in `PROJECT.json`, `findings`):

| Run | What happens |
|---|---|
| `recon_poison` | one source with an unencodable value keeps its run RUNNING for good, despite per-source isolation |
| `iso_order` | a status report that comes before its payment is never applied |
| `iso_confirm` | an amount mismatch becomes RECONCILED when the statement repeats it |

The largest passing runs are `users` (2.1 million distinct states), `iso_overlap` (1.0 million) and `evaluation` (0.7
million); each takes between half a minute and two and a half minutes.

### Other behaviours of the models

These follow from the code as well. Each can be reproduced by the change named.

- A worker that dies between the final commit of a run and its acknowledgement executes the run again
  and adds a second set of candidate rows, under whatever policy is then published. Compare rows of
  one run without their `exec`.
- Two overlapping executions of one run leave counters that belong to neither:
  `CountersOfOneExecution` fails with two workers and one redelivery.
- With a second worker, a message redelivered while its job runs is processed twice, and the second
  execution goes on writing progress after the first has set the job COMPLETED: `TerminalIsFinal`
  fails with `Workers = {w1, w2}`, although `batch_service.py:86` says that such a job "is not
  reprocessed".
- An exception while a batch is processed leaves the job RUNNING; the message is acknowledged and
  nothing sends another (`dropped` in `EndsUnlessDropped`).
- Two operators who read the same open case both have their decision accepted: the `Overlap`
  disjunct of `OnlyOverlapsContradict` is reached with two requests.
- An update that read the draft may commit after the publication, and the published profile is then neither
  what was validated nor what was snapshotted, although `integration_service.py:4` says that it "is never
  silently mutated": add the invariant `PublishedMatchesSnapshot` to `MC_Profile_overlap.cfg`. `OnlyRacesMutate`
  says that nothing else changes it.
- A profile created with status PUBLISHED is used without validation or snapshot (`drifted` in
  `CaseReproducible`).
- Two updates at once leave the mapping of one with the rules of the other. Two analyses at once with
  one idempotency key make two cases, after which every request with that key fails (`collided` in
  `OneCasePerKey`).
- The pain.001 and the pacs.008 of one payment, analysed at once, create two lifecycles (the `absent`
  request of `OnlyRacesSplit`).
- A request that dies after storing its message leaves a hash that makes every retry an answer
  without analysis: `AppliedOnce` says at most once, and at least once does not hold.
- A status report about several payments gives all of them the status of the first
  (`NormalizedStatus`).
- A case belongs to an identity, not to an entry and a classification as `account_service.py:367` says ("a
  single PaymentCase per (entry, classification) exception"): a mismatch that a report of the same kind repeats
  is stored as DUPLICATE_ACCOUNT_ENTRY, and its case names the mismatch. Add the invariant
  `CasePerClassification` to `MC_Iso_serial.cfg`.
- An account report that comes before its payment stays UNMATCHED_ACCOUNT_ENTRY.
- A case for a missing account event stays open when the entry comes later. Two sweeps at once may
  both try to open it; the later insert fails and the rest of that sweep is not made.
- A candidate without changes is VALIDATED whatever the schema and the rules say of the message
  (`generator.py:90`); `ValidatedNamesCountries` speaks of candidates with changes.
- The paths of a mapped message and of a pain.001 are not those `_apply_to_message` understands: its
  changes are listed, and the rules are run again on the unchanged message.
- A 200 answer of the structuring service whose body is no JSON escapes the fallback and fails the
  request (`PostGarbled`).
- The provider is asked again for the repair, so when the service answers differently the second
  time a REPAIRABLE address may get no change; `RepairableIsRepaired` is about addresses CloudNova
  analysed both times.
- The circuit breaker of an analysis under a profile never outlives the request.
- An address about which the structuring service finds nothing may be reported READY with the country
  NO COUNTRY: its confidence of 0.15 is exactly the least that `_classify` asks for.
- A login that verified its password before a reset, and stored its session after the reset selected
  the sessions to revoke, keeps a live session until the next revocation (`raced` in `RevocationHolds`). A request
  validated by the proxy is forwarded although the session is revoked in between (`Steady` in
  `OnlyEntitledAct`). Two overlapping wrong passwords may count once (`overlapped` in `LockoutCounts`).
- A record with a negative amount has an empty amount window and is not compared with its own copy
  (`Negative` in `CopyCompared`); currencies are narrowed by their raw spelling but compared by their normal form.
- The score weighs only what both records carry, so two records with just amount and currency in common, the rest
  absent on one side, score 100 and are MATCHED; `docs/matching-calibration.md:44`, of records that differ
  everywhere else, concludes that "amount+currency alone are insufficient to auto-match". The filter treats absence the other way:
  a record with the same transaction id is dropped before it is compared if it lacks the reference or the account of the
  source, although `candidates.py:33` says that the criteria "never drop a possible match on insufficient data".
  Add the invariants `MoneyAloneInsufficient` and `NeverDropsPossible` to `MC_Evaluation.cfg`.
- MAP-001 issues of required fields are computed by the mapper and not reported by the analysis under a
  profile.

### Bounds

- *Faults* (`MaxFaults`), *redeliveries of a held message* (`MaxDuplicates`), *retries*
  (`MaxRetries`, the task's own limit, 2 in the code), *publications* (`MaxVersion`), *profile
  revisions* (`MaxRevision`) and *requests in flight* (`MaxInFlight`) are bounded by constants of
  those names. One fault, one redelivery, a policy under which the final commit raises, and two
  retries are enough for a run to crash, be retried, be abandoned, or be executed again.
- Two candidates and two sources make a claim contested, and the limit of one candidate cuts the list. Three rows let a batch fail at its first, middle and last row with a progress commit in
  between.
- Three requests on a case allow a decision between the read and the commit of another and
  a third that follows. Five requests on a profile allow it to be created, published beside an update, and analysed twice.
- The ISO runs between them have every shape of message: a payment known by two different identifier
  sets, contradicting status reports, one of them of two transactions, an entry that differs in amount and
  one that matches, entries that come before their payment, the same report twice, the same entry twice
  in one report and in both kinds of report. Two requests at a time are enough for every race of two lookups.
- In `iso_serial` the account event of an accepted payment may come before, between and after the
  steps of a sweep, and two sweeps may collide on one case.
- Two requests with up to two addresses and two passes give up to eight calls of the service, four
  times the circuit's threshold. One tick is the whole cooldown.
- Two logins under way and one command overlap in every way a login can overlap a revocation; the
  third login and the second command follow. Lockout, expiry and the clock are one tick each.
- The pure algorithms are asked every question of their bounded sets. Similarities, normal forms and
  transforms are tables that give each branch at least one value.
- Symmetry is used for logins and passwords in `users`, for sweeps in `iso_serial` and for requests in
  `profile_overlap`: they are model values that nothing tells apart. None of these runs checks a liveness property.

Deadlock is not checked: all these systems may stop when no client asks for anything and no
message is left.

### Fairness

`EventuallySettled`, `IsolationFinishes` and `EndsUnlessDropped` assume weak
fairness of each worker's task steps: a running pool consumes its queue and a task proceeds, which
is what `worker --concurrency` with a restart policy gives. Requests, operators and faults owe
nothing; faults are finitely many by their bound. `RequestConcludes` assumes weak fairness of the
steps of the request: the pipeline is synchronous code, and every call has a timeout.

## 4. What the models leave out

The text of messages, XML parsing and XSD validation beyond their verdict, organisations (every query is scoped by the
caller's organisation, one organisation is modelled), API keys, metrics and logs, list and
detail queries, response bodies (including the correlation status that is only returned, not
stored), and time except where it orders the
audit trail, expires an input, a lock or a session, or closes a circuit. Database errors are modelled as faults of a request or task.
PostgreSQL, Redis and Celery are modelled from how the code uses them and are marked external in the map.

### Not modelled

- `decide_account_reconciliation`: an unconditional overwrite of columns nothing else reads.
- Drafts of matching policies and the race of two publications on a version number: with
  two versions of one number the latest is either of them. The properties of a run hold whatever
  verdicts it resolves.
- `analysis_service`, which stores the result of an analysis in one commit; the cases it
  leaves are the initial states of CaseWorkflow.
- API clients, masking, audit helpers, settings, middleware, observability: stateless or wiring.
- The AI gateway is a stub. The structuring model, migrations and demonstration data are data.
- The field extraction of the ISO adapters: text processing without state, out of reach of a model of
  this kind.

## 5. Proofs

Every theorem holds for every value of the constants that the named assumptions of the modules allow:
any number of runs, jobs, workers, requests, logins, rows, faults and redeliveries, any matcher,
any answers of the structuring service. An invariant a run checks is stated as
`Spec => []Inv` and proved from an inductive invariant. Hypotheses beyond the assumptions are written `ASSUME … PROVE` and listed here, with what
happens without them.

### ReconciliationRun

- `TypeInvariant`: one case per action. It rests on `NarrowedType`, `TallyType`, `PairedEffect`,
  `ReleaseType` and `FinalRowType`, which say what the helpers return.
- `OneToOneSafety`: nothing in `OneToOneClaims` says that the rows the session is about to store agree
  with one another. `OneToOneInv` adds `ClaimsRecorded` (a claiming row in the session is the entry of
  the claimed dictionary for its candidate record id, hence two such rows name one source) and
  `ExecutionsKnown` (no stored row carries the number of an execution that has not committed, hence
  the rows of a commit are never compared with older ones). Only `SourcePaired` extends the dictionary
  and only `Finish` moves rows to the table; `CandidatesFrame` gives the rest.
- `NoRunForgotten`: inductive with `TypeOK`. A message leaves the queue only into a worker's hands, and
  leaves a worker only back to the queue, after the final commit, or with its run added to
  `abandoned`.
- `ReconciliationRunImplementsAtLeastOnce`: the refinement mapping sends a run to *owed* while a
  message of it waits or is held. The lemmas `Owed…` say what each kind of step does to that set, and
  `EveryStepMapped` that every step is a step of AtLeastOnce or a stutter. It needs that a run
  has left no trace before its task is sent, and that a worker which only has to acknowledge has
  committed (`RefinementInv`).
- `CountersOfOneExecutionAlways` assumes of every state that no run is in the hands of two workers
  (`Exclusive`), and nothing else: messages may be delivered again, as long as the executions of a run follow one another. The
  final flush writes only the counters that differ from those the session loaded, so
  the proof needs that the row still has those (`InStep`), which needs that no other worker has the run.
  `Working` ties the buckets counted in memory to the rows added to the session, one row per
  source; `RowsAreSources` and `CountsAddUp` carry that to the table and to the total. Without the
  hypothesis, with two workers and a redelivery, the property fails (section 3).
- `OneAtATimeSuffices`: with one worker, or when no message is delivered again while it is held, the
  hypothesis is met. Without redeliveries that follows from `OneMessage`: a run has one message, waiting
  or held.

### BatchJob

- `TypeInvariant`, without hypothesis: a flush over a row that others changed meanwhile is a row
  again.
- `ProgressAddsUpAlways`, `FinishedIsWholeAlways`, `TerminalIsFinalAlways` and
  `BatchJobImplementsAtLeastOnce` assume that no job is in the hands of two workers (`Exclusive`). `BatchInv` says
  that a worker's session has the row as stored but for the progress since the last
  commit (`InStep`), and that a stored row adds up (`SoundRow`). Without the hypothesis a second worker
  writes over the progress of the first; section 3 has the counterexample.
- `OneAtATimeSuffices`: one worker, or no redelivery of a held message, gives all four.

### CaseWorkflow

`OnlyOverlapsContradictAlways` and `AuditTellsStatusAlways` share `CaseInv`. Its heart is
`StatusAgrees` (while all decisions on record agree, the case has the status they lead to, and so has every
request that read it after one of them) and `ReadStillCurrent` (a decision no commit has overtaken was
made on the present status). `TypeInvariant` also bounds the clock: it counts the
requests that started and those that finished (`ClockCounts`).

### ProfilePublishing

- `TypeInvariant`, without hypothesis.
- `CaseReproducibleAlways`, `OnlyRacesMutateAlways` and `OneCasePerKeyAlways` have no hypothesis either:
  any requests may overlap and fail. What an overlap can spoil is named in the property, by the history of
  the requests that did.
- `PublishInv`: a published row that has not drifted is the last snapshot (`SnapshotUnlessDrifted`), and
  snapshots are valid (`VersionsValid`); an update in flight has read a draft (`UpdatingADraft`), a publication
  in flight what it validated (`PublishingIsCurrent`), and an analysis that was not overtaken runs under
  a snapshot (`AnalysisHasSnapshot`). Nothing changes the version number of a row (`NumberKept`).
- `OnlyRacesMutateAlways` is a property of steps and rests on `UpdatingADraft`: the flush of an update leaves the
  status alone because it did not change it.
- `KeyInv`: an analysis past its lookup that has not collided still finds no case with its key (`KeyFree`).

### UserSessions

- `TypeInvariant`: the failure count stays under the threshold although rows are flushed that were read
  before others committed.
- `RevocationHoldsAlways` and `OnlyEntitledActAlways` from `AccessInv`: a live session is of the present
  epoch or came too late for the select of the last revocation, and a command under way that has selected has
  selected it or is the one it came too late for (`Reached`); what the proxy saw when it validated is on record (`Granted`).
- `LockoutCountsAlways` from `LockoutInv`: while nothing has overlapped, the transaction under way has
  the account as stored (`Alone`).

### IsoIngestion and MissingEvents

- `StatusHasEventAlways`, `CaseForExceptionAlways` and `OnlyRacesSplitAlways` hold for any number of
  overlapping and dying requests. The first needs only that the event is stored at the point of writing
  the status. The second needs `EntryInv`, which says for every step of a request what its entry is by then,
  since the case comes several commits after the entry, and `CasesExplained` for the other direction. The
  third is a property of steps: what a request did not find, no lifecycle it could see had, so one with the same
  identifier came later than its lookup.
- Two properties of several messages rest on one read that the code does not hold until it writes, and
  hold for any number of requests, deaths anywhere, unless two of them are between that read and that
  write about the same thing:

  | theorem | hypothesis, on every state | the read, and the write after it |
  |---|---|---|
  | `AppliedOnceUnlessRaced` | `HashesApart` | the lookup of the hash; the `iso_messages` row |
  | `ReconciledOnceUnlessRaced` | `EntriesApart` | the lookup of the identity; the `account_entries` row |

  The invariants say that what was looked up is still so: no stored message has the hash, no entry has the
  identity (`StillUnknown`); and that the entries on the way to their reconciliation have identities of their
  own, none of them reconciled yet (`FirstsApart`). No table has a constraint that would close a race: with
  `MaxInFlight = 2` in `MC_Iso_serial.cfg` both properties fail.
- `MissingIsMissingAlways` is a property of steps, for any number of requests and sweeps at once:
  `SweepInv` says that what a sweep selected it has yet to go through, is going through, or has settled, and
  rests on an entry never losing its lifecycle, which `EntryInv` gives. `MonitoredIngests` says that
  the sweeps only add steps that leave the ingestion alone, so its theorems hold beside them.

### AnalysisPipeline

- `CircuitCountsARunAlways`: the counter is reset when it reaches the threshold, the run of failures is
  not; the induction is `NextRemainder`, arithmetic modulo an arbitrary threshold.
- `ForcedCountryKeptAlways`: `RequestInv` says that the changes collected so far keep the codes. It uses
  `CodesAreUpperCase`: the codes of `VALID_COUNTRY_CODES` are their own upper-case form, and none is absent.
- `OpenCircuitIsSilentAlways`, a property of steps: only the first attempt of a call looks at the
  circuit. `RetryInv` says why that is enough: while a call is retried its circuit is closed
  and stays closed.
- `ValidatedNamesCountriesAlways`: the rules are evaluated again on the rebuilt document, and ADR-002 and
  ADR-003 block each address without a valid code (`UnblockedNamesCountries`). That speaks of the
  addresses by transaction and party, the property of the list both passes visit: `AddressesListed` says
  that the list has exactly those, no place twice, and `ChangedKeepsSequence` that no number of changes
  makes the transactions anything but a sequence.
- `RepairableIsRepairedAlways`, from `PassesInv`: the two passes visit the same list place by place; an
  analysis signed by CloudNova is what CloudNova makes of the address at its place (`Traced`); the
  changes are those the analyses propose, and all of CloudNova's are among them (`Sourced`).
  `CloudNovaProposes` says that REPAIRABLE comes with a new country or town and READY without a
  new country; it needs `NamesAreOfCodes` (every value of `COUNTRY_NAME_TO_CODE` is in
  `VALID_COUNTRY_CODES`). That a diff entry at an address comes from that address needs that no place is
  listed twice.

`InputAssumption` says that the transactions of an input form a sequence.

### AccountRules

`ReconciledIffSafe` proves the reference definition of `ReconciledExactlyWhenSafe` for all values, not
only those of the run, and `ReconciledExactlyWhenSafeAlways` carries it to the answers of the evaluation
model. They assume that `None` is not a direction (`DirectionsAreValues`). The normalisations may be any tables.

### MatchingEngine and MappingEngine

The theorems are about the operators, for all inputs; each has a second form for the answers of the
evaluation model, which is what the run checks. The tables of normal forms, similarities and transforms
are constants of MC_Evaluation and may be any; similarities are in per cent (`SimilarIsPercent`).

- `AgreementNeverHurts`: the weights may be any integers, the fields any. One more field that agrees
  adds the same to the weights reached and to the weights compared (`ScoreOfAgreement`), and a quotient
  of at most a hundred per cent does not fall by that (`ScoreRises`); no critical conflict appears,
  and the classification follows the score (`ClassesOrdered`).
- `CopyAlwaysCandidate`: a record and a copy that lacks any fields but references and accounts. The copy
  passes the narrowing criteria of the record exactly unless both carry a negative amount and the policy has
  a window, because the window of a negative amount is empty. Section 3 has what is lost without reference or
  account (`NeverDropsPossible`).
- `CopyAlwaysMatched`: each field both carry is EXACT, so there is no conflict, and the score is full as soon
  as one such field is weighed. It needs a MATCHED bound of at most 100. That amount and currency are enough for it
  is what section 3 says of `MoneyAloneInsufficient`.
- `EveryFieldMappedOrReported`: after k fields, those up to k have what they deserve and the later
  targets are untouched (`MappedUpTo`); a valid definition gives no target twice.

### Induction over data

`SumFunctionOnSet`, `FoldLeft` and `FlattenSeq` of the community modules are recursive functions. The
library states induction with an operator as its parameter, which the provers cannot
instantiate. The proofs state it with a set instead: `InductionOverNat` and
`InductionOverSubsets` say that a set which has the first element, and with every element the next,
has all; they follow from `NatLessThanWellFounded` and the library's theorems on well-founded
relations. With them the function a recursion defines exists (`SumExists`, `MapFoldExists`, `SetFoldExists`,
`FlattenedOneByOne`) and unfolds one element at a time (`SumRemove`, `MappedFieldByField`,
`ChangedOneByOne`), and everything else is ordinary.

### Only model-checked

- `EventuallySettled`, `EndsUnlessDropped`, `RequestConcludes`: liveness under fairness is beyond the
  prover. Every other property of a passing run is a theorem, some under the hypotheses named above.
- The violations of the three failing runs, and those named in section 3.

## 6. Plan

1. What a run resolves when two publications of a matching policy store one version number.
