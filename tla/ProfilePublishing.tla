------------------------- MODULE ProfilePublishing -------------------------
(***************************************************************************)
(* One integration profile: its draft row, the immutable version snapshots *)
(* and the analyses made under it.  Every request reads the profile row in *)
(* its own session and commits later; nothing locks the row.  The contents *)
(* of a profile are its mapping and its rules, two columns.                *)
(***************************************************************************)
EXTENDS Integers, Sequences, FiniteSets, OrmSession

CONSTANTS
  Requests,        \* requests clients make
  Mappings, Rules, \* values of the two columns
  ValidMappings, ValidRules,
                   \* the ones validate_mapping and validate_rule_config accept
  CreateStatuses, Numbers,
                   \* statuses and version numbers clients send with a new profile
  Keys             \* idempotency keys of analysis requests

ASSUME ConstantsAssumption ==
  /\ IsFiniteSet(Requests)
  /\ Mappings # {} /\ Rules # {} /\ Numbers # {} /\ Keys # {}
  /\ ValidMappings \subseteq Mappings /\ ValidRules \subseteq Rules
  /\ CreateStatuses \subseteq {"DRAFT", "TESTING", "PUBLISHED", "ARCHIVED"}

VARIABLES
  profile,    \* the integration_profiles row
  versions,   \* integration_profile_versions rows, oldest first
  cases,      \* payment_cases rows the analyses persisted, oldest first
  pc,         \* step of each request
  loaded,     \* the profile row the request read
  sent,       \* what the request's client sent
  \* History of overlaps; no step depends on it.
  drifted,    \* the row was created as published, or changed in a race with
              \* the latest publication
  overtaken,  \* publications during which an update committed, and analyses
              \* that read a drifted row
  collided    \* analyses that looked their key up while another had it

vars == <<profile, versions, cases, pc, loaded, sent, drifted, overtaken, collided>>

Content == [mapping : Mappings, rules : Rules]
ContentOf(row) == [mapping |-> row.mapping, rules |-> row.rules]
Row(status, c, n) == [status |-> status, mapping |-> c.mapping, rules |-> c.rules, number |-> n]
AnyContent == CHOOSE c \in Content : TRUE
AnyKey == CHOOSE k \in Keys : TRUE
NoRow == Row("NONE", AnyContent, CHOOSE n \in Numbers : TRUE)

Init ==
  /\ profile = NoRow
  /\ versions = <<>> /\ cases = <<>>
  /\ pc = [q \in Requests |-> "new"]
  /\ loaded = [q \in Requests |-> NoRow]
  /\ sent = [q \in Requests |-> [content |-> AnyContent, key |-> AnyKey]]
  /\ drifted = FALSE /\ overtaken = {} /\ collided = {}

At(step) == {q \in Requests : pc[q] = step}
InFlight == {q \in Requests : pc[q] \notin {"new", "done", "refused", "failed"}}

\* Request q reads the profile row and goes on to step.
Starts(q, step) ==
  /\ pc[q] = "new"
  /\ profile.status # "NONE"
  /\ loaded' = [loaded EXCEPT ![q] = profile]
  /\ pc' = [pc EXCEPT ![q] = step]
  /\ UNCHANGED <<profile, versions, cases, drifted, collided>>

Ends(q, step) == pc' = [pc EXCEPT ![q] = step] /\ UNCHANGED <<loaded, sent>>

\* create_profile stores the status and the version number the client sent.
CreateProfile(q, s, c, n) ==
  /\ pc[q] = "new"
  /\ profile.status = "NONE"
  /\ profile' = Row(s, c, n)
  /\ drifted' = (s = "PUBLISHED")
  /\ Ends(q, "done")
  /\ UNCHANGED <<versions, cases, overtaken, collided>>

-----------------------------------------------------------------------------
Update(q, c) ==
  /\ Starts(q, IF profile.status = "PUBLISHED" THEN "refused" ELSE "updating")
  /\ sent' = [sent EXCEPT ![q].content = c]
  /\ UNCHANGED overtaken

\* Mutant: the update writes every column back, as it was read.
UpdateCommitsWhole(q) ==
  /\ pc[q] = "updating"
  /\ profile' = [loaded[q] EXCEPT !.mapping = sent[q].content.mapping,
                                  !.rules = sent[q].content.rules]
  /\ drifted' = (drifted \/ (profile.status = "PUBLISHED" /\ loaded[q].status # "PUBLISHED"))
  /\ overtaken' = overtaken \cup At("publishing")
  /\ Ends(q, "done")
  /\ UNCHANGED <<versions, cases, collided>>

UpdateCommits(q) ==
  /\ pc[q] = "updating"
  /\ profile' = Flush(profile, [loaded[q] EXCEPT !.mapping = sent[q].content.mapping,
                                                  !.rules = sent[q].content.rules], loaded[q])
  /\ drifted' = (drifted \/ (profile.status = "PUBLISHED" /\ loaded[q].status # "PUBLISHED"))
  /\ overtaken' = overtaken \cup At("publishing")
  /\ Ends(q, "done")
  /\ UNCHANGED <<versions, cases, collided>>

-----------------------------------------------------------------------------
Valid(row) == row.mapping \in ValidMappings /\ row.rules \in ValidRules

\* publish_profile validates the row it read, whatever its status.
Publish(q) ==
  /\ Starts(q, IF Valid(profile) THEN "publishing" ELSE "refused")
  /\ UNCHANGED <<sent, overtaken>>

\* Mutant: the status is set to the name of the action.
PublishCommitsOther(q) ==
  /\ pc[q] = "publishing"
  /\ versions' = Append(versions, [number |-> loaded[q].number, content |-> ContentOf(loaded[q])])
  /\ profile' = Flush(profile, [loaded[q] EXCEPT !.status = "PUBLISH"], loaded[q])
  /\ drifted' = (q \in overtaken)
  /\ Ends(q, "done")
  /\ UNCHANGED <<cases, overtaken, collided>>

PublishCommits(q) ==
  /\ pc[q] = "publishing"
  /\ versions' = Append(versions, [number |-> loaded[q].number, content |-> ContentOf(loaded[q])])
  /\ profile' = Flush(profile, [loaded[q] EXCEPT !.status = "PUBLISHED"], loaded[q])
  /\ drifted' = (q \in overtaken)
  /\ Ends(q, "done")
  /\ UNCHANGED <<cases, overtaken, collided>>

-----------------------------------------------------------------------------
\* Mutant: a draft can be analysed under.
AnalyzeDrafts(q, k) ==
  /\ Starts(q, "finding")
  /\ sent' = [sent EXCEPT ![q].key = k]
  /\ overtaken' = IF drifted THEN overtaken \cup {q} ELSE overtaken

Analyze(q, k) ==
  /\ Starts(q, IF profile.status = "PUBLISHED" THEN "finding" ELSE "refused")
  /\ sent' = [sent EXCEPT ![q].key = k]
  /\ overtaken' = IF drifted THEN overtaken \cup {q} ELSE overtaken

WithKey(k) == {i \in DOMAIN cases : cases[i].key = k}

\* Mutant: the idempotency key is not looked up.
FindExistingNever(q) ==
  /\ pc[q] = "finding"
  /\ Ends(q, "persisting")
  /\ collided' = IF \E p \in At("persisting") : sent[p].key = sent[q].key
                 THEN collided \cup {q} ELSE collided
  /\ UNCHANGED <<profile, versions, cases, drifted, overtaken>>

\* scalar_one_or_none: two cases with the key are an error.
FindExisting(q) ==
  LET found == WithKey(sent[q].key) IN
  /\ pc[q] = "finding"
  /\ Ends(q, IF found = {} THEN "persisting"
             ELSE IF Cardinality(found) = 1 THEN "done" ELSE "failed")
  /\ collided' = IF \E p \in At("persisting") : sent[p].key = sent[q].key
                 THEN collided \cup {q} ELSE collided
  /\ UNCHANGED <<profile, versions, cases, drifted, overtaken>>

PersistCase(q) ==
  /\ pc[q] = "persisting"
  /\ cases' = Append(cases, [key |-> sent[q].key, number |-> loaded[q].number,
                             content |-> ContentOf(loaded[q]), by |-> q])
  /\ Ends(q, "done")
  /\ UNCHANGED <<profile, versions, drifted, overtaken, collided>>

\* The analysis raises, the database fails or the process dies before the
\* commit: the session is rolled back and the client may try again.
Fail(q) ==
  /\ q \in InFlight
  /\ Ends(q, "failed")
  /\ UNCHANGED <<profile, versions, cases, drifted, overtaken, collided>>

-----------------------------------------------------------------------------
Next == \E q \in Requests :
  \/ \E s \in CreateStatuses, c \in Content, n \in Numbers : CreateProfile(q, s, c, n)
  \/ \E c \in Content : Update(q, c)
  \/ UpdateCommits(q)
  \/ Publish(q) \/ PublishCommits(q)
  \/ \E k \in Keys : Analyze(q, k)
  \/ FindExisting(q) \/ PersistCase(q)
  \/ Fail(q)

Spec == Init /\ [][Next]_vars

-----------------------------------------------------------------------------
RowType == [status : {"NONE", "DRAFT", "TESTING", "PUBLISHED", "ARCHIVED"},
            mapping : Mappings, rules : Rules, number : Numbers]
VersionType == [number : Numbers, content : Content]
CaseType == [key : Keys, number : Numbers, content : Content, by : Requests]
TypeOK ==
  /\ profile \in RowType
  /\ versions \in Seq(VersionType)
  /\ cases \in Seq(CaseType)
  /\ pc \in [Requests -> {"new", "updating", "publishing", "finding", "persisting",
                          "done", "refused", "failed"}]
  /\ loaded \in [Requests -> RowType]
  /\ sent \in [Requests -> [content : Content, key : Keys]]
  /\ drifted \in BOOLEAN /\ overtaken \subseteq Requests /\ collided \subseteq Requests

\* "A published profile is never silently mutated": the row analyses run under
\* has the content of the snapshot that was taken when it was published.
PublishedMatchesSnapshot ==
  profile.status = "PUBLISHED" =>
    /\ versions # <<>>
    /\ versions[Len(versions)].content = ContentOf(profile)

\* What the code keeps of that.  A publication is never undone, not even by an
\* update that read the draft and commits later, and the content of a published
\* profile changes only by such an update, one that passed update_profile's
\* check before the publication committed.
OnlyRacesMutate ==
  [][profile.status = "PUBLISHED" =>
       /\ profile'.status = "PUBLISHED"
       /\ ContentOf(profile') # ContentOf(profile) =>
            \E q \in At("updating") : loaded[q].status # "PUBLISHED" /\ pc'[q] = "done"]_vars

\* A case can be reproduced: the version it records was published, was valid
\* and has the content its analysis ran under, unless the analysis read a row
\* that was created as published or changed in a race with its publication.  A
\* publication no update overtakes ends the exception for the analyses after it.
CaseReproducible ==
  \A i \in DOMAIN cases : cases[i].by \notin overtaken =>
    \E j \in DOMAIN versions :
      /\ versions[j].number = cases[i].number
      /\ versions[j].content = cases[i].content
      /\ Valid(versions[j].content)

\* Repeating a request with its idempotency key, after a failure or a time-out,
\* makes a second case only if the repetition looked the key up while another
\* request was between its own lookup and its commit.
OneCasePerKey ==
  \A i, j \in DOMAIN cases :
    /\ cases[i].key = cases[j].key
    /\ cases[i].by \notin collided /\ cases[j].by \notin collided
    => i = j

=============================================================================
