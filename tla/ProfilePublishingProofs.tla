----------------------- MODULE ProfilePublishingProofs -----------------------
(***************************************************************************)
(* Proofs about ProfilePublishing for every set of requests, mappings,     *)
(* rules, numbers and keys.  Requests may overlap in any way; no theorem   *)
(* has a hypothesis.                                                       *)
(***************************************************************************)
EXTENDS ProfilePublishing, FiniteSetTheorems, SequenceTheorems, TLAPS

\* A request in flight has found a profile row.
RowExists == InFlight # {} => profile.status # "NONE"

\* The version number never changes: every row read and every snapshot has it.
NumberKept ==
  /\ \A q \in InFlight : loaded[q].number = profile.number
  /\ \A j \in DOMAIN versions : versions[j].number = profile.number
  /\ versions # <<>> => profile.status # "NONE"

\* An update in flight has read a row that was not published.
UpdatingADraft == \A q \in At("updating") : loaded[q].status # "PUBLISHED"

\* A publication has validated what it read, and unless an update overtook it
\* that is what the row still has.
PublishingIsCurrent ==
  \A q \in At("publishing") :
    /\ Valid(loaded[q])
    /\ q \notin overtaken => ContentOf(loaded[q]) = ContentOf(profile)

\* While no race has changed it, a published row has the content of its latest
\* snapshot, and an analysis that read it so runs under a valid snapshot.
SnapshotUnlessDrifted ==
  profile.status = "PUBLISHED" /\ ~drifted =>
    /\ versions # <<>>
    /\ versions[Len(versions)].content = ContentOf(profile)
Snapshot(number, content) ==
  \E j \in DOMAIN versions : /\ versions[j].number = number
                             /\ versions[j].content = content
                             /\ Valid(versions[j].content)
AnalysisHasSnapshot ==
  \A q \in At("finding") \cup At("persisting") :
    q \notin overtaken => Snapshot(loaded[q].number, ContentOf(loaded[q]))

VersionsValid == \A j \in DOMAIN versions : Valid(versions[j].content)

PublishInv ==
  /\ TypeOK /\ RowExists /\ NumberKept /\ UpdatingADraft /\ PublishingIsCurrent
  /\ SnapshotUnlessDrifted /\ AnalysisHasSnapshot /\ VersionsValid /\ CaseReproducible

\* Of the analyses that found no case and nobody else about to store one, at
\* most one a key has yet to store its own, and then none has stored one.
KeyFree ==
  \A q \in At("persisting") \ collided :
    /\ \A p \in At("persisting") \ collided : sent[p].key = sent[q].key => p = q
    /\ \A i \in DOMAIN cases : cases[i].key = sent[q].key => cases[i].by \in collided

KeyInv == TypeOK /\ KeyFree /\ OneCasePerKey

-----------------------------------------------------------------------------
\* A flush of one profile row over another, column by column.
LEMMA FlushRow ==
  ASSUME NEW db \in RowType, NEW m \in RowType, NEW b \in RowType
  PROVE  /\ Flush(db, m, b) \in RowType
         /\ Flush(db, m, b).status = IF m.status = b.status THEN db.status ELSE m.status
         /\ Flush(db, m, b).mapping = IF m.mapping = b.mapping THEN db.mapping ELSE m.mapping
         /\ Flush(db, m, b).rules = IF m.rules = b.rules THEN db.rules ELSE m.rules
         /\ Flush(db, m, b).number = IF m.number = b.number THEN db.number ELSE m.number
<1> DEFINE r == Flush(db, m, b)
<1>1. DOMAIN db = {"status", "mapping", "rules", "number"}
  BY DEF RowType
<1>2. r = [f \in {"status", "mapping", "rules", "number"} |->
             IF m[f] = b[f] THEN db[f] ELSE m[f]]
  BY <1>1 DEF Flush
<1>3. /\ r.status = IF m.status = b.status THEN db.status ELSE m.status
      /\ r.mapping = IF m.mapping = b.mapping THEN db.mapping ELSE m.mapping
      /\ r.rules = IF m.rules = b.rules THEN db.rules ELSE m.rules
      /\ r.number = IF m.number = b.number THEN db.number ELSE m.number
  BY <1>2
<1>4. r = [status |-> r.status, mapping |-> r.mapping, rules |-> r.rules, number |-> r.number]
  BY <1>2
<1> HIDE DEF r
<1>5. r \in RowType
  BY <1>3, <1>4 DEF RowType
<1> QED BY <1>3, <1>5 DEF r

\* The content of a row, and the row made of a status and a content.
LEMMA ContentType == \A row \in RowType : ContentOf(row) \in Content
BY DEF ContentOf, Content, RowType

\* A new profile row has the status and the content it was given.
LEMMA NewRowType ==
  ASSUME NEW s \in {"NONE", "DRAFT", "TESTING", "PUBLISHED", "ARCHIVED"}, NEW c \in Content,
         NEW n \in Numbers
  PROVE  Row(s, c, n) \in RowType /\ Row(s, c, n).status = s
BY DEF Row, Content, RowType

\* The types hold before any request.
LEMMA InitType == Init => TypeOK
<1> SUFFICES ASSUME Init PROVE TypeOK
  OBVIOUS
<1>1. AnyContent \in Content
  <2>1. PICK m \in Mappings, u \in Rules : TRUE
    BY ConstantsAssumption
  <2>2. [mapping |-> m, rules |-> u] \in Content
    BY <2>1 DEF Content
  <2> QED BY <2>2 DEF AnyContent
<1>2. AnyKey \in Keys
  BY ConstantsAssumption DEF AnyKey
<1>3. NoRow \in RowType
  <2>1. (CHOOSE n \in Numbers : TRUE) \in Numbers
    BY ConstantsAssumption
  <2> QED BY <1>1, <2>1, NewRowType DEF NoRow
<1>4. versions \in Seq(VersionType) /\ cases \in Seq(CaseType)
  BY DEF Init
<1> QED BY <1>1, <1>2, <1>3, <1>4 DEF Init, TypeOK

\* Committing an update leaves the status alone; committing a publication sets
\* it, unless the row was read as published, and leaves the content alone.
LEMMA UpdateFlush ==
  ASSUME TypeOK, NEW q \in Requests, UpdateCommits(q)
  PROVE  profile' \in RowType /\ profile'.status = profile.status /\ profile'.number = profile.number
<1> DEFINE m == [loaded[q] EXCEPT !.mapping = sent[q].content.mapping,
                                  !.rules = sent[q].content.rules]
<1>1. profile \in RowType /\ loaded[q] \in RowType /\ sent[q].content \in Content
  BY DEF TypeOK
<1>2. m \in RowType /\ m.status = loaded[q].status /\ m.number = loaded[q].number
  BY <1>1 DEF RowType, Content
<1>3. profile' = Flush(profile, m, loaded[q])
  BY DEF UpdateCommits
<1> HIDE DEF m
<1> QED BY <1>1, <1>2, <1>3, FlushRow

\* Committing a publication leaves the content and sets the status unless it already was.
LEMMA PublishFlush ==
  ASSUME TypeOK, NEW q \in Requests, PublishCommits(q)
  PROVE  /\ profile' \in RowType
         /\ profile'.status = IF loaded[q].status = "PUBLISHED" THEN profile.status ELSE "PUBLISHED"
         /\ ContentOf(profile') = ContentOf(profile) /\ profile'.number = profile.number
<1> DEFINE m == [loaded[q] EXCEPT !.status = "PUBLISHED"]
<1>1. profile \in RowType /\ loaded[q] \in RowType
  BY DEF TypeOK
<1>2. /\ m.status = "PUBLISHED" /\ m.mapping = loaded[q].mapping /\ m.rules = loaded[q].rules
      /\ m.number = loaded[q].number /\ m \in RowType
  BY <1>1 DEF RowType
<1>3. profile' = Flush(profile, m, loaded[q])
  BY DEF PublishCommits
<1> HIDE DEF m
<1> QED BY <1>1, <1>2, <1>3, FlushRow DEF ContentOf

\* Every step keeps the types.
LEMMA TypeStep == TypeOK /\ [Next]_vars => TypeOK'
<1> SUFFICES ASSUME TypeOK, [Next]_vars PROVE TypeOK'
  OBVIOUS
<1>1. ASSUME NEW q \in Requests, NEW s \in CreateStatuses, NEW c \in Content, NEW n \in Numbers,
             CreateProfile(q, s, c, n)
      PROVE  TypeOK'
  <2>1. profile' \in RowType
    BY <1>1, NewRowType, ConstantsAssumption DEF CreateProfile
  <2> QED BY <1>1, <2>1 DEF CreateProfile, Ends, TypeOK
<1>2. ASSUME NEW q \in Requests, NEW step \in {"updating", "publishing", "finding", "refused"},
             Starts(q, step), sent' \in [Requests -> [content : Content, key : Keys]],
             overtaken' \subseteq Requests
      PROVE  TypeOK'
  BY <1>2 DEF Starts, TypeOK
<1>3. ASSUME NEW q \in Requests, NEW c \in Content, Update(q, c) PROVE TypeOK'
  <2>1. sent' \in [Requests -> [content : Content, key : Keys]] /\ overtaken' \subseteq Requests
    BY <1>3 DEF Update, TypeOK
  <2> QED BY <1>2, <1>3, <2>1 DEF Update
<1>4. ASSUME NEW q \in Requests, Publish(q) PROVE TypeOK'
  <2>1. sent' \in [Requests -> [content : Content, key : Keys]] /\ overtaken' \subseteq Requests
    BY <1>4 DEF Publish, TypeOK
  <2> QED BY <1>2, <1>4, <2>1 DEF Publish
<1>5. ASSUME NEW q \in Requests, NEW k \in Keys, Analyze(q, k) PROVE TypeOK'
  <2>1. sent' \in [Requests -> [content : Content, key : Keys]] /\ overtaken' \subseteq Requests
    BY <1>5 DEF Analyze, TypeOK
  <2> QED BY <1>2, <1>5, <2>1 DEF Analyze
<1>6. ASSUME NEW q \in Requests, UpdateCommits(q) PROVE TypeOK'
  <2>1. profile' \in RowType
    BY <1>6, UpdateFlush
  <2>2. drifted' \in BOOLEAN /\ overtaken' \subseteq Requests
    BY <1>6 DEF UpdateCommits, At, TypeOK
  <2> QED BY <1>6, <2>1, <2>2 DEF UpdateCommits, Ends, TypeOK
<1>7. ASSUME NEW q \in Requests, PublishCommits(q) PROVE TypeOK'
  <2>1. profile' \in RowType
    BY <1>7, PublishFlush
  <2>2. [number |-> loaded[q].number, content |-> ContentOf(loaded[q])] \in VersionType
    BY ContentType DEF TypeOK, RowType, VersionType
  <2>3. versions' \in Seq(VersionType)
    BY <1>7, <2>2 DEF PublishCommits, TypeOK
  <2>4. drifted' \in BOOLEAN
    BY <1>7 DEF PublishCommits
  <2> QED BY <1>7, <2>1, <2>3, <2>4 DEF PublishCommits, Ends, TypeOK
<1>8. ASSUME NEW q \in Requests, FindExisting(q) \/ Fail(q) PROVE TypeOK'
  BY <1>8 DEF FindExisting, Fail, Ends, TypeOK
<1>9. ASSUME NEW q \in Requests, PersistCase(q) PROVE TypeOK'
  <2>1. [key |-> sent[q].key, number |-> loaded[q].number, content |-> ContentOf(loaded[q]),
         by |-> q] \in CaseType
    BY ContentType DEF TypeOK, RowType, CaseType
  <2>2. cases' \in Seq(CaseType)
    BY <1>9, <2>1 DEF PersistCase, TypeOK
  <2> QED BY <1>9, <2>2 DEF PersistCase, Ends, TypeOK
<1>10. CASE UNCHANGED vars
  BY <1>10 DEF vars, TypeOK
<1> QED BY <1>1, <1>3, <1>4, <1>5, <1>6, <1>7, <1>8, <1>9, <1>10 DEF Next

\* Type correctness for every instance: in particular the flush of a row read
\* earlier over the row of now is always a profile row again.
THEOREM TypeInvariant == Spec => []TypeOK
BY InitType, TypeStep, PTL DEF Spec

-----------------------------------------------------------------------------
(* Steps, seen from the requests in flight.                                 *)

\* A request that starts is the only one whose step changes, and the profile
\* row it has read is the current one.
LEMMA StartEffect ==
  ASSUME TypeOK, NEW q \in Requests, NEW step, Starts(q, step)
  PROVE  /\ pc[q] = "new" /\ pc'[q] = step /\ loaded'[q] = profile
         /\ \A p \in Requests : p # q => pc'[p] = pc[p] /\ loaded'[p] = loaded[p]
         /\ profile.status # "NONE"
         /\ UNCHANGED <<profile, versions, cases, drifted, collided>>
BY DEF Starts, TypeOK

\* A request that goes on keeps what it read and what it was sent.
LEMMA EndEffect ==
  ASSUME TypeOK, NEW q \in Requests, NEW step, Ends(q, step)
  PROVE  /\ pc'[q] = step
         /\ \A p \in Requests : p # q => pc'[p] = pc[p]
         /\ UNCHANGED <<loaded, sent>>
BY DEF Ends, TypeOK

\* A snapshot once taken stays.
LEMMA SnapshotStays ==
  ASSUME TypeOK, NEW v, versions' = versions \/ versions' = Append(versions, v),
         NEW number, NEW content, Snapshot(number, content)
  PROVE  Snapshot(number, content)'
<1>1. versions \in Seq(VersionType)
  BY DEF TypeOK
<1>2. \A j \in DOMAIN versions : j \in DOMAIN versions' /\ versions'[j] = versions[j]
  BY <1>1
<1> QED BY <1>2 DEF Snapshot, Valid

\* Every step keeps the invariant, whatever overlaps.
LEMMA PublishStep ==
  ASSUME PublishInv, [Next]_vars
  PROVE  PublishInv'
<1>0. TypeOK /\ TypeOK'
  BY TypeStep DEF PublishInv
<1> USE DEF At, InFlight
\* What the database keeps when a request only reads.
<1>1. ASSUME UNCHANGED <<profile, versions, cases, drifted>>, overtaken \subseteq overtaken'
      PROVE  VersionsValid' /\ SnapshotUnlessDrifted' /\ CaseReproducible'
  BY <1>1 DEF PublishInv, VersionsValid, SnapshotUnlessDrifted, CaseReproducible, Valid, ContentOf
<1>2. ASSUME NEW q \in Requests, NEW s \in CreateStatuses, NEW c \in Content, NEW n \in Numbers,
             CreateProfile(q, s, c, n)
      PROVE  PublishInv'
  <2>1. profile'.status = s /\ s # "NONE" /\ drifted' = (s = "PUBLISHED") /\ profile.status = "NONE"
    BY <1>2, NewRowType, ConstantsAssumption DEF CreateProfile
  <2>2. InFlight = {} /\ versions = <<>>
    BY <2>1 DEF PublishInv, RowExists, NumberKept
  <2>3. /\ pc'[q] = "done" /\ (\A p \in Requests : p # q => pc'[p] = pc[p])
        /\ UNCHANGED <<versions, cases, overtaken>>
    BY <1>0, <1>2, EndEffect DEF CreateProfile
  <2>4. InFlight' = {}
    BY <2>2, <2>3
  <2>5. RowExists' /\ UpdatingADraft' /\ PublishingIsCurrent' /\ AnalysisHasSnapshot'
    BY <2>4 DEF RowExists, UpdatingADraft, PublishingIsCurrent, AnalysisHasSnapshot
  <2>6. NumberKept'
    BY <2>2, <2>3, <2>4 DEF NumberKept
  <2>7. SnapshotUnlessDrifted'
    BY <2>1 DEF SnapshotUnlessDrifted
  <2>8. VersionsValid' /\ CaseReproducible'
    BY <2>3 DEF PublishInv, VersionsValid, CaseReproducible, Valid
  <2> QED BY <1>0, <2>5, <2>6, <2>7, <2>8 DEF PublishInv
<1>3. ASSUME NEW q \in Requests, NEW step \in {"updating", "publishing", "finding", "refused"},
             Starts(q, step), overtaken \subseteq overtaken',
             step = "updating" => profile.status # "PUBLISHED",
             step = "publishing" => Valid(profile),
             step = "finding" => profile.status = "PUBLISHED" /\ (drifted => q \in overtaken')
      PROVE  PublishInv'
  <2>1. /\ pc'[q] = step /\ loaded'[q] = profile /\ profile.status # "NONE"
        /\ \A p \in Requests : p # q => pc'[p] = pc[p] /\ loaded'[p] = loaded[p]
        /\ UNCHANGED <<profile, versions, cases, drifted>>
    BY <1>0, <1>3, StartEffect
  <2>2. RowExists' /\ NumberKept' /\ UpdatingADraft'
    BY <1>3, <2>1 DEF PublishInv, RowExists, NumberKept, UpdatingADraft
  <2>3. PublishingIsCurrent'
    BY <1>3, <2>1 DEF PublishInv, PublishingIsCurrent, ContentOf, Valid
  <2>4. ASSUME profile.status = "PUBLISHED", ~drifted
        PROVE  Snapshot(profile.number, ContentOf(profile))
    <3>1. versions # <<>> /\ versions[Len(versions)].content = ContentOf(profile)
      BY <2>4 DEF PublishInv, SnapshotUnlessDrifted
    <3>2. Len(versions) \in DOMAIN versions
      BY <1>0, <3>1 DEF TypeOK
    <3>3. versions[Len(versions)].number = profile.number
      BY <3>2 DEF PublishInv, NumberKept
    <3> QED BY <3>1, <3>2, <3>3 DEF Snapshot, PublishInv, VersionsValid
  <2>5. AnalysisHasSnapshot'
    BY <1>3, <2>1, <2>4 DEF PublishInv, AnalysisHasSnapshot, Snapshot, ContentOf, Valid
  <2> QED BY <1>0, <1>1, <1>3, <2>1, <2>2, <2>3, <2>5 DEF PublishInv
<1>4. ASSUME NEW q \in Requests, NEW c \in Content, Update(q, c) PROVE PublishInv'
  BY <1>3, <1>4 DEF Update
<1>5. ASSUME NEW q \in Requests, Publish(q) PROVE PublishInv'
  BY <1>3, <1>5 DEF Publish
<1>6. ASSUME NEW q \in Requests, NEW k \in Keys, Analyze(q, k) PROVE PublishInv'
  BY <1>3, <1>6 DEF Analyze
<1>7. ASSUME NEW q \in Requests, UpdateCommits(q) PROVE PublishInv'
  <2>1. profile'.status = profile.status /\ profile'.number = profile.number
    BY <1>0, <1>7, UpdateFlush
  <2>2. /\ pc[q] = "updating" /\ pc'[q] = "done" /\ (\A p \in Requests : p # q => pc'[p] = pc[p])
        /\ loaded' = loaded /\ UNCHANGED <<versions, cases>>
        /\ overtaken' = overtaken \cup At("publishing")
        /\ drifted' = (drifted \/ (profile.status = "PUBLISHED" /\ loaded[q].status # "PUBLISHED"))
    BY <1>0, <1>7, EndEffect DEF UpdateCommits
  <2>3. loaded[q].status # "PUBLISHED"
    BY <2>2 DEF PublishInv, UpdatingADraft
  <2>4. RowExists' /\ NumberKept' /\ UpdatingADraft'
    BY <2>1, <2>2 DEF PublishInv, RowExists, NumberKept, UpdatingADraft
  <2>5. PublishingIsCurrent'
    BY <2>2 DEF PublishInv, PublishingIsCurrent, Valid
  <2>6. SnapshotUnlessDrifted'
    BY <2>1, <2>2, <2>3 DEF SnapshotUnlessDrifted
  <2>7. AnalysisHasSnapshot' /\ VersionsValid' /\ CaseReproducible'
    BY <2>2 DEF PublishInv, AnalysisHasSnapshot, Snapshot, VersionsValid, CaseReproducible, Valid,
       ContentOf
  <2> QED BY <1>0, <2>4, <2>5, <2>6, <2>7 DEF PublishInv
<1>8. ASSUME NEW q \in Requests, PublishCommits(q) PROVE PublishInv'
  <2> DEFINE v == [number |-> loaded[q].number, content |-> ContentOf(loaded[q])]
  <2>1. versions \in Seq(VersionType)
    BY <1>0 DEF TypeOK
  <2>2. /\ pc[q] = "publishing" /\ pc'[q] = "done" /\ loaded' = loaded
        /\ (\A p \in Requests : p # q => pc'[p] = pc[p])
        /\ versions' = Append(versions, v) /\ UNCHANGED <<cases, overtaken>>
        /\ drifted' = (q \in overtaken)
    BY <1>0, <1>8, EndEffect DEF PublishCommits
  <2>3. /\ Valid(loaded[q]) /\ (q \notin overtaken => ContentOf(loaded[q]) = ContentOf(profile))
        /\ loaded[q].number = profile.number /\ profile.status # "NONE"
    BY <2>2 DEF PublishInv, PublishingIsCurrent, NumberKept, RowExists
  <2>4. /\ profile'.status \in {profile.status, "PUBLISHED"}
        /\ ContentOf(profile') = ContentOf(profile) /\ profile'.number = profile.number
    BY <1>0, <1>8, PublishFlush
  <2>5. /\ Valid(v.content) /\ v.number = profile.number
        /\ q \notin overtaken => v.content = ContentOf(profile)
    BY <2>3 DEF Valid, ContentOf
  <2> HIDE DEF v
  <2>6. /\ Len(versions') = Len(versions) + 1 /\ Len(versions) \in Nat
        /\ DOMAIN versions' = 1..(Len(versions) + 1)
        /\ versions'[Len(versions) + 1] = v
        /\ \A j \in 1..Len(versions) : versions'[j] = versions[j] /\ j \in DOMAIN versions
    BY <2>1, <2>2
  <2>7. \A j \in DOMAIN versions' : j \in 1..Len(versions) \/ j = Len(versions) + 1
    BY <2>6
  <2>8. \A number, content : Snapshot(number, content) => Snapshot(number, content)'
    BY <1>0, <2>2, SnapshotStays
  <2>9. RowExists' /\ UpdatingADraft'
    BY <2>2, <2>3, <2>4 DEF PublishInv, RowExists, UpdatingADraft
  <2>10. NumberKept'
    BY <2>2, <2>3, <2>4, <2>5, <2>6, <2>7 DEF PublishInv, NumberKept
  <2>11. PublishingIsCurrent'
    BY <2>2, <2>4 DEF PublishInv, PublishingIsCurrent, Valid
  <2>12. SnapshotUnlessDrifted'
    <3>1. versions' # <<>>
      BY <2>6
    <3> QED BY <2>2, <2>4, <2>5, <2>6, <3>1 DEF SnapshotUnlessDrifted
  <2>13. AnalysisHasSnapshot'
    BY <2>2, <2>8 DEF PublishInv, AnalysisHasSnapshot
  <2>14. VersionsValid'
    BY <2>5, <2>6, <2>7 DEF PublishInv, VersionsValid, Valid
  <2>15. CaseReproducible'
    BY <2>2, <2>8 DEF PublishInv, CaseReproducible, Snapshot
  <2> QED BY <1>0, <2>9, <2>10, <2>11, <2>12, <2>13, <2>14, <2>15 DEF PublishInv
<1>9. ASSUME NEW q \in Requests, FindExisting(q) \/ Fail(q) PROVE PublishInv'
  <2>1. \E step \in {"persisting", "done", "failed"} :
           Ends(q, step) /\ (step = "persisting" => pc[q] = "finding")
    BY <1>9 DEF FindExisting, Fail
  <2>2. /\ \/ pc'[q] \in {"done", "failed"}
           \/ pc'[q] = "persisting" /\ pc[q] = "finding"
        /\ (\A p \in Requests : p # q => pc'[p] = pc[p]) /\ loaded' = loaded
    BY <1>0, <2>1, EndEffect
  <2>3. UNCHANGED <<profile, versions, cases, drifted, overtaken>>
    BY <1>9 DEF FindExisting, Fail
  <2>4. InFlight' \subseteq InFlight
    BY <2>2
  <2>5. RowExists' /\ NumberKept' /\ UpdatingADraft'
    BY <2>2, <2>3, <2>4 DEF PublishInv, RowExists, NumberKept, UpdatingADraft
  <2>6. PublishingIsCurrent'
    BY <2>2, <2>3 DEF PublishInv, PublishingIsCurrent, Valid, ContentOf
  <2>7. AnalysisHasSnapshot'
    BY <2>2, <2>3 DEF PublishInv, AnalysisHasSnapshot, Snapshot, Valid, ContentOf
  <2> QED BY <1>0, <1>1, <2>3, <2>5, <2>6, <2>7 DEF PublishInv
<1>10. ASSUME NEW q \in Requests, PersistCase(q) PROVE PublishInv'
  <2> DEFINE c == [key |-> sent[q].key, number |-> loaded[q].number,
                   content |-> ContentOf(loaded[q]), by |-> q]
  <2>1. /\ pc[q] = "persisting" /\ pc'[q] = "done" /\ loaded' = loaded
        /\ (\A p \in Requests : p # q => pc'[p] = pc[p])
        /\ UNCHANGED <<profile, versions, drifted, overtaken>> /\ cases' = Append(cases, c)
    BY <1>0, <1>10, EndEffect DEF PersistCase
  <2>2. c.by \notin overtaken => Snapshot(c.number, c.content)
    BY <2>1 DEF PublishInv, AnalysisHasSnapshot
  <2> HIDE DEF c
  <2>3. RowExists' /\ NumberKept' /\ UpdatingADraft' /\ PublishingIsCurrent' /\ AnalysisHasSnapshot'
    BY <2>1 DEF PublishInv, RowExists, NumberKept, UpdatingADraft, PublishingIsCurrent,
       AnalysisHasSnapshot, Snapshot, Valid, ContentOf
  <2>4. VersionsValid' /\ SnapshotUnlessDrifted'
    BY <2>1 DEF PublishInv, VersionsValid, SnapshotUnlessDrifted, Valid, ContentOf
  <2>5. \A i \in DOMAIN cases' : cases'[i] = c \/ (i \in DOMAIN cases /\ cases'[i] = cases[i])
    BY <1>0, <2>1 DEF TypeOK
  <2>6. CaseReproducible'
    BY <2>1, <2>2, <2>5 DEF PublishInv, CaseReproducible, Snapshot, Valid
  <2> QED BY <1>0, <2>3, <2>4, <2>6 DEF PublishInv
<1>11. CASE UNCHANGED vars
  <2>1. RowExists' /\ NumberKept' /\ UpdatingADraft' /\ PublishingIsCurrent' /\ AnalysisHasSnapshot'
    BY <1>11 DEF vars, PublishInv, RowExists, NumberKept, UpdatingADraft, PublishingIsCurrent,
       AnalysisHasSnapshot, Snapshot, Valid, ContentOf
  <2> QED BY <1>0, <1>1, <1>11, <2>1 DEF vars, PublishInv
<1> QED BY <1>2, <1>4, <1>5, <1>6, <1>7, <1>8, <1>9, <1>10, <1>11 DEF Next

\* The invariant holds before the profile exists.
LEMMA InitPublish == Init => PublishInv
<1> SUFFICES ASSUME Init PROVE PublishInv
  OBVIOUS
<1>1. TypeOK /\ InFlight = {} /\ \A q \in Requests : pc[q] = "new"
  BY InitType DEF Init, InFlight
<1>2. profile.status = "NONE" /\ versions = <<>> /\ cases = <<>>
  BY DEF Init, NoRow, Row
<1>3. RowExists /\ UpdatingADraft /\ PublishingIsCurrent /\ AnalysisHasSnapshot
  BY <1>1 DEF RowExists, At, UpdatingADraft, PublishingIsCurrent, AnalysisHasSnapshot
<1>4. NumberKept /\ VersionsValid /\ CaseReproducible /\ SnapshotUnlessDrifted
  BY <1>1, <1>2 DEF NumberKept, VersionsValid, CaseReproducible, SnapshotUnlessDrifted
<1> QED BY <1>1, <1>3, <1>4 DEF PublishInv

\* Every stored case can be reproduced unless its analysis read a row that was
\* created as published or changed in a race with its latest publication.
THEOREM CaseReproducibleAlways == Spec => []CaseReproducible
<1>1. Init => PublishInv
  BY InitPublish
<1>2. PublishInv /\ [Next]_vars => PublishInv'
  BY PublishStep
<1>3. PublishInv => CaseReproducible
  BY DEF PublishInv
<1> QED BY <1>1, <1>2, <1>3, PTL DEF Spec

\* A publication is never undone, and only an update that had read the draft
\* before it changes what is published.
THEOREM OnlyRacesMutateAlways == Spec => OnlyRacesMutate
<1> DEFINE Mutates ==
      profile.status = "PUBLISHED" =>
        /\ profile'.status = "PUBLISHED"
        /\ ContentOf(profile') # ContentOf(profile) =>
             \E q \in At("updating") : loaded[q].status # "PUBLISHED" /\ pc'[q] = "done"
<1>1. Init => PublishInv
  BY InitPublish
<1>2. PublishInv /\ [Next]_vars => PublishInv'
  BY PublishStep
<1>3. PublishInv /\ [Next]_vars => [Mutates]_vars
  <2> SUFFICES ASSUME PublishInv, Next, profile.status = "PUBLISHED" PROVE Mutates
    OBVIOUS
  <2>0. TypeOK
    BY DEF PublishInv
  <2>1. ASSUME profile' = profile PROVE Mutates
    BY <2>1 DEF ContentOf
  <2>2. ASSUME NEW q \in Requests, NEW s \in CreateStatuses, NEW c \in Content, NEW n \in Numbers,
               CreateProfile(q, s, c, n)
        PROVE  FALSE
    BY <2>2 DEF CreateProfile
  <2>3. ASSUME NEW q \in Requests, UpdateCommits(q) PROVE Mutates
    <3>1. profile'.status = profile.status
      BY <2>0, <2>3, UpdateFlush
    <3>2. q \in At("updating") /\ loaded[q].status # "PUBLISHED"
      BY <2>3 DEF UpdateCommits, At, PublishInv, UpdatingADraft
    <3>3. pc'[q] = "done"
      BY <2>0, <2>3, EndEffect DEF UpdateCommits
    <3> QED BY <3>1, <3>2, <3>3
  <2>4. ASSUME NEW q \in Requests, PublishCommits(q) PROVE Mutates
    BY <2>0, <2>4, PublishFlush
  <2>5. ASSUME NEW q \in Requests, \/ \E c \in Content : Update(q, c)
                                   \/ Publish(q) \/ (\E k \in Keys : Analyze(q, k))
                                   \/ FindExisting(q) \/ PersistCase(q) \/ Fail(q)
        PROVE  Mutates
    BY <2>1, <2>5 DEF Update, Publish, Analyze, Starts, FindExisting, PersistCase, Fail
  <2> HIDE DEF Mutates
  <2> QED BY <2>2, <2>3, <2>4, <2>5 DEF Next
<1> QED BY <1>1, <1>2, <1>3, PTL DEF Spec, OnlyRacesMutate

-----------------------------------------------------------------------------
(* The idempotency key.                                                     *)

\* Every step keeps the cases of the analyses that did not collide apart.
LEMMA KeyStep ==
  ASSUME KeyInv, [Next]_vars
  PROVE  KeyInv'
<1>0. TypeOK /\ TypeOK'
  BY TypeStep DEF KeyInv
<1> USE DEF At
\* A step that stores no case and looks no key up.
<1>1. ASSUME UNCHANGED <<cases, collided>>,
             \A p \in Requests : pc'[p] = "persisting" => pc[p] = "persisting" /\ sent'[p] = sent[p]
      PROVE  KeyInv'
  BY <1>0, <1>1 DEF KeyInv, KeyFree, OneCasePerKey
<1>2. ASSUME NEW q \in Requests, NEW s \in CreateStatuses, NEW c \in Content, NEW n \in Numbers,
             CreateProfile(q, s, c, n)
      PROVE  KeyInv'
  BY <1>0, <1>1, <1>2, EndEffect DEF CreateProfile
<1>3. ASSUME NEW q \in Requests, (\E c \in Content : Update(q, c)) \/ Publish(q)
                                 \/ (\E k \in Keys : Analyze(q, k))
      PROVE  KeyInv'
  <2>1. /\ pc'[q] # "persisting" /\ UNCHANGED <<cases, collided>>
        /\ \A p \in Requests : p # q => pc'[p] = pc[p]
    BY <1>0, <1>3, StartEffect DEF Update, Publish, Analyze
  <2>2. \A p \in Requests : p # q => sent'[p] = sent[p]
    BY <1>0, <1>3 DEF Update, Publish, Analyze, TypeOK
  <2> QED BY <1>1, <2>1, <2>2
<1>4. ASSUME NEW q \in Requests, UpdateCommits(q) \/ PublishCommits(q) \/ Fail(q) PROVE KeyInv'
  <2>1. UNCHANGED <<cases, collided>> /\ (Ends(q, "done") \/ Ends(q, "failed"))
    BY <1>4 DEF UpdateCommits, PublishCommits, Fail
  <2> QED BY <1>0, <1>1, <2>1, EndEffect
<1>5. ASSUME NEW q \in Requests, FindExisting(q) PROVE KeyInv'
  <2> DEFINE found == WithKey(sent[q].key)
             step == IF found = {} THEN "persisting"
                     ELSE IF Cardinality(found) = 1 THEN "done" ELSE "failed"
  <2>1. /\ Ends(q, step) /\ pc[q] = "finding" /\ cases' = cases /\ collided \subseteq collided'
        /\ collided' \subseteq collided \cup {q}
        /\ (\E p \in At("persisting") : sent[p].key = sent[q].key) => q \in collided'
    BY <1>5 DEF FindExisting
  <2>2. /\ pc'[q] = step /\ (\A p \in Requests : p # q => pc'[p] = pc[p])
        /\ sent' = sent
    BY <1>0, <2>1, EndEffect
  <2>3. step = "persisting" => \A i \in DOMAIN cases : cases[i].key # sent[q].key
    BY DEF WithKey
  <2> HIDE DEF step
  <2>4. \A p \in (At("persisting") \ collided)' : p # q => p \in At("persisting") \ collided
    BY <2>1, <2>2
  <2>5. KeyFree'
    BY <2>1, <2>2, <2>3, <2>4 DEF KeyInv, KeyFree
  <2>6. OneCasePerKey'
    BY <2>1 DEF KeyInv, OneCasePerKey
  <2> QED BY <1>0, <2>5, <2>6 DEF KeyInv
<1>6. ASSUME NEW q \in Requests, PersistCase(q) PROVE KeyInv'
  <2> DEFINE c == [key |-> sent[q].key, number |-> loaded[q].number,
                   content |-> ContentOf(loaded[q]), by |-> q]
  <2>1. /\ pc'[q] = "done" /\ (\A p \in Requests : p # q => pc'[p] = pc[p]) /\ sent' = sent
        /\ cases' = Append(cases, c) /\ pc[q] = "persisting" /\ collided' = collided
    BY <1>0, <1>6, EndEffect DEF PersistCase
  <2>2. c.key = sent[q].key /\ c.by = q
    OBVIOUS
  <2> HIDE DEF c
  <2>3. \A i \in DOMAIN cases' : \/ i = Len(cases) + 1 /\ cases'[i] = c
                                 \/ i \in DOMAIN cases /\ cases'[i] = cases[i]
    BY <1>0, <2>1 DEF TypeOK
  <2>4. KeyFree'
    BY <2>1, <2>2, <2>3 DEF KeyInv, KeyFree
  <2>5. OneCasePerKey'
    BY <2>1, <2>2, <2>3 DEF KeyInv, KeyFree, OneCasePerKey
  <2> QED BY <1>0, <2>4, <2>5 DEF KeyInv
<1>7. CASE UNCHANGED vars
  BY <1>1, <1>7 DEF vars
<1> QED BY <1>2, <1>3, <1>4, <1>5, <1>6, <1>7 DEF Next

\* Repeating an analysis with its key makes a second case only if it looked the
\* key up while another analysis was between its lookup and its commit.
THEOREM OneCasePerKeyAlways == Spec => []OneCasePerKey
<1>1. Init => KeyInv
  <2> SUFFICES ASSUME Init PROVE KeyInv
    OBVIOUS
  <2>1. TypeOK /\ \A q \in Requests : pc[q] = "new"
    BY InitType DEF Init
  <2> QED BY <2>1 DEF Init, At, KeyInv, KeyFree, OneCasePerKey
<1>2. KeyInv /\ [Next]_vars => KeyInv'
  BY KeyStep
<1>3. KeyInv => OneCasePerKey
  BY DEF KeyInv
<1> QED BY <1>1, <1>2, <1>3, PTL DEF Spec
=============================================================================
