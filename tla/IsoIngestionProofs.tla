-------------------------- MODULE IsoIngestionProofs --------------------------
(***************************************************************************)
(* Proofs about IsoIngestion and MissingEvents for every finite set of     *)
(* requests, every content of their messages and any number of requests    *)
(* that die.                                                               *)
(***************************************************************************)
EXTENDS MissingEvents, FiniteSetTheorems, SequenceTheorems, TLAPS

-----------------------------------------------------------------------------
(* The inductive invariants.                                                *)

PaymentSteps == {"absent", "correlated", "evented"}
EntrySteps == {"identified", "inserted", "repeated", "confirmed", "located", "reconciled",
               "recorded", "exception", "caseless"}
Steps == {"new", "unseen", "report", "item", "done", "failed"} \cup PaymentSteps \cup EntrySteps

\* Steps at which the request has stored the entry of its item.
Entered == EntrySteps \ {"identified"}

LifecycleColumns == PaymentColumns \cup {"status"}
ColumnValues == {"UNKNOWN"} \cup {Items(s[1])[s[2]][f] : s \in Slots, f \in LifecycleColumns}
                  \cup {Items(q)[1].status : q \in Requests}

Shape ==
  /\ messages \subseteq Requests
  /\ lifecycles \in Seq([LifecycleColumns -> ColumnValues])
  /\ entries \in [Slots -> AccountEntry \cup {None}]
  /\ pc \in [Requests -> Steps]
  /\ item \in [Requests -> Nat \ {0}]
  /\ life \in [Requests -> Nat]
  /\ twin \in [Requests -> AccountEntry \cup {None}]
  /\ \A q \in Requests : pc[q] \in {"item"} \cup PaymentSteps \cup EntrySteps =>
                            item[q] \in DOMAIN Items(q)
  /\ \A q \in Requests : pc[q] \in EntrySteps => IsReport(q)
  /\ \A q \in Requests : pc[q] \in PaymentSteps => ~IsReport(q)
  /\ \A q \in Requests : pc[q] \in {"new", "unseen", "report"} => item[q] = 1
  /\ \A q \in Requests : pc[q] \in Entered => entries[Slot(q)] # None
  /\ \A q \in Requests : pc[q] \in {"repeated", "confirmed"} => twin[q] # None

\* A request at the point of writing a status has stored its event.
EventBeforeStatus ==
  \A q \in Requests : pc[q] = "evented" =>
    \E e \in events : e.life = life[q] /\ e.type = "status" /\ e.status = NormalizedStatus(q)

StatusInv == Shape /\ EventBeforeStatus /\ StatusHasEvent

\* The entry of item i of request q, if there is one.
Stored(q, i) ==
  LET e == entries[<<q, i>>] IN
  e # None =>
    /\ e.identity = Identity(Items(q)[i])
    /\ i <= item[q]
    /\ i = item[q] => pc[q] \in Entered \cup {"failed"}
    /\ i < item[q] /\ e.status \in ExceptionStatuses => e.identity \in DOMAIN cases

\* The entry of the item a request is at.
Present(q) ==
  LET e == entries[Slot(q)] IN
  pc[q] \in Entered =>
    /\ pc[q] \in {"inserted", "repeated", "located"} => e.life = 0 /\ e.status = "none"
    /\ pc[q] = "confirmed" => e.status = "RECONCILED"
    /\ pc[q] \in {"exception", "caseless"} => e.status \in ExceptionStatuses
    /\ pc[q] \in {"located", "reconciled", "recorded"} => life[q] \in 0..Len(lifecycles)
    /\ pc[q] \in {"reconciled", "recorded"} => e.status = Verdict(Current(q), life[q])

EntryInv ==
  /\ Shape
  /\ \A q \in Requests : \A i \in DOMAIN Items(q) : Stored(q, i)
  /\ \A q \in Requests : Present(q)

\* Every case stands for an entry with the classification it names.
CasesExplained ==
  \A c \in DOMAIN cases : \E s \in EntrySlots :
    /\ entries[s].identity = c /\ entries[s].status = cases[c]
    /\ cases[c] \in ExceptionStatuses

CaseInv == EntryInv /\ CasesExplained

-----------------------------------------------------------------------------
(* The races.  Each property of several messages rests on one read that the *)
(* code does not hold until it writes: two requests that are both between   *)
(* the read and the write, about the same thing, are what can break it.     *)

\* No two requests that found their hash unknown are about to store the same.
HashesApart ==
  \A q, r \in Requests : q # r /\ pc[q] = "unseen" /\ pc[r] = "unseen" => Hash(q) # Hash(r)

\* No two requests that looked for the entry of an account event are about to
\* insert one each.
EntriesApart ==
  \A q, r \in Requests :
    q # r /\ pc[q] = "identified" /\ pc[r] = "identified" =>
      Identity(Current(q)) # Identity(Current(r))

\* Steps of a request whose message is stored.
Kept == {"report", "item"} \cup PaymentSteps \cup EntrySteps

\* Everything a request leaves was stored after its message, whose hash no
\* other stored message has.
KnownMessages ==
  /\ \A q, r \in messages : Hash(q) = Hash(r) => q = r
  /\ \A q \in Requests : pc[q] = "unseen" => ~FindByHash(q)
  /\ \A q \in Requests : pc[q] \in Kept => q \in messages
  /\ \A e \in events : e.slot[1] \in messages
  /\ \A s \in EntrySlots : s[1] \in messages

OnceInv == Shape /\ KnownMessages

\* A request about to create a lifecycle matches none of those there were when
\* it looked, and those are the first ones.
LookedWell ==
  /\ looked \in [Requests -> Nat]
  /\ \A q \in Requests : looked[q] <= Len(lifecycles)
  /\ \A q \in Requests : pc[q] = "absent" =>
       \A n \in 1..looked[q] : ~Matches(Current(q), lifecycles[n])

SplitInv == Shape /\ LookedWell

\* A request that found no entry of its identity still would not find one.
StillUnknown ==
  \A q \in Requests : pc[q] = "identified" /\ twin[q] = None => Twins(q) = {}

\* The request has stored the first entry of an identity and is on the way to
\* its reconciliation.
First(q) == pc[q] \in {"inserted", "located", "reconciled"}

\* Such entries have identities of their own, none of them reconciled yet.
FirstsApart ==
  /\ \A q, r \in Requests :
       First(q) /\ First(r) /\ entries[Slot(q)].identity = entries[Slot(r)].identity => q = r
  /\ \A q \in Requests : First(q) =>
       \A r \in recs : entries[r.slot].identity # entries[Slot(q)].identity

ReconciledInv ==
  /\ EntryInv /\ StillUnknown /\ FirstsApart /\ ReconciledOnce
  /\ \A r \in recs : r.slot \in EntrySlots

-----------------------------------------------------------------------------
(* The sweeps.                                                              *)

SweepShape ==
  /\ sweep \in [Sweeps -> {"new", "loop", "unseen", "caseless", "ended"}]
  /\ missing \subseteq Nat
  /\ selected \in [Sweeps -> SUBSET Nat]
  /\ todo \in [Sweeps -> SUBSET Nat]
  /\ subject \in [Sweeps -> Nat]
  /\ onFile \in [Sweeps -> SUBSET Nat]

\* What a sweep selected it has yet to go through, is going through, or has
\* found an entry or left a case for; what it is going through is selected and
\* had no entry when it began.
Swept(w) ==
  /\ todo[w] \subseteq selected[w]
  /\ onFile[w] \subseteq WithEntry
  /\ sweep[w] \in {"unseen", "caseless"} => subject[w] \in selected[w] \ onFile[w]
  /\ \A n \in selected[w] \ todo[w] :
       \/ n \in missing \cup WithEntry
       \/ sweep[w] \in {"unseen", "caseless"} /\ n = subject[w]

SweepInv == EntryInv /\ SweepShape /\ \A w \in Sweeps : Swept(w)
-----------------------------------------------------------------------------
(* Messages, their items, and the steps of one request.                     *)

\* What one request may do.
Step(q) ==
  \/ Analyze(q) \/ PersistMessage(q)
  \/ FindLifecycle(q) \/ CreateLifecycle(q) \/ AddEvent(q) \/ SetStatus(q)
  \/ PersistReport(q) \/ FindEntry(q) \/ InsertEntry(q) \/ MarkTwin(q) \/ ConfirmEvent(q)
  \/ FindLifecycleForEntry(q) \/ Reconcile(q) \/ PersistReconciliation(q)
  \/ AddLifecycleEvent(q) \/ FindCase(q) \/ InsertCase(q)
  \/ Die(q)

\* A step of the system is a step of one request.
LEMMA StepOfOne == ASSUME Next PROVE \E q \in Requests : Step(q)
BY DEF Next, Step

\* The items of a message are numbered from 1.
LEMMA ItemNumbers ==
  ASSUME NEW q \in Requests
  PROVE  /\ Len(Items(q)) \in Nat /\ DOMAIN Items(q) = 1..Len(Items(q))
         /\ Items(q) # <<>> => 1 \in DOMAIN Items(q)
<1>1. Items(q) \in Seq({Items(q)[i] : i \in DOMAIN Items(q)})
  BY ConstantsAssumption
<1> DEFINE T == {Items(q)[i] : i \in DOMAIN Items(q)}
           t == Items(q)
<1>2. t \in Seq(T)
  BY <1>1
<1> HIDE DEF T, t
<1>3. Len(t) \in Nat /\ DOMAIN t = 1..Len(t)
  BY <1>2
<1>4. t # <<>> => Len(t) # 0
  BY <1>2
<1>5. t # <<>> => 1 \in DOMAIN t
  BY <1>3, <1>4
<1> QED BY <1>3, <1>5 DEF t

\* A slot is an item of a request.
LEMMA SlotsOf ==
  /\ \A q \in Requests : \A i \in DOMAIN Items(q) : <<q, i>> \in Slots
  /\ \A s \in Slots : s[1] \in Requests /\ s[2] \in DOMAIN Items(s[1]) /\ s = <<s[1], s[2]>>
BY DEF Slots

\* The classification of an entry is one of the documented ones.
LEMMA VerdictType == ASSUME NEW i, NEW n PROVE Verdict(i, n) \in Classifications
<1>1. \A e, c : Classify(e, c) \in Classifications
  BY DEF Classify, ClassOfConflicts, ClassOfEvidence, Classifications
<1> QED BY <1>1 DEF Verdict, ReconcileEntry, Classifications

\* On to the next item: there is one, or the request is answered.
LEMMA NextItemMoves ==
  ASSUME Shape, NEW q \in Requests, item[q] \in DOMAIN Items(q), NextItem(q)
  PROVE  /\ item' \in [Requests -> Nat \ {0}] /\ item'[q] = item[q] + 1
         /\ \A r \in Requests : r # q => item'[r] = item[r] /\ pc'[r] = pc[r]
         /\ pc' \in [Requests -> Steps]
         /\ (pc'[q] = "item" /\ item'[q] \in DOMAIN Items(q)) \/ pc'[q] = "done"
<1>1. /\ item' = [item EXCEPT ![q] = @ + 1]
      /\ pc' = [pc EXCEPT ![q] = IF item[q] < Len(Items(q)) THEN "item" ELSE "done"]
  BY DEF NextItem, Goto
<1>2. {"item", "done"} \subseteq Steps
  BY DEF Steps
<1>3. item[q] < Len(Items(q)) => item[q] + 1 \in DOMAIN Items(q)
  BY ItemNumbers
<1>4. item \in [Requests -> Nat \ {0}] /\ pc \in [Requests -> Steps]
  BY DEF Shape
<1> QED BY <1>1, <1>2, <1>3, <1>4

\* What a step of request q leaves alone of the other requests.
OthersKept(q) ==
  /\ \A r \in Requests : r # q => twin'[r] = twin[r]
  /\ \A t \in Slots : t # Slot(q) => entries'[t] = entries[t]

\* The variables without the progress of the requests have their types.
StoredTypes ==
  /\ messages \subseteq Requests
  /\ lifecycles \in Seq([LifecycleColumns -> ColumnValues])
  /\ entries \in [Slots -> AccountEntry \cup {None}]
  /\ life \in [Requests -> Nat]
  /\ twin \in [Requests -> AccountEntry \cup {None}]

\* The slot a request is at is that of no other request.
LEMMA OwnSlot ==
  ASSUME NEW q, NEW r, r # q, NEW i, NEW j
  PROVE  <<r, i>> # <<q, j>>
OBVIOUS

\* A request that stays at its item keeps the shape when it moves where its
\* kind of message may move.
LEMMA ShapeStays ==
  ASSUME Shape, NEW q \in Requests, NEW p \in Steps, Goto(q, p), item' = item,
         p \in {"item"} \cup PaymentSteps \cup EntrySteps => item[q] \in DOMAIN Items(q),
         p \in EntrySteps => IsReport(q), p \in PaymentSteps => ~IsReport(q),
         p \in {"new", "unseen", "report"} => item[q] = 1,
         OthersKept(q), StoredTypes',
         p \in Entered => entries'[<<q, item[q]>>] # None,
         p \in {"repeated", "confirmed"} => twin'[q] # None
  PROVE  Shape'
<1>1. pc' \in [Requests -> Steps] /\ \A r \in Requests : pc'[r] = IF r = q THEN p ELSE pc[r]
  BY DEF Goto, Shape
<1>2. item \in [Requests -> Nat \ {0}]
  BY DEF Shape
<1>3. \A r \in Requests : pc'[r] \in {"item"} \cup PaymentSteps \cup EntrySteps =>
                            item[r] \in DOMAIN Items(r)
  BY <1>1 DEF Shape
<1>4. \A r \in Requests : /\ pc'[r] \in EntrySteps => IsReport(r)
                          /\ pc'[r] \in PaymentSteps => ~IsReport(r)
  BY <1>1 DEF Shape
<1>5. ASSUME NEW r \in Requests, pc'[r] \in Entered PROVE entries'[<<r, item[r]>>] # None
  <2>1. CASE r = q
    BY <1>1, <1>5, <2>1
  <2>2. CASE r # q
    <3>1. pc[r] \in Entered /\ entries[<<r, item[r]>>] # None
      BY <1>1, <1>5, <2>2 DEF Shape, Slot
    <3>2. item[r] \in DOMAIN Items(r)
      BY <3>1 DEF Shape, Entered
    <3>3. <<r, item[r]>> \in Slots /\ <<r, item[r]>> # Slot(q)
      BY <2>2, <3>2, SlotsOf, OwnSlot DEF Slot
    <3> QED BY <3>1, <3>3 DEF OthersKept
  <2> QED BY <2>1, <2>2
<1>6. \A r \in Requests : pc'[r] \in {"repeated", "confirmed"} => twin'[r] # None
  BY <1>1 DEF Shape, OthersKept
<1>7. \A r \in Requests : pc'[r] \in {"new", "unseen", "report"} => item[r] = 1
  BY <1>1 DEF Shape
<1> QED BY <1>1, <1>2, <1>3, <1>4, <1>5, <1>6, <1>7 DEF Shape, StoredTypes, Slot

\* So does one that goes on to its next item.
LEMMA ShapeMovesOn ==
  ASSUME Shape, NEW q \in Requests, item[q] \in DOMAIN Items(q), NextItem(q),
         OthersKept(q), StoredTypes'
  PROVE  Shape'
<1>1. /\ item' \in [Requests -> Nat \ {0}] /\ pc' \in [Requests -> Steps]
      /\ \A r \in Requests : r # q => item'[r] = item[r] /\ pc'[r] = pc[r]
      /\ (pc'[q] = "item" /\ item'[q] \in DOMAIN Items(q)) \/ pc'[q] = "done"
  BY NextItemMoves
<1>2. {"item", "done"} \cap (PaymentSteps \cup EntrySteps) = {} /\ "done" # "item"
  BY DEF PaymentSteps, EntrySteps
<1>3. \A r \in Requests : pc'[r] \in {"item"} \cup PaymentSteps \cup EntrySteps =>
                            item'[r] \in DOMAIN Items(r)
  BY <1>1, <1>2 DEF Shape
<1>4. \A r \in Requests : /\ pc'[r] \in EntrySteps => IsReport(r)
                          /\ pc'[r] \in PaymentSteps => ~IsReport(r)
  BY <1>1, <1>2 DEF Shape
<1>5. ASSUME NEW r \in Requests, pc'[r] \in Entered PROVE entries'[<<r, item'[r]>>] # None
  <2>1. r # q
    BY <1>1, <1>2, <1>5 DEF Entered
  <2>2. pc[r] \in Entered /\ entries[<<r, item[r]>>] # None /\ item'[r] = item[r]
    BY <1>1, <1>5, <2>1 DEF Shape, Slot
  <2>3. item[r] \in DOMAIN Items(r)
    BY <2>2 DEF Shape, Entered
  <2>4. <<r, item[r]>> \in Slots /\ <<r, item[r]>> # Slot(q)
    BY <2>1, <2>3, SlotsOf, OwnSlot DEF Slot
  <2> QED BY <2>2, <2>4 DEF OthersKept
<1>6. ASSUME NEW r \in Requests, pc'[r] \in {"repeated", "confirmed"} PROVE twin'[r] # None
  <2>1. r # q
    BY <1>1, <1>6
  <2> QED BY <1>1, <1>6, <2>1 DEF Shape, OthersKept
<1>7. \A r \in Requests : pc'[r] \in {"new", "unseen", "report"} => item'[r] = 1
  BY <1>1, <1>2 DEF Shape
<1> QED BY <1>1, <1>3, <1>4, <1>5, <1>6, <1>7 DEF Shape, StoredTypes, Slot
\* The rows of entries, new and classified.
LEMMA EntryRows ==
  /\ \A q \in Requests : \A i \in DOMAIN Items(q) : IsReport(q) =>
       [identity |-> Identity(Items(q)[i]), report |-> Kind(q), status |-> "none", life |-> 0]
         \in AccountEntry
  /\ \A e \in AccountEntry : \A c \in Classifications, n \in Nat :
       [[e EXCEPT !.status = c] EXCEPT !.life = n] \in AccountEntry
<1>1. ASSUME NEW q \in Requests, NEW i \in DOMAIN Items(q), IsReport(q)
      PROVE  [identity |-> Identity(Items(q)[i]), report |-> Kind(q), status |-> "none",
              life |-> 0] \in AccountEntry
  <2>1. <<q, i>> \in Slots /\ Kind(q) \in Kinds
    BY SlotsOf, ConstantsAssumption
  <2>2. Identity(Items(q)[i]) \in {Identity(Items(s[1])[s[2]]) : s \in {t \in Slots : IsReport(t[1])}}
    <3>1. <<q, i>> \in {t \in Slots : IsReport(t[1])}
      BY <1>1, <2>1
    <3>2. Identity(Items(q)[i]) = Identity(Items(<<q, i>>[1])[<<q, i>>[2]])
      OBVIOUS
    <3> QED BY <3>1, <3>2, Zenon
  <2> QED BY <2>1, <2>2 DEF AccountEntry
<1>2. ASSUME NEW e \in AccountEntry, NEW c \in Classifications, NEW n \in Nat
      PROVE  [[e EXCEPT !.status = c] EXCEPT !.life = n] \in AccountEntry
  BY DEF AccountEntry
<1> QED BY <1>1, <1>2

\* A new lifecycle has the columns of one.
LEMMA NewLifecycleType ==
  ASSUME NEW q \in Requests, NEW i \in DOMAIN Items(q)
  PROVE  NewLifecycle(Items(q)[i]) \in [LifecycleColumns -> ColumnValues]
<1>1. <<q, i>> \in Slots
  BY SlotsOf
<1>2. \A f \in LifecycleColumns : Items(q)[i][f] \in ColumnValues
  BY <1>1 DEF ColumnValues
<1>3. "UNKNOWN" \in ColumnValues
  BY DEF ColumnValues
<1> QED BY <1>2, <1>3 DEF NewLifecycle, LifecycleColumns

\* A flush of a lifecycle's status leaves the row its other columns, and its
\* status or that of the report.
LEMMA StatusWritten ==
  ASSUME Shape, NEW q \in Requests, SetStatus(q)
  PROVE  /\ lifecycles' \in Seq([LifecycleColumns -> ColumnValues])
         /\ Len(lifecycles') = Len(lifecycles)
         /\ \A n \in 1..Len(lifecycles) :
              /\ \A f \in PaymentColumns : lifecycles'[n][f] = lifecycles[n][f]
              /\ \/ lifecycles'[n].status = lifecycles[n].status
                 \/ n = life[q] /\ lifecycles'[n].status = NormalizedStatus(q)
<1> DEFINE T == [LifecycleColumns -> ColumnValues]
           v == Flush([status |-> lifecycles[life[q]].status], [status |-> NormalizedStatus(q)],
                      [status |-> known[q][life[q]]]).status
           k == life[q]
<1>1. lifecycles' = [lifecycles EXCEPT ![k].status = v]
  BY DEF SetStatus
<1>2. v \in {lifecycles[k].status, NormalizedStatus(q)}
  BY DEF Flush
<1>3. NormalizedStatus(q) \in ColumnValues
  BY DEF NormalizedStatus, ColumnValues
<1>4. lifecycles \in Seq(T) /\ k \in Nat
  BY DEF Shape
<1>5. "status" \in LifecycleColumns /\ PaymentColumns \subseteq LifecycleColumns
      /\ "status" \notin PaymentColumns
  BY DEF LifecycleColumns, PaymentColumns, LookupFields
<1> HIDE DEF v, k
<1>6. CASE k \in 1..Len(lifecycles)
  <2> DEFINE row == [lifecycles[k] EXCEPT !["status"] = v]
  <2>1. lifecycles[k] \in T
    BY <1>4, <1>6
  <2>2. v \in ColumnValues
    BY <1>2, <1>3, <1>5, <2>1
  <2>3. row \in T /\ row["status"] = v /\ \A f \in PaymentColumns : row[f] = lifecycles[k][f]
    BY <1>5, <2>1, <2>2
  <2>4. lifecycles' = [lifecycles EXCEPT ![k] = row]
    BY <1>1
  <2> HIDE DEF row, T
  <2>5. lifecycles' \in Seq(T) /\ Len(lifecycles') = Len(lifecycles)
    BY <1>4, <1>6, <2>3, <2>4
  <2>6. \A n \in 1..Len(lifecycles) : lifecycles'[n] = IF n = k THEN row ELSE lifecycles[n]
    BY <1>4, <2>4
  <2> QED BY <1>2, <2>3, <2>5, <2>6 DEF T, k
<1>7. CASE k \notin 1..Len(lifecycles)
  <2> HIDE DEF T
  <2>1. lifecycles' = lifecycles
    BY <1>1, <1>4, <1>7
  <2> QED BY <1>4, <2>1 DEF T
<1> QED BY <1>6, <1>7
-----------------------------------------------------------------------------
(* Types.                                                                   *)

\* The initial state has the types.
LEMMA ShapeInit == Init => Shape
<1> SUFFICES ASSUME Init PROVE Shape
  OBVIOUS
<1>1. \A q \in Requests : pc[q] = "new" /\ item[q] = 1
  BY DEF Init
<1>2. "new" \in Steps /\ "new" \notin {"item"} \cup PaymentSteps \cup EntrySteps
      /\ "new" \notin Entered
  BY DEF Steps, PaymentSteps, EntrySteps, Entered
<1>3. lifecycles \in Seq([LifecycleColumns -> ColumnValues])
  BY DEF Init
<1> QED BY <1>1, <1>2, <1>3 DEF Init, Shape

\* A step that stores none of these keeps their types.
LEMMA StoredKept ==
  ASSUME Shape, UNCHANGED <<messages, lifecycles, entries, life, twin>>
  PROVE  StoredTypes' /\ \A q \in Requests : OthersKept(q)
BY DEF Shape, StoredTypes, OthersKept

\* What Shape says of the request that takes the step.
LEMMA OwnShape ==
  ASSUME Shape, NEW q \in Requests
  PROVE  /\ pc[q] \in Steps /\ item[q] \in Nat \ {0} /\ life[q] \in Nat
         /\ pc[q] \in {"item"} \cup PaymentSteps \cup EntrySteps =>
              item[q] \in DOMAIN Items(q) /\ Slot(q) \in Slots
         /\ pc[q] \in EntrySteps => IsReport(q)
         /\ pc[q] \in PaymentSteps => ~IsReport(q)
         /\ pc[q] \in Entered => entries[Slot(q)] \in AccountEntry
         /\ pc[q] \in {"repeated", "confirmed"} => twin[q] \in AccountEntry
         /\ Entered \subseteq EntrySteps
<1>1. pc[q] \in {"item"} \cup PaymentSteps \cup EntrySteps =>
        item[q] \in DOMAIN Items(q) /\ Slot(q) \in Slots
  BY SlotsOf DEF Shape, Slot
<1>2. Entered \subseteq EntrySteps
  BY DEF Entered
<1>3. pc[q] \in Entered => entries[Slot(q)] \in AccountEntry
  BY <1>1, <1>2 DEF Shape
<1>4. pc[q] \in {"repeated", "confirmed"} => twin[q] \in AccountEntry
  BY DEF Shape
<1> QED BY <1>1, <1>2, <1>3, <1>4 DEF Shape

\* A status report and an account report are different kinds of message.
LEMMA KindsApart ==
  ASSUME NEW q
  PROVE  (Kind(q) \in {"payment", "status"} => ~IsReport(q)) /\ (~IsReport(q) /\ Kind(q) \in Kinds => Kind(q) \in {"payment", "status"})
BY DEF IsReport, Kinds

\* Every step of a request about its message or a payment keeps the types.
LEMMA ShapePayment ==
  ASSUME Shape, NEW q \in Requests,
         \/ Analyze(q) \/ PersistMessage(q) \/ PersistReport(q)
         \/ FindLifecycle(q) \/ CreateLifecycle(q) \/ AddEvent(q) \/ SetStatus(q) \/ Die(q)
  PROVE  Shape'
<1> USE DEF Steps, PaymentSteps, EntrySteps, Entered
<1>1. CASE Analyze(q)
  <2>1. \E p \in {"done", "unseen"} : Goto(q, p)
    BY <1>1 DEF Analyze
  <2>2. UNCHANGED <<messages, lifecycles, entries, life, twin, item>> /\ item[q] = 1
    BY <1>1 DEF Analyze, stored, session, At, Shape
  <2>3. StoredTypes' /\ OthersKept(q)
    BY <2>2, StoredKept
  <2> QED BY <2>1, <2>2, <2>3, ShapeStays
<1>2. CASE PersistMessage(q) \/ PersistReport(q)
  <2>1. \E p \in {"report", "done", "item"} : Goto(q, p) /\ (p = "item" => Items(q) # <<>>)
    BY <1>2 DEF PersistMessage, PersistReport
  <2>2. UNCHANGED <<lifecycles, entries, life, twin, item>> /\ item[q] = 1
        /\ messages' \subseteq Requests
    BY <1>2 DEF PersistMessage, PersistReport, session, At, Shape
  <2>3. StoredTypes' /\ OthersKept(q)
    BY <2>2 DEF Shape, StoredTypes, OthersKept
  <2> QED BY <2>1, <2>2, <2>3, ShapeStays, ItemNumbers
<1>3. CASE FindLifecycle(q)
  <2>1. /\ item[q] \in DOMAIN Items(q) /\ ~IsReport(q)
        /\ UNCHANGED <<messages, lifecycles, entries, twin>>
    BY <1>3, OwnShape, KindsApart DEF FindLifecycle, At, stored
  <2>2. life' \in [Requests -> Nat]
    <3>1. DOMAIN lifecycles \subseteq Nat
      BY DEF Shape
    <3>2. Matching(Current(q)) \subseteq Nat
      BY <3>1 DEF Matching
    <3> QED BY <1>3, <3>2 DEF FindLifecycle, Load, Shape
  <2>3. StoredTypes' /\ OthersKept(q)
    BY <2>1, <2>2 DEF Shape, StoredTypes, OthersKept
  <2>4. NextItem(q) \/ (item' = item /\ \E p \in {"correlated", "absent"} : Goto(q, p))
    BY <1>3 DEF FindLifecycle
  <2> QED BY <2>1, <2>3, <2>4, ShapeStays, ShapeMovesOn
<1>4. CASE CreateLifecycle(q)
  <2>1. /\ item[q] \in DOMAIN Items(q) /\ ~IsReport(q) /\ Goto(q, "correlated") /\ item' = item
        /\ UNCHANGED <<messages, entries, twin>>
        /\ lifecycles' = Append(lifecycles, NewLifecycle(Items(q)[item[q]]))
        /\ life' = [life EXCEPT ![q] = Len(lifecycles) + 1]
    BY <1>4, OwnShape DEF CreateLifecycle, At, Current
  <2>2. NewLifecycle(Items(q)[item[q]]) \in [LifecycleColumns -> ColumnValues]
    BY <2>1, NewLifecycleType
  <2>3. lifecycles \in Seq([LifecycleColumns -> ColumnValues]) /\ life \in [Requests -> Nat]
    BY DEF Shape
  <2>4. lifecycles' \in Seq([LifecycleColumns -> ColumnValues]) /\ life' \in [Requests -> Nat]
    <3> DEFINE T == [LifecycleColumns -> ColumnValues]
               x == NewLifecycle(Items(q)[item[q]])
    <3>1. lifecycles \in Seq(T) /\ x \in T /\ lifecycles' = Append(lifecycles, x)
      BY <2>1, <2>2, <2>3
    <3> HIDE DEF T, x
    <3>2. lifecycles' \in Seq(T) /\ Len(lifecycles) \in Nat
      BY <3>1
    <3> QED BY <2>1, <2>3, <3>2 DEF T
  <2>5. StoredTypes' /\ OthersKept(q)
    BY <2>1, <2>4 DEF Shape, StoredTypes, OthersKept
  <2> QED BY <2>1, <2>5, ShapeStays
<1>5. CASE AddEvent(q)
  <2>1. /\ item[q] \in DOMAIN Items(q) /\ ~IsReport(q)
        /\ UNCHANGED <<messages, lifecycles, entries, life, twin>>
    BY <1>5, OwnShape DEF AddEvent, At, session
  <2>2. StoredTypes' /\ OthersKept(q)
    BY <2>1, StoredKept
  <2>3. NextItem(q) \/ (item' = item /\ Goto(q, "evented"))
    BY <1>5 DEF AddEvent
  <2> QED BY <2>1, <2>2, <2>3, ShapeStays, ShapeMovesOn
<1>6. CASE SetStatus(q)
  <2>1. /\ item[q] \in DOMAIN Items(q) /\ NextItem(q)
        /\ UNCHANGED <<messages, entries, life, twin>>
    BY <1>6, OwnShape DEF SetStatus, At
  <2>2. lifecycles' \in Seq([LifecycleColumns -> ColumnValues])
    BY <1>6, StatusWritten
  <2>3. StoredTypes' /\ OthersKept(q)
    BY <2>1, <2>2 DEF Shape, StoredTypes, OthersKept
  <2> QED BY <2>1, <2>3, ShapeMovesOn
<1>7. CASE Die(q)
  <2>1. Goto(q, "failed") /\ UNCHANGED <<messages, lifecycles, entries, life, twin, item>>
    BY <1>7 DEF Die, stored, session
  <2>2. StoredTypes' /\ OthersKept(q)
    BY <2>1, StoredKept
  <2> QED BY <2>1, <2>2, ShapeStays
<1> QED BY <1>1, <1>2, <1>3, <1>4, <1>5, <1>6, <1>7
\* The row of an entry after it was classified.
Classified(e, c, n) == [[e EXCEPT !.status = c] EXCEPT !.life = n]

\* Overwriting the entry of one slot.
LEMMA EntryWritten ==
  ASSUME Shape, NEW s \in Slots, NEW row \in AccountEntry, entries' = [entries EXCEPT ![s] = row]
  PROVE  /\ entries' \in [Slots -> AccountEntry \cup {None}]
         /\ \A t \in Slots : t # s => entries'[t] = entries[t]
         /\ entries'[s] = row /\ row # None
<1>1. entries \in [Slots -> AccountEntry \cup {None}]
  BY DEF Shape
<1>2. row # None
  BY ConstantsAssumption
<1> QED BY <1>1, <1>2

\* The row of an entry after it was classified.
LEMMA RowClassified ==
  ASSUME NEW e \in AccountEntry, NEW c \in Classifications, NEW n \in Nat
  PROVE  /\ Classified(e, c, n) \in AccountEntry
         /\ Classified(e, c, n).identity = e.identity
         /\ Classified(e, c, n).status = c /\ Classified(e, c, n).life = n
<1>1. Classified(e, c, n) \in AccountEntry
  BY EntryRows DEF Classified
<1> QED BY <1>1 DEF AccountEntry, Classified

\* Storing the entry of the item a request is at.
LEMMA EntryInserted ==
  ASSUME Shape, NEW q \in Requests, InsertEntry(q)
  PROVE  /\ entries' \in [Slots -> AccountEntry \cup {None}]
         /\ \A t \in Slots : t # Slot(q) => entries'[t] = entries[t]
         /\ entries'[Slot(q)] # None
         /\ entries'[Slot(q)].identity = Identity(Current(q))
         /\ entries'[Slot(q)].status = "none" /\ entries'[Slot(q)].life = 0
<1> DEFINE s == Slot(q)
           row == [identity |-> Identity(Current(q)), report |-> Kind(q), status |-> "none",
                   life |-> 0]
<1>1. s \in Slots /\ IsReport(q) /\ item[q] \in DOMAIN Items(q)
      /\ entries' = [entries EXCEPT ![s] = row]
  BY OwnShape DEF InsertEntry, At, EntrySteps
<1>2. row \in AccountEntry
  BY <1>1, EntryRows DEF Current
<1>3. row.identity = Identity(Current(q)) /\ row.status = "none" /\ row.life = 0
  OBVIOUS
<1>4. entries \in [Slots -> AccountEntry \cup {None}]
  BY DEF Shape
<1> HIDE DEF s, row
<1>6. row # None
  BY <1>2, ConstantsAssumption
<1> QED BY <1>1, <1>2, <1>3, <1>4, <1>6 DEF s

\* A repeated entry is marked a duplicate or reconciled, with the twin's link.
LEMMA TwinMarked ==
  ASSUME Shape, NEW q \in Requests, MarkTwin(q)
  PROVE  /\ entries' \in [Slots -> AccountEntry \cup {None}]
         /\ \A t \in Slots : t # Slot(q) => entries'[t] = entries[t]
         /\ entries'[Slot(q)] # None
         /\ entries'[Slot(q)].identity = entries[Slot(q)].identity
         /\ entries'[Slot(q)].status =
              IF twin[q].report = Kind(q) THEN "DUPLICATE_ACCOUNT_ENTRY" ELSE "RECONCILED"
         /\ entries'[Slot(q)].life = twin[q].life
<1> DEFINE c == IF twin[q].report = Kind(q) THEN "DUPLICATE_ACCOUNT_ENTRY" ELSE "RECONCILED"
           n == twin[q].life
           row == Classified(entries[Slot(q)], c, n)
<1>1. twin[q] \in AccountEntry /\ pc[q] \in Entered
  BY OwnShape DEF MarkTwin, At, Entered, EntrySteps
<1>2. n \in Nat /\ c \in Classifications
  BY <1>1 DEF AccountEntry, Classifications
<1>3. entries' = [entries EXCEPT ![Slot(q)] = row]
  <2>1. entries' = [entries EXCEPT ![Slot(q)].status = c, ![Slot(q)].life = n]
    BY DEF MarkTwin
  <2>2. Slot(q) \in Slots /\ entries \in [Slots -> AccountEntry \cup {None}]
    BY <1>1, OwnShape DEF Shape
  <2> QED BY <2>1, <2>2 DEF Classified
<1>5. Slot(q) \in Slots /\ entries[Slot(q)] \in AccountEntry
  BY <1>1, OwnShape
<1> HIDE DEF c, n
<1>6. /\ row \in AccountEntry /\ row.identity = entries[Slot(q)].identity
      /\ row.status = c /\ row.life = n
  BY <1>2, <1>5, RowClassified
<1> HIDE DEF row
<1>7. /\ entries' \in [Slots -> AccountEntry \cup {None}]
      /\ \A t \in Slots : t # Slot(q) => entries'[t] = entries[t]
      /\ entries'[Slot(q)] = row /\ row # None
  BY <1>3, <1>5, <1>6, EntryWritten
<1> QED BY <1>6, <1>7 DEF c, n

\* A first entry is given its verdict and the lifecycle it was linked to.
LEMMA EntryReconciled ==
  ASSUME Shape, NEW q \in Requests, Reconcile(q)
  PROVE  /\ entries' \in [Slots -> AccountEntry \cup {None}]
         /\ \A t \in Slots : t # Slot(q) => entries'[t] = entries[t]
         /\ entries'[Slot(q)] # None
         /\ entries'[Slot(q)].identity = entries[Slot(q)].identity
         /\ entries'[Slot(q)].status = Verdict(Current(q), life[q])
         /\ entries'[Slot(q)].life = life[q]
<1> DEFINE c == Verdict(Current(q), life[q])
           n == life[q]
           row == Classified(entries[Slot(q)], c, n)
<1>1. pc[q] \in Entered /\ n \in Nat
  BY OwnShape DEF Reconcile, At, Entered, EntrySteps
<1>2. c \in Classifications
  BY VerdictType
<1>3. entries' = [entries EXCEPT ![Slot(q)] = row]
  <2>1. entries' = [entries EXCEPT ![Slot(q)].status = c, ![Slot(q)].life = n]
    BY DEF Reconcile
  <2>2. Slot(q) \in Slots /\ entries \in [Slots -> AccountEntry \cup {None}]
    BY <1>1, OwnShape DEF Shape
  <2> QED BY <2>1, <2>2 DEF Classified
<1>5. Slot(q) \in Slots /\ entries[Slot(q)] \in AccountEntry
  BY <1>1, OwnShape
<1> HIDE DEF c
<1>6. /\ row \in AccountEntry /\ row.identity = entries[Slot(q)].identity
      /\ row.status = c /\ row.life = n
  BY <1>1, <1>2, <1>5, RowClassified
<1> HIDE DEF row
<1>7. /\ entries' \in [Slots -> AccountEntry \cup {None}]
      /\ \A t \in Slots : t # Slot(q) => entries'[t] = entries[t]
      /\ entries'[Slot(q)] = row /\ row # None
  BY <1>3, <1>5, <1>6, EntryWritten
<1> QED BY <1>6, <1>7 DEF c

\* Every step of a request about an account entry keeps the types.
LEMMA ShapeEntry ==
  ASSUME Shape, NEW q \in Requests,
         \/ FindEntry(q) \/ InsertEntry(q) \/ MarkTwin(q) \/ ConfirmEvent(q)
         \/ FindLifecycleForEntry(q) \/ Reconcile(q) \/ PersistReconciliation(q)
         \/ AddLifecycleEvent(q) \/ FindCase(q) \/ InsertCase(q)
  PROVE  Shape'
<1> USE DEF Steps, PaymentSteps, EntrySteps, Entered
<1>0. /\ item[q] \in DOMAIN Items(q) /\ IsReport(q) /\ Slot(q) = <<q, item[q]>>
  <2>1. CASE FindEntry(q)
    BY <2>1, OwnShape DEF FindEntry, At, Slot
  <2>2. CASE ~FindEntry(q)
    <3>1. pc[q] \in EntrySteps
      BY <2>2 DEF InsertEntry, MarkTwin, ConfirmEvent, FindLifecycleForEntry,
         Reconcile, PersistReconciliation, AddLifecycleEvent, FindCase, InsertCase, At
    <3> QED BY <3>1, OwnShape DEF Slot
  <2> QED BY <2>1, <2>2
<1>1. CASE FindEntry(q)
  <2>1. /\ Goto(q, "identified") /\ UNCHANGED <<messages, lifecycles, entries, life, item>>
        /\ twin' = [twin EXCEPT ![q] = twin'[q]] /\ twin'[q] \in AccountEntry \cup {None}
    <3>1. \A t \in Twins(q) : entries[t] \in AccountEntry \cup {None}
      BY DEF Twins, EntrySlots, Shape
    <3>2. twin \in [Requests -> AccountEntry \cup {None}]
      BY DEF Shape
    <3>3. \E x \in AccountEntry \cup {None} : twin' = [twin EXCEPT ![q] = x]
      BY <1>1, <3>1 DEF FindEntry
    <3>4. /\ Goto(q, "identified")
          /\ UNCHANGED <<messages, lifecycles, entries, life, item>>
      BY <1>1 DEF FindEntry, stored
    <3>5. /\ twin' = [twin EXCEPT ![q] = twin'[q]]
          /\ twin'[q] \in AccountEntry \cup {None}
      BY ONLY <3>2, <3>3, q \in Requests
    <3> QED BY <3>4, <3>5
  <2>2. StoredTypes'
    <3>1. twin \in [Requests -> AccountEntry \cup {None}]
      BY DEF Shape
    <3>2. twin' \in [Requests -> AccountEntry \cup {None}]
      BY ONLY <2>1, <3>1
    <3> QED BY <2>1, <3>2 DEF Shape, StoredTypes
  <2>3. OthersKept(q)
    BY <2>1 DEF Shape, OthersKept
  <2> QED BY <1>0, <2>1, <2>2, <2>3, ShapeStays
<1>2. CASE InsertEntry(q)
  <2>1. /\ \E p \in {"inserted", "repeated"} : Goto(q, p) /\ (p = "repeated" => twin[q] # None)
        /\ UNCHANGED <<messages, lifecycles, life, twin, item>>
    BY <1>2 DEF InsertEntry, session
  <2>2. StoredTypes' /\ OthersKept(q) /\ entries'[Slot(q)] # None
    BY <1>2, <2>1, EntryInserted DEF Shape, StoredTypes, OthersKept
  <2> QED BY <1>0, <2>1, <2>2, ShapeStays
<1>3. CASE MarkTwin(q)
  <2>1. /\ NextItem(q) \/ (item' = item /\ \E p \in {"exception", "confirmed"} : Goto(q, p))
        /\ UNCHANGED <<messages, lifecycles, life, twin>> /\ pc[q] = "repeated"
    BY <1>3 DEF MarkTwin, session, At
  <2>2. twin[q] # None
    BY <2>1 DEF Shape
  <2>3. /\ entries' \in [Slots -> AccountEntry \cup {None}]
        /\ \A t \in Slots : t # Slot(q) => entries'[t] = entries[t]
        /\ entries'[Slot(q)] # None
    BY <1>3, TwinMarked
  <2>4. StoredTypes' /\ OthersKept(q)
    BY <2>1, <2>3 DEF Shape, StoredTypes, OthersKept
  <2> QED BY <1>0, <2>1, <2>2, <2>3, <2>4, ShapeStays, ShapeMovesOn
<1>4. CASE Reconcile(q)
  <2>1. /\ item' = item /\ Goto(q, "reconciled")
        /\ UNCHANGED <<messages, lifecycles, life, twin>> /\ pc[q] = "located"
    BY <1>4 DEF Reconcile, session, At
  <2>3. /\ entries' \in [Slots -> AccountEntry \cup {None}]
        /\ \A t \in Slots : t # Slot(q) => entries'[t] = entries[t]
        /\ entries'[Slot(q)] # None
    BY <1>4, EntryReconciled
  <2>4. StoredTypes' /\ OthersKept(q)
    BY <2>1, <2>3 DEF Shape, StoredTypes, OthersKept
  <2> QED BY <1>0, <2>1, <2>3, <2>4, ShapeStays
<1>5. CASE FindLifecycleForEntry(q)
  <2>1. /\ item' = item /\ Goto(q, "located") /\ pc[q] = "inserted"
        /\ UNCHANGED <<messages, lifecycles, entries, twin>>
    BY <1>5 DEF FindLifecycleForEntry, stored, At
  <2>2. life' \in [Requests -> Nat]
    <3>1. DOMAIN lifecycles \subseteq Nat
      BY DEF Shape
    <3>2. Matching(Current(q)) \subseteq Nat
      BY <3>1 DEF Matching
    <3> QED BY <1>5, <3>2 DEF FindLifecycleForEntry, Load, Shape
  <2>3. StoredTypes' /\ OthersKept(q)
    BY <2>1, <2>2 DEF Shape, StoredTypes, OthersKept
  <2>4. entries'[Slot(q)] # None
    BY <2>1 DEF Shape
  <2> QED BY <1>0, <2>1, <2>3, <2>4, ShapeStays
<1>6. CASE ConfirmEvent(q) \/ PersistReconciliation(q) \/ AddLifecycleEvent(q)
           \/ FindCase(q) \/ InsertCase(q)
  <2>1. /\ \/ NextItem(q)
           \/ item' = item /\ \E p \in {"recorded", "exception", "caseless", "failed"} : Goto(q, p)
        /\ UNCHANGED <<messages, lifecycles, entries, life, twin>> /\ pc[q] \in Entered
    BY <1>6 DEF ConfirmEvent, PersistReconciliation, AddLifecycleEvent, FindCase, InsertCase,
       session, stored, At
  <2>2. StoredTypes' /\ OthersKept(q)
    BY <2>1, StoredKept
  <2>3. entries'[Slot(q)] # None
    BY <2>1 DEF Shape
  <2> QED BY <1>0, <2>1, <2>2, <2>3, ShapeStays, ShapeMovesOn
<1> QED BY <1>1, <1>2, <1>3, <1>4, <1>5, <1>6

\* Every step keeps the types.
LEMMA ShapeStep == ASSUME Shape, [Next]_vars PROVE Shape'
<1>1. CASE Next
  BY <1>1, StepOfOne, ShapePayment, ShapeEntry DEF Step
<1>2. CASE UNCHANGED vars
  <2>1. UNCHANGED <<messages, lifecycles, entries, pc, item, life, twin>>
    BY <1>2 DEF vars, stored, session
  <2> QED BY <2>1 DEF Shape, Slot
<1> QED BY <1>1, <1>2
-----------------------------------------------------------------------------
(* What a step of one request leaves alone.                                 *)

\* A step moves one request: to a step of its own, at its item or the next one.
LEMMA OneMoves ==
  ASSUME NEW q, Step(q)
  PROVE  /\ \E p : pc' = [pc EXCEPT ![q] = p]
         /\ item' = item \/ item' = [item EXCEPT ![q] = @ + 1]
         /\ life' = life \/ \E n : life' = [life EXCEPT ![q] = n]
         /\ twin' = twin \/ \E x : twin' = [twin EXCEPT ![q] = x]
<1> USE DEF Goto, NextItem, session, stored
<1>1. CASE Analyze(q) \/ PersistMessage(q) \/ PersistReport(q) \/ Die(q)
  BY <1>1 DEF Analyze, PersistMessage, PersistReport, Die
<1>2. CASE FindLifecycle(q) \/ CreateLifecycle(q)
  BY <1>2 DEF FindLifecycle, CreateLifecycle, Load
<1>3. CASE AddEvent(q) \/ SetStatus(q)
  BY <1>3 DEF AddEvent, SetStatus
<1>4. CASE FindEntry(q) \/ InsertEntry(q) \/ MarkTwin(q) \/ ConfirmEvent(q)
  BY <1>4 DEF FindEntry, InsertEntry, MarkTwin, ConfirmEvent
<1>5. CASE FindLifecycleForEntry(q) \/ Reconcile(q) \/ PersistReconciliation(q)
  BY <1>5 DEF FindLifecycleForEntry, Reconcile, PersistReconciliation, Load
<1>6. CASE AddLifecycleEvent(q) \/ FindCase(q) \/ InsertCase(q)
  BY <1>6 DEF AddLifecycleEvent, FindCase, InsertCase
<1> QED BY <1>1, <1>2, <1>3, <1>4, <1>5, <1>6 DEF Step

\* The other requests stay where they are.
LEMMA OthersStay ==
  ASSUME Shape, NEW q, Step(q), NEW r \in Requests, r # q
  PROVE  /\ pc'[r] = pc[r] /\ item'[r] = item[r] /\ life'[r] = life[r] /\ twin'[r] = twin[r]
         /\ Slot(r)' = Slot(r) /\ Current(r)' = Current(r)
<1>0. /\ pc \in [Requests -> Steps] /\ item \in [Requests -> Nat \ {0}]
      /\ life \in [Requests -> Nat] /\ twin \in [Requests -> AccountEntry \cup {None}]
  BY DEF Shape
<1>a. \E p : pc' = [pc EXCEPT ![q] = p]
  BY OneMoves
<1>b. item' = item \/ item' = [item EXCEPT ![q] = @ + 1]
  BY OneMoves
<1>c. life' = life \/ \E n : life' = [life EXCEPT ![q] = n]
  BY OneMoves
<1>d. twin' = twin \/ \E x : twin' = [twin EXCEPT ![q] = x]
  BY OneMoves
<1>1. pc'[r] = pc[r] /\ item'[r] = item[r] /\ life'[r] = life[r] /\ twin'[r] = twin[r]
  BY ONLY <1>0, <1>a, <1>b, <1>c, <1>d, r \in Requests, r # q
<1> QED BY <1>1 DEF Slot, Current

\* Lifecycles are added at the end, and written by a status report only.
LEMMA LifecyclesWritten ==
  ASSUME NEW q, Step(q)
  PROVE  \/ UNCHANGED lifecycles
         \/ CreateLifecycle(q)
         \/ SetStatus(q)
<1> USE DEF stored
<1>1. CASE Analyze(q) \/ PersistMessage(q) \/ PersistReport(q) \/ Die(q) \/ FindLifecycle(q)
           \/ AddEvent(q)
  BY <1>1 DEF Analyze, PersistMessage, PersistReport, Die, FindLifecycle, AddEvent
<1>2. CASE FindEntry(q) \/ InsertEntry(q) \/ MarkTwin(q) \/ ConfirmEvent(q)
           \/ FindLifecycleForEntry(q) \/ Reconcile(q)
  BY <1>2 DEF FindEntry, InsertEntry, MarkTwin, ConfirmEvent, FindLifecycleForEntry, Reconcile
<1>3. CASE PersistReconciliation(q) \/ AddLifecycleEvent(q) \/ FindCase(q) \/ InsertCase(q)
  BY <1>3 DEF PersistReconciliation, AddLifecycleEvent, FindCase, InsertCase
<1> QED BY <1>1, <1>2, <1>3 DEF Step

\* A lifecycle is created at the end, UNKNOWN, with the columns of the payment.
LEMMA LifecycleCreated ==
  ASSUME Shape, NEW q \in Requests, CreateLifecycle(q)
  PROVE  /\ Len(lifecycles) \in Nat /\ Len(lifecycles') = Len(lifecycles) + 1
         /\ DOMAIN lifecycles' = 1..(Len(lifecycles) + 1)
         /\ \A n \in 1..Len(lifecycles) : lifecycles'[n] = lifecycles[n]
         /\ lifecycles'[Len(lifecycles) + 1] = NewLifecycle(Current(q))
         /\ pc[q] = "absent" /\ item[q] \in DOMAIN Items(q)
<1> DEFINE T == [LifecycleColumns -> ColumnValues]
           x == NewLifecycle(Items(q)[item[q]])
<1>1. lifecycles \in Seq(T) /\ lifecycles' = Append(lifecycles, x) /\ pc[q] = "absent"
  BY DEF Shape, CreateLifecycle, Current, At
<1>2. item[q] \in DOMAIN Items(q)
  BY <1>1, OwnShape DEF PaymentSteps
<1>3. x \in T
  BY <1>2, NewLifecycleType
<1>4. x = NewLifecycle(Current(q))
  BY DEF Current
<1> HIDE DEF T, x
<1>5. /\ Len(lifecycles) \in Nat /\ Len(lifecycles') = Len(lifecycles) + 1
      /\ DOMAIN lifecycles' = 1..(Len(lifecycles) + 1)
      /\ \A n \in 1..Len(lifecycles) : lifecycles'[n] = lifecycles[n]
      /\ lifecycles'[Len(lifecycles) + 1] = x
  BY <1>1, <1>3
<1> QED BY <1>1, <1>2, <1>4, <1>5

\* The columns a lifecycle was created with stay.
LEMMA ColumnsStay ==
  ASSUME Shape, NEW q \in Requests, Step(q)
  PROVE  /\ Len(lifecycles) \in Nat /\ Len(lifecycles') \in Nat
         /\ DOMAIN lifecycles = 1..Len(lifecycles) /\ DOMAIN lifecycles' = 1..Len(lifecycles')
         /\ Len(lifecycles) <= Len(lifecycles')
         /\ \A n \in 1..Len(lifecycles) :
              \A f \in PaymentColumns : lifecycles'[n][f] = lifecycles[n][f]
<1> DEFINE T == [LifecycleColumns -> ColumnValues]
<1>1. lifecycles \in Seq(T) /\ lifecycles' \in Seq(T)
  <2>1. Next
    BY DEF Next, Step
  <2> QED BY <2>1, ShapeStep DEF Shape
<1>2. /\ Len(lifecycles) <= Len(lifecycles')
      /\ \A n \in 1..Len(lifecycles) :
           \A f \in PaymentColumns : lifecycles'[n][f] = lifecycles[n][f]
  <2> HIDE DEF T
  <2>1. CASE UNCHANGED lifecycles
    BY <1>1, <2>1
  <2>2. CASE CreateLifecycle(q)
    BY <1>1, <2>2, LifecycleCreated
  <2>3. CASE SetStatus(q)
    BY <1>1, <2>3, StatusWritten
  <2> QED BY <2>1, <2>2, <2>3, LifecyclesWritten
<1> HIDE DEF T
<1> QED BY <1>1, <1>2

\* Events and cases are never removed.
LEMMA RowsStay ==
  ASSUME NEW q, Step(q)
  PROVE  events \subseteq events' /\ DOMAIN cases \subseteq DOMAIN cases'
<1> USE DEF stored
<1>1. CASE Analyze(q) \/ PersistMessage(q) \/ PersistReport(q) \/ Die(q) \/ FindLifecycle(q)
  BY <1>1 DEF Analyze, PersistMessage, PersistReport, Die, FindLifecycle
<1>2. CASE CreateLifecycle(q) \/ AddEvent(q) \/ SetStatus(q)
  BY <1>2 DEF CreateLifecycle, AddEvent, SetStatus
<1>3. CASE FindEntry(q) \/ InsertEntry(q) \/ MarkTwin(q) \/ ConfirmEvent(q)
  BY <1>3 DEF FindEntry, InsertEntry, MarkTwin, ConfirmEvent
<1>4. CASE FindLifecycleForEntry(q) \/ Reconcile(q) \/ PersistReconciliation(q)
  BY <1>4 DEF FindLifecycleForEntry, Reconcile, PersistReconciliation
<1>5. CASE AddLifecycleEvent(q) \/ FindCase(q)
  BY <1>5 DEF AddLifecycleEvent, FindCase
<1>6. CASE InsertCase(q)
  BY <1>6 DEF InsertCase
<1> QED BY <1>1, <1>2, <1>3, <1>4, <1>5, <1>6 DEF Step
-----------------------------------------------------------------------------
(* Statuses and their events.                                               *)

\* Only storing the event of a status report leads to writing the status.
LEMMA OnlyAfterEvent ==
  ASSUME Shape, NEW q \in Requests, Step(q), pc'[q] = "evented"
  PROVE  AddEvent(q)
<1>1. pc \in [Requests -> Steps]
  BY DEF Shape
<1>2. \A p : Goto(q, p) => p = "evented"
  BY <1>1 DEF Goto
<1>3. ~NextItem(q)
  BY <1>2 DEF NextItem
<1> HIDE DEF Goto, NextItem
<1>4. ~(Analyze(q) \/ PersistMessage(q) \/ PersistReport(q) \/ Die(q))
  BY <1>2 DEF Analyze, PersistMessage, PersistReport, Die
<1>5. ~(FindLifecycle(q) \/ CreateLifecycle(q) \/ SetStatus(q))
  BY <1>2, <1>3 DEF FindLifecycle, CreateLifecycle, SetStatus
<1>6. ~(FindEntry(q) \/ InsertEntry(q) \/ MarkTwin(q) \/ ConfirmEvent(q))
  BY <1>2, <1>3 DEF FindEntry, InsertEntry, MarkTwin, ConfirmEvent
<1>7. ~(FindLifecycleForEntry(q) \/ Reconcile(q) \/ PersistReconciliation(q))
  BY <1>2, <1>3 DEF FindLifecycleForEntry, Reconcile, PersistReconciliation
<1>8. ~(AddLifecycleEvent(q) \/ FindCase(q) \/ InsertCase(q))
  BY <1>2, <1>3 DEF AddLifecycleEvent, FindCase, InsertCase
<1> QED BY <1>4, <1>5, <1>6, <1>7, <1>8 DEF Step

\* Every step keeps the event before its status.
LEMMA StatusStep == ASSUME StatusInv, Next PROVE StatusInv'
<1>1. PICK q \in Requests : Step(q)
  BY StepOfOne
<1>2. Shape /\ Shape'
  BY ShapeStep DEF StatusInv
<1>3. events \subseteq events'
  BY <1>1, RowsStay
<1>4. ASSUME NEW r \in Requests, pc'[r] = "evented"
      PROVE  \E e \in events' : e.life = life'[r] /\ e.type = "status"
                                /\ e.status = NormalizedStatus(r)
  <2>1. CASE r # q
    <3>1. pc[r] = "evented" /\ life'[r] = life[r]
      BY <1>1, <1>2, <1>4, <2>1, OthersStay
    <3> QED BY <1>3, <3>1 DEF StatusInv, EventBeforeStatus
  <2>2. CASE r = q
    <3>1. AddEvent(q)
      BY <1>1, <1>2, <1>4, <2>2, OnlyAfterEvent
    <3>2. Kind(q) = "status"
      <4>1. Kind(q) # "status" => NextItem(q)
        BY <3>1 DEF AddEvent
      <4>2. ~NextItem(q)
        BY <1>2, <1>4, <2>2 DEF NextItem, Goto, Shape
      <4> QED BY <4>1, <4>2
    <3> DEFINE e == [life |-> life[q], slot |-> Slot(q), type |-> Kind(q),
                     status |-> NormalizedStatus(q)]
    <3>3. e \in events' /\ life' = life
      BY <3>1 DEF AddEvent, session
    <3>4. e.life = life[q] /\ e.type = Kind(q) /\ e.status = NormalizedStatus(q)
      OBVIOUS
    <3> HIDE DEF e
    <3> QED BY <2>2, <3>2, <3>3, <3>4
  <2> QED BY <2>1, <2>2
<1>5. ASSUME NEW n \in DOMAIN lifecycles', lifecycles'[n].status # "UNKNOWN"
      PROVE  \E e \in events' : e.life = n /\ e.type = "status"
                                /\ e.status = lifecycles'[n].status
  <2> DEFINE Told(st) == \E e \in events' : e.life = n /\ e.type = "status" /\ e.status = st
  <2>0. n \in DOMAIN lifecycles /\ lifecycles[n].status = lifecycles'[n].status
          => Told(lifecycles'[n].status)
    BY <1>3, <1>5 DEF StatusInv, StatusHasEvent
  <2>1. CASE UNCHANGED lifecycles
    BY <1>5, <2>0, <2>1
  <2>2. CASE CreateLifecycle(q)
    <3>1. (n \in DOMAIN lifecycles /\ lifecycles'[n] = lifecycles[n])
          \/ lifecycles'[n] = NewLifecycle(Current(q))
      <4>1. DOMAIN lifecycles = 1..Len(lifecycles)
        BY <1>2 DEF Shape
      <4> QED BY <1>2, <1>5, <2>2, <4>1, LifecycleCreated
    <3>2. NewLifecycle(Current(q)).status = "UNKNOWN"
      BY DEF NewLifecycle
    <3> QED BY <1>5, <2>0, <3>1, <3>2
  <2>3. CASE SetStatus(q)
    <3>1. /\ n \in 1..Len(lifecycles) /\ DOMAIN lifecycles = 1..Len(lifecycles)
          /\ \/ lifecycles'[n].status = lifecycles[n].status
             \/ n = life[q] /\ lifecycles'[n].status = NormalizedStatus(q)
      <4>1. DOMAIN lifecycles = 1..Len(lifecycles) /\ DOMAIN lifecycles' = 1..Len(lifecycles')
        BY <1>2 DEF Shape
      <4> QED BY <1>2, <1>5, <2>3, <4>1, StatusWritten
    <3>2. Told(NormalizedStatus(q)) \/ n # life[q]
      <4>1. pc[q] = "evented"
        BY <2>3 DEF SetStatus, At
      <4> QED BY <1>3, <4>1 DEF StatusInv, EventBeforeStatus
    <3> QED BY <2>0, <3>1, <3>2
  <2> QED BY <1>1, <2>1, <2>2, <2>3, LifecyclesWritten
<1>6. EventBeforeStatus'
  BY <1>4 DEF EventBeforeStatus, NormalizedStatus
<1>7. StatusHasEvent'
  BY <1>5 DEF StatusHasEvent
<1> QED BY <1>2, <1>6, <1>7 DEF StatusInv

\* No crash and no interleaving leaves a lifecycle with a status no stored
\* event reports: _correlate_and_build_lifecycle adds the event before it sets the status.
THEOREM StatusHasEventAlways == Spec => []StatusHasEvent
<1>1. Init => StatusInv
  <2> SUFFICES ASSUME Init PROVE StatusInv
    OBVIOUS
  <2>1. EventBeforeStatus
    BY DEF Init, EventBeforeStatus
  <2>2. StatusHasEvent
    BY DEF Init, StatusHasEvent
  <2> QED BY <2>1, <2>2, ShapeInit DEF StatusInv
<1>2. StatusInv /\ [Next]_vars => StatusInv'
  <2> SUFFICES ASSUME StatusInv, UNCHANGED vars PROVE StatusInv'
    BY StatusStep
  <2>1. UNCHANGED <<lifecycles, events, pc, life>>
    BY DEF vars, stored, session
  <2>2. Shape'
    BY ShapeStep DEF StatusInv
  <2> QED BY <2>1, <2>2 DEF StatusInv, EventBeforeStatus, StatusHasEvent, NormalizedStatus
<1>3. StatusInv => StatusHasEvent
  BY DEF StatusInv
<1> QED BY <1>1, <1>2, <1>3, PTL DEF Spec
-----------------------------------------------------------------------------
(* Entries, their classification and their cases.                           *)

\* The verdict on an entry does not change with the lifecycles.
LEMMA VerdictStays ==
  ASSUME Shape, NEW q \in Requests, Step(q), NEW n \in 0..Len(lifecycles), NEW i
  PROVE  Verdict(i, n)' = Verdict(i, n)
<1>1. CASE n = 0
  BY <1>1 DEF Verdict
<1>2. CASE n # 0
  <2>1. n \in 1..Len(lifecycles)
    BY <1>2, ColumnsStay
  <2>2. \A f \in PaymentColumns : lifecycles'[n][f] = lifecycles[n][f]
    BY <2>1, ColumnsStay
  <2>3. Context(lifecycles'[n]) = Context(lifecycles[n])
    BY <2>2 DEF Context
  <2>4. Verdict(i, n) = ReconcileEntry(i, None, Context(lifecycles[n]))
    BY <1>2 DEF Verdict
  <2>5. Verdict(i, n)' = ReconcileEntry(i, None, Context(lifecycles'[n]))
    BY <1>2 DEF Verdict
  <2> QED BY <2>3, <2>4, <2>5
<1> QED BY <1>1, <1>2

\* A step writes no entry but that of the item its request is at.
LEMMA EntriesWritten ==
  ASSUME Shape, NEW q \in Requests, Step(q)
  PROVE  /\ UNCHANGED entries \/ InsertEntry(q) \/ MarkTwin(q) \/ Reconcile(q)
         /\ \A t \in Slots : t # Slot(q) => entries'[t] = entries[t]
<1>1. UNCHANGED entries \/ InsertEntry(q) \/ MarkTwin(q) \/ Reconcile(q)
  <2> USE DEF stored
  <2>1. CASE Analyze(q) \/ PersistMessage(q) \/ PersistReport(q) \/ Die(q) \/ FindLifecycle(q)
    BY <2>1 DEF Analyze, PersistMessage, PersistReport, Die, FindLifecycle
  <2>2. CASE CreateLifecycle(q) \/ AddEvent(q) \/ SetStatus(q)
    BY <2>2 DEF CreateLifecycle, AddEvent, SetStatus
  <2>3. CASE FindEntry(q) \/ ConfirmEvent(q) \/ FindLifecycleForEntry(q) \/ PersistReconciliation(q)
    BY <2>3 DEF FindEntry, ConfirmEvent, FindLifecycleForEntry, PersistReconciliation
  <2>4. CASE AddLifecycleEvent(q) \/ FindCase(q) \/ InsertCase(q)
    BY <2>4 DEF AddLifecycleEvent, FindCase, InsertCase
  <2> QED BY <2>1, <2>2, <2>3, <2>4 DEF Step
<1> QED BY <1>1, EntryInserted, TwinMarked, EntryReconciled

\* Where the step of a request that has no entry yet, or is past it, leads.
LEMMA NotEntered ==
  ASSUME Shape, NEW q \in Requests,
         \/ Analyze(q) \/ PersistMessage(q) \/ PersistReport(q) \/ FindLifecycle(q)
         \/ CreateLifecycle(q) \/ AddEvent(q) \/ SetStatus(q) \/ FindEntry(q)
  PROVE  /\ pc[q] \notin Entered \cup {"failed"} /\ pc'[q] \notin Entered
         /\ UNCHANGED <<entries, cases>>
<1> USE DEF Entered, EntrySteps, At, stored
<1>0. pc \in [Requests -> Steps]
  BY DEF Shape
<1>1. \A p : Goto(q, p) => pc'[q] = p
  BY <1>0 DEF Goto
<1>2. NextItem(q) => pc'[q] \in {"item", "done"}
  BY <1>1 DEF NextItem
<1> HIDE DEF Goto, NextItem
<1>3. CASE Analyze(q) \/ PersistMessage(q) \/ PersistReport(q)
  BY <1>1, <1>3 DEF Analyze, PersistMessage, PersistReport
<1>4. CASE FindLifecycle(q)
  BY <1>1, <1>2, <1>4 DEF FindLifecycle
<1>5. CASE CreateLifecycle(q) \/ AddEvent(q) \/ SetStatus(q)
  BY <1>1, <1>2, <1>5 DEF CreateLifecycle, AddEvent, SetStatus
<1>6. CASE FindEntry(q)
  BY <1>1, <1>6 DEF FindEntry
<1> QED BY <1>3, <1>4, <1>5, <1>6

\* What EntryInv says of the entry at which a request is.
LEMMA OwnEntry ==
  ASSUME EntryInv, NEW q \in Requests, pc[q] \in Entered
  PROVE  /\ Shape /\ item[q] \in DOMAIN Items(q) /\ Slot(q) \in Slots
         /\ entries[Slot(q)] \in AccountEntry
         /\ entries[Slot(q)].identity = Identity(Current(q))
<1>1. Shape /\ item[q] \in DOMAIN Items(q) /\ Slot(q) \in Slots
      /\ entries[Slot(q)] \in AccountEntry
  BY OwnShape DEF EntryInv
<1>2. entries[Slot(q)] # None
  BY <1>1, ConstantsAssumption
<1>3. Stored(q, item[q])
  BY <1>1 DEF EntryInv
<1> QED BY <1>1, <1>2, <1>3 DEF Stored, Slot, Current

\* A request that stores or classifies the entry of its item stays there with a
\* status it can account for, or goes on from an entry that needs no case or has one.
EntryKept(q) ==
  /\ entries'[Slot(q)].identity = Identity(Current(q))
  /\ \/ /\ item'[q] = item[q] /\ pc'[q] \in Entered
        /\ pc'[q] \in {"inserted", "repeated", "located"} =>
             entries'[Slot(q)].life = 0 /\ entries'[Slot(q)].status = "none"
        /\ pc'[q] = "confirmed" => entries'[Slot(q)].status = "RECONCILED"
        /\ pc'[q] \in {"exception", "caseless"} => entries'[Slot(q)].status \in ExceptionStatuses
        /\ pc'[q] \in {"located", "reconciled", "recorded"} => life'[q] \in 0..Len(lifecycles')
        /\ pc'[q] \in {"reconciled", "recorded"} =>
             entries'[Slot(q)].status = Verdict(Current(q), life[q])'
     \/ item'[q] = item[q] /\ pc'[q] = "failed"
     \/ /\ item'[q] = item[q] + 1 /\ pc'[q] \notin Entered
        /\ entries'[Slot(q)].status \in ExceptionStatuses => Identity(Current(q)) \in DOMAIN cases'

\* Every step about an account entry keeps it accounted for.
LEMMA EntryAccounted ==
  ASSUME EntryInv, NEW q \in Requests,
         \/ InsertEntry(q) \/ MarkTwin(q) \/ ConfirmEvent(q)
         \/ FindLifecycleForEntry(q) \/ Reconcile(q) \/ PersistReconciliation(q)
         \/ AddLifecycleEvent(q) \/ FindCase(q) \/ InsertCase(q)
  PROVE  EntryKept(q)
<1>0. /\ pc \in [Requests -> Steps] /\ item \in [Requests -> Nat \ {0}]
      /\ life \in [Requests -> Nat]
  BY DEF EntryInv, Shape
<1>a. \A p : Goto(q, p) => pc'[q] = p
  BY <1>0 DEF Goto
<1>b. NextItem(q) => item'[q] = item[q] + 1 /\ pc'[q] \in {"item", "done"}
  BY <1>0, <1>a DEF NextItem
<1>c. {"item", "done", "failed"} \cap Entered = {}
      /\ {"inserted", "repeated", "confirmed", "located", "reconciled", "recorded", "exception",
          "caseless"} \subseteq Entered
  BY DEF Entered, EntrySteps
<1>d. Present(q)
  BY DEF EntryInv
<1>e. /\ "RECONCILED" \notin ExceptionStatuses /\ "UNMATCHED_ACCOUNT_ENTRY" \notin ExceptionStatuses
      /\ "DUPLICATE_ACCOUNT_ENTRY" \in ExceptionStatuses
  BY DEF ExceptionStatuses
<1>f. pc[q] \in Entered => entries[Slot(q)].identity = Identity(Current(q))
  BY OwnEntry
<1> HIDE DEF Goto, NextItem
<1>1. CASE InsertEntry(q)
  <2>1. /\ item' = item /\ pc'[q] \in {"inserted", "repeated"}
    BY <1>1, <1>a DEF InsertEntry
  <2>2. /\ entries'[Slot(q)].identity = Identity(Current(q))
        /\ entries'[Slot(q)].life = 0 /\ entries'[Slot(q)].status = "none"
    BY <1>1, EntryInserted DEF EntryInv
  <2> QED BY <1>c, <2>1, <2>2 DEF EntryKept
<1>2. CASE MarkTwin(q)
  <2>1. pc[q] \in Entered
    BY <1>2, <1>c DEF MarkTwin, At
  <2>2. /\ entries'[Slot(q)].identity = Identity(Current(q))
        /\ entries'[Slot(q)].status =
             IF twin[q].report = Kind(q) THEN "DUPLICATE_ACCOUNT_ENTRY" ELSE "RECONCILED"
    BY <1>2, <1>f, <2>1, TwinMarked DEF EntryInv
  <2>3. \/ item' = item /\ pc'[q] = "exception" /\ twin[q].report = Kind(q)
        \/ item' = item /\ pc'[q] = "confirmed" /\ twin[q].report # Kind(q)
        \/ NextItem(q) /\ twin[q].report # Kind(q)
    BY <1>2, <1>a DEF MarkTwin
  <2> QED BY <1>b, <1>c, <1>e, <2>2, <2>3 DEF EntryKept
<1>3. CASE Reconcile(q)
  <2>1. pc[q] = "located" /\ pc'[q] = "reconciled" /\ UNCHANGED <<item, life, lifecycles>>
    BY <1>3, <1>a DEF Reconcile, session, At
  <2>2. /\ entries'[Slot(q)].identity = Identity(Current(q))
        /\ entries'[Slot(q)].status = Verdict(Current(q), life[q])
    BY <1>3, <1>c, <1>f, <2>1, EntryReconciled DEF EntryInv
  <2>3. life[q] \in 0..Len(lifecycles)
    BY <1>c, <1>d, <2>1 DEF Present
  <2>4. Verdict(Current(q), life[q])' = Verdict(Current(q), life[q])
    BY <2>1 DEF Verdict, Current
  <2> QED BY <1>c, <2>1, <2>2, <2>3, <2>4 DEF EntryKept
<1>4. CASE FindLifecycleForEntry(q)
  <2>1. pc[q] = "inserted" /\ pc'[q] = "located" /\ UNCHANGED <<item, lifecycles, entries>>
    BY <1>4, <1>a DEF FindLifecycleForEntry, stored, At
  <2>2. life'[q] \in 0..Len(lifecycles)
    <3>1. Matching(Current(q)) \subseteq 1..Len(lifecycles) /\ Len(lifecycles) \in Nat
      BY DEF Matching, EntryInv, Shape
    <3>2. \A n : Load(q, n) => life'[q] = n
      BY <1>0 DEF Load
    <3>3. life'[q] \in Matching(Current(q)) \cup {0}
      BY <1>0, <1>4, <3>2 DEF FindLifecycleForEntry
    <3> QED BY <3>1, <3>3
  <2>3. entries[Slot(q)].life = 0 /\ entries[Slot(q)].status = "none"
    BY <1>c, <1>d, <2>1 DEF Present
  <2> QED BY <1>c, <1>f, <2>1, <2>2, <2>3 DEF EntryKept
<1>5. CASE PersistReconciliation(q)
  <2>1. /\ pc[q] = "reconciled" /\ UNCHANGED <<entries, life, lifecycles>>
        /\ \/ life[q] = 0 /\ NextItem(q)
           \/ item' = item /\ pc'[q] = "recorded"
    BY <1>5, <1>a DEF PersistReconciliation, session, At
  <2>2. life[q] \in 0..Len(lifecycles) /\ entries[Slot(q)].status = Verdict(Current(q), life[q])
    BY <1>c, <1>d, <2>1 DEF Present
  <2>3. life[q] = 0 => Verdict(Current(q), life[q]) = "UNMATCHED_ACCOUNT_ENTRY"
    BY DEF Verdict
  <2>4. item' = item => Verdict(Current(q), life[q])' = Verdict(Current(q), life[q])
    BY <2>1 DEF Verdict, Current
  <2> QED BY <1>b, <1>c, <1>e, <1>f, <2>1, <2>2, <2>3, <2>4 DEF EntryKept
<1>6. CASE AddLifecycleEvent(q)
  <2>1. /\ pc[q] = "recorded" /\ UNCHANGED entries
        /\ \/ Verdict(Current(q), life[q]) \notin ExceptionStatuses /\ NextItem(q)
           \/ /\ Verdict(Current(q), life[q]) \in ExceptionStatuses
              /\ item' = item /\ pc'[q] = "exception"
    BY <1>6, <1>a DEF AddLifecycleEvent, At
  <2>2. entries[Slot(q)].status = Verdict(Current(q), life[q])
    BY <1>c, <1>d, <2>1 DEF Present
  <2> QED BY <1>b, <1>c, <1>f, <2>1, <2>2 DEF EntryKept
<1>7. CASE ConfirmEvent(q)
  <2>1. pc[q] = "confirmed" /\ UNCHANGED entries /\ NextItem(q)
    BY <1>7 DEF ConfirmEvent, At
  <2>2. entries[Slot(q)].status = "RECONCILED"
    BY <1>c, <1>d, <2>1 DEF Present
  <2> QED BY <1>b, <1>c, <1>e, <1>f, <2>1, <2>2 DEF EntryKept
<1>8. CASE FindCase(q) \/ InsertCase(q)
  <2>1. /\ pc[q] \in {"exception", "caseless"} /\ UNCHANGED entries
        /\ \/ NextItem(q) /\ Identity(Current(q)) \in DOMAIN cases'
           \/ item' = item /\ pc'[q] \in {"caseless", "failed"}
    <3>1. CASE FindCase(q)
      BY <1>a, <1>c, <3>1 DEF FindCase, At, stored
    <3>2. CASE InsertCase(q)
      BY <1>a, <1>c, <3>2 DEF InsertCase, At
    <3> QED BY <1>8, <3>1, <3>2
  <2>2. entries[Slot(q)].status \in ExceptionStatuses
    BY <1>c, <1>d, <2>1 DEF Present
  <2> QED BY <1>b, <1>c, <1>f, <2>1, <2>2 DEF EntryKept
<1> QED BY <1>1, <1>2, <1>3, <1>4, <1>5, <1>6, <1>7, <1>8

\* A step keeps what the invariant says of the entries of the other requests.
LEMMA OtherEntries ==
  ASSUME EntryInv, NEW q \in Requests, Step(q), NEW r \in Requests, r # q
  PROVE  (\A i \in DOMAIN Items(r) : Stored(r, i)') /\ Present(r)'
<1>1. Shape
  BY DEF EntryInv
<1>2. pc'[r] = pc[r] /\ item'[r] = item[r] /\ life'[r] = life[r]
      /\ Slot(r)' = Slot(r) /\ Current(r)' = Current(r)
  BY <1>1, OthersStay
<1>3. \A i \in DOMAIN Items(r) : entries'[<<r, i>>] = entries[<<r, i>>]
  BY <1>1, EntriesWritten, SlotsOf, OwnSlot DEF Slot
<1>4. DOMAIN cases \subseteq DOMAIN cases'
  BY RowsStay
<1>5. ASSUME NEW i \in DOMAIN Items(r) PROVE Stored(r, i)'
  <2>1. Stored(r, i)
    BY DEF EntryInv
  <2> QED BY <1>2, <1>3, <1>4, <2>1 DEF Stored
<1>6. Present(r)'
  <2> SUFFICES ASSUME pc[r] \in Entered PROVE Present(r)'
    BY <1>2 DEF Present
  <2>1. Present(r) /\ item[r] \in DOMAIN Items(r)
    BY OwnEntry DEF EntryInv
  <2>2. entries'[Slot(r)] = entries[Slot(r)]
    BY <1>3, <2>1 DEF Slot
  <2>3. \A n \in 0..Len(lifecycles) : n \in 0..Len(lifecycles')
    BY <1>1, ColumnsStay
  <2>4. life[r] \in 0..Len(lifecycles) =>
          Verdict(Current(r), life[r])' = Verdict(Current(r), life[r])
    <3> SUFFICES ASSUME life[r] \in 0..Len(lifecycles)
                 PROVE  Verdict(Current(r), life[r])' = Verdict(Current(r), life[r])
      OBVIOUS
    <3>1. \A m \in 0..Len(lifecycles) : \A j :
            (IF m = 0 THEN "UNMATCHED_ACCOUNT_ENTRY"
             ELSE ReconcileEntry(j, None, Context(lifecycles'[m]))) = Verdict(j, m)
      BY <1>1, VerdictStays DEF Verdict
    <3>2. Verdict(Current(r), life[r])' =
            IF life'[r] = 0 THEN "UNMATCHED_ACCOUNT_ENTRY"
            ELSE ReconcileEntry(Current(r)', None, Context(lifecycles'[life'[r]]))
      BY DEF Verdict
    <3> QED BY <1>2, <3>1, <3>2
  <2> QED BY <1>2, <2>1, <2>2, <2>3, <2>4 DEF Present
<1> QED BY <1>5, <1>6

\* A step keeps what the invariant says of the entries of its request.
LEMMA OwnEntries ==
  ASSUME EntryInv, NEW q \in Requests, Step(q)
  PROVE  (\A i \in DOMAIN Items(q) : Stored(q, i)') /\ Present(q)'
<1>1. Shape /\ item \in [Requests -> Nat \ {0}] /\ pc \in [Requests -> Steps]
  BY DEF EntryInv, Shape
<1>2. item'[q] = item[q] \/ item'[q] = item[q] + 1
  BY <1>1, OneMoves
<1>3. \A i \in DOMAIN Items(q) : i # item[q] => entries'[<<q, i>>] = entries[<<q, i>>]
  <2>1. \A i : i # item[q] => <<q, i>> # <<q, item[q]>>
    OBVIOUS
  <2> QED BY <1>1, <2>1, EntriesWritten, SlotsOf DEF Slot
<1>4. DOMAIN cases \subseteq DOMAIN cases'
  BY RowsStay
<1>5. ASSUME NEW i \in DOMAIN Items(q), i # item[q] PROVE Stored(q, i)'
  <2>1. Stored(q, i) /\ i \in Nat
    BY ItemNumbers DEF EntryInv
  <2> QED BY <1>1, <1>2, <1>3, <1>4, <1>5, <2>1 DEF Stored
<1>6. CASE Analyze(q) \/ PersistMessage(q) \/ PersistReport(q) \/ FindLifecycle(q)
           \/ CreateLifecycle(q) \/ AddEvent(q) \/ SetStatus(q) \/ FindEntry(q)
  <2>1. pc[q] \notin Entered \cup {"failed"} /\ pc'[q] \notin Entered /\ entries' = entries
    BY <1>1, <1>6, NotEntered
  <2>2. item[q] \in DOMAIN Items(q) => Stored(q, item[q])
    BY DEF EntryInv
  <2>3. \A i \in DOMAIN Items(q) : i = item[q] => entries'[<<q, i>>] = None
    BY <1>1, <2>1, <2>2 DEF Stored
  <2>4. \A i \in DOMAIN Items(q) : i = item[q] => Stored(q, i)'
    BY <2>3 DEF Stored
  <2>5. Present(q)'
    BY <2>1 DEF Present
  <2> QED BY <1>5, <2>4, <2>5
<1>7. CASE Die(q)
  <2>1. pc'[q] = "failed" /\ item' = item /\ entries' = entries
    BY <1>1, <1>7 DEF Die, Goto, stored
  <2>2. \A i \in DOMAIN Items(q) : Stored(q, i) /\ i \in Nat
    BY ItemNumbers DEF EntryInv
  <2>3. \A i \in DOMAIN Items(q) : i = item[q] => Stored(q, i)'
    BY <1>1, <2>1, <2>2 DEF Stored
  <2>4. Present(q)'
    BY <2>1 DEF Present, Entered, EntrySteps
  <2> QED BY <1>5, <2>3, <2>4
<1>8. CASE InsertEntry(q) \/ MarkTwin(q) \/ ConfirmEvent(q) \/ FindLifecycleForEntry(q)
           \/ Reconcile(q) \/ PersistReconciliation(q) \/ AddLifecycleEvent(q)
           \/ FindCase(q) \/ InsertCase(q)
  <2>1. EntryKept(q)
    BY <1>8, EntryAccounted
  <2>2. ASSUME NEW i \in DOMAIN Items(q), i = item[q] PROVE Stored(q, i)'
    <3>1. /\ entries'[<<q, i>>].identity = Identity(Items(q)[i])
          /\ \/ item'[q] = item[q] /\ pc'[q] \in Entered \cup {"failed"}
             \/ /\ item'[q] = item[q] + 1
                /\ entries'[<<q, i>>].status \in ExceptionStatuses =>
                     Identity(Items(q)[i]) \in DOMAIN cases'
      BY <2>1, <2>2 DEF EntryKept, Slot, Current
    <3>2. item[q] \in Nat
      BY <1>1
    <3> QED BY <2>2, <3>1, <3>2 DEF Stored
  <2>3. Present(q)'
    <3> SUFFICES ASSUME pc'[q] \in Entered PROVE Present(q)'
      BY DEF Present
    <3>1. item'[q] = item[q]
      BY <2>1 DEF EntryKept, Entered, EntrySteps
    <3>2. Slot(q)' = Slot(q)
      BY <3>1 DEF Slot
    <3>3. item'[q] # item[q] + 1 /\ pc'[q] # "failed"
      BY <1>1, <3>1 DEF Entered, EntrySteps
    <3> QED BY <2>1, <3>2, <3>3 DEF EntryKept, Present
  <2> QED BY <1>5, <2>2, <2>3
<1> QED BY <1>6, <1>7, <1>8 DEF Step

\* Every step keeps the entries accounted for.
LEMMA EntryStep == ASSUME EntryInv, [Next]_vars PROVE EntryInv'
<1>0. Shape'
  BY ShapeStep DEF EntryInv
<1>1. CASE Next
  <2>1. PICK q \in Requests : Step(q)
    BY <1>1, StepOfOne
  <2>2. \A r \in Requests : (\A i \in DOMAIN Items(r) : Stored(r, i)') /\ Present(r)'
    BY <2>1, OtherEntries, OwnEntries
  <2> QED BY <1>0, <2>2 DEF EntryInv
<1>2. CASE UNCHANGED vars
  <2>1. UNCHANGED <<lifecycles, entries, cases, pc, item, life>>
    BY <1>2 DEF vars, stored, session
  <2> QED BY <1>0, <2>1 DEF EntryInv, Stored, Present, Slot, Current, Verdict
<1> QED BY <1>1, <1>2

\* No entry is accounted for before there is one.
LEMMA EntryInit == Init => EntryInv
<1> SUFFICES ASSUME Init PROVE EntryInv
  OBVIOUS
<1>1. \A q \in Requests : \A i \in DOMAIN Items(q) : Stored(q, i)
  BY SlotsOf DEF Init, Stored
<1>2. \A q \in Requests : Present(q)
  BY DEF Init, Present, Entered, EntrySteps
<1> QED BY <1>1, <1>2, ShapeInit DEF EntryInv

\* An entry keeps its identity, and its link and its status once it has them.
LEMMA EntriesStay ==
  ASSUME EntryInv, NEW q \in Requests, Step(q), NEW s \in EntrySlots
  PROVE  /\ s \in EntrySlots' /\ entries'[s].identity = entries[s].identity
         /\ entries[s].status # "none" => entries'[s].status = entries[s].status
         /\ entries[s].life # 0 => entries'[s].life = entries[s].life
<1>0. Shape /\ s \in Slots /\ entries[s] # None
  BY DEF EntryInv, EntrySlots
<1>a. entries'[s] # None => s \in EntrySlots'
  BY <1>0 DEF EntrySlots
<1>1. CASE s # Slot(q)
  BY <1>0, <1>1, <1>a, EntriesWritten
<1>2. CASE UNCHANGED entries
  BY <1>0, <1>2, <1>a
<1>3. CASE s = Slot(q) /\ InsertEntry(q)
  <2>1. pc[q] = "identified"
    BY <1>3 DEF InsertEntry, At
  <2>2. pc[q] \notin Entered \cup {"failed"} /\ item[q] \in DOMAIN Items(q)
    BY <1>0, <2>1, OwnShape DEF Entered, EntrySteps
  <2>3. Stored(q, item[q])
    BY <2>2 DEF EntryInv
  <2> QED BY <1>0, <1>3, <2>2, <2>3 DEF Stored, Slot
<1>4. CASE s = Slot(q) /\ MarkTwin(q)
  <2>1. entries[s].life = 0 /\ entries[s].status = "none"
    <3>1. pc[q] = "repeated" /\ "repeated" \in Entered
      BY <1>4 DEF MarkTwin, At, Entered, EntrySteps
    <3>2. Present(q)
      BY DEF EntryInv
    <3> QED BY <1>4, <3>1, <3>2 DEF Present
  <2> QED BY <1>0, <1>4, <1>a, <2>1, TwinMarked
<1>5. CASE s = Slot(q) /\ Reconcile(q)
  <2>1. entries[s].life = 0 /\ entries[s].status = "none"
    <3>1. pc[q] = "located" /\ "located" \in Entered
      BY <1>5 DEF Reconcile, At, Entered, EntrySteps
    <3>2. Present(q)
      BY DEF EntryInv
    <3> QED BY <1>5, <3>1, <3>2 DEF Present
  <2> QED BY <1>0, <1>5, <1>a, <2>1, EntryReconciled
<1> QED BY <1>0, <1>1, <1>2, <1>3, <1>4, <1>5, EntriesWritten

\* A case is stored by the request at its exception, with its status.
LEMMA CaseStored ==
  ASSUME EntryInv, NEW q \in Requests, Step(q)
  PROVE  \/ UNCHANGED cases
         \/ /\ pc[q] = "caseless" /\ UNCHANGED entries
            /\ cases' = [c \in DOMAIN cases \cup {Identity(Current(q))} |->
                          IF c \in DOMAIN cases THEN cases[c] ELSE entries[Slot(q)].status]
<1> USE DEF stored
<1>1. CASE Analyze(q) \/ PersistMessage(q) \/ PersistReport(q) \/ Die(q) \/ FindLifecycle(q)
  BY <1>1 DEF Analyze, PersistMessage, PersistReport, Die, FindLifecycle
<1>2. CASE CreateLifecycle(q) \/ AddEvent(q) \/ SetStatus(q)
  BY <1>2 DEF CreateLifecycle, AddEvent, SetStatus
<1>3. CASE FindEntry(q) \/ InsertEntry(q) \/ MarkTwin(q) \/ ConfirmEvent(q)
  BY <1>3 DEF FindEntry, InsertEntry, MarkTwin, ConfirmEvent
<1>4. CASE FindLifecycleForEntry(q) \/ Reconcile(q) \/ PersistReconciliation(q)
  BY <1>4 DEF FindLifecycleForEntry, Reconcile, PersistReconciliation
<1>5. CASE AddLifecycleEvent(q) \/ FindCase(q)
  BY <1>5 DEF AddLifecycleEvent, FindCase
<1>6. CASE InsertCase(q)
  BY <1>6 DEF InsertCase, At
<1> QED BY <1>1, <1>2, <1>3, <1>4, <1>5, <1>6 DEF Step

\* Every step keeps the cases explained by entries.
LEMMA CaseStep == ASSUME CaseInv, [Next]_vars PROVE CaseInv'
<1>0. EntryInv /\ EntryInv'
  BY EntryStep DEF CaseInv
<1>1. CASE Next
  <2>1. PICK q \in Requests : Step(q)
    BY <1>1, StepOfOne
  <2>2. "none" \notin ExceptionStatuses
    BY DEF ExceptionStatuses
  <2>3. ASSUME NEW c \in DOMAIN cases, cases'[c] = cases[c]
        PROVE  \E s \in EntrySlots' : /\ entries'[s].identity = c /\ entries'[s].status = cases'[c]
                                       /\ cases'[c] \in ExceptionStatuses
    <3>1. PICK s \in EntrySlots : /\ entries[s].identity = c /\ entries[s].status = cases[c]
                                  /\ cases[c] \in ExceptionStatuses
      BY DEF CaseInv, CasesExplained
    <3>2. /\ s \in EntrySlots' /\ entries'[s].identity = entries[s].identity
          /\ entries[s].status # "none" => entries'[s].status = entries[s].status
      BY <1>0, <2>1, EntriesStay
    <3> QED BY <2>2, <2>3, <3>1, <3>2
  <2>4. CASE UNCHANGED cases
    BY <1>0, <2>3, <2>4 DEF CaseInv, CasesExplained
  <2>5. CASE /\ pc[q] = "caseless" /\ UNCHANGED entries
             /\ cases' = [c \in DOMAIN cases \cup {Identity(Current(q))} |->
                           IF c \in DOMAIN cases THEN cases[c] ELSE entries[Slot(q)].status]
    <3>1. pc[q] \in Entered
      BY <2>5 DEF Entered, EntrySteps
    <3>2. /\ Slot(q) \in Slots /\ entries[Slot(q)] \in AccountEntry
          /\ entries[Slot(q)].identity = Identity(Current(q))
      BY <1>0, <3>1, OwnEntry
    <3>3. entries[Slot(q)].status \in ExceptionStatuses
      BY <1>0, <2>5, <3>1 DEF EntryInv, Present
    <3>4. Slot(q) \in EntrySlots'
      BY <2>5, <3>2, ConstantsAssumption DEF EntrySlots
    <3>5. ASSUME NEW c \in DOMAIN cases', c \notin DOMAIN cases
          PROVE  \E s \in EntrySlots' : /\ entries'[s].identity = c /\ entries'[s].status = cases'[c]
                                         /\ cases'[c] \in ExceptionStatuses
      <4>1. c = Identity(Current(q)) /\ cases'[c] = entries[Slot(q)].status
        BY <2>5, <3>5
      <4>2. entries'[Slot(q)] = entries[Slot(q)]
        BY <2>5
      <4> QED BY <3>2, <3>3, <3>4, <4>1, <4>2
    <3>6. \A c \in DOMAIN cases : cases'[c] = cases[c]
      BY <2>5
    <3> QED BY <1>0, <2>3, <3>5, <3>6 DEF CaseInv, CasesExplained
  <2> QED BY <1>0, <2>1, <2>4, <2>5, CaseStored
<1>2. CASE UNCHANGED vars
  <2>1. UNCHANGED <<cases, entries>>
    BY <1>2 DEF vars, stored
  <2> QED BY <1>0, <2>1 DEF CaseInv, CasesExplained, EntrySlots
<1> QED BY <1>1, <1>2

\* _ensure_case: an exception that its request is past has the case of its
\* identity, and no case stands for anything but an exception that is stored
\* with that classification, whoever else is under way and whoever dies.
THEOREM CaseForExceptionAlways == Spec => []CaseForException
<1>1. CaseInv => CaseForException
  <2> SUFFICES ASSUME CaseInv PROVE CaseForException
    OBVIOUS
  <2>1. ASSUME NEW s \in EntrySlots, entries[s].status \in ExceptionStatuses
        PROVE  \/ entries[s].identity \in DOMAIN cases
               \/ item[s[1]] = s[2] /\ pc[s[1]] \notin {"item", "done"}
    <3>1. s \in Slots /\ entries[s] # None
      BY DEF EntrySlots
    <3>2. s[1] \in Requests /\ s[2] \in DOMAIN Items(s[1]) /\ s = <<s[1], s[2]>>
      BY <3>1, SlotsOf
    <3>3. Stored(s[1], s[2]) /\ s[2] \in Nat /\ item[s[1]] \in Nat
      BY <3>2, ItemNumbers DEF CaseInv, EntryInv, Shape
    <3>4. {"item", "done"} \cap (Entered \cup {"failed"}) = {}
      BY DEF Entered, EntrySteps
    <3> QED BY <2>1, <3>1, <3>2, <3>3, <3>4 DEF Stored
  <2> QED BY <2>1 DEF CaseForException, CaseInv, CasesExplained
<1>2. Init => CaseInv
  BY EntryInit DEF Init, CaseInv, CasesExplained
<1>3. CaseInv /\ [Next]_vars => CaseInv'
  BY CaseStep
<1> QED BY <1>1, <1>2, <1>3, PTL DEF Spec
-----------------------------------------------------------------------------
(* The races.                                                               *)

\* A request acts on its items only after it stored its message.
LEMMA StoredFirst ==
  ASSUME Shape, NEW q \in Requests, Step(q)
  PROVE  \/ /\ messages' = messages
            /\ pc'[q] \in Kept => pc[q] \in Kept
            /\ pc'[q] = "unseen" => ~FindByHash(q)
         \/ messages' = messages \cup {q} /\ pc[q] = "unseen" /\ pc'[q] # "unseen"
<1> USE DEF At
<1>0. pc \in [Requests -> Steps]
  BY DEF Shape
<1>a. \A p : Goto(q, p) => pc'[q] = p
  BY <1>0 DEF Goto
<1>b. NextItem(q) => pc'[q] # "unseen"
  BY <1>a DEF NextItem
<1>c. "unseen" \notin Kept /\ "done" \notin Kept /\ "failed" \notin Kept /\ "new" \notin Kept
  BY DEF Kept, PaymentSteps, EntrySteps
<1> HIDE DEF Goto, NextItem
<1>1. CASE Analyze(q)
  BY <1>1, <1>a, <1>c DEF Analyze, stored
<1>2. CASE PersistMessage(q)
  BY <1>2, <1>a DEF PersistMessage
<1>3. CASE PersistReport(q)
  BY <1>3, <1>a DEF PersistReport, Kept
<1>4. CASE Die(q)
  BY <1>4, <1>a, <1>c DEF Die, stored
<1>5. CASE FindLifecycle(q) \/ CreateLifecycle(q) \/ AddEvent(q) \/ SetStatus(q)
  <2>1. pc[q] \in Kept
    BY <1>5 DEF FindLifecycle, CreateLifecycle, AddEvent, SetStatus, Kept, PaymentSteps
  <2>2. messages' = messages /\ pc'[q] # "unseen"
    BY <1>5, <1>a, <1>b DEF FindLifecycle, CreateLifecycle, AddEvent, SetStatus, stored
  <2> QED BY <2>1, <2>2
<1>6. CASE FindEntry(q) \/ InsertEntry(q) \/ MarkTwin(q) \/ ConfirmEvent(q)
  <2>1. pc[q] \in Kept
    BY <1>6 DEF FindEntry, InsertEntry, MarkTwin, ConfirmEvent, Kept, EntrySteps
  <2>2. messages' = messages /\ pc'[q] # "unseen"
    BY <1>6, <1>a, <1>b DEF FindEntry, InsertEntry, MarkTwin, ConfirmEvent, stored
  <2> QED BY <2>1, <2>2
<1>7. CASE FindLifecycleForEntry(q) \/ Reconcile(q) \/ PersistReconciliation(q)
  <2>1. pc[q] \in Kept
    BY <1>7 DEF FindLifecycleForEntry, Reconcile, PersistReconciliation, Kept, EntrySteps
  <2>2. messages' = messages /\ pc'[q] # "unseen"
    BY <1>7, <1>a, <1>b DEF FindLifecycleForEntry, Reconcile, PersistReconciliation, stored
  <2> QED BY <2>1, <2>2
<1>8. CASE AddLifecycleEvent(q) \/ FindCase(q) \/ InsertCase(q)
  <2>1. pc[q] \in Kept
    BY <1>8 DEF AddLifecycleEvent, FindCase, InsertCase, Kept, EntrySteps
  <2>2. messages' = messages /\ pc'[q] # "unseen"
    BY <1>8, <1>a, <1>b DEF AddLifecycleEvent, FindCase, InsertCase, stored
  <2> QED BY <2>1, <2>2
<1> QED BY <1>1, <1>2, <1>3, <1>4, <1>5, <1>6, <1>7, <1>8 DEF Step

\* The events a step stores are of the item its request is at.
LEMMA EventsOfItem ==
  ASSUME NEW q \in Requests, Step(q)
  PROVE  \/ events' = events
         \/ pc[q] \in Kept /\ \E x : events' = events \cup {x} /\ x.slot = Slot(q)
<1> USE DEF At
<1>1. CASE Analyze(q) \/ PersistMessage(q) \/ PersistReport(q) \/ Die(q) \/ FindLifecycle(q)
  BY <1>1 DEF Analyze, PersistMessage, PersistReport, Die, FindLifecycle, stored
<1>2. CASE CreateLifecycle(q) \/ SetStatus(q)
  BY <1>2 DEF CreateLifecycle, SetStatus
<1>3. CASE FindEntry(q) \/ InsertEntry(q) \/ MarkTwin(q)
  BY <1>3 DEF FindEntry, InsertEntry, MarkTwin, stored
<1>4. CASE FindLifecycleForEntry(q) \/ Reconcile(q) \/ PersistReconciliation(q)
  BY <1>4 DEF FindLifecycleForEntry, Reconcile, PersistReconciliation, stored
<1>5. CASE FindCase(q) \/ InsertCase(q)
  BY <1>5 DEF FindCase, InsertCase, stored
<1>6. CASE AddEvent(q)
  BY <1>6 DEF AddEvent, Kept, PaymentSteps
<1>7. CASE ConfirmEvent(q)
  BY <1>7 DEF ConfirmEvent, Kept, EntrySteps
<1>8. CASE AddLifecycleEvent(q)
  BY <1>8 DEF AddLifecycleEvent, Kept, EntrySteps
<1> QED BY <1>1, <1>2, <1>3, <1>4, <1>5, <1>6, <1>7, <1>8 DEF Step

\* The entry a step writes is that of the item its request is at.
LEMMA EntryOfItem ==
  ASSUME Shape, NEW q \in Requests, Step(q), NEW s \in EntrySlots'
  PROVE  s \in EntrySlots \/ (s = Slot(q) /\ pc[q] \in Kept)
<1>1. s \in Slots /\ entries'[s] # None
  BY DEF EntrySlots
<1>a. entries[s] # None => s \in EntrySlots
  BY <1>1 DEF EntrySlots
<1>2. CASE s # Slot(q)
  BY <1>1, <1>a, <1>2, EntriesWritten
<1>3. CASE UNCHANGED entries
  BY <1>1, <1>a, <1>3
<1>4. CASE InsertEntry(q) \/ MarkTwin(q) \/ Reconcile(q)
  <2>1. pc[q] \in Kept
    BY <1>4 DEF InsertEntry, MarkTwin, Reconcile, At, Kept, EntrySteps
  <2> QED BY <1>2, <2>1
<1> QED BY <1>3, <1>4, EntriesWritten

\* Without the race, each hash is stored once and stands for all its traces.
LEMMA OnceStep == ASSUME HashesApart, OnceInv, [Next]_vars PROVE OnceInv'
<1>0. Shape /\ Shape'
  BY ShapeStep DEF OnceInv
<1>1. CASE Next
  <2>1. PICK q \in Requests : Step(q)
    BY <1>1, StepOfOne
  <2>2. \A r \in Requests : r # q => pc'[r] = pc[r]
    BY <1>0, <2>1, OthersStay
  <2>3. \/ /\ messages' = messages
           /\ pc'[q] \in Kept => pc[q] \in Kept
           /\ pc'[q] = "unseen" => ~FindByHash(q)
        \/ messages' = messages \cup {q} /\ pc[q] = "unseen" /\ pc'[q] # "unseen"
    BY <1>0, <2>1, StoredFirst
  <2>4. \A r \in Requests : pc[r] \in Kept => r \in messages
    BY DEF OnceInv, KnownMessages
  <2>5. messages \subseteq messages'
    BY <2>3
  <2>6. \A r \in Requests : pc[r] = "unseen" => \A m \in messages : Hash(m) # Hash(r)
    BY DEF OnceInv, KnownMessages, FindByHash
  <2>7. \A r, t \in messages' : Hash(r) = Hash(t) => r = t
    <3>1. \A r, t \in messages : Hash(r) = Hash(t) => r = t
      BY DEF OnceInv, KnownMessages
    <3> HIDE DEF Hash
    <3> QED BY <2>3, <2>6, <3>1
  <2>8. ASSUME NEW r \in Requests, pc'[r] = "unseen"
        PROVE  \A m \in messages' : Hash(m) # Hash(r)
    <3>1. CASE r = q
      BY <2>3, <2>8, <3>1 DEF FindByHash
    <3>2. CASE r # q
      <4>1. pc[r] = "unseen"
        BY <2>2, <2>8, <3>2
      <4>2. pc[q] = "unseen" => Hash(q) # Hash(r)
        BY <3>2, <4>1 DEF HashesApart
      <4> HIDE DEF Hash
      <4> QED BY <2>3, <2>6, <4>1, <4>2
    <3> QED BY <3>1, <3>2
  <2>9. \A r \in Requests : pc'[r] \in Kept => r \in messages'
    BY <2>2, <2>3, <2>4, <2>5
  <2>10. Slot(q)[1] = q
    BY DEF Slot
  <2>11. \A e \in events' : e.slot[1] \in messages'
    <3>1. \A e \in events : e.slot[1] \in messages
      BY DEF OnceInv, KnownMessages
    <3> QED BY <2>1, <2>4, <2>5, <2>10, <3>1, EventsOfItem
  <2>12. \A s \in EntrySlots' : s[1] \in messages'
    <3>1. \A s \in EntrySlots : s[1] \in messages
      BY DEF OnceInv, KnownMessages
    <3> QED BY <1>0, <2>1, <2>4, <2>5, <2>10, <3>1, EntryOfItem
  <2>13. KnownMessages'
    BY <2>7, <2>8, <2>9, <2>11, <2>12 DEF KnownMessages, FindByHash, Hash
  <2> QED BY <1>0, <2>13 DEF OnceInv
<1>2. CASE UNCHANGED vars
  <2>1. UNCHANGED <<messages, events, entries, pc>>
    BY <1>2 DEF vars, stored
  <2> QED BY <1>0, <2>1 DEF OnceInv, KnownMessages, FindByHash, EntrySlots
<1> QED BY <1>1, <1>2

\* However many requests are under way, a report that is sent again leaves no
\* second trace, also after a crash, unless two of them look the hash up before
\* either stores it: analyze_iso_message looks the hash of the payload up before
\* it stores anything, and stores it before anything else.
THEOREM AppliedOnceUnlessRaced == Spec /\ []HashesApart => []AppliedOnce
<1>1. Init => OnceInv
  <2> SUFFICES ASSUME Init PROVE KnownMessages
    BY ShapeInit DEF OnceInv
  <2>1. messages = {} /\ events = {} /\ EntrySlots = {}
    BY DEF Init, EntrySlots
  <2>2. \A q \in Requests : pc[q] \notin Kept \cup {"unseen"}
    BY DEF Init, Kept, PaymentSteps, EntrySteps
  <2> QED BY <2>1, <2>2 DEF KnownMessages
<1>2. HashesApart /\ OnceInv /\ [Next]_vars => OnceInv'
  BY OnceStep
<1>3. OnceInv => AppliedOnce
  <2> SUFFICES ASSUME OnceInv PROVE AppliedOnce
    OBVIOUS
  <2>1. \A r, t \in messages : Hash(r) = Hash(t) => r = t
    BY DEF OnceInv, KnownMessages
  <2>2. (\A e \in events : e.slot[1] \in messages) /\ (\A s \in EntrySlots : s[1] \in messages)
    BY DEF OnceInv, KnownMessages
  <2> HIDE DEF Hash
  <2> QED BY <2>1, <2>2 DEF AppliedOnce
<1> QED BY <1>1, <1>2, <1>3, PTL DEF Spec

\* Only a payment that matches no lifecycle gets to create one.
LEMMA AbsentStep ==
  ASSUME Shape, NEW q \in Requests, Step(q), pc'[q] = "absent"
  PROVE  /\ Matching(Current(q)) = {} /\ UNCHANGED <<lifecycles, item>>
         /\ looked' = [looked EXCEPT ![q] = Len(lifecycles)]
<1>0. pc \in [Requests -> Steps]
  BY DEF Shape
<1>1. \A p : Goto(q, p) => p = "absent"
  BY <1>0 DEF Goto
<1>2. ~NextItem(q)
  BY <1>1 DEF NextItem
<1> HIDE DEF Goto, NextItem
<1>3. ~(Analyze(q) \/ PersistMessage(q) \/ PersistReport(q) \/ Die(q))
  BY <1>1 DEF Analyze, PersistMessage, PersistReport, Die
<1>4. ~(CreateLifecycle(q) \/ AddEvent(q) \/ SetStatus(q))
  BY <1>1, <1>2 DEF CreateLifecycle, AddEvent, SetStatus
<1>5. ~(FindEntry(q) \/ InsertEntry(q) \/ MarkTwin(q) \/ ConfirmEvent(q))
  BY <1>1, <1>2 DEF FindEntry, InsertEntry, MarkTwin, ConfirmEvent
<1>6. ~(FindLifecycleForEntry(q) \/ Reconcile(q) \/ PersistReconciliation(q))
  BY <1>1, <1>2 DEF FindLifecycleForEntry, Reconcile, PersistReconciliation
<1>7. ~(AddLifecycleEvent(q) \/ FindCase(q) \/ InsertCase(q))
  BY <1>1, <1>2 DEF AddLifecycleEvent, FindCase, InsertCase
<1>8. FindLifecycle(q)
  BY <1>3, <1>4, <1>5, <1>6, <1>7 DEF Step
<1> QED BY <1>1, <1>2, <1>8 DEF FindLifecycle, stored

\* A request looks for itself only.
LEMMA LookedMoves ==
  ASSUME NEW q, Step(q)
  PROVE  looked' = looked \/ (FindLifecycle(q) /\ looked' = [looked EXCEPT ![q] = Len(lifecycles)])
<1> USE DEF session, stored
<1>1. CASE Analyze(q) \/ PersistMessage(q) \/ PersistReport(q) \/ Die(q)
  BY <1>1 DEF Analyze, PersistMessage, PersistReport, Die
<1>2. CASE FindLifecycle(q) \/ CreateLifecycle(q) \/ AddEvent(q) \/ SetStatus(q)
  BY <1>2 DEF FindLifecycle, CreateLifecycle, AddEvent, SetStatus
<1>3. CASE FindEntry(q) \/ InsertEntry(q) \/ MarkTwin(q) \/ ConfirmEvent(q)
  BY <1>3 DEF FindEntry, InsertEntry, MarkTwin, ConfirmEvent
<1>4. CASE FindLifecycleForEntry(q) \/ Reconcile(q) \/ PersistReconciliation(q)
  BY <1>4 DEF FindLifecycleForEntry, Reconcile, PersistReconciliation
<1>5. CASE AddLifecycleEvent(q) \/ FindCase(q) \/ InsertCase(q)
  BY <1>5 DEF AddLifecycleEvent, FindCase, InsertCase
<1> QED BY <1>1, <1>2, <1>3, <1>4, <1>5 DEF Step

\* Every step keeps what was looked at.
LEMMA LookedStep == ASSUME SplitInv, [Next]_vars PROVE SplitInv'
<1>0. Shape /\ Shape' /\ LookedWell
  BY ShapeStep DEF SplitInv
<1>1. CASE Next
  <2>1. PICK q \in Requests : Step(q)
    BY <1>1, StepOfOne
  <2>2. /\ Len(lifecycles) \in Nat /\ Len(lifecycles') \in Nat
        /\ Len(lifecycles) <= Len(lifecycles') /\ DOMAIN lifecycles = 1..Len(lifecycles)
        /\ \A n \in 1..Len(lifecycles) :
             \A f \in LookupFields : lifecycles'[n][f] = lifecycles[n][f]
    BY <1>0, <2>1, ColumnsStay DEF PaymentColumns
  <2>3. /\ looked' \in [Requests -> Nat]
        /\ \A r \in Requests : looked'[r] <= Len(lifecycles')
        /\ \A r \in Requests : r # q => looked'[r] = looked[r]
    BY <1>0, <2>1, <2>2, LookedMoves DEF LookedWell
  <2>4. \A i : \A n \in 1..Len(lifecycles) :
          Matches(i, lifecycles'[n]) <=> Matches(i, lifecycles[n])
    BY <2>2 DEF Matches
  <2>5. ASSUME NEW r \in Requests, pc'[r] = "absent", NEW n \in 1..looked'[r]
        PROVE  ~Matches(Current(r)', lifecycles'[n])
    <3>1. CASE r = q
      <4>1. /\ Matching(Current(q)) = {} /\ UNCHANGED <<lifecycles, item>>
            /\ looked'[q] = Len(lifecycles)
        BY <1>0, <2>1, <2>5, <3>1, AbsentStep DEF LookedWell
      <4>2. Current(q)' = Current(q) /\ n \in DOMAIN lifecycles
        BY <2>2, <2>5, <3>1, <4>1 DEF Current
      <4> QED BY <3>1, <4>1, <4>2 DEF Matching
    <3>2. CASE r # q
      <4>1. pc[r] = "absent" /\ Current(r)' = Current(r)
        BY <1>0, <2>1, <2>5, <3>2, OthersStay
      <4>2. looked[r] <= Len(lifecycles) /\ looked[r] \in Nat /\ n \in 1..looked[r]
        BY <1>0, <2>3, <2>5, <3>2 DEF LookedWell
      <4>3. n \in 1..Len(lifecycles) /\ ~Matches(Current(r), lifecycles[n])
        BY <1>0, <2>2, <4>1, <4>2 DEF LookedWell
      <4> QED BY <2>4, <4>1, <4>3
    <3> QED BY <3>1, <3>2
  <2> QED BY <1>0, <2>3, <2>5 DEF SplitInv, LookedWell
<1>2. CASE UNCHANGED vars
  <2>1. UNCHANGED <<lifecycles, item, pc, looked>>
    BY <1>2 DEF vars, stored, session
  <2> QED BY <1>0, <2>1 DEF SplitInv, LookedWell, Current
<1> QED BY <1>1, <1>2

\* A new lifecycle shares an identifier with none that its request had looked at.
LEMMA SplitStep ==
  ASSUME SplitInv, [Next]_vars,
         NEW n \in DOMAIN lifecycles' \ DOMAIN lifecycles, NEW m \in DOMAIN lifecycles,
         NEW f \in LookupFields, lifecycles[m][f] # None, lifecycles[m][f] = lifecycles'[n][f]
  PROVE  \E q \in Requests : At(q, "absent") /\ ~At(q, "absent")' /\ looked[q] < m
<1>1. Shape /\ LookedWell
  BY DEF SplitInv
<1>2. ~UNCHANGED lifecycles
  OBVIOUS
<1>3. PICK q \in Requests : Step(q)
  BY <1>2, StepOfOne DEF vars, stored
<1>4. CreateLifecycle(q)
  <2>1. SetStatus(q) => DOMAIN lifecycles' = DOMAIN lifecycles
    BY <1>1, StatusWritten
  <2> QED BY <1>2, <1>3, <2>1, LifecyclesWritten
<1> DEFINE k == Len(lifecycles) + 1
           x == NewLifecycle(Current(q))
<1>5. /\ Len(lifecycles) \in Nat /\ DOMAIN lifecycles' = 1..k /\ lifecycles'[k] = x
      /\ pc[q] = "absent"
  BY <1>1, <1>4, LifecycleCreated
<1>6. DOMAIN lifecycles = 1..Len(lifecycles)
  BY <1>1, <1>3, ColumnsStay
<1>7. n = k /\ m \in 1..Len(lifecycles)
  BY <1>5, <1>6
<1>8. x[f] = Current(q)[f]
  BY DEF NewLifecycle, PaymentColumns, LookupFields
<1> HIDE DEF x
<1>9. Matches(Current(q), lifecycles[m])
  BY <1>5, <1>7, <1>8 DEF Matches
<1>10. looked[q] < m
  <2>1. looked[q] \in Nat /\ ~(m \in 1..looked[q])
    BY <1>1, <1>5, <1>9 DEF LookedWell
  <2> QED BY <1>5, <1>7, <2>1
<1>11. pc'[q] = "correlated"
  BY <1>1, <1>4 DEF CreateLifecycle, Goto, Shape
<1> QED BY <1>5, <1>10, <1>11 DEF At

\* _correlate_and_build_lifecycle, however many requests are under way and
\* whoever dies: a second lifecycle for an identifier comes only from a request
\* whose _find_lifecycle was answered before the first was committed.
THEOREM OnlyRacesSplitAlways == Spec => OnlyRacesSplit
<1>1. Init => SplitInv
  <2> SUFFICES ASSUME Init PROVE LookedWell
    BY ShapeInit DEF SplitInv
  <2>1. Len(lifecycles) = 0 /\ looked = [q \in Requests |-> 0]
    BY DEF Init
  <2>2. \A q \in Requests : pc[q] # "absent"
    BY DEF Init
  <2> QED BY <2>1, <2>2 DEF LookedWell
<1>2. SplitInv /\ [Next]_vars => SplitInv'
  BY LookedStep
<1>3. SplitInv /\ [Next]_vars =>
        [\A n \in DOMAIN lifecycles' \ DOMAIN lifecycles, m \in DOMAIN lifecycles :
           (\E f \in LookupFields : lifecycles[m][f] # None /\ lifecycles[m][f] = lifecycles'[n][f])
             => \E q \in Requests : At(q, "absent") /\ ~At(q, "absent")' /\ looked[q] < m]_vars
  BY SplitStep
<1> QED BY <1>1, <1>2, <1>3, PTL DEF Spec, OnlyRacesSplit

\* Reconciliations are stored of the entry a request has just classified.
LEMMA RecsOfItem ==
  ASSUME NEW q \in Requests, Step(q)
  PROVE  \/ recs' = recs
         \/ /\ PersistReconciliation(q) /\ pc[q] = "reconciled" /\ UNCHANGED entries
            /\ \E x : recs' = recs \cup {x} /\ x.slot = Slot(q)
<1>1. CASE Analyze(q) \/ PersistMessage(q) \/ PersistReport(q) \/ Die(q) \/ FindLifecycle(q)
  BY <1>1 DEF Analyze, PersistMessage, PersistReport, Die, FindLifecycle, stored
<1>2. CASE CreateLifecycle(q) \/ AddEvent(q) \/ SetStatus(q)
  BY <1>2 DEF CreateLifecycle, AddEvent, SetStatus
<1>3. CASE FindEntry(q) \/ InsertEntry(q) \/ MarkTwin(q) \/ ConfirmEvent(q)
  BY <1>3 DEF FindEntry, InsertEntry, MarkTwin, ConfirmEvent, stored
<1>4. CASE FindLifecycleForEntry(q) \/ Reconcile(q) \/ AddLifecycleEvent(q)
  BY <1>4 DEF FindLifecycleForEntry, Reconcile, AddLifecycleEvent, stored
<1>5. CASE FindCase(q) \/ InsertCase(q)
  BY <1>5 DEF FindCase, InsertCase, stored
<1>6. CASE PersistReconciliation(q)
  <2> DEFINE x == [slot |-> Slot(q), life |-> life[q],
                   classification |-> Verdict(Current(q), life[q])]
  <2>1. recs' = recs \cup {x} /\ UNCHANGED entries /\ pc[q] = "reconciled"
    BY <1>6 DEF PersistReconciliation, At
  <2>2. x.slot = Slot(q)
    OBVIOUS
  <2> HIDE DEF x
  <2> QED BY <1>6, <2>1, <2>2
<1> QED BY <1>1, <1>2, <1>3, <1>4, <1>5, <1>6 DEF Step

\* The steps on the way to the reconciliation of a first entry.
LEMMA FirstEntry ==
  ASSUME Shape, NEW q \in Requests, Step(q)
  PROVE  /\ pc'[q] = "identified" =>
              /\ UNCHANGED <<entries, item>>
              /\ twin'[q] = None => Twins(q) = {}
         /\ pc'[q] = "inserted" => /\ InsertEntry(q) /\ pc[q] = "identified" /\ twin[q] = None
                                  /\ UNCHANGED <<item, recs>>
         /\ pc'[q] \in {"located", "reconciled"} =>
              pc[q] \in {"inserted", "located"} /\ UNCHANGED <<item, recs>>
<1> USE DEF At
<1>0. pc \in [Requests -> Steps] /\ twin \in [Requests -> AccountEntry \cup {None}]
  BY DEF Shape
<1>a. \A p : Goto(q, p) => pc'[q] = p
  BY <1>0 DEF Goto
<1>b. NextItem(q) => pc'[q] \in {"item", "done"}
  BY <1>a DEF NextItem
<1> HIDE DEF Goto, NextItem
<1> DEFINE Else == pc'[q] \notin {"identified", "inserted", "located", "reconciled"}
<1>1. CASE Analyze(q) \/ PersistMessage(q) \/ PersistReport(q) \/ Die(q)
  <2>1. Else
    BY <1>1, <1>a DEF Analyze, PersistMessage, PersistReport, Die
  <2> QED BY <2>1
<1>2. CASE FindLifecycle(q) \/ CreateLifecycle(q) \/ AddEvent(q) \/ SetStatus(q)
  <2>1. Else
    BY <1>2, <1>a, <1>b DEF FindLifecycle, CreateLifecycle, AddEvent, SetStatus
  <2> QED BY <2>1
<1>3. CASE FindEntry(q)
  <2>1. pc'[q] = "identified" /\ UNCHANGED <<entries, item>>
    BY <1>3, <1>a DEF FindEntry, stored
  <2>2. ASSUME NEW t \in Twins(q), twin' = [twin EXCEPT ![q] = entries[t]]
        PROVE  twin'[q] # None
    BY <1>0, <2>2 DEF Twins, EntrySlots
  <2>3. twin'[q] = None => Twins(q) = {}
    BY <1>3, <2>2 DEF FindEntry
  <2> QED BY <2>1, <2>3
<1>4. CASE InsertEntry(q)
  <2>1. /\ pc'[q] \in {"inserted", "repeated"} /\ pc[q] = "identified" /\ UNCHANGED <<item, recs>>
        /\ pc'[q] = "inserted" => twin[q] = None
    BY <1>4, <1>a DEF InsertEntry
  <2> QED BY <1>4, <2>1
<1>5. CASE MarkTwin(q) \/ ConfirmEvent(q) \/ PersistReconciliation(q)
  <2>1. Else
    BY <1>5, <1>a, <1>b DEF MarkTwin, ConfirmEvent, PersistReconciliation
  <2> QED BY <2>1
<1>6. CASE FindLifecycleForEntry(q) \/ Reconcile(q)
  <2>1. /\ pc'[q] \in {"located", "reconciled"} /\ pc[q] \in {"inserted", "located"}
        /\ UNCHANGED <<item, recs>>
    BY <1>6, <1>a DEF FindLifecycleForEntry, Reconcile, stored
  <2> QED BY <2>1
<1>7. CASE AddLifecycleEvent(q) \/ FindCase(q) \/ InsertCase(q)
  <2>1. Else
    BY <1>7, <1>a, <1>b DEF AddLifecycleEvent, FindCase, InsertCase
  <2> QED BY <2>1
<1> QED BY <1>1, <1>2, <1>3, <1>4, <1>5, <1>6, <1>7 DEF Step

\* An entry that was not there is the one a request inserts for its item.
LEMMA EntryAdded ==
  ASSUME Shape, NEW q \in Requests, Step(q), NEW s \in EntrySlots', s \notin EntrySlots
  PROVE  /\ pc[q] = "identified" /\ s = Slot(q)
         /\ entries'[s].identity = Identity(Current(q))
<1>1. s = Slot(q)
  BY EntryOfItem
<1>2. s \in Slots /\ entries'[s] # None /\ entries[s] = None
  BY DEF EntrySlots
<1>3. CASE UNCHANGED entries
  BY <1>2, <1>3
<1>4. CASE InsertEntry(q)
  <2>1. pc[q] = "identified"
    BY <1>4 DEF InsertEntry, At
  <2> QED BY <1>1, <1>4, <2>1, EntryInserted
<1>5. CASE MarkTwin(q) \/ Reconcile(q)
  <2>1. pc[q] \in Entered
    BY <1>5 DEF MarkTwin, Reconcile, At, Entered, EntrySteps
  <2>2. entries[Slot(q)] # None
    BY <2>1 DEF Shape
  <2> QED BY <1>1, <1>2, <2>2
<1> QED BY <1>3, <1>4, <1>5, EntriesWritten

\* What one request inserts is not what another has just looked for.
LEMMA UnknownStays ==
  ASSUME EntriesApart, EntryInv, StillUnknown, NEW q \in Requests, Step(q),
         NEW r \in Requests, pc'[r] = "identified", twin'[r] = None
  PROVE  Twins(r)' = {}
<1>0. Shape
  BY DEF EntryInv
<1>1. CASE r = q
  <2>1. UNCHANGED <<entries, item>> /\ Twins(q) = {}
    BY <1>0, <1>1, FirstEntry
  <2> QED BY <1>1, <2>1 DEF Twins, EntrySlots, Current
<1>2. CASE r # q
  <2>1. pc[r] = "identified" /\ twin[r] = None /\ Current(r)' = Current(r)
    BY <1>0, <1>2, OthersStay
  <2>2. \A s \in EntrySlots : entries[s].identity # Identity(Current(r))
    BY <2>1 DEF StillUnknown, Twins
  <2>3. ASSUME NEW s \in EntrySlots' PROVE entries'[s].identity # Identity(Current(r))
    <3>1. CASE s \in EntrySlots
      BY <2>2, <3>1, EntriesStay
    <3>2. CASE s \notin EntrySlots
      <4>1. pc[q] = "identified" /\ entries'[s].identity = Identity(Current(q))
        BY <1>0, <3>2, EntryAdded
      <4> QED BY <1>2, <2>1, <4>1 DEF EntriesApart
    <3> QED BY <3>1, <3>2
  <2>4. Identity(Current(r))' = Identity(Current(r))
    BY <2>1 DEF Identity
  <2> QED BY <2>3, <2>4 DEF Twins
<1> QED BY <1>1, <1>2

\* A first entry was one before the step, or was inserted by a request that
\* had found no other.
LEMMA FirstsCome ==
  ASSUME EntryInv, NEW q \in Requests, Step(q), NEW r \in Requests, First(r)'
  PROVE  /\ Slot(r)' = Slot(r)
         /\ \/ /\ First(r) /\ Slot(r) \in EntrySlots
               /\ entries'[Slot(r)].identity = entries[Slot(r)].identity
            \/ /\ r = q /\ pc[q] = "identified" /\ twin[q] = None /\ UNCHANGED recs
               /\ entries'[Slot(q)].identity = Identity(Current(q))
<1>0. Shape
  BY DEF EntryInv
<1>1. ASSUME First(r)
      PROVE  Slot(r) \in EntrySlots /\ entries'[Slot(r)].identity = entries[Slot(r)].identity
  <2>1. pc[r] \in Entered
    BY <1>1 DEF First, Entered, EntrySteps
  <2>2. Slot(r) \in EntrySlots
    BY <1>0, <2>1, OwnEntry DEF EntrySlots, Shape
  <2> QED BY <2>2, EntriesStay
<1>2. CASE r # q
  BY <1>0, <1>1, <1>2, OthersStay DEF First
<1>3. CASE r = q /\ pc'[q] = "inserted"
  <2>1. /\ InsertEntry(q) /\ pc[q] = "identified" /\ twin[q] = None
        /\ UNCHANGED <<item, recs>>
    BY <1>0, <1>3, FirstEntry
  <2> QED BY <1>0, <1>3, <2>1, EntryInserted DEF Slot
<1>4. CASE r = q /\ pc'[q] \in {"located", "reconciled"}
  <2>1. pc[q] \in {"inserted", "located"} /\ UNCHANGED item
    BY <1>0, <1>4, FirstEntry
  <2> QED BY <1>1, <1>4, <2>1 DEF First, Slot
<1> QED BY <1>2, <1>3, <1>4 DEF First

\* An entry without a twin is the first of its identity: those on the way to
\* their reconciliation stay apart.
LEMMA FirstsStayApart ==
  ASSUME EntryInv, StillUnknown, FirstsApart, \A x \in recs : x.slot \in EntrySlots,
         NEW q \in Requests, Step(q)
  PROVE  FirstsApart'
<1>0. Shape
  BY DEF EntryInv
<1>1. pc[q] = "identified" /\ twin[q] = None =>
        \A s \in EntrySlots : entries[s].identity # Identity(Current(q))
  BY DEF StillUnknown, Twins
<1>2. ASSUME NEW r \in Requests, NEW t \in Requests, First(r)', First(t)', r # t
      PROVE  entries'[Slot(r)'].identity # entries'[Slot(t)'].identity
  <2>1. First(r) /\ First(t) => entries[Slot(r)].identity # entries[Slot(t)].identity
    BY <1>2 DEF FirstsApart
  <2> QED BY <1>1, <1>2, <2>1, FirstsCome
<1>3. ASSUME NEW r \in Requests, First(r)', NEW x \in recs'
      PROVE  entries'[x.slot].identity # entries'[Slot(r)'].identity
  <2>1. CASE x \in recs
    <3>1. x.slot \in EntrySlots /\ entries'[x.slot].identity = entries[x.slot].identity
      BY <2>1, EntriesStay
    <3>2. First(r) => entries[x.slot].identity # entries[Slot(r)].identity
      BY <2>1 DEF FirstsApart
    <3> QED BY <1>1, <1>3, <3>1, <3>2, FirstsCome
  <2>2. CASE x \notin recs
    <3>1. pc[q] = "reconciled" /\ UNCHANGED entries /\ x.slot = Slot(q)
      BY <1>3, <2>2, RecsOfItem
    <3>2. r # q
      BY <1>0, <1>3, <2>2, <3>1, FirstEntry DEF First
    <3>3. First(r) /\ First(q) /\ Slot(r)' = Slot(r)
      BY <1>3, <3>1, <3>2, FirstsCome DEF First
    <3>4. entries[Slot(q)].identity # entries[Slot(r)].identity
      BY <3>2, <3>3 DEF FirstsApart
    <3> QED BY <3>1, <3>3, <3>4
  <2> QED BY <2>1, <2>2
<1> QED BY <1>2, <1>3 DEF FirstsApart

\* Without the race, an account event is reconciled once.
LEMMA ReconciledStep == ASSUME EntriesApart, ReconciledInv, [Next]_vars PROVE ReconciledInv'
<1>0. /\ EntryInv /\ EntryInv' /\ Shape /\ StillUnknown /\ FirstsApart /\ ReconciledOnce
      /\ \A r \in recs : r.slot \in EntrySlots
  BY EntryStep DEF ReconciledInv, EntryInv
<1>1. CASE Next
  <2>1. PICK q \in Requests : Step(q)
    BY <1>1, StepOfOne
  <2>2. StillUnknown'
    BY <1>0, <2>1, UnknownStays DEF StillUnknown
  <2>3. FirstsApart'
    BY <1>0, <2>1, FirstsStayApart
  <2>4. \A s \in EntrySlots : s \in EntrySlots' /\ entries'[s].identity = entries[s].identity
    BY <1>0, <2>1, EntriesStay
  <2>5. \A r, t \in recs : entries[r.slot].identity = entries[t.slot].identity => r = t
    BY <1>0 DEF ReconciledOnce
  <2>6. CASE recs' = recs
    <3>1. ReconciledOnce' /\ \A r \in recs' : r.slot \in EntrySlots'
      BY <1>0, <2>4, <2>5, <2>6 DEF ReconciledOnce
    <3> QED BY <1>0, <2>2, <2>3, <3>1 DEF ReconciledInv
  <2>7. CASE pc[q] = "reconciled" /\ \E x : recs' = recs \cup {x} /\ x.slot = Slot(q)
    <3>1. PICK x : recs' = recs \cup {x} /\ x.slot = Slot(q)
      BY <2>7
    <3>2. Slot(q) \in EntrySlots
      <4>1. pc[q] \in Entered
        BY <2>7 DEF Entered, EntrySteps
      <4> QED BY <1>0, <4>1, OwnEntry DEF EntrySlots, Shape
    <3>3. \A r \in recs : entries[r.slot].identity # entries[x.slot].identity
      BY <1>0, <2>7, <3>1 DEF FirstsApart, First
    <3>4. \A r \in recs' : r.slot \in EntrySlots
      BY <1>0, <3>1, <3>2
    <3>5. ReconciledOnce'
      BY <2>4, <2>5, <3>1, <3>3, <3>4 DEF ReconciledOnce
    <3> QED BY <1>0, <2>2, <2>3, <2>4, <3>4, <3>5 DEF ReconciledInv
  <2> QED BY <2>1, <2>6, <2>7, RecsOfItem
<1>2. CASE UNCHANGED vars
  <2>1. UNCHANGED <<entries, recs, pc, item, twin>>
    BY <1>2 DEF vars, stored, session
  <2> QED BY <1>0, <2>1 DEF ReconciledInv, StillUnknown, FirstsApart, First, Twins, EntrySlots,
            Slot, Current, ReconciledOnce
<1> QED BY <1>1, <1>2

\* However many requests are under way, an account event is reconciled against
\* the payments once, in whichever reports it comes, unless two requests look for
\* it before either inserts it: _ingest_entry looks for the identity hash before
\* it inserts the entry, and reconciles only an entry that has no twin.
THEOREM ReconciledOnceUnlessRaced == Spec /\ []EntriesApart => []ReconciledOnce
<1>1. Init => ReconciledInv
  <2> SUFFICES ASSUME Init PROVE ReconciledInv
    OBVIOUS
  <2>1. recs = {} /\ \A q \in Requests : pc[q] = "new"
    BY DEF Init
  <2> QED BY <2>1, EntryInit DEF ReconciledInv, ReconciledOnce, StillUnknown, FirstsApart, First
<1>2. EntriesApart /\ ReconciledInv /\ [Next]_vars => ReconciledInv'
  BY ReconciledStep
<1>3. ReconciledInv => ReconciledOnce
  BY DEF ReconciledInv
<1> QED BY <1>1, <1>2, <1>3, PTL DEF Spec

-----------------------------------------------------------------------------
(* One request at a time: a single worker, clients that wait.               *)

-----------------------------------------------------------------------------
(* The sweeps.                                                              *)

\* The ingestion goes on under the sweeps as it does without them.
LEMMA SweptStep ==
  ASSUME [NextMonitored]_<<vars, sweepVars>>
  PROVE  [Next]_vars
<1>1. CASE NextMonitored
  BY <1>1 DEF NextMonitored, SelectAccepted, FindAccountEvent, FindMissingCase,
     InsertMissingCase, Answer
<1> QED BY <1>1

\* A lifecycle that has an account entry keeps it.
LEMMA WithEntryGrows == ASSUME EntryInv, [Next]_vars PROVE WithEntry \subseteq WithEntry'
<1>1. CASE Next
  <2>1. PICK q \in Requests : Step(q)
    BY <1>1, StepOfOne
  <2> SUFFICES ASSUME NEW n \in WithEntry PROVE n \in WithEntry'
    OBVIOUS
  <2>2. PICK s \in EntrySlots : n = entries[s].life /\ n # 0
    BY DEF WithEntry
  <2>3. s \in EntrySlots' /\ entries'[s].life = n
    BY <2>1, <2>2, EntriesStay
  <2> QED BY <2>2, <2>3 DEF WithEntry
<1>2. CASE UNCHANGED vars
  <2>1. UNCHANGED entries
    BY <1>2 DEF vars, stored
  <2> QED BY <2>1 DEF WithEntry, EntrySlots
<1> QED BY <1>1, <1>2

\* The links of entries are numbers of lifecycles.
LEMMA LinksAreNumbers == ASSUME Shape PROVE WithEntry \subseteq Nat
BY DEF WithEntry, EntrySlots, Shape, AccountEntry

\* What others do leaves a sweep as right as it was.
LEMMA SweptStays ==
  ASSUME NEW w \in Sweeps, Swept(w), missing \subseteq missing', WithEntry \subseteq WithEntry',
         sweep'[w] = sweep[w], selected'[w] = selected[w], todo'[w] = todo[w],
         subject'[w] = subject[w], onFile'[w] = onFile[w]
  PROVE  Swept(w)'
BY DEF Swept

\* A sweep goes through what it selected without losing a payment.
LEMMA OwnSweep ==
  ASSUME Shape, SweepShape, NEW w \in Sweeps, Swept(w),
         \/ SelectAccepted(w) \/ FindAccountEvent(w) \/ FindMissingCase(w)
         \/ InsertMissingCase(w) \/ Answer(w)
  PROVE  /\ SweepShape' /\ Swept(w)' /\ missing \subseteq missing' /\ UNCHANGED vars
         /\ \A v \in Sweeps : v # w =>
              /\ sweep'[v] = sweep[v] /\ selected'[v] = selected[v] /\ todo'[v] = todo[v]
              /\ subject'[v] = subject[v] /\ onFile'[v] = onFile[v]
<1>0. /\ sweep \in [Sweeps -> {"new", "loop", "unseen", "caseless", "ended"}]
      /\ missing \subseteq Nat /\ selected \in [Sweeps -> SUBSET Nat]
      /\ todo \in [Sweeps -> SUBSET Nat] /\ subject \in [Sweeps -> Nat]
      /\ onFile \in [Sweeps -> SUBSET Nat]
  BY DEF SweepShape
<1>a. UNCHANGED vars /\ WithEntry' = WithEntry
  <2>1. UNCHANGED vars
    BY DEF SelectAccepted, FindAccountEvent, FindMissingCase, InsertMissingCase, Answer
  <2> QED BY <2>1 DEF vars, stored, WithEntry, EntrySlots
<1>b. /\ todo[w] \subseteq selected[w] /\ onFile[w] \subseteq WithEntry
      /\ sweep[w] \in {"unseen", "caseless"} => subject[w] \in selected[w] \ onFile[w]
      /\ \A n \in selected[w] \ todo[w] :
           n \in missing \cup WithEntry
             \/ (sweep[w] \in {"unseen", "caseless"} /\ n = subject[w])
  BY DEF Swept
<1> HIDE DEF WithEntry
<1>1. CASE SelectAccepted(w)
  <2>1. UNCHANGED <<missing, subject>> /\ sweep[w] = "new"
    BY <1>1 DEF SelectAccepted
  <2>2. CASE sweep' = [sweep EXCEPT ![w] = "ended"] /\ UNCHANGED <<selected, todo, onFile>>
    BY <1>0, <1>a, <1>b, <2>1, <2>2 DEF SweepShape, Swept
  <2>3. ASSUME NEW old, old \subseteq Nat, sweep' = [sweep EXCEPT ![w] = "loop"],
               selected' = [selected EXCEPT ![w] = old], todo' = [todo EXCEPT ![w] = old],
               onFile' = [onFile EXCEPT ![w] = WithEntry], WithEntry \subseteq Nat
        PROVE  /\ SweepShape' /\ Swept(w)'
               /\ \A v \in Sweeps : v # w =>
                    /\ sweep'[v] = sweep[v] /\ selected'[v] = selected[v] /\ todo'[v] = todo[v]
                    /\ subject'[v] = subject[v] /\ onFile'[v] = onFile[v]
    BY <1>0, <1>a, <2>1, <2>3 DEF SweepShape, Swept
  <2>4. \/ sweep' = [sweep EXCEPT ![w] = "ended"] /\ UNCHANGED <<selected, todo, onFile>>
        \/ \E old : /\ old \subseteq Nat /\ sweep' = [sweep EXCEPT ![w] = "loop"]
                    /\ selected' = [selected EXCEPT ![w] = old] /\ todo' = [todo EXCEPT ![w] = old]
                    /\ onFile' = [onFile EXCEPT ![w] = WithEntry]
    <3>1. PICK n \in 0 .. Len(lifecycles) :
            LET old == {m \in 1 .. n : lifecycles[m].status = "ACCEPTED"} IN
            IF old = {}
            THEN SweepTo(w, "ended") /\ UNCHANGED <<selected, todo, onFile>>
            ELSE /\ SweepTo(w, "loop")
                 /\ selected' = [selected EXCEPT ![w] = old]
                 /\ todo' = [todo EXCEPT ![w] = old]
                 /\ onFile' = [onFile EXCEPT ![w] = WithEntry]
      BY <1>1 DEF SelectAccepted
    <3> DEFINE old == {m \in 1 .. n : lifecycles[m].status = "ACCEPTED"}
    <3>2. old \subseteq Nat
      OBVIOUS
    <3> HIDE DEF old
    <3> QED BY <3>1, <3>2 DEF SweepTo, old
  <2> QED BY <1>0, <1>a, <2>1, <2>2, <2>3, <2>4, LinksAreNumbers
<1>2. CASE FindAccountEvent(w)
  <2>1. UNCHANGED <<missing, selected, onFile>> /\ sweep[w] = "loop"
    BY <1>2 DEF FindAccountEvent
  <2>2. PICK n \in todo[w] :
          /\ todo' = [todo EXCEPT ![w] = @ \ {n}]
          /\ IF n \in WithEntry THEN UNCHANGED <<sweep, subject>>
             ELSE subject' = [subject EXCEPT ![w] = n] /\ sweep' = [sweep EXCEPT ![w] = "unseen"]
    BY <1>2 DEF FindAccountEvent, SweepTo
  <2>3. n \in Nat /\ n \in selected[w]
    BY <1>0, <1>b, <2>2
  <2>4. CASE n \in WithEntry
    BY <1>0, <1>a, <1>b, <2>1, <2>2, <2>3, <2>4 DEF SweepShape, Swept
  <2>5. CASE n \notin WithEntry
    BY <1>0, <1>a, <1>b, <2>1, <2>2, <2>3, <2>5 DEF SweepShape, Swept
  <2> QED BY <2>4, <2>5
<1>3. CASE FindMissingCase(w)
  <2>1. /\ UNCHANGED <<missing, selected, todo, subject, onFile>> /\ sweep[w] = "unseen"
        /\ sweep' = [sweep EXCEPT ![w] = IF subject[w] \in missing THEN "loop" ELSE "caseless"]
    BY <1>3 DEF FindMissingCase, SweepTo
  <2> QED BY <1>0, <1>a, <1>b, <2>1 DEF SweepShape, Swept
<1>4. CASE InsertMissingCase(w) \/ Answer(w)
  <2>1. CASE Leave(w)
    <3>1. missing' = missing \/ missing' = missing \cup {subject[w]}
      BY <1>4 DEF InsertMissingCase, Answer
    <3> QED BY <1>0, <1>a, <1>b, <2>1, <3>1 DEF SweepShape, Swept, Leave, SweepTo
  <2>2. CASE ~Leave(w)
    <3>1. /\ missing' = missing \cup {subject[w]} /\ UNCHANGED <<selected, todo, subject, onFile>>
          /\ sweep' = [sweep EXCEPT ![w] = "loop"]
      BY <1>4, <2>2 DEF InsertMissingCase, Answer, SweepTo
    <3> QED BY <1>0, <1>a, <1>b, <3>1 DEF SweepShape, Swept
  <2> QED BY <2>1, <2>2
<1> QED BY <1>1, <1>2, <1>3, <1>4

\* Every step keeps the sweeps right.
LEMMA SweepStep == ASSUME SweepInv, [NextMonitored]_<<vars, sweepVars>> PROVE SweepInv'
<1>1. EntryInv /\ EntryInv' /\ Shape /\ SweepShape
  BY SweptStep, EntryStep DEF SweepInv, EntryInv
<1>2. WithEntry \subseteq WithEntry'
  BY <1>1, SweptStep, WithEntryGrows
<1>3. CASE UNCHANGED sweepVars
  <2>1. UNCHANGED <<missing, sweep, selected, todo, subject, onFile>>
    BY <1>3 DEF sweepVars
  <2>2. \A w \in Sweeps : Swept(w)'
    BY <1>2, <2>1, SweptStays DEF SweepInv
  <2> QED BY <1>1, <2>1, <2>2 DEF SweepInv, SweepShape
<1>4. ASSUME NEW w \in Sweeps,
             \/ SelectAccepted(w) \/ FindAccountEvent(w) \/ FindMissingCase(w)
             \/ InsertMissingCase(w) \/ Answer(w)
      PROVE  SweepInv'
  <2>1. Swept(w)
    BY DEF SweepInv
  <2>2. /\ SweepShape' /\ Swept(w)' /\ missing \subseteq missing'
        /\ \A v \in Sweeps : v # w =>
             /\ sweep'[v] = sweep[v] /\ selected'[v] = selected[v] /\ todo'[v] = todo[v]
             /\ subject'[v] = subject[v] /\ onFile'[v] = onFile[v]
    BY <1>1, <1>4, <2>1, OwnSweep
  <2>3. \A v \in Sweeps : v # w => Swept(v)'
    BY <1>2, <2>2, SweptStays DEF SweepInv
  <2> QED BY <1>1, <2>2, <2>3 DEF SweepInv
<1> QED BY <1>3, <1>4 DEF NextMonitored

\* With requests under way and dying beside them, sweeps miss no payment they
\* selected and open no case for one that had its event: detect_missing_account_events
\* looks for any entry of the lifecycle first, and no entry loses its link.
THEOREM MissingIsMissingAlways == SpecMonitored => MissingIsMissing
<1>1. InitMonitored => SweepInv
  <2> SUFFICES ASSUME InitMonitored PROVE SweepInv
    OBVIOUS
  <2>1. SweepShape /\ \A w \in Sweeps : Swept(w)
    BY DEF InitMonitored, SweepShape, Swept
  <2> QED BY <2>1, EntryInit DEF InitMonitored, SweepInv
<1>2. SweepInv /\ [NextMonitored]_<<vars, sweepVars>> => SweepInv'
  BY SweepStep
<1>3. SweepInv =>
        [\A w \in Sweeps :
           /\ Answer(w) => selected[w] \subseteq missing \cup WithEntry
           /\ InsertMissingCase(w) => missing' \ missing \subseteq selected[w] \ onFile[w]
        ]_<<vars, sweepVars>>
  <2> SUFFICES ASSUME SweepInv, NEW w \in Sweeps
               PROVE  /\ Answer(w) => selected[w] \subseteq missing \cup WithEntry
                      /\ InsertMissingCase(w) => missing' \ missing \subseteq selected[w] \ onFile[w]
    OBVIOUS
  <2>1. Swept(w)
    BY DEF SweepInv
  <2>2. Answer(w) => selected[w] \subseteq missing \cup WithEntry
    BY <2>1 DEF Answer, Swept
  <2>3. InsertMissingCase(w) => missing' \ missing \subseteq selected[w] \ onFile[w]
    BY <2>1 DEF InsertMissingCase, Swept
  <2> QED BY <2>2, <2>3
<1> QED BY <1>1, <1>2, <1>3, PTL DEF SpecMonitored, MissingIsMissing

\* The sweeps add nothing to what the requests do: whatever is proved of the
\* ingestion holds beside them.
THEOREM MonitoredIngests == SpecMonitored => Spec
<1>1. InitMonitored => Init
  BY DEF InitMonitored
<1>2. [NextMonitored]_<<vars, sweepVars>> => [Next]_vars
  BY SweptStep
<1> QED BY <1>1, <1>2, PTL DEF SpecMonitored, Spec
=============================================================================
