--------------------------- MODULE EvaluationProofs ---------------------------
(***************************************************************************)
(* Proofs about the deterministic algorithms: the classification of an     *)
(* account entry (AccountRules), the verdict on a pair of match records    *)
(* (MatchingEngine) and the mapping of a record (MappingEngine), each for  *)
(* every input, and of the questions that MC_Evaluation asks.              *)
(*                                                                         *)
(* The sums and the folds of the community modules are recursive           *)
(* functions.  What is proved of them is proved by induction, on the       *)
(* numbers and on the subsets of a finite set, as a fact about the set of  *)
(* those of which it holds.                                                *)
(***************************************************************************)
EXTENDS MC_Evaluation, FiniteSetTheorems, WellFoundedInduction, TLAPS

\* What ReconciledExactlyWhenSafe asks of one entry: it agrees with the
\* lifecycle on a strong identifier, the amount and the currency, disagrees on
\* no identifier,
Identified(entry, life) ==
  /\ \E f \in {"transaction_id", "end_to_end_id", "uetr", "instruction_id"} :
       Agree("id", entry[f], life[f])
  /\ \A f \in IdFields : ~Disagree("id", entry[f], life[f])
  /\ entry.amount # None /\ entry.amount = life.amount
  /\ Agree("currency", entry.currency, life.currency)

\* and its account and direction are those of one side of the payment, or not
\* known.
RightSide(entry, account, life) ==
  LET credited == Agree("account", account, life.creditor_account)
      debited == Agree("account", account, life.debtor_account)
  IN  \/ credited /\ entry.credit_debit \in {"CRDT", None}
      \/ debited /\ ~credited /\ entry.credit_debit \in {"DBIT", None}
      \/ /\ ~credited /\ ~debited
         /\ None \in {account, life.creditor_account, life.debtor_account}

-----------------------------------------------------------------------------
(* The evidence and the conflicts, one by one.                              *)

\* An entry is RECONCILED exactly when nothing conflicts and a strong
\* identifier, the amount and the currency are evidence.
LEMMA ReconciledVerdict ==
  ASSUME NEW evidence, NEW conflicts
  PROVE  Classify(evidence, conflicts) = "RECONCILED" <=>
           /\ conflicts = {}
           /\ evidence \cap StrongIds # {} /\ "amount" \in evidence /\ "currency" \in evidence
BY DEF Classify, ClassOfConflicts, ClassOfEvidence

\* What is evidence.
LEMMA EvidenceFound ==
  ASSUME NEW entry, NEW life
  PROVE  /\ Evidence(entry, life) \cap StrongIds # {} <=>
              \E f \in {"transaction_id", "end_to_end_id", "uetr", "instruction_id"} :
                Agree("id", entry[f], life[f])
         /\ "amount" \in Evidence(entry, life) <=>
              Both(entry.amount, life.amount) /\ entry.amount = life.amount
         /\ "currency" \in Evidence(entry, life) <=> Agree("currency", entry.currency, life.currency)
<1>1. StrongIds = {"transaction_id", "end_to_end_id", "uetr", "instruction_id"}
  BY DEF StrongIds, IdFields
<1>2. \A f \in StrongIds : f \in Evidence(entry, life) <=> Agree("id", entry[f], life[f])
  BY DEF Evidence, StrongIds, IdFields, Same, Both, Agree
<1>3. "currency" \in Evidence(entry, life) <=> Agree("currency", entry.currency, life.currency)
  BY DEF Evidence, IdFields, Same, Both, Agree
<1>4. "amount" \in Evidence(entry, life) <=>
        Both(entry.amount, life.amount) /\ entry.amount = life.amount
  BY DEF Evidence, IdFields
<1> QED BY <1>1, <1>2, <1>3, <1>4

\* No direction or account conflicts exactly on the right side of the payment.
LEMMA NoConflict ==
  ASSUME NEW entry, NEW account, NEW life
  PROVE  Conflicts(entry, account, life) = {} <=>
           /\ \A f \in IdFields : ~Disagree("id", entry[f], life[f])
           /\ ~(Both(entry.amount, life.amount) /\ entry.amount # life.amount)
           /\ ~Disagree("currency", entry.currency, life.currency)
           /\ RightSide(entry, account, life)
<1> DEFINE expected == ExpectedDirection(account, life)
           directed == Both(expected, entry.credit_debit)
           misdirected == directed /\ entry.credit_debit # expected
           stranger == /\ ~directed
                       /\ Both(account, life.creditor_account)
                       /\ Both(account, life.debtor_account)
                       /\ ~Same("account", account, life.creditor_account)
                       /\ ~Same("account", account, life.debtor_account)
<1>1. Conflicts(entry, account, life) = {} <=>
        /\ ~\E f \in IdFields : Both(entry[f], life[f]) /\ ~Same("id", entry[f], life[f])
        /\ ~(Both(entry.amount, life.amount) /\ entry.amount # life.amount)
        /\ ~(/\ Both(entry.currency, life.currency)
             /\ ~Same("currency", entry.currency, life.currency))
        /\ ~misdirected /\ ~stranger
  BY DEF Conflicts
<1>2. \A k, a, b : /\ Both(a, b) /\ ~Same(k, a, b) <=> Disagree(k, a, b)
                   /\ Same(k, a, b) <=> Agree(k, a, b)
  BY DEF Both, Same, Agree, Disagree
<1>3. ~misdirected /\ ~stranger <=> RightSide(entry, account, life)
  <2> DEFINE credited == Agree("account", account, life.creditor_account)
             debited == Agree("account", account, life.debtor_account)
             d == entry.credit_debit
  <2>1. expected = IF credited THEN "CRDT" ELSE IF debited THEN "DBIT" ELSE None
    BY <1>2 DEF ExpectedDirection
  <2>2. RightSide(entry, account, life) <=>
          \/ credited /\ d \in {"CRDT", None}
          \/ debited /\ d \in {"DBIT", None} /\ ~credited
          \/ ~credited /\ ~debited /\ None \in {account, life.creditor_account, life.debtor_account}
    BY DEF RightSide
  <2>3. stranger <=> /\ ~directed /\ ~credited /\ ~debited
                     /\ None \notin {account, life.creditor_account, life.debtor_account}
    BY <1>2 DEF Both, Agree
  <2> HIDE DEF credited, debited, stranger
  <2>4. CASE credited
    BY <2>1, <2>2, <2>3, <2>4, DirectionsAreValues DEF Both
  <2>5. CASE ~credited /\ debited
    BY <2>1, <2>2, <2>3, <2>5, DirectionsAreValues DEF Both
  <2>6. CASE ~credited /\ ~debited
    BY <2>1, <2>2, <2>3, <2>6 DEF Both
  <2> QED BY <2>4, <2>5, <2>6
<1> HIDE DEF misdirected, stranger
<1> QED BY <1>1, <1>2, <1>3

-----------------------------------------------------------------------------
(* Every entry, every lifecycle.                                            *)

\* reconciliation.py, "Critical conflicts never auto-reconcile", for values of
\* any kind and number: nothing else is held back, and nothing else gets
\* through.
THEOREM ReconciledIffSafe ==
  ASSUME NEW entry, NEW account, NEW life
  PROVE  ReconcileEntry(entry, account, life) = "RECONCILED" <=>
           Identified(entry, life) /\ RightSide(entry, account, life)
<1> DEFINE e == Evidence(entry, life)
           c == Conflicts(entry, account, life)
<1>1. ReconcileEntry(entry, account, life) = "RECONCILED" <=>
        /\ c = {} /\ e \cap StrongIds # {} /\ "amount" \in e /\ "currency" \in e
  BY ReconciledVerdict DEF ReconcileEntry
<1> HIDE DEF e, c
<1>2. c = {} <=> /\ \A f \in IdFields : ~Disagree("id", entry[f], life[f])
                 /\ ~(Both(entry.amount, life.amount) /\ entry.amount # life.amount)
                 /\ ~Disagree("currency", entry.currency, life.currency)
                 /\ RightSide(entry, account, life)
  BY NoConflict DEF c
<1>3. /\ e \cap StrongIds # {} <=>
           \E f \in {"transaction_id", "end_to_end_id", "uetr", "instruction_id"} :
             Agree("id", entry[f], life[f])
      /\ "amount" \in e <=> Both(entry.amount, life.amount) /\ entry.amount = life.amount
      /\ "currency" \in e <=> Agree("currency", entry.currency, life.currency)
  BY EvidenceFound DEF e
<1>4. Both(entry.amount, life.amount) /\ entry.amount = life.amount
        <=> entry.amount # None /\ entry.amount = life.amount
  BY DEF Both
<1>5. Agree("currency", entry.currency, life.currency)
        => ~Disagree("currency", entry.currency, life.currency)
  BY DEF Agree, Disagree
<1> QED BY <1>1, <1>2, <1>3, <1>4, <1>5 DEF Identified

\* The answer given is the answer to the question asked.
Truthful == answer # None => answer = Answer(question)

\* The same of the answers of MC_Evaluation.
THEOREM ReconciledExactlyWhenSafeAlways == Spec => []ReconciledExactlyWhenSafe
<1>1. Init => Truthful
  BY DEF Init, Truthful
<1>2. Truthful /\ [Evaluate]_vars => Truthful'
  BY DEF Truthful, Evaluate, vars, Answer
<1>3. Truthful => ReconciledExactlyWhenSafe
  <2> SUFFICES ASSUME Truthful, Answered("account") PROVE ReconciledExactlyWhenSafe
    BY DEF ReconciledExactlyWhenSafe
  <2>1. answer = ReconcileEntry(question.entry, question.account, question.life)
    BY DEF Truthful, Answered, Answer
  <2> QED BY <2>1, ReconciledIffSafe DEF ReconciledExactlyWhenSafe, Identified, RightSide
<1> QED BY <1>1, <1>2, <1>3, PTL DEF Spec

-----------------------------------------------------------------------------
(* Induction.                                                               *)

\* The order of the natural numbers, as a set of pairs.
Descends == {p \in Nat \X Nat : p[1] < p[2]}

\* A set of natural numbers that has 0, and with a number the next one, has all.
LEMMA InductionOverNat ==
  ASSUME NEW Held, Held \subseteq Nat, 0 \in Held, \A n \in Held : n + 1 \in Held
  PROVE  Held = Nat
<1> SUFFICES ASSUME Nat \ Held # {} PROVE FALSE
  OBVIOUS
<1>1. IsWellFoundedOn(Descends, Nat)
  BY Zenon, NatLessThanWellFounded DEF OpToRel, Descends
<1>2. PICK n \in Nat \ Held : \A m \in Nat \ Held : ~(<<m, n>> \in Descends)
  <2>1. Nat \ Held \subseteq Nat
    OBVIOUS
  <2> QED BY <1>1, <2>1, WFMin
<1>3. n - 1 \in Nat /\ n - 1 \notin Held
  <2>1. n # 0
    OBVIOUS
  <2>2. n - 1 \in Nat /\ (n - 1) + 1 = n
    BY <2>1
  <2> QED BY <2>2
<1>4. <<n - 1, n>> \in Descends
  BY <1>3 DEF Descends
<1> QED BY <1>2, <1>3, <1>4

\* A set of subsets of a finite set that has every subset whose proper subsets
\* it has, has all.
LEMMA InductionOverSubsets ==
  ASSUME NEW S, IsFiniteSet(S), NEW Held, Held \subseteq SUBSET S,
         \A s \in SUBSET S : (\A r \in SUBSET s : r # s => r \in Held) => s \in Held
  PROVE  Held = SUBSET S
<1> DEFINE Rest == (SUBSET S) \ Held
<1> SUFFICES ASSUME Rest # {} PROVE FALSE
  OBVIOUS
<1>1. IsWellFoundedOn(StrictSubsetOrdering(S), SUBSET S)
  <2>1. IsWellFoundedOn(StrictSubsetOrdering(S), FiniteSubsetsOf(S))
    BY FS_StrictSubsetOrderingWellFounded, Zenon
  <2>2. FiniteSubsetsOf(S) = SUBSET S
    BY FS_FiniteSubsetsOfFinite, Zenon
  <2> QED BY <2>1, <2>2, Zenon
<1>2. Rest \subseteq SUBSET S
  OBVIOUS
<1> DEFINE Order == StrictSubsetOrdering(S)
           Whole == SUBSET S
<1> HIDE DEF Rest
<1>3. \E s \in Rest : \A r \in Rest : ~(<<r, s>> \in Order)
  <2> HIDE DEF Order, Whole
  <2>1. IsWellFoundedOn(Order, Whole) /\ Rest \subseteq Whole
    BY <1>1, <1>2 DEF Order, Whole
  <2> QED BY <2>1, WFMin
<1>4. PICK s \in Rest : \A r \in Rest : ~(<<r, s>> \in Order)
  BY <1>3
<1>5. ASSUME NEW r \in SUBSET s, r # s PROVE r \in Held
  <2>1. r \in SUBSET S /\ s \in SUBSET S
    BY <1>2, <1>4
  <2>2. <<r, s>> \in Order
    BY <1>5, <2>1 DEF StrictSubsetOrdering
  <2> QED BY <1>4, <2>1, <2>2 DEF Order, Rest
<1> QED BY <1>4, <1>5 DEF Rest

-----------------------------------------------------------------------------
(* Sums.                                                                    *)

\* The element that a sum over a set begins with.
Pick(s) == CHOOSE x \in s : TRUE

\* What the recursion under a sum asks of the function it defines.
Recurs(w, P, g) ==
  g = [s \in P |-> IF s = {} THEN 0 ELSE w[Pick(s)] + g[s \ {Pick(s)}]]

\* The sums of all parts of S.
IsSum(w, S, g) == Recurs(w, SUBSET S, g)

\* The parts of S with up to n elements.
Small(S, n) == {s \in SUBSET S : Cardinality(s) <= n}

\* To pick an element leaves a smaller set.
LEMMA Shrinks ==
  ASSUME NEW S, IsFiniteSet(S), NEW s \in SUBSET S
  PROVE  /\ Cardinality(s) \in Nat /\ (Cardinality(s) = 0 <=> s = {})
         /\ s # {} => Pick(s) \in s /\ Cardinality(s \ {Pick(s)}) = Cardinality(s) - 1
<1>1. IsFiniteSet(s)
  BY FS_Subset
<1>2. s # {} => Pick(s) \in s
  BY DEF Pick
<1> QED BY <1>1, <1>2, FS_CardinalityType, FS_EmptySet, FS_RemoveElement

\* There is a function as the recursion asks for one.
LEMMA SumExists ==
  ASSUME NEW w, NEW S, IsFiniteSet(S)
  PROVE  \E g : Recurs(w, SUBSET S, g)
<1> DEFINE Held == {n \in Nat : \E g : Recurs(w, Small(S, n), g)}
<1>1. 0 \in Held
  <2>1. Small(S, 0) = {{}}
    <3>1. ASSUME NEW s \in SUBSET S PROVE Cardinality(s) <= 0 <=> s = {}
      <4>1. Cardinality(s) \in Nat /\ (Cardinality(s) = 0 <=> s = {})
        BY Shrinks
      <4> QED BY <4>1
    <3> QED BY <3>1 DEF Small
  <2>2. Recurs(w, Small(S, 0), [s \in Small(S, 0) |-> 0])
    BY <2>1 DEF Recurs
  <2> QED BY <2>2
<1>2. ASSUME NEW n \in Held PROVE n + 1 \in Held
  <2>1. PICK g : Recurs(w, Small(S, n), g)
    OBVIOUS
  <2> DEFINE Next(s, f) == IF s = {} THEN 0 ELSE w[Pick(s)] + f[s \ {Pick(s)}]
             h == [s \in Small(S, n + 1) |-> Next(s, g)]
  <2>2. \A s \in Small(S, n + 1) : s # {} => s \ {Pick(s)} \in Small(S, n)
    BY Shrinks DEF Small
  <2>3. \A s \in Small(S, n) : s \in Small(S, n + 1)
    <3>1. ASSUME NEW s \in SUBSET S, Cardinality(s) <= n PROVE Cardinality(s) <= n + 1
      <4>1. Cardinality(s) \in Nat
        BY Shrinks
      <4> QED BY <3>1, <4>1
    <3> QED BY <3>1 DEF Small
  <2>4. \A s \in Small(S, n) : g[s] = Next(s, g)
    BY <2>1, Zenon DEF Recurs
  <2>5. \A s \in Small(S, n) : g[s] = h[s]
    BY <2>3, <2>4
  <2>6. \A s \in Small(S, n + 1) : Next(s, g) = Next(s, h)
    BY <2>2, <2>5
  <2>7. h = [s \in Small(S, n + 1) |-> Next(s, h)]
    <3> HIDE DEF Next
    <3>1. h = [s \in Small(S, n + 1) |-> Next(s, g)]
      OBVIOUS
    <3> HIDE DEF h
    <3> QED BY <2>6, <3>1
  <2>8. Recurs(w, Small(S, n + 1), h)
    <3> HIDE DEF h
    <3> QED BY <2>7 DEF Recurs
  <2> HIDE DEF h
  <2> QED BY <2>8
<1>3. Held = Nat
  <2> HIDE DEF Held
  <2>1. Held \subseteq Nat
    BY DEF Held
  <2> QED BY <1>1, <1>2, <2>1, InductionOverNat
<1>4. Cardinality(S) \in Held
  BY <1>3, Shrinks
<1>5. Small(S, Cardinality(S)) = SUBSET S
  BY FS_Subset DEF Small
<1> QED BY <1>4, <1>5

\* It does not depend on the set it is defined over.
LEMMA SumUnique ==
  ASSUME NEW w, NEW S, IsFiniteSet(S), NEW R, S \subseteq R,
         NEW g, IsSum(w, S, g), NEW h, IsSum(w, R, h)
  PROVE  \A s \in SUBSET S : g[s] = h[s]
<1> DEFINE Held == {s \in SUBSET S : g[s] = h[s]}
<1>1. ASSUME NEW s \in SUBSET S, \A r \in SUBSET s : r # s => r \in Held
      PROVE  s \in Held
  <2>1. g[s] = IF s = {} THEN 0 ELSE w[Pick(s)] + g[s \ {Pick(s)}]
    BY Zenon DEF Recurs, IsSum
  <2>2. s \in SUBSET R
    OBVIOUS
  <2>3. h[s] = IF s = {} THEN 0 ELSE w[Pick(s)] + h[s \ {Pick(s)}]
    BY <2>2, Zenon DEF Recurs, IsSum
  <2>4. s # {} => g[s \ {Pick(s)}] = h[s \ {Pick(s)}]
    BY <1>1, Shrinks
  <2> QED BY <2>1, <2>3, <2>4
<1>2. Held = SUBSET S
  <2> HIDE DEF Held
  <2>1. Held \subseteq SUBSET S
    BY DEF Held
  <2> QED BY <1>1, <2>1, InductionOverSubsets
<1> QED BY <1>2

\* A sum, one element at a time.
LEMMA SumUnfolds ==
  ASSUME NEW w, NEW S, IsFiniteSet(S)
  PROVE  SumFunctionOnSet(w, S) =
           IF S = {} THEN 0 ELSE w[Pick(S)] + SumFunctionOnSet(w, S \ {Pick(S)})
<1> DEFINE f(s) == CHOOSE g : Recurs(w, SUBSET s, g)
<1>1. \A s \in SUBSET S : Recurs(w, SUBSET s, f(s))
  <2> TAKE s \in SUBSET S
  <2>1. IsFiniteSet(s)
    BY FS_Subset
  <2> QED BY <2>1, SumExists
<1>2. \A s : SumFunctionOnSet(w, s) = f(s)[s]
  BY DEF Recurs, SumFunctionOnSet, FoldFunctionOnSet, MapThenFoldSet, Pick
<1> HIDE DEF f
<1>3. f(S)[S] = IF S = {} THEN 0 ELSE w[Pick(S)] + f(S)[S \ {Pick(S)}]
  BY <1>1, Zenon DEF Recurs
<1> DEFINE s == S \ {Pick(S)}
<1>4. f(s)[s] = f(S)[s]
  <2>1. s \in SUBSET S /\ IsFiniteSet(s)
    BY FS_Subset
  <2>2. Recurs(w, SUBSET s, f(s)) /\ Recurs(w, SUBSET S, f(S))
    BY <1>1, <2>1
  <2>3. s \subseteq S /\ s \in SUBSET s
    OBVIOUS
  <2> DEFINE g == f(s)
             h == f(S)
  <2> HIDE DEF s, g, h
  <2>4. \A r \in SUBSET s : g[r] = h[r]
    <3>1. IsFiniteSet(s) /\ s \subseteq S /\ IsSum(w, s, g) /\ IsSum(w, S, h)
      BY <2>1, <2>2, <2>3 DEF g, h, IsSum
    <3> QED BY <3>1, SumUnique
  <2> USE DEF g, h
  <2> QED BY <2>3, <2>4
<1> QED BY <1>2, <1>3, <1>4

\* The elements may be added in any order.
LEMMA SumRemove ==
  ASSUME NEW S, IsFiniteSet(S), NEW w, \A x \in S : w[x] \in Int
  PROVE  /\ SumFunctionOnSet(w, S) \in Int
         /\ \A x \in S : SumFunctionOnSet(w, S) = w[x] + SumFunctionOnSet(w, S \ {x})
<1> DEFINE sum(s) == SumFunctionOnSet(w, s)
           Held == {s \in SUBSET S : /\ sum(s) \in Int
                                  /\ \A x \in s : sum(s) = w[x] + sum(s \ {x})}
<1>1. ASSUME NEW s \in SUBSET S, \A r \in SUBSET s : r # s => r \in Held
      PROVE  s \in Held
  <2> DEFINE p == Pick(s)
  <2>1. IsFiniteSet(s)
    BY FS_Subset
  <2>2. sum(s) = IF s = {} THEN 0 ELSE w[p] + sum(s \ {p})
    BY <2>1, SumUnfolds
  <2>3. s # {} => p \in s
    BY DEF Pick
  <2> HIDE DEF p, sum
  <2>4. sum(s) \in Int
    <3>1. s # {} => sum(s \ {p}) \in Int
      BY <1>1, <2>3
    <3> QED BY <2>2, <2>3, <3>1
  <2>5. ASSUME NEW x \in s, x # p PROVE sum(s) = w[x] + sum(s \ {x})
    <3>1. sum(s \ {p}) = w[x] + sum((s \ {p}) \ {x})
      BY <1>1, <2>3, <2>5
    <3>2. sum(s \ {x}) = w[p] + sum((s \ {x}) \ {p})
      BY <1>1, <2>3, <2>5
    <3>3. (s \ {p}) \ {x} = (s \ {x}) \ {p}
      OBVIOUS
    <3>4. sum((s \ {p}) \ {x}) \in Int /\ w[p] \in Int /\ w[x] \in Int
      BY <1>1, <2>3
    <3> DEFINE rest == sum((s \ {p}) \ {x})
    <3>5. sum(s \ {x}) = w[p] + rest /\ sum(s \ {p}) = w[x] + rest /\ rest \in Int
      BY <3>1, <3>2, <3>3, <3>4
    <3>6. sum(s) = w[p] + sum(s \ {p})
      BY <2>2
    <3> HIDE DEF Held, rest
    <3> QED BY <3>4, <3>5, <3>6
  <2> QED BY <2>2, <2>4, <2>5
<1>2. Held = SUBSET S
  <2> HIDE DEF Held
  <2>1. Held \subseteq SUBSET S
    BY DEF Held
  <2> QED BY <1>1, <2>1, InductionOverSubsets
<1>3. S \in Held
  BY <1>2
<1> QED BY <1>3

\* Nothing sums to 0.
LEMMA SumEmpty ==
  ASSUME NEW w PROVE SumFunctionOnSet(w, {}) = 0
BY SumUnfolds, FS_EmptySet

\* What grows with a factor, grows with it in the sum.
LEMMA SumScale ==
  ASSUME NEW S, IsFiniteSet(S), NEW w, \A x \in S : w[x] \in Int,
         NEW v, \A x \in S : v[x] = w[x] * 100
  PROVE  SumFunctionOnSet(v, S) = SumFunctionOnSet(w, S) * 100
<1> DEFINE Held == {s \in SUBSET S : SumFunctionOnSet(v, s) = SumFunctionOnSet(w, s) * 100}
<1>1. ASSUME NEW s \in SUBSET S, \A r \in SUBSET s : r # s => r \in Held
      PROVE  s \in Held
  <2>1. IsFiniteSet(s)
    BY FS_Subset
  <2>2. CASE s = {}
    BY <2>2, SumEmpty
  <2>3. ASSUME NEW x \in s PROVE s \in Held
    <3> DEFINE r == s \ {x}
    <3>1. IsFiniteSet(r) /\ r \in Held /\ r \in SUBSET S
      BY <1>1, <2>1, <2>3, FS_Subset
    <3>2. SumFunctionOnSet(v, r) = SumFunctionOnSet(w, r) * 100
      BY <3>1
    <3>3. SumFunctionOnSet(w, r) \in Int /\ w[x] \in Int
      BY <3>1, SumRemove
    <3>4. SumFunctionOnSet(w, s) = w[x] + SumFunctionOnSet(w, r)
      BY <2>1, SumRemove
    <3>5. SumFunctionOnSet(v, s) = v[x] + SumFunctionOnSet(v, r)
      <4>1. \A y \in s : v[y] \in Int
        OBVIOUS
      <4> QED BY <2>1, <4>1, SumRemove
    <3>6. v[x] = w[x] * 100
      OBVIOUS
    <3> HIDE DEF r
    <3>7. SumFunctionOnSet(v, s) = SumFunctionOnSet(w, s) * 100
      BY <3>2, <3>3, <3>4, <3>5, <3>6
    <3> QED BY <3>7
  <2> QED BY <2>2, <2>3
<1>2. Held = SUBSET S
  <2> HIDE DEF Held
  <2>1. Held \subseteq SUBSET S
    BY DEF Held
  <2> QED BY <1>1, <2>1, InductionOverSubsets
<1>3. S \in Held
  BY <1>2
<1> QED BY <1>3

\* Sums over one set compare as their elements do, and a sum of positive
\* numbers is positive.
LEMMA SumCompares ==
  ASSUME NEW S, IsFiniteSet(S), NEW w, \A x \in S : w[x] \in Int,
         NEW v, \A x \in S : v[x] \in Int /\ v[x] <= w[x]
  PROVE  SumFunctionOnSet(v, S) <= SumFunctionOnSet(w, S)
<1> DEFINE Held == {s \in SUBSET S : SumFunctionOnSet(v, s) <= SumFunctionOnSet(w, s)}
<1>1. ASSUME NEW s \in SUBSET S, \A r \in SUBSET s : r # s => r \in Held
      PROVE  s \in Held
  <2>1. IsFiniteSet(s)
    BY FS_Subset
  <2>2. CASE s = {}
    BY <2>2, SumEmpty
  <2>3. ASSUME NEW x \in s PROVE s \in Held
    <3> DEFINE r == s \ {x}
    <3>1. IsFiniteSet(r) /\ r \in Held /\ r \in SUBSET S
      BY <1>1, <2>1, <2>3, FS_Subset
    <3>2. SumFunctionOnSet(v, r) <= SumFunctionOnSet(w, r)
      BY <3>1
    <3>3. SumFunctionOnSet(w, r) \in Int /\ SumFunctionOnSet(v, r) \in Int
      BY <3>1, SumRemove
    <3>4. SumFunctionOnSet(w, s) = w[x] + SumFunctionOnSet(w, r)
      BY <2>1, SumRemove
    <3>5. SumFunctionOnSet(v, s) = v[x] + SumFunctionOnSet(v, r)
      BY <2>1, SumRemove
    <3>6. v[x] <= w[x] /\ v[x] \in Int /\ w[x] \in Int
      OBVIOUS
    <3> HIDE DEF r
    <3>7. SumFunctionOnSet(v, s) <= SumFunctionOnSet(w, s)
      BY <3>2, <3>3, <3>4, <3>5, <3>6
    <3> QED BY <3>7
  <2> QED BY <2>2, <2>3
<1>2. Held = SUBSET S
  <2> HIDE DEF Held
  <2>1. Held \subseteq SUBSET S
    BY DEF Held
  <2> QED BY <1>1, <2>1, InductionOverSubsets
<1>3. S \in Held
  BY <1>2
<1> QED BY <1>3

\* Functions that agree on a set have one sum over it.
LEMMA SumCongruence ==
  ASSUME NEW S, IsFiniteSet(S), NEW w, NEW v, \A x \in S : w[x] \in Int /\ v[x] = w[x]
  PROVE  SumFunctionOnSet(v, S) = SumFunctionOnSet(w, S)
<1>1. \A x \in S : v[x] \in Int /\ w[x] \in Int /\ v[x] <= w[x] /\ w[x] <= v[x]
  OBVIOUS
<1>2. SumFunctionOnSet(v, S) <= SumFunctionOnSet(w, S)
  BY <1>1, SumCompares
<1>3. SumFunctionOnSet(w, S) <= SumFunctionOnSet(v, S)
  BY <1>1, SumCompares
<1>4. SumFunctionOnSet(w, S) \in Int /\ SumFunctionOnSet(v, S) \in Int
  BY <1>1, SumRemove
<1> QED BY <1>2, <1>3, <1>4

\* A sum of numbers that are not negative is not negative.
LEMMA SumIsNat ==
  ASSUME NEW S, IsFiniteSet(S), NEW w, \A x \in S : w[x] \in Nat
  PROVE  SumFunctionOnSet(w, S) \in Nat
<1> DEFINE zero == [x \in S |-> 0]
<1>1. SumFunctionOnSet(zero, S) = SumFunctionOnSet(zero, S) * 100
  BY SumScale
<1>2. SumFunctionOnSet(zero, S) \in Int
  BY SumRemove
<1>3. SumFunctionOnSet(zero, S) <= SumFunctionOnSet(w, S)
  BY SumCompares
<1>4. SumFunctionOnSet(w, S) \in Int
  BY SumRemove
<1> QED BY <1>1, <1>2, <1>3, <1>4

-----------------------------------------------------------------------------
(* Pairs of match records.                                                  *)

\* A policy weighs and bounds by numbers: of any sign, tolerances apart.
IsPolicy(p) ==
  /\ \A f \in M!Fields : p.weights[f] \in Int
  /\ p.matched \in Int /\ p.possible \in Int /\ p.review \in Int
  /\ p.date_tolerance \in Nat /\ p.amount_tolerance \in Nat \cup {None}

\* A match record has every field, or None, and its amount and its dates are
\* numbers.
IsRecord(r) ==
  /\ r = [f \in M!Fields |-> r[f]]
  /\ r.amount \in Int \cup {None}
  /\ \A f \in M!Dates : r[f] \in Int \cup {None}

\* The outcome of comparing one field.
IsResult(x) == x.status \in {"MISSING", "EXACT", "MISMATCH"} /\ x.sim \in 0..100

\* There are finitely many fields to compare.
LEMMA FieldsFinite == IsFiniteSet(M!Fields)
<1> DEFINE names == <<"transaction_id", "end_to_end_id", "debtor_account", "creditor_account",
                      "debtor_agent", "creditor_agent", "currency", "country",
                      "remittance_reference", "external_reference", "debtor_name",
                      "creditor_name", "booking_date", "value_date", "amount">>
           f == [i \in 1..15 |-> names[i]]
<1>1. f \in [1..15 -> M!Fields]
  BY DEF M!Fields, M!Exact, M!Fuzzy, M!Dates
<1>2. M!Fields \subseteq {f[1], f[2], f[3], f[4], f[5], f[6], f[7], f[8], f[9], f[10],
                          f[11], f[12], f[13], f[14], f[15]}
  BY DEF M!Fields, M!Exact, M!Fuzzy, M!Dates
<1>3. \A x \in M!Fields : \E i \in 1..15 : f[i] = x
  <2> HIDE DEF f
  <2> QED BY <1>2
<1> HIDE DEF f
<1>4. f \in Surjection(1..15, M!Fields)
  BY <1>1, <1>3 DEF Surjection
<1>5. IsFiniteSet(1..15)
  <2>1. 1 \in Int /\ 15 \in Int
    OBVIOUS
  <2> QED BY <2>1, FS_Interval, Zenon
<1> HIDE DEF names
<1> DEFINE I == 1..15
           F == M!Fields
<1>6. IsFiniteSet(I) /\ f \in Surjection(I, F)
  BY <1>4, <1>5
<1> HIDE DEF I, F
<1>7. IsFiniteSet(F)
  BY <1>6, FS_Surjection
<1> QED BY <1>7 DEF F

\* A comparison has a status and a similarity in per cent.
LEMMA ResultShape ==
  ASSUME NEW f, NEW a, NEW b, NEW p
  PROVE  IsResult(M!FieldResult(f, a, b, p))
<1>1. M!_sim(a, b) \in 0..100
  BY SimilarIsPercent DEF M!_sim, M!Table
<1>2. IsResult(M!Missing) /\ IsResult(M!Agrees) /\ IsResult(M!Differs)
  BY DEF M!Missing, M!Agrees, M!Differs, IsResult
<1>3. \A ok : M!Verdict(ok) \in {M!Agrees, M!Differs}
  BY DEF M!Verdict
<1>4. IsResult(M!_fuzzy_result(a, b))
  BY <1>1, <1>2 DEF M!_fuzzy_result, IsResult
<1>5. /\ M!_exact_result(a, b) \in {M!Agrees, M!Differs}
      /\ M!_date_result(a, b, p) \in {M!Agrees, M!Differs}
      /\ M!_amount_result(a, b, p) \in {M!Agrees, M!Differs}
  BY <1>3 DEF M!_exact_result, M!_date_result, M!_amount_result
<1> QED BY <1>2, <1>4, <1>5 DEF M!FieldResult

\* The sum that MatchingEngine uses is that of the community module.
LEMMA SameSum ==
  \A w, S : M!SumFunctionOnSet(w, S) = SumFunctionOnSet(w, S)
BY DEF M!SumFunctionOnSet, M!FoldFunctionOnSet, M!MapThenFoldSet,
       SumFunctionOnSet, FoldFunctionOnSet, MapThenFoldSet

\* The arithmetic of a rounded quotient: 100 out of 100 is 10000 hundredths,
LEMMA FullScore ==
  ASSUME NEW total \in Nat \ {0}
  PROVE  (200 * (total * 100) + total) \div (2 * total) = 10000
OBVIOUS

\* and a part that agrees in full does not lower it.
LEMMA ScoreRises ==
  ASSUME NEW total \in Nat \ {0}, NEW weighted \in Nat, weighted <= total * 100,
         NEW w \in Nat
  PROVE  (200 * weighted + total) \div (2 * total) <=
           (200 * (w * 100 + weighted) + (w + total)) \div (2 * (w + total))
OBVIOUS

-----------------------------------------------------------------------------
\* The score of comparisons that all agree, as far as anything is compared.
LEMMA ScoreOfAgreement ==
  ASSUME NEW results, NEW policy, IsPolicy(policy),
         \A f \in M!Fields : results[f].status # "MISSING" => results[f].sim = 100,
         M!Compared(results, policy) # {}
  PROVE  M!_score(results, policy) = 10000
<1> DEFINE fields == M!Compared(results, policy)
           w == policy.weights
           v == [f \in fields |-> policy.weights[f] * results[f].sim]
           total == SumFunctionOnSet(w, fields)
<1>1. fields \subseteq M!Fields /\ \A f \in fields : w[f] \in Nat \ {0} /\ results[f].sim = 100
  BY DEF M!Compared, IsPolicy
<1>2. IsFiniteSet(fields)
  BY <1>1, FieldsFinite, FS_Subset
<1>3. M!_score(results, policy) =
        (200 * SumFunctionOnSet(v, fields) + total) \div (2 * total)
  BY SameSum DEF M!_score
<1> HIDE DEF fields, w
<1>4. \A f \in fields : v[f] = w[f] * 100
  BY <1>1 DEF w
<1> HIDE DEF v
<1>5. SumFunctionOnSet(v, fields) = total * 100
  BY <1>1, <1>2, <1>4, SumScale
<1>6. total \in Nat \ {0}
  <2>1. PICK f \in fields : TRUE
    BY DEF fields
  <2>2. total = w[f] + SumFunctionOnSet(w, fields \ {f})
    BY <1>1, <1>2, SumRemove
  <2>3. SumFunctionOnSet(w, fields \ {f}) \in Nat
    <3>1. IsFiniteSet(fields \ {f})
      BY <1>2, FS_RemoveElement
    <3>2. \A g \in fields \ {f} : w[g] \in Nat
      BY <1>1
    <3> QED BY ONLY <3>1, <3>2, SumIsNat
  <2>4. w[f] \in Nat \ {0}
    BY <1>1
  <2> HIDE DEF total
  <2> QED BY ONLY <2>2, <2>3, <2>4
<1> HIDE DEF total
<1> QED BY <1>3, <1>5, <1>6, FullScore

\* The results of comparing two records, field by field.
Results(a, b, p) ==
  [f \in M!Fields |-> M!FieldResult(f, M!normalize_record(a)[f], M!normalize_record(b)[f], p)]

\* The verdict on a pair, in terms of its results.
LEMMA PairVerdict ==
  ASSUME NEW a, NEW b, NEW p
  PROVE  LET r == Results(a, b, p)
             c == M!_critical_conflicts(r, p)
             s == M!_score(r, p)
         IN  /\ M!evaluate_pair(a, b, p).results = r
             /\ M!evaluate_pair(a, b, p).conflicts = c
             /\ M!evaluate_pair(a, b, p).score = s
             /\ M!evaluate_pair(a, b, p).classification = M!_classify(s, c, p)
BY DEF M!evaluate_pair, Results

\* A value agrees with itself, unless there is nothing to compare.
LEMMA SameValueAgrees ==
  ASSUME NEW f, NEW v, NEW p, IsPolicy(p), f \in M!Dates => v \in Int \cup {None}
  PROVE  LET n == M!normalize(M!Kind(f), v)
         IN  M!FieldResult(f, n, n, p) \in {M!Missing, M!Agrees}
<1> DEFINE n == M!normalize(M!Kind(f), v)
<1>1. CASE f \in M!Dates
  <2>1. n = v
    BY <1>1 DEF M!normalize, M!Kind, M!Dates
  <2>2. ASSUME v \in Int PROVE M!_date_result(v, v, p) = M!Agrees
    <3>1. M!Abs(v - v) = 0
      BY <2>2 DEF M!Abs
    <3> QED BY <3>1 DEF M!_date_result, M!Verdict, IsPolicy
  <2> HIDE DEF n
  <2>3. M!FieldResult(f, n, n, p) \in {M!Missing, M!Agrees}
    BY <1>1, <2>1, <2>2 DEF M!FieldResult, M!Exact, M!Dates
  <2> QED BY <2>3 DEF n
<1>2. CASE f \notin M!Dates
  <2> HIDE DEF n
  <2>1. /\ M!_exact_result(n, n) = M!Agrees /\ M!_fuzzy_result(n, n) = M!Agrees
        /\ M!_amount_result(n, n, p) = M!Agrees
    BY DEF M!_exact_result, M!_fuzzy_result, M!_amount_result, M!Verdict
  <2>2. M!FieldResult(f, n, n, p) \in {M!Missing, M!Agrees}
    BY <1>2, <2>1 DEF M!FieldResult
  <2> QED BY <2>2 DEF n
<1> QED BY <1>1, <1>2

\* The comparison of one field depends on the values of that field alone.
LEMMA FieldByField ==
  ASSUME NEW a, NEW b, NEW p, NEW f \in M!Fields
  PROVE  Results(a, b, p)[f] =
           M!FieldResult(f, M!normalize(M!Kind(f), a[f]), M!normalize(M!Kind(f), b[f]), p)
BY DEF Results, M!normalize_record

\* The window around an amount holds it exactly when it is not negative.
LEMMA WindowHolds ==
  ASSUME NEW n \in Int, NEW t \in Nat \ {0}
  PROVE  n * (100 - t) <= 100 * n /\ 100 * n <= n * (100 + t) <=> n >= 0
<1>1. n * (100 - t) = 100 * n - n * t /\ n * (100 + t) = 100 * n + n * t
  OBVIOUS
<1>2. n * t \in Int
  OBVIOUS
<1>3. n * t >= 0 <=> n >= 0
  OBVIOUS
<1> QED BY <1>1, <1>2, <1>3

\* The tolerance that makes the window, in per cent.
Tolerance(policy) ==
  IF policy.amount_tolerance = None THEN M!DEFAULT_AMOUNT_PCT ELSE policy.amount_tolerance

\* A copy that does not lack a reference or an account is found by them.
LEMMA KeysKept ==
  ASSUME NEW a, NEW gaps, gaps \cap KeyFields = {}
  PROVE  \A f \in KeyFields : Copy(a, gaps)[f] = a[f]
<1>1. KeyFields \subseteq M!Fields
  BY DEF KeyFields, M!Fields, M!Exact, M!Fuzzy
<1> QED BY <1>1 DEF Copy

\* candidates.py and matching_service.py, _candidate_matches, for every record
\* and every policy: a record is compared with a copy that lacks any fields but
\* the references and accounts, unless both carry a negative amount and there
\* is a window.
THEOREM CopyAlwaysCandidate ==
  ASSUME NEW a, IsRecord(a), NEW gaps, gaps \cap KeyFields = {},
         NEW policy, IsPolicy(policy)
  PROVE  M!_candidate_matches(Copy(a, gaps), M!narrowing_criteria(a, policy))
           <=> ~(Negative(Copy(a, gaps).amount) /\ Tolerance(policy) # 0)
<1> DEFINE c == Copy(a, gaps)
           crit == M!narrowing_criteria(a, policy)
           tolerance == Tolerance(policy)
<1>1. tolerance \in Nat
  BY DEF Tolerance, IsPolicy, M!DEFAULT_AMOUNT_PCT
<1>2. /\ crit.currency = a.currency /\ crit.windowed = (a.amount # None /\ tolerance # 0)
      /\ a.amount # None => /\ crit.amount_min = a.amount * (100 - tolerance)
                            /\ crit.amount_max = a.amount * (100 + tolerance)
      /\ crit.dates = {f \in M!Dates : a[f] # None} /\ crit.day = [f \in M!Dates |-> a[f]]
      /\ crit.reference_prefix =
           M!PrefixOf(M!FirstOf(a.remittance_reference, a.external_reference))
      /\ crit.account = M!normalize("iban", M!FirstOf(a.debtor_account, a.creditor_account))
  BY DEF M!narrowing_criteria, Tolerance
<1>3. /\ \A f \in M!Fields : c[f] \in {a[f], None}
      /\ {"currency", "amount"} \cup M!Dates \subseteq M!Fields
  BY DEF Copy, M!Fields, M!Exact
<1>4. /\ c.remittance_reference = a.remittance_reference
      /\ c.external_reference = a.external_reference
      /\ c.debtor_account = a.debtor_account /\ c.creditor_account = a.creditor_account
  BY KeysKept DEF KeyFields
<1> HIDE DEF c, crit, tolerance
<1>5. c.amount # None => (M!InWindow(c.amount, crit) <=> c.amount >= 0 \/ tolerance = 0)
  <2> SUFFICES ASSUME c.amount # None
               PROVE  M!InWindow(c.amount, crit) <=> c.amount >= 0 \/ tolerance = 0
    OBVIOUS
  <2>1. c.amount = a.amount /\ a.amount \in Int
    BY <1>3 DEF IsRecord
  <2>2. M!InWindow(c.amount, crit) <=>
          a.amount * (100 - tolerance) <= 100 * a.amount
            /\ 100 * a.amount <= a.amount * (100 + tolerance)
    BY <1>2, <2>1 DEF M!InWindow
  <2>3. CASE tolerance # 0
    BY <1>1, <2>1, <2>2, <2>3, WindowHolds
  <2>4. CASE tolerance = 0
    <3>1. \A n \in Int : n * (100 - 0) = 100 * n /\ n * (100 + 0) = 100 * n
      OBVIOUS
    <3> QED BY <2>1, <2>2, <2>4, <3>1
  <2> QED BY <2>3, <2>4
<1>6. (crit.windowed /\ c.amount # None => M!InWindow(c.amount, crit))
        <=> ~(Negative(c.amount) /\ tolerance # 0)
  <2>1. c.amount # None => c.amount = a.amount /\ c.amount \in Int
    BY <1>3 DEF IsRecord
  <2>2. CASE c.amount = None
    BY <2>2 DEF Negative
  <2>3. CASE c.amount # None
    <3>1. crit.windowed <=> tolerance # 0
      BY <1>2, <2>1, <2>3
    <3>2. Negative(c.amount) <=> ~(c.amount >= 0)
      BY <2>1, <2>3 DEF Negative
    <3> QED BY <1>5, <2>3, <3>1, <3>2
  <2> QED BY <2>2, <2>3
<1>7. ASSUME NEW f \in M!Dates, c[f] # None
      PROVE  f \in crit.dates /\ M!Abs(c[f] - crit.day[f]) <= M!DEFAULT_DATE_WINDOW_DAYS
  <2>1. c[f] = a[f] /\ a[f] \in Int /\ crit.day[f] = a[f]
    BY <1>2, <1>3, <1>7 DEF IsRecord
  <2> QED BY <1>2, <1>7, <2>1 DEF M!Abs, M!DEFAULT_DATE_WINDOW_DAYS
<1>8. crit.dates # {} /\ (\E f \in M!Dates : c[f] # None) =>
        \E f \in crit.dates : /\ c[f] # None
                              /\ M!Abs(c[f] - crit.day[f]) <= M!DEFAULT_DATE_WINDOW_DAYS
  BY <1>7
<1>9. crit.currency # None /\ c.currency # None => c.currency = crit.currency
  BY <1>2, <1>3
<1>10. /\ M!PrefixOf(M!FirstOf(c.remittance_reference, c.external_reference))
            = crit.reference_prefix
       /\ M!normalize("iban", M!FirstOf(c.debtor_account, c.creditor_account)) = crit.account
  BY <1>2, <1>4
<1>11. M!_candidate_matches(c, crit) <=> ~(Negative(c.amount) /\ tolerance # 0)
  BY <1>6, <1>8, <1>9, <1>10, Zenon DEF M!_candidate_matches
<1> QED BY <1>11 DEF c, crit, tolerance

\* matcher.py, for every record and every policy: nothing conflicts between a
\* record and a copy, whatever the copy lacks, and they are MATCHED as soon as
\* they have in common anything that is weighed.
THEOREM CopyAlwaysMatched ==
  ASSUME NEW a, IsRecord(a), NEW gaps, NEW policy, IsPolicy(policy)
  PROVE  LET verdict == M!evaluate_pair(a, Copy(a, gaps), policy)
         IN  /\ verdict.conflicts = {}
             /\ policy.matched <= 100 /\ M!Compared(verdict.results, policy) # {}
                  => verdict.classification = "MATCHED"
<1> DEFINE r == Results(a, Copy(a, gaps), policy)
<1>1. \A f \in M!Fields : r[f] \in {M!Missing, M!Agrees}
  <2> TAKE f \in M!Fields
  <2>1. r[f] = M!FieldResult(f, M!normalize(M!Kind(f), a[f]),
                             M!normalize(M!Kind(f), Copy(a, gaps)[f]), policy)
    BY FieldByField
  <2>2. CASE f \in gaps
    <3>1. M!normalize(M!Kind(f), Copy(a, gaps)[f]) = None
      BY <2>2 DEF Copy, M!normalize
    <3> QED BY <2>1, <3>1 DEF M!FieldResult
  <2>3. CASE f \notin gaps
    <3>1. Copy(a, gaps)[f] = a[f]
      BY <2>3 DEF Copy
    <3> QED BY <2>1, <3>1, SameValueAgrees DEF IsRecord
  <2> QED BY <2>2, <2>3
<1> HIDE DEF r
<1>2. \A f \in M!Fields : /\ r[f].status # "MISMATCH"
                          /\ r[f].status # "MISSING" => r[f].sim = 100
  BY <1>1 DEF M!Missing, M!Agrees
<1>3. M!_critical_conflicts(r, policy) = {}
  BY <1>2 DEF M!_critical_conflicts
<1>4. ASSUME policy.matched <= 100, M!Compared(r, policy) # {}
      PROVE  M!evaluate_pair(a, Copy(a, gaps), policy).classification = "MATCHED"
  <2>1. M!_score(r, policy) = 10000
    BY <1>2, <1>4, ScoreOfAgreement
  <2>2. M!evaluate_pair(a, Copy(a, gaps), policy).classification = M!_classify(10000, {}, policy)
    BY <1>3, <2>1, PairVerdict DEF r
  <2> QED BY <1>4, <2>2 DEF M!_classify, IsPolicy
<1> QED BY <1>3, <1>4, PairVerdict DEF r

\* A higher score is never a worse class.
LEMMA ClassesOrdered ==
  ASSUME NEW policy, IsPolicy(policy), NEW s \in Int, NEW t \in Int, s <= t, NEW c
  PROVE  StandingOf(M!_classify(t, c, policy)) >= StandingOf(M!_classify(s, c, policy))
<1>1. /\ StandingOf("UNMATCHED") = 1 /\ StandingOf("REVIEW_REQUIRED") = 2
      /\ StandingOf("POSSIBLE_MATCH") = 3 /\ StandingOf("MATCHED") = 4
  BY DEF StandingOf, Standing
<1>2. policy.matched \in Int /\ policy.possible \in Int /\ policy.review \in Int
  BY DEF IsPolicy
<1> QED BY <1>1, <1>2 DEF M!_classify

\* matcher.py, _score and _classify, for every pair of records and every
\* policy: to give both the same value of a field that one of them lacked does
\* not lower the score, nor make the classification worse.
THEOREM AgreementNeverHurts ==
  ASSUME NEW a, IsRecord(a), NEW b, IsRecord(b), NEW policy, IsPolicy(policy),
         NEW f \in M!Fields, NEW v,
         M!evaluate_pair(a, b, policy).results[f].status = "MISSING",
         f \in M!Dates => v \in Int \cup {None}
  PROVE  LET before == M!evaluate_pair(a, b, policy)
             more == M!evaluate_pair([a EXCEPT ![f] = v], [b EXCEPT ![f] = v], policy)
         IN  /\ more.score >= before.score
             /\ StandingOf(more.classification) >= StandingOf(before.classification)
<1> DEFINE a2 == [a EXCEPT ![f] = v]
           b2 == [b EXCEPT ![f] = v]
           r == Results(a, b, policy)
           q == Results(a2, b2, policy)
           w == policy.weights
           old == M!Compared(r, policy)
           new == M!Compared(q, policy)
           vr == [g \in old |-> w[g] * r[g].sim]
           vq == [g \in new |-> w[g] * q[g].sim]
           total == SumFunctionOnSet(w, old)
           weighted == SumFunctionOnSet(vr, old)
<1>1. \A g \in M!Fields \ {f} : q[g] = r[g]
  <2>1. \A g \in M!Fields \ {f} : a2[g] = a[g] /\ b2[g] = b[g]
    BY DEF IsRecord
  <2> HIDE DEF a2, b2
  <2> QED BY <2>1, FieldByField
<1>2. r[f].status = "MISSING"
  BY PairVerdict
<1>3. q[f] \in {M!Missing, M!Agrees}
  <2>1. a2[f] = v /\ b2[f] = v
    BY DEF IsRecord
  <2> HIDE DEF a2, b2
  <2> QED BY <2>1, FieldByField, SameValueAgrees
<1>4. \A g \in M!Fields : IsResult(r[g])
  BY FieldByField, ResultShape
<1> HIDE DEF r, q
<1>5. M!_critical_conflicts(q, policy) = M!_critical_conflicts(r, policy)
  BY <1>1, <1>2, <1>3 DEF M!_critical_conflicts, M!Missing, M!Agrees
<1>6. /\ IsFiniteSet(old) /\ f \notin old
      /\ \A g \in old : /\ w[g] \in Nat \ {0} /\ r[g].sim \in 0..100 /\ q[g] = r[g]
      /\ new = old \/ (new = old \cup {f} /\ w[f] \in Nat \ {0} /\ q[f].sim = 100)
  <2>1. old \subseteq M!Fields
    BY DEF M!Compared
  <2>2. \A g \in M!Fields : w[g] \in Int
    BY DEF IsPolicy
  <2>3. new = old \/ (new = old \cup {f} /\ w[f] \in Nat \ {0} /\ q[f].sim = 100)
    BY <1>1, <1>2, <1>3, <2>2 DEF M!Compared, M!Missing, M!Agrees
  <2> QED BY <1>1, <1>2, <1>4, <2>1, <2>2, <2>3, FieldsFinite, FS_Subset DEF M!Compared, IsResult
<1>7. /\ M!_score(r, policy) =
           IF old = {} THEN 0 ELSE (200 * weighted + total) \div (2 * total)
      /\ M!_score(q, policy) =
           IF new = {} THEN 0
           ELSE (200 * SumFunctionOnSet(vq, new) + SumFunctionOnSet(w, new))
                  \div (2 * SumFunctionOnSet(w, new))
  BY SameSum DEF M!_score
<1> HIDE DEF old, new, w
<1>8. \A g \in old : vr[g] \in Nat /\ vr[g] <= w[g] * 100
  <2>1. \A n \in Nat, s \in 0..100 : n * s \in Nat /\ n * s <= n * 100
    OBVIOUS
  <2> QED BY <1>6, <2>1
<1>9. old # {} => total \in Nat \ {0} /\ weighted \in Nat /\ weighted <= total * 100
  <2>1. ASSUME NEW g \in old PROVE total \in Nat \ {0}
    <3>0. IsFiniteSet(old) /\ \A h \in old : w[h] \in Int
      BY <1>6
    <3>1. total = w[g] + SumFunctionOnSet(w, old \ {g})
      BY <3>0, SumRemove
    <3>2. SumFunctionOnSet(w, old \ {g}) \in Nat
      <4>1. IsFiniteSet(old \ {g})
        BY <1>6, FS_RemoveElement
      <4> QED BY <1>6, <4>1, SumIsNat
    <3> QED BY <1>6, <3>1, <3>2
  <2>2. weighted \in Nat
    <3> HIDE DEF vr
    <3> QED BY <1>6, <1>8, SumIsNat
  <2>3. weighted <= total * 100
    <3> DEFINE h == [g \in old |-> w[g] * 100]
    <3>1. \A g \in old : h[g] \in Int /\ w[g] \in Int /\ h[g] = w[g] * 100 /\ vr[g] \in Int /\ vr[g] <= h[g]
      BY <1>6, <1>8
    <3> HIDE DEF h, vr
    <3>2. SumFunctionOnSet(h, old) = total * 100
      BY <1>6, <3>1, SumScale
    <3>3. SumFunctionOnSet(vr, old) <= SumFunctionOnSet(h, old)
      BY <1>6, <3>1, SumCompares
    <3> QED BY <3>2, <3>3
  <2> QED BY <2>1, <2>2, <2>3
<1>10. M!_score(q, policy) >= M!_score(r, policy) /\ M!_score(q, policy) \in Int /\ M!_score(r, policy) \in Int
  <2>1. \A g \in old : g \in new /\ vq[g] = vr[g] /\ vr[g] \in Int
    BY <1>6, <1>8
  <2>2. SumFunctionOnSet(vq, old) = weighted
    <3> HIDE DEF vq, vr
    <3> QED BY <1>6, <2>1, SumCongruence
  <2>3. CASE new = old
    <3>1. M!_score(q, policy) = M!_score(r, policy)
      <4> HIDE DEF vq, vr
      <4> QED BY <1>7, <2>2, <2>3
    <3>2. M!_score(r, policy) \in Int
      <4> HIDE DEF vr, total, weighted
      <4>1. CASE old = {}
        BY <1>7, <4>1
      <4>2. CASE old # {}
        BY <1>7, <1>9, <4>2
      <4> QED BY <4>1, <4>2
    <3> QED BY <3>1, <3>2
  <2>4. CASE new = old \cup {f} /\ w[f] \in Nat \ {0} /\ q[f].sim = 100
    <3>1. IsFiniteSet(new) /\ new \ {f} = old /\ f \in new /\ new # {}
      BY <1>6, <2>4, FS_AddElement
    <3>2. \A g \in new : w[g] \in Int /\ vq[g] \in Int
      BY <1>6, <1>8, <2>1, <2>4
    <3>3. vq[f] = w[f] * 100
      BY <2>4
    <3>4. SumFunctionOnSet(w, new) = w[f] + total
      BY <3>1, <3>2, SumRemove
    <3> HIDE DEF vq, vr
    <3>5. SumFunctionOnSet(vq, new) = w[f] * 100 + weighted
      BY <2>2, <3>1, <3>2, <3>3, SumRemove
    <3> HIDE DEF total, weighted
    <3>6. M!_score(q, policy) =
            (200 * (w[f] * 100 + weighted) + (w[f] + total)) \div (2 * (w[f] + total))
      BY <1>7, <3>1, <3>4, <3>5
    <3>7. CASE old # {}
      <4>1. /\ total \in Nat \ {0} /\ weighted \in Nat /\ weighted <= total * 100
            /\ w[f] \in Nat
        BY <1>9, <2>4, <3>7
      <4> DEFINE x == w[f]
      <4>2. x \in Nat
        BY <4>1
      <4>3. /\ M!_score(r, policy) = (200 * weighted + total) \div (2 * total)
            /\ M!_score(q, policy) = (200 * (x * 100 + weighted) + (x + total)) \div (2 * (x + total))
        BY <1>7, <3>6, <3>7
      <4> HIDE DEF x
      <4>4. (200 * weighted + total) \div (2 * total) <=
              (200 * (x * 100 + weighted) + (x + total)) \div (2 * (x + total))
        BY <4>1, <4>2, ScoreRises
      <4>5. M!_score(q, policy) \in Int /\ M!_score(r, policy) \in Int
        BY <4>1, <4>2, <4>3
      <4> QED BY <4>3, <4>4, <4>5
    <3>8. CASE old = {}
      <4>1. total = 0 /\ weighted = 0
        BY <3>8, SumEmpty DEF total, weighted
      <4> DEFINE x == w[f]
      <4>2. x \in Nat \ {0}
        BY <2>4
      <4>3. M!_score(q, policy) = (200 * (x * 100 + 0) + (x + 0)) \div (2 * (x + 0))
        BY <3>6, <4>1
      <4> HIDE DEF x
      <4>4. M!_score(q, policy) = 10000
        BY <4>2, <4>3, FullScore
      <4>5. M!_score(r, policy) = 0
        BY <1>7, <3>8
      <4> QED BY <4>4, <4>5
    <3> QED BY <3>7, <3>8
  <2> QED BY <1>6, <2>3, <2>4
<1>11. StandingOf(M!evaluate_pair(a2, b2, policy).classification) >=
         StandingOf(M!evaluate_pair(a, b, policy).classification)
  <2> DEFINE c == M!_critical_conflicts(r, policy)
             s == M!_score(r, policy)
             t == M!_score(q, policy)
  <2>1. /\ M!evaluate_pair(a, b, policy).classification = M!_classify(s, c, policy)
        /\ M!evaluate_pair(a2, b2, policy).classification = M!_classify(t, c, policy)
    BY <1>5, PairVerdict DEF r, q
  <2>2. s \in Int /\ t \in Int /\ s <= t
    BY <1>10
  <2> HIDE DEF c, s, t, a2, b2
  <2>3. StandingOf(M!_classify(t, c, policy)) >= StandingOf(M!_classify(s, c, policy))
    BY <2>2, ClassesOrdered
  <2> QED BY <2>1, <2>3
<1>12. /\ M!evaluate_pair(a, b, policy).score = M!_score(r, policy)
       /\ M!evaluate_pair(a2, b2, policy).score = M!_score(q, policy)
  BY PairVerdict DEF r, q
<1> QED BY <1>10, <1>11, <1>12

-----------------------------------------------------------------------------
(* The pairs that are asked about.                                          *)

\* The fields of which AskMatch leaves both records without a value.
Uncarried == {"end_to_end_id", "creditor_agent", "external_reference"}

PairAsked ==
  question.kind = "match" =>
    /\ IsRecord(question.a) /\ IsRecord(question.b)
    /\ \A f \in Uncarried : question.a[f] = None /\ question.b[f] = None
    /\ IsPolicy(question.policy)

\* Both policies weigh the identifiers and have a window around the amount.
IsWeighing(policy) ==
  /\ IsPolicy(policy) /\ policy.matched <= 100 /\ Tolerance(policy) # 0
  /\ policy.weights.transaction_id > 0 /\ policy.weights.end_to_end_id > 0

CopyAsked == question.kind = "copy" => IsRecord(question.a) /\ IsWeighing(question.policy)

\* A record asked about is a record, and lacks the fields that are not asked about.
LEMMA RecordAsked ==
  ASSUME NEW TT, NEW C, NEW A, NEW R, NEW N, NEW D, NEW K,
         A \subseteq Int \cup {None}, D \subseteq Int \cup {None},
         NEW a \in RecordsOf(TT, C, A, R, N, D, K)
  PROVE  IsRecord(a) /\ \A f \in Uncarried : a[f] = None
<1>1. PICK r \in TT \X C \X A \X R \X N \X D \X K :
        a = [Empty EXCEPT !.transaction_id = r[1], !.currency = r[2], !.amount = r[3],
                 !.remittance_reference = r[4], !.creditor_name = r[5], !.value_date = r[6],
                 !.debtor_account = r[7]]
  BY DEF RecordsOf
<1>2. r[3] \in A /\ r[6] \in D
  OBVIOUS
<1>3. /\ a = [f \in M!Fields |-> a[f]]
      /\ a.amount = r[3] /\ a.value_date = r[6] /\ a.booking_date = None
      /\ \A f \in Uncarried : a[f] = None
  BY <1>1 DEF Empty, M!Fields, M!Exact, M!Fuzzy, M!Dates, Uncarried
<1> QED BY <1>2, <1>3 DEF IsRecord, M!Dates

\* Both policies asked about are policies.
LEMMA PolicyAsked ==
  ASSUME NEW p \in {M!default_policy, Tolerant}
  PROVE  IsWeighing(p)
<1>1. IsPolicy(M!default_policy)
  BY DEF IsPolicy, M!default_policy
<1>2. /\ M!default_policy.matched <= 100 /\ M!default_policy.amount_tolerance = None
      /\ M!default_policy.weights.transaction_id = 30
      /\ M!default_policy.weights.end_to_end_id = 25
  BY DEF M!default_policy, M!Fields, M!Exact
<1>3. /\ Tolerant.weights = M!default_policy.weights /\ Tolerant.matched = 85
      /\ Tolerant.possible = 60 /\ Tolerant.review = 40
      /\ Tolerant.date_tolerance = 0 /\ Tolerant.amount_tolerance = 10
  BY DEF Tolerant, M!default_policy
<1>4. IsPolicy(Tolerant)
  BY <1>1, <1>3 DEF IsPolicy
<1>5. CASE p = M!default_policy
  BY <1>1, <1>2, <1>5 DEF IsWeighing, Tolerance, M!DEFAULT_AMOUNT_PCT
<1>6. CASE p = Tolerant
  <2>1. Tolerance(Tolerant) \in {10, 20}
    BY <1>3 DEF Tolerance, M!DEFAULT_AMOUNT_PCT
  <2> QED BY <1>3, <1>4, <1>2, <1>6, <2>1 DEF IsWeighing
<1> QED BY <1>5, <1>6

\* The first question is such a pair, if it is of a pair,
LEMMA AskedPairs == Init => PairAsked
<1> SUFFICES ASSUME Init, question.kind = "match" PROVE PairAsked
  BY DEF PairAsked
<1>1. ~AskAccount
  BY DEF AskAccount
<1>2. ~AskMapping /\ ~AskCopy
  BY DEF AskMapping, AskCopy
<1>3. PICK a \in RecordsOf({"t1", None}, {"EUR", None}, {0, 1000, None}, {"INVOICE100", "---", None},
                     {"Acme", None}, {1, None}, {"a-1", None}),
     b \in RecordsOf({"T1", None}, {"eur", "USD", None}, {1000, 1100}, {"INVOICE100", None},
                     {"acmo", "apex", None}, {4, None}, {"A1"}),
     policy \in {M!default_policy, Tolerant} :
    question = [kind |-> "match", a |-> a, b |-> b, policy |-> policy]
  <2>1. AskMatch
    BY <1>1, <1>2 DEF Init
  <2> QED BY ONLY <2>1 DEF AskMatch
<1>4. IsRecord(a) /\ \A f \in Uncarried : a[f] = None
  BY RecordAsked
<1>5. IsRecord(b) /\ \A f \in Uncarried : b[f] = None
  BY RecordAsked
<1>6. IsPolicy(policy)
  BY PolicyAsked DEF IsWeighing
<1> QED BY <1>3, <1>4, <1>5, <1>6 DEF PairAsked

\* and it does not change.
LEMMA AskedPairsStay == PairAsked /\ [Evaluate]_vars => PairAsked'
BY DEF PairAsked, Evaluate, vars

\* The first question is such a record, if it is of a copy,
LEMMA AskedCopies == Init => CopyAsked
<1> SUFFICES ASSUME Init, question.kind = "copy" PROVE CopyAsked
  BY DEF CopyAsked
<1>1. ~AskAccount /\ ~AskMatch /\ ~AskMapping
  BY DEF AskAccount, AskMatch, AskMapping
<1>2. PICK a \in Originals, policy \in {M!default_policy, Tolerant} :
    \E gaps \in SUBSET {f \in M!Fields : a[f] # None} :
      question = [kind |-> "copy", a |-> a, gaps |-> gaps, policy |-> policy]
  <2>1. AskCopy
    BY <1>1 DEF Init
  <2> QED BY ONLY <2>1 DEF AskCopy
<1>3. question.a = a /\ question.policy = policy
  BY <1>2
<1>4. IsRecord(a)
  <2>1. {-1000, 0, 1000, None} \subseteq Int \cup {None} /\ {1, None} \subseteq Int \cup {None}
    OBVIOUS
  <2> QED BY <2>1, RecordAsked DEF Originals
<1>5. IsWeighing(policy)
  BY PolicyAsked
<1> QED BY <1>3, <1>4, <1>5 DEF CopyAsked

\* and it does not change.
LEMMA AskedCopiesStay == CopyAsked /\ [Evaluate]_vars => CopyAsked'
BY DEF CopyAsked, Evaluate, vars

\* candidates.py, matching_service.py and matcher.py, of the copies that
\* MC_Evaluation asks about: narrowing, conflicts and verdict.
THEOREM CopyComparedAlways == Spec => []CopyCompared
<1>1. Init => Truthful
  BY DEF Init, Truthful
<1>2. Truthful /\ [Evaluate]_vars => Truthful'
  BY DEF Truthful, Evaluate, vars, Answer
<1>3. CopyAsked /\ Truthful => CopyCompared
  <2> SUFFICES ASSUME CopyAsked, Truthful, Answered("copy"), question.gaps \cap KeyFields = {}
               PROVE  CopyCompared
    BY DEF CopyCompared
  <2> DEFINE a == question.a
             gaps == question.gaps
             policy == question.policy
  <2>1. IsRecord(a) /\ IsWeighing(policy)
    BY DEF CopyAsked, Answered
  <2>2. answer = M!evaluate_pair(a, Copy(a, gaps), policy)
    BY DEF Truthful, Answered, Answer
  <2>3. gaps \cap KeyFields = {}
    OBVIOUS
  <2>4. CopyIsCandidate <=> M!_candidate_matches(Copy(a, gaps), M!narrowing_criteria(a, policy))
    BY DEF CopyIsCandidate
  <2> HIDE DEF a, gaps, policy
  <2>5. CopyIsCandidate <=> ~Negative(Copy(a, gaps).amount)
    BY <2>1, <2>3, <2>4, CopyAlwaysCandidate DEF IsWeighing
  <2>6. /\ answer.conflicts = {}
        /\ M!Compared(answer.results, policy) # {} => answer.classification = "MATCHED"
    BY <2>1, <2>2, CopyAlwaysMatched DEF IsWeighing
  <2>7. ASSUME NEW f \in {"transaction_id", "end_to_end_id"}, answer.results[f].status = "EXACT"
        PROVE  answer.classification = "MATCHED"
    <3>1. f \in M!Fields /\ policy.weights[f] > 0
      BY <2>1 DEF IsWeighing, M!Fields, M!Exact
    <3>2. f \in M!Compared(answer.results, policy)
      BY <2>7, <3>1 DEF M!Compared
    <3> QED BY <2>6, <3>2
  <2> QED BY <2>5, <2>6, <2>7 DEF CopyCompared, a, gaps
<1> QED BY <1>1, <1>2, <1>3, AskedCopies, AskedCopiesStay, PTL DEF Spec

\* matcher.py, _score and _classify, of the pairs that MC_Evaluation asks about.
THEOREM AgreementHelpsAlways == Spec => []AgreementHelps
<1>1. Init => Truthful
  BY DEF Init, Truthful
<1>2. Truthful /\ [Evaluate]_vars => Truthful'
  BY DEF Truthful, Evaluate, vars, Answer
<1>3. PairAsked /\ Truthful => AgreementHelps
  <2> SUFFICES ASSUME PairAsked, Truthful, Answered("match"), NEW f \in Uncarried
               PROVE  LET more == M!evaluate_pair([question.a EXCEPT ![f] = "same"],
                                  [question.b EXCEPT ![f] = "same"], question.policy)
                      IN  /\ more.score >= answer.score
                          /\ StandingOf(more.classification) >= StandingOf(answer.classification)
    BY DEF AgreementHelps, Uncarried
  <2> DEFINE a == question.a
             b == question.b
             policy == question.policy
  <2>1. /\ IsRecord(a) /\ IsRecord(b) /\ IsPolicy(policy)
        /\ a[f] = None /\ b[f] = None
    BY DEF PairAsked, Answered
  <2>2. answer = M!evaluate_pair(a, b, policy)
    BY DEF Truthful, Answered, Answer
  <2>3. f \in M!Fields /\ f \notin M!Dates
    BY DEF Uncarried, M!Fields, M!Exact, M!Fuzzy, M!Dates
  <2>4. M!evaluate_pair(a, b, policy).results[f].status = "MISSING"
    <3>1. M!evaluate_pair(a, b, policy).results[f] =
            M!FieldResult(f, M!normalize(M!Kind(f), None), M!normalize(M!Kind(f), None), policy)
      BY <2>1, <2>3, PairVerdict, FieldByField
    <3> QED BY <3>1 DEF M!normalize, M!FieldResult, M!Missing
  <2> HIDE DEF a, b, policy
  <2>5. LET more == M!evaluate_pair([a EXCEPT ![f] = "same"], [b EXCEPT ![f] = "same"], policy)
        IN  /\ more.score >= M!evaluate_pair(a, b, policy).score
            /\ StandingOf(more.classification)
                 >= StandingOf(M!evaluate_pair(a, b, policy).classification)
    BY <2>1, <2>3, <2>4, AgreementNeverHurts
  <2> QED BY <2>2, <2>5 DEF a, b, policy
<1> QED BY <1>1, <1>2, <1>3, AskedPairs, AskedPairsStay, PTL DEF Spec

-----------------------------------------------------------------------------
(* Mapped records.                                                          *)

\* The element that a fold over a sequence takes last.
Biggest(s) == CHOOSE x \in s : \A y \in s : x >= y

\* A set of the first numbers has a biggest element,
LEMMA BiggestIsThere ==
  ASSUME NEW n \in Nat, NEW s \in SUBSET (1..n), s # {}
  PROVE  Biggest(s) \in s
<1> DEFINE Held == {m \in Nat : \A r \in SUBSET (1..m) : r # {} => \E x \in r : \A y \in r : x >= y}
<1>1. 0 \in Held
  <2>1. 1..0 = {}
    OBVIOUS
  <2> QED BY <2>1
<1>2. ASSUME NEW m \in Held PROVE m + 1 \in Held
  <2> SUFFICES ASSUME NEW r \in SUBSET (1..(m + 1)), r # {}
               PROVE  \E x \in r : \A y \in r : x >= y
    OBVIOUS
  <2>1. CASE m + 1 \in r
    BY <2>1
  <2>2. CASE m + 1 \notin r
    <3>1. r \in SUBSET (1..m)
      BY <2>2
    <3> QED BY <3>1
  <2> QED BY <2>1, <2>2
<1>3. Held = Nat
  <2> HIDE DEF Held
  <2>1. Held \subseteq Nat
    BY DEF Held
  <2> QED BY <1>1, <1>2, <2>1, InductionOverNat
<1>4. \E x \in s : \A y \in s : x >= y
  BY <1>3
<1> QED BY <1>4 DEF Biggest

\* the one up to k has k, and without it is the one up to k - 1.
LEMMA FirstNumbers ==
  ASSUME NEW n \in Nat, NEW k \in 1..n
  PROVE  /\ 1..k \in SUBSET (1..n) /\ 1..k # {}
         /\ Biggest(1..k) = k /\ (1..k) \ {k} = 1..(k - 1)
<1>1. 1..k \in SUBSET (1..n) /\ 1..k # {} /\ (1..k) \ {k} = 1..(k - 1)
  OBVIOUS
<1>2. Biggest(1..k) = k
  <2> DEFINE b == Biggest(1..k)
  <2>1. \E x \in 1..k : \A y \in 1..k : x >= y
    OBVIOUS
  <2>2. b \in 1..k /\ \A y \in 1..k : b >= y
    BY <2>1 DEF Biggest
  <2> HIDE DEF b
  <2>3. b = k
    BY <2>2
  <2> QED BY <2>3 DEF b
<1> QED BY <1>1, <1>2

\* To take the biggest leaves a smaller set.
LEMMA SubsetsShrink ==
  ASSUME NEW n \in Nat, NEW s \in SUBSET (1..n)
  PROVE  /\ IsFiniteSet(s) /\ Cardinality(s) \in Nat /\ (Cardinality(s) = 0 <=> s = {})
         /\ s # {} => Biggest(s) \in s /\ Cardinality(s \ {Biggest(s)}) = Cardinality(s) - 1
<1>1. IsFiniteSet(s)
  <2>1. 1 \in Int /\ n \in Int
    OBVIOUS
  <2>2. IsFiniteSet(1..n)
    BY <2>1, FS_Interval, Zenon
  <2> QED BY <2>2, FS_Subset
<1>2. s # {} => Biggest(s) \in s
  BY BiggestIsThere
<1> QED BY <1>1, <1>2, FS_CardinalityType, FS_EmptySet, FS_RemoveElement

\* What the fold under MapRecord asks of the function it defines.
MapsSubsets(fields, record, P, g) ==
  g = [s \in P |-> IF s = {} THEN [tx |-> E!NoTransaction, issues |-> <<>>]
                   ELSE E!MapField(g[s \ {Biggest(s)}], fields[Biggest(s)], record)]

\* There is a function as the fold asks for one.
LEMMA MapFoldExists ==
  ASSUME NEW n \in Nat, NEW fields, NEW record
  PROVE  \E g : MapsSubsets(fields, record, SUBSET (1..n), g)
<1> DEFINE S == 1..n
           Held == {m \in Nat : \E g : MapsSubsets(fields, record, Small(S, m), g)}
<1>1. 0 \in Held
  <2>1. Small(S, 0) = {{}}
    <3>1. ASSUME NEW s \in SUBSET S PROVE Cardinality(s) <= 0 <=> s = {}
      <4>1. Cardinality(s) \in Nat /\ (Cardinality(s) = 0 <=> s = {})
        BY SubsetsShrink
      <4> QED BY <4>1
    <3> QED BY <3>1 DEF Small
  <2>2. MapsSubsets(fields, record, Small(S, 0),
                    [s \in Small(S, 0) |-> [tx |-> E!NoTransaction, issues |-> <<>>]])
    BY <2>1 DEF MapsSubsets
  <2> QED BY <2>2
<1>2. ASSUME NEW m \in Held PROVE m + 1 \in Held
  <2>1. PICK g : MapsSubsets(fields, record, Small(S, m), g)
    OBVIOUS
  <2> DEFINE Step(s, f) == IF s = {} THEN [tx |-> E!NoTransaction, issues |-> <<>>]
                           ELSE E!MapField(f[s \ {Biggest(s)}], fields[Biggest(s)], record)
             h == [s \in Small(S, m + 1) |-> Step(s, g)]
  <2>2. \A s \in Small(S, m + 1) : s # {} => s \ {Biggest(s)} \in Small(S, m)
    <3> SUFFICES ASSUME NEW s \in Small(S, m + 1), s # {}
                 PROVE  s \ {Biggest(s)} \in Small(S, m)
      OBVIOUS
    <3>1. s \in SUBSET S /\ Cardinality(s) <= m + 1
      BY DEF Small
    <3>2. Cardinality(s \ {Biggest(s)}) = Cardinality(s) - 1 /\ Cardinality(s) \in Nat
      BY <3>1, SubsetsShrink
    <3>3. s \ {Biggest(s)} \in SUBSET S /\ Cardinality(s \ {Biggest(s)}) <= m
      <4> HIDE DEF Held
      <4> DEFINE c == Cardinality(s)
                 e == Cardinality(s \ {Biggest(s)})
      <4>1. c \in Nat /\ e = c - 1 /\ c <= m + 1 /\ m \in Nat
        BY <3>1, <3>2 DEF Held
      <4> HIDE DEF c, e
      <4>2. e <= m
        BY <4>1
      <4> QED BY <3>1, <4>2 DEF e
    <3> QED BY <3>3 DEF Small
  <2>3. \A s \in Small(S, m) : s \in Small(S, m + 1)
    <3>1. ASSUME NEW s \in SUBSET S, Cardinality(s) <= m PROVE Cardinality(s) <= m + 1
      <4>1. Cardinality(s) \in Nat
        BY SubsetsShrink
      <4> QED BY <3>1, <4>1
    <3> QED BY <3>1 DEF Small
  <2>4. \A s \in Small(S, m) : g[s] = Step(s, g)
    BY <2>1, Zenon DEF MapsSubsets
  <2>5. \A s \in Small(S, m) : g[s] = h[s]
    BY <2>3, <2>4
  <2>6. \A s \in Small(S, m + 1) : Step(s, g) = Step(s, h)
    BY <2>2, <2>5
  <2>7. h = [s \in Small(S, m + 1) |-> Step(s, h)]
    <3> HIDE DEF Step
    <3>1. h = [s \in Small(S, m + 1) |-> Step(s, g)]
      OBVIOUS
    <3> HIDE DEF h
    <3> QED BY <2>6, <3>1
  <2>8. MapsSubsets(fields, record, Small(S, m + 1), h)
    <3> HIDE DEF h
    <3> QED BY <2>7 DEF MapsSubsets
  <2> HIDE DEF h
  <2> QED BY <2>8
<1>3. Held = Nat
  <2> HIDE DEF Held
  <2>1. Held \subseteq Nat
    BY DEF Held
  <2> QED BY <1>1, <1>2, <2>1, InductionOverNat
<1>4. n \in Held
  BY <1>3
<1>5. Cardinality(S) \in Held
  BY <1>3, SubsetsShrink
<1>6. Small(S, Cardinality(S)) = SUBSET S
  <2>1. IsFiniteSet(S)
    BY SubsetsShrink
  <2> QED BY <2>1, FS_Subset DEF Small
<1> QED BY <1>5, <1>6

\* done[k] is what has become of a record after the first k fields.
Steps(d, n, record, done) ==
  /\ done[0] = [tx |-> E!NoTransaction, issues |-> <<>>]
  /\ \A k \in 1..n : done[k] = E!MapField(done[k - 1], d.fields[k], record)
  /\ E!MapRecord(d, record) = done[n]

\* mapper.py, map_to_canonical: a record is mapped field by field, from an empty
\* transaction on.
LEMMA MappedFieldByField ==
  ASSUME NEW d, NEW n \in Nat, DOMAIN d.fields = 1..n, NEW record
  PROVE  \E done : Steps(d, n, record, done)
<1> DEFINE g == CHOOSE f : MapsSubsets(d.fields, record, SUBSET (1..n), f)
           done == [k \in 0..n |-> g[1..k]]
<1>1. MapsSubsets(d.fields, record, SUBSET (1..n), g)
  BY MapFoldExists
<1>2. E!MapRecord(d, record) = g[1..n]
  BY DEF MapsSubsets, E!MapRecord, E!FoldLeft, E!MapThenFoldSet, E!Max, Biggest
<1> HIDE DEF g
<1>3. \A s \in SUBSET (1..n) :
        g[s] = IF s = {} THEN [tx |-> E!NoTransaction, issues |-> <<>>]
               ELSE E!MapField(g[s \ {Biggest(s)}], d.fields[Biggest(s)], record)
  BY <1>1, Zenon DEF MapsSubsets
<1>4. done[0] = [tx |-> E!NoTransaction, issues |-> <<>>]
  <2>1. 1..0 = {} /\ {} \in SUBSET (1..n) /\ 0 \in 0..n
    OBVIOUS
  <2> QED BY <1>3, <2>1
<1>5. ASSUME NEW k \in 1..n PROVE done[k] = E!MapField(done[k - 1], d.fields[k], record)
  <2>1. /\ 1..k \in SUBSET (1..n) /\ 1..k # {}
        /\ Biggest(1..k) = k /\ (1..k) \ {k} = 1..(k - 1)
    BY FirstNumbers
  <2>2. g[1..k] = E!MapField(g[1..(k - 1)], d.fields[k], record)
    BY <1>3, <2>1
  <2>3. k \in 0..n /\ k - 1 \in 0..n
    OBVIOUS
  <2> QED BY <2>2, <2>3
<1>6. done[n] = g[1..n]
  OBVIOUS
<1>7. Steps(d, n, record, done)
  <2> HIDE DEF done
  <2> QED BY <1>2, <1>4, <1>5, <1>6 DEF Steps
<1> QED BY <1>7

\* What MappedOrReported asks of one field of one record.
Fated(done, fm, record) ==
  LET found == E!_get_value(record, fm.source)
      alone == E!_set_target(E!NoTransaction, fm.target,
                 E!_apply_transforms(IF E!Absent(found) THEN T(fm.default) ELSE found,
                                     fm.transforms))
  IN  IF E!Absent(found) /\ (fm.required \/ fm.default = None)
      THEN /\ done.tx[fm.target] = E!NoTransaction[fm.target]
           /\ (fm.target \in Range(done.issues)) <=> fm.required
      ELSE /\ done.tx[fm.target] = alone[fm.target]
           /\ fm.target \notin Range(done.issues)

\* A transaction being mapped, and the targets reported so far.
IsDone(done) ==
  /\ done = [tx |-> done.tx, issues |-> done.issues]
  /\ done.tx = [t \in E!_ALLOWED_TARGETS |-> done.tx[t]]
  /\ done.issues \in Seq(E!_ALLOWED_TARGETS)

\* What a sequence holds once a value is appended.
LEMMA Reported ==
  ASSUME NEW S, NEW s \in Seq(S), NEW x \in S
  PROVE  /\ Append(s, x) \in Seq(S)
         /\ \A y : y \in Range(Append(s, x)) <=> y = x \/ y \in Range(s)
<1>1. Append(s, x) \in Seq(S) /\ DOMAIN Append(s, x) = 1..(Len(s) + 1) /\ DOMAIN s = 1..Len(s)
  OBVIOUS
<1>2. \A i \in 1..Len(s) : Append(s, x)[i] = s[i]
  OBVIOUS
<1>3. Append(s, x)[Len(s) + 1] = x /\ Len(s) \in Nat
  OBVIOUS
<1> QED BY <1>1, <1>2, <1>3 DEF Range

\* _set_target changes its own target, and makes of it what it makes of that of an
\* empty transaction.
LEMMA TargetSet ==
  ASSUME NEW tx, tx = [t \in E!_ALLOWED_TARGETS |-> tx[t]],
         NEW target \in E!_ALLOWED_TARGETS, NEW value,
         tx[target] = E!NoTransaction[target]
  PROVE  LET new == E!_set_target(tx, target, value)
         IN  /\ new = [t \in E!_ALLOWED_TARGETS |-> new[t]]
             /\ new[target] = E!_set_target(E!NoTransaction, target, value)[target]
             /\ \A t \in E!_ALLOWED_TARGETS \ {target} : new[t] = tx[t]
<1>1. E!NoTransaction = [t \in E!_ALLOWED_TARGETS |-> E!NoTransaction[t]]
  BY DEF E!NoTransaction
<1> QED BY <1>1 DEF E!_set_target

\* mapper.py, one field of one record: it ends in its target or is reported, and
\* the other targets stay as they were.
LEMMA OneFieldMapped ==
  ASSUME NEW done, IsDone(done), NEW fm, fm.target \in E!_ALLOWED_TARGETS, NEW record,
         done.tx[fm.target] = E!NoTransaction[fm.target],
         fm.target \notin Range(done.issues)
  PROVE  LET new == E!MapField(done, fm, record)
         IN  /\ IsDone(new) /\ Fated(new, fm, record)
             /\ \A t \in E!_ALLOWED_TARGETS \ {fm.target} :
                  /\ new.tx[t] = done.tx[t]
                  /\ t \in Range(new.issues) <=> t \in Range(done.issues)
<1> DEFINE found == E!_get_value(record, fm.source)
           text == [kind |-> "text", v |-> fm.default]
           value == IF E!Absent(found) THEN text ELSE found
           given == E!_apply_transforms(value, fm.transforms)
           new == E!MapField(done, fm, record)
<1>1. new = IF E!Absent(found) /\ fm.required
            THEN [done EXCEPT !.issues = Append(@, fm.target)]
            ELSE IF E!Absent(value) THEN done
            ELSE [done EXCEPT !.tx = E!_set_target(@, fm.target, given)]
  BY DEF E!MapField
<1>2. E!Absent(text) <=> fm.default = None
  BY DEF E!Absent
<1>3. Fated(new, fm, record) <=>
        IF E!Absent(found) /\ (fm.required \/ fm.default = None)
        THEN /\ new.tx[fm.target] = E!NoTransaction[fm.target]
             /\ (fm.target \in Range(new.issues)) <=> fm.required
        ELSE /\ new.tx[fm.target] = E!_set_target(E!NoTransaction, fm.target, given)[fm.target]
             /\ fm.target \notin Range(new.issues)
  BY DEF Fated, T
<1>4. E!Absent(value) <=> E!Absent(found) /\ fm.default = None
  BY <1>2
<1> HIDE DEF found, value, given, new
<1>5. CASE E!Absent(found) /\ fm.required
  <2>1. /\ new.tx = done.tx /\ new.issues = Append(done.issues, fm.target)
        /\ new = [tx |-> new.tx, issues |-> new.issues]
    BY <1>1, <1>5 DEF IsDone
  <2>2. /\ Append(done.issues, fm.target) \in Seq(E!_ALLOWED_TARGETS)
        /\ \A y : y \in Range(Append(done.issues, fm.target))
                    <=> y = fm.target \/ y \in Range(done.issues)
    BY Reported DEF IsDone
  <2> QED BY <1>3, <1>5, <2>1, <2>2 DEF IsDone, new
<1>6. CASE ~(E!Absent(found) /\ fm.required) /\ E!Absent(value)
  <2>1. new = done
    BY <1>1, <1>6
  <2> QED BY <1>3, <1>4, <1>6, <2>1 DEF new
<1>7. CASE ~(E!Absent(found) /\ fm.required) /\ ~E!Absent(value)
  <2> DEFINE tx == E!_set_target(done.tx, fm.target, given)
  <2>1. /\ new.tx = tx /\ new.issues = done.issues
        /\ new = [tx |-> new.tx, issues |-> new.issues]
    BY <1>1, <1>7 DEF IsDone
  <2>2. /\ tx = [t \in E!_ALLOWED_TARGETS |-> tx[t]]
        /\ tx[fm.target] = E!_set_target(E!NoTransaction, fm.target, given)[fm.target]
        /\ \A t \in E!_ALLOWED_TARGETS \ {fm.target} : tx[t] = done.tx[t]
    BY TargetSet DEF IsDone
  <2> HIDE DEF tx
  <2> QED BY <1>3, <1>4, <1>7, <2>1, <2>2 DEF IsDone, new
<1> QED BY <1>5, <1>6, <1>7 DEF new

\* After the first j fields, these have had their fate, and no other target has
\* been touched.
MappedUpTo(d, record, done, j) ==
  /\ IsDone(done)
  /\ \A k \in 1..j : Fated(done, d.fields[k], record)
  /\ \A t \in E!_ALLOWED_TARGETS :
       (\A k \in 1..j : d.fields[k].target # t) =>
         done.tx[t] = E!NoTransaction[t] /\ t \notin Range(done.issues)

\* The fate of a field is in its own target.
LEMMA FateKept ==
  ASSUME NEW done, NEW new, NEW fm, NEW record,
         new.tx[fm.target] = done.tx[fm.target],
         fm.target \in Range(new.issues) <=> fm.target \in Range(done.issues),
         Fated(done, fm, record)
  PROVE  Fated(new, fm, record)
BY DEF Fated

\* mapper.py, "Missing REQUIRED source fields produce a structured MAP-001 finding
\* (never silently null)", for every valid definition, of whatever length, and
\* every record: each field ends in its own target, transformed, or is reported.
THEOREM EveryFieldMappedOrReported ==
  ASSUME NEW d, NEW n \in Nat, DOMAIN d.fields = 1..n, E!validate_mapping(d),
         NEW record
  PROVE  \A k \in 1..n : Fated(E!MapRecord(d, record), d.fields[k], record)
<1>0. PICK done : Steps(d, n, record, done)
  BY MappedFieldByField
<1>1. /\ done[0] = [tx |-> E!NoTransaction, issues |-> <<>>]
      /\ \A k \in 1..n : done[k] = E!MapField(done[k - 1], d.fields[k], record)
      /\ E!MapRecord(d, record) = done[n]
  BY <1>0 DEF Steps
<1>2. \A k \in 1..n :
        /\ d.fields[k].target \in E!_ALLOWED_TARGETS
        /\ \A j \in 1..n : d.fields[j].target = d.fields[k].target => k = j
  BY DEF E!validate_mapping
<1> DEFINE P == {j \in Nat : j <= n => MappedUpTo(d, record, done[j], j)}
<1>3. 0 \in P
  <2>1. 1..0 = {}
    OBVIOUS
  <2>2. IsDone(done[0])
    <3>1. <<>> \in Seq(E!_ALLOWED_TARGETS)
      OBVIOUS
    <3> QED BY <1>1, <3>1 DEF IsDone, E!NoTransaction
  <2>3. Range(done[0].issues) = {} /\ done[0].tx = E!NoTransaction
    BY <1>1 DEF Range
  <2> QED BY <2>1, <2>2, <2>3 DEF MappedUpTo
<1>4. ASSUME NEW j \in P PROVE j + 1 \in P
  <2> SUFFICES ASSUME j + 1 <= n PROVE MappedUpTo(d, record, done[j + 1], j + 1)
    OBVIOUS
  <2> DEFINE fm == d.fields[j + 1]
             old == done[j]
             new == done[j + 1]
  <2>1. MappedUpTo(d, record, old, j) /\ j \in Nat
    OBVIOUS
  <2>2. j + 1 \in 1..n /\ (j + 1) - 1 = j
    OBVIOUS
  <2>3. new = E!MapField(old, fm, record)
    BY <1>1, <2>2
  <2>4. /\ fm.target \in E!_ALLOWED_TARGETS
        /\ \A k \in 1..j : d.fields[k].target # fm.target
        /\ \A k \in 1..j : d.fields[k].target \in E!_ALLOWED_TARGETS
    <3>1. \A k \in 1..j : k \in 1..n /\ k # j + 1
      BY <2>1, <2>2
    <3> QED BY <1>2, <2>2, <3>1
  <2>5. 1..(j + 1) = (1..j) \cup {j + 1}
    BY <2>1
  <2> HIDE DEF P, fm, old, new
  <2>6. /\ IsDone(old) /\ old.tx[fm.target] = E!NoTransaction[fm.target]
        /\ fm.target \notin Range(old.issues)
    BY <2>1, <2>4 DEF MappedUpTo
  <2>7. /\ IsDone(new) /\ Fated(new, fm, record)
        /\ \A t \in E!_ALLOWED_TARGETS \ {fm.target} :
             /\ new.tx[t] = old.tx[t]
             /\ t \in Range(new.issues) <=> t \in Range(old.issues)
    BY <2>3, <2>4, <2>6, OneFieldMapped
  <2>8. \A k \in 1..j : Fated(new, d.fields[k], record)
    <3> TAKE k \in 1..j
    <3> DEFINE f == d.fields[k]
    <3>1. f.target \in E!_ALLOWED_TARGETS \ {fm.target} /\ Fated(old, f, record)
      BY <2>1, <2>4 DEF MappedUpTo
    <3> HIDE DEF f
    <3>2. Fated(new, f, record)
      BY <2>7, <3>1, FateKept
    <3> QED BY <3>2 DEF f
  <2>9. \A k \in 1..(j + 1) : Fated(new, d.fields[k], record)
    BY <2>5, <2>7, <2>8 DEF fm
  <2>10. ASSUME NEW t \in E!_ALLOWED_TARGETS, \A k \in 1..(j + 1) : d.fields[k].target # t
         PROVE  new.tx[t] = E!NoTransaction[t] /\ t \notin Range(new.issues)
    <3>1. t # fm.target /\ \A k \in 1..j : d.fields[k].target # t
      BY <2>5, <2>10 DEF fm
    <3> QED BY <2>1, <2>7, <3>1 DEF MappedUpTo
  <2>11. MappedUpTo(d, record, new, j + 1)
    BY <2>7, <2>9, <2>10 DEF MappedUpTo
  <2> QED BY <2>11 DEF new
<1>5. P = Nat
  <2> HIDE DEF P
  <2>1. P \subseteq Nat
    BY DEF P
  <2> QED BY <1>3, <1>4, <2>1, InductionOverNat
<1>6. MappedUpTo(d, record, done[n], n)
  BY <1>5
<1> QED BY <1>1, <1>6 DEF MappedUpTo

\* A definition asked about has two fields.
DefinitionAsked ==
  question.kind = "mapping" =>
    DOMAIN question.definition.fields = 1..2

\* The first question is of such a definition, if it is of a mapping,
LEMMA AskedDefinitions == Init => DefinitionAsked
<1> SUFFICES ASSUME Init, question.kind = "mapping" PROVE DefinitionAsked
  BY DEF DefinitionAsked
<1>1. ~AskAccount
  BY DEF AskAccount
<1>2. ~AskMatch /\ ~AskCopy
  BY DEF AskMatch, AskCopy
<1>3. PICK src \in Sources, f \in FieldMappings, g \in FieldMappings :
        question = [kind |-> "mapping", data |-> src.data,
                    definition |-> [source_format |-> src.format, record_selector |-> src.selector,
                                    fields |-> <<f, g>>]]
  BY <1>1, <1>2 DEF Init, AskMapping
<1>5. question.definition.fields = <<f, g>>
  BY <1>3
<1> QED BY <1>5 DEF DefinitionAsked

\* and it does not change.
LEMMA AskedDefinitionsStay == DefinitionAsked /\ [Evaluate]_vars => DefinitionAsked'
BY DEF DefinitionAsked, Evaluate, vars

\* mapper.py, of the definitions and payloads that MC_Evaluation asks about.
THEOREM MappedOrReportedAlways == Spec => []MappedOrReported
<1>1. Init => Truthful
  BY DEF Init, Truthful
<1>2. Truthful /\ [Evaluate]_vars => Truthful'
  BY DEF Truthful, Evaluate, vars, Answer
<1>3. DefinitionAsked /\ Truthful => MappedOrReported
  <2> SUFFICES ASSUME DefinitionAsked, Truthful, Answered("mapping"),
                      E!validate_mapping(question.definition)
               PROVE  MappedOrReported
    BY DEF MappedOrReported
  <2> DEFINE d == question.definition
             records == E!_extract_records(d, question.data)
  <2>1. DOMAIN d.fields = 1..2
    BY DEF DefinitionAsked, Answered
  <2>2. answer = E!map_to_canonical(d, question.data)
    BY DEF Truthful, Answered, Answer
  <2>3. answer = [i \in DOMAIN records |-> E!MapRecord(d, records[i])]
    BY <2>2 DEF E!map_to_canonical
  <2>4. E!validate_mapping(d)
    OBVIOUS
  <2> HIDE DEF records
  <2>5. ASSUME NEW i \in DOMAIN answer, NEW k \in DOMAIN d.fields
        PROVE  Fated(answer[i], d.fields[k], records[i])
    <3> HIDE DEF d
    <3>1. answer[i] = E!MapRecord(d, records[i])
      BY <2>3
    <3>2. \A j \in 1..2 : Fated(E!MapRecord(d, records[i]), d.fields[j], records[i])
      BY <2>1, <2>4, EveryFieldMappedOrReported
    <3> QED BY <2>1, <3>1, <3>2
  <2> QED BY <2>5 DEF MappedOrReported, Fated, records
<1> QED BY <1>1, <1>2, <1>3, AskedDefinitions, AskedDefinitionsStay, PTL DEF Spec
=============================================================================
