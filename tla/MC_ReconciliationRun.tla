------------------------ MODULE MC_ReconciliationRun ------------------------
(***************************************************************************)
(* Small instances of ReconciliationRun: two sources and two candidates;   *)
(* the verdicts change with the published policy.                          *)
(***************************************************************************)
EXTENDS ReconciliationRun, TLC

CONSTANTS r1, s1, s2, c1, c2, i1, i2, j1, j2

V(cls, score) == [cls |-> cls, score |-> score, poison |-> FALSE]
Out == V("DROPPED", 0)
Table(T) == [x \in Rows |-> [y \in Rows |-> IF <<x, y>> \in DOMAIN T THEN T[<<x, y>>] ELSE Out]]

\* One request: s1 and s2 compete for c1; s2 could also take c2.
OneRun      == {r1}
OneRows     == {s1, s2, c1, c2}
OneIds      == {i1, i2, j1, j2}
OneRecordId == s1 :> i1 @@ s2 :> i2 @@ c1 :> j1 @@ c2 :> j2
OneSource   == r1 :> {s1, s2}
OneCand     == r1 :> {c1, c2}
\* Baseline: s1 is a possible match of c1, s2 a match.  Version 1: s1 finds
\* nothing and evaluating s2 raises.  Version 2: s1's match keeps a raw Decimal.
OneVerdicts ==
  0 :> Table(<<s1, c1>> :> V("POSSIBLE_MATCH", 70) @@ <<s2, c1>> :> V("MATCHED", 90)
               @@ <<s2, c2>> :> V("REVIEW_REQUIRED", 50))
  @@ 1 :> Table(<<s1, c1>> :> V("UNMATCHED", 30) @@ <<s2, c1>> :> V("RAISES", 0))
  @@ 2 :> Table(<<s1, c1>> :> [V("MATCHED", 90) EXCEPT !.poison = TRUE])
OneJudge == [v \in Versions |-> OneVerdicts[v]]

\* A source with an amount paired with a candidate without one: the field
\* result keeps the raw Decimal.
PoisonJudge ==
  0 :> Table(<<s1, c1>> :> [V("MATCHED", 90) EXCEPT !.poison = TRUE]
               @@ <<s2, c2>> :> V("MATCHED", 95))

=============================================================================
