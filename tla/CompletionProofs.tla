-------------------------- MODULE CompletionProofs --------------------------
(***************************************************************************)
(* Theorems about Completion, for every plan, every gate and every reading *)
(* of its store: the receipts of a lineage form one chain within its       *)
(* budget, the codings of a gate's judgement agree, a genuine result is    *)
(* refused only for a reason, and a completion is satisfied exactly when   *)
(* every run of a complete receipt is the evidence of a poll that found    *)
(* what its role is to show.                                               *)
(*                                                                         *)
(* Most of the argument is about one receipt: what recomputing a gate's    *)
(* verdict from the projection of its checks gives, whichever of its two   *)
(* codings is used.  The rest follows the chain: the cycle under way is    *)
(* the one that its generation and the receipts before it make (CycleKept),*)
(* each receipt is the seal of such a cycle (ReceiptsKept), and an         *)
(* assessment under way counts as faults exactly the lookups that did not  *)
(* vouch for the receipt it started from (AssessmentKept).                 *)
(***************************************************************************)
EXTENDS Completion, FiniteSetTheorems, TLAPS

\* The projected checks of a result.
Reports(g) == [k \in DOMAIN g.checks |-> Report(g.checks[k])]

Status == [reachable : BOOLEAN, complete : BOOLEAN, authentic : BOOLEAN]

LEMMA CheckTyped ==
  ASSUME NEW g \in Gates, NEW k \in DOMAIN g.checks
  PROVE  LET c == g.checks[k]
         IN /\ c.kind \in DOMAIN Kinds
            /\ c.optional \in BOOLEAN /\ c.pending \in BOOLEAN /\ c.weight \in Nat
            /\ Passed(c) \in BOOLEAN /\ Charged(c) \in BOOLEAN
            /\ c.kind = "external" => c.rule \in Externals
<1> DEFINE c == g.checks[k]
<1>1. /\ c.kind \in DOMAIN Kinds
      /\ c.rule \in Kinds[c.kind]
      /\ c.optional \in BOOLEAN /\ c.pending \in BOOLEAN /\ c.weight \in Nat
  BY GateAssumption
<1>2. Passed(c) \in BOOLEAN
  BY DEF Passed, Holding, AggregatePassed, Holds
<1>3. Charged(c) \in BOOLEAN
  <2>1. c.kind \in {"count", "present", "must_order", "absent", "duration", "conforms",
          "heartbeat", "ratioMetric", "invariant", "metamorphic", "aggregate", "external"}
    BY <1>1 DEF Kinds
  <2>2. c.kind # "external" => Saw(c, Run(c)) \in BOOLEAN
    <3> SUFFICES ASSUME NEW m, c.kind # "external" PROVE Saw(c, m) \in BOOLEAN
      OBVIOUS
    <3>1. CASE c.kind = "count"
      BY <3>1 DEF Saw
    <3>2. CASE c.kind = "duration"
      BY <3>2 DEF Saw
    <3>3. CASE c.kind = "conforms"
      BY <3>3 DEF Saw
    <3>4. CASE c.kind = "absent"
      BY <3>4 DEF Saw, SawOffender
    <3>5. CASE c.kind = "present"
      BY <3>5 DEF Saw
    <3>6. CASE c.kind = "must_order"
      BY <3>6 DEF Saw
    <3>7. CASE c.kind = "heartbeat"
      BY <3>7 DEF Saw
    <3>8. CASE c.kind = "ratioMetric"
      BY <3>8 DEF Saw
    <3>9. CASE c.kind = "invariant"
      BY <3>9 DEF Saw
    <3>10. CASE c.kind = "metamorphic"
      BY <3>10 DEF Saw
    <3>11. CASE c.kind = "aggregate"
      BY <3>11 DEF Saw
    <3> QED BY <2>1, <3>1, <3>2, <3>3, <3>4, <3>5, <3>6, <3>7, <3>8, <3>9, <3>10, <3>11
  <2>3. CASE c.kind = "external"
    BY <2>3 DEF Charged
  <2>4. CASE c.kind # "external"
    BY <2>2, <2>4 DEF Charged
  <2> QED BY <2>3, <2>4
<1>4. c.kind = "external" => c.rule \in Externals
  BY <1>1 DEF Kinds
<1> QED BY <1>1, <1>2, <1>3, <1>4

\* Authority, and everything the tier rests on, is the same read off a check and off its report.
LEMMA ReportAgrees ==
  ASSUME NEW g \in Gates, NEW k \in DOMAIN g.checks
  PROVE  LET c == g.checks[k]
             r == Reports(g)[k]
         IN /\ k \in ProjectedGating(Reports(g)) <=> Authoritative(c)
            /\ r.passed = Passed(c) /\ r.charged = Charged(c)
            /\ r.grounding = "corroborated" <=> c.kind = "external" /\ c.rule.separate
            /\ r.strength \in {"invariant", "metamorphic"}
                 <=> c.kind \in {"invariant", "metamorphic"}
BY CheckTyped DEF Reports, ProjectedGating, Authoritative, Report, Strength

\* The checks with authority, by their indices in the report.
LEMMA GatingIndexed ==
  ASSUME NEW g \in Gates
  PROVE  LET K == ProjectedGating(Reports(g))
         IN /\ K \subseteq DOMAIN g.checks
            /\ Gating(g) = {<<k, g.checks[k]>> : k \in K}
            /\ \A k \in K : \E p \in Gating(g) : p[1] = k /\ p[2] = g.checks[k]
            /\ \A p \in Gating(g) : \E k \in K : p[1] = k /\ p[2] = g.checks[k]
<1> DEFINE K == ProjectedGating(Reports(g))
<1>1. K \subseteq DOMAIN g.checks
  BY DEF ProjectedGating, Reports
<1>2. ASSUME NEW k \in DOMAIN g.checks
      PROVE  k \in K <=> Authoritative(g.checks[k])
  BY ReportAgrees
<1>3. Gating(g) = {<<k, g.checks[k]>> : k \in K}
  BY <1>1, <1>2 DEF Gating, CheckSet
<1> HIDE DEF K
<1>4. ASSUME NEW k \in K
      PROVE  \E p \in Gating(g) : p[1] = k /\ p[2] = g.checks[k]
  <2> DEFINE p == <<k, g.checks[k]>>
  <2>1. p \in Gating(g) /\ p[1] = k /\ p[2] = g.checks[k]
    BY <1>3
  <2> QED BY <2>1
<1>5. ASSUME NEW p \in Gating(g)
      PROVE  \E k \in K : p[1] = k /\ p[2] = g.checks[k]
  <2>1. PICK k \in K : p = <<k, g.checks[k]>>
    BY <1>3
  <2> QED BY <2>1
<1> QED BY <1>1, <1>3, <1>4, <1>5 DEF K

LEMMA CorroboratedIndexed ==
  ASSUME NEW g \in Gates
  PROVE  Corroborated(g) = {<<k, g.checks[k]>> : k \in ProjectedCorroborated(Reports(g))}
<1>1. /\ ProjectedGating(Reports(g)) \subseteq DOMAIN g.checks
      /\ ProjectedCorroborated(Reports(g)) \subseteq ProjectedGating(Reports(g))
  BY DEF ProjectedGating, ProjectedCorroborated, Reports
<1>2. ASSUME NEW k \in ProjectedGating(Reports(g))
      PROVE  k \in ProjectedCorroborated(Reports(g)) <=>
               /\ g.checks[k].kind = "external" /\ g.checks[k].rule.separate
               /\ observed[g.checks[k].rule] = "passes"
  BY <1>1, ReportAgrees DEF ProjectedCorroborated, Passed
<1>3. Corroborated(g) =
        {p \in {<<k, g.checks[k]>> : k \in ProjectedGating(Reports(g))} :
           /\ p[2].kind = "external" /\ p[2].rule.separate
           /\ observed[p[2].rule] = "passes"}
  BY GatingIndexed DEF Corroborated
<1> QED BY <1>1, <1>2, <1>3

\* The tier that the adapter recomputes is the engine's.
LEMMA TierAgrees ==
  ASSUME NEW g \in Gates, NEW settleEarly
  PROVE  AdaptedTier(Verification(g, settleEarly)) = EvidenceTier(g)
<1> DEFINE C == Reports(g)
           G == ProjectedGating(C)
<1>1. AdaptedTier(Verification(g, settleEarly))
        = ProjectedTier(C, source.reachable, "sampled" \in Caps)
  BY DEF AdaptedTier, Verification, Result, Reports
<1>2. G \subseteq DOMAIN g.checks
  BY DEF ProjectedGating, Reports
<1>a. /\ \A k \in G : \E p \in Gating(g) : p[1] = k /\ p[2] = g.checks[k]
      /\ \A p \in Gating(g) : \E k \in G : p[1] = k /\ p[2] = g.checks[k]
      /\ Corroborated(g) = {<<k, g.checks[k]>> : k \in ProjectedCorroborated(C)}
  BY GatingIndexed, CorroboratedIndexed
<1>b. \A k \in G : /\ C[k].passed = Passed(g.checks[k]) /\ C[k].charged = Charged(g.checks[k])
                   /\ C[k].strength \in {"invariant", "metamorphic"}
                        <=> g.checks[k].kind \in {"invariant", "metamorphic"}
  BY <1>2, ReportAgrees
<1>c. ProjectedTier(C, source.reachable, "sampled" \in Caps) =
        IF G = {} \/ ~ source.reachable THEN "local_pass"
        ELSE IF ProjectedCorroborated(C) # {} THEN "external_verdict"
        ELSE IF \E k \in G : C[k].passed /\ C[k].strength \in {"invariant", "metamorphic"}
             THEN IF "sampled" \in Caps THEN "arrived" ELSE "queryable_causal"
        ELSE IF \E k \in G : C[k].charged THEN "arrived" ELSE "emitted"
  BY DEF ProjectedTier
<1> HIDE DEF C, G
<1>3. G = {} <=> Gating(g) = {}
  BY <1>a
<1>4. ProjectedCorroborated(C) = {} <=> Corroborated(g) = {}
  BY <1>a
<1>5. (\E k \in G : C[k].passed /\ C[k].strength \in {"invariant", "metamorphic"})
        <=> \E p \in Earning(g) : p[2].kind \in {"invariant", "metamorphic"}
  BY <1>a, <1>b DEF Earning
<1>6. (\E k \in G : C[k].charged) <=> \E p \in Gating(g) : Charged(p[2])
  BY <1>a, <1>b
<1> QED BY <1>1, <1>c, <1>3, <1>4, <1>5, <1>6 DEF EvidenceTier
-----------------------------------------------------------------------------
(* Whatever the adapter accepts, the validator accepts.                    *)

Projections(g) == [k \in DOMAIN Reports(g) |-> Projection(Reports(g)[k])]

LEMMA ProjectionKeeps ==
  ASSUME NEW g \in Gates
  PROVE  /\ DOMAIN Projections(g) = DOMAIN Reports(g)
         /\ \A k \in DOMAIN Reports(g) :
              LET d == Projections(g)[k]
                  r == Reports(g)[k]
              IN /\ d \in CheckVocabulary
                 /\ d.passed = r.passed /\ d.optional = r.optional /\ d.pending = r.pending
                 /\ d.tautological = r.tautological /\ d.weight = r.weight
                 /\ d.strength = r.strength /\ d.charged = r.charged
                 /\ d.grounding = r.grounding
<1>1. DOMAIN Projections(g) = DOMAIN Reports(g) /\ DOMAIN Reports(g) = DOMAIN g.checks
  BY DEF Projections, Reports
<1> SUFFICES ASSUME NEW k \in DOMAIN g.checks
             PROVE  LET d == Projections(g)[k]
                        r == Reports(g)[k]
                    IN /\ d \in CheckVocabulary
                       /\ d.passed = r.passed /\ d.optional = r.optional
                       /\ d.pending = r.pending
                       /\ d.tautological = r.tautological /\ d.weight = r.weight
                       /\ d.strength = r.strength /\ d.charged = r.charged
                       /\ d.grounding = r.grounding
  BY <1>1
<1> DEFINE c == g.checks[k]
<1>2. /\ Reports(g)[k] = Report(c)
      /\ Projections(g)[k] = Projection(Report(c))
  BY <1>1 DEF Projections, Reports
<1>3. /\ Report(c).passed = Passed(c) /\ Report(c).charged = Charged(c)
      /\ Report(c).optional = c.optional /\ Report(c).pending = c.pending
      /\ Report(c).weight = c.weight
      /\ Report(c).tautological \in BOOLEAN
      /\ Report(c).strength \in {"external", "invariant", "metamorphic", "weaker"}
      /\ Report(c).grounding \in {"corroborated", "derived-self"}
      /\ DOMAIN Report(c) = {"passed", "optional", "pending", "tautological", "weight",
                             "strength", "charged", "grounding", "reader"}
  BY DEF Report, Strength
<1>4. /\ c.optional \in BOOLEAN /\ c.pending \in BOOLEAN /\ c.weight \in Nat
      /\ Passed(c) \in BOOLEAN /\ Charged(c) \in BOOLEAN
  BY CheckTyped
<1> HIDE DEF c
<1> QED BY <1>2, <1>3, <1>4 DEF Projection, CheckVocabulary

LEMMA RecomputedAlike ==
  ASSUME NEW g \in Gates
  PROVE  LET C == Reports(g)
             D == Projections(g)
         IN /\ ProjectedGating(D) = ProjectedGating(C)
            /\ ProjectedCorroborated(D) = ProjectedCorroborated(C)
            /\ ProjectedScore(D) = ProjectedScore(C)
            /\ \A threshold :
                 ProjectedRequiredOk(D, threshold) <=> ProjectedRequiredOk(C, threshold)
            /\ \A reachable, sampled :
                 ProjectedTier(D, reachable, sampled) = ProjectedTier(C, reachable, sampled)
<1> DEFINE C == Reports(g)
           D == Projections(g)
<1>1. /\ DOMAIN D = DOMAIN C
      /\ \A k \in DOMAIN C :
           /\ D[k].passed = C[k].passed /\ D[k].optional = C[k].optional
           /\ D[k].pending = C[k].pending /\ D[k].tautological = C[k].tautological
           /\ D[k].weight = C[k].weight /\ D[k].strength = C[k].strength
           /\ D[k].charged = C[k].charged /\ D[k].grounding = C[k].grounding
  BY ProjectionKeeps
<1> HIDE DEF C, D
<1>2. ProjectedGating(D) = ProjectedGating(C)
  BY <1>1 DEF ProjectedGating
<1>3. ProjectedGating(C) \subseteq DOMAIN C
  BY DEF ProjectedGating
<1>4. ProjectedCorroborated(D) = ProjectedCorroborated(C)
  BY <1>1, <1>2, <1>3 DEF ProjectedCorroborated
<1>5. ProjectedScore(D) = ProjectedScore(C)
  <2>1. WeightOf(D) = WeightOf(C)
    BY <1>1 DEF WeightOf
  <2>2. {k \in ProjectedGating(D) : D[k].passed} = {k \in ProjectedGating(C) : C[k].passed}
    BY <1>1, <1>2, <1>3
  <2> QED BY <1>2, <2>1, <2>2 DEF ProjectedScore
<1>6. ASSUME NEW threshold
      PROVE  ProjectedRequiredOk(D, threshold) <=> ProjectedRequiredOk(C, threshold)
  BY <1>1, <1>2, <1>3, <1>5 DEF ProjectedRequiredOk
<1>7. ASSUME NEW reachable, NEW sampled
      PROVE  ProjectedTier(D, reachable, sampled) = ProjectedTier(C, reachable, sampled)
  BY <1>1, <1>2, <1>3, <1>4 DEF ProjectedTier
<1> QED BY <1>2, <1>4, <1>5, <1>6, <1>7 DEF C, D
LEMMA IndicesOf ==
  ASSUME NEW K, NEW f
  PROVE  Indices({<<k, f[k]>> : k \in K}) = K
<1> DEFINE P == {<<k, f[k]>> : k \in K}
<1>1. ASSUME NEW k \in K PROVE k \in Indices(P)
  <2>1. <<k, f[k]>> \in P /\ <<k, f[k]>>[1] = k
    OBVIOUS
  <2> QED BY <2>1 DEF Indices
<1>2. ASSUME NEW k \in Indices(P) PROVE k \in K
  <2>1. PICK p \in P : k = p[1]
    BY DEF Indices
  <2>2. PICK j \in K : p = <<j, f[j]>>
    OBVIOUS
  <2> QED BY <2>1, <2>2
<1> QED BY <1>1, <1>2

LEMMA CorroborationCounted ==
  ASSUME NEW g \in Gates
  PROVE  /\ Indices(Corroborated(g)) = ProjectedCorroborated(Reports(g))
         /\ Cardinality(Indices(Corroborated(g))) \in Nat
<1> DEFINE n == Len(g.checks)
<1>1. n \in Nat /\ DOMAIN g.checks = 1 .. n
  BY GateAssumption
<1>2. Indices(Corroborated(g)) = ProjectedCorroborated(Reports(g))
  BY CorroboratedIndexed, IndicesOf
<1>3. ProjectedCorroborated(Reports(g)) \subseteq 1 .. n
  BY <1>1 DEF ProjectedCorroborated, ProjectedGating, Reports
<1>4. IsFiniteSet(ProjectedCorroborated(Reports(g)))
  <2>1. IsFiniteSet(1 .. n)
    BY <1>1, FS_Interval
  <2> QED BY <1>3, <2>1, FS_Subset
<1> QED BY <1>2, <1>4, FS_CardinalityType

LEMMA AdaptedIsValidated ==
  ASSUME NEW g \in Gates, NEW settleEarly, ~ Raises(g), source \in Status,
         NEW q, q.role \in RunRole, Adapts(Verification(g, settleEarly), q)
  PROVE  LET d == Document(Verification(g, settleEarly), q)
         IN ValidFor(d, RunEvidence(d), q.cycle, q.boundary)
<1> DEFINE v == Verification(g, settleEarly)
           d == Document(v, q)
           C == Reports(g)
           D == Projections(g)
<1>1. /\ v.checks = C /\ v.ok = Ok(g) /\ v.verdict = VerdictOf(g, Ok(g))
      /\ v.reachable = source.reachable /\ v.complete = source.complete
      /\ v.probe = ProbeReachable(g) /\ v.threshold = g.threshold /\ v.policy = g.policy
      /\ v.corroborated = Cardinality(Indices(Corroborated(g)))
      /\ v.authenticated \in {source.authentic, None}
      /\ v.independent \in BOOLEAN /\ v.sampled \in BOOLEAN
  BY DEF Verification, Result, Reports
<1>2. /\ d.role = q.role /\ d.run = q.run /\ d.cycle = q.cycle /\ d.lock = q.lock
      /\ d.executed = q.executed /\ d.boundary = q.boundary /\ d.subject = q.subject
      /\ d.lifecycle = Lifecycle(v, q)
      /\ d.verdict = v.verdict /\ d.reachable = v.reachable /\ d.complete = v.complete
      /\ d.probe = v.probe /\ d.ok = v.ok /\ d.score = v.score
      /\ d.threshold = v.threshold /\ d.gating = ProjectedGating(v.checks)
      /\ d.checks = [k \in DOMAIN v.checks |-> Projection(v.checks[k])]
      /\ d.tier = AdaptedTier(v) /\ d.emit = v.emit /\ d.readers = Readers(v.checks)
      /\ d.corroborated = v.corroborated /\ d.policy = v.policy
      /\ d.authenticated = v.authenticated /\ d.independent = v.independent
      /\ d.sampled = v.sampled
  BY DEF Document
<1>3. d.checks = D
  BY <1>1, <1>2 DEF Projections
<1>4. /\ ProjectedGating(D) = ProjectedGating(C)
      /\ ProjectedCorroborated(D) = ProjectedCorroborated(C)
      /\ ProjectedScore(D) = ProjectedScore(C)
      /\ \A threshold :
           ProjectedRequiredOk(D, threshold) <=> ProjectedRequiredOk(C, threshold)
      /\ \A reachable, sampled :
           ProjectedTier(D, reachable, sampled) = ProjectedTier(C, reachable, sampled)
  BY RecomputedAlike
<1>5. \A k \in DOMAIN D : D[k] \in CheckVocabulary
  BY ProjectionKeeps
<1>6. /\ Ok(g) \in BOOLEAN /\ ProbeReachable(g) \in BOOLEAN
      /\ g.threshold \in 1 .. 100 \cup {None}
      /\ VerdictOf(g, Ok(g)) \in {"present", "absent", "inconclusive"}
      /\ Cardinality(Indices(Corroborated(g))) \in Nat
      /\ source.reachable \in BOOLEAN /\ source.complete \in BOOLEAN
      /\ source.authentic \in BOOLEAN
  <2>1. Ok(g) \in BOOLEAN
    BY DEF Ok
  <2>2. ProbeReachable(g) \in BOOLEAN
    BY DEF ProbeReachable
  <2>3. VerdictOf(g, Ok(g)) \in {"present", "absent", "inconclusive"}
    BY DEF VerdictOf
  <2> QED BY <2>1, <2>2, <2>3, GateAssumption, CorroborationCounted DEF Status
<1>7. /\ RightRequest(q) /\ v.emit = q.boundary.emit /\ Consistent(v)
      /\ SubjectObserved(v, q)
      /\ Grounded(AdaptedTier(v), q.boundary, Readers(v.checks))
      /\ q.role \in GreenRole /\ ~ InfraUncertain(v) =>
           v.verdict = "present" /\ AdaptedTier(v) \in CompletionTier
  BY DEF Adapts
<1>8. InfraUncertain(d) <=> InfraUncertain(v)
  BY <1>2 DEF InfraUncertain
<1>9. ProjectedOk(d) <=> ProjectedOk(v)
  BY <1>1, <1>2, <1>3, <1>4 DEF ProjectedOk
<1>10. AdaptedTier(v) = ProjectedTier(C, v.reachable, v.sampled)
  BY <1>1 DEF AdaptedTier
<1> HIDE DEF v, d, C, D
<1>11. ClosedShape(d)
  <2>1. d.role \in RunRole /\ d.subject \in {"red", "green"}
    BY <1>2, <1>7 DEF RightRequest, Expected
  <2>2. d.lifecycle \in {"red", "green", "inconclusive"}
    BY <1>2, <2>1 DEF Lifecycle
  <2>3. d.tier \in CompletionTier \cup {"local_pass", "emitted"}
    BY <1>2, <1>10 DEF ProjectedTier, CompletionTier
  <2>4. d.authenticated \in BOOLEAN \cup {None}
    BY <1>1, <1>2, <1>6
  <2> QED BY <1>1, <1>2, <1>3, <1>5, <1>6, <2>1, <2>2, <2>3, <2>4
          DEF ClosedShape, DocumentVocabulary
<1>12. ValidBinding(d)
  BY <1>2, <1>7 DEF ValidBinding, RightRequest
<1>13. ValidReadback(d)
  <2>1. ProjectedVerdict(d) = ProjectedVerdict(v)
    BY <1>2, <1>8 DEF ProjectedVerdict
  <2> QED BY <1>2, <1>7, <1>8, <2>1 DEF ValidReadback, Consistent, Lifecycle
<1>14. ValidAggregation(d)
  <2>1. d.gating = ProjectedGating(d.checks)
    BY <1>1, <1>2, <1>3, <1>4
  <2>2. /\ (d.threshold = None) = (d.score = NoScore)
        /\ d.threshold # None => d.score = ProjectedScore(d.checks) /\ d.score.total > 0
    <3>1. /\ (v.threshold = None) = (v.score = NoScore)
          /\ v.threshold # None => v.score = ProjectedScore(C) /\ v.score.total > 0
      BY <1>1, <1>7 DEF Consistent
    <3>2. d.threshold = v.threshold /\ d.score = v.score
      BY <1>2
    <3>3. ProjectedScore(d.checks) = ProjectedScore(C)
      BY <1>3, <1>4
    <3> QED BY <3>1, <3>2, <3>3
  <2>3. d.ok = ProjectedOk(d)
    <3>1. /\ ProjectedOk(d) = ProjectedOk(v)
      BY <1>9 DEF ProjectedOk
    <3> QED BY <1>2, <1>7, <3>1 DEF Consistent
  <2>4. ~ InfraUncertain(d) =>
          /\ d.subject = IF d.ok THEN "green" ELSE "red"
          /\ d.subject = "red" => ~ ProjectedRequiredOk(d.checks, d.threshold)
    BY <1>1, <1>2, <1>3, <1>4, <1>7, <1>8 DEF SubjectObserved
  <2> QED BY <2>1, <2>2, <2>3, <2>4 DEF ValidAggregation
<1>15. ValidOracle(d)
  <2>1. d.tier = ProjectedTier(d.checks, d.reachable, d.sampled)
    BY <1>2, <1>3, <1>4, <1>10
  <2>2. d.role \in GreenRole /\ d.lifecycle # "inconclusive" =>
          d.verdict = "present" /\ d.tier \in CompletionTier
    BY <1>2, <1>7 DEF Lifecycle
  <2> QED BY <1>1, <1>2, <1>3, <1>4, <1>7, <2>1, <2>2 DEF ValidOracle, Consistent
<1>16. ValidDocument(d)
  BY <1>11, <1>12, <1>13, <1>14, <1>15 DEF ValidDocument
<1> QED BY <1>2, <1>16 DEF ValidFor, d, v
-----------------------------------------------------------------------------
(* A genuine result is refused for a reason.                               *)

LEMMA ScoreAgrees ==
  ASSUME NEW g \in Gates
  PROVE  LET C == Reports(g)
         IN /\ Weight(g, Gating(g)) = ProjectedScore(C).total
            /\ Weight(g, {p \in Gating(g) : C[p[1]].passed}) = ProjectedScore(C).passed
            /\ Weight(g, {p \in Gating(g) : Passed(p[2])}) = ProjectedScore(C).passed
<1> DEFINE C == Reports(g)
           K == ProjectedGating(C)
           passed == {k \in K : C[k].passed}
<1>1. Gating(g) = {<<k, g.checks[k]>> : k \in K}
  BY GatingIndexed
<1>2. \A k \in K : k \in DOMAIN g.checks /\ C[k].passed = Passed(g.checks[k])
  BY ReportAgrees DEF ProjectedGating, Reports
<1>3. WeightOf(C) = WeightOf(g.checks)
  BY DEF WeightOf, Reports, Report
<1>4. /\ ProjectedScore(C).total = SumOf(WeightOf(C), K)
      /\ ProjectedScore(C).passed = SumOf(WeightOf(C), passed)
  BY DEF ProjectedScore
<1> HIDE DEF C, K
<1>5. Indices(Gating(g)) = K
  BY <1>1, IndicesOf
<1>6. {p \in Gating(g) : C[p[1]].passed} = {<<k, g.checks[k]>> : k \in passed}
  BY <1>1
<1>7. {p \in Gating(g) : Passed(p[2])} = {<<k, g.checks[k]>> : k \in passed}
  BY <1>1, <1>2
<1> HIDE DEF passed
<1>8. Indices({<<k, g.checks[k]>> : k \in passed}) = passed
  BY IndicesOf
<1> QED BY <1>3, <1>4, <1>5, <1>6, <1>7, <1>8 DEF Weight, C

\* The engine's judgement is the adapter's: unless a probe was down beside a green gate,
\* the result says what its own checks say.
LEMMA GenuineIsConsistent ==
  ASSUME NEW g \in Gates, NEW settleEarly, ~ Raises(g), source \in Status,
         ~ (Ok(g) /\ ~ ProbeReachable(g))
  PROVE  /\ Consistent(Verification(g, settleEarly))
         /\ ProjectedRequiredOk(Reports(g), g.threshold) <=> RequiredOk(g)
<1> DEFINE v == Verification(g, settleEarly)
           C == Reports(g)
           K == ProjectedGating(C)
<1>1. /\ v.checks = C /\ v.ok = Ok(g) /\ v.verdict = VerdictOf(g, Ok(g))
      /\ v.reachable = source.reachable /\ v.complete = source.complete
      /\ v.probe = ProbeReachable(g) /\ v.threshold = g.threshold /\ v.policy = g.policy
      /\ v.corroborated = Cardinality(Indices(Corroborated(g)))
      /\ v.authenticated = IF "signature" \in g.policy /\ Gating(g) # {}
                           THEN source.authentic ELSE None
      /\ v.independent = ("dependent" \notin Caps)
      /\ v.score = IF g.threshold = None THEN NoScore
                   ELSE [passed |-> Weight(g, {p \in Gating(g) : C[p[1]].passed}),
                         total |-> Weight(g, Gating(g))]
  BY DEF Verification, Result, Reports
<1>2. /\ K \subseteq DOMAIN g.checks
      /\ \A k \in K : \E p \in Gating(g) : p[1] = k /\ p[2] = g.checks[k]
      /\ \A p \in Gating(g) : \E k \in K : p[1] = k /\ p[2] = g.checks[k]
  BY GatingIndexed
<1>3. K = {} <=> Gating(g) = {}
  BY <1>2
<1>4. ProjectedCorroborated(C) = Indices(Corroborated(g))
      /\ (ProjectedCorroborated(C) = {} <=> Corroborated(g) = {})
  <2>1. ProjectedCorroborated(C) = Indices(Corroborated(g))
    BY CorroborationCounted
  <2> QED BY <2>1 DEF Indices
<1>5. ProjectedRequiredOk(C, g.threshold) <=> RequiredOk(g)
  <2>1. CASE g.threshold = None
    <3>1. RequiredOk(g) <=> \A k \in K : Passed(g.checks[k])
      BY <1>2, <2>1 DEF RequiredOk, Suffices
    <3>2. \A k \in K : C[k].passed = Passed(g.checks[k])
      BY <1>2, ReportAgrees
    <3> QED BY <2>1, <3>1, <3>2 DEF ProjectedRequiredOk
  <2>2. CASE g.threshold # None
    <3>1. RequiredOk(g) <=>
            100 * ProjectedScore(C).passed >= g.threshold * ProjectedScore(C).total
      BY <2>2, ScoreAgrees DEF RequiredOk, Suffices
    <3> QED BY <2>2, <3>1 DEF ProjectedRequiredOk, Reaches
  <2> QED BY <2>1, <2>2
<1>6. /\ Ok(g) \in BOOLEAN /\ ProbeReachable(g) \in BOOLEAN
      /\ source.reachable \in BOOLEAN /\ source.complete \in BOOLEAN
      /\ source.authentic \in BOOLEAN /\ None \notin BOOLEAN
  BY OracleAssumption DEF Ok, ProbeReachable, Status
<1> HIDE DEF v, C, K
<1>7. v.ok = ProjectedOk(v)
  <2>1. Ok(g) <=> ProjectedOk(v)
    BY <1>1, <1>3, <1>4, <1>5, <1>6 DEF Ok, ProjectedOk, Readable, K
  <2> QED BY <1>1, <1>6, <2>1 DEF ProjectedOk
<1>8. v.verdict = ProjectedVerdict(v)
  BY <1>1, <1>6 DEF ProjectedVerdict, InfraUncertain, VerdictOf, Ok, Readable
<1>9. /\ (v.threshold = None) = (v.score = NoScore)
      /\ v.threshold # None => v.score = ProjectedScore(v.checks) /\ v.score.total > 0
  <2>1. CASE g.threshold = None
    BY <1>1, <2>1
  <2>2. CASE g.threshold # None
    <3>1. ProjectedScore(C) = [passed |-> ProjectedScore(C).passed,
                               total |-> ProjectedScore(C).total]
      BY DEF ProjectedScore
    <3>2. v.score = ProjectedScore(C)
      BY <1>1, <2>2, <3>1, ScoreAgrees DEF C
    <3>3. Weight(g, Gating(g)) > 0
      BY <2>2 DEF Raises
    <3> QED BY <1>1, <2>2, <3>2, <3>3 DEF NoScore
  <2> QED BY <2>1, <2>2
<1>10. (v.authenticated # None) = ("signature" \in v.policy /\ K # {})
  BY <1>1, <1>3, <1>6
<1> QED BY <1>1, <1>4, <1>5, <1>7, <1>8, <1>9, <1>10 DEF Consistent, C, K, v
LEMMA GenuineIsRefusedForAReason ==
  ASSUME NEW g \in Gates, ~ Raises(g), source \in Status, NEW q, NEW b \in Boundaries,
         q.boundary = b, b.emit = Emitter, q.role \in RunRole, RightRequest(q),
         ~ Adapts(Verification(g, FALSE), q)
  PROVE  LET tier == EvidenceTier(g)
         IN \/ /\ Readable /\ ProbeReachable(g)
               /\ \/ Ok(g) # (q.subject = "green")
                  \/ q.subject = "red" /\ RequiredOk(g)
                  \/ q.subject = "green" /\ tier \in {"local_pass", "emitted"}
            \/ /\ tier = "external_verdict"
               /\ \/ ~ b.corroborated
                  \/ \A p \in Corroborated(g) : Reader[p[2].rule] # b.read
            \/ Ok(g) /\ ~ ProbeReachable(g)
<1> DEFINE v == Verification(g, FALSE)
           C == Reports(g)
           tier == EvidenceTier(g)
           Refusal ==
             \/ /\ Readable /\ ProbeReachable(g)
                /\ \/ Ok(g) # (q.subject = "green")
                   \/ q.subject = "red" /\ RequiredOk(g)
                   \/ q.subject = "green" /\ tier \in {"local_pass", "emitted"}
             \/ /\ tier = "external_verdict"
                /\ \/ ~ b.corroborated
                   \/ \A p \in Corroborated(g) : Reader[p[2].rule] # b.read
             \/ Ok(g) /\ ~ ProbeReachable(g)
<1>1. /\ v.checks = C /\ v.ok = Ok(g) /\ v.verdict = VerdictOf(g, Ok(g))
      /\ v.reachable = source.reachable /\ v.complete = source.complete
      /\ v.probe = ProbeReachable(g) /\ v.threshold = g.threshold
      /\ v.settlement = "bounded_final" /\ v.emit = Emitter
  BY DEF Verification, Result, Reports
<1>2. CASE Ok(g) /\ ~ ProbeReachable(g)
  BY <1>2
<1>3. CASE ~ (Ok(g) /\ ~ ProbeReachable(g))
  <2>1. /\ Consistent(v)
        /\ ProjectedRequiredOk(C, g.threshold) <=> RequiredOk(g)
    BY <1>3, GenuineIsConsistent
  <2>2. AdaptedTier(v) = tier
    BY TierAgrees
  <2>3. /\ Ok(g) \in BOOLEAN /\ ProbeReachable(g) \in BOOLEAN
        /\ source.reachable \in BOOLEAN /\ source.complete \in BOOLEAN
    BY DEF Ok, ProbeReachable, Status
  <2>4. InfraUncertain(v) <=> ~ (Readable /\ ProbeReachable(g))
    BY <1>1, <2>3 DEF InfraUncertain, Readable
  <2>5. q.subject \in {"red", "green"} /\ (q.role \in GreenRole <=> q.subject = "green")
    BY DEF RightRequest, Expected
  <2>6. ASSUME tier = "external_verdict", b.corroborated, b.read \notin Readers(C)
        PROVE  \A p \in Corroborated(g) : Reader[p[2].rule] # b.read
    <3> SUFFICES ASSUME NEW p \in Corroborated(g), Reader[p[2].rule] = b.read PROVE FALSE
      OBVIOUS
    <3>1. PICK k \in ProjectedCorroborated(C) : p = <<k, g.checks[k]>>
      BY CorroboratedIndexed
    <3>2. k \in DOMAIN g.checks /\ p[2] = g.checks[k]
      BY <3>1 DEF ProjectedCorroborated, ProjectedGating, Reports
    <3>3. C[k].reader = Reader[p[2].rule]
      BY <3>2 DEF Corroborated, Reports, Report
    <3>4. b.read # None
      BY OracleAssumption
    <3> QED BY <2>6, <3>1, <3>3, <3>4 DEF Readers
  <2>7. CASE ~ SubjectObserved(v, q)
    BY <1>1, <2>1, <2>3, <2>4, <2>5, <2>7 DEF SubjectObserved
  <2>8. CASE ~ Grounded(AdaptedTier(v), q.boundary, Readers(v.checks))
    BY <1>1, <2>2, <2>6, <2>8, OracleAssumption DEF Grounded
  <2>9. CASE /\ SubjectObserved(v, q) /\ q.role \in GreenRole /\ ~ InfraUncertain(v)
             /\ ~ (v.verdict = "present" /\ AdaptedTier(v) \in CompletionTier)
    <3>1. Readable /\ ProbeReachable(g) /\ q.subject = "green" /\ Ok(g)
      BY <1>1, <2>3, <2>4, <2>5, <2>9 DEF SubjectObserved
    <3>2. v.verdict = "present"
      BY <1>1, <3>1 DEF VerdictOf
    <3>3. tier \in {"local_pass", "emitted"}
      BY <2>2, <2>9, <3>2 DEF EvidenceTier, CompletionTier
    <3> QED BY <3>1, <3>3
  <2> QED BY <1>1, <2>1, <2>7, <2>8, <2>9 DEF Adapts
<1> QED BY <1>2, <1>3
-----------------------------------------------------------------------------
(* The inductive invariant.  A receipt is judged by what it says of its    *)
(* runs; the invariant ties each run to the poll it is the evidence of,    *)
(* each receipt to its place in the lineage, and an assessment to both.    *)

IsSequence(s) == s \in Seq({s[k] : k \in DOMAIN s})

\* What a conclusive run shows is what the engine found.
Bears(run, poll) ==
  ~ Inconclusive(run) =>
    /\ poll.sure
    /\ poll.ok = (run.role \in GreenRole)
    /\ run.role \in GreenRole => poll.tier \in CompletionTier

\* The k-th run of the cycle c.
RunKept(run, k, c, b, poll) ==
  /\ run = RunEvidence(run.artifact)
  /\ ValidDocument(run.artifact)
  /\ run.artifact.cycle = c /\ run.artifact.boundary = b
  /\ run.run = k /\ run.role = Order[k]
  /\ Bears(run, poll)

RunsKept(rs, c, b, ps) ==
  /\ IsSequence(rs) /\ IsSequence(ps) /\ Len(ps) = Len(rs) /\ Len(rs) <= 4
  /\ \A k \in 1 .. Len(rs) : RunKept(rs[k], k, c, b, ps[k])

\* The identity of generation n behind the receipts R.
CycleNumber(n, R) == [generation |-> n, previous |-> IF n = 0 THEN None ELSE R[n]]

\* The n-th of the receipts R, P being the polls of its runs.
ReceiptKept(r, n, R, P) ==
  /\ ValidReceipt(r)
  /\ r.cycle = CycleNumber(n - 1, R)
  /\ RunsKept(r.runs, r.cycle, r.boundary, P)

\* An assessment, as far as it has come.
AssessmentKept(a, R) ==
  /\ DOMAIN a = {"receipt", "next", "shellFailed", "resolved", "faults", "refused"}
  /\ \E n \in 1 .. Len(R) : a.receipt = R[n]
  /\ a.refused = ~ Required(a.receipt)
  /\ a.next \in 1 .. 5 /\ a.faults \in Nat /\ a.shellFailed \in BOOLEAN
  /\ IsSequence(a.resolved) /\ Len(a.resolved) = a.next - 1
  /\ a.faults = 0 <=>
       ~ a.shellFailed /\ \A k \in 1 .. Len(a.resolved) : a.resolved[k] = Vouching

TypeKept ==
  /\ source \in Status /\ plan \in Plans
  /\ stage \in {"collecting", "sealed", "halted"}
  /\ polls = [n \in 0 .. MaxGenerations - 1 |-> polls[n]]

CycleKept ==
  /\ cycle.generation \in 0 .. MaxGenerations - 1
  /\ cycle = CycleNumber(cycle.generation, receipts)
  /\ Len(receipts) = IF stage = "sealed" THEN cycle.generation + 1 ELSE cycle.generation
  /\ RunsKept(runs, cycle, plan.boundary, polls[cycle.generation])
  /\ \A n \in 0 .. MaxGenerations - 1 : n > cycle.generation => polls[n] = << >>
  /\ \A n \in 1 .. cycle.generation : receipts[n].status = "superseded"

ReceiptsKept ==
  /\ IsSequence(receipts)
  /\ \A n \in 1 .. Len(receipts) : ReceiptKept(receipts[n], n, receipts, polls[n - 1])

IInv ==
  /\ TypeKept
  /\ CycleKept
  /\ ReceiptsKept
  /\ assessing # None => AssessmentKept(assessing, receipts)

-----------------------------------------------------------------------------
LEMMA AppendIsSequence ==
  ASSUME NEW s, IsSequence(s), NEW e
  PROVE  /\ Len(s) \in Nat
         /\ IsSequence(Append(s, e))
         /\ Len(Append(s, e)) = Len(s) + 1
         /\ Append(s, e)[Len(s) + 1] = e
         /\ \A k \in 1 .. Len(s) : Append(s, e)[k] = s[k]
<1> DEFINE S == {s[k] : k \in DOMAIN s}
           t == Append(s, e)
           T == {t[k] : k \in DOMAIN t}
<1>1. s \in Seq(S)
  BY DEF IsSequence
<1> HIDE DEF S
<1>2. /\ Len(s) \in Nat /\ t \in Seq(S \cup {e}) /\ Len(t) = Len(s) + 1
      /\ t[Len(s) + 1] = e
      /\ \A k \in 1 .. Len(s) : t[k] = s[k]
  BY <1>1
<1> HIDE DEF t
<1>3. t \in Seq(T)
  BY <1>2
<1> QED BY <1>2, <1>3 DEF IsSequence, T, t

LEMMA EmptyIsSequence == IsSequence(<< >>) /\ Len(<< >>) = 0
BY DEF IsSequence

LEMMA AdaptedRunKept ==
  ASSUME NEW g \in Gates, NEW settleEarly, source \in Status, NEW q, NEW k,
         q.run = k, q.role = Order[k],
         Adapts(Verification(g, settleEarly), q),
         ValidDocument(Document(Verification(g, settleEarly), q)),
         NEW poll, poll.ok = Verification(g, settleEarly).ok,
         poll.tier = EvidenceTier(g), poll.sure = (Readable /\ ProbeReachable(g))
  PROVE  RunKept(RunEvidence(Document(Verification(g, settleEarly), q)), k, q.cycle,
                 q.boundary, poll)
<1> DEFINE v == Verification(g, settleEarly)
           d == Document(v, q)
           run == RunEvidence(d)
<1>1. /\ v.reachable = source.reachable /\ v.complete = source.complete
      /\ v.probe = ProbeReachable(g) /\ v.ok = Ok(g)
  BY DEF Verification, Result
<1>2. /\ d.role = q.role /\ d.run = k /\ d.cycle = q.cycle /\ d.boundary = q.boundary
      /\ d.lifecycle = Lifecycle(v, q)
  BY DEF Document
<1>3. /\ RightRequest(q) /\ SubjectObserved(v, q)
      /\ q.role \in GreenRole /\ ~ InfraUncertain(v) => AdaptedTier(v) \in CompletionTier
  BY DEF Adapts
<1>4. AdaptedTier(v) = EvidenceTier(g)
  BY TierAgrees
<1>5. Ok(g) \in BOOLEAN
  BY DEF Ok
<1> HIDE DEF v, d
<1>6. run.artifact = d /\ run.role = d.role /\ run.run = d.run /\ run.outcome = d.lifecycle
  BY DEF RunEvidence
<1> HIDE DEF run
<1>7. Bears(run, poll)
  <2> SUFFICES ASSUME ~ Inconclusive(run)
               PROVE  /\ poll.sure
                      /\ poll.ok = (run.role \in GreenRole)
                      /\ run.role \in GreenRole => poll.tier \in CompletionTier
    BY DEF Bears
  <2>1. ~ InfraUncertain(v)
    BY <1>2, <1>6 DEF Inconclusive, Lifecycle
  <2>2. poll.sure
    BY <1>1, <2>1 DEF InfraUncertain, Readable
  <2>3. poll.ok = (run.role \in GreenRole)
    BY <1>1, <1>2, <1>3, <1>5, <1>6, <2>1 DEF SubjectObserved, RightRequest, Expected, v
  <2> QED BY <1>2, <1>3, <1>4, <1>6, <2>1, <2>2, <2>3
<1> QED BY <1>2, <1>6, <1>7 DEF RunKept, run, d, v
-----------------------------------------------------------------------------
LEMMA InitKept == CompletionInit => IInv
<1> SUFFICES ASSUME CompletionInit PROVE IInv
  OBVIOUS
<1> USE DEF CompletionInit
<1>1. /\ polls = [n \in 0 .. MaxGenerations - 1 |-> << >>]
      /\ 0 \in 0 .. MaxGenerations - 1
  BY PlanAssumption
<1>2. TypeKept
  BY <1>1 DEF TypeKept, Init, Status
<1>3. CycleKept
  <2>1. RunsKept(runs, cycle, plan.boundary, polls[cycle.generation])
    BY <1>1, EmptyIsSequence DEF RunsKept
  <2> QED BY <1>1, <2>1, EmptyIsSequence DEF CycleKept, CycleNumber
<1>4. ReceiptsKept
  BY EmptyIsSequence DEF ReceiptsKept
<1> QED BY <1>2, <1>3, <1>4 DEF IInv

LEMMA ObserveKept == IInv /\ Observe => IInv'
<1> SUFFICES ASSUME IInv, Observe PROVE IInv'
  OBVIOUS
<1>1. /\ UNCHANGED <<plan, cycle, runs, stage, store, receipts, polls, assessing>>
      /\ Next
  BY DEF Observe, lineage
<1>2. source' \in Status
  BY <1>1 DEF Next, Read, Ingest, IInv, TypeKept, Status
<1> QED BY <1>1, <1>2 DEF IInv, TypeKept, CycleKept, ReceiptsKept

LEMMA RecordRunKept ==
  ASSUME IInv, NEW settleEarly, RecordRun(settleEarly)
  PROVE  IInv'
<1> DEFINE v == Verification(plan.gate, settleEarly)
           q == NextRequest
           d == Document(v, q)
           run == RunEvidence(d)
           n == cycle.generation
           poll == [ok |-> v.ok, tier |-> EvidenceTier(plan.gate),
                    sure |-> Readable /\ ProbeReachable(plan.gate)]
<1>1. /\ stage = "collecting" /\ Len(runs) < 4
      /\ Adapts(v, q) /\ ValidDocument(d)
      /\ runs' = Append(runs, run)
      /\ stage' = IF Inconclusive(run) THEN "halted" ELSE "collecting"
      /\ polls' = [polls EXCEPT ![n] = Append(@, poll)]
      /\ source' = Before
      /\ plan' = plan /\ cycle' = cycle /\ receipts' = receipts /\ assessing' = assessing
  BY DEF RecordRun, RecordResult, TakeRun, NewPoll
<1>2. /\ plan \in Plans /\ plan.gate \in Gates /\ source \in Status
      /\ n \in 0 .. MaxGenerations - 1
      /\ polls = [k \in 0 .. MaxGenerations - 1 |-> polls[k]]
  BY PlanAssumption DEF IInv, TypeKept, CycleKept
<1>3. /\ RunsKept(runs, cycle, plan.boundary, polls[n])
      /\ IsSequence(runs) /\ IsSequence(polls[n]) /\ Len(polls[n]) = Len(runs)
  BY DEF IInv, CycleKept, RunsKept
<1>4. Len(runs) \in Nat /\ Len(runs) + 1 \in 1 .. 4
  BY <1>1, <1>3, AppendIsSequence
<1>5. RunKept(run, Len(runs) + 1, cycle, plan.boundary, poll)
  <2>1. /\ q.run = Len(runs) + 1 /\ q.role = Order[Len(runs) + 1]
        /\ q.cycle = cycle /\ q.boundary = plan.boundary
    BY DEF NextRequest
  <2> HIDE DEF q
  <2> QED BY <1>1, <1>2, <2>1, AdaptedRunKept
<1> HIDE DEF v, q, d, run, poll
<1>6. polls'[n] = Append(polls[n], poll) /\ \A k \in 0 .. MaxGenerations - 1 :
        k # n => polls'[k] = polls[k]
  BY <1>1, <1>2
<1>7. TypeKept'
  <2>1. source' \in Status
    BY <1>1 DEF Before, Status
  <2>2. polls' = [k \in 0 .. MaxGenerations - 1 |-> polls'[k]]
    BY <1>1, <1>2
  <2> QED BY <1>1, <1>2, <2>1, <2>2 DEF TypeKept
<1>8. CycleKept'
  <2>1. RunsKept(runs', cycle, plan.boundary, polls'[n])
    <3>1. /\ IsSequence(runs') /\ Len(runs') = Len(runs) + 1
          /\ runs'[Len(runs) + 1] = run
          /\ \A k \in 1 .. Len(runs) : runs'[k] = runs[k]
      BY <1>1, <1>3, AppendIsSequence
    <3>2. /\ IsSequence(polls'[n]) /\ Len(polls'[n]) = Len(runs) + 1
          /\ polls'[n][Len(runs) + 1] = poll
          /\ \A k \in 1 .. Len(runs) : polls'[n][k] = polls[n][k]
      BY <1>3, <1>6, AppendIsSequence
    <3>3. \A k \in 1 .. Len(runs) + 1 : k = Len(runs) + 1 \/ k \in 1 .. Len(runs)
      BY <1>4
    <3> QED BY <1>3, <1>4, <1>5, <3>1, <3>2, <3>3 DEF RunsKept
  <2> QED BY <1>1, <1>2, <1>6, <2>1 DEF IInv, CycleKept
<1>9. ReceiptsKept'
  <2>1. Len(receipts) = n
    BY <1>1 DEF IInv, CycleKept
  <2>2. \A k \in 1 .. Len(receipts) : polls'[k - 1] = polls[k - 1]
    <3> SUFFICES ASSUME NEW k \in 1 .. n PROVE polls'[k - 1] = polls[k - 1]
      BY <2>1
    <3>1. k - 1 \in 0 .. MaxGenerations - 1 /\ k - 1 # n
      BY <1>2, PlanAssumption
    <3> QED BY <1>6, <3>1
  <2> QED BY <1>1, <2>2 DEF IInv, ReceiptsKept
<1> QED BY <1>1, <1>7, <1>8, <1>9 DEF IInv
LEMMA SealKept ==
  ASSUME IInv, NEW successor \in BOOLEAN, Seal(successor)
  PROVE  IInv'
<1> DEFINE n == cycle.generation
           r == Receipt(successor)
<1>1. /\ stage = "collecting" /\ assessing = None /\ Len(runs) = 4
      /\ ValidReceipt(r)
      /\ stage' = "sealed" /\ receipts' = Append(receipts, r)
      /\ source' = source /\ plan' = plan /\ cycle' = cycle /\ runs' = runs
      /\ polls' = polls /\ assessing' = assessing
  BY DEF Seal, gateVars
<1>2. /\ r.cycle = cycle /\ r.boundary = plan.boundary /\ r.runs = runs
  BY DEF Receipt
<1>3. /\ n \in 0 .. MaxGenerations - 1 /\ Len(receipts) = n
      /\ cycle = CycleNumber(n, receipts)
      /\ RunsKept(runs, cycle, plan.boundary, polls[n])
      /\ IsSequence(receipts)
  BY <1>1 DEF IInv, CycleKept, ReceiptsKept
<1> HIDE DEF r
<1>4. /\ IsSequence(receipts') /\ Len(receipts') = n + 1 /\ receipts'[n + 1] = r
      /\ \A k \in 1 .. n : receipts'[k] = receipts[k]
  BY <1>1, <1>3, AppendIsSequence
<1>5. TypeKept'
  BY <1>1 DEF IInv, TypeKept
<1>6. \A k \in 0 .. n : CycleNumber(k, receipts') = CycleNumber(k, receipts)
  BY <1>3, <1>4 DEF CycleNumber
<1>7. CycleKept'
  <2>1. cycle = CycleNumber(n, receipts')
    BY <1>3, <1>6
  <2>2. /\ \A k \in 0 .. MaxGenerations - 1 : k > n => polls[k] = << >>
        /\ \A k \in 1 .. n : receipts'[k].status = "superseded"
    BY <1>4 DEF IInv, CycleKept
  <2> QED BY <1>1, <1>3, <1>4, <2>1, <2>2 DEF CycleKept
<1>8. ReceiptsKept'
  <2>1. ASSUME NEW k \in 1 .. n
        PROVE  ReceiptKept(receipts'[k], k, receipts', polls[k - 1])
    <3>1. ReceiptKept(receipts[k], k, receipts, polls[k - 1])
      BY <1>3 DEF IInv, ReceiptsKept
    <3>2. CycleNumber(k - 1, receipts') = CycleNumber(k - 1, receipts)
      <4>1. k - 1 \in 0 .. n
        BY <1>3
      <4> QED BY <1>6, <4>1
    <3> QED BY <1>4, <3>1, <3>2 DEF ReceiptKept
  <2>2. ReceiptKept(receipts'[n + 1], n + 1, receipts', polls[n])
    BY <1>1, <1>2, <1>3, <1>4, <1>6 DEF ReceiptKept
  <2> QED BY <1>1, <1>3, <1>4, <2>1, <2>2 DEF ReceiptsKept
<1> QED BY <1>1, <1>5, <1>7, <1>8 DEF IInv
LEMMA StartSuccessorKept == IInv /\ StartSuccessor => IInv'
<1> SUFFICES ASSUME IInv, StartSuccessor PROVE IInv'
  OBVIOUS
<1> DEFINE n == cycle.generation
           r == receipts[n + 1]
<1>1. /\ stage = "sealed" /\ assessing = None
      /\ n \in 0 .. MaxGenerations - 1 /\ Len(receipts) = n + 1
      /\ IsSequence(receipts)
  BY DEF StartSuccessor, IInv, CycleKept, ReceiptsKept
<1>2. /\ r.status = "superseded" /\ RoomFor(r.cycle.generation + 1)
      /\ cycle' = SuccessorOf(r) /\ runs' = << >> /\ stage' = "collecting"
      /\ plan' \in Plans
      /\ source' = source /\ receipts' = receipts /\ assessing' = assessing
      /\ polls' = polls
  BY <1>1 DEF StartSuccessor, gateVars
<1>3. r.cycle = CycleNumber(n, receipts)
  <2>1. n + 1 \in 1 .. Len(receipts) /\ (n + 1) - 1 = n
    BY <1>1
  <2>2. ReceiptKept(receipts[n + 1], n + 1, receipts, polls[(n + 1) - 1])
    BY <2>1 DEF IInv, ReceiptsKept
  <2> QED BY <2>1, <2>2 DEF ReceiptKept
<1>4. /\ r.cycle.generation = n /\ n + 1 \in 0 .. MaxGenerations - 1
      /\ cycle' = CycleNumber(n + 1, receipts)
      /\ cycle'.generation = n + 1
  BY <1>1, <1>2, <1>3, PlanAssumption DEF CycleNumber, RoomFor, SuccessorOf
<1>5. TypeKept'
  BY <1>2 DEF IInv, TypeKept
<1>6. \A k \in 0 .. MaxGenerations - 1 : k > n => polls[k] = << >>
  BY DEF IInv, CycleKept
<1>7. RunsKept(runs', cycle', plan'.boundary, polls[n + 1])
  <2>1. polls[n + 1] = << >>
    BY <1>1, <1>4, <1>6
  <2> QED BY <1>2, <2>1, EmptyIsSequence DEF RunsKept
<1>8. \A k \in 1 .. n + 1 : receipts[k].status = "superseded"
  <2>1. \A k \in 1 .. n : receipts[k].status = "superseded"
    BY DEF IInv, CycleKept
  <2> QED BY <1>1, <1>2, <2>1
<1>9. CycleKept'
  <2>1. \A k \in 0 .. MaxGenerations - 1 : k > n + 1 => polls[k] = << >>
    BY <1>1, <1>6
  <2> HIDE DEF r
  <2> QED BY <1>1, <1>2, <1>4, <1>7, <1>8, <2>1 DEF CycleKept
<1>10. ReceiptsKept'
  BY <1>2 DEF IInv, ReceiptsKept
<1> QED BY <1>1, <1>2, <1>5, <1>9, <1>10 DEF IInv

\* The lineage does not move while a receipt is assessed.
LEMMA LineageRests ==
  ASSUME IInv, UNCHANGED <<gateVars, lineage>>
  PROVE  TypeKept' /\ CycleKept' /\ ReceiptsKept' /\ receipts' = receipts
BY DEF IInv, TypeKept, CycleKept, ReceiptsKept, gateVars, lineage

LEMMA StartAssessmentKept ==
  ASSUME IInv, NEW k, StartAssessment(k)
  PROVE  IInv'
<1> DEFINE r == receipts[k]
           a == [receipt |-> r, next |-> 1, shellFailed |-> FALSE, resolved |-> << >>,
                 faults |-> 0, refused |-> ~ Required(r)]
<1>1. /\ assessing' = a /\ UNCHANGED <<gateVars, lineage>> /\ k \in DOMAIN receipts
  BY DEF StartAssessment
<1>2. /\ a.receipt = r /\ a.next = 1 /\ a.shellFailed = FALSE /\ a.resolved = << >>
      /\ a.faults = 0 /\ a.refused = ~ Required(r)
      /\ DOMAIN a = {"receipt", "next", "shellFailed", "resolved", "faults", "refused"}
  OBVIOUS
<1>3. \E n \in 1 .. Len(receipts) : r = receipts[n]
  BY <1>1 DEF IInv, ReceiptsKept, IsSequence
<1> HIDE DEF a, r
<1>4. AssessmentKept(a, receipts)
  <2>1. IsSequence(a.resolved) /\ Len(a.resolved) = 0
    BY <1>2, EmptyIsSequence
  <2>2. \A j \in 1 .. Len(a.resolved) : a.resolved[j] = Vouching
    BY <2>1
  <2>3. a.next \in 1 .. 5 /\ a.faults \in Nat /\ Len(a.resolved) = a.next - 1
    BY <1>2, <2>1
  <2>4. a.shellFailed \in BOOLEAN /\ a.refused = ~ Required(a.receipt)
    BY <1>2
  <2>5. \E n \in 1 .. Len(receipts) : a.receipt = receipts[n]
    BY <1>2, <1>3
  <2>6. a.faults = 0 /\ ~ a.shellFailed
    BY <1>2
  <2> QED BY <1>2, <2>1, <2>2, <2>3, <2>4, <2>5, <2>6 DEF AssessmentKept
<1> QED BY <1>1, <1>4, LineageRests DEF IInv

\* What one more answer makes of an assessment: a fault shows, and nothing else does.
LEMMA AnswerKept ==
  ASSUME NEW a, NEW R, AssessmentKept(a, R), a.next <= 4,
         NEW failed \in BOOLEAN, NEW judgement, NEW fault \in BOOLEAN,
         fault <=> failed \/ judgement # Vouching
  PROVE  AssessmentKept(
           [a EXCEPT !.next = @ + 1, !.shellFailed = @ \/ failed,
                     !.resolved = Append(@, judgement),
                     !.faults = @ + (IF fault THEN 1 ELSE 0)], R)
<1> DEFINE b == [a EXCEPT !.next = @ + 1, !.shellFailed = @ \/ failed,
                          !.resolved = Append(@, judgement),
                          !.faults = @ + (IF fault THEN 1 ELSE 0)]
<1>1. /\ DOMAIN a = {"receipt", "next", "shellFailed", "resolved", "faults", "refused"}
      /\ \E n \in 1 .. Len(R) : a.receipt = R[n]
      /\ a.refused = ~ Required(a.receipt)
      /\ a.next \in 1 .. 5 /\ a.faults \in Nat /\ a.shellFailed \in BOOLEAN
      /\ IsSequence(a.resolved) /\ Len(a.resolved) = a.next - 1
      /\ a.faults = 0 <=>
           ~ a.shellFailed /\ \A k \in 1 .. Len(a.resolved) : a.resolved[k] = Vouching
  BY DEF AssessmentKept
<1>2. /\ b.receipt = a.receipt /\ b.refused = a.refused
      /\ b.next = a.next + 1 /\ b.shellFailed = (a.shellFailed \/ failed)
      /\ b.resolved = Append(a.resolved, judgement)
      /\ b.faults = a.faults + (IF fault THEN 1 ELSE 0)
      /\ DOMAIN b = DOMAIN a
  BY <1>1
<1> HIDE DEF b
<1>3. /\ IsSequence(b.resolved) /\ Len(b.resolved) = Len(a.resolved) + 1
      /\ b.resolved[Len(a.resolved) + 1] = judgement
      /\ \A k \in 1 .. Len(a.resolved) : b.resolved[k] = a.resolved[k]
      /\ Len(a.resolved) \in Nat
  BY <1>1, <1>2, AppendIsSequence
<1>4. (\A k \in 1 .. Len(b.resolved) : b.resolved[k] = Vouching) <=>
        /\ judgement = Vouching
        /\ \A k \in 1 .. Len(a.resolved) : a.resolved[k] = Vouching
  <2> DEFINE n == Len(a.resolved)
             All(r, m) == \A k \in 1 .. m : r[k] = Vouching
  <2>1. 1 .. n + 1 = (1 .. n) \cup {n + 1}
    BY <1>3
  <2>2. All(b.resolved, n) <=> All(a.resolved, n)
    BY <1>3, Zenon
  <2>3. All(b.resolved, n + 1) <=> All(b.resolved, n) /\ b.resolved[n + 1] = Vouching
    BY <2>1, Zenon
  <2> QED
    BY <1>3, <2>2, <2>3, Zenon
<1>5. b.faults \in Nat /\ (b.faults = 0 <=> a.faults = 0 /\ ~ fault)
  BY <1>1, <1>2
<1>6. b.shellFailed \in BOOLEAN /\ (b.shellFailed <=> a.shellFailed \/ failed)
  BY <1>1, <1>2
<1>7. b.next \in 1 .. 5 /\ Len(b.resolved) = b.next - 1
  BY <1>1, <1>2, <1>3
<1> QED BY <1>1, <1>2, <1>3, <1>4, <1>5, <1>6, <1>7 DEF AssessmentKept, b
\* Every run of a receipt is bound by its artifact, and tells what the engine found.
LEMMA ReceiptsAreBound ==
  ASSUME IInv, NEW n \in 1 .. Len(receipts), NEW k \in 1 .. 4
  PROVE  LET r   == receipts[n]
             run == r.runs[k]
         IN /\ Binds(run.artifact, run, r)
            /\ run.role = Order[k] /\ run.artifact.run = k
            /\ Bears(run, polls[r.cycle.generation][k]) /\ ~ Inconclusive(run)
<1> DEFINE r   == receipts[n]
           run == r.runs[k]
<1>1. ReceiptKept(r, n, receipts, polls[n - 1])
  BY DEF IInv, ReceiptsKept
<1>2. /\ ValidReceipt(r) /\ r.cycle.generation = n - 1
      /\ RunsKept(r.runs, r.cycle, r.boundary, polls[n - 1])
  BY <1>1 DEF ReceiptKept, CycleNumber
<1>3. Len(r.runs) = 4 /\ ~ Inconclusive(run)
  BY <1>2 DEF ValidReceipt
<1>4. RunKept(run, k, r.cycle, r.boundary, polls[n - 1][k])
  BY <1>2, <1>3 DEF RunsKept
<1> HIDE DEF r, run
<1>5. /\ run = RunEvidence(run.artifact) /\ ValidDocument(run.artifact)
      /\ run.artifact.cycle = r.cycle /\ run.artifact.boundary = r.boundary
      /\ run.run = k /\ run.role = Order[k]
      /\ Bears(run, polls[n - 1][k])
  BY <1>4 DEF RunKept
<1>6. run.artifact.run = k
  BY <1>5 DEF RunEvidence
<1>7. Binds(run.artifact, run, r)
  BY <1>5 DEF Binds, ValidFor, CycleOf
<1> QED BY <1>2, <1>3, <1>5, <1>6, <1>7 DEF r, run

LEMMA LoseKept ==
  ASSUME IInv, NEW failed \in BOOLEAN, Lose(failed)
  PROVE  IInv'
<1>1. /\ assessing # None /\ assessing.next <= 4 /\ UNCHANGED <<gateVars, lineage>>
      /\ assessing' = [assessing EXCEPT !.next = @ + 1, !.shellFailed = @ \/ failed,
                         !.resolved = Append(@, None),
                         !.faults = @ + (IF TRUE THEN 1 ELSE 0)]
  BY DEF Lose, Assessing
<1>2. AssessmentKept(assessing, receipts)
  BY <1>1 DEF IInv
<1>3. None # Vouching
  BY JudgementAssumption DEF Judgement
<1>4. AssessmentKept(assessing', receipts)
  BY <1>1, <1>2, <1>3, AnswerKept
<1> QED BY <1>4, <1>1, LineageRests DEF IInv

LEMMA ResolveKept ==
  ASSUME IInv, NEW d, NEW judgement \in Judgement, Resolve(d, judgement)
  PROVE  IInv'
<1> DEFINE run   == Wanted
           right == Binds(d, run, assessing.receipt)
           fault == d # run.artifact \/ judgement # Vouching
           said  == IF right THEN judgement ELSE None
<1>1. /\ assessing # None /\ assessing.next <= 4 /\ UNCHANGED <<gateVars, lineage>>
      /\ assessing' = [assessing EXCEPT !.next = @ + 1, !.shellFailed = @ \/ ~ right,
                         !.resolved = Append(@, said),
                         !.faults = @ + (IF fault THEN 1 ELSE 0)]
  BY DEF Resolve, Assessing
<1>2. AssessmentKept(assessing, receipts)
  BY <1>1 DEF IInv
<1>3. None # Vouching
  BY JudgementAssumption DEF Judgement
<1>4. right <=> d = run.artifact
  <2>1. PICK n \in 1 .. Len(receipts) : assessing.receipt = receipts[n]
    BY <1>2 DEF AssessmentKept
  <2>2. assessing.next \in 1 .. 4
    BY <1>1, <1>2 DEF AssessmentKept
  <2>3. Binds(run.artifact, run, assessing.receipt)
    BY <2>1, <2>2, ReceiptsAreBound DEF Wanted
  <2>4. right => d = run.artifact
    BY DEF Binds
  <2> QED BY <2>3, <2>4
<1>5. right \in BOOLEAN
  BY DEF Binds
<1>6. (~ right) \in BOOLEAN /\ fault \in BOOLEAN /\ (fault <=> ~ right \/ said # Vouching)
  BY <1>3, <1>4, <1>5
<1> HIDE DEF run, right, fault, said
<1>7. AssessmentKept(assessing', receipts)
  BY <1>1, <1>2, <1>6, AnswerKept
<1> QED BY <1>1, <1>7, LineageRests DEF IInv

LEMMA EndAssessmentKept == IInv /\ EndAssessment => IInv'
<1> SUFFICES ASSUME IInv, EndAssessment PROVE IInv'
  OBVIOUS
<1>1. assessing' = None /\ UNCHANGED <<gateVars, lineage>>
  BY DEF EndAssessment
<1> QED BY <1>1, LineageRests DEF IInv

LEMMA StutterKept == IInv /\ UNCHANGED allVars => IInv'
BY LineageRests DEF allVars, IInv

\* What the theorems below rest on: see IInv.
THEOREM InvariantKept == CompletionSpec => []IInv
<1>1. CompletionInit => IInv
  BY InitKept
<1>2. IInv /\ [CompletionNext]_allVars => IInv'
  <2> SUFFICES ASSUME IInv, [CompletionNext]_allVars PROVE IInv'
    OBVIOUS
  <2>1. CASE Observe
    BY <2>1, ObserveKept
  <2>2. CASE \E settleEarly \in BOOLEAN : RecordRun(settleEarly)
    BY <2>2, RecordRunKept
  <2>3. CASE \E successor \in BOOLEAN : Seal(successor)
    BY <2>3, SealKept
  <2>4. CASE StartSuccessor
    BY <2>4, StartSuccessorKept
  <2>5. CASE \E k \in DOMAIN receipts : StartAssessment(k)
    BY <2>5, StartAssessmentKept
  <2>6. CASE PortRaises
    BY <2>6, LoseKept DEF PortRaises
  <2>7. CASE ResolverMisses
    BY <2>7, LoseKept DEF ResolverMisses
  <2>8. CASE \E d \in store, judgement \in Judgement : Resolve(d, judgement)
    BY <2>8, ResolveKept
  <2>9. CASE EndAssessment
    BY <2>9, EndAssessmentKept
  <2>10. CASE UNCHANGED allVars
    BY <2>10, StutterKept
  <2> QED BY <2>1, <2>2, <2>3, <2>4, <2>5, <2>6, <2>7, <2>8, <2>9, <2>10
          DEF CompletionNext, Assess
<1> QED BY <1>1, <1>2, PTL DEF CompletionSpec
-----------------------------------------------------------------------------
(* What follows.                                                           *)

LEMMA LineageFromInvariant == IInv => LineageUnbroken
<1> SUFFICES ASSUME IInv PROVE LineageUnbroken
  OBVIOUS
<1> DEFINE n == cycle.generation
<1>1. /\ n \in 0 .. MaxGenerations - 1 /\ cycle = CycleNumber(n, receipts)
      /\ Len(receipts) = IF stage = "sealed" THEN n + 1 ELSE n
      /\ \A k \in 1 .. n : receipts[k].status = "superseded"
  BY DEF IInv, CycleKept
<1>2. n \in {Len(receipts), Len(receipts) - 1} /\ n < MaxGenerations
  BY <1>1, PlanAssumption
<1>3. cycle.previous = IF n = 0 THEN None ELSE receipts[n]
  BY <1>1 DEF CycleNumber
<1>4. ASSUME NEW k \in DOMAIN receipts
      PROVE  /\ receipts[k].cycle = [generation |-> k - 1,
                                     previous |-> IF k - 1 = 0 THEN None ELSE receipts[k - 1]]
             /\ k < Len(receipts) => receipts[k].status = "superseded"
  <2>1. k \in 1 .. Len(receipts)
    BY DEF IInv, ReceiptsKept, IsSequence
  <2>2. receipts[k].cycle = CycleNumber(k - 1, receipts)
    BY <2>1 DEF IInv, ReceiptsKept, ReceiptKept
  <2>3. k < Len(receipts) => k \in 1 .. n
    BY <1>1, <2>1
  <2> QED BY <1>1, <2>2, <2>3 DEF CycleNumber
<1> QED BY <1>2, <1>3, <1>4 DEF LineageUnbroken

\* schema.py:716-744: for every budget and whatever the plans lock, the receipts of a
\* lineage form one chain within the budget, each generation naming the receipt before it.
THEOREM LineagesStayUnbroken == CompletionSpec => []LineageUnbroken
BY InvariantKept, LineageFromInvariant, PTL

LEMMA NextRunIsAccepted == IInv => AdaptedRunIsAccepted
<1> SUFFICES ASSUME IInv, stage = "collecting", Len(runs) < 4, NEW settleEarly \in BOOLEAN,
                    ~ Raises(plan.gate),
                    Adapts(Verification(plan.gate, settleEarly), NextRequest)
             PROVE  Acceptable(RunEvidence(Document(Verification(plan.gate, settleEarly),
                                                    NextRequest)),
                               runs, plan.boundary)
  BY DEF AdaptedRunIsAccepted
<1> DEFINE v == Verification(plan.gate, settleEarly)
           q == NextRequest
           d == Document(v, q)
           run == RunEvidence(d)
<1>1. RunsKept(runs, cycle, plan.boundary, polls[cycle.generation])
  BY DEF IInv, CycleKept
<1>2. Len(runs) \in Nat /\ DOMAIN runs = 1 .. Len(runs)
  BY <1>1 DEF RunsKept, IsSequence
<1>3. \A k \in 1 .. Len(runs) : runs[k].run = k
  BY <1>1 DEF RunsKept, RunKept
<1>4. /\ q.role = Order[Len(runs) + 1] /\ q.run = Len(runs) + 1
      /\ q.lock = "locked" /\ q.boundary = plan.boundary
      /\ q.executed = IF q.role = "negative" THEN "mutated" ELSE "locked"
  BY DEF NextRequest
<1>5. /\ run.role = q.role /\ run.run = q.run /\ run.outcome = Lifecycle(v, q)
      /\ run.observation = v.verdict /\ run.tier = AdaptedTier(v)
      /\ run.lock = q.lock /\ run.executed = q.executed
  BY DEF RunEvidence, Document
<1>6. /\ RightRequest(q) /\ Consistent(v)
      /\ Grounded(AdaptedTier(v), q.boundary, Readers(v.checks))
      /\ q.role \in GreenRole /\ ~ InfraUncertain(v) =>
           v.verdict = "present" /\ AdaptedTier(v) \in CompletionTier
  BY DEF Adapts
<1> HIDE DEF v, q, run
<1>7. ~ Inconclusive(run) => ~ InfraUncertain(v) /\ run.outcome = Expected(run.role)
  BY <1>5, <1>6 DEF Inconclusive, Lifecycle, RightRequest
<1>8. run.run \notin {runs[k].run : k \in DOMAIN runs}
  BY <1>2, <1>3, <1>4, <1>5
<1>9. run.tier = "external_verdict" => plan.boundary.corroborated
  BY <1>4, <1>5, <1>6 DEF Grounded
<1>10. Acceptable(run, runs, plan.boundary)
  BY <1>4, <1>5, <1>6, <1>7, <1>8, <1>9 DEF Acceptable
<1> QED BY <1>10 DEF run, v, q

LEMMA CodingsAgreeAlways == IInv => CodingsAgree
<1> SUFFICES ASSUME IInv PROVE CodingsAgree
  OBVIOUS
<1>1. source \in Status
  BY DEF IInv, TypeKept
<1>2. AdaptedIsValid
  <2>1. \A q \in Requests : q.role \in RunRole
    BY DEF Requests, Request
  <2> QED BY <1>1, <2>1, AdaptedIsValidated DEF AdaptedIsValid
<1>3. TierIsTheEngines
  BY TierAgrees DEF TierIsTheEngines
<1> QED BY <1>2, <1>3, NextRunIsAccepted DEF CodingsAgree

\* gate_adapter.py:843-870: for every gate, every read of its store and every answer of its
\* probes, what the engine, the adapter, the validator and the reducer say agrees.
THEOREM CodingsNeverDisagree == CompletionSpec => []CodingsAgree
BY InvariantKept, CodingsAgreeAlways, PTL

LEMMA RefusalsHaveReasons == IInv => RefusedForAReason
<1> SUFFICES ASSUME IInv, NEW g \in Gates, ~ Raises(g), NEW q \in Requests,
                    RightRequest(q), q.boundary.emit = Emitter,
                    ~ Adapts(Verification(g, FALSE), q)
             PROVE  LET tier == EvidenceTier(g)
                    IN \/ /\ Readable /\ ProbeReachable(g)
                          /\ \/ Ok(g) # (q.subject = "green")
                             \/ q.subject = "red" /\ RequiredOk(g)
                             \/ q.subject = "green" /\ tier \in {"local_pass", "emitted"}
                       \/ /\ tier = "external_verdict"
                          /\ \/ ~ q.boundary.corroborated
                             \/ \A p \in Corroborated(g) : Reader[p[2].rule] # q.boundary.read
                       \/ Ok(g) /\ ~ ProbeReachable(g)
  BY DEF RefusedForAReason
<1>1. q.role \in RunRole /\ q.boundary \in Boundaries
  BY DEF Requests, Request
<1>2. source \in Status
  BY DEF IInv, TypeKept
<1> QED BY <1>1, <1>2, GenuineIsRefusedForAReason

\* gate_adapter.py:733-760: the adapter refuses no genuine result but for one of the reasons
\* it documents, for every gate, read, boundary and role.
THEOREM RefusalsAreReasoned == CompletionSpec => []RefusedForAReason
BY InvariantKept, RefusalsHaveReasons, PTL

LEMMA CompletionFromInvariant == IInv => CompletionIsExact
<1> SUFFICES ASSUME IInv PROVE CompletionIsExact
  OBVIOUS
<1>1. ASSUME Assessed
      PROVE  /\ AssessmentKept(assessing, receipts)
             /\ ~ assessing.refused => assessing.next = 5 /\ Len(assessing.resolved) = 4
  <2>1. AssessmentKept(assessing, receipts)
    BY <1>1 DEF Assessed, IInv
  <2>2. assessing.next \in 1 .. 5 /\ Len(assessing.resolved) = assessing.next - 1
    BY <2>1 DEF AssessmentKept
  <2>3. ~ assessing.refused => assessing.next > 4
    BY <1>1 DEF Assessed
  <2> QED BY <2>1, <2>2, <2>3
<1>2. SatisfiedRestsOnGates
  <2> SUFFICES ASSUME Satisfied
               PROVE  /\ assessing.faults = 0
                      /\ \A k \in 1 .. 4 :
                           LET poll == polls[assessing.receipt.cycle.generation][k]
                           IN /\ poll.sure
                              /\ poll.ok = (Order[k] \in GreenRole)
                              /\ Order[k] \in GreenRole => poll.tier \in CompletionTier
    BY DEF SatisfiedRestsOnGates
  <2>1. /\ AssessmentKept(assessing, receipts)
        /\ ~ assessing.shellFailed /\ Len(assessing.resolved) = 4
        /\ \A k \in 1 .. 4 : assessing.resolved[k] = Vouching
    BY <1>1 DEF Satisfied, RunSatisfied
  <2>2. assessing.faults = 0
    BY <2>1 DEF AssessmentKept
  <2>3. PICK n \in 1 .. Len(receipts) : assessing.receipt = receipts[n]
    BY <2>1 DEF AssessmentKept
  <2>4. ASSUME NEW k \in 1 .. 4
        PROVE  LET poll == polls[assessing.receipt.cycle.generation][k]
               IN /\ poll.sure
                  /\ poll.ok = (Order[k] \in GreenRole)
                  /\ Order[k] \in GreenRole => poll.tier \in CompletionTier
    <3>1. /\ receipts[n].runs[k].role = Order[k] /\ ~ Inconclusive(receipts[n].runs[k])
          /\ Bears(receipts[n].runs[k], polls[receipts[n].cycle.generation][k])
      BY ReceiptsAreBound
    <3> QED BY <2>3, <3>1 DEF Bears
  <2> QED BY <2>2, <2>4
<1>3. HonestCompletes
  <2> SUFFICES ASSUME Assessed, assessing.receipt.status = "complete", assessing.faults = 0
               PROVE  Satisfied
    BY DEF HonestCompletes
  <2>1. AssessmentKept(assessing, receipts)
    BY <1>1
  <2>2. PICK n \in 1 .. Len(receipts) : assessing.receipt = receipts[n]
    BY <2>1 DEF AssessmentKept
  <2>3. Required(receipts[n])
    <3>1. ValidReceipt(receipts[n])
      BY DEF IInv, ReceiptsKept, ReceiptKept
    <3>2. \A k \in 1 .. 4 : receipts[n].runs[k].artifact.run = k
      BY ReceiptsAreBound
    <3> QED BY <2>2, <3>1, <3>2 DEF Required
  <2>4. ~ assessing.refused
    BY <2>1, <2>2, <2>3 DEF AssessmentKept
  <2>5. /\ ~ assessing.shellFailed
        /\ \A k \in 1 .. Len(assessing.resolved) : assessing.resolved[k] = Vouching
    BY <2>1 DEF AssessmentKept
  <2> QED BY <1>1, <2>4, <2>5 DEF Satisfied, RunSatisfied
<1> QED BY <1>2, <1>3 DEF CompletionIsExact

\* completion.py:1-8: for every plan, budget and number of faults, an assessment is satisfied
\* when, and only when, every run of a complete receipt is the evidence of a poll that found
\* what its role is to show, and an authority vouched for it.
THEOREM CompletionsAreExact == CompletionSpec => []CompletionIsExact
BY InvariantKept, CompletionFromInvariant, PTL
=============================================================================
