---------------------------- MODULE GateEvidence ----------------------------
(***************************************************************************)
(* Typed evidence of one gate verification: ouroboros/gate_adapter.py of   *)
(* the mutation extension over the result that verify_gate returns.        *)
(*                                                                         *)
(* adapt_gate_verification takes the result apart, recomputes from its     *)
(* checks everything else it says, and refuses a result that disagrees;    *)
(* validate_gate_evidence recomputes the same from the sealed document.    *)
(* The engine, the adapter and the validator are three codings of one      *)
(* judgement, and are three here: Ok and EvidenceTier of Gate, Adapts, and *)
(* ValidDocument.                                                          *)
(*                                                                         *)
(* A digest is the value it is taken of.  The digest of the whole result,  *)
(* which the document carries, adds nothing here: the document determines  *)
(* the result.  Labels, monitors and arrival statistics are left out.      *)
(***************************************************************************)
EXTENDS Gate

CONSTANTS
  Identity,    \* names of the endpoints that write and read
  Emitter,     \* the identity of the store the gate reads
  Reader,      \* the identity each external probe derives for itself, or None
  Boundaries   \* the oracle boundaries a cycle may lock

RunRole    == {"initial_red", "positive", "negative", "regreen"}
GreenRole  == {"positive", "regreen"}
CompletionTier == {"arrived", "queryable_causal", "external_verdict"}

IsIndependent(b) == b.separate /\ b.emit # b.read

\* A probe of the very endpoint the events were emitted to is demoted: see Externals of Gate.
ASSUME OracleAssumption ==
  /\ Emitter \in Identity
  /\ Reader \in [Externals -> Identity \cup {None}]
  /\ \A x \in Externals : x.separate => Reader[x] # Emitter
  /\ Boundaries \subseteq
       [emit : Identity, read : Identity, separate : BOOLEAN, corroborated : BOOLEAN]
  /\ \A b \in Boundaries : b.corroborated => IsIndependent(b)
  /\ None \notin Identity /\ None \notin BOOLEAN

-----------------------------------------------------------------------------
(* What verify_gate returns.                                               *)

Strength(kind) ==
  IF kind \in {"external", "invariant", "metamorphic"} THEN kind ELSE "weaker"

\* One check of the result, as _decorate_check leaves it.
Report(c) ==
  [passed |-> Passed(c), optional |-> c.optional, pending |-> c.pending,
   tautological |-> c.kind = "count" /\ Tautological(c.rule),
   weight |-> c.weight, strength |-> Strength(c.kind), charged |-> Charged(c),
   grounding |-> IF c.kind = "external" /\ c.rule.separate THEN "corroborated"
                 ELSE "derived-self",
   reader |-> IF c.kind = "external" THEN Reader[c.rule] ELSE None]

\* No score, which a gate without a quorum has: the total of a score is positive.
NoScore == [passed |-> 0, total |-> 0]

\* A gate that raises has no result.  Without settle_early every result is bounded-final.
Result(g, checks, ok, settled) ==
  [ok |-> ok, verdict |-> VerdictOf(g, ok),
   settlement |-> IF ok /\ settled THEN "irrevocable_prefix" ELSE "bounded_final",
   reachable |-> source.reachable, complete |-> source.complete,
   probe |-> ProbeReachable(g),
   checks |-> checks,
   threshold |-> g.threshold,
   score |-> IF g.threshold = None THEN NoScore
             ELSE [passed |-> Weight(g, {p \in Gating(g) : checks[p[1]].passed}),
                   total |-> Weight(g, Gating(g))],
   corroborated |-> Cardinality(Indices(Corroborated(g))),
   authenticated |-> IF "signature" \in g.policy /\ Gating(g) # {} THEN source.authentic
                     ELSE None,
   policy |-> g.policy, emit |-> Emitter,
   independent |-> "dependent" \notin Caps, sampled |-> "sampled" \in Caps]

Verification(g, settleEarly) ==
  Result(g, [k \in DOMAIN g.checks |-> Report(g.checks[k])], Ok(g),
         settleEarly /\ Settled(g))

-----------------------------------------------------------------------------
(* What the adapter and the validator recompute from projected checks.     *)

\* Mutant: a check that cannot fail keeps its authority.
ProjectedGatingTautologies(checks) ==
  {k \in DOMAIN checks : ~ checks[k].optional /\ ~ checks[k].pending}

ProjectedGating(checks) ==
  {k \in DOMAIN checks :
     ~ checks[k].optional /\ ~ checks[k].pending /\ ~ checks[k].tautological}

ProjectedScore(checks) ==
  LET gating == ProjectedGating(checks)
  IN [passed |-> SumOf(WeightOf(checks), {k \in gating : checks[k].passed}),
      total |-> SumOf(WeightOf(checks), gating)]

Reaches(score, threshold) == 100 * score.passed >= threshold * score.total

ProjectedRequiredOk(checks, threshold) ==
  IF threshold = None THEN \A k \in ProjectedGating(checks) : checks[k].passed
  ELSE Reaches(ProjectedScore(checks), threshold)

ProjectedCorroborated(checks) ==
  {k \in ProjectedGating(checks) :
     checks[k].passed /\ checks[k].grounding = "corroborated"}

\* Mutant: a sampled store is trusted with causal claims.
ProjectedTierUnsampled(checks, reachable, sampled) ==
  LET gating == ProjectedGating(checks)
  IN IF gating = {} \/ ~ reachable THEN "local_pass"
     ELSE IF ProjectedCorroborated(checks) # {} THEN "external_verdict"
     ELSE IF \E k \in gating : checks[k].passed /\ checks[k].strength \in {"invariant", "metamorphic"}
          THEN "queryable_causal"
     ELSE IF \E k \in gating : checks[k].charged THEN "arrived" ELSE "emitted"

ProjectedTier(checks, reachable, sampled) ==
  LET gating == ProjectedGating(checks)
  IN IF gating = {} \/ ~ reachable THEN "local_pass"
     ELSE IF ProjectedCorroborated(checks) # {} THEN "external_verdict"
     ELSE IF \E k \in gating : checks[k].passed /\ checks[k].strength \in {"invariant", "metamorphic"}
          THEN IF sampled THEN "arrived" ELSE "queryable_causal"
     ELSE IF \E k \in gating : checks[k].charged THEN "arrived" ELSE "emitted"

\* ok, recomputed: x is a result or a document, which name these fields alike.
ProjectedOk(x) ==
  LET asserts == ProjectedGating(x.checks) # {}
      alone   == ProjectedCorroborated(x.checks) = {}
  IN /\ x.reachable /\ x.complete /\ asserts
     /\ ProjectedRequiredOk(x.checks, x.threshold)
     /\ ~ ("corroboration" \in x.policy /\ alone)
     /\ ~ ("signature" \in x.policy /\ x.authenticated # TRUE)
     /\ ~ ("independent_store" \in x.policy /\ ~ x.independent /\ alone)

InfraUncertain(x) == ~ x.reachable \/ ~ x.complete \/ ~ x.probe

ProjectedVerdict(x) ==
  IF InfraUncertain(x) THEN "inconclusive" ELSE IF x.ok THEN "present" ELSE "absent"

-----------------------------------------------------------------------------
(* adapt_gate_verification.  A request q is what the caller passes beside  *)
(* the result: the role, the identity of the run and of the cycle, the     *)
(* subject's outcome, the locked and the executed source, the boundary.    *)

Expected(role) == IF role \in GreenRole THEN "green" ELSE "red"

\* Only the negative run executes another source than the locked one.
RightRequest(q) ==
  /\ q.subject = Expected(q.role)
  /\ q.role = "negative" <=> q.executed # q.lock

\* The result agrees with what its own checks say.
Consistent(v) ==
  /\ (v.threshold = None) = (v.score = NoScore)
  /\ v.threshold # None => v.score = ProjectedScore(v.checks) /\ v.score.total > 0
  /\ v.corroborated = Cardinality(ProjectedCorroborated(v.checks))
  /\ (v.authenticated # None)
       = ("signature" \in v.policy /\ ProjectedGating(v.checks) # {})
  /\ v.ok = ProjectedOk(v)
  /\ v.verdict = ProjectedVerdict(v)

SubjectObserved(v, q) ==
  InfraUncertain(v) \/
    /\ q.subject = IF v.ok THEN "green" ELSE "red"
    /\ q.subject = "red" => ~ ProjectedRequiredOk(v.checks, v.threshold)

Readers(checks) ==
  {checks[k].reader : k \in ProjectedCorroborated(checks)} \ {None}

\* Mutant: the boundary's reader is enough.
GroundedByReader(tier, b, readers) ==
  tier = "external_verdict" => b.read \in readers

\* An external verdict is read by the reader the boundary names.
Grounded(tier, b, readers) ==
  tier = "external_verdict" => b.corroborated /\ IsIndependent(b) /\ b.read \in readers

AdaptedTier(v) == ProjectedTier(v.checks, v.reachable, v.sampled)

Adapts(v, q) ==
  /\ RightRequest(q)
  /\ v.settlement = "bounded_final"
  /\ v.emit = q.boundary.emit
  /\ Consistent(v)
  /\ SubjectObserved(v, q)
  /\ Grounded(AdaptedTier(v), q.boundary, Readers(v.checks))
  /\ q.role \in GreenRole /\ ~ InfraUncertain(v) =>
       v.verdict = "present" /\ AdaptedTier(v) \in CompletionTier

Lifecycle(v, q) == IF InfraUncertain(v) THEN "inconclusive" ELSE q.subject

Projection(check) ==
  [f \in DOMAIN check \ {"reader"} |-> check[f]]

\* The sealed artifact.
Document(v, q) ==
  [role |-> q.role, run |-> q.run, cycle |-> q.cycle, lock |-> q.lock,
   executed |-> q.executed, boundary |-> q.boundary,
   subject |-> q.subject, lifecycle |-> Lifecycle(v, q),
   verdict |-> v.verdict, reachable |-> v.reachable, complete |-> v.complete,
   probe |-> v.probe, ok |-> v.ok, score |-> v.score, threshold |-> v.threshold,
   gating |-> ProjectedGating(v.checks),
   checks |-> [k \in DOMAIN v.checks |-> Projection(v.checks[k])],
   tier |-> AdaptedTier(v), emit |-> v.emit, readers |-> Readers(v.checks),
   corroborated |-> v.corroborated, policy |-> v.policy,
   authenticated |-> v.authenticated, independent |-> v.independent,
   sampled |-> v.sampled]

\* The run record that binds it.
RunEvidence(d) ==
  [role |-> d.role, run |-> d.run, outcome |-> d.lifecycle, observation |-> d.verdict,
   tier |-> d.tier, artifact |-> d, lock |-> d.lock, executed |-> d.executed]

-----------------------------------------------------------------------------
(* validate_gate_evidence.                                                 *)

\* The closed vocabulary of a document and of its checks.
DocumentVocabulary ==
  [role |-> RunRole, subject |-> {"red", "green"},
   lifecycle |-> {"red", "green", "inconclusive"},
   verdict |-> {"present", "absent", "inconclusive"},
   reachable |-> BOOLEAN, complete |-> BOOLEAN, probe |-> BOOLEAN, ok |-> BOOLEAN,
   threshold |-> 1 .. 100 \cup {None}, tier |-> CompletionTier \cup {"local_pass", "emitted"},
   corroborated |-> Nat, authenticated |-> BOOLEAN \cup {None},
   independent |-> BOOLEAN, sampled |-> BOOLEAN]

CheckVocabulary ==
  [passed : BOOLEAN, optional : BOOLEAN, pending : BOOLEAN, tautological : BOOLEAN,
   weight : Nat, strength : {"external", "invariant", "metamorphic", "weaker"},
   charged : BOOLEAN, grounding : {"corroborated", "derived-self"}]

ClosedShape(d) ==
  /\ \A f \in DOMAIN DocumentVocabulary : d[f] \in DocumentVocabulary[f]
  /\ \A k \in DOMAIN d.checks : d.checks[k] \in CheckVocabulary

ValidBinding(d) ==
  /\ d.subject = Expected(d.role)
  /\ d.role = "negative" <=> d.executed # d.lock
  /\ d.emit = d.boundary.emit

\* Mutant: an uncertain probe is not an uncertain read.
ValidReadbackAnyProbe(d) ==
  LET infra == ~ d.reachable \/ ~ d.complete
  IN /\ d.verdict = IF infra THEN "inconclusive" ELSE IF d.ok THEN "present" ELSE "absent"
     /\ d.lifecycle = IF infra THEN "inconclusive" ELSE d.subject

ValidReadback(d) ==
  /\ d.verdict = ProjectedVerdict(d)
  /\ d.lifecycle = IF InfraUncertain(d) THEN "inconclusive" ELSE d.subject

ValidAggregation(d) ==
  /\ d.gating = ProjectedGating(d.checks)
  /\ (d.threshold = None) = (d.score = NoScore)
  /\ d.threshold # None => d.score = ProjectedScore(d.checks) /\ d.score.total > 0
  /\ d.ok = ProjectedOk(d)
  /\ ~ InfraUncertain(d) =>
       /\ d.subject = IF d.ok THEN "green" ELSE "red"
       /\ d.subject = "red" => ~ ProjectedRequiredOk(d.checks, d.threshold)

ValidOracle(d) ==
  /\ d.corroborated = Cardinality(ProjectedCorroborated(d.checks))
  /\ (d.authenticated # None)
       = ("signature" \in d.policy /\ ProjectedGating(d.checks) # {})
  /\ d.tier = ProjectedTier(d.checks, d.reachable, d.sampled)
  /\ Grounded(d.tier, d.boundary, d.readers)
  /\ d.role \in GreenRole /\ d.lifecycle # "inconclusive" =>
       d.verdict = "present" /\ d.tier \in CompletionTier

ValidDocument(d) ==
  ClosedShape(d) /\ ValidBinding(d) /\ ValidReadback(d) /\ ValidAggregation(d) /\ ValidOracle(d)

\* ... against the run, the cycle and the boundary of a receipt.
ValidFor(d, run, cycle, boundary) ==
  /\ ValidDocument(d)
  /\ run = RunEvidence(d)
  /\ d.cycle = cycle /\ d.boundary = boundary

-----------------------------------------------------------------------------
\* What a caller may ask the adapter for, for one cycle and one locked source.
Request(cycle, b) ==
  [role : RunRole, run : {1}, cycle : {cycle}, subject : {"red", "green"},
   lock : {"locked"}, executed : {"locked", "mutated"}, boundary : {b}]

Requests == UNION {Request(None, b) : b \in Boundaries}
=============================================================================
