---------------------------- MODULE GateStrength ----------------------------
(***************************************************************************)
(* Gate specs as their author writes them: how they become the gates that  *)
(* are judged (expand_rules, resolve_gate_policy), how much they ask       *)
(* (strength_fingerprint), whether a later version asks for less           *)
(* (compare_strength), what lint_spec says of them, and how the results of *)
(* several are combined.                                                   *)
(*                                                                         *)
(* Matchers are sets of events, so a where clause is what makes a matcher  *)
(* smaller than the events of its names.  No check declares a strength of  *)
(* its own.                                                                *)
(***************************************************************************)
EXTENDS Gate

CONSTANTS
  Specs,
  ErrorEvents,   \* the events of the error levels
  Ambient        \* the wings the environment switches on

Wings == {"signature", "corroboration", "independent_store", "forbid_errors"}

Expectation ==
  [kind : DOMAIN Kinds, rule : UNION {Kinds[kind] : kind \in DOMAIN Kinds},
   optional : BOOLEAN, pending : BOOLEAN, weight : Nat]

\* declared: what the spec says of each wing.  allowed: the matchers of allow_errors.
\* pinned: the events of the service the spec is pinned to.
GateSpec ==
  [expect : Seq(Expectation), threshold : 1 .. 100 \cup {None}, justified : BOOLEAN,
   declared : [Wings -> {"yes", "no", "unset"}], allowed : SUBSET SUBSET Stored,
   pinned : SUBSET Stored \cup {None}]

ASSUME SpecAssumption ==
  /\ ErrorEvents \subseteq Stored /\ Ambient \subseteq Wings
  /\ Specs \subseteq GateSpec
  /\ \A s \in Specs :
       /\ IsFiniteSet(s.allowed)
       /\ \A k \in DOMAIN s.expect : s.expect[k].rule \in Kinds[s.expect[k].kind]

-----------------------------------------------------------------------------
(* From a spec to a gate                                                   *)

\* What a spec says wins over the environment.
ResolvePolicy(s) ==
  {w \in Wings : s.declared[w] = "yes" \/ (s.declared[w] = "unset" /\ w \in Ambient)}

Automatic(kind, rule) ==
  [kind |-> kind, rule |-> rule, optional |-> FALSE, pending |-> FALSE, weight |-> 1]

NoErrors(s) ==
  Automatic("absent", [match |-> ErrorEvents, fine |-> UNION s.allowed, evidence |-> FALSE])

OneService(s) ==
  Automatic("invariant",
            [left |-> Stored, right |-> s.pinned, reduceLeft |-> "count", reduceRight |-> "count",
             relation |-> "invariant", op |-> "==", target |-> 0, tol |-> 0, factor |-> 1])

Added(s) ==
  (IF "forbid_errors" \in ResolvePolicy(s) THEN <<NoErrors(s)>> ELSE <<>>)
  \o (IF s.pinned # None THEN <<OneService(s)>> ELSE <<>>)

ExpandRules(s) == s.expect \o Added(s)

GateOf(s) ==
  [checks |-> ExpandRules(s), threshold |-> s.threshold,
   policy |-> ResolvePolicy(s) \ {"forbid_errors"}]

-----------------------------------------------------------------------------
(* Strength                                                                *)

StrengthByKey ==
  [absent |-> "forbid", must_order |-> "ordered", ratioMetric |-> "ratio",
   heartbeat |-> "liveness", conforms |-> "conformance", invariant |-> "invariant",
   metamorphic |-> "metamorphic", external |-> "external", duration |-> "threshold",
   aggregate |-> "threshold"]

StrengthByRank ==
  <<{"existence-only"}, {"bounded", "threshold"}, {"value-pinned", "ordered", "forbid"},
    {"ratio", "liveness", "conformance"}, {"invariant", "metamorphic"}, {"external"}>>

Rank == [x \in UNION {StrengthByRank[n] : n \in 1 .. 6} |->
           CHOOSE n \in 1 .. 6 : x \in StrengthByRank[n]]

SameNames(match) == {e \in Stored : \E f \in match : e.name = f.name}
HasWhere(match)  == match # SameNames(match)

Strength(c) ==
  CASE c.kind \in DOMAIN StrengthByKey -> StrengthByKey[c.kind]
    [] c.kind = "present" ->
         IF \E match \in c.rule.matchers : HasWhere(match) THEN "value-pinned" ELSE "existence-only"
    [] c.kind = "count" ->
         IF HasWhere(c.rule.match) THEN "value-pinned"
         ELSE IF c.rule.op \in {"==", "!=", "<=", "<"} THEN "bounded" ELSE "existence-only"

\* Mutant: every check that is written down counts.
Written(s) == DOMAIN s.expect

\* Where the checks are that may fail the gate; the automatic ones are told by the wings.
Demanded(s) == {k \in DOMAIN s.expect : ~s.expect[k].optional /\ ~s.expect[k].pending}

OfStrength(s, x) == {k \in Demanded(s) : Strength(s.expect[k]) = x}

Quorum(s) == IF s.threshold = None THEN 100 ELSE s.threshold

\* The score is in percent of a rank.
StrengthFingerprint(s) ==
  LET ranks == [k \in DOMAIN s.expect |-> Rank[Strength(s.expect[k])]]
  IN  [gating   |-> Cardinality(Demanded(s)),
       classes  |-> [x \in DOMAIN Rank |-> Cardinality(OfStrength(s, x))],
       quorum   |-> Quorum(s),
       score    |-> Quorum(s) * SumOf(ranks, Demanded(s)),
       wings    |-> {w \in Wings \ {"independent_store"} : s.declared[w] = "yes"},
       allowing |-> Cardinality(s.allowed)]

Weakened(baseline, current) ==
  \/ current.gating < baseline.gating
  \/ current.score < baseline.score
  \/ current.quorum < baseline.quorum
  \/ \E x \in {"invariant", "ratio", "conformance", "liveness", "ordered", "forbid", "value-pinned"} :
       current.classes[x] < baseline.classes[x]
  \/ baseline.wings \ current.wings # {}
  \/ current.allowing > baseline.allowing

-----------------------------------------------------------------------------
(* Lint                                                                    *)

\* Mutant: a quorum is for the author to choose.
LicensedQuorum(s) == FALSE

UnjustifiedQuorum(s) == s.threshold # None /\ Quorum(s) < 100 /\ ~s.justified

\* The findings of high severity; VAC3, a check that is existence-only, is a medium one.
High(s) ==
  IF s.expect = <<>> THEN {"VAC0"}
  ELSE {x \in {"VAC1", "VAC2", "VAC4"} :
          CASE x = "VAC1" -> Demanded(s) = {}
            [] x = "VAC2" -> UnjustifiedQuorum(s)
            [] x = "VAC4" -> \E k \in Demanded(s) :
                               s.expect[k].kind = "count" /\ Tautological(s.expect[k].rule)}

-----------------------------------------------------------------------------
(* Results of several gates over one read                                  *)

\* Mutant: a read that is cut short is no failure, and nothing else either.
UnreadableOnly(S) == {s \in S : ~source.reachable}

Inconclusive(S) == {s \in S : ~Readable}

Combine(S) ==
  LET failed == {s \in S : Readable /\ ~Ok(GateOf(s))}
  IN  [ok |-> failed = {} /\ Inconclusive(S) = {}, failed |-> failed,
       inconclusive |-> Inconclusive(S)]

-----------------------------------------------------------------------------
(* Properties                                                              *)

\* The edits that gate.py:1104-1107 and 1119-1123 name.  A present check loses its where
\* clauses together.
Without(seq, k) == [n \in 1 .. Len(seq) - 1 |-> seq[IF n < k THEN n ELSE n + 1]]

WhereDropped(c) ==
  CASE c.kind = "count"   -> [c EXCEPT !.rule.match = SameNames(@)]
    [] c.kind = "present" -> [c EXCEPT !.rule.matchers = {SameNames(match) : match \in @}]
    [] OTHER -> c

Eased(c) == {[c EXCEPT !.optional = TRUE], [c EXCEPT !.pending = TRUE], WhereDropped(c)}

Weakenings(s) ==
  {[s EXCEPT !.expect = Without(@, k)] : k \in DOMAIN s.expect}
  \cup (UNION {{[s EXCEPT !.expect[k] = c] : c \in Eased(s.expect[k])} : k \in DOMAIN s.expect})
  \cup {[s EXCEPT !.threshold = t] : t \in {x \in 1 .. 100 : x < Quorum(s)}}
  \cup {[s EXCEPT !.declared[w] = x] :
          w \in {w \in Wings \ {"independent_store"} : s.declared[w] = "yes"}, x \in {"no", "unset"}}
  \cup {[s EXCEPT !.allowed = @ \cup {match}] : match \in SUBSET Stored}

\* Those that are not reported.
SilentEdits ==
  UNION {{<<s, t>> : t \in
            {x \in Weakenings(s) : ~Weakened(StrengthFingerprint(s), StrengthFingerprint(x))}} :
         s \in Specs}

\* gate.py:1104-1108: no such edit turns a red gate green without being reported.
WeakeningIsFlagged ==
  \A edit \in SilentEdits : Ok(GateOf(edit[2])) => Ok(GateOf(edit[1]))

\* gate.py:1045-1055: when nothing high is found and no quorum is justified, a green gate has
\* kept every one of its expectations, and one of them could have failed.  (Where a quorum
\* is asked for at all, be it of 100, what weighs nothing is not asked for.)
CleanLintLicensesNothing ==
  \A s \in Specs : High(s) = {} /\ ~s.justified /\ Ok(GateOf(s)) =>
    /\ \A k \in Demanded(s) :
         s.threshold = None \/ s.expect[k].weight > 0 => Passed(s.expect[k])
    /\ \E k \in Demanded(s) : Authoritative(s.expect[k])

\* gate.py:1230-1246: together they are green when each is, and what is not green is told
\* in exactly one way.
CombinedNeedsEach ==
  LET combined == Combine(Specs)
  IN  /\ combined.ok <=> \A s \in Specs : Ok(GateOf(s))
      /\ combined.failed \cap combined.inconclusive = {}
      /\ \A s \in Specs : ~Ok(GateOf(s)) => s \in combined.failed \cup combined.inconclusive

\* A spec cannot be eased in silence: its strength tells, lint tells, and no combination with
\* other specs hides what one of them has not earned.
EasingIsNoticed == WeakeningIsFlagged /\ CleanLintLicensesNothing /\ CombinedNeedsEach
=============================================================================
