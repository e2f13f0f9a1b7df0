-------------------------------- MODULE Gate --------------------------------
(***************************************************************************)
(* A gate judged over what a store has ingested so far: judge_events of    *)
(* engine/gate_kernel.py over the handlers of engine/gate.py, and what     *)
(* engine/verify.py makes of the result.                                   *)
(*                                                                         *)
(* Events are ingested in any order and judged in the order of their time  *)
(* stamps.  The result is a function of the ingested events, of the state  *)
(* of the read and of the probes' answers, so it is an operator here and   *)
(* not a variable.  A gate's checks are those that expand_rules yields,    *)
(* the automatic ones included.                                            *)
(***************************************************************************)
EXTENDS Automata, FiniteSets

CONSTANTS
  AggregateRules,   \* [match, fn, op, target]: a rollup of one field
  Externals,        \* [name, separate]: facts a probe is asked for
  Gates,
  Caps,             \* of the store: "dependent" and "sampled"
  MaxLength         \* bound on the number of events

Kinds ==
  [count |-> CountRules, present |-> PresentRules, must_order |-> OrderRules,
   absent |-> ForbidRules, duration |-> ForbidRules, conforms |-> ForbidRules,
   heartbeat |-> BeatRules, ratioMetric |-> RelationRules, invariant |-> RelationRules,
   metamorphic |-> RelationRules, aggregate |-> AggregateRules, external |-> Externals]

\* threshold is the quorum in percent.
ASSUME GateAssumption ==
  /\ AggregateRules \subseteq
       [match : SUBSET Stored, fn : {"sum", "min", "max", "avg"}, op : Op, target : Int]
  /\ Caps \subseteq {"dependent", "sampled"}
  /\ MaxLength \in Nat
  /\ \A g \in Gates :
       /\ {"checks", "threshold", "policy"} \subseteq DOMAIN g
       /\ g.threshold \in 1 .. 100 \cup {None}
       /\ g.policy \subseteq {"corroboration", "signature", "independent_store"}
       /\ g.checks \in Seq({g.checks[k] : k \in DOMAIN g.checks})
       /\ \A k \in DOMAIN g.checks :
            LET c == g.checks[k]
            IN /\ c.kind \in DOMAIN Kinds
               /\ c.rule \in Kinds[c.kind]
               /\ c.optional \in BOOLEAN /\ c.pending \in BOOLEAN /\ c.weight \in Nat

VARIABLES
  stream,    \* the events ingested, by stream_key
  source,    \* the read: [reachable, complete, authentic]
  observed   \* what each probe answers: none is configured, or it cannot be reached, or
             \* there is no such fact, or there is one and it fails or passes the check

vars == <<stream, source, observed>>

Answer == {"none", "down", "nothing", "fails", "passes"}

Readable == source.reachable /\ source.complete

-----------------------------------------------------------------------------
(* One check.                                                              *)

\* A rollup collects values as one side of a relation does.
AggregateStart == [got |-> 0, values |-> << >>]

AggregatePassed(r, side) ==
  LET n == Len(side.values)
  IN IF n = 0 THEN r.fn = "sum" /\ Holds(r.op, 0, r.target)
     ELSE IF r.fn = "avg" THEN Holds(r.op, Total(side.values), r.target * n)
     ELSE Holds(r.op, Reduced(r.fn, side), r.target)

StartOf(c) ==
  CASE c.kind = "count"      -> CountStart(c.rule)
    [] c.kind = "present"    -> PresentStart(c.rule)
    [] c.kind = "must_order" -> OrderStart(c.rule)
    [] c.kind = "heartbeat"  -> BeatStart(c.rule)
    [] c.kind \in {"absent", "duration", "conforms"} -> ForbidStart(c.rule)
    [] c.kind \in {"ratioMetric", "invariant", "metamorphic"} -> RelationStart(c.rule)
    [] c.kind = "aggregate"  -> AggregateStart

StepOf(c, m, ev) ==
  CASE c.kind = "count"      -> CountStep(c.rule, m, ev, 0)
    [] c.kind = "present"    -> PresentStep(c.rule, m, ev, 0)
    [] c.kind = "must_order" -> OrderStep(c.rule, m, ev, 0)
    [] c.kind = "heartbeat"  -> BeatStep(c.rule, m, ev, 0)
    [] c.kind \in {"absent", "duration", "conforms"} -> ForbidStep(c.rule, m, ev, 0)
    [] c.kind \in {"ratioMetric", "invariant", "metamorphic"} -> RelationStep(c.rule, m, ev, 0)
    [] c.kind = "aggregate"  -> Take(m, c.rule.match, c.rule.fn, ev)

\* The automaton of a check, run over events.  Where it settles does not concern a gate.
RunOver(c, events) ==
  LET run[n \in 0 .. Len(events)] ==
        IF n = 0 THEN StartOf(c) ELSE StepOf(c, run[n - 1], events[n])
  IN run[Len(events)]

Run(c) == RunOver(c, stream)

\* What a check says of the state m its automaton has reached.
Holding(c, m) ==
  IF c.kind = "aggregate" THEN AggregatePassed(c.rule, m)
  ELSE /\ Readable
       /\ CASE c.kind = "count"      -> CountPassed(c.rule, m)
            [] c.kind = "present"    -> PresentPassed(c.rule, m)
            [] c.kind = "must_order" -> OrderPassed(c.rule, m)
            [] c.kind = "heartbeat"  -> BeatPassed(c.rule, m)
            [] c.kind \in {"absent", "duration", "conforms"} -> ForbidPassed(c.rule, m)
            [] OTHER -> RelationPassed(c.rule, m)

Passed(c) ==
  IF c.kind = "external" THEN observed[c.rule] = "passes" ELSE Holding(c, Run(c))

\* Mutant: an absence that saw no offender counts as having seen something.
SawNoOffender(m) == m.offenders >= 0

SawOffender(m) == m.offenders > 0

\* Has the automaton, in state m, seen evidence at all?
Saw(c, m) ==
  CASE c.kind \in {"count", "duration", "conforms"} -> m.got > 0
    [] c.kind = "absent"      -> SawOffender(m)
    [] c.kind = "present"     -> m.hit # {}
    [] c.kind = "must_order"  -> \E n \in Names(c.rule) : m.firsts[n] # None
    [] c.kind = "heartbeat"   -> m.beats > 0
    [] c.kind = "ratioMetric" -> m.right.got > 0
    [] c.kind \in {"invariant", "metamorphic"} ->
         /\ m.left.got > 0 /\ m.right.got > 0
         /\ Reduced(c.rule.reduceLeft, m.left) # None
         /\ Reduced(c.rule.reduceRight, m.right) # None
    [] c.kind = "aggregate"   -> m.values # << >>

Charged(c) ==
  IF c.kind = "external" THEN observed[c.rule] \in {"fails", "passes"} ELSE Saw(c, Run(c))

\* Only a check that may fail the gate has authority over it.
Authoritative(c) ==
  /\ ~ c.optional /\ ~ c.pending
  /\ ~ (c.kind = "count" /\ Tautological(c.rule))

-----------------------------------------------------------------------------
(* The result of a gate.                                                   *)

CheckSet(g) == {<<k, g.checks[k]>> : k \in DOMAIN g.checks}
Gating(g)   == {p \in CheckSet(g) : Authoritative(p[2])}

WeightOf(checks) == [k \in DOMAIN checks |-> checks[k].weight]

Indices(P)   == {p[1] : p \in P}
Weight(g, P) == SumOf(WeightOf(g.checks), Indices(P))

\* A quorum over checks that weigh nothing, or over none, raises.
Raises(g) == g.threshold # None /\ ~ (Weight(g, Gating(g)) > 0)

\* The quorum is reached by the checks P that passed.
Suffices(g, P) ==
  IF g.threshold = None THEN P = Gating(g)
  ELSE 100 * Weight(g, P) >= g.threshold * Weight(g, Gating(g))

RequiredOk(g) == Suffices(g, {p \in Gating(g) : Passed(p[2])})

\* The facts of an independent source that were found and pass.
Corroborated(g) ==
  {p \in Gating(g) :
     p[2].kind = "external" /\ p[2].rule.separate /\ observed[p[2].rule] = "passes"}

\* A chain is only verified when there is something to assert.
Ok(g) ==
  /\ ~ Raises(g)
  /\ Readable
  /\ Gating(g) # {}
  /\ RequiredOk(g)
  /\ "corroboration" \in g.policy => Corroborated(g) # {}
  /\ "signature" \in g.policy => source.authentic
  /\ "independent_store" \in g.policy /\ "dependent" \in Caps => Corroborated(g) # {}

\* Any check whose probe is down, with authority or not.
ProbeReachable(g) ==
  \A p \in CheckSet(g) : p[2].kind = "external" => observed[p[2].rule] # "down"

\* The verdict of the last poll.
VerdictOf(g, ok) ==
  IF Raises(g) THEN "raises"
  ELSE IF ok THEN "present"
  ELSE IF ~ Readable \/ ~ ProbeReachable(g) THEN "inconclusive" ELSE "absent"

Verdict3(g) == VerdictOf(g, Ok(g))

\* Mutants: an order that was kept so far counts as settled; every check has to be settled.
SettledCheckOrder(c) ==
  c.kind \notin {"external", "aggregate"} /\ Run(c).verdict = "sat"

SettlingAll(g) == CheckSet(g)

\* An order that was kept may be undone by an event that is ingested later and stamped
\* earlier; external and custom checks have no verdict that is for good.
SettledCheck(c) ==
  /\ c.kind \notin {"external", "aggregate", "must_order"}
  /\ Run(c).verdict = "sat"

Settling(g) == Gating(g)

Settled(g) ==
  /\ "signature" \notin g.policy
  /\ \A p \in Settling(g) : SettledCheck(p[2])

\* May a poll that is not the last one answer present?
SettledGreen(g) == Ok(g) /\ Settled(g)

\* Mutant: any check that passes lends its strength to the gate.
EarningAny(g) == {p \in CheckSet(g) : Passed(p[2])}

Earning(g) == {p \in Gating(g) : Passed(p[2])}

\* How much a verdict proves.
EvidenceTier(g) ==
  IF Gating(g) = {} \/ ~ source.reachable THEN "local_pass"
  ELSE IF Corroborated(g) # {} THEN "external_verdict"
  ELSE IF \E p \in Earning(g) : p[2].kind \in {"invariant", "metamorphic"}
       THEN IF "sampled" \in Caps THEN "arrived" ELSE "queryable_causal"
  ELSE IF \E p \in Gating(g) : Charged(p[2]) THEN "arrived" ELSE "emitted"

-----------------------------------------------------------------------------
Init ==
  /\ stream = << >>
  /\ source = [reachable |-> TRUE, complete |-> TRUE, authentic |-> TRUE]
  /\ observed = [x \in Externals |-> "none"]

\* The store ingests an event: it is judged after those that do not come later.
Ingest(ev) ==
  LET n == Cardinality({k \in DOMAIN stream : NotBefore(ev, stream[k])})
  IN /\ Len(stream) < MaxLength
     /\ stream' = SubSeq(stream, 1, n) \o <<ev>> \o SubSeq(stream, n + 1, Len(stream))
     /\ UNCHANGED <<source, observed>>

\* A poll reads the store and asks the probes.  A chain that was broken stays broken until
\* the events change; that and every fault of a read are in the choice of source.
Read ==
  /\ source' \in [reachable : BOOLEAN, complete : BOOLEAN, authentic : BOOLEAN]
  /\ observed' \in [Externals -> Answer]
  /\ UNCHANGED stream

Next == Read \/ \E ev \in Stored : Ingest(ev)
Spec == Init /\ [][Next]_vars
-----------------------------------------------------------------------------
(* Properties.                                                             *)

\* verify.py:194-222: a settled green is green in every later complete read, whatever is
\* ingested after it, however early it is stamped, and whatever the probes answer.
SettledGreenStays ==
  [][\A g \in Gates : SettledGreen(g) /\ Readable' => Ok(g)']_vars

\* verify.py:207-210: a gate that only wants more events settles as soon as it is green, and
\* checks without authority do not hold it up.  (A present rule without matchers passes over
\* no event at all, and settles on the first.)
Growing(c) ==
  \/ c.optional \/ c.pending
  \/ c.kind = "present" /\ c.rule.matchers # {}
  \/ c.kind = "count" /\ (c.rule.op \in {">=", ">"} \/ Tautological(c.rule))

GrowingGreenSettles ==
  \A g \in Gates :
    (/\ g.threshold = None /\ "signature" \notin g.policy
     /\ \A k \in DOMAIN g.checks : Growing(g.checks[k])) =>
      (Ok(g) <=> SettledGreen(g))

\* The gate without its optional, pending and tautological checks.
AuthoritativeOf(checks) ==
  LET only[n \in 0 .. Len(checks)] ==
        IF n = 0 THEN << >>
        ELSE IF Authoritative(checks[n]) THEN Append(only[n - 1], checks[n]) ELSE only[n - 1]
  IN only[Len(checks)]

Bare(g) == [g EXCEPT !.checks = AuthoritativeOf(@)]

\* gate.py:1209-1212: checks without authority neither pass nor fail a gate, and lend it no
\* strength.
ObservationsDontGate ==
  \A g \in Gates :
    /\ Ok(g) <=> Ok(Bare(g))
    /\ EvidenceTier(g) = EvidenceTier(Bare(g))

\* The events a check can be about.
Concerns(c, ev) ==
  CASE c.kind \in {"count", "absent", "duration", "conforms", "aggregate"} -> ev \in c.rule.match
    [] c.kind = "present"    -> \E x \in c.rule.matchers : ev \in x
    [] c.kind = "must_order" -> ev.name \in Names(c.rule)
    [] c.kind = "heartbeat"  -> ev.name = c.rule.name
    [] c.kind \in {"ratioMetric", "invariant", "metamorphic"} ->
         ev \in c.rule.left \cup c.rule.right
    [] OTHER -> FALSE

\* gate.py:1190-1196: from "arrived" upwards some event that a check with authority is about
\* is in the store, or an external fact was there to be judged.
TierHasWitness ==
  \A g \in Gates : EvidenceTier(g) \notin {"local_pass", "emitted"} =>
    \E p \in Gating(g) :
      \/ \E k \in DOMAIN stream : Concerns(p[2], stream[k])
      \/ p[2].kind = "external" /\ observed[p[2].rule] \in {"fails", "passes"}

\* A gate is judged by its checks with authority alone, is credited with no more than they
\* saw, and waits for nothing else.
AuthorityDecides == ObservationsDontGate /\ TierHasWitness /\ GrowingGreenSettles

\* docs/warn_to_strict.md:39: an optional check never decides the verdict.
VerdictIgnoresObservations ==
  \A g \in Gates : Verdict3(g) = Verdict3(Bare(g))
=============================================================================
