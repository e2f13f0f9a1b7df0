------------------------------ MODULE Automata ------------------------------
(***************************************************************************)
(* The evaluation kernel of ooptdd: the LTL3 monitor automata of           *)
(* engine/monitor.py.  Each class is a start state, a step that consumes   *)
(* one event, and whether it passes when it is collapsed.  After each      *)
(* event a monitor is undecided ("pend"), or has latched "sat" or "viol".  *)
(*                                                                         *)
(* A matcher (a name and a where clause) is the set of events it matches.  *)
(* A rule of each kind is a record of what compile_check gives the         *)
(* automaton.  The store is reachable and the read is complete: otherwise  *)
(* collapse passes nothing, and that is the gate's concern.                *)
(***************************************************************************)
EXTENDS Sums

CONSTANTS
  Name,            \* event names
  Stored,          \* the events that may arrive
  CountRules, PresentRules, ForbidRules, OrderRules, BeatRules, RelationRules,
  None

Op      == {">=", ">", "==", "!=", "<=", "<"}
Verdict == {"sat", "viol", "pend"}

\* What monitors read of an event.  A store that stamps no _seq leaves it 0; emit is the
\* emitter's own sequence number, value the field a relation reduces.
Event ==
  [name : Name, time : Int \cup {None}, seq : Int, emit : Int \cup {None},
   value : Int \cup {None}]

\* A target may be fractional: twice is the target times two.
CountRule == [match : SUBSET Stored, op : Op, twice : Int]

PresentRule == [matchers : SUBSET SUBSET Stored]

\* absent, duration and conforms share one automaton: a matched event that is not fine
\* offends.  An event is fine when it is allowlisted, when its field meets the threshold,
\* when it is valid for its type; only a duration needs a matched event to pass.
ForbidRule == [match : SUBSET Stored, fine : SUBSET Stored, evidence : BOOLEAN]

OrderRule == [seq : Seq(Name), within : Nat \cup {None}, skew : Nat \cup {None}]

BeatRule == [name : Name, every : Nat, edges : BOOLEAN]

\* ratioMetric, invariant and metamorphic: a relation of two reductions.  target is twice
\* the ratio, tol the tolerance, factor the scale.
RelationRule ==
  [left : SUBSET Stored, right : SUBSET Stored,
   reduceLeft : {"sum", "min", "max", "last", "count"},
   reduceRight : {"sum", "min", "max", "last", "count"},
   relation : {"ratio", "invariant", "equal", "scaled", "subset", "monotone"},
   op : Op, target : Int, tol : Nat, factor : Int]

ASSUME EventAssumption ==
  /\ None \notin Int /\ None \notin Stored
  /\ Stored \subseteq Event
ASSUME RuleAssumption ==
  /\ CountRules \subseteq CountRule
  /\ PresentRules \subseteq PresentRule
  /\ ForbidRules \subseteq ForbidRule
  /\ OrderRules \subseteq OrderRule
  /\ \A r \in OrderRules : \A i, j \in DOMAIN r.seq : r.seq[i] = r.seq[j] => i = j
  /\ BeatRules \subseteq BeatRule
  /\ RelationRules \subseteq RelationRule

Holds(op, x, y) ==
  \/ op = ">=" /\ x >= y
  \/ op = ">"  /\ x > y
  \/ op = "==" /\ x = y
  \/ op = "!=" /\ x # y
  \/ op = "<=" /\ x <= y
  \/ op = "<"  /\ x < y

\* Mutant: a later verdict replaces the first.
LatchAgain(m, verdict, idx) ==
  IF verdict # "pend" THEN [m EXCEPT !.verdict = verdict, !.at = idx] ELSE m

\* The first inevitable verdict wins and is permanent.
Latch(m, verdict, idx) ==
  IF m.verdict = "pend" /\ verdict # "pend"
  THEN [m EXCEPT !.verdict = verdict, !.at = idx] ELSE m

-----------------------------------------------------------------------------
(* CountMonitor                                                            *)

CountMonitor ==
  [verdict : Verdict, at : Int \cup {None}, got : Nat]

\* ">=" a target that is not positive holds of the empty stream.
CountStart(r) ==
  IF r.op = ">=" /\ r.twice <= 0
  THEN [verdict |-> "sat", at |-> -1, got |-> 0]
  ELSE [verdict |-> "pend", at |-> None, got |-> 0]

CountHolds(r, got) == Holds(r.op, 2 * got, r.twice)

\* Mutants: exactly the target is taken for settled; the target itself for exceeded.
CountVerdictExact(r, got) ==
  IF r.op \in {">=", ">", "=="} /\ CountHolds(r, got) THEN "sat"
  ELSE IF \/ r.op \in {"==", "<="} /\ 2 * got > r.twice
          \/ r.op = "<" /\ 2 * got >= r.twice
  THEN "viol" ELSE "pend"

CountVerdictEarly(r, got) ==
  IF r.op \in {">=", ">"} /\ CountHolds(r, got) THEN "sat"
  ELSE IF r.op \in {"==", "<=", "<"} /\ 2 * got >= r.twice THEN "viol" ELSE "pend"

\* What the got-th match settles.
CountVerdict(r, got) ==
  IF r.op \in {">=", ">"} /\ CountHolds(r, got) THEN "sat"
  ELSE IF \/ r.op \in {"==", "<="} /\ 2 * got > r.twice
          \/ r.op = "<" /\ 2 * got >= r.twice
  THEN "viol" ELSE "pend"

CountStep(r, m, ev, idx) ==
  IF ev \in r.match
  THEN Latch([m EXCEPT !.got = @ + 1], CountVerdict(r, m.got + 1), idx)
  ELSE m

CountPassed(r, m) == CountHolds(r, m.got)

\* The flag that excludes a check that cannot fail from the gating ones.
Tautological(r) ==
  \/ r.op = ">=" /\ r.twice <= 0
  \/ r.op = ">"  /\ r.twice < 0
  \/ r.op = "!=" /\ r.twice < 0

-----------------------------------------------------------------------------
(* PresentMonitor                                                          *)

PresentMonitor ==
  [verdict : Verdict, at : Int \cup {None}, hit : SUBSET SUBSET Stored]

PresentStart(r) == [verdict |-> "pend", at |-> None, hit |-> {}]

PresentStep(r, m, ev, idx) ==
  LET hit == m.hit \cup {x \in r.matchers : ev \in x}
  IN Latch([m EXCEPT !.hit = hit], IF hit = r.matchers THEN "sat" ELSE "pend", idx)

PresentPassed(r, m) == m.hit = r.matchers

-----------------------------------------------------------------------------
(* AbsentMonitor, DurationMonitor and ConformsMonitor                      *)

ForbidMonitor ==
  [verdict : Verdict, at : Int \cup {None}, got : Nat, offenders : Nat]

ForbidStart(r) == [verdict |-> "pend", at |-> None, got |-> 0, offenders |-> 0]

ForbidStep(r, m, ev, idx) ==
  IF ev \notin r.match THEN m
  ELSE IF ev \in r.fine THEN [m EXCEPT !.got = @ + 1]
  ELSE Latch([m EXCEPT !.got = @ + 1, !.offenders = @ + 1], "viol", idx)

ForbidPassed(r, m) == m.offenders = 0 /\ (r.evidence => m.got > 0)

-----------------------------------------------------------------------------
(* OrderMonitor                                                            *)

Names(r) == {r.seq[i] : i \in DOMAIN r.seq}

OrderMonitor(r) ==
  [verdict : Verdict, at : Int \cup {None}, firsts : [Names(r) -> Stored \cup {None}]]

OrderStart(r) ==
  [verdict |-> "pend", at |-> None, firsts |-> [n \in Names(r) |-> None]]

Distance(x, y) == IF x < y THEN y - x ELSE x - y

\* Is x before y?  Two emitter stamps decide it; else inside the concurrency window
\* nothing is claimed; else the store's (time, seq) does.
PairOk(r, x, y) ==
  IF x.emit # None /\ y.emit # None THEN x.emit <= y.emit
  ELSE \/ r.skew # None /\ Distance(x.time, y.time) <= r.skew
       \/ x.time < y.time
       \/ x.time = y.time /\ x.seq <= y.seq

\* Names that have occurred, in this order in the rule, with none between that has.
Neighbours(r, firsts, i, j) ==
  /\ i < j
  /\ firsts[r.seq[i]] # None /\ firsts[r.seq[j]] # None
  /\ \A k \in DOMAIN r.seq : i < k /\ k < j => firsts[r.seq[k]] = None

OrderedSoFar(r, firsts) ==
  \A i, j \in DOMAIN r.seq :
    Neighbours(r, firsts, i, j) => PairOk(r, firsts[r.seq[i]], firsts[r.seq[j]])

\* The MTL bound is on names that are adjacent in the rule.
GapsExceeded(r, firsts) ==
  /\ r.within # None
  /\ \E i, j \in DOMAIN r.seq :
       /\ j = i + 1
       /\ firsts[r.seq[i]] # None /\ firsts[r.seq[j]] # None
       /\ firsts[r.seq[j]].time - firsts[r.seq[i]].time > r.within

Missing(r, firsts) == {n \in Names(r) : firsts[n] = None}

\* Mutant: the last occurrence, not the first.
OccurredLast(r, firsts, ev) == [firsts EXCEPT ![ev.name] = ev]

Occurred(r, firsts, ev) ==
  IF firsts[ev.name] = None THEN [firsts EXCEPT ![ev.name] = ev] ELSE firsts

OrderVerdict(r, firsts) ==
  IF ~ OrderedSoFar(r, firsts) \/ GapsExceeded(r, firsts) THEN "viol"
  ELSE IF Missing(r, firsts) = {} THEN "sat" ELSE "pend"

OrderStep(r, m, ev, idx) ==
  IF ev.name \notin Names(r) \/ ev.time = None THEN m
  ELSE LET firsts == Occurred(r, m.firsts, ev)
       IN Latch([m EXCEPT !.firsts = firsts], OrderVerdict(r, firsts), idx)

OrderPassed(r, m) ==
  /\ Missing(r, m.firsts) = {}
  /\ OrderedSoFar(r, m.firsts)
  /\ ~ GapsExceeded(r, m.firsts)

-----------------------------------------------------------------------------
(* HeartbeatMonitor                                                        *)

BeatMonitor ==
  [verdict : Verdict, at : Int \cup {None}, beats : Nat, gap : Int,
   first : Int \cup {None}, last : Int \cup {None},
   low : Int \cup {None}, high : Int \cup {None}]

BeatStart(r) ==
  [verdict |-> "pend", at |-> None, beats |-> 0, gap |-> 0,
   first |-> None, last |-> None, low |-> None, high |-> None]

Least(x, y)    == IF x = None \/ y < x THEN y ELSE x
Greatest(x, y) == IF x = None \/ y > x THEN y ELSE x

\* The span of the stream, when the edges count.
Span(r, m, ev) ==
  IF r.edges /\ ev.time # None
  THEN [m EXCEPT !.low = Least(@, ev.time), !.high = Greatest(@, ev.time)] ELSE m

Beat(r, m, ev, idx) ==
  LET gap == IF m.last = None THEN 0 ELSE ev.time - m.last
  IN Latch([m EXCEPT !.beats = @ + 1,
                     !.first = IF @ = None THEN ev.time ELSE @,
                     !.last = ev.time,
                     !.gap = IF gap > @ THEN gap ELSE @],
           IF gap > r.every THEN "viol" ELSE "pend", idx)

BeatStep(r, m, ev, idx) ==
  IF ev.name = r.name /\ ev.time # None THEN Beat(r, Span(r, m, ev), ev, idx)
                                        ELSE Span(r, m, ev)

BeatPassed(r, m) ==
  /\ m.beats > 0
  /\ m.gap <= r.every
  /\ r.edges => m.first - m.low <= r.every /\ m.high - m.last <= r.every

-----------------------------------------------------------------------------
(* RatioMonitor, InvariantMonitor and MetamorphicMonitor: they never latch. *)

Side == [got : Nat, values : Seq(Int)]

RelationMonitor ==
  [verdict : {"pend"}, at : {None}, left : Side, right : Side]

RelationStart(r) ==
  LET nothing == [got |-> 0, values |-> << >>]
  IN [verdict |-> "pend", at |-> None, left |-> nothing, right |-> nothing]

\* Mutant: a field that is missing or not a number is collected all the same.
TakeAnything(side, match, reduce, ev) ==
  IF ev \notin match THEN side
  ELSE [got |-> side.got + 1,
        values |-> IF reduce # "count" THEN Append(side.values, ev.value) ELSE side.values]

\* One side takes an event: a count needs no value, and what has none is only counted.
Take(side, match, reduce, ev) ==
  IF ev \notin match THEN side
  ELSE [got |-> side.got + 1,
        values |-> IF reduce # "count" /\ ev.value # None
                   THEN Append(side.values, ev.value) ELSE side.values]

RelationStep(r, m, ev, idx) ==
  [m EXCEPT !.left = Take(@, r.left, r.reduceLeft, ev),
            !.right = Take(@, r.right, r.reduceRight, ev)]

Total(values) == SumOf(values, DOMAIN values)

Reduced(reduce, side) ==
  IF reduce = "count" THEN side.got
  ELSE IF side.values = << >> THEN None
  ELSE LET seen == {side.values[k] : k \in DOMAIN side.values}
       IN CASE reduce = "sum"  -> Total(side.values)
            [] reduce = "min"  -> CHOOSE x \in seen : \A y \in seen : x <= y
            [] reduce = "max"  -> CHOOSE x \in seen : \A y \in seen : y <= x
            [] reduce = "last" -> side.values[Len(side.values)]

RelationPassed(r, m) ==
  LET x == Reduced(r.reduceLeft, m.left)
      y == Reduced(r.reduceRight, m.right)
  IN IF r.relation = "ratio"
     THEN /\ m.right.got # 0 /\ m.left.got <= m.right.got
          /\ Holds(r.op, 2 * m.left.got, r.target * m.right.got)
     ELSE /\ m.left.got # 0 /\ m.right.got # 0
          /\ x # None /\ y # None
          /\ \/ r.relation = "invariant" /\ r.op = "==" /\ Distance(x, y) <= r.tol
             \/ r.relation = "invariant" /\ r.op # "==" /\ Holds(r.op, x, y)
             \/ r.relation = "equal"    /\ Distance(x, y) <= r.tol
             \/ r.relation = "scaled"   /\ Distance(y, r.factor * x) <= r.tol
             \/ r.relation = "subset"   /\ y <= x + r.tol
             \/ r.relation = "monotone" /\ y >= x - r.tol

-----------------------------------------------------------------------------
(* The order of a stream.                                                  *)

\* stream_key: by time and then by seq, events without a time last.
NotBefore(x, y) ==
  IF x.time = None THEN y.time # None \/ x.seq >= y.seq
  ELSE /\ y.time # None
       /\ x.time > y.time \/ (x.time = y.time /\ x.seq >= y.seq)
=============================================================================
