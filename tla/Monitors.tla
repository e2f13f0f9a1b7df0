------------------------------ MODULE Monitors ------------------------------
(***************************************************************************)
(* LiveMonitorSet of engine/monitor.py: a bank of the automata of Automata *)
(* fed one event at a time.  run_monitor is the special case of one        *)
(* monitor and a sorted prefix.                                            *)
(***************************************************************************)
EXTENDS Automata, FiniteSets

CONSTANT MaxLength   \* bound on the length of the stream

ASSUME LengthAssumption == MaxLength \in Nat

VARIABLES
  stream,     \* the events fed so far
  counts, presents, forbids, orders, beats, relations   \* one monitor per rule

vars == <<stream, counts, presents, forbids, orders, beats, relations>>

-----------------------------------------------------------------------------

Init ==
  /\ stream = << >>
  /\ counts    = [r \in CountRules    |-> CountStart(r)]
  /\ presents  = [r \in PresentRules  |-> PresentStart(r)]
  /\ forbids   = [r \in ForbidRules   |-> ForbidStart(r)]
  /\ orders    = [r \in OrderRules    |-> OrderStart(r)]
  /\ beats     = [r \in BeatRules     |-> BeatStart(r)]
  /\ relations = [r \in RelationRules |-> RelationStart(r)]

Feed(ev) ==
  LET idx == Len(stream)
  IN /\ idx < MaxLength
     /\ stream' = Append(stream, ev)
     /\ counts'    = [r \in CountRules    |-> CountStep(r, counts[r], ev, idx)]
     /\ presents'  = [r \in PresentRules  |-> PresentStep(r, presents[r], ev, idx)]
     /\ forbids'   = [r \in ForbidRules   |-> ForbidStep(r, forbids[r], ev, idx)]
     /\ orders'    = [r \in OrderRules    |-> OrderStep(r, orders[r], ev, idx)]
     /\ beats'     = [r \in BeatRules     |-> BeatStep(r, beats[r], ev, idx)]
     /\ relations' = [r \in RelationRules |-> RelationStep(r, relations[r], ev, idx)]

\* A batch run sorts the prefix first; a live feed hands over events as they arrive.
Next == \E ev \in Stored : Feed(ev)

Spec == Init /\ [][Next]_vars

-----------------------------------------------------------------------------
(* Properties.                                                             *)

\* A monitor that has settled says at which event of the stream, -1 being before the first.
Placed(m) ==
  /\ m.verdict = "pend" <=> m.at = None
  /\ m.at # None => m.at \in -1 .. Len(stream) - 1

\* Every monitor has the fields of its class, numeric where the class computes with them.
TypeOK ==
  /\ stream \in Seq(Stored)
  /\ counts \in [CountRules -> CountMonitor]
  /\ presents \in [PresentRules -> PresentMonitor]
  /\ forbids \in [ForbidRules -> ForbidMonitor]
  /\ \A r \in OrderRules : orders[r] \in OrderMonitor(r)
  /\ beats \in [BeatRules -> BeatMonitor]
  /\ relations \in [RelationRules -> RelationMonitor]
  /\ \A r \in CountRules : Placed(counts[r])
  /\ \A r \in PresentRules : Placed(presents[r])
  /\ \A r \in ForbidRules : Placed(forbids[r])
  /\ \A r \in OrderRules : Placed(orders[r])
  /\ \A r \in BeatRules : Placed(beats[r])

\* What "sat" means: no continuation of the stream falsifies the check.  Whenever a monitor
\* has latched it, in this or an earlier step, the check passes over the stream so far.
SatIsFinal ==
  /\ \A r \in CountRules   : counts[r].verdict = "sat"   => CountPassed(r, counts[r])
  /\ \A r \in PresentRules : presents[r].verdict = "sat" => PresentPassed(r, presents[r])
  /\ \A r \in ForbidRules  : forbids[r].verdict = "sat"  => ForbidPassed(r, forbids[r])
  /\ \A r \in OrderRules   : orders[r].verdict = "sat"   => OrderPassed(r, orders[r])
  /\ \A r \in BeatRules    : beats[r].verdict = "sat"    => BeatPassed(r, beats[r])

\* What "viol" means: no continuation satisfies the check.
ViolIsFinal ==
  /\ \A r \in CountRules   : counts[r].verdict = "viol"   => ~ CountPassed(r, counts[r])
  /\ \A r \in PresentRules : presents[r].verdict = "viol" => ~ PresentPassed(r, presents[r])
  /\ \A r \in ForbidRules  : forbids[r].verdict = "viol"  => ~ ForbidPassed(r, forbids[r])
  /\ \A r \in BeatRules    : beats[r].verdict = "viol"    => ~ BeatPassed(r, beats[r])

\* monitor.py:6-10: a verdict that has been latched is the verdict of every continuation,
\* orders that have failed excepted.
SettledIsFinal == SatIsFinal /\ ViolIsFinal

\* monitor.py:369-371: nor does any, once two first occurrences are out of order.
InversionIsFinal ==
  \A r \in OrderRules : orders[r].verdict = "viol" => ~ OrderPassed(r, orders[r])

\* One authority compares all names of the rule, and it orders them.  Of two names only the
\* one pair is ever compared; a window of concurrency is no order among three.
Comparable(r) ==
  \/ Len(r.seq) <= 2
  \/ /\ r.skew = None
     /\ \/ \A ev \in Stored : ev.emit # None
        \/ \A ev \in Stored : ev.emit = None

\* Nor does any for an order whose events are stamped alike.
ComparableInversionIsFinal ==
  \A r \in OrderRules :
    Comparable(r) /\ orders[r].verdict = "viol" => ~ OrderPassed(r, orders[r])

(* What a check means over a whole stream, told without an automaton.      *)

At(match)   == {k \in DOMAIN stream : stream[k] \in match}
Beats(name) == {k \in DOMAIN stream : stream[k].name = name /\ stream[k].time # None}
Timed       == {k \in DOMAIN stream : stream[k].time # None}
Lowest(K)   == CHOOSE k \in K : \A j \in K : k <= j
Highest(K)  == CHOOSE k \in K : \A j \in K : j <= k

BatchOrder(r) ==
  /\ \A n \in Names(r) : Beats(n) # {}
  /\ \A i, j \in DOMAIN r.seq : j = i + 1 =>
       LET x == stream[Lowest(Beats(r.seq[i]))]
           y == stream[Lowest(Beats(r.seq[j]))]
       IN PairOk(r, x, y) /\ (r.within # None => y.time - x.time <= r.within)

\* No silence longer than every: between beats, and at the edges if they count.
BatchBeat(r) ==
  LET K == Beats(r.name)
  IN /\ K # {}
     /\ \A j, k \in K :
          j < k /\ (\A i \in K : i <= j \/ k <= i) =>
            stream[k].time - stream[j].time <= r.every
     /\ r.edges => \A k \in Timed :
          /\ stream[Lowest(K)].time - stream[k].time <= r.every
          /\ stream[k].time - stream[Highest(K)].time <= r.every

BatchReduced(reduce, match) ==
  LET K == {k \in At(match) : stream[k].value # None}
  IN IF reduce = "count" THEN Cardinality(At(match))
     ELSE IF K = {} THEN None
     ELSE CASE reduce = "sum"  -> SumOf([k \in DOMAIN stream |-> stream[k].value], K)
            [] reduce = "min"  -> Lowest({stream[k].value : k \in K})
            [] reduce = "max"  -> Highest({stream[k].value : k \in K})
            [] reduce = "last" -> stream[Highest(K)].value

\* The collapse of an automaton that saw the events one by one is the batch verdict over the
\* whole stream, and reductions see every value of every matched event.
CollapseIsBatch ==
  /\ \A r \in CountRules :
       CountPassed(r, counts[r]) <=> CountHolds(r, Cardinality(At(r.match)))
  /\ \A r \in PresentRules :
       PresentPassed(r, presents[r]) <=> \A x \in r.matchers : At(x) # {}
  /\ \A r \in ForbidRules :
       ForbidPassed(r, forbids[r]) <=>
         At(r.match \ r.fine) = {} /\ (r.evidence => At(r.match) # {})
  /\ \A r \in OrderRules : OrderPassed(r, orders[r]) <=> BatchOrder(r)
  /\ \A r \in BeatRules : BeatPassed(r, beats[r]) <=> BatchBeat(r)
  /\ \A r \in RelationRules :
       /\ Reduced(r.reduceLeft, relations[r].left) = BatchReduced(r.reduceLeft, r.left)
       /\ Reduced(r.reduceRight, relations[r].right) = BatchReduced(r.reduceRight, r.right)

\* The verdict that the first k events make inevitable for a count: every number of further
\* matches passes, or none does.  Past the target no comparison changes any more.
Inevitable(r, k) ==
  LET got  == Cardinality({j \in 1 .. k : stream[j] \in r.match})
      ends == got .. got + Distance(0, r.twice) + 1
  IN IF \A n \in ends : CountHolds(r, n) THEN "sat"
     ELSE IF \A n \in ends : ~ CountHolds(r, n) THEN "viol" ELSE "pend"

\* The code never settles "!=" as satisfied, nor "==" at once when no count can equal its
\* target; and of what is inevitable before the first event it only notices ">=".
Settles(r) ==
  /\ r.op # "!="
  /\ r.op = "==" => r.twice % 2 = 0
  /\ r.op # ">=" => CountVerdict(r, 0) = "pend"

\* monitor.py:12-15: a count commits the instant its verdict is inevitable, and records where.
CommitsAtOnce ==
  \A r \in {q \in CountRules : Settles(q)} :
    IF Inevitable(r, Len(stream)) = "pend" THEN counts[r].verdict = "pend"
    ELSE LET k == CHOOSE k \in 0 .. Len(stream) :
                    /\ Inevitable(r, k) # "pend"
                    /\ \A j \in 0 .. k - 1 : Inevitable(r, j) = "pend"
         IN counts[r].verdict = Inevitable(r, k) /\ counts[r].at = k - 1
=============================================================================
