--------------------------- MODULE MonitorsProofs ---------------------------
(***************************************************************************)
(* Theorems about Monitors, for every set of rules and every stream,       *)
(* sorted or not: the automata stay well formed; what a monitor has        *)
(* settled no continuation undoes, an order of events that no one          *)
(* authority compares excepted; a count settles at once; and collapsing an *)
(* automaton that saw the events one by one is the batch verdict.          *)
(*                                                                         *)
(* The argument is by kind: one lemma says what a step keeps, and the      *)
(* theorems put the kinds together.  The first half needs only what each   *)
(* monitor says of itself (...Ok); the second relates it to the events it  *)
(* was fed (...Seen).                                                      *)
(***************************************************************************)
EXTENDS Monitors, Induction

\* What a monitor says of where it settled, before n events have been fed.
PlacedBefore(m, n) ==
  /\ m.verdict = "pend" <=> m.at = None
  /\ m.at # None => m.at \in -1 .. n - 1

-----------------------------------------------------------------------------
(* Counts.                                                                 *)

\* What a count settles as failed for.
Exceeded(r, got) ==
  \/ r.op \in {"==", "<="} /\ 2 * got > r.twice
  \/ r.op = "<" /\ 2 * got >= r.twice

CountOk(r, m, n) ==
  /\ m \in CountMonitor
  /\ PlacedBefore(m, n)
  /\ m.verdict = "sat" => r.op \in {">=", ">"} /\ CountPassed(r, m)
  /\ m.verdict = "viol" => Exceeded(r, m.got)

LEMMA CountSettles ==
  ASSUME NEW c \in CountMonitor, NEW v \in Verdict, NEW n \in Nat
  PROVE  [c EXCEPT !.verdict = v, !.at = n] \in CountMonitor
<1>1. n \in Int \cup {None}
  OBVIOUS
<1> QED
  BY <1>1 DEF CountMonitor

LEMMA CountStarts ==
  ASSUME NEW r \in CountRule
  PROVE  CountOk(r, CountStart(r), 0)
<1>1. r.op \in Op /\ r.twice \in Int
  BY DEF CountRule
<1>2. None \notin Int
  BY EventAssumption
<1> QED
  BY <1>1, <1>2
  DEF CountOk, CountStart, CountMonitor, PlacedBefore, CountPassed, CountHolds, Holds, Verdict, Op

LEMMA CountSteps ==
  ASSUME NEW r \in CountRule, NEW m, NEW n \in Nat, NEW ev, CountOk(r, m, n)
  PROVE  CountOk(r, CountStep(r, m, ev, n), n + 1)
<1>1. r.op \in Op /\ r.twice \in Int
  BY DEF CountRule
<1>2. None \notin Int
  BY EventAssumption
<1>3. m \in CountMonitor /\ m.got \in Nat /\ m.verdict \in Verdict /\ m.at \in Int \cup {None}
  BY DEF CountOk, CountMonitor
<1>4. CASE ev \notin r.match
  BY <1>2, <1>3, <1>4 DEF CountOk, CountStep, PlacedBefore
<1>5. CASE ev \in r.match
  <2> DEFINE c == [m EXCEPT !.got = @ + 1]
             v == CountVerdict(r, m.got + 1)
  <2>1. /\ c \in CountMonitor /\ c.got = m.got + 1
        /\ c.verdict = m.verdict /\ c.at = m.at
    BY <1>3 DEF CountMonitor
  <2>2. /\ v \in Verdict
        /\ v = "sat" => r.op \in {">=", ">"} /\ CountHolds(r, m.got + 1)
        /\ v = "viol" => Exceeded(r, m.got + 1)
    BY DEF CountVerdict, Verdict, Exceeded
  <2>3. CASE m.verdict = "pend" /\ v # "pend"
    <3>1. CountStep(r, m, ev, n) = [c EXCEPT !.verdict = v, !.at = n]
      BY <1>5, <2>1, <2>3 DEF CountStep, Latch
    <3> HIDE DEF c, v
    <3>2. [c EXCEPT !.verdict = v, !.at = n] \in CountMonitor
      BY <2>1, <2>2, CountSettles
    <3> QED
      BY <3>1, <3>2, <2>1, <2>2, <2>3, <1>2 DEF CountOk, PlacedBefore, CountPassed, CountMonitor
  <2>4. CASE ~ (m.verdict = "pend" /\ v # "pend")
    <3>1. CountStep(r, m, ev, n) = c
      BY <1>5, <2>1, <2>4 DEF CountStep, Latch
    <3>2. PlacedBefore(c, n + 1)
      BY <2>1, <1>2, <1>3 DEF CountOk, PlacedBefore
    <3>3. c.verdict = "sat" => r.op \in {">=", ">"} /\ CountHolds(r, m.got)
      BY <2>1 DEF CountOk, CountPassed
    <3>4. c.verdict = "sat" => CountHolds(r, m.got + 1)
      BY <3>3, <1>1, <1>3 DEF CountHolds, Holds
    <3>5. c.verdict = "viol" => Exceeded(r, m.got + 1)
      BY <2>1, <1>1, <1>3 DEF CountOk, Exceeded
    <3> QED
      BY <3>1, <3>2, <3>3, <3>4, <3>5, <2>1 DEF CountOk, CountPassed
  <2> QED
    BY <2>3, <2>4
<1> QED
  BY <1>4, <1>5

-----------------------------------------------------------------------------
(* Presence.                                                               *)

PresentOk(r, m, n) ==
  /\ m \in PresentMonitor
  /\ PlacedBefore(m, n)
  /\ m.hit \subseteq r.matchers
  /\ m.verdict = "sat" => m.hit = r.matchers
  /\ m.verdict # "viol"

LEMMA PresentSettles ==
  ASSUME NEW c \in PresentMonitor, NEW v \in Verdict, NEW n \in Nat
  PROVE  [c EXCEPT !.verdict = v, !.at = n] \in PresentMonitor
<1>1. n \in Int \cup {None}
  OBVIOUS
<1> QED
  BY <1>1 DEF PresentMonitor

LEMMA PresentStarts ==
  ASSUME NEW r \in PresentRule
  PROVE  PresentOk(r, PresentStart(r), 0)
BY EventAssumption
DEF PresentRule, PresentOk, PresentStart, PresentMonitor, PlacedBefore, Verdict

LEMMA PresentSteps ==
  ASSUME NEW r \in PresentRule, NEW m, NEW n \in Nat, NEW ev, PresentOk(r, m, n)
  PROVE  PresentOk(r, PresentStep(r, m, ev, n), n + 1)
<1>1. r.matchers \in SUBSET SUBSET Stored
  BY DEF PresentRule
<1>2. None \notin Int
  BY EventAssumption
<1>3. /\ m \in PresentMonitor /\ m.verdict \in Verdict /\ m.at \in Int \cup {None}
      /\ m.hit \subseteq r.matchers /\ PlacedBefore(m, n)
  BY DEF PresentOk, PresentMonitor
<1> DEFINE hit == m.hit \cup {x \in r.matchers : ev \in x}
           c == [m EXCEPT !.hit = hit]
           v == IF hit = r.matchers THEN "sat" ELSE "pend"
<1>4. hit \subseteq r.matchers /\ hit \in SUBSET SUBSET Stored
  BY <1>1, <1>3
<1>5. c \in PresentMonitor /\ c.hit = hit /\ c.verdict = m.verdict /\ c.at = m.at
  BY <1>3, <1>4 DEF PresentMonitor
<1>6. v \in Verdict /\ (v = "sat" => hit = r.matchers) /\ v # "viol"
  BY DEF Verdict
<1>7. CASE m.verdict = "pend" /\ v # "pend"
  <2>1. PresentStep(r, m, ev, n) = [c EXCEPT !.verdict = v, !.at = n]
    BY <1>5, <1>7 DEF PresentStep, Latch
  <2> HIDE DEF hit, c, v
  <2>2. [c EXCEPT !.verdict = v, !.at = n] \in PresentMonitor
    BY <1>5, <1>6, PresentSettles
  <2> QED
    BY <2>1, <2>2, <1>2, <1>4, <1>5, <1>6, <1>7 DEF PresentOk, PlacedBefore, PresentMonitor
<1>8. CASE ~ (m.verdict = "pend" /\ v # "pend")
  <2>1. PresentStep(r, m, ev, n) = c
    BY <1>5, <1>8 DEF PresentStep, Latch
  <2>2. PlacedBefore(c, n + 1)
    BY <1>2, <1>3, <1>5 DEF PlacedBefore
  <2>3. (c.verdict = "sat" => c.hit = r.matchers) /\ c.verdict # "viol"
    BY <1>4, <1>5 DEF PresentOk
  <2> QED
    BY <2>1, <2>2, <2>3, <1>4, <1>5 DEF PresentOk
<1> QED
  BY <1>7, <1>8

-----------------------------------------------------------------------------
(* Absence, durations and conformance: never settled as satisfied.         *)

ForbidOk(m, n) ==
  /\ m \in ForbidMonitor
  /\ PlacedBefore(m, n)
  /\ m.verdict # "sat"
  /\ m.verdict = "viol" => m.offenders > 0

LEMMA ForbidSettles ==
  ASSUME NEW c \in ForbidMonitor, NEW v \in Verdict, NEW n \in Nat
  PROVE  [c EXCEPT !.verdict = v, !.at = n] \in ForbidMonitor
<1>1. n \in Int \cup {None}
  OBVIOUS
<1> QED
  BY <1>1 DEF ForbidMonitor

LEMMA ForbidStarts ==
  ASSUME NEW r
  PROVE  ForbidOk(ForbidStart(r), 0)
BY EventAssumption DEF ForbidOk, ForbidStart, ForbidMonitor, PlacedBefore, Verdict

LEMMA ForbidSteps ==
  ASSUME NEW r, NEW m, NEW n \in Nat, NEW ev, ForbidOk(m, n)
  PROVE  ForbidOk(ForbidStep(r, m, ev, n), n + 1)
<1>1. None \notin Int
  BY EventAssumption
<1>2. /\ m \in ForbidMonitor /\ m.verdict \in Verdict /\ m.at \in Int \cup {None}
      /\ m.got \in Nat /\ m.offenders \in Nat
  BY DEF ForbidOk, ForbidMonitor
<1>3. CASE ev \notin r.match
  BY <1>1, <1>2, <1>3 DEF ForbidOk, ForbidStep, PlacedBefore
<1>4. CASE ev \in r.match /\ ev \in r.fine
  <2> DEFINE c == [m EXCEPT !.got = @ + 1]
  <2>1. /\ c \in ForbidMonitor
        /\ c.verdict = m.verdict /\ c.at = m.at /\ c.offenders = m.offenders
    BY <1>2 DEF ForbidMonitor
  <2>2. ForbidStep(r, m, ev, n) = c
    BY <1>4 DEF ForbidStep
  <2> QED
    BY <2>1, <2>2, <1>1, <1>2 DEF ForbidOk, PlacedBefore
<1>5. CASE ev \in r.match /\ ev \notin r.fine
  <2> DEFINE c == [m EXCEPT !.got = @ + 1, !.offenders = @ + 1]
  <2>1. /\ c \in ForbidMonitor
        /\ c.verdict = m.verdict /\ c.at = m.at /\ c.offenders = m.offenders + 1
    <3>1. m.got + 1 \in Nat /\ m.offenders + 1 \in Nat
      BY <1>2
    <3>2. c = [m EXCEPT !.got = m.got + 1, !.offenders = m.offenders + 1]
      BY <1>2 DEF ForbidMonitor
    <3> QED
      BY <1>2, <3>1, <3>2 DEF ForbidMonitor
  <2>2. CASE m.verdict = "pend"
    <3>1. ForbidStep(r, m, ev, n) = [c EXCEPT !.verdict = "viol", !.at = n]
      BY <1>5, <2>1, <2>2 DEF ForbidStep, Latch
    <3> HIDE DEF c
    <3>2. "viol" \in Verdict
      BY DEF Verdict
    <3>3. [c EXCEPT !.verdict = "viol", !.at = n] \in ForbidMonitor
      BY <2>1, <3>2, ForbidSettles
    <3> QED
      BY <3>1, <3>3, <2>1, <1>1 DEF ForbidOk, PlacedBefore, ForbidMonitor
  <2>3. CASE m.verdict # "pend"
    <3>1. ForbidStep(r, m, ev, n) = c
      BY <1>5, <2>1, <2>3 DEF ForbidStep, Latch
    <3> QED
      BY <3>1, <2>1, <1>1, <1>2 DEF ForbidOk, PlacedBefore
  <2> QED
    BY <2>2, <2>3
<1> QED
  BY <1>3, <1>4, <1>5

-----------------------------------------------------------------------------
(* Order.                                                                  *)

OrderOk(r, m, n) ==
  /\ m \in OrderMonitor(r)
  /\ PlacedBefore(m, n)
  /\ m.verdict = "sat" => OrderPassed(r, m)

LEMMA OrderSettles ==
  ASSUME NEW r, NEW c \in OrderMonitor(r), NEW v \in Verdict, NEW n \in Nat
  PROVE  [c EXCEPT !.verdict = v, !.at = n] \in OrderMonitor(r)
<1>1. n \in Int \cup {None}
  OBVIOUS
<1> QED
  BY <1>1 DEF OrderMonitor

LEMMA OrderStarts ==
  ASSUME NEW r
  PROVE  OrderOk(r, OrderStart(r), 0)
BY EventAssumption DEF OrderOk, OrderStart, OrderMonitor, PlacedBefore, Verdict

\* When every name has occurred, no event changes what occurred first.
LEMMA OrderSteps ==
  ASSUME NEW r, NEW m, NEW n \in Nat, NEW ev \in Stored, OrderOk(r, m, n)
  PROVE  OrderOk(r, OrderStep(r, m, ev, n), n + 1)
<1>1. None \notin Int
  BY EventAssumption
<1>2. /\ m \in OrderMonitor(r) /\ m.verdict \in Verdict /\ m.at \in Int \cup {None}
      /\ m.firsts \in [Names(r) -> Stored \cup {None}]
      /\ PlacedBefore(m, n)
      /\ m.verdict = "sat" => OrderPassed(r, m)
  BY DEF OrderOk, OrderMonitor
<1>3. CASE ev.name \notin Names(r) \/ ev.time = None
  BY <1>1, <1>2, <1>3 DEF OrderOk, OrderStep, PlacedBefore
<1>4. CASE ~ (ev.name \notin Names(r) \/ ev.time = None)
  <2> DEFINE firsts == Occurred(r, m.firsts, ev)
             c == [m EXCEPT !.firsts = firsts]
             v == OrderVerdict(r, firsts)
  <2>1. firsts \in [Names(r) -> Stored \cup {None}]
    BY <1>2, <1>4 DEF Occurred
  <2>2. /\ c \in OrderMonitor(r) /\ c.firsts = firsts
        /\ c.verdict = m.verdict /\ c.at = m.at
    BY <1>2, <2>1 DEF OrderMonitor
  <2>3. /\ v \in Verdict
        /\ v = "sat" =>
             Missing(r, firsts) = {} /\ OrderedSoFar(r, firsts) /\ ~ GapsExceeded(r, firsts)
    BY DEF OrderVerdict, Verdict
  <2>4. OrderStep(r, m, ev, n) = Latch(c, v, n)
    BY <1>4 DEF OrderStep
  <2>5. m.verdict = "sat" => firsts = m.firsts
    BY <1>4, <1>2 DEF OrderPassed, Missing, Occurred
  <2> HIDE DEF firsts, c, v
  <2>6. CASE m.verdict = "pend" /\ v # "pend"
    <3>1. OrderStep(r, m, ev, n) = [c EXCEPT !.verdict = v, !.at = n]
      BY <2>2, <2>4, <2>6 DEF Latch
    <3>2. [c EXCEPT !.verdict = v, !.at = n] \in OrderMonitor(r)
      BY <2>2, <2>3, OrderSettles
    <3>3. v = "sat" => OrderPassed(r, [c EXCEPT !.verdict = v, !.at = n])
      BY <2>2, <2>3 DEF OrderPassed, OrderMonitor
    <3> QED
      BY <3>1, <3>2, <3>3, <2>2, <2>6, <1>1 DEF OrderOk, PlacedBefore, OrderMonitor
  <2>7. CASE ~ (m.verdict = "pend" /\ v # "pend")
    <3>1. OrderStep(r, m, ev, n) = c
      BY <2>2, <2>4, <2>7 DEF Latch
    <3>2. PlacedBefore(c, n + 1)
      BY <1>1, <1>2, <2>2 DEF PlacedBefore
    <3>3. c.verdict = "sat" => OrderPassed(r, c)
      BY <1>2, <2>2, <2>5 DEF OrderPassed
    <3> QED
      BY <3>1, <3>2, <3>3, <2>2 DEF OrderOk
  <2> QED
    BY <2>6, <2>7
<1> QED
  BY <1>3, <1>4

-----------------------------------------------------------------------------
(* Heartbeats: never settled as satisfied.                                 *)

BeatOk(r, m, n) ==
  /\ m \in BeatMonitor
  /\ PlacedBefore(m, n)
  /\ m.verdict # "sat"
  /\ m.verdict = "viol" => m.gap > r.every

LEMMA BeatSettles ==
  ASSUME NEW c \in BeatMonitor, NEW v \in Verdict, NEW n \in Nat
  PROVE  [c EXCEPT !.verdict = v, !.at = n] \in BeatMonitor
<1>1. n \in Int \cup {None}
  OBVIOUS
<1> QED
  BY <1>1 DEF BeatMonitor

LEMMA BeatStarts ==
  ASSUME NEW r
  PROVE  BeatOk(r, BeatStart(r), 0)
BY EventAssumption DEF BeatOk, BeatStart, BeatMonitor, PlacedBefore, Verdict

\* The span moves, the rest stays.
LEMMA Spanning ==
  ASSUME NEW r, NEW m \in BeatMonitor, NEW ev \in Stored
  PROVE  /\ Span(r, m, ev) \in BeatMonitor
         /\ Span(r, m, ev).verdict = m.verdict
         /\ Span(r, m, ev).at = m.at
         /\ Span(r, m, ev).gap = m.gap
<1>1. ev.time \in Int \cup {None}
  BY EventAssumption DEF Event
<1>2. m.low \in Int \cup {None} /\ m.high \in Int \cup {None}
  BY DEF BeatMonitor
<1> DEFINE low == Least(m.low, ev.time)
           high == Greatest(m.high, ev.time)
<1>3. low \in Int \cup {None} /\ high \in Int \cup {None}
  BY <1>1, <1>2 DEF Least, Greatest
<1>4. CASE r.edges /\ ev.time # None
  <2>1. Span(r, m, ev) = [m EXCEPT !.low = low, !.high = high]
    BY <1>4 DEF Span, BeatMonitor
  <2> HIDE DEF low, high
  <2> QED
    BY <1>3, <2>1 DEF BeatMonitor
<1>5. CASE ~ (r.edges /\ ev.time # None)
  BY <1>5 DEF Span
<1> QED
  BY <1>4, <1>5

LEMMA Beating ==
  ASSUME NEW r \in BeatRule, NEW m, NEW ev, ev.time \in Int, NEW n \in Nat, BeatOk(r, m, n)
  PROVE  BeatOk(r, Beat(r, m, ev, n), n + 1)
<1>1. None \notin Int
  BY EventAssumption
<1>2. /\ m \in BeatMonitor /\ PlacedBefore(m, n) /\ m.verdict # "sat"
      /\ m.verdict \in Verdict /\ m.at \in Int \cup {None} /\ m.beats \in Nat
      /\ m.gap \in Int /\ m.first \in Int \cup {None} /\ m.last \in Int \cup {None}
      /\ r.every \in Int
      /\ m.verdict = "viol" => m.gap > r.every
  BY DEF BeatMonitor, BeatOk, BeatRule
<1> DEFINE gap == IF m.last = None THEN 0 ELSE ev.time - m.last
           first == IF m.first = None THEN ev.time ELSE m.first
           widest == IF gap > m.gap THEN gap ELSE m.gap
           seen == m.beats + 1
           c == [m EXCEPT !.beats = seen, !.first = first, !.last = ev.time, !.gap = widest]
           v == IF gap > r.every THEN "viol" ELSE "pend"
<1>3. gap \in Int
  BY <1>2
<1>4. /\ first \in Int \cup {None} /\ widest \in Int /\ seen \in Nat
      /\ ev.time \in Int \cup {None}
  BY <1>2, <1>3
<1>5. /\ v \in Verdict /\ v # "sat"
      /\ v = "viol" => widest > r.every
      /\ m.verdict = "viol" => widest > r.every
  BY <1>2, <1>3 DEF Verdict
<1>6. Beat(r, m, ev, n) = Latch(c, v, n)
  BY <1>2 DEF Beat, BeatMonitor
<1> HIDE DEF gap, first, widest, seen, v
<1>7. c \in BeatMonitor /\ c.verdict = m.verdict /\ c.at = m.at /\ c.gap = widest
  BY <1>2, <1>4 DEF BeatMonitor
<1> HIDE DEF c
<1>8. CASE m.verdict = "pend" /\ v # "pend"
  <2>1. Beat(r, m, ev, n) = [c EXCEPT !.verdict = v, !.at = n]
    BY <1>6, <1>7, <1>8 DEF Latch
  <2>2. [c EXCEPT !.verdict = v, !.at = n] \in BeatMonitor
    BY <1>5, <1>7, BeatSettles
  <2> QED
    BY <2>1, <2>2, <1>1, <1>5, <1>7, <1>8 DEF BeatOk, PlacedBefore, BeatMonitor
<1>9. CASE ~ (m.verdict = "pend" /\ v # "pend")
  <2>1. Beat(r, m, ev, n) = c
    BY <1>6, <1>7, <1>9 DEF Latch
  <2> QED
    BY <2>1, <1>1, <1>2, <1>5, <1>7 DEF BeatOk, PlacedBefore
<1> QED
  BY <1>8, <1>9

LEMMA BeatSteps ==
  ASSUME NEW r \in BeatRule, NEW m, NEW n \in Nat, NEW ev \in Stored, BeatOk(r, m, n)
  PROVE  BeatOk(r, BeatStep(r, m, ev, n), n + 1)
<1>1. None \notin Int /\ ev.time \in Int \cup {None}
  BY EventAssumption DEF Event
<1>2. /\ m \in BeatMonitor /\ PlacedBefore(m, n) /\ m.verdict # "sat"
      /\ m.verdict = "viol" => m.gap > r.every
  BY DEF BeatOk
<1> DEFINE s == Span(r, m, ev)
<1>3. s \in BeatMonitor /\ s.verdict = m.verdict /\ s.at = m.at /\ s.gap = m.gap
  BY <1>2, Spanning
<1>4. PlacedBefore(s, n) /\ BeatOk(r, s, n)
  BY <1>2, <1>3 DEF PlacedBefore, BeatOk
<1> HIDE DEF s
<1>5. CASE ev.name = r.name /\ ev.time # None
  <2>1. BeatOk(r, Beat(r, s, ev, n), n + 1)
    BY <1>1, <1>4, <1>5, Beating
  <2> QED
    BY <2>1, <1>5 DEF BeatStep, s
<1>6. CASE ~ (ev.name = r.name /\ ev.time # None)
  <2>1. BeatStep(r, m, ev, n) = s
    BY <1>6 DEF BeatStep, s
  <2>2. s.at \in Int \cup {None}
    BY <1>3 DEF BeatMonitor
  <2> QED
    BY <2>1, <2>2, <1>1, <1>3, <1>4 DEF BeatOk, PlacedBefore
<1> QED
  BY <1>5, <1>6

-----------------------------------------------------------------------------
(* Relations: they only collect numbers.                                   *)

LEMMA RelationStarts ==
  ASSUME NEW r
  PROVE  RelationStart(r) \in RelationMonitor
<1>1. << >> \in Seq(Int)
  OBVIOUS
<1> QED
  BY <1>1 DEF RelationStart, RelationMonitor, Side

LEMMA Taking ==
  ASSUME NEW side \in Side, NEW match, NEW reduce, NEW ev \in Stored
  PROVE  Take(side, match, reduce, ev) \in Side
<1>1. ev.value \in Int \cup {None}
  BY EventAssumption DEF Event
<1>2. side.got \in Nat /\ side.values \in Seq(Int)
  BY DEF Side
<1> DEFINE values == IF reduce # "count" /\ ev.value # None
                     THEN Append(side.values, ev.value) ELSE side.values
<1>3. values \in Seq(Int)
  BY <1>1, <1>2
<1>4. Take(side, match, reduce, ev) =
        IF ev \notin match THEN side ELSE [got |-> side.got + 1, values |-> values]
  BY DEF Take
<1> HIDE DEF values
<1> QED
  BY <1>2, <1>3, <1>4 DEF Side

LEMMA RelationSteps ==
  ASSUME NEW r, NEW m \in RelationMonitor, NEW ev \in Stored, NEW n
  PROVE  RelationStep(r, m, ev, n) \in RelationMonitor
<1> DEFINE left == Take(m.left, r.left, r.reduceLeft, ev)
           right == Take(m.right, r.right, r.reduceRight, ev)
<1>1. m.left \in Side /\ m.right \in Side
  BY DEF RelationMonitor
<1>2. left \in Side /\ right \in Side
  BY <1>1, Taking
<1>3. RelationStep(r, m, ev, n) = [m EXCEPT !.left = left, !.right = right]
  BY DEF RelationStep, RelationMonitor
<1> HIDE DEF left, right
<1> QED
  BY <1>2, <1>3 DEF RelationMonitor

-----------------------------------------------------------------------------
(* The bank.                                                               *)

\* The orders have no function set of their own: their monitors' types differ.
Banks ==
  /\ counts = [r \in CountRules |-> counts[r]]
  /\ presents = [r \in PresentRules |-> presents[r]]
  /\ forbids = [r \in ForbidRules |-> forbids[r]]
  /\ beats = [r \in BeatRules |-> beats[r]]
  /\ relations = [r \in RelationRules |-> relations[r]]

Inv ==
  /\ stream \in Seq(Stored)
  /\ Banks
  /\ \A r \in CountRules    : CountOk(r, counts[r], Len(stream))
  /\ \A r \in PresentRules  : PresentOk(r, presents[r], Len(stream))
  /\ \A r \in ForbidRules   : ForbidOk(forbids[r], Len(stream))
  /\ \A r \in OrderRules    : OrderOk(r, orders[r], Len(stream))
  /\ \A r \in BeatRules     : BeatOk(r, beats[r], Len(stream))
  /\ \A r \in RelationRules : relations[r] \in RelationMonitor

LEMMA InvInit == Init => Inv
<1> SUFFICES ASSUME Init PROVE Inv
  OBVIOUS
<1> USE DEF Init
<1>1. stream \in Seq(Stored) /\ Len(stream) = 0
  OBVIOUS
<1>2. Banks
  BY DEF Banks
<1>3. \A r \in CountRules : CountOk(r, counts[r], 0)
  BY CountStarts, RuleAssumption
<1>4. \A r \in PresentRules : PresentOk(r, presents[r], 0)
  BY PresentStarts, RuleAssumption
<1>5. \A r \in ForbidRules : ForbidOk(forbids[r], 0)
  BY ForbidStarts
<1>6. \A r \in OrderRules : OrderOk(r, orders[r], 0)
  BY OrderStarts
<1>7. \A r \in BeatRules : BeatOk(r, beats[r], 0)
  BY BeatStarts
<1>8. \A r \in RelationRules : relations[r] \in RelationMonitor
  BY RelationStarts
<1> QED
  BY <1>1, <1>2, <1>3, <1>4, <1>5, <1>6, <1>7, <1>8 DEF Inv

LEMMA InvFeed ==
  ASSUME Inv, NEW ev \in Stored, Feed(ev)
  PROVE  Inv'
<1> DEFINE n == Len(stream)
<1>1. /\ stream' \in Seq(Stored) /\ n \in Nat /\ Len(stream') = n + 1
  BY DEF Inv, Feed
<1>2. Banks'
  BY DEF Feed, Banks
<1>3. \A r \in CountRules : CountOk(r, counts'[r], n + 1)
  <2> SUFFICES ASSUME NEW r \in CountRules PROVE CountOk(r, counts'[r], n + 1)
    OBVIOUS
  <2>1. counts'[r] = CountStep(r, counts[r], ev, n)
    BY DEF Feed
  <2> QED
    BY <1>1, <2>1, CountSteps, RuleAssumption DEF Inv
<1>4. \A r \in PresentRules : PresentOk(r, presents'[r], n + 1)
  <2> SUFFICES ASSUME NEW r \in PresentRules PROVE PresentOk(r, presents'[r], n + 1)
    OBVIOUS
  <2>1. presents'[r] = PresentStep(r, presents[r], ev, n)
    BY DEF Feed
  <2> QED
    BY <1>1, <2>1, PresentSteps, RuleAssumption DEF Inv
<1>5. \A r \in ForbidRules : ForbidOk(forbids'[r], n + 1)
  <2> SUFFICES ASSUME NEW r \in ForbidRules PROVE ForbidOk(forbids'[r], n + 1)
    OBVIOUS
  <2>1. forbids'[r] = ForbidStep(r, forbids[r], ev, n)
    BY DEF Feed
  <2> QED
    BY <1>1, <2>1, ForbidSteps DEF Inv
<1>6. \A r \in OrderRules : OrderOk(r, orders'[r], n + 1)
  <2> SUFFICES ASSUME NEW r \in OrderRules PROVE OrderOk(r, orders'[r], n + 1)
    OBVIOUS
  <2>1. orders'[r] = OrderStep(r, orders[r], ev, n)
    BY DEF Feed
  <2> QED
    BY <1>1, <2>1, OrderSteps DEF Inv
<1>7. \A r \in BeatRules : BeatOk(r, beats'[r], n + 1)
  <2> SUFFICES ASSUME NEW r \in BeatRules PROVE BeatOk(r, beats'[r], n + 1)
    OBVIOUS
  <2>1. beats'[r] = BeatStep(r, beats[r], ev, n)
    BY DEF Feed
  <2> QED
    BY <1>1, <2>1, BeatSteps, RuleAssumption DEF Inv
<1>8. \A r \in RelationRules : relations'[r] \in RelationMonitor
  <2> SUFFICES ASSUME NEW r \in RelationRules PROVE relations'[r] \in RelationMonitor
    OBVIOUS
  <2>1. relations'[r] = RelationStep(r, relations[r], ev, n)
    BY DEF Feed
  <2> QED
    BY <1>1, <2>1, RelationSteps DEF Inv
<1> QED
  BY <1>1, <1>2, <1>3, <1>4, <1>5, <1>6, <1>7, <1>8 DEF Inv

LEMMA InvNext == Inv /\ [Next]_vars => Inv'
<1> SUFFICES ASSUME Inv, [Next]_vars PROVE Inv'
  OBVIOUS
<1>1. CASE Next
  BY <1>1, InvFeed DEF Next
<1>2. CASE UNCHANGED vars
  BY <1>2 DEF vars, Inv, Banks
<1> QED
  BY <1>1, <1>2

LEMMA InvImplies == Inv => TypeOK /\ SatIsFinal /\ ViolIsFinal
<1> SUFFICES ASSUME Inv PROVE TypeOK /\ SatIsFinal /\ ViolIsFinal
  OBVIOUS
<1>1. /\ counts \in [CountRules -> CountMonitor]
      /\ \A r \in CountRules : Placed(counts[r])
      /\ \A r \in CountRules : counts[r].verdict = "sat" => CountPassed(r, counts[r])
  BY DEF Inv, Banks, CountOk, PlacedBefore, Placed
<1>7. ASSUME NEW r \in CountRules, counts[r].verdict = "viol"
      PROVE  ~ CountPassed(r, counts[r])
  <2>1. counts[r].got \in Nat /\ r.twice \in Int /\ Exceeded(r, counts[r].got)
    BY <1>7, RuleAssumption DEF Inv, CountOk, CountMonitor, CountRule
  <2> QED
    BY <2>1 DEF CountPassed, CountHolds, Holds, Exceeded
<1>2. /\ presents \in [PresentRules -> PresentMonitor]
      /\ \A r \in PresentRules : Placed(presents[r])
      /\ \A r \in PresentRules :
           /\ presents[r].verdict = "sat" => PresentPassed(r, presents[r])
           /\ presents[r].verdict # "viol"
  BY DEF Inv, Banks, PresentOk, PlacedBefore, Placed, PresentPassed
<1>3. /\ forbids \in [ForbidRules -> ForbidMonitor]
      /\ \A r \in ForbidRules :
           /\ Placed(forbids[r]) /\ forbids[r].verdict # "sat"
           /\ forbids[r].verdict = "viol" => forbids[r].offenders > 0
  BY DEF Inv, Banks, ForbidOk, PlacedBefore, Placed
<1>8. \A r \in ForbidRules :
        forbids[r].verdict = "viol" => ~ ForbidPassed(r, forbids[r])
  BY <1>3 DEF ForbidPassed, ForbidMonitor
<1>4. \A r \in OrderRules :
        /\ orders[r] \in OrderMonitor(r) /\ Placed(orders[r])
        /\ orders[r].verdict = "sat" => OrderPassed(r, orders[r])
  BY DEF Inv, OrderOk, PlacedBefore, Placed
<1>5. /\ beats \in [BeatRules -> BeatMonitor]
      /\ \A r \in BeatRules :
           /\ Placed(beats[r]) /\ beats[r].verdict # "sat"
           /\ beats[r].verdict = "viol" => beats[r].gap > r.every
  BY DEF Inv, Banks, BeatOk, PlacedBefore, Placed
<1>9. ASSUME NEW r \in BeatRules, beats[r].verdict = "viol"
      PROVE  ~ BeatPassed(r, beats[r])
  <2>1. beats[r].gap \in Int /\ r.every \in Int /\ beats[r].gap > r.every
    BY <1>5, <1>9, RuleAssumption DEF BeatMonitor, BeatRule
  <2> QED
    BY <2>1 DEF BeatPassed
<1>6. relations \in [RelationRules -> RelationMonitor] /\ stream \in Seq(Stored)
  BY DEF Inv, Banks
<1> QED
  BY <1>1, <1>2, <1>3, <1>4, <1>5, <1>6, <1>7, <1>8, <1>9 DEF TypeOK, SatIsFinal, ViolIsFinal

LEMMA Invariance == Spec => []Inv
<1>1. Init => Inv
  BY InvInit
<1>2. Inv /\ [Next]_vars => Inv'
  BY InvNext
<1> QED
  BY <1>1, <1>2, PTL DEF Spec

\* Whatever the rules and whatever is fed, in order or not, no automaton computes with a
\* value that is not a number, and a monitor that has settled says where.
THEOREM TypeCorrect == Spec => []TypeOK
<1>1. Inv => TypeOK
  BY InvImplies
<1> QED
  BY <1>1, Invariance, PTL

\* A check that has settled as satisfied passes over every continuation of the stream: events
\* that are fed late, whatever their time stamps, included.
THEOREM SatisfiedForGood == Spec => []SatIsFinal
<1>1. Inv => SatIsFinal
  BY InvImplies
<1> QED
  BY <1>1, Invariance, PTL

\* A check that has settled as failed fails over every continuation - orders excepted, for
\* which Monitors_mixed.cfg shows that it may not.
THEOREM FailedForGood == Spec => []ViolIsFinal
<1>1. Inv => ViolIsFinal
  BY InvImplies
<1> QED
  BY <1>1, Invariance, PTL

\* Both together: what a monitor has settled no later event unsettles, failed orders excepted.
THEOREM SettledForGood == Spec => []SettledIsFinal
  BY SatisfiedForGood, FailedForGood, PTL DEF SettledIsFinal

-----------------------------------------------------------------------------
(* A count commits at once.                                                *)

\* Of all the counts from got on, those just past the target tell what is inevitable.
LEMMA VerdictIsInevitable ==
  ASSUME NEW r \in CountRule, Settles(r), NEW got \in Nat
  PROVE  LET ends == got .. got + Distance(0, r.twice) + 1
         IN CountVerdict(r, got) =
              IF \A n \in ends : CountHolds(r, n) THEN "sat"
              ELSE IF \A n \in ends : ~ CountHolds(r, n) THEN "viol" ELSE "pend"
<1> DEFINE t == r.twice
           last == got + Distance(0, t) + 1
           ends == got .. last
<1>1. r.op \in Op /\ t \in Int
  BY DEF CountRule
<1>2. last \in Int /\ got < last /\ t < 2 * last /\ 0 <= last
  BY <1>1 DEF Distance
<1> HIDE DEF t, last
<1>3. got \in ends /\ last \in ends /\ \A n \in ends : n \in Int /\ got <= n
  BY <1>2
<1> HIDE DEF ends
<1>4. CASE r.op = ">="
  <2>1. CountHolds(r, last) /\ (CountHolds(r, got) => \A n \in ends : CountHolds(r, n))
    BY <1>1, <1>2, <1>3, <1>4 DEF CountHolds, Holds, t
  <2>2. CountVerdict(r, got) = IF CountHolds(r, got) THEN "sat" ELSE "pend"
    BY <1>4 DEF CountVerdict
  <2> QED BY <1>3, <2>1, <2>2 DEF ends, last, t
<1>5. CASE r.op = ">"
  <2>1. CountHolds(r, last) /\ (CountHolds(r, got) => \A n \in ends : CountHolds(r, n))
    BY <1>1, <1>2, <1>3, <1>5 DEF CountHolds, Holds, t
  <2>2. CountVerdict(r, got) = IF CountHolds(r, got) THEN "sat" ELSE "pend"
    BY <1>5 DEF CountVerdict
  <2> QED BY <1>3, <2>1, <2>2 DEF ends, last, t
<1>6. CASE r.op = "<="
  <2>1. ~ CountHolds(r, last) /\ (~ CountHolds(r, got) => \A n \in ends : ~ CountHolds(r, n))
    BY <1>1, <1>2, <1>3, <1>6 DEF CountHolds, Holds, t
  <2>2. CountVerdict(r, got) = IF ~ CountHolds(r, got) THEN "viol" ELSE "pend"
    BY <1>1, <1>6 DEF CountVerdict, CountHolds, Holds, t
  <2> QED BY <1>3, <2>1, <2>2 DEF ends, last, t
<1>7. CASE r.op = "<"
  <2>1. ~ CountHolds(r, last) /\ (~ CountHolds(r, got) => \A n \in ends : ~ CountHolds(r, n))
    BY <1>1, <1>2, <1>3, <1>7 DEF CountHolds, Holds, t
  <2>2. CountVerdict(r, got) = IF ~ CountHolds(r, got) THEN "viol" ELSE "pend"
    BY <1>1, <1>7 DEF CountVerdict, CountHolds, Holds, t
  <2> QED BY <1>3, <2>1, <2>2 DEF ends, last, t
<1>8. CASE r.op = "=="
  <2>1. ~ CountHolds(r, last)
    BY <1>1, <1>2, <1>8 DEF CountHolds, Holds, t
  <2>2. CountVerdict(r, got) = IF 2 * got > t THEN "viol" ELSE "pend"
    BY <1>8 DEF CountVerdict, t
  <2>3. 2 * got > t => \A n \in ends : ~ CountHolds(r, n)
    BY <1>1, <1>3, <1>8 DEF CountHolds, Holds, t
  <2>4. ASSUME ~ (2 * got > t) PROVE \E n \in ends : CountHolds(r, n)
    <3>1. t % 2 = 0
      BY <1>8 DEF Settles, t
    <3>2. PICK h \in Int : t = 2 * h
      <4>1. t \div 2 \in Int /\ t = 2 * (t \div 2)
        BY <1>1, <3>1
      <4> QED BY <4>1
    <3>3. h \in ends /\ CountHolds(r, h)
      BY <1>1, <1>2, <1>8, <2>4, <3>2 DEF CountHolds, Holds, t, ends
    <3> QED BY <3>3
  <2> QED BY <1>3, <2>1, <2>2, <2>3, <2>4 DEF ends, last, t
<1> QED BY <1>1, <1>4, <1>5, <1>6, <1>7, <1>8 DEF Op, Settles

\* What is inevitable stays so.
LEMMA VerdictStays ==
  ASSUME NEW r \in CountRule, NEW g \in Nat, NEW h \in Nat, g <= h, CountVerdict(r, g) # "pend"
  PROVE  CountVerdict(r, h) # "pend"
BY DEF CountRule, CountVerdict, CountHolds, Holds

\* How many of the first n events of s a rule counts.
Counted(r, s, n) == Cardinality(Matches(r.match, s, n))

\* The count is of the matches, and where it settled is where it first could.
CountSeen(r, m, s, n) ==
  /\ m.got = Counted(r, s, n)
  /\ Settles(r) =>
       IF m.verdict = "pend" THEN \A j \in 0 .. n : CountVerdict(r, Counted(r, s, j)) = "pend"
       ELSE /\ m.at + 1 \in 0 .. n
            /\ CountVerdict(r, Counted(r, s, m.at + 1)) = m.verdict
            /\ \A j \in 0 .. m.at : CountVerdict(r, Counted(r, s, j)) = "pend"

\* t begins with the first n of s.
Same(s, t, n) == \A i \in 1 .. n : t[i] = s[i]

LEMMA SameMatches ==
  ASSUME NEW s, NEW t, NEW n \in Nat, Same(s, t, n), NEW k \in 0 .. n, NEW match
  PROVE  Matches(match, t, k) = Matches(match, s, k)
BY DEF Same, Matches

LEMMA CountSeenStart ==
  ASSUME NEW r \in CountRule, NEW s
  PROVE  CountSeen(r, CountStart(r), s, 0)
<1>1. Counted(r, s, 0) = 0
  BY MatchesNext, FS_EmptySet DEF Counted
<1>2. CASE r.op = ">=" /\ r.twice <= 0
  <2>1. CountVerdict(r, 0) = "sat"
    BY <1>2 DEF CountVerdict, CountHolds, Holds, CountRule
  <2> QED BY <1>1, <1>2, <2>1 DEF CountSeen, CountStart
<1>3. CASE ~ (r.op = ">=" /\ r.twice <= 0)
  <2>1. Settles(r) => CountVerdict(r, 0) = "pend"
    BY <1>3 DEF Settles, CountVerdict, CountHolds, Holds, CountRule
  <2> QED BY <1>1, <1>3, <2>1 DEF CountSeen, CountStart
<1> QED BY <1>2, <1>3

LEMMA CountSeenStep ==
  ASSUME NEW r \in CountRule, NEW m, NEW s, NEW t, NEW n \in Nat, Same(s, t, n),
         CountOk(r, m, n), CountSeen(r, m, s, n)
  PROVE  CountSeen(r, CountStep(r, m, t[n + 1], n), t, n + 1)
<1> DEFINE C(k) == Counted(r, t, k)
           P(k) == CountVerdict(r, C(k)) = "pend"
           e == CountStep(r, m, t[n + 1], n)
<1>1. None \notin Int
  BY EventAssumption
<1>2. /\ m \in CountMonitor /\ m.got \in Nat /\ m.verdict \in Verdict /\ m.at \in Int \cup {None}
      /\ m.verdict # "pend" => m.at \in -1 .. n - 1
  BY DEF CountOk, CountMonitor, PlacedBefore
<1>3. \A k \in 0 .. n : C(k) = Counted(r, s, k)
  BY SameMatches DEF Counted
<1>4. /\ m.got = C(n)
      /\ Settles(r) =>
           IF m.verdict = "pend" THEN \A j \in 0 .. n : P(j)
           ELSE /\ m.at + 1 \in 0 .. n
                /\ CountVerdict(r, C(m.at + 1)) = m.verdict
                /\ \A j \in 0 .. m.at : P(j)
  <2>1. m.verdict # "pend" => 0 .. m.at \subseteq 0 .. n
    BY <1>2
  <2>2. n \in 0 .. n
    OBVIOUS
  <2> HIDE DEF C
  <2> QED BY <1>3, <2>1, <2>2 DEF CountSeen
<1>5. \A j \in 0 .. n + 1 : j \in 0 .. n \/ j = n + 1
  OBVIOUS
<1>6. CASE t[n + 1] \notin r.match
  <2>1. e = m
    BY <1>6 DEF CountStep
  <2>2. C(n + 1) = C(n)
    BY <1>6, MatchesNext DEF Counted
  <2>3. n \in 0 .. n /\ 0 .. n \subseteq 0 .. n + 1
    OBVIOUS
  <2> HIDE DEF C, e
  <2>4. CountSeen(r, m, t, n + 1)
    <3>1. m.got = C(n + 1)
      BY <1>4, <2>2
    <3>2. ASSUME Settles(r), m.verdict = "pend" PROVE \A j \in 0 .. n + 1 : P(j)
      BY <1>4, <1>5, <2>2, <2>3, <3>2
    <3>3. ASSUME Settles(r), m.verdict # "pend" PROVE m.at + 1 \in 0 .. n + 1
      BY <1>4, <2>3, <3>3
    <3> QED BY <1>4, <3>1, <3>2, <3>3 DEF CountSeen, C
  <2> QED BY <2>1, <2>4 DEF e
<1>7. CASE t[n + 1] \in r.match
  <2> DEFINE got == m.got + 1
             v == CountVerdict(r, got)
             c == [m EXCEPT !.got = got]
             d == [c EXCEPT !.verdict = v, !.at = n]
  <2>1. C(n + 1) = got
    BY <1>4, <1>7, MatchesNext DEF Counted
  <2>2. c.got = got /\ c.verdict = m.verdict /\ c.at = m.at
    BY <1>2 DEF CountMonitor
  <2>3. d.got = got /\ d.verdict = v /\ d.at = n
    BY <1>2 DEF CountMonitor
  <2>4. e = IF m.verdict = "pend" /\ v # "pend" THEN d ELSE c
    BY <1>7, <2>2 DEF CountStep, Latch
  <2>5. 0 .. n \subseteq 0 .. n + 1 /\ n + 1 \in 0 .. n + 1
    OBVIOUS
  <2> HIDE DEF C, e, d, c, got
  <2>6. CASE m.verdict = "pend" /\ v # "pend"
    <3>1. Settles(r) => \A j \in 0 .. n : P(j)
      BY <1>4, <2>6
    <3>2. CountSeen(r, d, t, n + 1)
      BY <2>1, <2>3, <2>5, <2>6, <3>1 DEF CountSeen, C
    <3> QED BY <2>4, <2>6, <3>2 DEF e
  <2>7. CASE m.verdict = "pend" /\ v = "pend"
    <3>1. Settles(r) => \A j \in 0 .. n + 1 : P(j)
      BY <1>4, <1>5, <2>1, <2>7
    <3>2. CountSeen(r, c, t, n + 1)
      BY <2>1, <2>2, <2>7, <3>1 DEF CountSeen, C
    <3> QED BY <2>4, <2>7, <3>2 DEF e
  <2>8. CASE m.verdict # "pend"
    <3>1. Settles(r) => m.at + 1 \in 0 .. n + 1
      BY <1>4, <2>5, <2>8
    <3>2. CountSeen(r, c, t, n + 1)
      BY <1>4, <2>1, <2>2, <2>8, <3>1 DEF CountSeen, C
    <3> QED BY <2>4, <2>8, <3>2 DEF e
  <2> QED BY <2>6, <2>7, <2>8
<1> QED BY <1>6, <1>7

\* So the count has settled just when, and where, a verdict became inevitable.
LEMMA SeenCommits ==
  ASSUME NEW r \in CountRule, Settles(r), NEW m, stream \in Seq(Stored),
         CountOk(r, m, Len(stream)), CountSeen(r, m, stream, Len(stream))
  PROVE  IF Inevitable(r, Len(stream)) = "pend" THEN m.verdict = "pend"
         ELSE LET k == CHOOSE k \in 0 .. Len(stream) :
                         /\ Inevitable(r, k) # "pend"
                         /\ \A j \in 0 .. k - 1 : Inevitable(r, j) = "pend"
              IN m.verdict = Inevitable(r, k) /\ m.at = k - 1
<1> DEFINE n == Len(stream)
           V(k) == CountVerdict(r, Counted(r, stream, k))
           First(k) == V(k) # "pend" /\ \A j \in 0 .. k - 1 : V(j) = "pend"
<1>1. n \in Nat
  OBVIOUS
<1>2. ASSUME NEW k \in 0 .. n PROVE Inevitable(r, k) = V(k) /\ Counted(r, stream, k) \in Nat
  <2>1. Matches(r.match, stream, k) = {j \in 1 .. k : stream[j] \in r.match}
    BY DEF Matches
  <2>2. Counted(r, stream, k) \in Nat
    BY <1>1, MatchesNext DEF Counted
  <2> QED BY <2>1, <2>2, VerdictIsInevitable DEF Inevitable, Counted
<1>3. ASSUME NEW k \in 0 .. n, V(k) # "pend" PROVE V(n) # "pend"
  <2> DEFINE A == Matches(r.match, stream, k)
             B == Matches(r.match, stream, n)
  <2>1. A \subseteq B
    BY <1>1 DEF Matches
  <2>4. IsFiniteSet(B)
    BY <1>1, MatchesNext
  <2> HIDE DEF A, B
  <2>2. Cardinality(A) <= Cardinality(B)
    BY <2>1, <2>4, FS_Subset
  <2>3. n \in 0 .. n
    BY <1>1
  <2> QED BY <1>2, <1>3, <2>2, <2>3, VerdictStays DEF Counted, A, B
<1>4. /\ m.at \in Int \cup {None}
      /\ IF m.verdict = "pend" THEN \A j \in 0 .. n : V(j) = "pend"
         ELSE m.at + 1 \in 0 .. n /\ V(m.at + 1) = m.verdict /\ \A j \in 0 .. m.at : V(j) = "pend"
      /\ m.verdict # "pend" => m.at \in -1 .. n - 1
  BY DEF CountOk, CountSeen, CountMonitor, PlacedBefore
<1>5. n \in 0 .. n
  BY <1>1
<1>6. \A k \in 0 .. n : 0 .. k - 1 \subseteq 0 .. n
  BY <1>1
<1> HIDE DEF V, n
<1>7. CASE V(n) = "pend"
  <2>1. m.verdict = "pend"
    BY <1>3, <1>4, <1>7
  <2> QED BY <1>2, <1>5, <1>7, <2>1 DEF n
<1>8. CASE V(n) # "pend"
  <2>1. m.verdict # "pend"
    BY <1>4, <1>5, <1>8
  <2> DEFINE a == m.at + 1
  <2>2. a \in 0 .. n /\ V(a) = m.verdict /\ m.at \in Int /\ m.at = a - 1
    BY <1>4, <2>1
  <2>3. First(a)
    BY <1>4, <2>1, <2>2
  <2> HIDE DEF a
  <2>4. ASSUME NEW k \in 0 .. n, First(k) PROVE k = a
    <3>1. ~ (k < a)
      BY <1>1, <2>2, <2>3, <2>4
    <3>2. ~ (a < k)
      BY <1>1, <2>2, <2>3, <2>4
    <3> QED BY <1>1, <2>2, <3>1, <3>2
  <2> DEFINE Q(k) == /\ Inevitable(r, k) # "pend"
                     /\ \A j \in 0 .. k - 1 : Inevitable(r, j) = "pend"
  <2>5. \A k \in 0 .. n : Q(k) <=> First(k)
    BY <1>2, <1>6
  <2> HIDE DEF Q
  <2>6. a = CHOOSE k \in 0 .. n : Q(k)
    BY <2>2, <2>3, <2>4, <2>5
  <2>7. m.verdict = Inevitable(r, a)
    BY <1>2, <2>2
  <2> QED BY <1>2, <1>5, <1>8, <2>2, <2>6, <2>7 DEF n, Q
<1> QED BY <1>7, <1>8

-----------------------------------------------------------------------------
(* What presence and absence have seen.                                    *)

PresentSeen(r, m, s, n) == m.hit = {x \in r.matchers : Matches(x, s, n) # {}}

LEMMA PresentSeenStart ==
  ASSUME NEW r, NEW s
  PROVE  PresentSeen(r, PresentStart(r), s, 0)
BY MatchesNext DEF PresentSeen, PresentStart

LEMMA PresentSeenStep ==
  ASSUME NEW r, NEW m \in PresentMonitor, NEW s, NEW t, NEW n \in Nat, Same(s, t, n),
         PresentSeen(r, m, s, n)
  PROVE  PresentSeen(r, PresentStep(r, m, t[n + 1], n), t, n + 1)
<1> DEFINE hit == m.hit \cup {x \in r.matchers : t[n + 1] \in x}
           c == [m EXCEPT !.hit = hit]
<1>1. n \in 0 .. n
  OBVIOUS
<1>2. \A x \in r.matchers : Matches(x, t, n + 1) # {} <=> Matches(x, s, n) # {} \/ t[n + 1] \in x
  <2> TAKE x \in r.matchers
  <2>1. Matches(x, t, n) = Matches(x, s, n)
    BY <1>1, SameMatches
  <2>2. Matches(x, t, n + 1) # {} <=> Matches(x, t, n) # {} \/ t[n + 1] \in x
    BY DEF Matches
  <2> QED BY <2>1, <2>2
<1>3. hit = {x \in r.matchers : Matches(x, t, n + 1) # {}}
  BY <1>2 DEF PresentSeen
<1>4. c.hit = hit /\ PresentStep(r, m, t[n + 1], n).hit = hit
  BY DEF PresentMonitor, PresentStep, Latch
<1> QED BY <1>3, <1>4 DEF PresentSeen

ForbidSeen(r, m, s, n) ==
  /\ m.got > 0 <=> Matches(r.match, s, n) # {}
  /\ m.offenders > 0 <=> Matches(r.match \ r.fine, s, n) # {}

LEMMA ForbidSeenStart ==
  ASSUME NEW r, NEW s
  PROVE  ForbidSeen(r, ForbidStart(r), s, 0)
BY MatchesNext DEF ForbidSeen, ForbidStart

LEMMA ForbidSeenStep ==
  ASSUME NEW r, NEW m \in ForbidMonitor, NEW s, NEW t, NEW n \in Nat, Same(s, t, n),
         ForbidSeen(r, m, s, n)
  PROVE  ForbidSeen(r, ForbidStep(r, m, t[n + 1], n), t, n + 1)
<1> DEFINE ev == t[n + 1]
           e == ForbidStep(r, m, ev, n)
           got == m.got + 1
           offenders == m.offenders + 1
           c == [m EXCEPT !.got = got]
           d == [m EXCEPT !.got = got, !.offenders = offenders]
<1>1. n \in 0 .. n
  OBVIOUS
<1>2. /\ m.got > 0 <=> Matches(r.match, t, n) # {}
      /\ m.offenders > 0 <=> Matches(r.match \ r.fine, t, n) # {}
  BY <1>1, SameMatches DEF ForbidSeen
<1>3. /\ Matches(r.match, t, n + 1) # {} <=> Matches(r.match, t, n) # {} \/ ev \in r.match
      /\ Matches(r.match \ r.fine, t, n + 1) # {} <=>
           Matches(r.match \ r.fine, t, n) # {} \/ (ev \in r.match /\ ev \notin r.fine)
  BY DEF Matches
<1>4. m.got \in Nat /\ m.offenders \in Nat /\ got > 0 /\ offenders > 0
  BY DEF ForbidMonitor
<1>5. c.got = got /\ c.offenders = m.offenders /\ d.got = got /\ d.offenders = offenders
  BY DEF ForbidMonitor
<1>6. CASE ev \notin r.match
  BY <1>2, <1>3, <1>6 DEF ForbidStep, ForbidSeen
<1>7. CASE ev \in r.match /\ ev \in r.fine
  <2>1. e = c
    BY <1>7 DEF ForbidStep
  <2> HIDE DEF e, c, got
  <2> QED BY <1>2, <1>3, <1>4, <1>5, <1>7, <2>1 DEF ForbidSeen, e
<1>8. CASE ev \in r.match /\ ev \notin r.fine
  <2>1. e = Latch(d, "viol", n)
    BY <1>8 DEF ForbidStep
  <2>2. DOMAIN d = {"verdict", "at", "got", "offenders"}
    BY DEF ForbidMonitor
  <2> HIDE DEF e, d, got, offenders
  <2>3. e.got = got /\ e.offenders = offenders
    BY <1>5, <2>1, <2>2 DEF Latch
  <2> QED BY <1>3, <1>4, <1>8, <2>3 DEF ForbidSeen, e
<1> QED BY <1>6, <1>7, <1>8

-----------------------------------------------------------------------------
(* What orders have seen.                                                  *)

\* Where, among the first n of s, a name occurs with a time.
BeatsOf(s, name, n) == {k \in 1 .. n : s[k].name = name /\ s[k].time # None}

LEMMA BeatsNext ==
  ASSUME NEW s, NEW name, NEW n \in Nat
  PROVE  /\ BeatsOf(s, name, 0) = {}
         /\ BeatsOf(s, name, n) \subseteq 1 .. n
         /\ s[n + 1].name = name /\ s[n + 1].time # None =>
              BeatsOf(s, name, n + 1) = BeatsOf(s, name, n) \cup {n + 1}
         /\ ~ (s[n + 1].name = name /\ s[n + 1].time # None) =>
              BeatsOf(s, name, n + 1) = BeatsOf(s, name, n)
BY DEF BeatsOf

LEMMA SameBeats ==
  ASSUME NEW s, NEW t, NEW n \in Nat, Same(s, t, n), NEW name
  PROVE  BeatsOf(t, name, n) = BeatsOf(s, name, n)
BY DEF Same, BeatsOf

\* The first of a name is kept, and nothing for a name that has not occurred.
FirstSeen(first, s, K) ==
  \/ first = None /\ K = {}
  \/ first # None /\ \E k \in K : (\A j \in K : k <= j) /\ first = s[k]

OrderSeen(r, m, s, n) == \A x \in Names(r) : FirstSeen(m.firsts[x], s, BeatsOf(s, x, n))

LEMMA OrderSeenStart ==
  ASSUME NEW r, NEW s
  PROVE  OrderSeen(r, OrderStart(r), s, 0)
BY BeatsNext DEF OrderSeen, OrderStart, FirstSeen

LEMMA OrderSeenStep ==
  ASSUME NEW r, NEW m \in OrderMonitor(r), NEW s, NEW t, NEW n \in Nat, Same(s, t, n),
         t[n + 1] \in Stored, OrderSeen(r, m, s, n)
  PROVE  OrderSeen(r, OrderStep(r, m, t[n + 1], n), t, n + 1)
<1> DEFINE ev == t[n + 1]
           K(x) == BeatsOf(t, x, n)
           L(x) == BeatsOf(t, x, n + 1)
<1>1. \A x \in Names(r) : FirstSeen(m.firsts[x], t, K(x))
  <2> TAKE x \in Names(r)
  <2>1. K(x) = BeatsOf(s, x, n) /\ K(x) \subseteq 1 .. n
    BY SameBeats, BeatsNext
  <2>2. \A k \in K(x) : t[k] = s[k]
    BY <2>1 DEF Same
  <2> HIDE DEF K
  <2> QED BY <2>1, <2>2 DEF OrderSeen, FirstSeen
<1>2. \A x : /\ K(x) \subseteq 1 .. n
             /\ ev.name = x /\ ev.time # None => L(x) = K(x) \cup {n + 1}
             /\ ~ (ev.name = x /\ ev.time # None) => L(x) = K(x)
  BY BeatsNext
<1>3. ev # None
  BY EventAssumption
<1> HIDE DEF K, L
<1>4. CASE ev.name \notin Names(r) \/ ev.time = None
  <2>1. OrderStep(r, m, ev, n) = m
    BY <1>4 DEF OrderStep
  <2>2. \A x \in Names(r) : L(x) = K(x)
    BY <1>2, <1>4
  <2> QED BY <1>1, <2>1, <2>2 DEF OrderSeen, L
<1>5. CASE ~ (ev.name \notin Names(r) \/ ev.time = None)
  <2> DEFINE firsts == Occurred(r, m.firsts, ev)
             c == [m EXCEPT !.firsts = firsts]
  <2>1. OrderStep(r, m, ev, n).firsts = firsts
    BY <1>5 DEF OrderStep, Latch, OrderMonitor
  <2>2. DOMAIN m.firsts = Names(r)
    BY DEF OrderMonitor
  <2>3. /\ m.firsts[ev.name] = None => firsts[ev.name] = ev
        /\ m.firsts[ev.name] # None => firsts[ev.name] = m.firsts[ev.name]
        /\ \A x \in Names(r) : x # ev.name => firsts[x] = m.firsts[x]
    BY <1>5, <2>2 DEF Occurred
  <2> HIDE DEF firsts, ev
  <2>4. ASSUME NEW x \in Names(r) PROVE FirstSeen(firsts[x], t, L(x))
    <3>1. CASE x # ev.name
      BY <1>1, <1>2, <2>3, <3>1
    <3>2. CASE x = ev.name /\ m.firsts[x] = None
      <4>1. K(x) = {} /\ L(x) = {n + 1}
        BY <1>1, <1>2, <1>5, <3>2 DEF FirstSeen
      <4> QED BY <1>3, <2>3, <3>2, <4>1 DEF FirstSeen, ev
    <3>3. CASE x = ev.name /\ m.firsts[x] # None
      <4>1. PICK k \in K(x) : (\A j \in K(x) : k <= j) /\ m.firsts[x] = t[k]
        BY <1>1, <3>3 DEF FirstSeen
      <4>2. L(x) = K(x) \cup {n + 1} /\ k <= n + 1
        BY <1>2, <1>5, <3>3
      <4>3. k \in L(x) /\ \A j \in L(x) : k <= j
        BY <4>1, <4>2
      <4> QED BY <2>3, <3>3, <4>1, <4>3 DEF FirstSeen
    <3> QED BY <3>1, <3>2, <3>3
  <2> QED BY <2>1, <2>4 DEF OrderSeen, L, ev
<1> QED BY <1>4, <1>5

-----------------------------------------------------------------------------
(* What heartbeats have seen.                                              *)

TimedIn(s, n) == {k \in 1 .. n : s[k].time # None}

\* Next to each other among K.
Adjacent(K, j, k) == j \in K /\ k \in K /\ j < k /\ \A i \in K : i <= j \/ k <= i

Steady(r, s, K) == \A j, k \in K : Adjacent(K, j, k) => s[k].time - s[j].time <= r.every

\* The times of the first and of the last beat, and of the earliest and the latest event.
Ends(m, s, K) ==
  IF K = {} THEN m.first = None /\ m.last = None
  ELSE \E a, z \in K : /\ \A j \in K : a <= j /\ j <= z
                       /\ m.first = s[a].time /\ m.last = s[z].time

Spanned(m, s, T) ==
  IF T = {} THEN m.low = None /\ m.high = None
  ELSE /\ m.low \in Int /\ m.high \in Int
       /\ \A k \in T : m.low <= s[k].time /\ s[k].time <= m.high
       /\ \E k \in T : m.low = s[k].time
       /\ \E k \in T : m.high = s[k].time

BeatSeen(r, m, s, n) ==
  LET K == BeatsOf(s, r.name, n)
  IN /\ m.beats > 0 <=> K # {}
     /\ Ends(m, s, K)
     /\ m.gap <= r.every <=> Steady(r, s, K)
     /\ r.edges => Spanned(m, s, TimedIn(s, n))

LEMMA BeatSeenStart ==
  ASSUME NEW r \in BeatRule, NEW s
  PROVE  BeatSeen(r, BeatStart(r), s, 0)
<1>1. BeatsOf(s, r.name, 0) = {} /\ TimedIn(s, 0) = {}
  BY DEF BeatsOf, TimedIn
<1>2. 0 <= r.every
  BY DEF BeatRule
<1> QED BY <1>1, <1>2 DEF BeatSeen, BeatStart, Ends, Steady, Spanned

LEMMA SameBeatSeen ==
  ASSUME NEW r, NEW m, NEW s, NEW t, NEW n \in Nat, Same(s, t, n), BeatSeen(r, m, s, n)
  PROVE  BeatSeen(r, m, t, n)
<1> DEFINE K == BeatsOf(s, r.name, n)
           T == TimedIn(s, n)
<1>1. BeatsOf(t, r.name, n) = K /\ TimedIn(t, n) = T
  BY SameBeats DEF TimedIn, Same
<1>2. K \subseteq 1 .. n /\ T \subseteq 1 .. n
  BY DEF BeatsOf, TimedIn
<1>3. (\A k \in K : t[k] = s[k]) /\ (\A k \in T : t[k] = s[k])
  BY <1>2 DEF Same
<1>4. /\ m.beats > 0 <=> K # {}
      /\ Ends(m, s, K)
      /\ m.gap <= r.every <=> Steady(r, s, K)
      /\ r.edges => Spanned(m, s, T)
  BY DEF BeatSeen
<1> HIDE DEF K, T
<1>5. Ends(m, t, K)
  BY <1>3, <1>4 DEF Ends
<1>6. Steady(r, t, K) <=> Steady(r, s, K)
  BY <1>3 DEF Steady
<1>7. Spanned(m, s, T) => Spanned(m, t, T)
  BY <1>3 DEF Spanned
<1> QED BY <1>1, <1>4, <1>5, <1>6, <1>7 DEF BeatSeen

\* One more timed event.
LEMMA SpanSeen ==
  ASSUME NEW r, NEW m \in BeatMonitor, NEW s, NEW n \in Nat,
         \A i \in 1 .. n + 1 : s[i] \in Stored,
         r.edges => Spanned(m, s, TimedIn(s, n))
  PROVE  r.edges => Spanned(Span(r, m, s[n + 1]), s, TimedIn(s, n + 1))
<1> SUFFICES ASSUME r.edges PROVE Spanned(Span(r, m, s[n + 1]), s, TimedIn(s, n + 1))
  OBVIOUS
<1> DEFINE T == TimedIn(s, n)
           U == TimedIn(s, n + 1)
           x == s[n + 1].time
           low == Least(m.low, x)
           high == Greatest(m.high, x)
<1>1. Spanned(m, s, T)
  OBVIOUS
<1>2. (x = None => U = T) /\ (x # None => U = T \cup {n + 1})
  BY DEF TimedIn
<1>3. ASSUME NEW k \in U PROVE s[k].time \in Int
  <2>1. s[k] \in Stored /\ s[k].time # None
    BY <1>3 DEF TimedIn
  <2> QED BY <2>1, EventAssumption DEF Event
<1> HIDE DEF T, U
<1>4. CASE x = None
  <2>1. Span(r, m, s[n + 1]) = m
    BY <1>4 DEF Span
  <2> QED BY <1>1, <1>2, <1>4, <2>1 DEF U
<1>5. CASE x # None
  <2> DEFINE e == Span(r, m, s[n + 1])
  <2>1. e.low = low /\ e.high = high
    BY <1>5 DEF Span, BeatMonitor
  <2>2. n + 1 \in U /\ x \in Int /\ T \subseteq U /\ U # {} /\ \A k \in U : k \in T \/ k = n + 1
    BY <1>2, <1>3, <1>5
  <2>3. None \notin Int
    BY EventAssumption
  <2>4. CASE T = {}
    <3>1. m.low = None /\ m.high = None
      BY <1>1, <2>4 DEF Spanned
    <3>2. low = x /\ high = x
      BY <3>1 DEF Least, Greatest
    <3> HIDE DEF low, high, e
    <3>3. \A k \in U : s[k].time = x
      BY <2>2, <2>4
    <3> QED BY <2>1, <2>2, <3>2, <3>3 DEF Spanned, e, U
  <2>5. CASE T # {}
    <3>1. /\ m.low \in Int /\ m.high \in Int
          /\ \A k \in T : m.low <= s[k].time /\ s[k].time <= m.high
          /\ \E k \in T : m.low = s[k].time
          /\ \E k \in T : m.high = s[k].time
      BY <1>1, <2>5 DEF Spanned
    <3>2. /\ low = IF x < m.low THEN x ELSE m.low
          /\ high = IF x > m.high THEN x ELSE m.high
      BY <2>3, <3>1 DEF Least, Greatest
    <3> HIDE DEF low, high, e
    <3>3. low \in Int /\ high \in Int /\ low <= x /\ low <= m.low /\ x <= high /\ m.high <= high
      BY <2>2, <3>1, <3>2
    <3>4. \A k \in U : low <= s[k].time /\ s[k].time <= high
      <4> TAKE k \in U
      <4>1. s[k].time \in Int
        BY <1>3
      <4>2. CASE k = n + 1
        BY <3>3, <4>2
      <4>3. CASE k \in T
        BY <3>1, <3>3, <4>1, <4>3
      <4> QED BY <2>2, <4>2, <4>3
    <3>5. \E k \in U : low = s[k].time
      BY <2>2, <3>1, <3>2
    <3>6. \E k \in U : high = s[k].time
      BY <2>2, <3>1, <3>2
    <3> QED BY <2>1, <2>2, <3>3, <3>4, <3>5, <3>6 DEF Spanned, e, U
  <2> QED BY <2>4, <2>5
<1> QED BY <1>4, <1>5

\* One more beat is steady if it is not too long after the last.
LEMMA SteadyNext ==
  ASSUME NEW r, NEW s, NEW n \in Nat, NEW K \in SUBSET (1 .. n), NEW z \in K, \A j \in K : j <= z
  PROVE  Steady(r, s, K \cup {n + 1}) <=>
           Steady(r, s, K) /\ s[n + 1].time - s[z].time <= r.every
<1> DEFINE L == K \cup {n + 1}
<1>1. n + 1 \notin K /\ \A k \in K : k \in Nat /\ k <= n
  OBVIOUS
<1>2. \A j, k \in K : Adjacent(L, j, k) <=> Adjacent(K, j, k)
  BY <1>1 DEF Adjacent
<1>3. \A j \in K : ~ Adjacent(L, n + 1, j)
  BY <1>1 DEF Adjacent
<1>4. \A j \in K : Adjacent(L, j, n + 1) <=> j = z
  BY <1>1 DEF Adjacent
<1>5. ~ Adjacent(L, n + 1, n + 1)
  BY DEF Adjacent
<1>6. \A j \in L : j \in K \/ j = n + 1
  OBVIOUS
<1>7. K \subseteq L /\ n + 1 \in L
  OBVIOUS
<1> HIDE DEF L
<1>8. Steady(r, s, L) <=> Steady(r, s, K) /\ s[n + 1].time - s[z].time <= r.every
  <2>1. ASSUME Steady(r, s, L) PROVE Steady(r, s, K) /\ s[n + 1].time - s[z].time <= r.every
    BY <1>2, <1>4, <1>7, <2>1 DEF Steady
  <2>2. ASSUME Steady(r, s, K), s[n + 1].time - s[z].time <= r.every PROVE Steady(r, s, L)
    BY <1>2, <1>3, <1>4, <1>5, <1>6, <2>2 DEF Steady
  <2> QED BY <2>1, <2>2
<1> QED BY <1>8 DEF L

\* The span apart, a step changes a monitor with a beat only.
LEMMA SpanLeaves ==
  ASSUME NEW r, NEW m \in BeatMonitor, NEW ev
  PROVE  /\ Span(r, m, ev).beats = m.beats /\ Span(r, m, ev).gap = m.gap
         /\ Span(r, m, ev).first = m.first /\ Span(r, m, ev).last = m.last
<1> DEFINE low == Least(m.low, ev.time)
           high == Greatest(m.high, ev.time)
<1>1. CASE r.edges /\ ev.time # None
  <2>1. Span(r, m, ev) = [m EXCEPT !.low = low, !.high = high]
    BY <1>1 DEF Span, BeatMonitor
  <2> HIDE DEF low, high
  <2> QED BY <2>1 DEF BeatMonitor
<1>2. CASE ~ (r.edges /\ ev.time # None)
  BY <1>2 DEF Span
<1> QED BY <1>1, <1>2

LEMMA BeatTakes ==
  ASSUME NEW r, NEW m \in BeatMonitor, NEW ev, NEW n
  PROVE  LET e   == Beat(r, m, ev, n)
             gap == IF m.last = None THEN 0 ELSE ev.time - m.last
         IN /\ e.beats = m.beats + 1
            /\ e.first = IF m.first = None THEN ev.time ELSE m.first
            /\ e.last = ev.time
            /\ e.gap = IF gap > m.gap THEN gap ELSE m.gap
            /\ e.low = m.low /\ e.high = m.high
<1> DEFINE gap == IF m.last = None THEN 0 ELSE ev.time - m.last
           first == IF m.first = None THEN ev.time ELSE m.first
           widest == IF gap > m.gap THEN gap ELSE m.gap
           seen == m.beats + 1
           c == [m EXCEPT !.beats = seen, !.first = first, !.last = ev.time, !.gap = widest]
           v == IF gap > r.every THEN "viol" ELSE "pend"
<1>1. Beat(r, m, ev, n) = Latch(c, v, n)
  BY DEF Beat, BeatMonitor
<1> HIDE DEF gap, first, widest, seen, v
<1>2. /\ c.beats = seen /\ c.first = first /\ c.last = ev.time /\ c.gap = widest
      /\ c.low = m.low /\ c.high = m.high
      /\ DOMAIN c = {"verdict", "at", "beats", "gap", "first", "last", "low", "high"}
  BY DEF BeatMonitor
<1> HIDE DEF c
<1>3. LET e == Latch(c, v, n)
      IN /\ e.beats = seen /\ e.first = first /\ e.last = ev.time /\ e.gap = widest
         /\ e.low = m.low /\ e.high = m.high
  BY <1>2 DEF Latch
<1> QED BY <1>1, <1>3 DEF gap, first, widest, seen

LEMMA BeatSeenStep ==
  ASSUME NEW r \in BeatRule, NEW m \in BeatMonitor, NEW s, NEW t, NEW n \in Nat, Same(s, t, n),
         \A i \in 1 .. n + 1 : t[i] \in Stored,
         BeatSeen(r, m, s, n)
  PROVE  BeatSeen(r, BeatStep(r, m, t[n + 1], n), t, n + 1)
<1> DEFINE ev == t[n + 1]
           p == Span(r, m, ev)
           K == BeatsOf(t, r.name, n)
           L == BeatsOf(t, r.name, n + 1)
<1>1. BeatSeen(r, m, t, n)
  BY SameBeatSeen
<1>2. /\ m.beats > 0 <=> K # {}
      /\ Ends(m, t, K)
      /\ m.gap <= r.every <=> Steady(r, t, K)
      /\ r.edges => Spanned(m, t, TimedIn(t, n))
  BY <1>1 DEF BeatSeen
<1>3. r.edges => Spanned(p, t, TimedIn(t, n + 1))
  BY <1>2, SpanSeen
<1>4. n + 1 \in 1 .. n + 1
  OBVIOUS
<1>5. ev \in Stored /\ (ev.time # None => ev.time \in Int)
  BY <1>4, EventAssumption DEF Event
<1>6. /\ p.beats = m.beats /\ p.gap = m.gap /\ p.first = m.first /\ p.last = m.last
      /\ p \in BeatMonitor
  BY <1>5, SpanLeaves, Spanning
<1>7. /\ K \subseteq 1 .. n
      /\ ev.name = r.name /\ ev.time # None => L = K \cup {n + 1}
      /\ ~ (ev.name = r.name /\ ev.time # None) => L = K
  BY BeatsNext
<1>8. \A k \in K : t[k].time \in Int /\ k \in 1 .. n
  <2> TAKE k \in K
  <2>1. k \in 1 .. n + 1 /\ t[k].time # None /\ k \in 1 .. n
    BY <1>7 DEF BeatsOf
  <2> QED BY <2>1, EventAssumption DEF Event
<1> HIDE DEF p, K, L
<1>9. CASE ~ (ev.name = r.name /\ ev.time # None)
  <2>1. BeatStep(r, m, ev, n) = p
    BY <1>9 DEF BeatStep, p
  <2>2. Ends(p, t, K)
    BY <1>2, <1>6 DEF Ends
  <2> QED BY <1>2, <1>3, <1>6, <1>7, <1>9, <2>1, <2>2 DEF BeatSeen, L
<1>10. CASE ev.name = r.name /\ ev.time # None
  <2> DEFINE e == Beat(r, p, ev, n)
             gap == IF p.last = None THEN 0 ELSE ev.time - p.last
  <2>1. BeatStep(r, m, ev, n) = e
    BY <1>10 DEF BeatStep, p
  <2>2. /\ e.beats = p.beats + 1
        /\ e.first = IF p.first = None THEN ev.time ELSE p.first
        /\ e.last = ev.time
        /\ e.gap = IF gap > p.gap THEN gap ELSE p.gap
        /\ e.low = p.low /\ e.high = p.high
    BY <1>6, BeatTakes
  <2> HIDE DEF e
  <2>3. L = K \cup {n + 1} /\ L # {}
    BY <1>7, <1>10
  <2>4. /\ m.beats \in Nat /\ m.gap \in Int /\ r.every \in Nat
    BY DEF BeatMonitor, BeatRule
  <2>5. e.beats > 0 <=> L # {}
    BY <1>6, <2>2, <2>3, <2>4
  <2>6. r.edges => Spanned(e, t, TimedIn(t, n + 1))
    BY <1>3, <2>2 DEF Spanned
  <2>7. None \notin Int
    BY EventAssumption
  <2>8. CASE K = {}
    <3>1. m.first = None /\ m.last = None
      BY <1>2, <2>8 DEF Ends
    <3>2. e.first = ev.time /\ e.last = ev.time /\ gap = 0
      BY <1>6, <2>2, <3>1
    <3>3. L = {n + 1}
      BY <2>3, <2>8
    <3>4. Ends(e, t, L)
      BY <3>2, <3>3 DEF Ends
    <3>5. Steady(r, t, K) /\ Steady(r, t, L)
      BY <2>8, <3>3 DEF Steady, Adjacent
    <3>6. m.gap <= r.every /\ e.gap <= r.every
      <4>1. m.gap <= r.every
        BY <1>2, <3>5
      <4> QED BY <1>6, <2>2, <2>4, <3>2, <4>1
    <3> QED BY <2>1, <2>5, <2>6, <3>4, <3>5, <3>6 DEF BeatSeen, L
  <2>9. CASE K # {}
    <3>1. PICK a \in K, z \in K : /\ \A j \in K : a <= j /\ j <= z
                                  /\ m.first = t[a].time /\ m.last = t[z].time
      BY <1>2, <2>9 DEF Ends
    <3>2. t[a].time \in Int /\ t[z].time \in Int /\ a \in 1 .. n /\ z \in 1 .. n
      BY <1>8, <3>1
    <3>3. e.first = t[a].time /\ e.last = ev.time /\ gap = ev.time - t[z].time
      BY <1>6, <2>2, <2>7, <3>1, <3>2
    <3>4. Ends(e, t, L)
      <4>1. \A j \in L : a <= j /\ j <= n + 1
        <5>1. \A j \in K : a <= j /\ j <= n + 1
          BY <1>8, <3>1
        <5>2. a <= n + 1 /\ n + 1 <= n + 1
          BY <3>2
        <5> QED BY <2>3, <5>1, <5>2
      <4>2. a \in L /\ n + 1 \in L
        BY <2>3, <3>1
      <4> QED BY <2>3, <3>3, <4>1, <4>2 DEF Ends
    <3>5. Steady(r, t, L) <=> Steady(r, t, K) /\ gap <= r.every
      <4>1. K \in SUBSET (1 .. n) /\ z \in K /\ \A j \in K : j <= z
        BY <1>7, <3>1
      <4>2. Steady(r, t, K \cup {n + 1}) <=>
              Steady(r, t, K) /\ t[n + 1].time - t[z].time <= r.every
        BY <4>1, SteadyNext
      <4> QED BY <2>3, <3>3, <4>2
    <3>6. e.gap <= r.every <=> m.gap <= r.every /\ gap <= r.every
      <4>1. gap \in Int
        BY <1>5, <1>10, <3>2, <3>3
      <4> HIDE DEF gap
      <4> QED BY <1>6, <2>2, <2>4, <4>1
    <3> QED BY <1>2, <2>1, <2>5, <2>6, <3>4, <3>5, <3>6 DEF BeatSeen, L
  <2> QED BY <2>8, <2>9
<1> QED BY <1>9, <1>10

-----------------------------------------------------------------------------
(* What relations have seen.                                               *)

\* Of the first n events of s, those with a value, and all their values.
Valued(match, s, n) == {k \in Matches(match, s, n) : s[k].value # None}
Worth(s, n) == [k \in 1 .. n |-> s[k].value]
Worths(s, K) == {s[k].value : k \in K}
Told(values) == {values[k] : k \in DOMAIN values}

SideSeen(side, match, reduce, s, n) ==
  LET K == Valued(match, s, n)
  IN /\ side \in Side
     /\ side.got = Cardinality(Matches(match, s, n))
     /\ reduce # "count" =>
          /\ side.values = << >> <=> K = {}
          /\ Told(side.values) = Worths(s, K)
          /\ Total(side.values) = SumOf(Worth(s, n), K)
          /\ K # {} => \E z \in K : /\ \A j \in K : j <= z
                                    /\ side.values[Len(side.values)] = s[z].value

LEMMA WorthLength ==
  ASSUME NEW s, NEW n \in Nat
  PROVE  Len(Worth(s, n)) = n /\ \A k \in 1 .. n : Worth(s, n)[k] = s[k].value
BY DEF Worth

LEMMA SideSeenStart ==
  ASSUME NEW match, NEW reduce, NEW s
  PROVE  SideSeen([got |-> 0, values |-> << >>], match, reduce, s, 0)
<1> DEFINE side == [got |-> 0, values |-> << >>]
<1>1. Matches(match, s, 0) = {} /\ Valued(match, s, 0) = {}
  BY DEF Matches, Valued
<1>2. side \in Side
  BY DEF Side
<1>3. side.got = Cardinality(Matches(match, s, 0))
  BY <1>1, FS_EmptySet
<1>4. Told(<< >>) = {} /\ Worths(s, {}) = {}
  BY DEF Told, Worths
<1>5. Total(<< >>) = SumOf(Worth(s, 0), {})
  <2>1. Len(Worth(s, 0)) = 0 /\ Len(<< >>) = 0
    BY WorthLength
  <2> QED BY <2>1, SumOfNothing DEF Total
<1> QED BY <1>1, <1>2, <1>3, <1>4, <1>5 DEF SideSeen

LEMMA SideSeenStep ==
  ASSUME NEW side, NEW match, NEW reduce, NEW s, NEW t, NEW n \in Nat, Same(s, t, n),
         \A i \in 1 .. n + 1 : t[i] \in Stored,
         SideSeen(side, match, reduce, s, n)
  PROVE  SideSeen(Take(side, match, reduce, t[n + 1]), match, reduce, t, n + 1)
<1> DEFINE ev == t[n + 1]
           e == Take(side, match, reduce, ev)
           J == Valued(match, s, n)
           K == Valued(match, t, n + 1)
           w == Worth(s, n)
           v == Worth(t, n + 1)
<1>1. n \in 0 .. n /\ n + 1 \in 1 .. n + 1 /\ n + 1 \in Nat
  OBVIOUS
<1>2. Matches(match, t, n) = Matches(match, s, n)
  BY <1>1, SameMatches
<1>3. side \in Side /\ side.got = Cardinality(Matches(match, t, n))
  BY <1>2 DEF SideSeen
<1>4. e \in Side
  BY <1>1, <1>3, Taking
<1>5. e.got = Cardinality(Matches(match, t, n + 1))
  <2>1. CASE ev \in match
    <3>1. Cardinality(Matches(match, t, n + 1)) = Cardinality(Matches(match, t, n)) + 1
      BY <2>1, MatchesNext
    <3> QED BY <1>3, <2>1, <3>1 DEF Take
  <2>2. CASE ev \notin match
    <3>1. Matches(match, t, n + 1) = Matches(match, t, n)
      BY <2>2, MatchesNext
    <3> QED BY <1>3, <2>2, <3>1 DEF Take
  <2> QED BY <2>1, <2>2
<1>6. /\ J \subseteq 1 .. n
      /\ ev \in match /\ ev.value # None => K = J \cup {n + 1}
      /\ ~ (ev \in match /\ ev.value # None) => K = J
  BY DEF Valued, Matches, Same
<1>7. \A k \in J : t[k] = s[k] /\ s[k].value \in Int
  <2> TAKE k \in J
  <2>1. k \in 1 .. n /\ k \in 1 .. n + 1 /\ t[k] = s[k] /\ s[k].value # None
    BY <1>6 DEF Same, Valued
  <2> QED BY <2>1, EventAssumption DEF Event
<1>8. ev.value # None => ev.value \in Int
  BY <1>1, EventAssumption DEF Event
<1>9. /\ SumOf(w, J) \in Int
      /\ SumOf(v, K) = SumOf(w, J) + (IF n + 1 \in K THEN ev.value ELSE 0)
  <2>1. Len(w) = n /\ Len(v) = n + 1
    BY <1>1, WorthLength
  <2>2. /\ \A k \in 1 .. n : w[k] = s[k].value
        /\ \A k \in 1 .. n + 1 : v[k] = t[k].value
    BY <1>1, WorthLength
  <2>3. \A k \in 1 .. n : (k \in J <=> k \in K) /\ (k \in J => w[k] = v[k] /\ w[k] \in Int)
    <3> TAKE k \in 1 .. n
    <3>1. k # n + 1 /\ k \in 1 .. n + 1
      OBVIOUS
    <3>2. k \in J <=> k \in K
      BY <1>6, <3>1
    <3>3. k \in J => w[k] = v[k] /\ w[k] \in Int
      BY <1>7, <2>2, <3>1
    <3> QED BY <3>2, <3>3
  <2> HIDE DEF w, v, J, K
  <2>4. v[n + 1] = ev.value
    BY <1>1, <2>2
  <2> QED BY <1>1, <2>1, <2>3, <2>4, SumOfNext
<1>10. ASSUME reduce # "count"
       PROVE  /\ e.values = << >> <=> K = {}
              /\ Told(e.values) = Worths(t, K)
              /\ Total(e.values) = SumOf(v, K)
              /\ K # {} => \E z \in K : /\ \A j \in K : j <= z
                                        /\ e.values[Len(e.values)] = t[z].value
  <2> DEFINE x == side.values
  <2>1. /\ x = << >> <=> J = {}
        /\ Told(x) = Worths(s, J)
        /\ Total(x) = SumOf(w, J)
        /\ J # {} => \E z \in J : (\A j \in J : j <= z) /\ x[Len(x)] = s[z].value
    BY <1>10 DEF SideSeen
  <2>2. x \in Seq(Int) /\ Len(x) \in Nat
    BY <1>3 DEF Side
  <2>3. Worths(t, J) = Worths(s, J)
    BY <1>7 DEF Worths
  <2> HIDE DEF J, K, w, v, e
  <2>4. CASE ~ (ev \in match /\ ev.value # None)
    <3>1. e.values = x
      BY <1>3, <2>4 DEF Take, Side, e
    <3>2. K = J /\ n + 1 \notin K
      BY <1>6, <2>4
    <3>3. SumOf(v, K) = SumOf(w, J)
      BY <1>9, <3>2
    <3>4. J # {} => \E z \in J : (\A j \in J : j <= z) /\ x[Len(x)] = t[z].value
      BY <1>7, <2>1
    <3> QED BY <2>1, <2>3, <3>1, <3>2, <3>3, <3>4
  <2>5. CASE ev \in match /\ ev.value # None
    <3> DEFINE y == Append(x, ev.value)
    <3>1. e.values = y
      BY <1>10, <2>5 DEF Take, e
    <3>2. K = J \cup {n + 1} /\ n + 1 \in K
      BY <1>6, <2>5
    <3>3. ev.value \in Int
      BY <1>8, <2>5
    <3>4. /\ Len(y) = Len(x) + 1 /\ y[Len(y)] = ev.value
          /\ \A k \in 1 .. Len(x) : y[k] = x[k] /\ x[k] \in Int
          /\ DOMAIN y = 1 .. Len(y) /\ DOMAIN x = 1 .. Len(x)
          /\ DOMAIN y = DOMAIN x \cup {Len(y)}
      BY <2>2, <3>3
    <3> HIDE DEF x, y
    <3>5. Told(y) = Told(x) \cup {ev.value}
      BY <3>4 DEF Told
    <3>6. Worths(t, K) = Worths(t, J) \cup {ev.value}
      BY <3>2 DEF Worths
    <3>7. Total(y) = Total(x) + ev.value
      <4>1. \A k \in 1 .. Len(x) : (k \in DOMAIN x <=> k \in DOMAIN y) /\
                                   (k \in DOMAIN x => x[k] = y[k] /\ x[k] \in Int)
        BY <3>4
      <4>2. Len(y) \in DOMAIN y
        BY <2>2, <3>4 DEF x
      <4>3. Len(x) \in Nat
        BY <2>2 DEF x
      <4>4. SumOf(y, DOMAIN y) =
              SumOf(x, DOMAIN x) + (IF Len(y) \in DOMAIN y THEN y[Len(y)] ELSE 0)
        BY <3>4, <4>1, <4>3, SumOfNext
      <4> QED BY <3>4, <4>2, <4>4 DEF Total
    <3>8. SumOf(v, K) = SumOf(w, J) + ev.value
      BY <1>9, <3>2
    <3>9. Total(y) = SumOf(v, K)
      BY <2>1, <3>7, <3>8 DEF x
    <3>10. y # << >> /\ K # {}
      <4>1. Len(y) # 0
        BY <2>2, <3>4 DEF x
      <4> QED BY <3>2, <4>1
    <3>11. \A j \in K : j <= n + 1
      BY <1>6, <3>2
    <3> QED BY <2>1, <2>3, <3>1, <3>2, <3>4, <3>5, <3>6, <3>9, <3>10, <3>11 DEF x
  <2> QED BY <2>4, <2>5
<1> QED BY <1>4, <1>5, <1>10 DEF SideSeen

-----------------------------------------------------------------------------
(* Why an order has failed.                                                *)

\* Two names, not always adjacent ones, out of order, or too much time between two.
Broken(r, firsts) ==
  \/ \E i, j \in DOMAIN r.seq :
       /\ i < j /\ firsts[r.seq[i]] # None /\ firsts[r.seq[j]] # None
       /\ ~ PairOk(r, firsts[r.seq[i]], firsts[r.seq[j]])
  \/ GapsExceeded(r, firsts)

OrderFailed(r, m) == m.verdict = "viol" => Broken(r, m.firsts)

\* What has occurred is not forgotten.
LEMMA BrokenStays ==
  ASSUME NEW r, NEW f, NEW g, Broken(r, f), \A x \in Names(r) : f[x] # None => g[x] = f[x]
  PROVE  Broken(r, g)
<1>1. \A i \in DOMAIN r.seq : f[r.seq[i]] # None => g[r.seq[i]] = f[r.seq[i]]
  BY DEF Names
<1>2. CASE GapsExceeded(r, f)
  <2>1. GapsExceeded(r, g)
    BY <1>1, <1>2 DEF GapsExceeded
  <2> QED BY <2>1 DEF Broken
<1>3. CASE \E i, j \in DOMAIN r.seq :
             /\ i < j /\ f[r.seq[i]] # None /\ f[r.seq[j]] # None
             /\ ~ PairOk(r, f[r.seq[i]], f[r.seq[j]])
  <2>1. PICK i \in DOMAIN r.seq, j \in DOMAIN r.seq :
             /\ i < j /\ f[r.seq[i]] # None /\ f[r.seq[j]] # None
             /\ ~ PairOk(r, f[r.seq[i]], f[r.seq[j]])
    BY <1>3
  <2>2. g[r.seq[i]] = f[r.seq[i]] /\ g[r.seq[j]] = f[r.seq[j]]
    BY <1>1, <2>1
  <2>3. \E k, l \in DOMAIN r.seq :
             /\ k < l /\ g[r.seq[k]] # None /\ g[r.seq[l]] # None
             /\ ~ PairOk(r, g[r.seq[k]], g[r.seq[l]])
    BY <2>1, <2>2
  <2> QED BY <2>3 DEF Broken
<1> QED BY <1>2, <1>3 DEF Broken

LEMMA ViolIsBroken ==
  ASSUME NEW r, NEW f, OrderVerdict(r, f) = "viol"
  PROVE  Broken(r, f)
<1>1. ~ OrderedSoFar(r, f) \/ GapsExceeded(r, f)
  BY DEF OrderVerdict
<1> QED BY <1>1 DEF OrderedSoFar, Neighbours, Broken

LEMMA OrderFailedStep ==
  ASSUME NEW r, NEW m \in OrderMonitor(r), NEW ev \in Stored, NEW n, OrderFailed(r, m)
  PROVE  OrderFailed(r, OrderStep(r, m, ev, n))
<1>1. CASE ev.name \notin Names(r) \/ ev.time = None
  BY <1>1 DEF OrderStep
<1>2. CASE ~ (ev.name \notin Names(r) \/ ev.time = None)
  <2> DEFINE firsts == Occurred(r, m.firsts, ev)
             c == [m EXCEPT !.firsts = firsts]
             v == OrderVerdict(r, firsts)
  <2>1. OrderStep(r, m, ev, n) = Latch(c, v, n)
    BY <1>2 DEF OrderStep
  <2>2. /\ c.firsts = firsts /\ c.verdict = m.verdict
        /\ DOMAIN c = {"verdict", "at", "firsts"}
    BY DEF OrderMonitor
  <2>3. \A x \in Names(r) : m.firsts[x] # None => firsts[x] = m.firsts[x]
    BY <1>2 DEF Occurred, OrderMonitor
  <2>4. v = "viol" => Broken(r, firsts)
    BY ViolIsBroken
  <2>5. m.verdict = "viol" => Broken(r, firsts)
    <3> HIDE DEF firsts
    <3> QED BY <2>3, BrokenStays DEF OrderFailed
  <2> HIDE DEF firsts, c, v
  <2>6. /\ Latch(c, v, n).firsts = firsts
        /\ Latch(c, v, n).verdict \in {m.verdict, v}
    BY <2>2 DEF Latch
  <2> QED BY <2>1, <2>4, <2>5, <2>6 DEF OrderFailed
<1> QED BY <1>1, <1>2

\* When every name has occurred, only adjacent ones are compared.
LEMMA AllCompared ==
  ASSUME NEW r \in OrderRule, NEW f, \A x \in Names(r) : f[x] # None
  PROVE  OrderedSoFar(r, f) <=>
           \A i, j \in DOMAIN r.seq : j = i + 1 => PairOk(r, f[r.seq[i]], f[r.seq[j]])
<1>1. DOMAIN r.seq = 1 .. Len(r.seq) /\ Len(r.seq) \in Nat
  BY DEF OrderRule
<1>2. \A i \in DOMAIN r.seq : f[r.seq[i]] # None
  BY DEF Names
<1>3. ASSUME NEW i \in DOMAIN r.seq, NEW j \in DOMAIN r.seq
      PROVE  Neighbours(r, f, i, j) <=> j = i + 1
  <2>1. CASE j = i + 1
    BY <1>1, <1>2, <2>1 DEF Neighbours
  <2>2. CASE j # i + 1
    <3>1. i < j => i + 1 \in DOMAIN r.seq /\ i < i + 1 /\ i + 1 < j
      BY <1>1, <2>2
    <3> QED BY <1>2, <2>2, <3>1 DEF Neighbours
  <2> QED BY <2>1, <2>2
<1> QED BY <1>3 DEF OrderedSoFar

\* One authority orders three events as it orders each two.
LEMMA OrderIsTransitive ==
  ASSUME NEW r \in OrderRule, Comparable(r), Len(r.seq) > 2,
         NEW x \in Stored, NEW y \in Stored, NEW z \in Stored,
         x.time \in Int, y.time \in Int, z.time \in Int,
         PairOk(r, x, y), PairOk(r, y, z)
  PROVE  PairOk(r, x, z)
<1>1. /\ x.seq \in Int /\ y.seq \in Int /\ z.seq \in Int
      /\ x.emit \in Int \cup {None} /\ y.emit \in Int \cup {None} /\ z.emit \in Int \cup {None}
  BY EventAssumption DEF Event
<1>2. Len(r.seq) \in Nat
  BY DEF OrderRule
<1>3. r.skew = None
  BY <1>2 DEF Comparable
<1>4. \/ x.emit # None /\ y.emit # None /\ z.emit # None
      \/ x.emit = None /\ y.emit = None /\ z.emit = None
  BY <1>2 DEF Comparable
<1>5. CASE x.emit # None /\ y.emit # None /\ z.emit # None
  BY <1>1, <1>5 DEF PairOk
<1>6. CASE x.emit = None /\ y.emit = None /\ z.emit = None
  BY <1>1, <1>3, <1>6 DEF PairOk
<1> QED BY <1>4, <1>5, <1>6

LEMMA BrokenIsFinal ==
  ASSUME NEW r \in OrderRule, NEW m, Comparable(r), Broken(r, m.firsts),
         \A x \in Names(r) : m.firsts[x] # None =>
           m.firsts[x] \in Stored /\ m.firsts[x].time \in Int
  PROVE  ~ OrderPassed(r, m)
<1> SUFFICES ASSUME OrderPassed(r, m) PROVE FALSE
  OBVIOUS
<1> DEFINE f == m.firsts
           F(i) == f[r.seq[i]]
<1>1. DOMAIN r.seq = 1 .. Len(r.seq) /\ Len(r.seq) \in Nat
  BY DEF OrderRule
<1>2. \A x \in Names(r) : f[x] # None
  BY DEF OrderPassed, Missing
<1>3. \A i, j \in DOMAIN r.seq : j = i + 1 => PairOk(r, F(i), F(j))
  <2>1. OrderedSoFar(r, f)
    BY DEF OrderPassed
  <2> HIDE DEF f
  <2> QED BY <1>2, <2>1, AllCompared
<1>4. \A i \in DOMAIN r.seq : F(i) \in Stored /\ F(i).time \in Int
  BY <1>2 DEF Names
<1>5. PICK i \in DOMAIN r.seq, j \in DOMAIN r.seq : i < j /\ ~ PairOk(r, F(i), F(j))
  <2>1. ~ GapsExceeded(r, f)
    BY DEF OrderPassed
  <2> QED BY <2>1 DEF Broken
<1> HIDE DEF F
<1>6. CASE Len(r.seq) <= 2
  <2>1. j = i + 1
    BY <1>1, <1>5, <1>6
  <2> QED BY <1>3, <1>5, <2>1
<1>7. CASE Len(r.seq) > 2
  <2> DEFINE T == {k \in DOMAIN r.seq : i < k /\ ~ PairOk(r, F(i), F(k))}
  <2>1. T \in SUBSET Nat /\ T # {}
    BY <1>1, <1>5
  <2>2. PICK k \in T : \A l \in T : k <= l
    <3> HIDE DEF T
    <3> QED BY <2>1, LeastNatural
  <2> DEFINE l == k - 1
  <2>3. l \in DOMAIN r.seq /\ k \in DOMAIN r.seq /\ k = l + 1 /\ i <= l /\ ~ (k <= l)
    BY <1>1, <2>2
  <2>4. PairOk(r, F(l), F(k))
    BY <1>3, <2>3
  <2>5. i # l
    BY <2>2, <2>4
  <2>6. PairOk(r, F(i), F(l))
    <3>1. l \notin T
      <4> HIDE DEF l, T
      <4> QED BY <2>2, <2>3
    <3>2. i < l
      BY <1>1, <2>3, <2>5
    <3> HIDE DEF l
    <3> QED BY <2>3, <3>1, <3>2
  <2> HIDE DEF l
  <2>7. PairOk(r, F(i), F(k))
    BY <1>4, <1>7, <2>3, <2>4, <2>6, OrderIsTransitive
  <2> QED BY <2>2, <2>7
<1> QED BY <1>1, <1>6, <1>7

-----------------------------------------------------------------------------
(* The bank has seen the stream.                                           *)

Watched ==
  /\ Inv
  /\ \A r \in CountRules    : CountSeen(r, counts[r], stream, Len(stream))
  /\ \A r \in PresentRules  : PresentSeen(r, presents[r], stream, Len(stream))
  /\ \A r \in ForbidRules   : ForbidSeen(r, forbids[r], stream, Len(stream))
  /\ \A r \in OrderRules    : /\ OrderSeen(r, orders[r], stream, Len(stream))
                              /\ OrderFailed(r, orders[r])
  /\ \A r \in BeatRules     : BeatSeen(r, beats[r], stream, Len(stream))
  /\ \A r \in RelationRules :
       /\ SideSeen(relations[r].left, r.left, r.reduceLeft, stream, Len(stream))
       /\ SideSeen(relations[r].right, r.right, r.reduceRight, stream, Len(stream))

LEMMA WatchedInit == Init => Watched
<1> SUFFICES ASSUME Init PROVE Watched
  OBVIOUS
<1> USE DEF Init
<1>1. Inv
  BY InvInit
<1>2. Len(stream) = 0
  OBVIOUS
<1>3. \A r \in CountRules : CountSeen(r, counts[r], stream, 0)
  BY CountSeenStart, RuleAssumption
<1>4. \A r \in PresentRules : PresentSeen(r, presents[r], stream, 0)
  BY PresentSeenStart
<1>5. \A r \in ForbidRules : ForbidSeen(r, forbids[r], stream, 0)
  BY ForbidSeenStart
<1>6. \A r \in OrderRules : OrderSeen(r, orders[r], stream, 0) /\ OrderFailed(r, orders[r])
  BY OrderSeenStart DEF OrderFailed, OrderStart
<1>7. \A r \in BeatRules : BeatSeen(r, beats[r], stream, 0)
  BY BeatSeenStart, RuleAssumption
<1>8. ASSUME NEW r \in RelationRules
      PROVE  /\ SideSeen(relations[r].left, r.left, r.reduceLeft, stream, 0)
             /\ SideSeen(relations[r].right, r.right, r.reduceRight, stream, 0)
  <2>1. /\ relations[r].left = [got |-> 0, values |-> << >>]
        /\ relations[r].right = [got |-> 0, values |-> << >>]
    BY DEF RelationStart
  <2> QED BY <2>1, SideSeenStart
<1> QED
  BY <1>1, <1>2, <1>3, <1>4, <1>5, <1>6, <1>7, <1>8 DEF Watched

LEMMA WatchedFeed ==
  ASSUME Watched, NEW ev \in Stored, Feed(ev)
  PROVE  Watched'
<1> DEFINE n == Len(stream)
           t == Append(stream, ev)
<1>1. Inv /\ Inv'
  BY InvFeed DEF Watched
<1>2. stream \in Seq(Stored) /\ n \in Nat /\ stream' = t
  BY <1>1 DEF Inv, Feed
<1>3. /\ Len(t) = n + 1 /\ t[n + 1] = ev
      /\ \A i \in 1 .. n + 1 : t[i] \in Stored
      /\ Same(stream, t, n)
  BY <1>2 DEF Same
<1> HIDE DEF n, t
<1>4. \A r \in CountRules : CountSeen(r, counts'[r], t, n + 1)
  <2> TAKE r \in CountRules
  <2>1. counts'[r] = CountStep(r, counts[r], ev, n)
    BY DEF Feed, n
  <2>2. r \in CountRule /\ CountOk(r, counts[r], n) /\ CountSeen(r, counts[r], stream, n)
    BY RuleAssumption DEF Watched, Inv, n
  <2> QED BY <1>2, <1>3, <2>1, <2>2, CountSeenStep
<1>5. \A r \in PresentRules : PresentSeen(r, presents'[r], t, n + 1)
  <2> TAKE r \in PresentRules
  <2>1. presents'[r] = PresentStep(r, presents[r], ev, n)
    BY DEF Feed, n
  <2>2. presents[r] \in PresentMonitor /\ PresentSeen(r, presents[r], stream, n)
    BY DEF Watched, Inv, PresentOk, n
  <2> QED BY <1>2, <1>3, <2>1, <2>2, PresentSeenStep
<1>6. \A r \in ForbidRules : ForbidSeen(r, forbids'[r], t, n + 1)
  <2> TAKE r \in ForbidRules
  <2>1. forbids'[r] = ForbidStep(r, forbids[r], ev, n)
    BY DEF Feed, n
  <2>2. forbids[r] \in ForbidMonitor /\ ForbidSeen(r, forbids[r], stream, n)
    BY DEF Watched, Inv, ForbidOk, n
  <2> QED BY <1>2, <1>3, <2>1, <2>2, ForbidSeenStep
<1>7. \A r \in OrderRules : OrderSeen(r, orders'[r], t, n + 1) /\ OrderFailed(r, orders'[r])
  <2> TAKE r \in OrderRules
  <2>1. orders'[r] = OrderStep(r, orders[r], ev, n)
    BY DEF Feed, n
  <2>2. /\ orders[r] \in OrderMonitor(r) /\ OrderSeen(r, orders[r], stream, n)
        /\ OrderFailed(r, orders[r])
    BY DEF Watched, Inv, OrderOk, n
  <2>3. OrderFailed(r, orders'[r])
    BY <2>1, <2>2, OrderFailedStep
  <2>4. OrderSeen(r, orders'[r], t, n + 1)
    BY <1>2, <1>3, <2>1, <2>2, OrderSeenStep
  <2> QED BY <2>3, <2>4
<1>8. \A r \in BeatRules : BeatSeen(r, beats'[r], t, n + 1)
  <2> TAKE r \in BeatRules
  <2>1. beats'[r] = BeatStep(r, beats[r], ev, n)
    BY DEF Feed, n
  <2>2. r \in BeatRule /\ beats[r] \in BeatMonitor /\ BeatSeen(r, beats[r], stream, n)
    BY RuleAssumption DEF Watched, Inv, BeatOk, n
  <2> QED BY <1>2, <1>3, <2>1, <2>2, BeatSeenStep
<1>9. \A r \in RelationRules :
        /\ SideSeen(relations'[r].left, r.left, r.reduceLeft, t, n + 1)
        /\ SideSeen(relations'[r].right, r.right, r.reduceRight, t, n + 1)
  <2> TAKE r \in RelationRules
  <2> DEFINE left == Take(relations[r].left, r.left, r.reduceLeft, ev)
             right == Take(relations[r].right, r.right, r.reduceRight, ev)
  <2>1. relations'[r] = RelationStep(r, relations[r], ev, n)
    BY DEF Feed, n
  <2>2. /\ relations[r] \in RelationMonitor
        /\ SideSeen(relations[r].left, r.left, r.reduceLeft, stream, n)
        /\ SideSeen(relations[r].right, r.right, r.reduceRight, stream, n)
    BY DEF Watched, Inv, n
  <2>3. relations'[r].left = left /\ relations'[r].right = right
    BY <2>1, <2>2 DEF RelationStep, RelationMonitor
  <2>4. SideSeen(left, r.left, r.reduceLeft, t, n + 1)
    BY <1>2, <1>3, <2>2, SideSeenStep
  <2>5. SideSeen(right, r.right, r.reduceRight, t, n + 1)
    BY <1>2, <1>3, <2>2, SideSeenStep
  <2> QED BY <2>3, <2>4, <2>5
<1> QED
  BY <1>1, <1>2, <1>3, <1>4, <1>5, <1>6, <1>7, <1>8, <1>9 DEF Watched

LEMMA Watching == Spec => []Watched
<1>1. Watched /\ [Next]_vars => Watched'
  <2> SUFFICES ASSUME Watched, [Next]_vars PROVE Watched'
    OBVIOUS
  <2>1. CASE Next
    BY <2>1, WatchedFeed DEF Next
  <2>2. CASE UNCHANGED vars
    BY <2>2 DEF vars, Watched, Inv, Banks
  <2> QED BY <2>1, <2>2
<1> QED
  BY <1>1, WatchedInit, PTL DEF Spec

-----------------------------------------------------------------------------
(* What it has seen is what there was.                                     *)

LEMMA StreamWhole ==
  ASSUME stream \in Seq(Stored)
  PROVE  /\ \A match : At(match) = Matches(match, stream, Len(stream))
         /\ \A name : Beats(name) = BeatsOf(stream, name, Len(stream))
         /\ Timed = TimedIn(stream, Len(stream))
         /\ [k \in DOMAIN stream |-> stream[k].value] = Worth(stream, Len(stream))
<1>1. DOMAIN stream = 1 .. Len(stream)
  OBVIOUS
<1> QED BY <1>1 DEF At, Matches, Beats, BeatsOf, Timed, TimedIn, Worth

LEMMA LowestIs ==
  ASSUME NEW K \in SUBSET Int, NEW a \in K, \A j \in K : a <= j
  PROVE  Lowest(K) = a
<1>1. \A k \in K : (\A j \in K : k <= j) => k = a
  OBVIOUS
<1> QED BY <1>1 DEF Lowest

LEMMA HighestIs ==
  ASSUME NEW K \in SUBSET Int, NEW a \in K, \A j \in K : j <= a
  PROVE  Highest(K) = a
<1>1. \A k \in K : (\A j \in K : j <= k) => k = a
  OBVIOUS
<1> QED BY <1>1 DEF Highest

LEMMA TimesAreNumbers ==
  ASSUME stream \in Seq(Stored), NEW name, NEW k \in BeatsOf(stream, name, Len(stream))
  PROVE  k \in Int /\ stream[k] \in Stored /\ stream[k].time \in Int
<1>1. k \in 1 .. Len(stream) /\ stream[k].time # None
  BY DEF BeatsOf
<1> QED BY <1>1, EventAssumption DEF Event

LEMMA OrderIsBatch ==
  ASSUME stream \in Seq(Stored), NEW r \in OrderRule, NEW m \in OrderMonitor(r),
         OrderSeen(r, m, stream, Len(stream))
  PROVE  OrderPassed(r, m) <=> BatchOrder(r)
<1> DEFINE f == m.firsts
<1>1. \A x \in Names(r) : FirstSeen(f[x], stream, Beats(x))
  BY StreamWhole DEF OrderSeen
<1>2. Missing(r, f) = {} <=> \A x \in Names(r) : Beats(x) # {}
  BY <1>1 DEF FirstSeen, Missing
<1>3. CASE \E x \in Names(r) : Beats(x) = {}
  BY <1>2, <1>3 DEF OrderPassed, BatchOrder
<1>4. CASE \A x \in Names(r) : Beats(x) # {}
  <2>1. ASSUME NEW x \in Names(r)
        PROVE  /\ f[x] = stream[Lowest(Beats(x))] /\ f[x].time \in Int
               /\ f[x] # None
    <3>1. PICK k \in Beats(x) : (\A j \in Beats(x) : k <= j) /\ f[x] = stream[k]
      BY <1>1, <1>4, <2>1 DEF FirstSeen
    <3>2. \A j \in Beats(x) : j \in Int /\ stream[j].time \in Int
      BY StreamWhole, TimesAreNumbers
    <3>3. Lowest(Beats(x)) = k
      <4>1. Beats(x) \in SUBSET Int
        BY <3>2
      <4> QED BY <3>1, <4>1, LowestIs
    <3>4. f[x] # None
      BY <1>1, <1>4, <2>1 DEF FirstSeen
    <3> QED BY <3>1, <3>2, <3>3, <3>4
  <2> DEFINE B(i) == stream[Lowest(Beats(r.seq[i]))]
  <2>2. \A i \in DOMAIN r.seq : /\ f[r.seq[i]] = B(i) /\ B(i).time \in Int
                                /\ f[r.seq[i]] # None
    BY <2>1 DEF Names
  <2> HIDE DEF B, f
  <2>3. OrderedSoFar(r, f) <=> \A i, j \in DOMAIN r.seq : j = i + 1 => PairOk(r, B(i), B(j))
    BY <2>1, <2>2, AllCompared
  <2>4. r.within \in Nat \cup {None}
    BY DEF OrderRule
  <2>5. ~ GapsExceeded(r, f) <=>
          \A i, j \in DOMAIN r.seq :
            j = i + 1 => (r.within # None => B(j).time - B(i).time <= r.within)
    <3>1. ASSUME NEW i \in DOMAIN r.seq, NEW j \in DOMAIN r.seq, r.within # None
          PROVE  ~ (f[r.seq[j]].time - f[r.seq[i]].time > r.within) <=>
                   B(j).time - B(i).time <= r.within
      BY <2>2, <2>4, <3>1
    <3>2. ~ GapsExceeded(r, f) <=>
            \A i, j \in DOMAIN r.seq :
              j = i + 1 => (r.within # None => ~ (f[r.seq[j]].time - f[r.seq[i]].time > r.within))
      BY <2>2 DEF GapsExceeded
    <3> QED BY <3>1, <3>2
  <2>6. BatchOrder(r) <=>
          \A i, j \in DOMAIN r.seq : j = i + 1 =>
            PairOk(r, B(i), B(j)) /\ (r.within # None => B(j).time - B(i).time <= r.within)
    BY <1>4 DEF BatchOrder, B
  <2> QED BY <1>2, <1>4, <2>3, <2>5, <2>6 DEF OrderPassed, f
<1> QED BY <1>3, <1>4

LEMMA BeatIsBatch ==
  ASSUME stream \in Seq(Stored), NEW r \in BeatRule, NEW m \in BeatMonitor,
         BeatSeen(r, m, stream, Len(stream))
  PROVE  BeatPassed(r, m) <=> BatchBeat(r)
<1> DEFINE K == Beats(r.name)
           T == Timed
<1>1. /\ m.beats > 0 <=> K # {}
      /\ Ends(m, stream, K)
      /\ m.gap <= r.every <=> Steady(r, stream, K)
      /\ r.edges => Spanned(m, stream, T)
  BY StreamWhole DEF BeatSeen
<1>2. \A k \in K : k \in Int /\ stream[k].time \in Int
  BY StreamWhole, TimesAreNumbers
<1>3. K \subseteq T
  BY DEF Beats, Timed
<1>4. r.every \in Int
  BY DEF BeatRule
<1>8. \A k \in T : stream[k].time \in Int
  <2> TAKE k \in T
  <2>1. k \in 1 .. Len(stream) /\ stream[k].time # None
    BY StreamWhole DEF TimedIn
  <2> QED BY <2>1, EventAssumption DEF Event
<1>5. BatchBeat(r) <=>
        /\ K # {}
        /\ Steady(r, stream, K)
        /\ r.edges => \A k \in T : /\ stream[Lowest(K)].time - stream[k].time <= r.every
                                   /\ stream[k].time - stream[Highest(K)].time <= r.every
  BY DEF BatchBeat, Steady, Adjacent
<1> HIDE DEF K, T
<1>6. CASE K = {}
  BY <1>1, <1>5, <1>6 DEF BeatPassed
<1>7. CASE K # {}
  <2>1. PICK a \in K, z \in K : /\ \A j \in K : a <= j /\ j <= z
                                /\ m.first = stream[a].time /\ m.last = stream[z].time
    BY <1>1, <1>7 DEF Ends
  <2>2. Lowest(K) = a /\ Highest(K) = z
    <3>1. K \in SUBSET Int
      BY <1>2
    <3> QED BY <2>1, <3>1, LowestIs, HighestIs
  <2>3. m.first \in Int /\ m.last \in Int
    BY <1>2, <2>1
  <2>4. ASSUME r.edges
        PROVE  m.first - m.low <= r.every /\ m.high - m.last <= r.every <=>
                 \A k \in T : /\ m.first - stream[k].time <= r.every
                              /\ stream[k].time - m.last <= r.every
    <3>1. /\ m.low \in Int /\ m.high \in Int
          /\ \A k \in T : m.low <= stream[k].time /\ stream[k].time <= m.high
          /\ \E k \in T : m.low = stream[k].time
          /\ \E k \in T : m.high = stream[k].time
      BY <1>1, <1>3, <1>7, <2>4 DEF Spanned
    <3>2. ASSUME m.first - m.low <= r.every, m.high - m.last <= r.every, NEW k \in T
          PROVE  m.first - stream[k].time <= r.every /\ stream[k].time - m.last <= r.every
      BY <1>4, <1>8, <2>3, <3>1, <3>2
    <3>3. ASSUME \A k \in T : /\ m.first - stream[k].time <= r.every
                              /\ stream[k].time - m.last <= r.every
          PROVE  m.first - m.low <= r.every /\ m.high - m.last <= r.every
      BY <3>1, <3>3
    <3> QED BY <3>2, <3>3
  <2> QED BY <1>1, <1>5, <1>7, <2>1, <2>2, <2>4 DEF BeatPassed
<1> QED BY <1>6, <1>7

LEMMA ReductionIsBatch ==
  ASSUME stream \in Seq(Stored), NEW side, NEW match,
         NEW reduce \in {"sum", "min", "max", "last", "count"},
         SideSeen(side, match, reduce, stream, Len(stream))
  PROVE  Reduced(reduce, side) = BatchReduced(reduce, match)
<1> DEFINE K == {k \in At(match) : stream[k].value # None}
           values == side.values
<1>1. At(match) = Matches(match, stream, Len(stream))
  BY StreamWhole
<1>2. K = Valued(match, stream, Len(stream))
  BY <1>1 DEF Valued
<1>3. side.got = Cardinality(At(match))
  BY <1>1 DEF SideSeen
<1>4. reduce # "count" =>
        /\ values = << >> <=> K = {}
        /\ Told(values) = Worths(stream, K)
        /\ Total(values) = SumOf([k \in DOMAIN stream |-> stream[k].value], K)
        /\ K # {} => \E z \in K : /\ \A j \in K : j <= z
                                  /\ values[Len(values)] = stream[z].value
  BY <1>2, StreamWhole DEF SideSeen
<1>5. K \in SUBSET Int
  BY <1>1 DEF Matches
<1> HIDE DEF K, values
<1>6. CASE reduce = "count"
  BY <1>3, <1>6 DEF Reduced, BatchReduced
<1>7. CASE reduce # "count" /\ K = {}
  BY <1>4, <1>7 DEF Reduced, BatchReduced, K, values
<1>8. CASE reduce # "count" /\ K # {}
  <2>1. values # << >>
    BY <1>4, <1>8
  <2>2. Reduced(reduce, side) =
          CASE reduce = "sum"  -> Total(values)
            [] reduce = "min"  -> Lowest(Told(values))
            [] reduce = "max"  -> Highest(Told(values))
            [] reduce = "last" -> values[Len(values)]
    BY <1>8, <2>1 DEF Reduced, Lowest, Highest, Told, values
  <2>3. BatchReduced(reduce, match) =
          CASE reduce = "sum"  -> SumOf([k \in DOMAIN stream |-> stream[k].value], K)
            [] reduce = "min"  -> Lowest(Worths(stream, K))
            [] reduce = "max"  -> Highest(Worths(stream, K))
            [] reduce = "last" -> stream[Highest(K)].value
    BY <1>8 DEF BatchReduced, Worths, K
  <2>4. values[Len(values)] = stream[Highest(K)].value
    <3>1. PICK z \in K : (\A j \in K : j <= z) /\ values[Len(values)] = stream[z].value
      BY <1>4, <1>8
    <3> QED BY <1>5, <3>1, HighestIs
  <2> QED BY <1>4, <1>8, <2>2, <2>3, <2>4
<1> QED BY <1>6, <1>7, <1>8

LEMMA WatchedCollapses == Watched => CollapseIsBatch
<1> SUFFICES ASSUME Watched PROVE CollapseIsBatch
  OBVIOUS
<1>1. Inv /\ stream \in Seq(Stored)
  BY DEF Watched, Inv
<1>2. ASSUME NEW r \in CountRules
      PROVE  CountPassed(r, counts[r]) <=> CountHolds(r, Cardinality(At(r.match)))
  <2>1. counts[r].got = Cardinality(At(r.match))
    BY <1>1, StreamWhole DEF Watched, CountSeen, Counted
  <2> QED BY <2>1 DEF CountPassed
<1>3. ASSUME NEW r \in PresentRules
      PROVE  PresentPassed(r, presents[r]) <=> \A x \in r.matchers : At(x) # {}
  <2>1. presents[r].hit = {x \in r.matchers : At(x) # {}}
    BY <1>1, StreamWhole DEF Watched, PresentSeen
  <2> QED BY <2>1 DEF PresentPassed
<1>4. ASSUME NEW r \in ForbidRules
      PROVE  ForbidPassed(r, forbids[r]) <=>
               At(r.match \ r.fine) = {} /\ (r.evidence => At(r.match) # {})
  <2>1. /\ forbids[r].got > 0 <=> At(r.match) # {}
        /\ forbids[r].offenders > 0 <=> At(r.match \ r.fine) # {}
        /\ forbids[r].got \in Nat /\ forbids[r].offenders \in Nat
    BY <1>1, StreamWhole DEF Watched, ForbidSeen, Inv, ForbidOk, ForbidMonitor
  <2> QED BY <2>1 DEF ForbidPassed
<1>5. \A r \in OrderRules : OrderPassed(r, orders[r]) <=> BatchOrder(r)
  BY <1>1, RuleAssumption, OrderIsBatch DEF Watched, Inv, OrderOk
<1>6. \A r \in BeatRules : BeatPassed(r, beats[r]) <=> BatchBeat(r)
  BY <1>1, RuleAssumption, BeatIsBatch DEF Watched, Inv, BeatOk
<1>7. ASSUME NEW r \in RelationRules
      PROVE  /\ Reduced(r.reduceLeft, relations[r].left) = BatchReduced(r.reduceLeft, r.left)
             /\ Reduced(r.reduceRight, relations[r].right) = BatchReduced(r.reduceRight, r.right)
  <2>1. /\ r.reduceLeft \in {"sum", "min", "max", "last", "count"}
        /\ r.reduceRight \in {"sum", "min", "max", "last", "count"}
    BY RuleAssumption DEF RelationRule
  <2>2. /\ SideSeen(relations[r].left, r.left, r.reduceLeft, stream, Len(stream))
        /\ SideSeen(relations[r].right, r.right, r.reduceRight, stream, Len(stream))
    BY DEF Watched
  <2> QED BY <1>1, <2>1, <2>2, ReductionIsBatch
<1> QED BY <1>2, <1>3, <1>4, <1>5, <1>6, <1>7 DEF CollapseIsBatch

LEMMA WatchedCommits == Watched => CommitsAtOnce
<1> SUFFICES ASSUME Watched, NEW r \in CountRules, Settles(r)
    PROVE  IF Inevitable(r, Len(stream)) = "pend" THEN counts[r].verdict = "pend"
           ELSE LET k == CHOOSE k \in 0 .. Len(stream) :
                           /\ Inevitable(r, k) # "pend"
                           /\ \A j \in 0 .. k - 1 : Inevitable(r, j) = "pend"
                IN counts[r].verdict = Inevitable(r, k) /\ counts[r].at = k - 1
  BY DEF CommitsAtOnce
<1>1. /\ r \in CountRule /\ stream \in Seq(Stored)
      /\ CountOk(r, counts[r], Len(stream))
      /\ CountSeen(r, counts[r], stream, Len(stream))
  BY RuleAssumption DEF Watched, Inv
<1> QED BY <1>1, SeenCommits

LEMMA WatchedInverts == Watched => ComparableInversionIsFinal
<1> SUFFICES ASSUME Watched, NEW r \in OrderRules, Comparable(r), orders[r].verdict = "viol"
    PROVE  ~ OrderPassed(r, orders[r])
  BY DEF ComparableInversionIsFinal
<1>1. /\ r \in OrderRule /\ stream \in Seq(Stored)
      /\ OrderSeen(r, orders[r], stream, Len(stream))
      /\ Broken(r, orders[r].firsts)
  BY RuleAssumption DEF Watched, Inv, OrderFailed
<1>2. ASSUME NEW x \in Names(r), orders[r].firsts[x] # None
      PROVE  orders[r].firsts[x] \in Stored /\ orders[r].firsts[x].time \in Int
  <2>1. PICK k \in BeatsOf(stream, x, Len(stream)) : orders[r].firsts[x] = stream[k]
    BY <1>1, <1>2 DEF OrderSeen, FirstSeen
  <2> QED BY <1>1, <2>1, TimesAreNumbers
<1> QED BY <1>1, <1>2, BrokenIsFinal

\* Whatever is fed and in whatever order, the collapse of every automaton is the verdict of
\* its check told over the whole stream, and every reduction is of all the values there were:
\* a step by step evaluation misses nothing and counts nothing twice.
THEOREM CollapsesToBatch == Spec => []CollapseIsBatch
<1>1. Watched => CollapseIsBatch
  BY WatchedCollapses
<1> QED
  BY <1>1, Watching, PTL

\* A count of which the code promises it (Settles: no "!=", no "==" with a fractional target,
\* and of the verdicts inevitable before the first event only those of ">=") settles at the
\* event that makes its verdict inevitable, no earlier and no later, and says that this was
\* the event.
THEOREM CountsCommitAtOnce == Spec => []CommitsAtOnce
<1>1. Watched => CommitsAtOnce
  BY WatchedCommits
<1> QED
  BY <1>1, Watching, PTL

\* Where one authority compares all names of an order, two first occurrences out of order
\* fail it for good, whatever occurs between them later.
THEOREM InversionsAreFinal == Spec => []ComparableInversionIsFinal
<1>1. Watched => ComparableInversionIsFinal
  BY WatchedInverts
<1> QED
  BY <1>1, Watching, PTL
=============================================================================
