------------------------------ MODULE GateProofs ------------------------------
(***************************************************************************)
(* Theorems about Gate, GateStrength, Trajectory and MutationReport, for   *)
(* every gate, every spec, every set of rules, every store and every       *)
(* stream of tool calls: a green that a poll settled on stays green in     *)
(* every later read (SettledGreenStays), checks without authority decide   *)
(* nothing (AuthorityDecides), a spec is not eased in silence              *)
(* (EasingIsNoticed), calls are matched as well as their mode can          *)
(* (CallsAreMatched), a mutant that must turn its gate red does            *)
(* (MutantsDie), and a report passes its audit over no other stream than   *)
(* its own (AcceptedIsOfThisStream).                                       *)
(*                                                                         *)
(* The first two rest on what an automaton has seen when it has been run   *)
(* over a list of events (RunKept): how many events a count matched and    *)
(* which matchers were hit, and that whoever has evidence was about an     *)
(* event of the list.  A list with one more event, wherever it is put, has *)
(* no fewer matches; and only counts and presences settle a gate.          *)
(*                                                                         *)
(* Matching rests on what the table of the ordered mode holds and what     *)
(* the greedy mode has claimed so far, the mutants on what is in the list  *)
(* of a gate's derived rows, the audit on the inductive invariant          *)
(* ReportTaken: a report was made of its gate over calls that had arrived. *)
(***************************************************************************)
EXTENDS GateAudit, Induction, SequenceTheorems

-----------------------------------------------------------------------------
(* The automaton of a check, event by event.                               *)

\* The state of the automaton after each of the first N events of s.
Running(c, s, f, N) ==
  f = [n \in 0 .. N |-> IF n = 0 THEN StartOf(c) ELSE StepOf(c, f[n - 1], s[n])]

LEMMA RunsExist ==
  ASSUME NEW c, NEW s, NEW N \in Nat
  PROVE  \E f : Running(c, s, f, N)
<1> DEFINE G(n, f) == IF n = 0 THEN StartOf(c) ELSE StepOf(c, f[n - 1], s[n])
           T == {m \in Nat : ~ \E f : Running(c, s, f, m)}
<1>1. SUFFICES ASSUME T # {} PROVE FALSE
  OBVIOUS
<1>2. PICK m \in T : \A k \in T : m <= k
  BY <1>1, LeastNatural
<1>3. CASE m = 0
  <2> DEFINE f == [n \in 0 .. 0 |-> StartOf(c)]
  <2>1. f = [n \in 0 .. 0 |-> G(n, f)]
    OBVIOUS
  <2>2. Running(c, s, f, 0)
    BY <2>1 DEF Running
  <2> QED BY <1>2, <1>3, <2>2
<1>4. CASE m # 0
  <2>1. m \in Nat /\ m - 1 \in Nat /\ m - 1 \notin T
    BY <1>2, <1>4
  <2>2. PICK g : g = [n \in 0 .. m - 1 |-> G(n, g)]
    BY <2>1 DEF Running
  <2> DEFINE f == [n \in 0 .. m |-> IF n < m THEN g[n] ELSE G(m, g)]
  <2>3. ASSUME NEW n \in 0 .. m PROVE f[n] = G(n, f)
    <3>1. n = 0 \/ (n - 1 \in 0 .. m - 1 /\ n - 1 \in 0 .. m /\ n - 1 < m)
      BY <2>1
    <3>2. n # 0 => f[n - 1] = g[n - 1]
      BY <3>1
    <3>3. G(n, f) = G(n, g)
      BY <3>2
    <3>4. CASE n < m
      <4>1. n \in 0 .. m - 1
        BY <2>1, <3>4
      <4>2. g[n] = G(n, g)
        <5> HIDE DEF G
        <5> QED BY <2>2, <4>1
      <4>3. f[n] = g[n]
        BY <3>4
      <4> QED BY <3>3, <4>2, <4>3
    <3>5. CASE n = m
      BY <3>3, <3>5
    <3> QED BY <2>1, <3>4, <3>5
  <2>4. f = [n \in 0 .. m |-> f[n]]
    OBVIOUS
  <2>5. f = [n \in 0 .. m |-> G(n, f)]
    <3> HIDE DEF f, G
    <3> QED BY <2>3, <2>4
  <2>6. Running(c, s, f, m)
    BY <2>5 DEF Running
  <2> QED BY <1>2, <2>6
<1> QED BY <1>3, <1>4

LEMMA RunIsRunning ==
  ASSUME NEW c, NEW s, Len(s) \in Nat
  PROVE  \E f : /\ f[0] = StartOf(c)
                /\ \A n \in 1 .. Len(s) : f[n] = StepOf(c, f[n - 1], s[n])
                /\ RunOver(c, s) = f[Len(s)]
<1> DEFINE f == CHOOSE f : Running(c, s, f, Len(s))
<1>1. RunOver(c, s) = f[Len(s)]
  BY DEF RunOver, Running
<1>2. Running(c, s, f, Len(s))
  BY RunsExist
<1> HIDE DEF f
<1>3. f[0] = StartOf(c) /\ \A n \in 1 .. Len(s) : f[n] = StepOf(c, f[n - 1], s[n])
  BY <1>2 DEF Running
<1> QED BY <1>1, <1>3

-----------------------------------------------------------------------------
(* What each kind of automaton has seen of the first n events of s.        *)

CountKept(r, m, s, n) ==
  /\ m \in CountMonitor
  /\ m.got = Cardinality(Matches(r.match, s, n))
  /\ m.verdict = "sat" => r.op \in {">=", ">"} /\ CountHolds(r, m.got)
  /\ r.op \in {">=", ">"} => m.verdict # "viol"
  /\ r.op \in {">=", ">"} /\ ~ Tautological(r) /\ CountHolds(r, m.got) => m.verdict = "sat"

PresentKept(r, m, s, n) ==
  /\ m \in PresentMonitor
  /\ m.hit = {x \in r.matchers : Matches(x, s, n) # {}}
  /\ m.verdict = "sat" => m.hit = r.matchers
  /\ m.verdict # "viol"
  /\ r.matchers # {} /\ m.hit = r.matchers => m.verdict = "sat"

ForbidKept(r, m, s, n) ==
  /\ m \in ForbidMonitor
  /\ m.verdict # "sat"
  /\ m.got > 0 \/ m.offenders > 0 => Matches(r.match, s, n) # {}

OrderKept(r, m, s, n) ==
  /\ DOMAIN m = {"verdict", "at", "firsts"}
  /\ DOMAIN m.firsts = Names(r)
  /\ \A x \in Names(r) : m.firsts[x] # None => \E i \in 1 .. n : s[i].name = x

BeatKept(r, m, s, n) ==
  /\ DOMAIN m = {"verdict", "at", "beats", "gap", "first", "last", "low", "high"}
  /\ m.verdict \in {"pend", "viol"} /\ m.beats \in Nat
  /\ m.beats > 0 => \E i \in 1 .. n : s[i].name = r.name

SideKept(side, match, s, n) ==
  /\ DOMAIN side = {"got", "values"}
  /\ side.got \in Nat
  /\ side.got > 0 \/ side.values # << >> => Matches(match, s, n) # {}

RelationKept(r, m, s, n) ==
  /\ DOMAIN m = {"verdict", "at", "left", "right"}
  /\ m.verdict = "pend"
  /\ SideKept(m.left, r.left, s, n)
  /\ SideKept(m.right, r.right, s, n)

LEMMA CountStartsKept ==
  ASSUME NEW r \in CountRule, NEW s
  PROVE  CountKept(r, CountStart(r), s, 0)
<1>1. Cardinality(Matches(r.match, s, 0)) = 0
  BY MatchesNext, FS_EmptySet
<1>2. r.op \in Op /\ r.twice \in Int
  BY DEF CountRule
<1> QED
  BY <1>1, <1>2
  DEF CountKept, CountStart, CountMonitor, CountHolds, Holds, Verdict, Op, Tautological

\* A count that has settled stays settled, since no later match undoes it.
LEMMA CountStepsKept ==
  ASSUME NEW r \in CountRule, NEW m, NEW s, NEW n \in Nat, CountKept(r, m, s, n)
  PROVE  CountKept(r, CountStep(r, m, s[n + 1], 0), s, n + 1)
<1>1. r.op \in Op /\ r.twice \in Int
  BY DEF CountRule
<1>2. /\ m \in CountMonitor /\ m.got \in Nat /\ m.verdict \in Verdict /\ m.at \in Int \cup {None}
      /\ m.got = Cardinality(Matches(r.match, s, n))
      /\ m.verdict = "sat" => r.op \in {">=", ">"} /\ CountHolds(r, m.got)
      /\ r.op \in {">=", ">"} => m.verdict # "viol"
      /\ r.op \in {">=", ">"} /\ ~ Tautological(r) /\ CountHolds(r, m.got) => m.verdict = "sat"
  BY DEF CountKept, CountMonitor
<1>3. CASE s[n + 1] \notin r.match
  <2>1. CountStep(r, m, s[n + 1], 0) = m
    BY <1>3 DEF CountStep
  <2>2. Matches(r.match, s, n + 1) = Matches(r.match, s, n)
    BY <1>3, MatchesNext
  <2> QED BY <1>2, <2>1, <2>2 DEF CountKept
<1>4. CASE s[n + 1] \in r.match
  <2> DEFINE got == m.got + 1
             v == CountVerdict(r, got)
             settles == m.verdict = "pend" /\ v # "pend"
             c == [m EXCEPT !.got = got]
             d == IF settles THEN [c EXCEPT !.verdict = v, !.at = 0] ELSE c
  <2>1. Cardinality(Matches(r.match, s, n + 1)) = got
    BY <1>2, <1>4, MatchesNext
  <2>2. got \in Nat /\ v \in Verdict
    BY <1>2 DEF CountVerdict, Verdict
  <2>3. c \in CountMonitor /\ c.got = got /\ c.verdict = m.verdict /\ c.at = m.at
    BY <1>2, <2>2 DEF CountMonitor
  <2>4. CountStep(r, m, s[n + 1], 0) = d
    BY <1>4, <2>3 DEF CountStep, Latch
  <2>5. /\ v = "sat" => r.op \in {">=", ">"} /\ CountHolds(r, got)
        /\ v = "viol" => r.op \notin {">=", ">"}
        /\ r.op \in {">=", ">"} /\ CountHolds(r, got) => v = "sat"
    BY DEF CountVerdict
  <2>6. r.op \in {">=", ">"} /\ CountHolds(r, m.got) => CountHolds(r, got)
    BY <1>1, <1>2 DEF CountHolds, Holds
  <2> HIDE DEF v, c, got
  <2>7. /\ d \in CountMonitor /\ d.got = got
        /\ d.verdict = IF settles THEN v ELSE m.verdict
    <3>1. 0 \in Int \cup {None}
      OBVIOUS
    <3> QED BY <2>2, <2>3, <3>1 DEF CountMonitor
  <2> HIDE DEF d
  <2>8. d.verdict = "sat" => r.op \in {">=", ">"} /\ CountHolds(r, got)
    BY <1>2, <2>5, <2>6, <2>7
  <2>9. r.op \in {">=", ">"} => d.verdict # "viol"
    BY <1>2, <2>5, <2>7
  <2>10. r.op \in {">=", ">"} /\ CountHolds(r, got) => d.verdict = "sat"
    BY <1>2, <2>5, <2>7 DEF Verdict
  <2> QED BY <2>1, <2>4, <2>7, <2>8, <2>9, <2>10 DEF CountKept
<1> QED BY <1>3, <1>4

LEMMA PresentStartsKept ==
  ASSUME NEW r \in PresentRule, NEW s
  PROVE  PresentKept(r, PresentStart(r), s, 0)
<1>1. \A x \in r.matchers : Matches(x, s, 0) = {}
  BY MatchesNext
<1> QED BY <1>1 DEF PresentKept, PresentStart, PresentMonitor, Verdict, PresentRule

LEMMA PresentStepsKept ==
  ASSUME NEW r \in PresentRule, NEW m, NEW s, NEW n \in Nat, PresentKept(r, m, s, n)
  PROVE  PresentKept(r, PresentStep(r, m, s[n + 1], 0), s, n + 1)
<1> DEFINE hit == m.hit \cup {x \in r.matchers : s[n + 1] \in x}
           v == IF hit = r.matchers THEN "sat" ELSE "pend"
           settles == m.verdict = "pend" /\ v # "pend"
           c == [m EXCEPT !.hit = hit]
           d == IF settles THEN [c EXCEPT !.verdict = v, !.at = 0] ELSE c
<1>1. /\ m \in PresentMonitor /\ m.verdict \in Verdict /\ m.at \in Int \cup {None}
      /\ m.hit = {x \in r.matchers : Matches(x, s, n) # {}}
      /\ m.verdict = "sat" => m.hit = r.matchers
      /\ m.verdict # "viol"
      /\ r.matchers # {} /\ m.hit = r.matchers => m.verdict = "sat"
  BY DEF PresentKept, PresentMonitor
<1>2. hit = {x \in r.matchers : Matches(x, s, n + 1) # {}}
  <2>1. \A x \in r.matchers :
          Matches(x, s, n + 1) # {} <=> Matches(x, s, n) # {} \/ s[n + 1] \in x
    BY DEF Matches
  <2> QED BY <1>1, <2>1
<1>3. hit \subseteq r.matchers /\ m.hit \subseteq hit /\ hit \in SUBSET SUBSET Stored
  BY <1>1 DEF PresentRule
<1>4. c \in PresentMonitor /\ c.hit = hit /\ c.verdict = m.verdict /\ c.at = m.at
  BY <1>1, <1>3 DEF PresentMonitor
<1>5. PresentStep(r, m, s[n + 1], 0) = d
  BY <1>4 DEF PresentStep, Latch
<1>6. v \in Verdict /\ (v = "sat" <=> hit = r.matchers) /\ v # "viol"
  BY DEF Verdict
<1> HIDE DEF hit, v, c
<1>7. d \in PresentMonitor /\ d.hit = hit /\ d.verdict = IF settles THEN v ELSE m.verdict
  <2>1. 0 \in Int \cup {None}
    OBVIOUS
  <2> QED BY <1>4, <1>6, <2>1 DEF PresentMonitor
<1> HIDE DEF d
<1> QED BY <1>1, <1>2, <1>3, <1>5, <1>6, <1>7 DEF PresentKept, Verdict

LEMMA ForbidStepsKept ==
  ASSUME NEW r, NEW m, NEW s, NEW n \in Nat, ForbidKept(r, m, s, n)
  PROVE  ForbidKept(r, ForbidStep(r, m, s[n + 1], 0), s, n + 1)
<1>1. m \in ForbidMonitor /\ m.verdict \in Verdict /\ m.got \in Nat /\ m.offenders \in Nat
  BY DEF ForbidKept, ForbidMonitor
<1>2. CASE s[n + 1] \notin r.match
  <2>1. ForbidStep(r, m, s[n + 1], 0) = m
    BY <1>2 DEF ForbidStep
  <2>2. Matches(r.match, s, n + 1) = Matches(r.match, s, n)
    BY <1>2, MatchesNext
  <2> QED BY <2>1, <2>2 DEF ForbidKept
<1>3. CASE s[n + 1] \in r.match
  <2> DEFINE e == ForbidStep(r, m, s[n + 1], 0)
  <2>1. Matches(r.match, s, n + 1) # {}
    BY <1>3, MatchesNext
  <2>2. e \in ForbidMonitor /\ e.verdict # "sat"
    <3> DEFINE got == m.got + 1
               offenders == m.offenders + 1
               c == [m EXCEPT !.got = got]
               d == [m EXCEPT !.got = got, !.offenders = offenders]
    <3>1. got \in Nat /\ offenders \in Nat
      BY <1>1
    <3> HIDE DEF got, offenders
    <3>2. c \in ForbidMonitor /\ c.verdict = m.verdict
      BY <1>1, <3>1 DEF ForbidMonitor
    <3>3. d \in ForbidMonitor /\ d.verdict = m.verdict
      BY <1>1, <3>1 DEF ForbidMonitor
    <3>4. e = IF s[n + 1] \in r.fine THEN c ELSE Latch(d, "viol", 0)
      BY <1>1, <1>3 DEF ForbidStep, ForbidMonitor, got, offenders
    <3> HIDE DEF c, d, e
    <3>5. 0 \in Int \cup {None}
      OBVIOUS
    <3>6. Latch(d, "viol", 0) \in ForbidMonitor /\ Latch(d, "viol", 0).verdict # "sat"
      BY <3>3, <3>5 DEF Latch, ForbidMonitor, ForbidKept, Verdict
    <3> QED BY <3>2, <3>4, <3>6 DEF ForbidKept
  <2> HIDE DEF e
  <2> QED BY <2>1, <2>2 DEF ForbidKept, e
<1> QED BY <1>2, <1>3

LEMMA OrderStepsKept ==
  ASSUME NEW r, NEW m, NEW s, NEW n \in Nat, OrderKept(r, m, s, n)
  PROVE  OrderKept(r, OrderStep(r, m, s[n + 1], 0), s, n + 1)
<1> DEFINE ev == s[n + 1]
<1>1. /\ DOMAIN m = {"verdict", "at", "firsts"} /\ DOMAIN m.firsts = Names(r)
      /\ \A x \in Names(r) : m.firsts[x] # None => \E i \in 1 .. n : s[i].name = x
      /\ 1 .. n \subseteq 1 .. n + 1 /\ n + 1 \in 1 .. n + 1
  BY DEF OrderKept
<1>2. CASE ev.name \notin Names(r) \/ ev.time = None
  <2>1. OrderStep(r, m, ev, 0) = m
    BY <1>2 DEF OrderStep
  <2> QED BY <1>1, <2>1 DEF OrderKept
<1>3. CASE ~ (ev.name \notin Names(r) \/ ev.time = None)
  <2> DEFINE firsts == Occurred(r, m.firsts, ev)
             c == [m EXCEPT !.firsts = firsts]
  <2>1. DOMAIN firsts = Names(r)
    BY <1>1 DEF Occurred
  <2>6. \A x \in Names(r) : x # ev.name => firsts[x] = m.firsts[x]
    BY <1>1 DEF Occurred
  <2>2. OrderStep(r, m, ev, 0) = Latch(c, OrderVerdict(r, firsts), 0)
    BY <1>3 DEF OrderStep
  <2> HIDE DEF firsts
  <2>3. DOMAIN c = {"verdict", "at", "firsts"} /\ c.firsts = firsts
    BY <1>1
  <2> HIDE DEF c
  <2>4. /\ DOMAIN OrderStep(r, m, ev, 0) = {"verdict", "at", "firsts"}
        /\ OrderStep(r, m, ev, 0).firsts = firsts
    BY <2>2, <2>3 DEF Latch
  <2>5. \A x \in Names(r) : firsts[x] # None => \E i \in 1 .. n + 1 : s[i].name = x
    <3> TAKE x \in Names(r)
    <3> HAVE firsts[x] # None
    <3>1. CASE x = ev.name
      BY <1>1, <3>1
    <3>2. CASE x # ev.name
      BY <1>1, <2>6, <3>2
    <3> QED BY <3>1, <3>2
  <2> HIDE DEF ev
  <2> QED BY <2>1, <2>4, <2>5 DEF OrderKept, ev
<1> QED BY <1>2, <1>3

LEMMA BeatStepsKept ==
  ASSUME NEW r, NEW m, NEW s, NEW n \in Nat, BeatKept(r, m, s, n)
  PROVE  BeatKept(r, BeatStep(r, m, s[n + 1], 0), s, n + 1)
<1> DEFINE ev == s[n + 1]
           Fields == {"verdict", "at", "beats", "gap", "first", "last", "low", "high"}
           p == Span(r, m, ev)
<1>1. /\ DOMAIN m = Fields /\ m.verdict \in {"pend", "viol"} /\ m.beats \in Nat
      /\ m.beats > 0 => \E i \in 1 .. n : s[i].name = r.name
      /\ 1 .. n \subseteq 1 .. n + 1 /\ n + 1 \in 1 .. n + 1
  BY DEF BeatKept
<1>2. DOMAIN p = Fields /\ p.verdict = m.verdict /\ p.beats = m.beats
  BY <1>1 DEF Span
<1> HIDE DEF p
<1>3. CASE ~ (ev.name = r.name /\ ev.time # None)
  <2>1. BeatStep(r, m, ev, 0) = p
    BY <1>3 DEF BeatStep, p
  <2> QED BY <1>1, <1>2, <2>1 DEF BeatKept
<1>4. CASE ev.name = r.name /\ ev.time # None
  <2> DEFINE gap == IF p.last = None THEN 0 ELSE ev.time - p.last
             first == IF p.first = None THEN ev.time ELSE p.first
             widest == IF gap > p.gap THEN gap ELSE p.gap
             beats == p.beats + 1
             c == [p EXCEPT !.beats = beats, !.first = first, !.last = ev.time, !.gap = widest]
             v == IF gap > r.every THEN "viol" ELSE "pend"
  <2>1. BeatStep(r, m, ev, 0) = Latch(c, v, 0)
    BY <1>2, <1>4 DEF BeatStep, Beat, p
  <2>2. beats \in Nat /\ v \in {"pend", "viol"}
    BY <1>1, <1>2
  <2> HIDE DEF gap, first, widest, beats, v
  <2>3. DOMAIN c = Fields /\ c.verdict = m.verdict /\ c.beats = beats
    BY <1>2
  <2> HIDE DEF c
  <2>4. /\ DOMAIN Latch(c, v, 0) = Fields
        /\ Latch(c, v, 0).verdict \in {"pend", "viol"} /\ Latch(c, v, 0).beats = beats
    BY <1>1, <2>2, <2>3 DEF Latch
  <2>5. \E i \in 1 .. n + 1 : s[i].name = r.name
    BY <1>1, <1>4
  <2> QED BY <2>1, <2>2, <2>4, <2>5 DEF BeatKept
<1> QED BY <1>3, <1>4

LEMMA TakingKept ==
  ASSUME NEW side, NEW match, NEW reduce, NEW s, NEW n \in Nat, SideKept(side, match, s, n)
  PROVE  SideKept(Take(side, match, reduce, s[n + 1]), match, s, n + 1)
<1>1. CASE s[n + 1] \notin match
  <2>1. Take(side, match, reduce, s[n + 1]) = side
    BY <1>1 DEF Take
  <2>2. Matches(match, s, n + 1) = Matches(match, s, n)
    BY <1>1, MatchesNext
  <2> QED BY <2>1, <2>2 DEF SideKept
<1>2. CASE s[n + 1] \in match
  <2> DEFINE values == IF reduce # "count" /\ s[n + 1].value # None
                       THEN Append(side.values, s[n + 1].value) ELSE side.values
             e == [got |-> side.got + 1, values |-> values]
  <2>1. Take(side, match, reduce, s[n + 1]) = e
    BY <1>2 DEF Take
  <2>2. Matches(match, s, n + 1) # {}
    BY <1>2, MatchesNext
  <2>3. side.got + 1 \in Nat
    BY DEF SideKept
  <2> HIDE DEF values
  <2> QED BY <2>1, <2>2, <2>3 DEF SideKept
<1> QED BY <1>1, <1>2

LEMMA RelationStepsKept ==
  ASSUME NEW r, NEW m, NEW s, NEW n \in Nat, RelationKept(r, m, s, n)
  PROVE  RelationKept(r, RelationStep(r, m, s[n + 1], 0), s, n + 1)
<1> DEFINE left == Take(m.left, r.left, r.reduceLeft, s[n + 1])
           right == Take(m.right, r.right, r.reduceRight, s[n + 1])
           e == [m EXCEPT !.left = left, !.right = right]
<1>1. SideKept(left, r.left, s, n + 1) /\ SideKept(right, r.right, s, n + 1)
  BY TakingKept DEF RelationKept
<1>2. RelationStep(r, m, s[n + 1], 0) = e
  BY DEF RelationStep, RelationKept
<1> HIDE DEF left, right
<1>3. /\ DOMAIN e = {"verdict", "at", "left", "right"}
      /\ e.verdict = "pend" /\ e.left = left /\ e.right = right
  BY DEF RelationKept
<1> HIDE DEF e
<1> QED BY <1>1, <1>2, <1>3 DEF RelationKept

-----------------------------------------------------------------------------
(* The automaton of a check.                                               *)

Forbidding == {"absent", "duration", "conforms"}
Relating   == {"ratioMetric", "invariant", "metamorphic"}

\* A check of a list that expand_rules yields.
IsCheck(c) ==
  /\ c.kind \in DOMAIN Kinds
  /\ c.rule \in Kinds[c.kind]

RunKept(c, m, s, n) ==
  /\ c.kind = "count"      => CountKept(c.rule, m, s, n)
  /\ c.kind = "present"    => PresentKept(c.rule, m, s, n)
  /\ c.kind \in Forbidding => ForbidKept(c.rule, m, s, n)
  /\ c.kind = "must_order" => OrderKept(c.rule, m, s, n)
  /\ c.kind = "heartbeat"  => BeatKept(c.rule, m, s, n)
  /\ c.kind \in Relating   => RelationKept(c.rule, m, s, n)
  /\ c.kind = "aggregate"  => SideKept(m, c.rule.match, s, n)

KindOf ==
  {"count", "present", "must_order", "heartbeat", "aggregate", "external"}
    \cup Forbidding \cup Relating

LEMMA KindsOfChecks ==
  ASSUME NEW c, IsCheck(c)
  PROVE  /\ c.kind \in KindOf
         /\ c.kind = "count" => c.rule \in CountRule
         /\ c.kind = "present" => c.rule \in PresentRule
         /\ c.kind = "present" => c.rule \in PresentRules
BY RuleAssumption DEF IsCheck, Kinds, KindOf, Forbidding, Relating

LEMMA RunStartsKept ==
  ASSUME NEW c, IsCheck(c), c.kind # "external", NEW s
  PROVE  RunKept(c, StartOf(c), s, 0)
<1>1. CASE c.kind = "count"
  BY <1>1, CountStartsKept, KindsOfChecks DEF RunKept, StartOf, Forbidding, Relating
<1>2. CASE c.kind = "present"
  BY <1>2, PresentStartsKept, KindsOfChecks DEF RunKept, StartOf, Forbidding, Relating
<1>3. CASE c.kind \in Forbidding
  <2>1. ForbidKept(c.rule, ForbidStart(c.rule), s, 0)
    BY DEF ForbidKept, ForbidStart, ForbidMonitor, Verdict
  <2> QED BY <1>3, <2>1 DEF RunKept, StartOf, Forbidding, Relating
<1>4. CASE c.kind = "must_order"
  <2>1. OrderKept(c.rule, OrderStart(c.rule), s, 0)
    BY DEF OrderKept, OrderStart
  <2> QED BY <1>4, <2>1 DEF RunKept, StartOf, Forbidding, Relating
<1>5. CASE c.kind = "heartbeat"
  <2>1. BeatKept(c.rule, BeatStart(c.rule), s, 0)
    BY DEF BeatKept, BeatStart
  <2> QED BY <1>5, <2>1 DEF RunKept, StartOf, Forbidding, Relating
<1>6. CASE c.kind \in Relating
  <2>1. RelationKept(c.rule, RelationStart(c.rule), s, 0)
    BY DEF RelationKept, RelationStart, SideKept
  <2> QED BY <1>6, <2>1 DEF RunKept, StartOf, Forbidding, Relating
<1>7. CASE c.kind = "aggregate"
  <2>1. SideKept(AggregateStart, c.rule.match, s, 0)
    BY DEF SideKept, AggregateStart
  <2> QED BY <1>7, <2>1 DEF RunKept, StartOf, Forbidding, Relating
<1> QED BY <1>1, <1>2, <1>3, <1>4, <1>5, <1>6, <1>7, KindsOfChecks DEF KindOf

LEMMA RunStepsKept ==
  ASSUME NEW c, IsCheck(c), c.kind # "external", NEW s, NEW m, NEW n \in Nat,
         RunKept(c, m, s, n)
  PROVE  RunKept(c, StepOf(c, m, s[n + 1]), s, n + 1)
<1>1. CASE c.kind = "count"
  <2>1. CountKept(c.rule, CountStep(c.rule, m, s[n + 1], 0), s, n + 1)
    BY <1>1, CountStepsKept, KindsOfChecks DEF RunKept
  <2> QED BY <1>1, <2>1 DEF RunKept, StepOf, Forbidding, Relating
<1>2. CASE c.kind = "present"
  <2>1. PresentKept(c.rule, PresentStep(c.rule, m, s[n + 1], 0), s, n + 1)
    BY <1>2, PresentStepsKept, KindsOfChecks DEF RunKept
  <2> QED BY <1>2, <2>1 DEF RunKept, StepOf, Forbidding, Relating
<1>3. CASE c.kind \in Forbidding
  <2>1. ForbidKept(c.rule, ForbidStep(c.rule, m, s[n + 1], 0), s, n + 1)
    BY <1>3, ForbidStepsKept DEF RunKept
  <2> QED BY <1>3, <2>1 DEF RunKept, StepOf, Forbidding, Relating
<1>4. CASE c.kind = "must_order"
  <2>1. OrderKept(c.rule, OrderStep(c.rule, m, s[n + 1], 0), s, n + 1)
    BY <1>4, OrderStepsKept DEF RunKept
  <2> QED BY <1>4, <2>1 DEF RunKept, StepOf, Forbidding, Relating
<1>5. CASE c.kind = "heartbeat"
  <2>1. BeatKept(c.rule, BeatStep(c.rule, m, s[n + 1], 0), s, n + 1)
    BY <1>5, BeatStepsKept DEF RunKept
  <2> QED BY <1>5, <2>1 DEF RunKept, StepOf, Forbidding, Relating
<1>6. CASE c.kind \in Relating
  <2>1. RelationKept(c.rule, RelationStep(c.rule, m, s[n + 1], 0), s, n + 1)
    BY <1>6, RelationStepsKept DEF RunKept
  <2> QED BY <1>6, <2>1 DEF RunKept, StepOf, Forbidding, Relating
<1>7. CASE c.kind = "aggregate"
  <2>1. SideKept(Take(m, c.rule.match, c.rule.fn, s[n + 1]), c.rule.match, s, n + 1)
    BY <1>7, TakingKept DEF RunKept
  <2> QED BY <1>7, <2>1 DEF RunKept, StepOf, Forbidding, Relating
<1> QED BY <1>1, <1>2, <1>3, <1>4, <1>5, <1>6, <1>7, KindsOfChecks DEF KindOf

\* What an automaton has seen when it has been run over s.
LEMMA RunIsKept ==
  ASSUME NEW c, IsCheck(c), c.kind # "external", NEW s, Len(s) \in Nat
  PROVE  RunKept(c, RunOver(c, s), s, Len(s))
<1>1. PICK f : /\ f[0] = StartOf(c)
               /\ \A n \in 1 .. Len(s) : f[n] = StepOf(c, f[n - 1], s[n])
               /\ RunOver(c, s) = f[Len(s)]
  BY RunIsRunning
<1> DEFINE T == {n \in 0 .. Len(s) : ~ RunKept(c, f[n], s, n)}
<1>2. ASSUME T # {} PROVE FALSE
  <2>1. PICK n \in T : \A k \in T : n <= k
    <3>1. T \in SUBSET Nat
      OBVIOUS
    <3> HIDE DEF T
    <3> QED BY <1>2, <3>1, LeastNatural
  <2>2. n # 0
    BY <1>1, <2>1, RunStartsKept
  <2>3. /\ n - 1 \in Nat /\ n \in 1 .. Len(s) /\ n - 1 \in 0 .. Len(s) /\ n - 1 \notin T
        /\ (n - 1) + 1 = n
    BY <2>1, <2>2
  <2>4. RunKept(c, f[n - 1], s, n - 1)
    BY <2>3
  <2>5. RunKept(c, StepOf(c, f[n - 1], s[n]), s, n)
    <3> DEFINE k == n - 1
    <3>1. k \in Nat /\ k + 1 = n /\ RunKept(c, f[k], s, k)
      BY <2>3, <2>4
    <3> HIDE DEF k
    <3>2. RunKept(c, StepOf(c, f[k], s[k + 1]), s, k + 1)
      BY <3>1, RunStepsKept
    <3> QED BY <3>1, <3>2 DEF k
  <2> QED BY <1>1, <2>1, <2>3, <2>5
<1> QED BY <1>1, <1>2

-----------------------------------------------------------------------------
(* A settled green.                                                        *)

\* s with ev put in after its first p events.
Inserted(s, p, ev) == SubSeq(s, 1, p) \o <<ev>> \o SubSeq(s, p + 1, Len(s))

\* Two sequences of one set, joined.
LEMMA JoinedTyped ==
  ASSUME NEW S, NEW h \in Seq(S), NEW b \in Seq(S)
  PROVE  /\ h \o b \in Seq(S) /\ Len(h \o b) = Len(h) + Len(b)
         /\ \A i \in 1 .. Len(h) : (h \o b)[i] = h[i]
         /\ \A i \in 1 .. Len(b) : (h \o b)[Len(h) + i] = b[i]
<1>1. h \o b \in Seq(S) /\ Len(h \o b) = Len(h) + Len(b)
  OBVIOUS
<1>2. \A i \in 1 .. Len(h) : (h \o b)[i] = h[i]
  OBVIOUS
<1>3. \A i \in 1 .. Len(b) : (h \o b)[Len(h) + i] = b[i]
  OBVIOUS
<1> QED BY <1>1, <1>2, <1>3

\* An event that is ingested moves others back, but loses none.
LEMMA NoneIsLost ==
  ASSUME NEW s \in Seq(Stored), NEW ev \in Stored, NEW p \in 0 .. Len(s)
  PROVE  /\ Inserted(s, p, ev) \in Seq(Stored)
         /\ Len(Inserted(s, p, ev)) = Len(s) + 1
         /\ \A i \in 1 .. Len(s) : Inserted(s, p, ev)[IF i <= p THEN i ELSE i + 1] = s[i]
<1> DEFINE a == SubSeq(s, 1, p)
           b == SubSeq(s, p + 1, Len(s))
<1>1. /\ Len(s) \in Nat /\ p \in Nat /\ p <= Len(s)
  OBVIOUS
<1>2. /\ a \in Seq(Stored) /\ Len(a) = p
      /\ \A i \in 1 .. p : a[i] = s[i]
  BY <1>1
<1>3. /\ b \in Seq(Stored) /\ Len(b) = Len(s) - p
      /\ \A i \in 1 .. Len(s) - p : b[i] = s[p + i]
  BY <1>1
<1> HIDE DEF a, b
<1>4. /\ a \o <<ev>> \in Seq(Stored) /\ Len(a \o <<ev>>) = p + 1
      /\ \A i \in 1 .. p : (a \o <<ev>>)[i] = s[i]
  BY <1>1, <1>2
<1> DEFINE h == a \o <<ev>>
<1> HIDE DEF h
<1>5. h \in Seq(Stored) /\ Len(h) = p + 1 /\ \A i \in 1 .. p : h[i] = s[i]
  BY <1>4 DEF h
<1>6. /\ h \o b \in Seq(Stored) /\ Len(h \o b) = Len(s) + 1
      /\ \A i \in 1 .. p : (h \o b)[i] = h[i]
      /\ \A i \in 1 .. Len(s) - p : (h \o b)[p + 1 + i] = b[i]
  <2>1. h \in Seq(Stored) /\ b \in Seq(Stored)
    BY <1>3, <1>5
  <2>2. /\ h \o b \in Seq(Stored) /\ Len(h \o b) = Len(h) + Len(b)
        /\ \A i \in 1 .. Len(h) : (h \o b)[i] = h[i]
        /\ \A i \in 1 .. Len(b) : (h \o b)[Len(h) + i] = b[i]
    BY <2>1, JoinedTyped
  <2>3. Len(h) + Len(b) = Len(s) + 1
    BY <1>1, <1>3, <1>5
  <2>4. \A i \in 1 .. p : i \in 1 .. Len(h)
    BY <1>1, <1>5
  <2> QED BY <1>3, <1>5, <2>2, <2>3, <2>4
<1>7. ASSUME NEW i \in 1 .. Len(s), ~ (i <= p) PROVE (h \o b)[i + 1] = s[i]
  <2> DEFINE k == i - p
  <2>1. k \in 1 .. Len(s) - p /\ p + 1 + k = i + 1 /\ p + k = i
    BY <1>1, <1>7
  <2> HIDE DEF k
  <2>2. (h \o b)[p + 1 + k] = b[k] /\ b[k] = s[p + k]
    BY <1>3, <1>6, <2>1
  <2> QED BY <2>1, <2>2
<1>8. ASSUME NEW i \in 1 .. Len(s), i <= p PROVE (h \o b)[i] = s[i]
  BY <1>1, <1>5, <1>6, <1>8
<1>9. Inserted(s, p, ev) = h \o b
  BY DEF Inserted, h, a, b
<1> QED BY <1>6, <1>7, <1>8, <1>9

\* Nor does it lose a match.
LEMMA MatchesStay ==
  ASSUME NEW s \in Seq(Stored), NEW ev \in Stored, NEW p \in 0 .. Len(s), NEW match
  PROVE  LET t == Inserted(s, p, ev)
         IN  /\ Matches(match, s, Len(s)) # {} => Matches(match, t, Len(t)) # {}
             /\ Cardinality(Matches(match, s, Len(s))) <= Cardinality(Matches(match, t, Len(t)))
<1> DEFINE t == Inserted(s, p, ev)
           M == Matches(match, s, Len(s))
           N == Matches(match, t, Len(t))
           f == [i \in M |-> IF i <= p THEN i ELSE i + 1]
<1>1. /\ Len(s) \in Nat /\ p \in Nat /\ Len(t) = Len(s) + 1
      /\ \A i \in 1 .. Len(s) : t[IF i <= p THEN i ELSE i + 1] = s[i]
  <2>1. Len(s) \in Nat /\ p \in Nat
    OBVIOUS
  <2>2. /\ Len(t) = Len(s) + 1
        /\ \A i \in 1 .. Len(s) : t[IF i <= p THEN i ELSE i + 1] = s[i]
    BY NoneIsLost, Zenon
  <2> QED BY <2>1, <2>2
<1> HIDE DEF t
<1>2. M \subseteq 1 .. Len(s) /\ M \subseteq Nat
  BY <1>1 DEF Matches
<1>3. ASSUME NEW i \in M PROVE f[i] \in N
  <2>1. f[i] \in 1 .. Len(t)
    BY <1>1, <1>2
  <2>2. s[i] \in match /\ t[f[i]] = s[i]
    BY <1>1, <1>2 DEF Matches
  <2> QED BY <2>1, <2>2 DEF Matches
<1>4. ASSUME NEW i \in M, NEW j \in M, f[i] = f[j] PROVE i = j
  BY <1>1, <1>2, <1>4
<1>5. f \in Injection(M, N)
  <2>1. f \in [M -> N]
    <3> HIDE DEF M, N
    <3> QED BY <1>3
  <2> HIDE DEF f, M, N
  <2> QED BY <1>4, <2>1 DEF Injection, IsInjective
<1>6. IsFiniteSet(N)
  <2>1. Len(t) \in Nat
    BY <1>1
  <2> QED BY <2>1, MatchesNext
<1>7. Cardinality(M) <= Cardinality(N)
  <2> HIDE DEF f, M, N
  <2> QED BY <1>5, <1>6, FS_Injection
<1> QED BY <1>3, <1>7 DEF t

\* Only counts and presences settle a check, and they pass over every list they have
\* settled on, with any event put in.
SettledOver(c, s) ==
  /\ c.kind \notin {"external", "aggregate", "must_order"}
  /\ RunOver(c, s).verdict = "sat"

PassedOver(c, s) ==
  \/ c.kind = "count" /\ CountPassed(c.rule, RunOver(c, s))
  \/ c.kind = "present" /\ PresentPassed(c.rule, RunOver(c, s))

LEMMA SettledPasses ==
  ASSUME NEW c, IsCheck(c), NEW s, Len(s) \in Nat, SettledOver(c, s)
  PROVE  PassedOver(c, s)
<1>1. c.kind # "external" /\ RunKept(c, RunOver(c, s), s, Len(s))
  BY RunIsKept DEF SettledOver
<1>2. c.kind \in {"count", "present"}
  BY <1>1, KindsOfChecks
  DEF RunKept, SettledOver, KindOf, ForbidKept, BeatKept, RelationKept, Forbidding, Relating
<1> QED
  BY <1>1, <1>2
  DEF RunKept, SettledOver, CountKept, PresentKept, PassedOver, CountPassed, PresentPassed

LEMMA SettledStays ==
  ASSUME NEW c, IsCheck(c), NEW s \in Seq(Stored), NEW ev \in Stored, NEW p \in 0 .. Len(s),
         SettledOver(c, s)
  PROVE  PassedOver(c, Inserted(s, p, ev))
<1> DEFINE t == Inserted(s, p, ev)
           m == RunOver(c, s)
           e == RunOver(c, t)
<1>1. t \in Seq(Stored) /\ Len(t) \in Nat /\ Len(s) \in Nat
  <2>1. t \in Seq(Stored)
    BY NoneIsLost
  <2> HIDE DEF t
  <2> QED BY <2>1
<1>2. \A match : /\ Matches(match, s, Len(s)) # {} => Matches(match, t, Len(t)) # {}
                 /\ Cardinality(Matches(match, s, Len(s)))
                      <= Cardinality(Matches(match, t, Len(t)))
  BY MatchesStay
<1> HIDE DEF t
<1>3. c.kind # "external" /\ RunKept(c, m, s, Len(s)) /\ RunKept(c, e, t, Len(t))
  BY <1>1, RunIsKept DEF SettledOver
<1>4. PassedOver(c, s)
  BY <1>1, SettledPasses
<1> HIDE DEF m, e
<1>5. CASE c.kind = "count"
  <2>1. /\ CountKept(c.rule, m, s, Len(s)) /\ CountKept(c.rule, e, t, Len(t))
        /\ m.verdict = "sat" /\ c.rule \in CountRule
    BY <1>3, <1>5, KindsOfChecks DEF RunKept, SettledOver, m
  <2>2. /\ c.rule.op \in {">=", ">"} /\ CountHolds(c.rule, m.got) /\ c.rule.twice \in Int
        /\ m.got \in Nat /\ e.got \in Nat
    BY <2>1 DEF CountKept, CountRule, CountMonitor
  <2>3. m.got <= e.got
    BY <1>2, <2>1 DEF CountKept
  <2>4. CountHolds(c.rule, e.got)
    <3> DEFINE x == m.got
               y == e.got
               z == c.rule.twice
    <3>1. x \in Nat /\ y \in Nat /\ z \in Int /\ x <= y
      BY <2>2, <2>3
    <3>2. CASE c.rule.op = ">="
      <4>1. 2 * x >= z
        BY <2>2, <3>2 DEF CountHolds, Holds
      <4> HIDE DEF x, y, z
      <4>2. 2 * y >= z
        BY <3>1, <4>1
      <4> QED BY <3>2, <4>2 DEF CountHolds, Holds, y, z
    <3>3. CASE c.rule.op = ">"
      <4>1. 2 * x > z
        BY <2>2, <3>3 DEF CountHolds, Holds
      <4> HIDE DEF x, y, z
      <4>2. 2 * y > z
        BY <3>1, <4>1
      <4> QED BY <3>3, <4>2 DEF CountHolds, Holds, y, z
    <3> QED BY <2>2, <3>2, <3>3
  <2> QED BY <1>5, <2>4 DEF PassedOver, CountPassed, e, t
<1>6. CASE c.kind = "present"
  <2>1. /\ PresentKept(c.rule, m, s, Len(s)) /\ PresentKept(c.rule, e, t, Len(t))
        /\ m.verdict = "sat"
    BY <1>3, <1>6 DEF RunKept, SettledOver, m
  <2>2. e.hit = c.rule.matchers
    BY <1>2, <2>1 DEF PresentKept
  <2> QED BY <1>6, <2>2 DEF PassedOver, PresentPassed, e, t
<1> QED BY <1>4, <1>5, <1>6 DEF PassedOver

LEMMA ChecksOfGates ==
  ASSUME NEW g \in Gates, NEW p \in CheckSet(g)
  PROVE  p[1] \in DOMAIN g.checks /\ p[2] = g.checks[p[1]] /\ IsCheck(p[2])
<1>1. PICK k \in DOMAIN g.checks : p = <<k, g.checks[k]>>
  BY DEF CheckSet
<1>2. IsCheck(g.checks[k])
  BY GateAssumption DEF IsCheck
<1> QED BY <1>1, <1>2

\* What the probes answer has no part in it.
LEMMA SettledCheckOver ==
  ASSUME NEW c
  PROVE  SettledCheck(c) <=> SettledOver(c, stream)
BY DEF SettledCheck, SettledOver, Run

LEMMA OverPasses ==
  ASSUME NEW c, PassedOver(c, stream), Readable
  PROVE  Passed(c)
BY DEF PassedOver, Passed, Holding, Run

LEMMA PlaceOfEvent ==
  ASSUME stream \in Seq(Stored), NEW ev
  PROVE  Cardinality({k \in DOMAIN stream : NotBefore(ev, stream[k])}) \in 0 .. Len(stream)
<1> DEFINE S == {k \in DOMAIN stream : NotBefore(ev, stream[k])}
           N == Len(stream)
<1>1. N \in Nat /\ N \in Int /\ 1 \in Int /\ S \in SUBSET (1 .. N)
  OBVIOUS
<1> HIDE DEF S, N
<1>2. IsFiniteSet(1 .. N) /\ Cardinality(1 .. N) = N
  BY <1>1, FS_Interval
<1>3. IsFiniteSet(S) /\ Cardinality(S) <= Cardinality(1 .. N)
  BY <1>1, <1>2, FS_Subset
<1>4. Cardinality(S) \in Nat
  BY <1>3, FS_CardinalityType
<1> QED BY <1>1, <1>2, <1>3, <1>4 DEF S, N

\* Each check with authority has settled, and passes over what is ingested next.
LEMMA GreenAfterStep ==
  ASSUME stream \in Seq(Stored), [Next]_vars, NEW g \in Gates, SettledGreen(g), Readable'
  PROVE  Ok(g)'
<1>1. ASSUME NEW p \in Gating(g)
      PROVE  /\ IsCheck(p[2]) /\ p[2].kind # "external" /\ SettledOver(p[2], stream)
             /\ PassedOver(p[2], stream)
  <2>1. p \in CheckSet(g) /\ SettledCheck(p[2])
    BY DEF SettledGreen, Settled, Settling, Gating
  <2>2. IsCheck(p[2]) /\ SettledOver(p[2], stream)
    BY <2>1, ChecksOfGates, SettledCheckOver
  <2>3. Len(stream) \in Nat
    OBVIOUS
  <2> QED BY <2>2, <2>3, SettledPasses DEF SettledOver
<1>2. Ok(g) /\ "signature" \notin g.policy
  BY DEF SettledGreen, Settled
<1>3. Suffices(g, Gating(g))
  <2>1. {p \in Gating(g) : Passed(p[2])} = Gating(g)
    BY <1>1, <1>2, OverPasses DEF Ok
  <2> QED BY <1>2, <2>1 DEF Ok, RequiredOk
<1>4. Corroborated(g) = {}
  BY <1>1 DEF Corroborated
<1>5. ASSUME NEW p \in Gating(g) PROVE PassedOver(p[2], stream')
  <2>1. CASE stream' = stream
    BY <1>1, <2>1
  <2>2. ASSUME NEW ev \in Stored, Ingest(ev) PROVE PassedOver(p[2], stream')
    <3> DEFINE n == Cardinality({k \in DOMAIN stream : NotBefore(ev, stream[k])})
    <3>1. n \in 0 .. Len(stream)
      BY PlaceOfEvent
    <3>2. stream' = Inserted(stream, n, ev)
      BY <2>2 DEF Ingest, Inserted
    <3> HIDE DEF n
    <3> QED BY <1>1, <3>1, <3>2, SettledStays
  <2> QED BY <2>1, <2>2 DEF Next, Read, vars
<1>6. \A p \in Gating(g) : Passed(p[2])'
  BY <1>5 DEF PassedOver, Passed, Holding, Run
<1>7. RequiredOk(g)'
  <2>1. {p \in Gating(g) : Passed(p[2])'} = Gating(g)
    BY <1>6
  <2> QED BY <1>3, <2>1 DEF RequiredOk
<1> QED BY <1>2, <1>4, <1>7 DEF Ok

LEMMA StreamTyped == Spec => [](stream \in Seq(Stored))
<1>1. Init => stream \in Seq(Stored)
  BY DEF Init
<1>2. stream \in Seq(Stored) /\ [Next]_vars => (stream \in Seq(Stored))'
  <2> SUFFICES ASSUME stream \in Seq(Stored), [Next]_vars PROVE stream' \in Seq(Stored)
    OBVIOUS
  <2>1. ASSUME NEW ev \in Stored, Ingest(ev) PROVE stream' \in Seq(Stored)
    <3> DEFINE n == Cardinality({k \in DOMAIN stream : NotBefore(ev, stream[k])})
    <3>1. n \in 0 .. Len(stream)
      BY PlaceOfEvent
    <3> QED BY <2>1, <3>1, NoneIsLost DEF Ingest, Inserted
  <2> QED BY <2>1 DEF Next, Read, vars
<1> QED BY <1>1, <1>2, PTL DEF Spec

-----------------------------------------------------------------------------
(* What a gate has authority for.                                          *)

\* What grows and passes has settled.
LEMMA GrowingSettles ==
  ASSUME stream \in Seq(Stored), NEW g \in Gates,
         g.threshold = None, "signature" \notin g.policy,
         \A k \in DOMAIN g.checks : Growing(g.checks[k]), Ok(g)
  PROVE  SettledGreen(g)
<1>1. ASSUME NEW p \in Gating(g) PROVE SettledCheck(p[2])
  <2> DEFINE c == p[2]
             m == RunOver(c, stream)
  <2>1. p \in CheckSet(g) /\ Authoritative(c)
    BY DEF Gating
  <2>2. IsCheck(c) /\ Growing(c)
    BY <2>1, ChecksOfGates
  <2>3. Passed(c)
    BY DEF Ok, RequiredOk, Suffices
  <2> HIDE DEF c
  <2>4. \/ c.kind = "present" /\ c.rule.matchers # {}
        \/ c.kind = "count" /\ c.rule.op \in {">=", ">"} /\ ~ Tautological(c.rule)
    BY <2>1, <2>2 DEF Growing, Authoritative
  <2>5. Len(stream) \in Nat
    OBVIOUS
  <2>6. RunKept(c, m, stream, Len(stream))
    BY <2>2, <2>4, <2>5, RunIsKept
  <2> HIDE DEF m
  <2>7. m.verdict = "sat"
    <3>1. CASE c.kind = "present"
      <4>1. c.rule \in PresentRules /\ m.hit = c.rule.matchers
        BY <2>2, <2>3, <3>1, KindsOfChecks DEF Passed, Holding, PresentPassed, Run, m
      <4> QED BY <2>4, <2>6, <3>1, <4>1 DEF RunKept, PresentKept
    <3>2. CASE c.kind = "count"
      <4>1. CountHolds(c.rule, m.got)
        BY <2>3, <3>2 DEF Passed, Holding, CountPassed, Run, m
      <4> QED BY <2>4, <2>6, <3>2, <4>1 DEF RunKept, CountKept
    <3> QED BY <2>4, <3>1, <3>2
  <2> QED BY <2>4, <2>7 DEF SettledCheck, Run, m, c
<1> QED BY <1>1 DEF SettledGreen, Settled, Settling

\* Evidence is of an event that the check is about.
LEMMA EvidenceIsConcerned ==
  ASSUME stream \in Seq(Stored), NEW c, IsCheck(c), c.kind # "external",
         \/ Saw(c, Run(c))
         \/ c.kind \in {"invariant", "metamorphic"} /\ RelationPassed(c.rule, Run(c))
  PROVE  \E k \in DOMAIN stream : Concerns(c, stream[k])
<1> DEFINE m == Run(c)
           n == Len(stream)
<1>1. n \in Nat /\ DOMAIN stream = 1 .. n
  OBVIOUS
<1>2. RunKept(c, m, stream, n)
  BY <1>1, RunIsKept DEF Run
<1> HIDE DEF m, n
<1>3. CASE c.kind = "count"
  <2>1. CountKept(c.rule, m, stream, n) /\ m.got > 0
    BY <1>2, <1>3 DEF RunKept, Saw, m
  <2>2. m.got = Cardinality(Matches(c.rule.match, stream, n)) /\ m.got # 0
    BY <2>1 DEF CountKept
  <2>3. Matches(c.rule.match, stream, n) # {}
    BY <2>2, FS_EmptySet, Zenon
  <2> QED BY <1>1, <1>3, <2>3 DEF Matches, Concerns
<1>4. CASE c.kind = "present"
  <2>1. PresentKept(c.rule, m, stream, n) /\ m.hit # {}
    BY <1>2, <1>4 DEF RunKept, Saw, m
  <2>2. PICK x \in c.rule.matchers : Matches(x, stream, n) # {}
    BY <2>1 DEF PresentKept
  <2> QED BY <1>1, <1>4, <2>2 DEF Matches, Concerns
<1>5. CASE c.kind \in Forbidding
  <2>1. ForbidKept(c.rule, m, stream, n) /\ (m.got > 0 \/ m.offenders > 0)
    BY <1>2, <1>5 DEF RunKept, Saw, SawOffender, Forbidding, m
  <2>2. Matches(c.rule.match, stream, n) # {}
    BY <2>1 DEF ForbidKept
  <2> QED BY <1>1, <1>5, <2>2 DEF Matches, Concerns, Forbidding
<1>6. CASE c.kind = "must_order"
  <2>1. OrderKept(c.rule, m, stream, n) /\ \E x \in Names(c.rule) : m.firsts[x] # None
    BY <1>2, <1>6 DEF RunKept, Saw, m
  <2> QED BY <1>1, <1>6, <2>1 DEF OrderKept, Concerns
<1>7. CASE c.kind = "heartbeat"
  <2>1. BeatKept(c.rule, m, stream, n) /\ m.beats > 0
    BY <1>2, <1>7 DEF RunKept, Saw, m
  <2> QED BY <1>1, <1>7, <2>1 DEF BeatKept, Concerns
<1>8. CASE c.kind \in Relating
  <2>1. RelationKept(c.rule, m, stream, n) /\ (m.left.got > 0 \/ m.right.got > 0)
    <3>1. RelationKept(c.rule, m, stream, n) /\ m.left.got \in Nat /\ m.right.got \in Nat
      BY <1>2, <1>8 DEF RunKept, RelationKept, SideKept
    <3>2. CASE Saw(c, m)
      BY <1>8, <3>1, <3>2 DEF Saw, Relating
    <3>3. CASE RelationPassed(c.rule, m)
      BY <3>1, <3>3 DEF RelationPassed
    <3> QED BY <3>2, <3>3 DEF m
  <2>2. Matches(c.rule.left, stream, n) # {} \/ Matches(c.rule.right, stream, n) # {}
    BY <2>1 DEF RelationKept, SideKept
  <2> QED BY <1>1, <1>8, <2>2 DEF Matches, Concerns, Relating
<1>9. CASE c.kind = "aggregate"
  <2>1. SideKept(m, c.rule.match, stream, n) /\ m.values # << >>
    BY <1>2, <1>9 DEF RunKept, Saw, m
  <2>2. Matches(c.rule.match, stream, n) # {}
    BY <2>1 DEF SideKept
  <2> QED BY <1>1, <1>9, <2>2 DEF Matches, Concerns
<1> QED BY <1>3, <1>4, <1>5, <1>6, <1>7, <1>8, <1>9, KindsOfChecks DEF KindOf

LEMMA TiersHaveWitnesses ==
  ASSUME stream \in Seq(Stored)
  PROVE  TierHasWitness
<1> DEFINE Witness(p) ==
             \/ \E k \in DOMAIN stream : Concerns(p[2], stream[k])
             \/ p[2].kind = "external" /\ observed[p[2].rule] \in {"fails", "passes"}
<1> SUFFICES ASSUME NEW g \in Gates, EvidenceTier(g) \notin {"local_pass", "emitted"}
             PROVE  \E p \in Gating(g) : Witness(p)
  BY DEF TierHasWitness
<1>1. \A p \in Gating(g) : IsCheck(p[2])
  BY ChecksOfGates DEF Gating
<1>2. CASE Corroborated(g) # {}
  BY <1>2 DEF Corroborated
<1>3. CASE \E p \in Earning(g) : p[2].kind \in {"invariant", "metamorphic"}
  <2>1. PICK p \in Gating(g) : Passed(p[2]) /\ p[2].kind \in {"invariant", "metamorphic"}
    BY <1>3 DEF Earning
  <2>2. RelationPassed(p[2].rule, Run(p[2]))
    BY <2>1 DEF Passed, Holding
  <2>3. \E k \in DOMAIN stream : Concerns(p[2], stream[k])
    BY <1>1, <2>1, <2>2, EvidenceIsConcerned
  <2> QED BY <2>3
<1>4. CASE \E p \in Gating(g) : Charged(p[2])
  <2>1. PICK p \in Gating(g) : Charged(p[2])
    BY <1>4
  <2>2. CASE p[2].kind = "external"
    BY <2>1, <2>2 DEF Charged
  <2>3. CASE p[2].kind # "external"
    <3>1. Saw(p[2], Run(p[2]))
      BY <2>1, <2>3 DEF Charged
    <3>2. \E k \in DOMAIN stream : Concerns(p[2], stream[k])
      BY <1>1, <2>3, <3>1, EvidenceIsConcerned
    <3> QED BY <3>2
  <2> QED BY <2>2, <2>3
<1> QED BY <1>2, <1>3, <1>4 DEF EvidenceTier

-----------------------------------------------------------------------------
(* The gate without its optional, pending and tautological checks.         *)

\* The checks with authority among the first n of s.
Filtering(s, f, N) ==
  f = [n \in 0 .. N |->
         IF n = 0 THEN << >>
         ELSE IF Authoritative(s[n]) THEN Append(f[n - 1], s[n]) ELSE f[n - 1]]

LEMMA FiltersExist ==
  ASSUME NEW s, NEW N \in Nat
  PROVE  \E f : Filtering(s, f, N)
<1> DEFINE G(n, f) == IF n = 0 THEN << >>
                      ELSE IF Authoritative(s[n]) THEN Append(f[n - 1], s[n]) ELSE f[n - 1]
           T == {m \in Nat : ~ \E f : Filtering(s, f, m)}
<1>1. SUFFICES ASSUME T # {} PROVE FALSE
  OBVIOUS
<1>2. PICK m \in T : \A k \in T : m <= k
  BY <1>1, LeastNatural
<1>3. CASE m = 0
  <2> DEFINE f == [n \in 0 .. 0 |-> << >>]
  <2>1. f = [n \in 0 .. 0 |-> G(n, f)]
    OBVIOUS
  <2>2. Filtering(s, f, 0)
    BY <2>1 DEF Filtering
  <2> QED BY <1>2, <1>3, <2>2
<1>4. CASE m # 0
  <2>1. m \in Nat /\ m - 1 \in Nat /\ m - 1 \notin T
    BY <1>2, <1>4
  <2>2. PICK g : g = [n \in 0 .. m - 1 |-> G(n, g)]
    BY <2>1 DEF Filtering
  <2> DEFINE f == [n \in 0 .. m |-> IF n < m THEN g[n] ELSE G(m, g)]
  <2>3. ASSUME NEW n \in 0 .. m PROVE f[n] = G(n, f)
    <3>1. n = 0 \/ (n - 1 \in 0 .. m - 1 /\ n - 1 \in 0 .. m /\ n - 1 < m)
      BY <2>1
    <3>2. n # 0 => f[n - 1] = g[n - 1]
      BY <3>1
    <3>3. G(n, f) = G(n, g)
      BY <3>2
    <3>4. CASE n < m
      <4>1. n \in 0 .. m - 1
        BY <2>1, <3>4
      <4>2. g[n] = G(n, g)
        <5> HIDE DEF G
        <5> QED BY <2>2, <4>1
      <4>3. f[n] = g[n]
        BY <3>4
      <4> QED BY <3>3, <4>2, <4>3
    <3>5. CASE n = m
      BY <3>3, <3>5
    <3> QED BY <2>1, <3>4, <3>5
  <2>4. f = [n \in 0 .. m |-> f[n]]
    OBVIOUS
  <2>5. f = [n \in 0 .. m |-> G(n, f)]
    <3> HIDE DEF f, G
    <3> QED BY <2>3, <2>4
  <2>6. Filtering(s, f, m)
    BY <2>5 DEF Filtering
  <2> QED BY <1>2, <2>6
<1> QED BY <1>3, <1>4

\* b lists the checks of s that have authority, and f says how far it is after each of s.
Filtered(s, f) ==
  /\ f[0] = << >>
  /\ \A n \in 1 .. Len(s) :
       f[n] = IF Authoritative(s[n]) THEN Append(f[n - 1], s[n]) ELSE f[n - 1]
  /\ AuthoritativeOf(s) = f[Len(s)]

LEMMA FilterIsFiltered ==
  ASSUME NEW s, Len(s) \in Nat
  PROVE  \E f : Filtered(s, f)
<1> DEFINE f == CHOOSE f : Filtering(s, f, Len(s))
<1>1. AuthoritativeOf(s) = f[Len(s)]
  BY DEF AuthoritativeOf, Filtering
<1>2. Filtering(s, f, Len(s))
  BY FiltersExist
<1> HIDE DEF f
<1> DEFINE G(n) == IF n = 0 THEN << >>
                   ELSE IF Authoritative(s[n]) THEN Append(f[n - 1], s[n]) ELSE f[n - 1]
<1>3. \A n \in 0 .. Len(s) : f[n] = G(n)
  <2>1. f = [n \in 0 .. Len(s) |-> G(n)]
    BY <1>2 DEF Filtering
  <2> HIDE DEF G
  <2> QED BY <2>1
<1>4. f[0] = << >>
  BY <1>3
<1>5. \A n \in 1 .. Len(s) :
        f[n] = IF Authoritative(s[n]) THEN Append(f[n - 1], s[n]) ELSE f[n - 1]
  <2> TAKE n \in 1 .. Len(s)
  <2>1. n \in 0 .. Len(s) /\ n # 0
    OBVIOUS
  <2> QED BY <1>3, <2>1
<1> QED BY <1>1, <1>4, <1>5 DEF Filtered

FilterKept(s, S, f, n) ==
  /\ f[n] \in Seq(S)
  /\ \A j \in 1 .. Len(f[n]) : \E i \in 1 .. n : Authoritative(s[i]) /\ f[n][j] = s[i]
  /\ \A i \in 1 .. n : Authoritative(s[i]) => \E j \in 1 .. Len(f[n]) : f[n][j] = s[i]

LEMMA FilterKeeps ==
  ASSUME NEW S, NEW s \in Seq(S), NEW f, Filtered(s, f), NEW n \in 0 .. Len(s)
  PROVE  FilterKept(s, S, f, n)
<1> DEFINE T == {k \in 0 .. Len(s) : ~ FilterKept(s, S, f, k)}
<1>1. SUFFICES ASSUME T # {} PROVE FALSE
  OBVIOUS
<1>2. PICK k \in T : \A j \in T : k <= j
  <2>1. T \in SUBSET Nat
    OBVIOUS
  <2> HIDE DEF T
  <2> QED BY <1>1, <2>1, LeastNatural
<1>3. k # 0
  <2>1. f[0] = << >>
    BY DEF Filtered
  <2>2. FilterKept(s, S, f, 0)
    BY <2>1 DEF FilterKept
  <2> QED BY <1>2, <2>2
<1> DEFINE l == k - 1
<1>4. /\ l \in Nat /\ l + 1 = k /\ k \in 1 .. Len(s) /\ l \in 0 .. Len(s) /\ l \notin T
      /\ s[k] \in S
  BY <1>2, <1>3
<1>5. FilterKept(s, S, f, l)
  BY <1>4
<1>6. f[k] = IF Authoritative(s[k]) THEN Append(f[l], s[k]) ELSE f[l]
  BY <1>4 DEF Filtered
<1> HIDE DEF l
<1>7. FilterKept(s, S, f, k)
  <2> DEFINE a == f[l]
             b == f[k]
  <2>1. /\ a \in Seq(S) /\ Len(a) \in Nat
        /\ \A j \in 1 .. Len(a) : \E i \in 1 .. l : Authoritative(s[i]) /\ a[j] = s[i]
        /\ \A i \in 1 .. l : Authoritative(s[i]) => \E j \in 1 .. Len(a) : a[j] = s[i]
    BY <1>5 DEF FilterKept
  <2>2. 1 .. l \subseteq 1 .. k /\ k \in 1 .. k /\ \A i \in 1 .. k : i = k \/ i \in 1 .. l
    BY <1>4
  <2>3. b = IF Authoritative(s[k]) THEN Append(a, s[k]) ELSE a
    BY <1>6
  <2> HIDE DEF a, b
  <2>4. CASE Authoritative(s[k])
    <3>1. /\ b \in Seq(S) /\ Len(b) = Len(a) + 1 /\ b[Len(a) + 1] = s[k]
          /\ \A j \in 1 .. Len(a) : b[j] = a[j]
      BY <1>4, <2>1, <2>3, <2>4
    <3>2. \A j \in 1 .. Len(b) : j = Len(a) + 1 \/ j \in 1 .. Len(a)
      BY <2>1, <3>1
    <3>3. \A j \in 1 .. Len(b) : \E i \in 1 .. k : Authoritative(s[i]) /\ b[j] = s[i]
      <4> TAKE j \in 1 .. Len(b)
      <4>1. CASE j = Len(a) + 1
        <5>1. b[j] = s[k]
          BY <3>1, <4>1
        <5> QED BY <2>2, <2>4, <5>1
      <4>2. CASE j \in 1 .. Len(a)
        <5>1. PICK i \in 1 .. l : Authoritative(s[i]) /\ a[j] = s[i]
          BY <2>1, <4>2
        <5>2. i \in 1 .. k /\ b[j] = s[i]
          BY <2>2, <3>1, <4>2, <5>1
        <5> QED BY <5>1, <5>2
      <4> QED BY <3>2, <4>1, <4>2
    <3>4. Len(a) + 1 \in 1 .. Len(b) /\ 1 .. Len(a) \subseteq 1 .. Len(b)
      BY <2>1, <3>1
    <3>5. \A i \in 1 .. k : Authoritative(s[i]) => \E j \in 1 .. Len(b) : b[j] = s[i]
      BY <2>1, <2>2, <3>1, <3>4
    <3> QED BY <3>1, <3>3, <3>5 DEF FilterKept, b
  <2>5. CASE ~ Authoritative(s[k])
    <3>1. b = a
      BY <2>3, <2>5
    <3> QED BY <2>1, <2>2, <2>5, <3>1 DEF FilterKept, b
  <2> QED BY <2>4, <2>5
<1> QED BY <1>2, <1>7

\* After n checks the list is a beginning of the whole list.
Beginning(a, b) == Len(a) <= Len(b) /\ \A j \in 1 .. Len(a) : b[j] = a[j]

LEMMA FilterBegins ==
  ASSUME NEW S, NEW s \in Seq(S), NEW f, Filtered(s, f), NEW n \in 0 .. Len(s)
  PROVE  Beginning(f[n], AuthoritativeOf(s))
<1> DEFINE N == Len(s)
           b == AuthoritativeOf(s)
           T == {k \in 0 .. N : ~ Beginning(f[N - k], b)}
<1>1. N \in Nat /\ \A k \in 0 .. N : f[k] \in Seq(S)
  BY FilterKeeps DEF FilterKept
<1>2. T = {}
  <2> SUFFICES ASSUME T # {} PROVE FALSE
    OBVIOUS
  <2>1. PICK k \in T : \A j \in T : k <= j
    <3>1. T \in SUBSET Nat
      OBVIOUS
    <3> HIDE DEF T
    <3> QED BY <3>1, LeastNatural
  <2>2. k # 0
    <3>1. b = f[N]
      BY DEF Filtered
    <3>2. Beginning(f[N], b)
      BY <1>1, <3>1 DEF Beginning
    <3>3. N - 0 = N
      BY <1>1
    <3> QED BY <2>1, <3>2, <3>3
  <2> DEFINE m == N - k
             j == k - 1
  <2>3. /\ j \in 0 .. N /\ j < k /\ m \in 0 .. N /\ m + 1 \in 1 .. N
        /\ N - j = m + 1 /\ (m + 1) - 1 = m /\ m + 1 \in 0 .. N
    <3>1. N \in Nat /\ k \in 0 .. N /\ k # 0
      BY <1>1, <2>1, <2>2
    <3> HIDE DEF N
    <3> QED BY <3>1
  <2>9. j \notin T
    <3>1. k \in Nat /\ j \in Nat
      BY <2>1, <2>3
    <3> HIDE DEF j, T
    <3> QED BY <2>1, <2>3, <3>1
  <2>4. Beginning(f[m + 1], b)
    BY <2>3, <2>9
  <2>5. f[m + 1] = IF Authoritative(s[m + 1]) THEN Append(f[m], s[m + 1]) ELSE f[m]
    BY <2>3 DEF Filtered
  <2>6. f[m] \in Seq(S) /\ s[m + 1] \in S /\ f[m + 1] \in Seq(S) /\ b \in Seq(S)
    <3>1. b = f[N]
      BY DEF Filtered
    <3> QED BY <1>1, <2>3, <3>1
  <2> HIDE DEF b
  <2>7. Beginning(f[m], f[m + 1])
    <3> DEFINE a == f[m]
               e == s[m + 1]
    <3>1. a \in Seq(S) /\ e \in S
      BY <2>6
    <3>2. f[m + 1] = IF Authoritative(e) THEN Append(a, e) ELSE a
      BY <2>5
    <3> HIDE DEF a, e
    <3>3. Beginning(a, Append(a, e)) /\ Beginning(a, a)
      BY <3>1 DEF Beginning
    <3> QED BY <3>2, <3>3 DEF a
  <2>8. Beginning(f[m], b)
    <3> DEFINE a == f[m]
               c == f[m + 1]
    <3>1. Beginning(a, c) /\ Beginning(c, b) /\ Len(a) \in Nat /\ Len(b) \in Nat /\ Len(c) \in Nat
      BY <2>4, <2>6, <2>7
    <3> HIDE DEF a, c
    <3>2. Beginning(a, b)
      BY <3>1 DEF Beginning
    <3> QED BY <3>2 DEF a
  <2> QED BY <2>1, <2>8
<1>3. N - n \in 0 .. N /\ N - (N - n) = n
  BY <1>1
<1> HIDE DEF N, b
<1> QED BY <1>2, <1>3 DEF b

\* The weights of checks, where each is a number.
LEMMA WeightsTyped ==
  ASSUME NEW S, \A c \in S : c.weight \in Nat, NEW s \in Seq(S)
  PROVE  /\ Len(WeightOf(s)) = Len(s)
         /\ \A n \in 1 .. Len(s) : WeightOf(s)[n] = s[n].weight /\ s[n].weight \in Nat
<1>1. Len(s) \in Nat /\ DOMAIN s = 1 .. Len(s) /\ \A n \in 1 .. Len(s) : s[n] \in S
  OBVIOUS
<1>2. WeightOf(s) = [n \in 1 .. Len(s) |-> s[n].weight]
  BY <1>1 DEF WeightOf
<1>3. \A n \in 1 .. Len(s) : s[n].weight \in Nat
  BY <1>1
<1>4. WeightOf(s) \in Seq(Nat)
  BY <1>1, <1>2, <1>3
<1> QED BY <1>1, <1>2, <1>3, <1>4

\* Where the checks that are in Q are, and those of them that have authority.
PlacesOf(s, Q)  == {i \in 1 .. Len(s) : s[i] \in Q}
GatingAt(s, Q)  == {i \in 1 .. Len(s) : Authoritative(s[i]) /\ s[i] \in Q}

\* The checks with authority that are in Q weigh the same among all checks and on their own.
LEMMA WeightsAgree ==
  ASSUME NEW S, \A c \in S : c.weight \in Nat, NEW s \in Seq(S), NEW Q
  PROVE  SumOf(WeightOf(s), GatingAt(s, Q))
           = SumOf(WeightOf(AuthoritativeOf(s)), PlacesOf(AuthoritativeOf(s), Q))
<1> DEFINE b == AuthoritativeOf(s)
           N == Len(s)
           K == GatingAt(s, Q)
           J == PlacesOf(b, Q)
<1>1. N \in Nat
  OBVIOUS
<1>2. PICK f : Filtered(s, f)
  BY <1>1, FilterIsFiltered
<1>3. /\ f[0] = << >> /\ b = f[N]
      /\ \A n \in 1 .. N : f[n] = IF Authoritative(s[n]) THEN Append(f[n - 1], s[n]) ELSE f[n - 1]
  BY <1>2 DEF Filtered
<1>4. \A n \in 0 .. N : f[n] \in Seq(S) /\ Beginning(f[n], b)
  BY <1>2, FilterKeeps, FilterBegins DEF FilterKept
<1>5. b \in Seq(S) /\ Len(b) \in Nat
  BY <1>1, <1>3, <1>4
<1>6. Len(WeightOf(s)) = N /\ \A n \in 1 .. N : WeightOf(s)[n] = s[n].weight /\ s[n].weight \in Nat
  BY WeightsTyped
<1>7. Len(WeightOf(b)) = Len(b) /\ \A n \in 1 .. Len(b) : WeightOf(b)[n] = b[n].weight
  BY <1>5, WeightsTyped
<1>8. PICK u : Summed(WeightOf(s), K, u)
  BY <1>1, <1>6, SumIsSummed
<1>9. PICK v : Summed(WeightOf(b), J, v)
  BY <1>5, <1>7, SumIsSummed
<1>10. /\ u[0] = 0 /\ SumOf(WeightOf(s), K) = u[N]
       /\ \A n \in 1 .. N : u[n] = u[n - 1] + (IF n \in K THEN s[n].weight ELSE 0)
  BY <1>6, <1>8 DEF Summed
<1>11. /\ v[0] = 0 /\ SumOf(WeightOf(b), J) = v[Len(b)]
       /\ \A n \in 1 .. Len(b) : v[n] = v[n - 1] + (IF n \in J THEN b[n].weight ELSE 0)
  BY <1>7, <1>9 DEF Summed
<1>12. /\ \A i \in 1 .. N : i \in K <=> Authoritative(s[i]) /\ s[i] \in Q
       /\ \A j \in 1 .. Len(b) : j \in J <=> b[j] \in Q
  BY DEF GatingAt, PlacesOf
<1> DEFINE Agree(n) == u[n] \in Nat /\ v[Len(f[n])] = u[n]
           T == {n \in 0 .. N : ~ Agree(n)}
<1> HIDE DEF K, J, b
<1>13. T = {}
  <2> SUFFICES ASSUME T # {} PROVE FALSE
    OBVIOUS
  <2>1. PICK k \in T : \A j \in T : k <= j
    <3>1. T \in SUBSET Nat
      BY <1>1
    <3> HIDE DEF T
    <3> QED BY <3>1, LeastNatural
  <2>2. k # 0
    <3>1. Agree(0)
      BY <1>3, <1>10, <1>11
    <3> QED BY <2>1, <3>1
  <2> DEFINE l == k - 1
  <2>3. k \in 1 .. N /\ l \in 0 .. N /\ l < k /\ k \in 0 .. N
    <3>1. N \in Nat /\ k \in 0 .. N
      BY <1>1, <2>1
    <3> HIDE DEF N
    <3> QED BY <2>2, <3>1
  <2>4. l \notin T
    <3>1. l \in Nat /\ k \in Nat
      BY <2>3
    <3> HIDE DEF l, T
    <3> QED BY <2>1, <2>3, <3>1
  <2>5. u[l] \in Nat /\ v[Len(f[l])] = u[l]
    BY <2>3, <2>4
  <2>6. u[k] = u[l] + (IF k \in K THEN s[k].weight ELSE 0)
    BY <1>10, <2>3
  <2>7. f[k] = IF Authoritative(s[k]) THEN Append(f[l], s[k]) ELSE f[l]
    BY <1>3, <2>3
  <2>8. f[l] \in Seq(S) /\ Len(f[l]) \in Nat /\ s[k] \in S /\ s[k].weight \in Nat
    BY <1>4, <1>6, <2>3
  <2> HIDE DEF l, N
  <2>9. Agree(k)
    <3>1. CASE Authoritative(s[k])
      <4> DEFINE n == Len(f[l]) + 1
      <4>1. f[k] = Append(f[l], s[k])
        BY <2>7, <3>1
      <4>2. Len(f[k]) = n /\ f[k][n] = s[k]
        BY <2>8, <4>1
      <4>3. Len(f[k]) <= Len(b) /\ \A j \in 1 .. Len(f[k]) : b[j] = f[k][j]
        BY <1>4, <2>3 DEF Beginning
      <4>4. n \in 1 .. Len(b) /\ n \in 1 .. Len(f[k]) /\ n - 1 = Len(f[l])
        BY <1>5, <2>8, <4>2, <4>3
      <4>5. b[n] = s[k]
        BY <4>2, <4>3, <4>4
      <4>6. n \in J <=> k \in K
        BY <1>12, <2>3, <3>1, <4>4, <4>5
      <4>7. v[n] = v[n - 1] + (IF n \in J THEN b[n].weight ELSE 0)
        BY <1>11, <4>4
      <4>8. v[n] = u[k]
        BY <2>5, <2>6, <4>4, <4>5, <4>6, <4>7
      <4>9. u[k] \in Nat
        BY <2>5, <2>6, <2>8
      <4> QED BY <4>2, <4>8, <4>9
    <3>2. CASE ~ Authoritative(s[k])
      <4>1. f[k] = f[l] /\ k \notin K
        BY <1>12, <2>3, <2>7, <3>2
      <4>2. u[k] = u[l]
        BY <2>5, <2>6, <4>1
      <4> QED BY <2>5, <4>1, <4>2
    <3> QED BY <3>1, <3>2
  <2> QED BY <2>1, <2>9
<1>14. N \in 0 .. N
  BY <1>1
<1>15. v[Len(b)] = u[N]
  BY <1>3, <1>13, <1>14
<1>16. SumOf(WeightOf(s), K) = SumOf(WeightOf(b), J)
  BY <1>10, <1>11, <1>15
<1> QED BY <1>16 DEF K, J, b

ChecksOf(g) == {g.checks[k] : k \in DOMAIN g.checks}

\* All that the next lemmas ask of a gate.
Judgeable(g) ==
  /\ {"checks", "threshold", "policy"} \subseteq DOMAIN g
  /\ g.checks \in Seq(ChecksOf(g))
  /\ \A c \in ChecksOf(g) : c.weight \in Nat

LEMMA GatesAreJudgeable ==
  ASSUME NEW g \in Gates
  PROVE  Judgeable(g)
BY GateAssumption DEF Judgeable, ChecksOf

\* What is left of a gate are its checks with authority, and nothing else of it changes.
LEMMA BareGates ==
  ASSUME NEW g, Judgeable(g)
  PROVE  /\ Bare(g).checks = AuthoritativeOf(g.checks)
         /\ Bare(g).threshold = g.threshold /\ Bare(g).policy = g.policy
         /\ g.checks \in Seq(ChecksOf(g)) /\ Bare(g).checks \in Seq(ChecksOf(g))
         /\ \A c \in ChecksOf(g) : c.weight \in Nat
         /\ \A p \in Gating(g) : \E q \in CheckSet(Bare(g)) : q[2] = p[2]
         /\ \A q \in CheckSet(Bare(g)) : \E p \in Gating(g) : p[2] = q[2]
<1> DEFINE s == g.checks
           b == AuthoritativeOf(s)
           S == ChecksOf(g)
<1>1. /\ {"checks", "threshold", "policy"} \subseteq DOMAIN g
      /\ s \in Seq(S)
      /\ \A c \in S : c.weight \in Nat
  BY DEF Judgeable
<1>2. Bare(g) = [g EXCEPT !.checks = b]
  BY DEF Bare
<1>3. Bare(g).checks = b /\ Bare(g).threshold = g.threshold /\ Bare(g).policy = g.policy
  <2> HIDE DEF b
  <2> QED BY <1>1, <1>2
<1> HIDE DEF s, S
<1>4. Len(s) \in Nat /\ DOMAIN s = 1 .. Len(s)
  BY <1>1
<1>5. PICK f : Filtered(s, f)
  BY <1>4, FilterIsFiltered
<1>6. FilterKept(s, S, f, Len(s)) /\ f[Len(s)] = b
  BY <1>1, <1>4, <1>5, FilterKeeps DEF Filtered
<1>7. /\ b \in Seq(S)
      /\ \A j \in 1 .. Len(b) : \E i \in 1 .. Len(s) : Authoritative(s[i]) /\ b[j] = s[i]
      /\ \A i \in 1 .. Len(s) : Authoritative(s[i]) => \E j \in 1 .. Len(b) : b[j] = s[i]
  BY <1>6 DEF FilterKept
<1> HIDE DEF b
<1>8. DOMAIN b = 1 .. Len(b)
  BY <1>7
<1>9. ASSUME NEW p \in Gating(g) PROVE \E q \in CheckSet(Bare(g)) : q[2] = p[2]
  <2>1. PICK i \in 1 .. Len(s) : p = <<i, s[i]>> /\ Authoritative(s[i])
    BY <1>4 DEF Gating, CheckSet, s
  <2>2. PICK j \in 1 .. Len(b) : b[j] = s[i]
    BY <1>7, <2>1
  <2>3. <<j, b[j]>> \in CheckSet(Bare(g))
    BY <1>3, <1>8 DEF CheckSet
  <2> QED BY <2>1, <2>2, <2>3
<1>10. ASSUME NEW q \in CheckSet(Bare(g)) PROVE \E p \in Gating(g) : p[2] = q[2]
  <2>1. PICK j \in 1 .. Len(b) : q = <<j, b[j]>>
    BY <1>3, <1>8 DEF CheckSet
  <2>2. PICK i \in 1 .. Len(s) : Authoritative(s[i]) /\ b[j] = s[i]
    BY <1>7
  <2>3. <<i, s[i]>> \in Gating(g)
    BY <1>4, <2>2 DEF Gating, CheckSet, s
  <2> QED BY <2>1, <2>2, <2>3
<1> QED BY <1>1, <1>3, <1>7, <1>9, <1>10 DEF s, b, S

\* All of them have authority.
LEMMA BareGating ==
  ASSUME NEW g, Judgeable(g)
  PROVE  /\ Gating(Bare(g)) = CheckSet(Bare(g))
         /\ \A p \in Gating(g) : \E q \in Gating(Bare(g)) : q[2] = p[2]
         /\ \A q \in Gating(Bare(g)) : \E p \in Gating(g) : p[2] = q[2]
<1>1. \A p \in Gating(g) : Authoritative(p[2])
  BY DEF Gating
<1>2. \A q \in CheckSet(Bare(g)) : Authoritative(q[2])
  BY <1>1, BareGates
<1>3. Gating(Bare(g)) = CheckSet(Bare(g))
  BY <1>2 DEF Gating
<1> QED BY <1>3, BareGates

\* Those of them that are in Q weigh what those of the gate weigh.
LEMMA BareWeights ==
  ASSUME NEW g, Judgeable(g), NEW Q
  PROVE  Weight(g, {p \in Gating(g) : p[2] \in Q})
           = Weight(Bare(g), {q \in Gating(Bare(g)) : q[2] \in Q})
<1> DEFINE s == g.checks
           b == AuthoritativeOf(s)
           S == ChecksOf(g)
           P == {p \in Gating(g) : p[2] \in Q}
           R == {q \in Gating(Bare(g)) : q[2] \in Q}
<1>1. s \in Seq(S) /\ b \in Seq(S) /\ Bare(g).checks = b /\ \A c \in S : c.weight \in Nat
  BY BareGates
<1>2. SumOf(WeightOf(s), GatingAt(s, Q)) = SumOf(WeightOf(b), PlacesOf(b, Q))
  <2>1. s \in Seq(S) /\ \A c \in S : c.weight \in Nat
    BY <1>1
  <2> HIDE DEF s, S
  <2> QED BY <2>1, WeightsAgree
<1> HIDE DEF s, S
<1>3. DOMAIN s = 1 .. Len(s)
  BY <1>1
<1>4. DOMAIN b = 1 .. Len(b)
  <2> HIDE DEF b
  <2> QED BY <1>1
<1>5. Indices(P) = GatingAt(s, Q)
  <2>1. ASSUME NEW i \in Indices(P)
        PROVE  i \in 1 .. Len(s) /\ Authoritative(s[i]) /\ s[i] \in Q
    <3>1. PICK p \in Gating(g) : i = p[1] /\ p[2] \in Q
      BY DEF Indices
    <3>2. PICK k \in 1 .. Len(s) : p = <<k, s[k]>> /\ Authoritative(p[2])
      BY <1>3 DEF Gating, CheckSet, s
    <3> QED BY <3>1, <3>2
  <2>2. ASSUME NEW i \in 1 .. Len(s), Authoritative(s[i]), s[i] \in Q
        PROVE  i \in Indices(P)
    <3> DEFINE p == <<i, s[i]>>
    <3>1. p \in Gating(g) /\ p[1] = i /\ p[2] = s[i]
      BY <1>3, <2>2 DEF Gating, CheckSet, s
    <3> HIDE DEF p
    <3> QED BY <2>2, <3>1 DEF Indices
  <2> HIDE DEF P
  <2> QED BY <2>1, <2>2 DEF GatingAt
<1>6. Indices(R) = PlacesOf(b, Q)
  <2> HIDE DEF b
  <2>1. Gating(Bare(g)) = {<<j, b[j]>> : j \in 1 .. Len(b)}
    <3>1. CheckSet(Bare(g)) = {<<k, Bare(g).checks[k]>> : k \in DOMAIN Bare(g).checks}
      BY DEF CheckSet
    <3>2. CheckSet(Bare(g)) = {<<j, b[j]>> : j \in 1 .. Len(b)}
      BY <1>1, <1>4, <3>1
    <3>3. Gating(Bare(g)) = CheckSet(Bare(g))
      BY BareGating
    <3> QED BY <3>2, <3>3
  <2>2. ASSUME NEW i \in Indices(R)
        PROVE  i \in 1 .. Len(b) /\ b[i] \in Q
    <3>1. PICK q \in Gating(Bare(g)) : i = q[1] /\ q[2] \in Q
      BY DEF Indices
    <3>2. PICK j \in 1 .. Len(b) : q = <<j, b[j]>>
      BY <2>1
    <3> QED BY <3>1, <3>2
  <2>3. ASSUME NEW i \in 1 .. Len(b), b[i] \in Q
        PROVE  i \in Indices(R)
    <3> DEFINE q == <<i, b[i]>>
    <3>1. q \in Gating(Bare(g)) /\ q[1] = i /\ q[2] = b[i]
      BY <2>1
    <3> HIDE DEF q
    <3> QED BY <2>3, <3>1 DEF Indices
  <2> HIDE DEF R
  <2> QED BY <2>2, <2>3 DEF PlacesOf
<1> HIDE DEF b, P, R
<1>7. Weight(g, P) = Weight(Bare(g), R)
  BY <1>1, <1>2, <1>5, <1>6 DEF Weight, s
<1> QED BY <1>7 DEF P, R

\* So a gate is judged, and credited, as its checks with authority alone are.
LEMMA BareIsJudgedAlike ==
  ASSUME NEW g, Judgeable(g)
  PROVE  /\ Ok(g) <=> Ok(Bare(g))
         /\ EvidenceTier(g) = EvidenceTier(Bare(g))
<1> DEFINE b == Bare(g)
           S == ChecksOf(g)
<1>1. b.threshold = g.threshold /\ b.policy = g.policy
  BY BareGates
<1>2. \A p \in Gating(g) : \E q \in Gating(b) : q[2] = p[2]
  BY BareGating
<1>3. \A q \in Gating(b) : \E p \in Gating(g) : p[2] = q[2]
  BY BareGating
<1>4. \A Q : Weight(g, {p \in Gating(g) : p[2] \in Q}) = Weight(b, {q \in Gating(b) : q[2] \in Q})
  BY BareWeights
<1>5. \A p \in Gating(g) : p[2] \in S
  BY DEF Gating, CheckSet, ChecksOf
<1>6. \A q \in Gating(b) : q[2] \in S
  BY <1>3, <1>5
<1> HIDE DEF b, S
<1>7. Gating(g) = {} <=> Gating(b) = {}
  BY <1>2, <1>3
<1>8. Weight(g, Gating(g)) = Weight(b, Gating(b))
  <2>1. {p \in Gating(g) : p[2] \in S} = Gating(g) /\ {q \in Gating(b) : q[2] \in S} = Gating(b)
    BY <1>5, <1>6
  <2> QED BY <1>4, <2>1
<1> DEFINE P == {p \in Gating(g) : Passed(p[2])}
           R == {q \in Gating(b) : Passed(q[2])}
<1>9. Weight(g, P) = Weight(b, R)
  <2> DEFINE Q == {c \in S : Passed(c)}
  <2>1. {p \in Gating(g) : p[2] \in Q} = P
    BY <1>5
  <2>2. {q \in Gating(b) : q[2] \in Q} = R
    BY <1>6
  <2> HIDE DEF P, Q, R
  <2> QED BY <1>4, <2>1, <2>2
<1>10. P = Gating(g) <=> R = Gating(b)
  <2>1. P = Gating(g) <=> \A p \in Gating(g) : Passed(p[2])
    OBVIOUS
  <2>2. R = Gating(b) <=> \A q \in Gating(b) : Passed(q[2])
    OBVIOUS
  <2> HIDE DEF P, R
  <2> QED BY <1>2, <1>3, <2>1, <2>2
<1>11. RequiredOk(g) <=> RequiredOk(b)
  <2>1. (RequiredOk(g) <=> Suffices(g, P)) /\ (RequiredOk(b) <=> Suffices(b, R))
    BY DEF RequiredOk
  <2> HIDE DEF P, R
  <2> QED BY <1>1, <1>8, <1>9, <1>10, <2>1 DEF Suffices
<1>12. Raises(g) <=> Raises(b)
  BY <1>1, <1>8 DEF Raises
<1>13. Corroborated(g) = {} <=> Corroborated(b) = {}
  BY <1>2, <1>3 DEF Corroborated
<1>14. Ok(g) <=> Ok(b)
  BY <1>1, <1>7, <1>11, <1>12, <1>13 DEF Ok
<1>15. (\E p \in Earning(g) : p[2].kind \in {"invariant", "metamorphic"})
         <=> (\E q \in Earning(b) : q[2].kind \in {"invariant", "metamorphic"})
  BY <1>2, <1>3 DEF Earning
<1>16. (\E p \in Gating(g) : Charged(p[2])) <=> (\E q \in Gating(b) : Charged(q[2]))
  BY <1>2, <1>3
<1>17. EvidenceTier(g) = EvidenceTier(b)
  BY <1>7, <1>13, <1>15, <1>16 DEF EvidenceTier
<1> QED BY <1>14, <1>17 DEF b

LEMMA ObservationsWeighNothing == ObservationsDontGate
BY GatesAreJudgeable, BareIsJudgedAlike DEF ObservationsDontGate

-----------------------------------------------------------------------------
(* Edits of a spec that leave its checks with authority alone.             *)

\* Two lists of checks go on alike for M more: where one has a check with authority, so has
\* the other.
GoOnAlike(s, a, t, b, M) ==
  \A n \in 1 .. M :
    /\ Authoritative(s[a + n]) <=> Authoritative(t[b + n])
    /\ Authoritative(s[a + n]) => s[a + n] = t[b + n]

LEMMA FiltersGoOnAlike ==
  ASSUME NEW s, Len(s) \in Nat, NEW f, Filtered(s, f), NEW t, Len(t) \in Nat, NEW g, Filtered(t, g),
         NEW a \in Nat, NEW b \in Nat, NEW M \in Nat, a + M <= Len(s), b + M <= Len(t),
         f[a] = g[b], GoOnAlike(s, a, t, b, M)
  PROVE  f[a + M] = g[b + M]
<1> DEFINE T == {n \in 0 .. M : f[a + n] # g[b + n]}
<1>1. SUFFICES ASSUME T # {} PROVE FALSE
  <2>1. M \in 0 .. M
    OBVIOUS
  <2> QED BY <2>1
<1>2. PICK n \in T : \A k \in T : n <= k
  <2>1. T \in SUBSET Nat
    OBVIOUS
  <2> HIDE DEF T
  <2> QED BY <1>1, <2>1, LeastNatural
<1>3. n # 0
  BY <1>2
<1> DEFINE l == n - 1
<1>4. /\ n \in 1 .. M /\ l \in 0 .. M /\ l < n /\ l \in Nat /\ n \in Nat
      /\ a + n \in 1 .. Len(s) /\ b + n \in 1 .. Len(t)
      /\ (a + n) - 1 = a + l /\ (b + n) - 1 = b + l
  BY <1>2, <1>3
<1>5. l \notin T
  <2> HIDE DEF l, T
  <2> QED BY <1>2, <1>4
<1>6. f[a + l] = g[b + l]
  BY <1>4, <1>5
<1> HIDE DEF l
<1>7. /\ f[a + n] = IF Authoritative(s[a + n]) THEN Append(f[a + l], s[a + n]) ELSE f[a + l]
      /\ g[b + n] = IF Authoritative(t[b + n]) THEN Append(g[b + l], t[b + n]) ELSE g[b + l]
  <2> DEFINE i == a + n
             j == b + n
  <2>1. /\ i \in 1 .. Len(s) /\ j \in 1 .. Len(t)
        /\ i - 1 = a + l /\ j - 1 = b + l
    BY <1>4
  <2> HIDE DEF i, j
  <2>2. /\ f[i] = IF Authoritative(s[i]) THEN Append(f[i - 1], s[i]) ELSE f[i - 1]
        /\ g[j] = IF Authoritative(t[j]) THEN Append(g[j - 1], t[j]) ELSE g[j - 1]
    BY <2>1 DEF Filtered
  <2> QED BY <2>1, <2>2 DEF i, j
<1>8. /\ Authoritative(s[a + n]) <=> Authoritative(t[b + n])
      /\ Authoritative(s[a + n]) => s[a + n] = t[b + n]
  BY <1>4 DEF GoOnAlike
<1>9. f[a + n] = g[b + n]
  BY <1>6, <1>7, <1>8
<1> QED BY <1>2, <1>9

LEMMA AuthoritiesAlike ==
  ASSUME NEW s, Len(s) \in Nat, NEW t, Len(t) = Len(s), GoOnAlike(s, 0, t, 0, Len(s))
  PROVE  AuthoritativeOf(s) = AuthoritativeOf(t)
<1>1. PICK f : Filtered(s, f)
  BY FilterIsFiltered
<1>2. PICK g : Filtered(t, g)
  BY FilterIsFiltered
<1>3. f[0] = g[0]
  BY <1>1, <1>2 DEF Filtered
<1>4. 0 \in Nat /\ 0 + Len(s) <= Len(s) /\ 0 + Len(s) <= Len(t) /\ 0 + Len(s) = Len(s)
  OBVIOUS
<1>5. f[0 + Len(s)] = g[0 + Len(s)]
  BY <1>1, <1>2, <1>3, <1>4, FiltersGoOnAlike
<1> QED BY <1>1, <1>2, <1>4, <1>5 DEF Filtered

\* t is s without its k-th check, which has no authority.
LEMMA AuthoritiesWithout ==
  ASSUME NEW s, Len(s) \in Nat, NEW t, Len(t) \in Nat, Len(s) = Len(t) + 1,
         NEW k \in 1 .. Len(s), ~ Authoritative(s[k]),
         \A n \in 1 .. k - 1 : t[n] = s[n],
         \A n \in k .. Len(t) : t[n] = s[n + 1]
  PROVE  AuthoritativeOf(s) = AuthoritativeOf(t)
<1> DEFINE l == k - 1
           M == Len(t) - l
<1>1. PICK f : Filtered(s, f)
  BY FilterIsFiltered
<1>2. PICK g : Filtered(t, g)
  BY FilterIsFiltered
<1>3. /\ k \in Nat /\ l \in Nat /\ M \in Nat /\ 0 \in Nat
      /\ 0 + l <= Len(s) /\ 0 + l <= Len(t) /\ k + M = Len(s) /\ l + M = Len(t)
      /\ k + M <= Len(s) /\ l + M <= Len(t) /\ 0 + l = l
  OBVIOUS
<1>4. f[0] = g[0]
  BY <1>1, <1>2 DEF Filtered
<1>5. GoOnAlike(s, 0, t, 0, l)
  BY <1>3 DEF GoOnAlike
<1>6. GoOnAlike(s, k, t, l, M)
  <2>1. ASSUME NEW n \in 1 .. M PROVE t[l + n] = s[k + n]
    <3>1. l + n \in k .. Len(t) /\ (l + n) + 1 = k + n
      BY <2>1
    <3> QED BY <3>1
  <2> HIDE DEF l, M
  <2> QED BY <2>1 DEF GoOnAlike
<1>7. f[k] = f[l]
  BY <1>1 DEF Filtered
<1> HIDE DEF l, M
<1>8. f[0 + l] = g[0 + l]
  BY <1>1, <1>2, <1>3, <1>4, <1>5, FiltersGoOnAlike
<1>9. f[l] = g[l]
  BY <1>3, <1>8
<1>10. f[k] = g[l]
  BY <1>7, <1>9
<1>11. f[k + M] = g[l + M]
  BY <1>1, <1>2, <1>3, <1>10, <1>6, FiltersGoOnAlike
<1>12. f[Len(s)] = g[Len(t)]
  BY <1>3, <1>11
<1> QED BY <1>1, <1>2, <1>12 DEF Filtered

\* All that is asked of a spec here.
Weighed(s) ==
  /\ s.expect \in Seq({s.expect[k] : k \in DOMAIN s.expect})
  /\ \A k \in DOMAIN s.expect : s.expect[k].weight \in Nat

LEMMA AddedTyped ==
  ASSUME NEW s
  PROVE  Added(s) \in Seq({NoErrors(s), OneService(s)})
<1> DEFINE S == {NoErrors(s), OneService(s)}
           a == IF "forbid_errors" \in ResolvePolicy(s) THEN <<NoErrors(s)>> ELSE <<>>
           b == IF s.pinned # None THEN <<OneService(s)>> ELSE <<>>
<1>1. NoErrors(s) \in S /\ OneService(s) \in S
  OBVIOUS
<1> HIDE DEF S
<1>2. a \in Seq(S) /\ b \in Seq(S)
  BY <1>1
<1>3. Added(s) = a \o b
  BY DEF Added
<1> HIDE DEF a, b
<1> QED BY <1>2, <1>3 DEF S

LEMMA ExpandsToGate ==
  ASSUME NEW s, Weighed(s)
  PROVE  /\ Len(s.expect) \in Nat /\ DOMAIN s.expect = 1 .. Len(s.expect)
         /\ Len(Added(s)) \in Nat
         /\ Len(ExpandRules(s)) = Len(s.expect) + Len(Added(s))
         /\ \A n \in 1 .. Len(s.expect) : ExpandRules(s)[n] = s.expect[n]
         /\ \A n \in 1 .. Len(Added(s)) : ExpandRules(s)[Len(s.expect) + n] = Added(s)[n]
         /\ DOMAIN ExpandRules(s) = 1 .. Len(ExpandRules(s))
         /\ Judgeable(GateOf(s))
<1> DEFINE E == {s.expect[k] : k \in DOMAIN s.expect}
           A == {NoErrors(s), OneService(s)}
           S == E \cup A
           g == GateOf(s)
           e == s.expect
           a == Added(s)
<1>1. e \in Seq(E) /\ \A c \in E : c.weight \in Nat
  BY DEF Weighed
<1>2. a \in Seq(A)
  BY AddedTyped
<1>3. \A c \in A : c.weight \in Nat
  BY DEF NoErrors, OneService, Automatic
<1>4. E \subseteq S /\ A \subseteq S /\ \A c \in S : c.weight \in Nat
  BY <1>1, <1>3
<1>5. ExpandRules(s) = e \o a
  BY DEF ExpandRules
<1> DEFINE r == ExpandRules(s)
<1>6. g.checks = r /\ {"checks", "threshold", "policy"} \subseteq DOMAIN g
  BY DEF GateOf
<1> HIDE DEF E, A, S, e, a, g, r
<1>7. e \in Seq(S) /\ a \in Seq(S)
  BY <1>1, <1>2, <1>4
<1>8. /\ Len(e) \in Nat /\ DOMAIN e = 1 .. Len(e) /\ Len(a) \in Nat
      /\ r \in Seq(S) /\ Len(r) = Len(e) + Len(a) /\ DOMAIN r = 1 .. Len(r)
      /\ \A n \in 1 .. Len(e) : r[n] = e[n]
      /\ \A n \in 1 .. Len(a) : r[Len(e) + n] = a[n]
  BY <1>5, <1>7 DEF r
<1>9. Judgeable(g)
  <2>1. ChecksOf(g) = {r[k] : k \in DOMAIN r}
    BY <1>6 DEF ChecksOf
  <2>2. \A k \in 1 .. Len(r) : r[k] \in S /\ r[k] \in ChecksOf(g)
    BY <1>8, <2>1
  <2>3. ChecksOf(g) \subseteq S
    BY <1>8, <2>1, <2>2
  <2>4. r \in Seq(ChecksOf(g))
    BY <1>8, <2>2
  <2> QED BY <1>4, <1>6, <2>3, <2>4 DEF Judgeable
<1> QED BY <1>8, <1>9 DEF e, a, g, r

\* A gate is judged by its checks with authority, so specs that agree on them are judged alike.
LEMMA JudgedByAuthorities ==
  ASSUME NEW s, Weighed(s), NEW x, Weighed(x),
         x.threshold = s.threshold, ResolvePolicy(x) = ResolvePolicy(s),
         AuthoritativeOf(ExpandRules(x)) = AuthoritativeOf(ExpandRules(s))
  PROVE  Ok(GateOf(x)) <=> Ok(GateOf(s))
<1>1. Judgeable(GateOf(s)) /\ Judgeable(GateOf(x))
  BY ExpandsToGate
<1>2. Bare(GateOf(x)) = Bare(GateOf(s))
  BY DEF Bare, GateOf
<1> QED BY <1>1, <1>2, BareIsJudgedAlike

\* Another check without authority is in the place of one.
LEMMA ObservationEdited ==
  ASSUME NEW s, Weighed(s), NEW x, Weighed(x), NEW k \in DOMAIN s.expect,
         DOMAIN x.expect = DOMAIN s.expect,
         \A n \in DOMAIN s.expect \ {k} : x.expect[n] = s.expect[n],
         ~ Authoritative(s.expect[k]), ~ Authoritative(x.expect[k]),
         Added(x) = Added(s)
  PROVE  AuthoritativeOf(ExpandRules(x)) = AuthoritativeOf(ExpandRules(s))
<1> DEFINE L == Len(s.expect)
           A == Len(Added(s))
           r == ExpandRules(s)
           q == ExpandRules(x)
<1>1. /\ L \in Nat /\ A \in Nat /\ Len(r) = L + A /\ DOMAIN s.expect = 1 .. L
      /\ \A n \in 1 .. L : r[n] = s.expect[n]
      /\ \A n \in 1 .. A : r[L + n] = Added(s)[n]
  BY ExpandsToGate
<1>2. /\ Len(x.expect) \in Nat /\ DOMAIN x.expect = 1 .. Len(x.expect)
      /\ Len(q) = Len(x.expect) + A
      /\ \A n \in 1 .. Len(x.expect) : q[n] = x.expect[n]
      /\ \A n \in 1 .. A : q[Len(x.expect) + n] = Added(s)[n]
  BY ExpandsToGate
<1>3. Len(x.expect) = L
  <2> DEFINE X == Len(x.expect)
  <2>1. X \in Nat /\ L \in Nat /\ 1 .. X = 1 .. L
    BY <1>1, <1>2
  <2> HIDE DEF X, L
  <2>2. X = L
    BY <2>1
  <2> QED BY <2>2 DEF X
<1> HIDE DEF L, A, r, q
<1>4. ASSUME NEW n \in 1 .. Len(r)
      PROVE  /\ Authoritative(r[n]) <=> Authoritative(q[n])
             /\ Authoritative(r[n]) => r[n] = q[n]
  <2>1. CASE n \in 1 .. L /\ n # k
    BY <1>1, <1>2, <1>3, <2>1
  <2>2. CASE n = k
    <3>1. r[n] = s.expect[k] /\ q[n] = x.expect[k]
      BY <1>1, <1>2, <1>3, <2>2
    <3> QED BY <3>1
  <2>3. CASE n \notin 1 .. L
    <3> DEFINE m == n - L
    <3>1. m \in 1 .. A /\ n = L + m
      BY <1>1, <2>3
    <3> HIDE DEF m
    <3>2. r[n] = q[n]
      BY <1>1, <1>2, <1>3, <3>1
    <3> QED BY <3>2
  <2> QED BY <2>1, <2>2, <2>3
<1>5. Len(r) \in Nat /\ Len(q) = Len(r) /\ \A n \in 1 .. Len(r) : 0 + n = n
  BY <1>1, <1>2, <1>3
<1>6. GoOnAlike(r, 0, q, 0, Len(r))
  BY <1>4, <1>5 DEF GoOnAlike
<1>7. AuthoritativeOf(r) = AuthoritativeOf(q)
  BY <1>5, <1>6, AuthoritiesAlike
<1> QED BY <1>7 DEF r, q

\* A check without authority is gone.
LEMMA ObservationDropped ==
  ASSUME NEW s, Weighed(s), NEW x, Weighed(x), NEW k \in DOMAIN s.expect,
         x.expect = Without(s.expect, k),
         ~ Authoritative(s.expect[k]),
         Added(x) = Added(s)
  PROVE  AuthoritativeOf(ExpandRules(x)) = AuthoritativeOf(ExpandRules(s))
<1> DEFINE L == Len(s.expect)
           A == Len(Added(s))
           e == s.expect
           d == x.expect
           r == ExpandRules(s)
           q == ExpandRules(x)
<1>1. /\ L \in Nat /\ A \in Nat /\ Len(r) = L + A /\ DOMAIN e = 1 .. L
      /\ \A n \in 1 .. L : r[n] = e[n]
      /\ \A n \in 1 .. A : r[L + n] = Added(s)[n]
  BY ExpandsToGate
<1>2. /\ Len(d) \in Nat /\ DOMAIN d = 1 .. Len(d)
      /\ Len(q) = Len(d) + A
      /\ \A n \in 1 .. Len(d) : q[n] = d[n]
      /\ \A n \in 1 .. A : q[Len(d) + n] = Added(s)[n]
  <2>1. /\ Len(d) \in Nat /\ DOMAIN d = 1 .. Len(d)
        /\ Len(q) = Len(d) + Len(Added(x))
        /\ \A n \in 1 .. Len(d) : q[n] = d[n]
        /\ \A n \in 1 .. Len(Added(x)) : q[Len(d) + n] = Added(x)[n]
    <3> HIDE DEF A, L
    <3> QED BY ExpandsToGate
  <2> HIDE DEF d, q
  <2> QED BY <2>1
<1>3. /\ DOMAIN d = 1 .. L - 1
      /\ \A n \in 1 .. L - 1 : d[n] = IF n < k THEN e[n] ELSE e[n + 1]
  BY DEF Without
<1>4. k \in 1 .. L /\ ~ Authoritative(e[k])
  BY <1>1
<1> HIDE DEF L, A, e, d, r, q
<1>5. Len(d) = L - 1
  <2> DEFINE X == Len(d)
             Y == L - 1
  <2>1. X \in Nat /\ Y \in Nat /\ 1 .. X = 1 .. Y
    BY <1>1, <1>2, <1>3, <1>4
  <2> HIDE DEF X, Y
  <2>2. X = Y
    BY <2>1
  <2> QED BY <2>2 DEF X, Y
<1>6. Len(r) \in Nat /\ Len(q) \in Nat /\ Len(r) = Len(q) + 1 /\ k \in 1 .. Len(r)
  BY <1>1, <1>2, <1>4, <1>5
<1>7. ~ Authoritative(r[k])
  BY <1>1, <1>4
<1>8. ASSUME NEW n \in 1 .. k - 1 PROVE q[n] = r[n]
  <2>1. n \in 1 .. L - 1 /\ n \in 1 .. L /\ n < k
    BY <1>1, <1>4
  <2>2. q[n] = d[n] /\ d[n] = e[n] /\ r[n] = e[n]
    BY <1>1, <1>2, <1>3, <1>5, <2>1
  <2> QED BY <2>2
<1>9. ASSUME NEW n \in k .. Len(q) PROVE q[n] = r[n + 1]
  <2>1. CASE n <= L - 1
    <3>1. n \in 1 .. L - 1 /\ n + 1 \in 1 .. L /\ ~ (n < k)
      BY <1>1, <1>4, <1>6, <2>1
    <3>2. q[n] = d[n] /\ d[n] = e[n + 1] /\ r[n + 1] = e[n + 1]
      BY <1>1, <1>2, <1>3, <1>5, <3>1
    <3> QED BY <3>2
  <2>2. CASE ~ (n <= L - 1)
    <3> DEFINE m == n - (L - 1)
    <3>1. m \in 1 .. A /\ n = (L - 1) + m /\ n + 1 = L + m
      BY <1>1, <1>2, <1>4, <1>5, <1>6, <2>2
    <3> HIDE DEF m
    <3>2. q[n] = Added(s)[m] /\ r[n + 1] = Added(s)[m]
      BY <1>1, <1>2, <1>5, <3>1
    <3> QED BY <3>2
  <2> QED BY <1>1, <1>4, <2>1, <2>2
<1>10. AuthoritativeOf(r) = AuthoritativeOf(q)
  BY <1>6, <1>7, <1>8, <1>9, AuthoritiesWithout
<1> QED BY <1>10 DEF r, q

-----------------------------------------------------------------------------
(* What an edit of a spec leaves of its strength.                          *)

LEMMA ProperSubsetIsSmaller ==
  ASSUME NEW T, IsFiniteSet(T), NEW k \in T, NEW S \in SUBSET (T \ {k})
  PROVE  Cardinality(S) < Cardinality(T)
<1>1. /\ IsFiniteSet(T \ {k}) /\ Cardinality(T \ {k}) = Cardinality(T) - 1
      /\ Cardinality(T) \in Nat
  BY FS_RemoveElement, FS_CardinalityType
<1>2. IsFiniteSet(S) /\ Cardinality(S) <= Cardinality(T \ {k}) /\ Cardinality(S) \in Nat
  BY <1>1, FS_Subset, FS_CardinalityType
<1> QED BY <1>1, <1>2

LEMMA DemandedIsFinite ==
  ASSUME NEW s, Weighed(s)
  PROVE  IsFiniteSet(Demanded(s))
<1>1. Len(s.expect) \in Nat /\ DOMAIN s.expect = 1 .. Len(s.expect)
  BY ExpandsToGate
<1>2. IsFiniteSet(1 .. Len(s.expect))
  <2>1. 1 \in Int /\ Len(s.expect) \in Int
    BY <1>1
  <2> QED BY <2>1, FS_Interval
<1>3. Demanded(s) \in SUBSET (1 .. Len(s.expect))
  BY <1>1 DEF Demanded
<1> QED BY <1>2, <1>3, FS_Subset

\* What the comparison of two fingerprints is asked for here.
LEMMA NotWeakened ==
  ASSUME NEW s, NEW x, ~ Weakened(StrengthFingerprint(s), StrengthFingerprint(x))
  PROVE  /\ ~ (Cardinality(Demanded(x)) < Cardinality(Demanded(s)))
         /\ ~ (Cardinality(OfStrength(x, "value-pinned")) < Cardinality(OfStrength(s, "value-pinned")))
         /\ ~ (Quorum(x) < Quorum(s))
         /\ \A w \in Wings \ {"independent_store"} : s.declared[w] = "yes" => x.declared[w] = "yes"
         /\ ~ (Cardinality(x.allowed) > Cardinality(s.allowed))
<1> DEFINE b == StrengthFingerprint(s)
           c == StrengthFingerprint(x)
<1>1. "value-pinned" \in DOMAIN Rank
  <2>1. 3 \in 1 .. 6 /\ "value-pinned" \in StrengthByRank[3]
    BY DEF StrengthByRank
  <2> QED BY <2>1 DEF Rank
<1>2. /\ b.gating = Cardinality(Demanded(s))
      /\ b.classes["value-pinned"] = Cardinality(OfStrength(s, "value-pinned"))
      /\ b.quorum = Quorum(s)
      /\ b.wings = {w \in Wings \ {"independent_store"} : s.declared[w] = "yes"}
      /\ b.allowing = Cardinality(s.allowed)
  BY <1>1 DEF StrengthFingerprint
<1>3. /\ c.gating = Cardinality(Demanded(x))
      /\ c.classes["value-pinned"] = Cardinality(OfStrength(x, "value-pinned"))
      /\ c.quorum = Quorum(x)
      /\ c.wings = {w \in Wings \ {"independent_store"} : x.declared[w] = "yes"}
      /\ c.allowing = Cardinality(x.allowed)
  BY <1>1 DEF StrengthFingerprint
<1> HIDE DEF b, c
<1>4. ~ Weakened(b, c)
  BY DEF b, c
<1>5. /\ ~ (c.gating < b.gating) /\ ~ (c.quorum < b.quorum)
      /\ ~ (c.classes["value-pinned"] < b.classes["value-pinned"])
      /\ b.wings \ c.wings = {} /\ ~ (c.allowing > b.allowing)
  BY <1>4 DEF Weakened
<1>6. \A w \in Wings \ {"independent_store"} : s.declared[w] = "yes" => x.declared[w] = "yes"
  BY <1>2, <1>3, <1>5
<1> QED BY <1>2, <1>3, <1>5, <1>6

LEMMA SpecsTyped ==
  ASSUME NEW s \in Specs
  PROVE  /\ s \in GateSpec /\ Weighed(s)
         /\ \A k \in DOMAIN s.expect : s.expect[k] \in Expectation
<1>1. s \in GateSpec /\ s.expect \in Seq(Expectation)
  BY SpecAssumption DEF GateSpec
<1> DEFINE e == s.expect
           S == {e[k] : k \in DOMAIN e}
<1> HIDE DEF e
<1>2. e \in Seq(Expectation)
  BY <1>1 DEF e
<1>3. Len(e) \in Nat /\ DOMAIN e = 1 .. Len(e) /\ \A k \in DOMAIN e : e[k] \in Expectation
  BY <1>2
<1>4. \A k \in DOMAIN e : e[k].weight \in Nat
  BY <1>3 DEF Expectation
<1>5. e \in Seq(S)
  BY <1>2, <1>3
<1> QED BY <1>1, <1>3, <1>4, <1>5 DEF Weighed, e

\* An edit of the checks alone.
LEMMA ExpectReplaced ==
  ASSUME NEW s \in GateSpec, NEW e, NEW x, x = [s EXCEPT !.expect = e]
  PROVE  /\ x.expect = e /\ x.threshold = s.threshold
         /\ ResolvePolicy(x) = ResolvePolicy(s) /\ Added(x) = Added(s)
<1>1. /\ x.expect = e /\ x.threshold = s.threshold /\ x.declared = s.declared
      /\ x.allowed = s.allowed /\ x.pinned = s.pinned
  BY DEF GateSpec
<1>2. ResolvePolicy(x) = ResolvePolicy(s)
  BY <1>1 DEF ResolvePolicy
<1> QED BY <1>1, <1>2 DEF Added, NoErrors, OneService

\* Without its where clause a check pins no value; one that pinned none has not changed.
LEMMA WhereDroppedUnpins ==
  ASSUME NEW c \in Expectation, c.rule \in Kinds[c.kind]
  PROVE  /\ WhereDropped(c).optional = c.optional /\ WhereDropped(c).pending = c.pending
         /\ WhereDropped(c).weight = c.weight
         /\ Strength(WhereDropped(c)) # "value-pinned"
         /\ Strength(c) # "value-pinned" => WhereDropped(c) = c
<1> DEFINE d == WhereDropped(c)
           r == c.rule
           By == DOMAIN StrengthByKey
<1>1. /\ DOMAIN c = {"kind", "rule", "optional", "pending", "weight"}
      /\ c.kind \in By \cup {"present", "count"}
      /\ c = [f \in DOMAIN c |-> c[f]]
  BY DEF Expectation, Kinds, StrengthByKey
<1>2. "present" \notin By /\ "count" \notin By /\ \A kind \in By : StrengthByKey[kind] # "value-pinned"
  BY DEF StrengthByKey
<1>3. \A match : ~ HasWhere(SameNames(match))
  BY DEF HasWhere, SameNames
<1> HIDE DEF By
<1>4. CASE c.kind \in By
  <2>1. d = c
    BY <1>2, <1>4 DEF WhereDropped
  <2>2. Strength(c) # "value-pinned"
    BY <1>2, <1>4 DEF Strength, By
  <2> HIDE DEF d
  <2> QED BY <2>1, <2>2 DEF d
<1>5. CASE c.kind = "count"
  <2>1. r \in CountRule
    BY <1>5, RuleAssumption DEF Kinds
  <2> HIDE DEF r
  <2> DEFINE match == SameNames(r.match)
             q == [r EXCEPT !.match = match]
  <2>2. q.match = match
    <3> HIDE DEF match
    <3> QED BY <2>1 DEF CountRule
  <2>3. r.match = match => q = r
    <3> HIDE DEF match
    <3> QED BY <2>1 DEF CountRule
  <2>4. d = [c EXCEPT !.rule = q]
    BY <1>5 DEF WhereDropped, r
  <2> HIDE DEF q, d
  <2>5. /\ d.optional = c.optional /\ d.pending = c.pending /\ d.weight = c.weight
        /\ d.kind = "count" /\ d.rule = q
        /\ q = c.rule => d = c
    BY <1>1, <1>5, <2>4
  <2>6. Strength(d) # "value-pinned"
    BY <1>2, <1>3, <2>2, <2>5 DEF Strength, By
  <2>7. Strength(c) # "value-pinned" => r.match = match
    BY <1>2, <1>5 DEF Strength, HasWhere, By, r
  <2> QED BY <2>3, <2>5, <2>6, <2>7 DEF d, r
<1>6. CASE c.kind = "present"
  <2>1. r \in PresentRule
    BY <1>6, RuleAssumption DEF Kinds
  <2> HIDE DEF r
  <2> DEFINE matchers == {SameNames(match) : match \in r.matchers}
             q == [r EXCEPT !.matchers = matchers]
  <2>2. q.matchers = matchers
    <3> HIDE DEF matchers
    <3> QED BY <2>1 DEF PresentRule
  <2>3. r.matchers = matchers => q = r
    <3> HIDE DEF matchers
    <3> QED BY <2>1 DEF PresentRule
  <2>4. d = [c EXCEPT !.rule = q]
    BY <1>6 DEF WhereDropped, r
  <2> HIDE DEF q, d
  <2>5. /\ d.optional = c.optional /\ d.pending = c.pending /\ d.weight = c.weight
        /\ d.kind = "present" /\ d.rule = q
        /\ q = c.rule => d = c
    BY <1>1, <1>6, <2>4
  <2>6. Strength(d) # "value-pinned"
    <3>1. \A match \in d.rule.matchers : ~ HasWhere(match)
      BY <1>3, <2>2, <2>5
    <3> QED BY <1>2, <2>5, <3>1 DEF Strength, By
  <2>7. Strength(c) # "value-pinned" => r.matchers = matchers
    <3> SUFFICES ASSUME Strength(c) # "value-pinned" PROVE r.matchers = matchers
      OBVIOUS
    <3>1. \A match \in r.matchers : match = SameNames(match)
      BY <1>2, <1>6 DEF Strength, HasWhere, By, r
    <3> QED BY <3>1
  <2> HIDE DEF matchers
  <2> QED BY <2>3, <2>5, <2>6, <2>7 DEF d, r
<1> QED BY <1>1, <1>4, <1>5, <1>6

\* Marking a check, or dropping its where clause, is reported where the check is demanded and
\* pinned a value, and is no matter elsewhere.
LEMMA EasedInVain ==
  ASSUME NEW s \in Specs, NEW k \in DOMAIN s.expect, NEW c \in Eased(s.expect[k]),
         NEW x, x = [s EXCEPT !.expect[k] = c],
         ~ Weakened(StrengthFingerprint(s), StrengthFingerprint(x))
  PROVE  Ok(GateOf(x)) <=> Ok(GateOf(s))
<1> DEFINE e == s.expect
           d == [e EXCEPT ![k] = c]
<1>1. s \in GateSpec /\ Weighed(s) /\ e[k] \in Expectation /\ e[k].rule \in Kinds[e[k].kind]
  BY SpecsTyped, SpecAssumption
<1>2. Len(e) \in Nat /\ DOMAIN e = 1 .. Len(e)
  BY <1>1, ExpandsToGate
<1>3. \A j \in DOMAIN e : e[j].weight \in Nat
  BY <1>1 DEF Weighed
<1>4. DOMAIN d = DOMAIN e /\ d[k] = c /\ \A j \in DOMAIN e \ {k} : d[j] = e[j]
  OBVIOUS
<1>5. x = [s EXCEPT !.expect = d]
  OBVIOUS
<1> HIDE DEF d
<1>6. /\ x.expect = d /\ x.threshold = s.threshold
      /\ ResolvePolicy(x) = ResolvePolicy(s) /\ Added(x) = Added(s)
  BY <1>1, <1>5, ExpectReplaced
<1>7. c.weight = e[k].weight
  BY <1>1, WhereDroppedUnpins DEF Eased, Expectation
<1>8. Weighed(x)
  <2>1. d = [j \in 1 .. Len(e) |-> d[j]]
    BY <1>2, <1>4 DEF d
  <2>2. \A j \in DOMAIN d : d[j].weight \in Nat
    BY <1>3, <1>4, <1>7
  <2>3. d \in Seq({d[j] : j \in DOMAIN d})
    <3> DEFINE S == {d[j] : j \in DOMAIN d}
    <3>1. \A j \in 1 .. Len(e) : d[j] \in S
      BY <1>2, <1>4
    <3> HIDE DEF S
    <3> QED BY <1>2, <2>1, <3>1
  <2> QED BY <1>6, <2>2, <2>3 DEF Weighed
<1>9. IsFiniteSet(Demanded(s))
  BY <1>1, DemandedIsFinite
<1>10. ASSUME ~ Authoritative(e[k]), ~ Authoritative(c) PROVE Ok(GateOf(x)) <=> Ok(GateOf(s))
  <2>1. AuthoritativeOf(ExpandRules(x)) = AuthoritativeOf(ExpandRules(s))
    BY <1>1, <1>4, <1>6, <1>8, <1>10, ObservationEdited
  <2> QED BY <1>1, <1>6, <1>8, <2>1, JudgedByAuthorities
<1>11. CASE c \in {[e[k] EXCEPT !.optional = TRUE], [e[k] EXCEPT !.pending = TRUE]}
  <2>1. c.optional \/ c.pending
    BY <1>1, <1>11 DEF Expectation
  <2>2. k \notin Demanded(s)
    <3> SUFFICES ASSUME k \in Demanded(s) PROVE FALSE
      OBVIOUS
    <3>1. Demanded(x) \in SUBSET (Demanded(s) \ {k})
      BY <1>4, <1>6, <2>1 DEF Demanded
    <3>2. Cardinality(Demanded(x)) < Cardinality(Demanded(s))
      BY <1>9, <3>1, ProperSubsetIsSmaller
    <3> QED BY <3>2, NotWeakened
  <2>3. ~ Authoritative(e[k]) /\ ~ Authoritative(c)
    BY <2>1, <2>2 DEF Authoritative, Demanded
  <2> QED BY <1>10, <2>3
<1>12. CASE c = WhereDropped(e[k])
  <2>1. /\ c.optional = e[k].optional /\ c.pending = e[k].pending
        /\ Strength(c) # "value-pinned"
        /\ Strength(e[k]) # "value-pinned" => c = e[k]
    BY <1>1, <1>12, WhereDroppedUnpins
  <2>2. CASE k \notin Demanded(s)
    <3>1. ~ Authoritative(e[k]) /\ ~ Authoritative(c)
      BY <2>1, <2>2 DEF Authoritative, Demanded
    <3> QED BY <1>10, <3>1
  <2>3. CASE Strength(e[k]) # "value-pinned"
    <3>1. c = e[k]
      BY <2>1, <2>3
    <3>2. d = e
      BY <1>1, <3>1 DEF d, Weighed
    <3>3. x = s
      BY <1>1, <1>5, <3>2 DEF GateSpec
    <3> QED BY <3>3
  <2>4. ~ (k \in Demanded(s) /\ Strength(e[k]) = "value-pinned")
    <3> SUFFICES ASSUME k \in Demanded(s), Strength(e[k]) = "value-pinned" PROVE FALSE
      OBVIOUS
    <3> DEFINE S == OfStrength(x, "value-pinned")
               T == OfStrength(s, "value-pinned")
    <3>1. k \in T
      BY DEF OfStrength
    <3>2. S \in SUBSET (T \ {k})
      BY <1>4, <1>6, <2>1 DEF OfStrength, Demanded
    <3>3. T \in SUBSET Demanded(s)
      BY DEF OfStrength
    <3> HIDE DEF S, T
    <3>4. IsFiniteSet(T)
      BY <1>9, <3>3, FS_Subset
    <3>5. Cardinality(S) < Cardinality(T)
      BY <3>1, <3>2, <3>4, ProperSubsetIsSmaller
    <3> QED BY <3>5, NotWeakened DEF S, T
  <2> QED BY <2>2, <2>3, <2>4
<1> QED BY <1>11, <1>12 DEF Eased

\* Leaving a check out is reported where it is demanded, and is no matter elsewhere.
LEMMA LeftOutInVain ==
  ASSUME NEW s \in Specs, NEW k \in DOMAIN s.expect,
         NEW x, x = [s EXCEPT !.expect = Without(s.expect, k)],
         ~ Weakened(StrengthFingerprint(s), StrengthFingerprint(x))
  PROVE  Ok(GateOf(x)) <=> Ok(GateOf(s))
<1> DEFINE e == s.expect
           d == Without(e, k)
           L == Len(e)
<1>1. s \in GateSpec /\ Weighed(s)
  BY SpecsTyped
<1>2. L \in Nat /\ DOMAIN e = 1 .. L /\ k \in 1 .. L
  BY <1>1, ExpandsToGate
<1>3. \A j \in DOMAIN e : e[j].weight \in Nat
  BY <1>1 DEF Weighed
<1>4. /\ d = [n \in 1 .. L - 1 |-> d[n]] /\ DOMAIN d = 1 .. L - 1
      /\ \A n \in 1 .. L - 1 : d[n] = e[IF n < k THEN n ELSE n + 1]
  BY DEF Without
<1>5. x = [s EXCEPT !.expect = d]
  OBVIOUS
<1> HIDE DEF d, L
<1>6. /\ x.expect = d /\ x.threshold = s.threshold
      /\ ResolvePolicy(x) = ResolvePolicy(s) /\ Added(x) = Added(s)
  BY <1>1, <1>5, ExpectReplaced
<1> DEFINE at(n) == IF n < k THEN n ELSE n + 1
<1>7. /\ \A n \in 1 .. L - 1 : at(n) \in 1 .. L /\ at(n) # k
      /\ \A m, n \in 1 .. L - 1 : at(m) = at(n) => m = n
  BY <1>2
<1>8. \A n \in 1 .. L - 1 : d[n] = e[at(n)]
  BY <1>4
<1> HIDE DEF at
<1>9. Weighed(x)
  <2>1. L - 1 \in Nat
    BY <1>2
  <2>2. \A j \in DOMAIN d : d[j].weight \in Nat
    BY <1>2, <1>3, <1>4, <1>7, <1>8
  <2>3. d \in Seq({d[j] : j \in DOMAIN d})
    <3> DEFINE S == {d[j] : j \in DOMAIN d}
               N == L - 1
    <3>1. \A j \in 1 .. N : d[j] \in S
      BY <1>4
    <3>2. N \in Nat /\ d = [n \in 1 .. N |-> d[n]]
      BY <1>4, <2>1
    <3> HIDE DEF S, N
    <3> QED BY <3>1, <3>2
  <2> QED BY <1>6, <2>2, <2>3 DEF Weighed
<1>10. k \notin Demanded(s)
  <2> SUFFICES ASSUME k \in Demanded(s) PROVE FALSE
    OBVIOUS
  <2> DEFINE S == Demanded(x)
             T == Demanded(s) \ {k}
             f == [n \in S |-> at(n)]
  <2>1. S \subseteq 1 .. L - 1
    BY <1>4, <1>6 DEF Demanded
  <2>2. \A n \in S : at(n) \in T
    BY <1>2, <1>4, <1>6, <1>7, <1>8 DEF Demanded
  <2>3. /\ IsFiniteSet(T) /\ Cardinality(T) = Cardinality(Demanded(s)) - 1
        /\ Cardinality(Demanded(s)) \in Nat
    <3>1. IsFiniteSet(Demanded(s))
      BY <1>1, DemandedIsFinite
    <3> QED BY <3>1, FS_RemoveElement, FS_CardinalityType
  <2> HIDE DEF S, T
  <2>4. f \in [S -> T] /\ \A m, n \in S : f[m] = f[n] => m = n
    BY <1>7, <2>1, <2>2
  <2>5. f \in Injection(S, T)
    <3> HIDE DEF f
    <3> QED BY <2>4 DEF Injection, IsInjective
  <2>6. IsFiniteSet(S) /\ Cardinality(S) <= Cardinality(T)
    <3> HIDE DEF f
    <3> QED BY <2>3, <2>5, FS_Injection
  <2>7. Cardinality(S) \in Nat
    BY <2>6, FS_CardinalityType
  <2>8. Cardinality(S) < Cardinality(Demanded(s))
    BY <2>3, <2>6, <2>7
  <2> QED BY <2>8, NotWeakened DEF S
<1>11. ~ Authoritative(e[k])
  BY <1>10 DEF Authoritative, Demanded
<1>12. AuthoritativeOf(ExpandRules(x)) = AuthoritativeOf(ExpandRules(s))
  BY <1>1, <1>6, <1>9, <1>11, ObservationDropped DEF d
<1> QED BY <1>1, <1>6, <1>9, <1>12, JudgedByAuthorities

\* The other edits are reported, or change nothing.
LEMMA SilentEditsKeepRed ==
  ASSUME NEW s \in Specs, NEW x \in Weakenings(s),
         ~ Weakened(StrengthFingerprint(s), StrengthFingerprint(x)), Ok(GateOf(x))
  PROVE  Ok(GateOf(s))
<1>1. s \in GateSpec
  BY SpecsTyped
<1>2. CASE \E k \in DOMAIN s.expect : x = [s EXCEPT !.expect = Without(s.expect, k)]
  BY <1>2, LeftOutInVain
<1>3. CASE \E k \in DOMAIN s.expect : \E c \in Eased(s.expect[k]) : x = [s EXCEPT !.expect[k] = c]
  BY <1>3, EasedInVain
<1>4. ASSUME NEW t \in 1 .. 100, t < Quorum(s), x = [s EXCEPT !.threshold = t]
      PROVE  FALSE
  <2>1. x.threshold = t
    BY <1>1, <1>4 DEF GateSpec
  <2>2. Quorum(x) = t
    BY <2>1, EventAssumption DEF Quorum
  <2> QED BY <1>4, <2>2, NotWeakened
<1>5. ASSUME NEW w \in Wings \ {"independent_store"}, s.declared[w] = "yes", NEW v \in {"no", "unset"},
             x = [s EXCEPT !.declared[w] = v]
      PROVE  FALSE
  <2>1. x.declared[w] = v
    BY <1>1, <1>5 DEF GateSpec
  <2> QED BY <1>5, <2>1, NotWeakened
<1>6. ASSUME NEW match, x = [s EXCEPT !.allowed = s.allowed \cup {match}]
      PROVE  Ok(GateOf(s))
  <2>1. CASE match \in s.allowed
    <3>1. s.allowed \cup {match} = s.allowed
      BY <2>1
    <3>2. x = s
      BY <1>1, <1>6, <3>1 DEF GateSpec
    <3> QED BY <3>2
  <2>2. CASE match \notin s.allowed
    <3>1. x.allowed = s.allowed \cup {match}
      BY <1>1, <1>6 DEF GateSpec
    <3>2. IsFiniteSet(s.allowed)
      BY SpecAssumption
    <3>3. Cardinality(x.allowed) = Cardinality(s.allowed) + 1 /\ Cardinality(s.allowed) \in Nat
      BY <2>2, <3>1, <3>2, FS_AddElement, FS_CardinalityType
    <3>4. Cardinality(x.allowed) > Cardinality(s.allowed)
      BY <3>3
    <3> QED BY <3>4, NotWeakened
  <2> QED BY <2>1, <2>2
<1>7. CASE x \in {[s EXCEPT !.expect = Without(s.expect, k)] : k \in DOMAIN s.expect}
  BY <1>2, <1>7
<1>8. CASE x \in UNION {{[s EXCEPT !.expect[k] = c] : c \in Eased(s.expect[k])} : k \in DOMAIN s.expect}
  BY <1>3, <1>8
<1>9. CASE x \in {[s EXCEPT !.threshold = t] : t \in {y \in 1 .. 100 : y < Quorum(s)}}
  BY <1>4, <1>9
<1>10. CASE x \in {[s EXCEPT !.declared[w] = v] :
                   w \in {u \in Wings \ {"independent_store"} : s.declared[u] = "yes"}, v \in {"no", "unset"}}
  BY <1>5, <1>10
<1>11. CASE x \in {[s EXCEPT !.allowed = @ \cup {match}] : match \in SUBSET Stored}
  <2>1. PICK match : x = [s EXCEPT !.allowed = s.allowed \cup {match}]
    BY <1>11
  <2> QED BY <1>6, <2>1
<1> QED BY <1>7, <1>8, <1>9, <1>10, <1>11 DEF Weakenings

LEMMA WeakeningIsAlwaysFlagged == WeakeningIsFlagged
<1> SUFFICES ASSUME NEW edit \in SilentEdits, Ok(GateOf(edit[2])) PROVE Ok(GateOf(edit[1]))
  BY DEF WeakeningIsFlagged
<1>1. PICK s \in Specs : \E x \in Weakenings(s) :
        edit = <<s, x>> /\ ~ Weakened(StrengthFingerprint(s), StrengthFingerprint(x))
  BY DEF SilentEdits
<1>2. PICK x \in Weakenings(s) :
        edit = <<s, x>> /\ ~ Weakened(StrengthFingerprint(s), StrengthFingerprint(x))
  BY <1>1
<1> QED BY <1>2, SilentEditsKeepRed

-----------------------------------------------------------------------------
(* Lint, and the results of several gates.                                 *)

\* A gate that asks for all of its weight is green only when each check that weighs passed.
LEMMA FullQuorumPasses ==
  ASSUME NEW g, Judgeable(g), g.threshold = 100, RequiredOk(g),
         NEW p \in Gating(g), p[2].weight > 0
  PROVE  Passed(p[2])
<1> SUFFICES ASSUME ~ Passed(p[2]) PROVE FALSE
  OBVIOUS
<1> DEFINE c == g.checks
           P == {q \in Gating(g) : Passed(q[2])}
           K == Indices(P)
           J == Indices(Gating(g))
           w == WeightOf(c)
<1>1. c \in Seq(ChecksOf(g)) /\ \A x \in ChecksOf(g) : x.weight \in Nat
  BY DEF Judgeable
<1>2. Len(c) \in Nat /\ DOMAIN c = 1 .. Len(c)
  <2> HIDE DEF c
  <2> QED BY <1>1
<1>3. Len(w) = Len(c) /\ \A n \in 1 .. Len(c) : w[n] = c[n].weight /\ w[n] \in Nat
  <2> HIDE DEF c
  <2> QED BY <1>1, WeightsTyped
<1>4. PICK i \in 1 .. Len(c) : p = <<i, c[i]>>
  BY <1>2 DEF Gating, CheckSet
<1>5. K \in SUBSET J
  BY DEF Indices
<1>6. i \in J
  BY <1>4 DEF Indices
<1>7. i \notin K
  <2> SUFFICES ASSUME NEW q \in P, q[1] = i PROVE FALSE
    BY DEF Indices
  <2>1. q = <<i, c[i]>>
    BY <1>2 DEF Gating, CheckSet
  <2> QED BY <1>4, <2>1
<1>8. w[i] > 0
  BY <1>3, <1>4
<1>9. Weight(g, P) = SumOf(w, K) /\ Weight(g, Gating(g)) = SumOf(w, J)
  BY DEF Weight
<1>10. 100 * Weight(g, P) >= 100 * Weight(g, Gating(g))
  BY EventAssumption DEF RequiredOk, Suffices
<1> HIDE DEF c, P, K, J, w
<1>11. SumOf(w, K) \in Nat /\ SumOf(w, J) \in Nat /\ SumOf(w, K) < SumOf(w, J)
  BY <1>2, <1>3, <1>4, <1>5, <1>6, <1>7, <1>8, SumOfFewer
<1> QED BY <1>9, <1>10, <1>11

LEMMA CleanLintNeverLicenses == CleanLintLicensesNothing
<1> SUFFICES ASSUME NEW s \in Specs, High(s) = {}, ~ s.justified, Ok(GateOf(s))
             PROVE  /\ \A k \in Demanded(s) :
                         s.threshold = None \/ s.expect[k].weight > 0 => Passed(s.expect[k])
                    /\ \E k \in Demanded(s) : Authoritative(s.expect[k])
  BY DEF CleanLintLicensesNothing
<1> DEFINE g == GateOf(s)
<1>1. s \in GateSpec /\ Weighed(s)
  BY SpecsTyped
<1>2. Demanded(s) # {} /\ ~ UnjustifiedQuorum(s)
  BY DEF High
<1>3. \A k \in Demanded(s) : ~ (s.expect[k].kind = "count" /\ Tautological(s.expect[k].rule))
  BY DEF High
<1>4. \A k \in Demanded(s) : Authoritative(s.expect[k])
  BY <1>3 DEF Demanded, Authoritative
<1>5. /\ g.checks = ExpandRules(s) /\ g.threshold = s.threshold
      /\ RequiredOk(g) /\ Judgeable(g)
  BY <1>1, ExpandsToGate DEF GateOf, Ok
<1>6. ASSUME NEW k \in Demanded(s) PROVE <<k, s.expect[k]>> \in Gating(g)
  <2>1. k \in 1 .. Len(s.expect)
    BY <1>1, ExpandsToGate DEF Demanded
  <2>2. g.checks[k] = s.expect[k] /\ k \in DOMAIN g.checks
    <3>1. /\ Len(s.expect) \in Nat /\ Len(Added(s)) \in Nat
          /\ Len(ExpandRules(s)) = Len(s.expect) + Len(Added(s))
          /\ ExpandRules(s)[k] = s.expect[k]
          /\ DOMAIN ExpandRules(s) = 1 .. Len(ExpandRules(s))
      BY <1>1, <2>1, ExpandsToGate
    <3>2. k \in 1 .. Len(ExpandRules(s))
      BY <2>1, <3>1
    <3> QED BY <1>5, <3>1, <3>2
  <2> HIDE DEF g
  <2> QED BY <1>4, <2>2 DEF Gating, CheckSet
<1> HIDE DEF g
<1>7. ASSUME NEW k \in Demanded(s), s.threshold = None \/ s.expect[k].weight > 0
      PROVE  Passed(s.expect[k])
  <2> DEFINE p == <<k, s.expect[k]>>
  <2>1. p \in Gating(g) /\ p[2] = s.expect[k]
    BY <1>6
  <2> HIDE DEF p
  <2>2. CASE s.threshold = None
    <3>1. {q \in Gating(g) : Passed(q[2])} = Gating(g)
      BY <1>5, <2>2 DEF RequiredOk, Suffices
    <3> QED BY <2>1, <3>1
  <2>3. CASE s.threshold # None
    <3>1. s.threshold \in 1 .. 100
      BY <1>1, <2>3 DEF GateSpec
    <3>2. g.threshold = 100
      BY <1>2, <1>5, <2>3, <3>1 DEF UnjustifiedQuorum, Quorum
    <3>3. p[2].weight > 0
      BY <1>7, <2>1, <2>3
    <3> QED BY <1>5, <2>1, <3>2, <3>3, FullQuorumPasses
  <2> QED BY <2>2, <2>3
<1> QED BY <1>2, <1>4, <1>7

LEMMA CombinationsNeedEach == CombinedNeedsEach
<1>1. \A s \in Specs : Ok(GateOf(s)) => Readable
  BY DEF Ok
<1>2. CASE Readable
  <2>1. Inconclusive(Specs) = {}
    BY <1>2 DEF Inconclusive
  <2> QED BY <1>2, <2>1 DEF CombinedNeedsEach, Combine
<1>3. CASE ~ Readable
  <2>1. Inconclusive(Specs) = Specs
    BY <1>3 DEF Inconclusive
  <2> QED BY <1>1, <1>3, <2>1 DEF CombinedNeedsEach, Combine
<1> QED BY <1>2, <1>3

-----------------------------------------------------------------------------
(* How far a call meets an expected one.                                   *)

\* What of a call its score depends on.
IsCall(c) == c.args \in Readables \cup {None, Unreadable}

\* A set of numbers has its Min, which is the least of them.
LEMMA LeastIsMin ==
  ASSUME NEW T \in SUBSET Nat, T # {}
  PROVE  Min(T) \in T /\ \A y \in T : Min(T) <= y
BY LeastNatural DEF Min

\* A set lists its members.
LEMMA ListedMembers ==
  ASSUME NEW S, IsFiniteSet(S)
  PROVE  /\ Cardinality(S) \in Nat
         /\ \A n \in 1 .. Cardinality(S) : SetToSeq(S)[n] \in S
<1>1. Cardinality(S) \in Nat /\ ExistsBijection(1 .. Cardinality(S), S)
  BY FS_CardinalityType
<1>2. PICK f \in [1 .. Cardinality(S) -> S] : IsInjective(f)
  BY <1>1 DEF ExistsBijection, Bijection, Injection, Surjection, IsInjective
<1>3. SetToSeq(S) \in [1 .. Cardinality(S) -> S]
  BY <1>2 DEF SetToSeq
<1> QED BY <1>1, <1>3

\* A part of a share is no more than the share.
LEMMA ShareOfParts ==
  ASSUME NEW s \in Nat, NEW c \in Nat, NEW u \in Nat, c <= u, u # 0
  PROVE  (s * c) \div u \in 0 .. s
<1>1. s * c \in Nat /\ s * c <= s * u
  OBVIOUS
<1>2. (s * c) \div u \in Nat /\ (s * c) \div u <= s
  <2>1. (s * c) \div u \in Nat
    BY <1>1
  <2>2. u * ((s * c) \div u) <= s * c
    BY <1>1
  <2> DEFINE q == (s * c) \div u
  <2>3. u * q <= u * s
    BY <1>1, <2>2, <2>1
  <2> HIDE DEF q
  <2>4. q <= s
    BY <2>1, <2>3 DEF q
  <2> QED BY <2>1, <2>4 DEF q
<1> QED BY <1>2

\* Values are finite, so that their parts can be counted.
LEMMA PartsAreShares ==
  ASSUME NEW x \in Value, NEW y \in Value, x # y, x.shape = y.shape, NEW s \in Nat
  PROVE  (s * Cardinality(x.parts \cap y.parts)) \div Cardinality(x.parts \cup y.parts) \in 0 .. s
<1>1. x.parts \subseteq Needles /\ y.parts \subseteq Needles
  BY DEF Value
<1> DEFINE I == x.parts \cap y.parts
           U == x.parts \cup y.parts
<1>2. IsFiniteSet(U)
  BY <1>1, FS_Subset, TrajectoryAssumption
<1>3. Cardinality(U) \in Nat /\ Cardinality(I) \in Nat /\ Cardinality(I) <= Cardinality(U)
  <2>1. I \in SUBSET U
    OBVIOUS
  <2> HIDE DEF I, U
  <2>2. IsFiniteSet(I) /\ Cardinality(I) <= Cardinality(U)
    BY <1>2, <2>1, FS_Subset
  <2> QED BY <1>2, <2>2, FS_CardinalityType
<1>4. Cardinality(U) # 0
  <2>1. SUFFICES ASSUME Cardinality(U) = 0 PROVE FALSE
    OBVIOUS
  <2>2. U = {}
    BY <1>2, <2>1, FS_EmptySet
  <2>3. x.parts = y.parts
    BY <2>2
  <2> QED BY <2>3 DEF Value
<1> HIDE DEF I, U
<1>5. (s * Cardinality(I)) \div Cardinality(U) \in 0 .. s
  BY <1>3, <1>4, ShareOfParts
<1> QED BY <1>5 DEF I, U

\* As many shares as the whole was divided into, or fewer, are no more than the whole.
LEMMA SharesOfWhole ==
  ASSUME NEW m \in Nat, NEW a \in Nat, a # 0, NEW b \in Nat, b <= a
  PROVE  m \div a \in Nat /\ 0 .. (m \div a) * b \subseteq 0 .. m
<1> DEFINE q == m \div a
<1>1. q \in Nat /\ a * q <= m
  OBVIOUS
<1> HIDE DEF q
<1>2. q * b <= q * a /\ q * b \in Nat
  BY <1>1
<1>3. q * a = a * q
  BY <1>1
<1>4. q * b <= m
  BY <1>1, <1>2, <1>3
<1> QED BY <1>1, <1>2, <1>4 DEF q

\* Credit for arguments is some share of a unit.
LEMMA ArgCreditIsAShare ==
  ASSUME NEW expected, DOMAIN expected \subseteq Keys,
         expected = [k \in DOMAIN expected |-> expected[k]],
         \A k \in DOMAIN expected : expected[k] \in Value,
         NEW got \in Readables \cup {None, Unreadable}, NEW exact \in BOOLEAN
  PROVE  ArgCredit(expected, got, exact) \in 0 .. Unit
<1>1. Unit \in Nat /\ Unit \in 0 .. Unit /\ 0 \in 0 .. Unit
  BY TrajectoryAssumption
<1>2. CASE got \in {None, Unreadable} \/ expected = got \/ exact
  BY <1>1, <1>2 DEF ArgCredit
<1>3. CASE ~ (got \in {None, Unreadable} \/ expected = got \/ exact)
  <2>1. got \in Readables
    BY <1>3
  <2>2. PICK K \in SUBSET Keys : got \in [K -> Value]
    BY <2>1 DEF Readables
  <2> DEFINE all == DOMAIN expected \cup DOMAIN got
             both == DOMAIN expected \cap DOMAIN got
             share == Unit \div Cardinality(all)
             Credit(k) ==
               LET x == expected[k]  y == got[k]
               IN  IF x = y THEN share
                   ELSE IF x.shape = "dict" /\ y.shape = "dict"
                   THEN (share * Cardinality(x.parts \cap y.parts)) \div Cardinality(x.parts \cup y.parts)
                   ELSE 0
             N == Cardinality(both)
             w == [n \in 1 .. N |-> Credit(SetToSeq(both)[n])]
  <2>3. ArgCredit(expected, got, exact) = SumOf(w, 1 .. N)
    BY <1>3 DEF ArgCredit
  <2>4. all \subseteq Keys /\ both \subseteq all
    BY <2>2
  <2>5. IsFiniteSet(all) /\ IsFiniteSet(both) /\ N <= Cardinality(all) /\ N \in Nat
        /\ Cardinality(all) \in Nat
    <3> HIDE DEF all, both
    <3>1. IsFiniteSet(all)
      BY <2>4, FS_Subset, TrajectoryAssumption
    <3>2. IsFiniteSet(both) /\ N <= Cardinality(all)
      BY <2>4, <3>1, FS_Subset
    <3> QED BY <3>1, <3>2, FS_CardinalityType
  <2>6. Cardinality(all) # 0
    <3>1. SUFFICES ASSUME Cardinality(all) = 0 PROVE FALSE
      OBVIOUS
    <3>2. all = {}
      <4> HIDE DEF all
      <4> QED BY <2>5, <3>1, FS_EmptySet
    <3>3. DOMAIN expected = {} /\ DOMAIN got = {} /\ K = {}
      BY <2>2, <3>2
    <3>4. expected = got
      BY <2>2, <3>3
    <3> QED BY <1>3, <3>4
  <2>7. share \in Nat /\ 0 .. share * N \subseteq 0 .. Unit
    <3> HIDE DEF all, N
    <3> QED BY <1>1, <2>5, <2>6, SharesOfWhole
  <2>8. \A k \in both : Credit(k) \in 0 .. share
    <3> TAKE k \in both
    <3>1. expected[k] \in Value /\ got[k] \in Value
      BY <2>2
    <3> HIDE DEF share
    <3>2. CASE expected[k] # got[k] /\ expected[k].shape = "dict" /\ got[k].shape = "dict"
      BY <2>7, <3>1, <3>2, PartsAreShares
    <3>3. CASE ~ (expected[k] # got[k] /\ expected[k].shape = "dict" /\ got[k].shape = "dict")
      BY <2>7, <3>3
    <3> QED BY <3>2, <3>3
  <2> HIDE DEF all, both, share, Credit
  <2>9. Len(w) = N /\ Len(w) \in Nat /\ \A n \in 1 .. N : w[n] \in 0 .. share
    BY <2>5, <2>8, ListedMembers
  <2>10. SumOf(w, 1 .. Len(w)) \in 0 .. share * Len(w)
    <3> HIDE DEF w
    <3> QED BY <2>7, <2>9, SumOfShares
  <2> QED BY <2>3, <2>7, <2>9, <2>10
<1> QED BY <1>2, <1>3

\* A call scores no more than Unit for an expected one (trajectory.py: 0.0 .. 1.0).
LEMMA PairScoreIsAShare ==
  ASSUME NEW e, IsExpectation(e), NEW c, IsCall(c), NEW withArgs \in BOOLEAN,
         NEW exact \in BOOLEAN
  PROVE  PairScore(e, c, withArgs, exact) \in 0 .. Unit
<1>1. Unit \in Nat /\ Unit \in 0 .. Unit /\ 0 \in 0 .. Unit
  BY TrajectoryAssumption
<1>2. CASE e.args = None \/ ~withArgs \/ e.tool # c.tool
  BY <1>1, <1>2 DEF PairScore
<1>3. CASE ~ (e.args = None \/ ~withArgs \/ e.tool # c.tool)
  <2>1. CASE \E k \in DOMAIN e.args : IsMatcher(e.args[k])
    BY <1>1, <1>3, <2>1 DEF PairScore
  <2>2. CASE ~ \E k \in DOMAIN e.args : IsMatcher(e.args[k])
    <3>1. PairScore(e, c, withArgs, exact) = ArgCredit(e.args, c.args, exact)
      BY <1>3, <2>2 DEF PairScore
    <3>2. /\ DOMAIN e.args \subseteq Keys
          /\ e.args = [k \in DOMAIN e.args |-> e.args[k]]
          /\ \A k \in DOMAIN e.args : e.args[k] \in Value
      BY <1>3, <2>2 DEF IsExpectation
    <3>3. c.args \in Readables \cup {None, Unreadable}
      BY DEF IsCall
    <3> QED BY <3>1, <3>2, <3>3, ArgCreditIsAShare
  <2> QED BY <2>1, <2>2
<1> QED BY <1>2, <1>3



-----------------------------------------------------------------------------
(* Assignments, and what they score.                                       *)

\* The expected calls of a rule, and a stream of calls.
IsExpected(expected) ==
  /\ expected \in Seq(Range(expected)) \ {<<>>}
  /\ \A n \in DOMAIN expected : IsExpectation(expected[n])

\* A stream of calls, whatever their tools.
IsStream(arrived) == arrived \in Seq(Range(arrived)) /\ \A j \in DOMAIN arrived : IsCall(arrived[j])

\* What each expected call scores by an assignment.
Shares(expected, arrived, withArgs, to) ==
  [n \in DOMAIN expected |->
     IF to[n] = None THEN 0 ELSE PairScore(expected[n], arrived[to[n]], withArgs, FALSE)]

\* There is at least one expected call, and they are numbered.
LEMMA ExpectedTyped ==
  ASSUME NEW expected, IsExpected(expected)
  PROVE  /\ Len(expected) \in Nat \ {0}
         /\ DOMAIN expected = 1 .. Len(expected)
BY DEF IsExpected

\* The calls that arrived are numbered.
LEMMA StreamsTyped ==
  ASSUME NEW arrived, IsStream(arrived)
  PROVE  Len(arrived) \in Nat /\ DOMAIN arrived = 1 .. Len(arrived)
BY DEF IsStream

\* What an assignment scores is the sum of its shares; it is full when each of them is.
LEMMA SharesTyped ==
  ASSUME NEW expected, IsExpected(expected), NEW arrived, IsStream(arrived),
         NEW withArgs \in BOOLEAN, NEW to, \A n \in DOMAIN expected : to[n] \in DOMAIN arrived \cup {None}
  PROVE  LET w == Shares(expected, arrived, withArgs, to) IN
         /\ Len(w) = Len(expected) /\ Len(w) \in Nat
         /\ \A n \in 1 .. Len(w) : w[n] \in 0 .. Unit
         /\ Sum(expected, arrived, withArgs, to) = SumOf(w, 1 .. Len(w))
         /\ Sum(expected, arrived, withArgs, to) \in 0 .. Unit * Len(expected)
         /\ Sum(expected, arrived, withArgs, to) = Unit * Len(expected)
              <=> \A n \in DOMAIN expected : w[n] = Unit
<1> DEFINE w == Shares(expected, arrived, withArgs, to)
<1>1. Len(expected) \in Nat \ {0} /\ DOMAIN expected = 1 .. Len(expected)
  BY ExpectedTyped
<1>2. Unit \in Nat /\ 0 \in 0 .. Unit
  BY TrajectoryAssumption
<1>3. Len(w) = Len(expected) /\ Len(w) \in Nat
  BY <1>1 DEF Shares
<1>4. ASSUME NEW n \in 1 .. Len(w) PROVE w[n] \in 0 .. Unit
  <2>1. n \in DOMAIN expected
    BY <1>1, <1>3, <1>4
  <2>2. CASE to[n] = None
    BY <1>2, <2>1, <2>2 DEF Shares
  <2>3. CASE to[n] # None
    <3>1. IsExpectation(expected[n]) /\ IsCall(arrived[to[n]])
      BY <2>1, <2>3 DEF IsExpected, IsStream
    <3>2. w[n] = PairScore(expected[n], arrived[to[n]], withArgs, FALSE)
      BY <2>1, <2>3 DEF Shares
    <3> QED BY <3>1, <3>2, PairScoreIsAShare
  <2> QED BY <2>2, <2>3
<1>5. Sum(expected, arrived, withArgs, to) = SumOf(w, 1 .. Len(w))
  BY <1>1, <1>3 DEF Sum, Shares
<1> HIDE DEF w
<1>6. /\ SumOf(w, 1 .. Len(w)) \in 0 .. Unit * Len(w)
      /\ SumOf(w, 1 .. Len(w)) = Unit * Len(w) <=> \A n \in 1 .. Len(w) : w[n] = Unit
  BY <1>2, <1>3, <1>4, SumOfShares
<1> QED BY <1>1, <1>3, <1>4, <1>5, <1>6 DEF w

\* An assignment scores no less than another one that scores less at each expected call.
LEMMA SharesCompare ==
  ASSUME NEW expected, IsExpected(expected), NEW arrived, IsStream(arrived),
         NEW spoilt, IsStream(spoilt), NEW withArgs \in BOOLEAN,
         NEW to, \A n \in DOMAIN expected : to[n] \in DOMAIN arrived \cup {None},
         NEW by, \A n \in DOMAIN expected : by[n] \in DOMAIN spoilt \cup {None},
         \A n \in DOMAIN expected :
           Shares(expected, spoilt, withArgs, by)[n] <= Shares(expected, arrived, withArgs, to)[n]
  PROVE  Sum(expected, spoilt, withArgs, by) <= Sum(expected, arrived, withArgs, to)
<1> DEFINE w == Shares(expected, spoilt, withArgs, by)
           v == Shares(expected, arrived, withArgs, to)
<1>1. DOMAIN expected = 1 .. Len(expected)
  BY ExpectedTyped
<1>2. /\ Len(w) = Len(expected) /\ Len(w) \in Nat /\ \A n \in 1 .. Len(w) : w[n] \in 0 .. Unit
      /\ Sum(expected, spoilt, withArgs, by) = SumOf(w, 1 .. Len(w))
  BY SharesTyped
<1>3. /\ Len(v) = Len(expected) /\ Len(v) \in Nat /\ \A n \in 1 .. Len(v) : v[n] \in 0 .. Unit
      /\ Sum(expected, arrived, withArgs, to) = SumOf(v, 1 .. Len(v))
  BY SharesTyped
<1>4. \A n \in 1 .. Len(w) : w[n] <= v[n]
  BY <1>1, <1>2
<1> HIDE DEF w, v
<1>5. SumOf(w, 1 .. Len(w)) <= SumOf(v, 1 .. Len(w))
  <2>1. \A n \in 1 .. Len(w) : w[n] \in Nat /\ v[n] \in Nat /\ w[n] <= v[n]
    BY <1>2, <1>3, <1>4
  <2> QED BY <1>2, <1>3, <2>1, SumOfLess
<1> QED BY <1>2, <1>3, <1>5

-----------------------------------------------------------------------------
(* The table of ordered.                                                   *)

\* The Max of three numbers is the greatest of them.
LEMMA GreatestOfThree ==
  ASSUME NEW a \in Nat, NEW b \in Nat, NEW c \in Nat
  PROVE  /\ Max({a, b, c}) \in {a, b, c}
         /\ a <= Max({a, b, c}) /\ b <= Max({a, b, c}) /\ c <= Max({a, b, c})
<1>1. \E x \in {a, b, c} : \A y \in {a, b, c} : x >= y
  <2>1. CASE a >= b /\ a >= c
    BY <2>1
  <2>2. CASE b >= a /\ b >= c
    BY <2>2
  <2>3. CASE c >= a /\ c >= b
    BY <2>3
  <2> QED BY <2>1, <2>2, <2>3
<1>2. Max({a, b, c}) \in {a, b, c} /\ \A y \in {a, b, c} : Max({a, b, c}) >= y
  BY <1>1 DEF Max
<1> QED BY <1>2

\* An entry of the table, of the one above, the one on the left, the one above that and
\* what the calls score together.
Entry(above, left, corner, w) == Max({above, left, IF w > 0 THEN corner + w ELSE 0})

\* An entry is the greatest of its neighbours, the corner raised by what the pair scores.
LEMMA EntryIsGreatest ==
  ASSUME NEW a \in Nat, NEW b \in Nat, NEW c \in Nat, NEW w \in Nat
  PROVE  /\ Entry(a, b, c, w) \in Nat
         /\ a <= Entry(a, b, c, w) /\ b <= Entry(a, b, c, w)
         /\ w > 0 => c + w <= Entry(a, b, c, w)
         /\ Entry(a, b, c, w) \in {a, b} \/ (w > 0 /\ Entry(a, b, c, w) = c + w)
<1> DEFINE x == IF w > 0 THEN c + w ELSE 0
<1>1. x \in Nat
  OBVIOUS
<1> HIDE DEF x
<1>2. /\ Max({a, b, x}) \in {a, b, x} /\ a <= Max({a, b, x}) /\ b <= Max({a, b, x})
      /\ x <= Max({a, b, x})
  BY <1>1, GreatestOfThree
<1>3. Entry(a, b, c, w) = Max({a, b, x})
  BY DEF Entry, x
<1>4. Max({a, b, x}) \in Nat
  BY <1>1, <1>2
<1>5. (w > 0 => x = c + w) /\ (~(w > 0) => x = 0)
  BY DEF x
<1> QED BY <1>2, <1>3, <1>4, <1>5

\* Any table of that many rows and columns.
Tabled(w, I, J, d) ==
  /\ \A i \in 0 .. I, j \in 0 .. J : d[<<i, j>>] \in Nat
  /\ \A i \in 0 .. I : d[<<i, 0>>] = 0
  /\ \A j \in 0 .. J : d[<<0, j>>] = 0
  /\ \A i \in 1 .. I, j \in 1 .. J :
       d[<<i, j>>] = Entry(d[<<i - 1, j>>], d[<<i, j - 1>>], d[<<i - 1, j - 1>>], w[<<i, j>>])

\* A row of the table, from the row p before it.
RowOf(w, J, i, p, row) ==
  /\ row \in [0 .. J -> Nat] /\ row[0] = 0
  /\ \A j \in 1 .. J : row[j] = Entry(p[j], row[j - 1], p[j - 1], w[<<i, j>>])

\* Every row has a next one.
LEMMA RowsExist ==
  ASSUME NEW I \in Nat, NEW J \in Nat, NEW w \in [(1 .. I) \X (1 .. J) -> Nat],
         NEW i \in 1 .. I, NEW p \in [0 .. J -> Nat]
  PROVE  \E row : RowOf(w, J, i, p, row)
<1> DEFINE S == Nat
           G(j, x) == Entry(p[j], x, p[j - 1], w[<<i, j>>])
           step == [q \in (1 .. J) \X S |-> G(q[1], q[2])]
<1>1. \A j \in 1 .. J, x \in S : G(j, x) \in S
  <2> TAKE j \in 1 .. J, x \in S
  <2>1. p[j] \in Nat /\ p[j - 1] \in Nat /\ w[<<i, j>>] \in Nat
    OBVIOUS
  <2> QED BY <2>1, EntryIsGreatest
<1>2. 0 \in S
  OBVIOUS
<1> HIDE DEF G, S
<1>3. step \in [(1 .. J) \X S -> S]
  BY <1>1
<1>4. \A j \in 1 .. J, x \in S : step[<<j, x>>] = G(j, x)
  <2> TAKE j \in 1 .. J, x \in S
  <2>1. <<j, x>> \in (1 .. J) \X S
    OBVIOUS
  <2> QED BY <2>1
<1> HIDE DEF step
<1>5. PICK f : Recursion(J, S, 0, step, f)
  BY <1>2, <1>3, RecursionExists
<1>6. ASSUME NEW j \in 1 .. J PROVE f[j] = G(j, f[j - 1])
  <2>1. j - 1 \in 0 .. J
    OBVIOUS
  <2>2. f[j - 1] \in S
    BY <1>5, <2>1 DEF Recursion
  <2> QED BY <1>4, <1>5, <2>2 DEF Recursion
<1>7. f \in [0 .. J -> Nat] /\ f[0] = 0
  BY <1>5 DEF Recursion, S
<1> QED BY <1>6, <1>7 DEF RowOf, G

\* Every table of weights has its table of entries, which is what the recursion computes.
LEMMA TablesExist ==
  ASSUME NEW I \in Nat, NEW J \in Nat, NEW w \in [(1 .. I) \X (1 .. J) -> Nat]
  PROVE  \E d : Tabled(w, I, J, d)
<1> DEFINE S == [0 .. J -> Nat]
           NextRow(i, p) == CHOOSE row : RowOf(w, J, i, p, row)
           step == [q \in (1 .. I) \X S |-> NextRow(q[1], q[2])]
           base == [j \in 0 .. J |-> 0]
<1>1. ASSUME NEW i \in 1 .. I, NEW p \in S PROVE RowOf(w, J, i, p, NextRow(i, p))
  BY RowsExist
<1>2. \A i \in 1 .. I, p \in S : NextRow(i, p) \in S
  BY <1>1 DEF RowOf
<1> HIDE DEF NextRow
<1>3. step \in [(1 .. I) \X S -> S] /\ base \in S
  BY <1>2
<1>4. \A i \in 1 .. I, p \in S : step[<<i, p>>] = NextRow(i, p)
  <2> TAKE i \in 1 .. I, p \in S
  <2>1. <<i, p>> \in (1 .. I) \X S
    OBVIOUS
  <2> QED BY <2>1
<1> HIDE DEF step
<1>5. PICK f : Recursion(I, S, base, step, f)
  <2> HIDE DEF S, base
  <2> QED BY <1>3, RecursionExists
<1>6. \A i \in 0 .. I : f[i] \in S
  BY <1>5 DEF Recursion
<1>13. ASSUME NEW i \in 1 .. I PROVE RowOf(w, J, i, f[i - 1], f[i])
  <2>1. i - 1 \in 0 .. I
    OBVIOUS
  <2>2. f[i - 1] \in S
    BY <1>6, <2>1
  <2>3. f[i] = NextRow(i, f[i - 1])
    BY <1>4, <1>5, <2>2 DEF Recursion
  <2> QED BY <1>1, <2>2, <2>3
<1>14. f[0] = base
  BY <1>5 DEF Recursion
<1> DEFINE d == [at \in (0 .. I) \X (0 .. J) |-> f[at[1]][at[2]]]
<1>7. \A i \in 0 .. I, j \in 0 .. J : d[<<i, j>>] = f[i][j]
  <2> TAKE i \in 0 .. I, j \in 0 .. J
  <2>1. <<i, j>> \in (0 .. I) \X (0 .. J)
    OBVIOUS
  <2> QED BY <2>1
<1> HIDE DEF d
<1>8. \A i \in 0 .. I, j \in 0 .. J : d[<<i, j>>] \in Nat
  <2> TAKE i \in 0 .. I, j \in 0 .. J
  <2>1. f[i] \in [0 .. J -> Nat]
    BY <1>6
  <2> QED BY <1>7, <2>1
<1>9. ASSUME NEW i \in 0 .. I PROVE d[<<i, 0>>] = 0
  <2>1. 0 \in 0 .. J
    OBVIOUS
  <2>2. CASE i = 0
    BY <1>7, <1>14, <2>1, <2>2
  <2>3. CASE i # 0
    <3>1. i \in 1 .. I
      BY <2>3
    <3>2. f[i][0] = 0
      BY <1>13, <3>1 DEF RowOf
    <3> QED BY <1>7, <2>1, <3>2
  <2> QED BY <2>2, <2>3
<1>10. \A j \in 0 .. J : d[<<0, j>>] = 0
  <2> TAKE j \in 0 .. J
  <2>1. 0 \in 0 .. I
    OBVIOUS
  <2> QED BY <1>7, <1>14, <2>1
<1>11. ASSUME NEW i \in 1 .. I, NEW j \in 1 .. J
       PROVE  d[<<i, j>>] = Entry(d[<<i - 1, j>>], d[<<i, j - 1>>], d[<<i - 1, j - 1>>], w[<<i, j>>])
  <2>1. f[i][j] = Entry(f[i - 1][j], f[i][j - 1], f[i - 1][j - 1], w[<<i, j>>])
    BY <1>13 DEF RowOf
  <2>2. i \in 0 .. I /\ i - 1 \in 0 .. I /\ j \in 0 .. J /\ j - 1 \in 0 .. J
    OBVIOUS
  <2>3. /\ d[<<i, j>>] = f[i][j] /\ d[<<i - 1, j>>] = f[i - 1][j]
        /\ d[<<i, j - 1>>] = f[i][j - 1] /\ d[<<i - 1, j - 1>>] = f[i - 1][j - 1]
    BY <1>7, <2>2
  <2> QED BY <2>1, <2>3
<1>12. Tabled(w, I, J, d)
  BY <1>8, <1>9, <1>10, <1>11 DEF Tabled
<1> QED BY <1>12

\* What the calls of a stream score for the expected ones.
Pairs(expected, arrived, withArgs) ==
  [at \in (1 .. Len(expected)) \X (1 .. Len(arrived)) |->
     PairScore(expected[at[1]], arrived[at[2]], withArgs, FALSE)]

\* What every pair of an expected and an arrived call scores.
LEMMA PairsTyped ==
  ASSUME NEW expected, IsExpected(expected), NEW arrived, IsStream(arrived), NEW withArgs \in BOOLEAN
  PROVE  LET w == Pairs(expected, arrived, withArgs) IN
         /\ w \in [(1 .. Len(expected)) \X (1 .. Len(arrived)) -> 0 .. Unit]
         /\ \A i \in 1 .. Len(expected), j \in 1 .. Len(arrived) :
              w[<<i, j>>] = PairScore(expected[i], arrived[j], withArgs, FALSE)
<1> DEFINE P(i, j) == PairScore(expected[i], arrived[j], withArgs, FALSE)
<1>1. /\ DOMAIN expected = 1 .. Len(expected) /\ DOMAIN arrived = 1 .. Len(arrived)
      /\ Len(expected) \in Nat /\ Len(arrived) \in Nat
  BY ExpectedTyped, StreamsTyped
<1>2. \A i \in 1 .. Len(expected), j \in 1 .. Len(arrived) : P(i, j) \in 0 .. Unit
  <2> TAKE i \in 1 .. Len(expected), j \in 1 .. Len(arrived)
  <2>1. IsExpectation(expected[i]) /\ IsCall(arrived[j])
    BY <1>1 DEF IsExpected, IsStream
  <2> QED BY <2>1, PairScoreIsAShare
<1> HIDE DEF P
<1> DEFINE w == [at \in (1 .. Len(expected)) \X (1 .. Len(arrived)) |-> P(at[1], at[2])]
<1>3. w \in [(1 .. Len(expected)) \X (1 .. Len(arrived)) -> 0 .. Unit]
  BY <1>2
<1>4. \A i \in 1 .. Len(expected), j \in 1 .. Len(arrived) : w[<<i, j>>] = P(i, j)
  <2> TAKE i \in 1 .. Len(expected), j \in 1 .. Len(arrived)
  <2>1. <<i, j>> \in (1 .. Len(expected)) \X (1 .. Len(arrived))
    OBVIOUS
  <2> QED BY <2>1
<1>5. w = Pairs(expected, arrived, withArgs)
  BY DEF Pairs, P
<1> HIDE DEF w
<1> QED BY <1>1, <1>3, <1>4, <1>5 DEF P

\* The ordered score is the last entry of the table of the pairs.
LEMMA OrderedIsTabled ==
  ASSUME NEW expected, IsExpected(expected), NEW arrived, IsStream(arrived), NEW withArgs \in BOOLEAN
  PROVE  \E d : /\ Tabled(Pairs(expected, arrived, withArgs), Len(expected), Len(arrived), d)
                /\ ScoreOrdered(expected, arrived, withArgs) = d[<<Len(expected), Len(arrived)>>]
<1> DEFINE I == Len(expected)
           J == Len(arrived)
           w == Pairs(expected, arrived, withArgs)
           P(i, j) == PairScore(expected[i], arrived[j], withArgs, FALSE)
           G(f, i, j) ==
             IF i = 0 \/ j = 0 THEN 0
             ELSE Entry(f[<<i - 1, j>>], f[<<i, j - 1>>], f[<<i - 1, j - 1>>], P(i, j))
           Fits(f) == f = [at \in (0 .. I) \X (0 .. J) |-> G(f, at[1], at[2])]
           dp == CHOOSE f : Fits(f)
<1>1. I \in Nat /\ J \in Nat
  BY ExpectedTyped, StreamsTyped
<1>2. /\ w \in [(1 .. I) \X (1 .. J) -> 0 .. Unit]
      /\ \A i \in 1 .. I, j \in 1 .. J : w[<<i, j>>] = P(i, j)
  BY PairsTyped
<1>3. ScoreOrdered(expected, arrived, withArgs) = dp[<<I, J>>]
  BY DEF ScoreOrdered, Entry
<1> HIDE DEF w, P
<1>4. w \in [(1 .. I) \X (1 .. J) -> Nat]
  <2>1. 0 .. Unit \subseteq Nat
    BY TrajectoryAssumption
  <2> QED BY <1>2, <2>1
<1> HIDE DEF I, J
<1>5. PICK d : Tabled(w, I, J, d)
  BY <1>1, <1>4, TablesExist
<1> DEFINE e == [at \in (0 .. I) \X (0 .. J) |-> d[<<at[1], at[2]>>]]
<1>6. \A i \in 0 .. I, j \in 0 .. J : e[<<i, j>>] = d[<<i, j>>]
  <2> TAKE i \in 0 .. I, j \in 0 .. J
  <2>1. <<i, j>> \in (0 .. I) \X (0 .. J)
    OBVIOUS
  <2> QED BY <2>1
<1>7. e = [at \in (0 .. I) \X (0 .. J) |-> e[at]]
  OBVIOUS
<1> HIDE DEF e
<1>8. ASSUME NEW i \in 0 .. I, NEW j \in 0 .. J PROVE e[<<i, j>>] = G(e, i, j)
  <2>1. CASE i = 0 \/ j = 0
    BY <1>5, <1>6, <2>1 DEF Tabled
  <2>2. CASE ~ (i = 0 \/ j = 0)
    <3>1. /\ i \in 1 .. I /\ j \in 1 .. J /\ i - 1 \in 0 .. I /\ j - 1 \in 0 .. J
      BY <1>1, <2>2
    <3>2. d[<<i, j>>] = Entry(d[<<i - 1, j>>], d[<<i, j - 1>>], d[<<i - 1, j - 1>>], w[<<i, j>>])
      BY <1>5, <3>1 DEF Tabled
    <3>3. w[<<i, j>>] = P(i, j)
      BY <1>2, <3>1
    <3>4. /\ e[<<i, j>>] = d[<<i, j>>] /\ e[<<i - 1, j>>] = d[<<i - 1, j>>]
          /\ e[<<i, j - 1>>] = d[<<i, j - 1>>] /\ e[<<i - 1, j - 1>>] = d[<<i - 1, j - 1>>]
      BY <1>6, <3>1
    <3> QED BY <2>2, <3>2, <3>3, <3>4
  <2> QED BY <2>1, <2>2
<1> HIDE DEF G
<1>9. Fits(e)
  <2>1. \A at \in (0 .. I) \X (0 .. J) : e[at] = G(e, at[1], at[2])
    <3> TAKE at \in (0 .. I) \X (0 .. J)
    <3>1. at = <<at[1], at[2]>> /\ at[1] \in 0 .. I /\ at[2] \in 0 .. J
      OBVIOUS
    <3>2. e[<<at[1], at[2]>>] = G(e, at[1], at[2])
      BY <1>8, <3>1
    <3> QED BY <3>1, <3>2
  <2> QED BY <1>7, <2>1
<1>10. Fits(dp)
  <2> HIDE DEF Fits
  <2> QED BY <1>9
<1> HIDE DEF dp
<1>11. ASSUME NEW i \in 0 .. I, NEW j \in 0 .. J PROVE dp[<<i, j>>] = G(dp, i, j)
  <2>1. <<i, j>> \in (0 .. I) \X (0 .. J)
    OBVIOUS
  <2>2. dp = [at \in (0 .. I) \X (0 .. J) |-> G(dp, at[1], at[2])]
    BY <1>10
  <2> QED BY <2>1, <2>2
<1> HIDE DEF Fits
<1>12. \A i \in 0 .. I : dp[<<i, 0>>] = 0
  <2> TAKE i \in 0 .. I
  <2>1. 0 \in 0 .. J
    BY <1>1
  <2> QED BY <1>11, <2>1 DEF G
<1>13. \A j \in 0 .. J : dp[<<0, j>>] = 0
  <2> TAKE j \in 0 .. J
  <2>1. 0 \in 0 .. I
    BY <1>1
  <2> QED BY <1>11, <2>1 DEF G
<1>14. ASSUME NEW i \in 1 .. I, NEW j \in 1 .. J
       PROVE  dp[<<i, j>>] =
                Entry(dp[<<i - 1, j>>], dp[<<i, j - 1>>], dp[<<i - 1, j - 1>>], w[<<i, j>>])
  <2>1. i \in 0 .. I /\ j \in 0 .. J /\ i # 0 /\ j # 0
    BY <1>1
  <2>2. w[<<i, j>>] = P(i, j)
    BY <1>2
  <2> QED BY <1>11, <2>1, <2>2 DEF G
<1>15. \A i \in 0 .. I, j \in 0 .. J : dp[<<i, j>>] \in Nat
  <2> DEFINE Typed(n) == \A i \in 0 .. I, j \in 0 .. J : i + j = n => dp[<<i, j>>] \in Nat
             T == {n \in Nat : ~ Typed(n)}
  <2>1. T = {}
    <3> SUFFICES ASSUME T # {} PROVE FALSE
      OBVIOUS
    <3>1. PICK n \in T : \A k \in T : n <= k
      <4>1. T \in SUBSET Nat
        OBVIOUS
      <4> HIDE DEF T
      <4> QED BY <4>1, LeastNatural
    <3>2. PICK i \in 0 .. I, j \in 0 .. J : i + j = n /\ dp[<<i, j>>] \notin Nat
      BY <3>1
    <3>3. i \in 1 .. I /\ j \in 1 .. J
      <4>1. i # 0 /\ j # 0
        BY <1>12, <1>13, <3>2
      <4> QED BY <1>1, <4>1
    <3>4. \A k \in Nat : k < n => Typed(k)
      <4> TAKE k \in Nat
      <4>1. k \notin T => Typed(k)
        OBVIOUS
      <4> HIDE DEF T, Typed
      <4> QED BY <1>1, <3>1, <3>2, <4>1
    <3>5. /\ i - 1 \in 0 .. I /\ j - 1 \in 0 .. J /\ (i - 1) + j \in Nat /\ i + (j - 1) \in Nat
          /\ (i - 1) + (j - 1) \in Nat
          /\ (i - 1) + j < n /\ i + (j - 1) < n /\ (i - 1) + (j - 1) < n
      BY <1>1, <3>2, <3>3
    <3>6. dp[<<i - 1, j>>] \in Nat
      BY <3>4, <3>5
    <3>7. dp[<<i, j - 1>>] \in Nat
      BY <3>4, <3>5
    <3>8. dp[<<i - 1, j - 1>>] \in Nat
      BY <3>4, <3>5
    <3>9. w[<<i, j>>] \in Nat
      BY <1>4, <3>3
    <3> DEFINE a == dp[<<i - 1, j>>]
               b == dp[<<i, j - 1>>]
               c == dp[<<i - 1, j - 1>>]
               v == w[<<i, j>>]
    <3>11. a \in Nat /\ b \in Nat /\ c \in Nat /\ v \in Nat
      BY <3>6, <3>7, <3>8, <3>9
    <3>12. dp[<<i, j>>] = Entry(a, b, c, v)
      BY <1>14, <3>3
    <3> HIDE DEF a, b, c, v
    <3>13. Entry(a, b, c, v) \in Nat
      BY <3>11, EntryIsGreatest
    <3>10. dp[<<i, j>>] \in Nat
      BY <3>12, <3>13
    <3> QED BY <3>2, <3>10
  <2> TAKE i \in 0 .. I, j \in 0 .. J
  <2>2. i + j \in Nat
    BY <1>1
  <2>3. Typed(i + j)
    <3> HIDE DEF Typed
    <3> QED BY <2>1, <2>2
  <2> QED BY <2>3
<1>16. Tabled(w, I, J, dp)
  BY <1>12, <1>13, <1>14, <1>15 DEF Tabled
<1> QED BY <1>3, <1>16 DEF w, I, J

\* Rows of a table do not fall from left to right.
LEMMA RowsRise ==
  ASSUME NEW I \in Nat, NEW J \in Nat, NEW w \in [(1 .. I) \X (1 .. J) -> Nat],
         NEW d, Tabled(w, I, J, d), NEW i \in 0 .. I, NEW j \in 0 .. J, NEW k \in 0 .. j
  PROVE  d[<<i, k>>] <= d[<<i, j>>]
<1> DEFINE T == {n \in k .. j : ~ (d[<<i, k>>] <= d[<<i, n>>])}
<1>1. T = {}
  <2> SUFFICES ASSUME T # {} PROVE FALSE
    OBVIOUS
  <2>1. PICK n \in T : \A m \in T : n <= m
    <3>1. T \in SUBSET Nat
      OBVIOUS
    <3> HIDE DEF T
    <3> QED BY <3>1, LeastNatural
  <2>2. d[<<i, k>>] \in Nat
    BY DEF Tabled
  <2>3. n # k
    BY <2>1, <2>2
  <2> DEFINE l == n - 1
  <2>4. l \in k .. j /\ l < n /\ n \in 1 .. J /\ l \in 0 .. J /\ n \in 0 .. J
    BY <2>1, <2>3
  <2>5. d[<<i, k>>] <= d[<<i, l>>]
    <3>1. l \notin T
      <4> HIDE DEF l, T
      <4> QED BY <2>1, <2>4
    <3> QED BY <2>4, <3>1
  <2>6. d[<<i, l>>] <= d[<<i, n>>] /\ d[<<i, l>>] \in Nat /\ d[<<i, n>>] \in Nat
    <3>1. d[<<i, l>>] \in Nat /\ d[<<i, n>>] \in Nat
      BY <2>4 DEF Tabled
    <3>2. CASE i = 0
      BY <2>4, <3>2 DEF Tabled
    <3>3. CASE i # 0
      <4>1. i \in 1 .. I /\ i - 1 \in 0 .. I
        BY <3>3
      <4> DEFINE a == d[<<i - 1, n>>]
                 b == d[<<i, l>>]
                 c == d[<<i - 1, l>>]
                 v == w[<<i, n>>]
      <4>2. a \in Nat /\ b \in Nat /\ c \in Nat /\ v \in Nat
        BY <2>4, <4>1 DEF Tabled
      <4>3. d[<<i, n>>] = Entry(a, b, c, v)
        BY <2>4, <4>1 DEF Tabled
      <4> HIDE DEF a, b, c, v
      <4>4. b <= Entry(a, b, c, v)
        BY <4>2, EntryIsGreatest
      <4> QED BY <3>1, <4>3, <4>4 DEF b
    <3> QED BY <3>1, <3>2, <3>3
  <2>7. d[<<i, k>>] <= d[<<i, n>>]
    BY <2>2, <2>5, <2>6
  <2> QED BY <2>1, <2>7
<1>2. j \in k .. j
  OBVIOUS
<1> QED BY <1>1, <1>2

\* No assignment that keeps the order scores more than the table says.
LEMMA OrderedIsAtLeast ==
  ASSUME NEW expected, IsExpected(expected), NEW arrived, IsStream(arrived), NEW withArgs \in BOOLEAN,
         NEW to \in Assignments(expected, arrived), Increasing(to)
  PROVE  Sum(expected, arrived, withArgs, to) <= ScoreOrdered(expected, arrived, withArgs)
<1> DEFINE I == Len(expected)
           J == Len(arrived)
           w == Pairs(expected, arrived, withArgs)
           x == Shares(expected, arrived, withArgs, to)
<1>1. PICK d : Tabled(w, I, J, d) /\ ScoreOrdered(expected, arrived, withArgs) = d[<<I, J>>]
  BY OrderedIsTabled
<1>2. I \in Nat /\ J \in Nat /\ DOMAIN expected = 1 .. I /\ DOMAIN arrived = 1 .. J
  BY ExpectedTyped, StreamsTyped
<1>3. /\ w \in [(1 .. I) \X (1 .. J) -> 0 .. Unit]
      /\ \A i \in 1 .. I, j \in 1 .. J :
           w[<<i, j>>] = PairScore(expected[i], arrived[j], withArgs, FALSE)
  BY PairsTyped
<1>4. \A i \in 1 .. I : to[i] \in 1 .. J \cup {None}
  BY <1>2 DEF Assignments
<1>5. /\ Len(x) = I /\ \A i \in 1 .. I : x[i] \in 0 .. Unit
      /\ Sum(expected, arrived, withArgs, to) = SumOf(x, 1 .. I)
  BY <1>2, <1>4, SharesTyped
<1>6. /\ \A i \in 1 .. I : to[i] = None => x[i] = 0
      /\ \A i \in 1 .. I : to[i] # None => x[i] = w[<<i, to[i]>>]
  BY <1>2, <1>3, <1>4 DEF Shares
<1>7. DOMAIN to = 1 .. I
  BY <1>2 DEF Assignments
<1> HIDE DEF w, x, I, J
<1>8. w \in [(1 .. I) \X (1 .. J) -> Nat] /\ Unit \in Nat
  <2>1. 0 .. Unit \subseteq Nat /\ Unit \in Nat
    BY TrajectoryAssumption
  <2> QED BY <1>3, <2>1
<1>9. PICK f : Summed(x, 1 .. I, f)
  BY <1>2, <1>5, SumIsSummed
<1> DEFINE Below(n, j) == \A i \in 1 .. n : to[i] # None => to[i] <= j
           Good(n) == f[n] \in Nat /\ \A j \in 0 .. J : Below(n, j) => f[n] <= d[<<n, j>>]
           T == {n \in 0 .. I : ~ Good(n)}
<1>10. T = {}
  <2> SUFFICES ASSUME T # {} PROVE FALSE
    OBVIOUS
  <2>1. PICK n \in T : \A k \in T : n <= k
    <3>1. T \in SUBSET Nat
      OBVIOUS
    <3> HIDE DEF T
    <3> QED BY <3>1, LeastNatural
  <2>2. n # 0
    <3>1. f[0] = 0 /\ \A j \in 0 .. J : d[<<0, j>>] = 0
      BY <1>1, <1>9 DEF Summed, Tabled
    <3>2. Good(0)
      BY <3>1
    <3> QED BY <2>1, <3>2
  <2> DEFINE l == n - 1
  <2>3. n \in 1 .. I /\ l \in 0 .. I /\ l < n /\ l \in Nat /\ n \in Nat /\ n \in 0 .. I
    BY <1>2, <2>1, <2>2
  <2>4. Good(l)
    <3>1. l \notin T
      <4> HIDE DEF l, T
      <4> QED BY <2>1, <2>3
    <3> HIDE DEF Good
    <3> QED BY <2>3, <3>1
  <2>5. f[n] = f[l] + x[n] /\ f[l] \in Nat /\ x[n] \in Nat
    <3>1. f[n] = f[l] + x[n]
      BY <1>5, <1>9, <2>3 DEF Summed
    <3> QED BY <1>5, <1>8, <2>3, <2>4, <3>1
  <2>6. ASSUME NEW j \in 0 .. J, Below(n, j) PROVE f[n] <= d[<<n, j>>]
    <3>1. Below(l, j)
      BY <2>3, <2>6
    <3>2. f[l] <= d[<<l, j>>]
      BY <2>4, <3>1
    <3>3. d[<<l, j>>] \in Nat /\ d[<<n, j>>] \in Nat
      BY <1>1, <2>3 DEF Tabled
    <3>4. d[<<l, j>>] <= d[<<n, j>>]
      <4>1. CASE j = 0
        BY <1>1, <2>3, <4>1 DEF Tabled
      <4>2. CASE j # 0
        <5>1. j \in 1 .. J /\ j - 1 \in 0 .. J
          BY <1>2, <4>2
        <5> DEFINE b == d[<<n, j - 1>>]
                   c == d[<<l, j - 1>>]
                   a == d[<<l, j>>]
                   v == w[<<n, j>>]
        <5>2. b \in Nat /\ c \in Nat /\ v \in Nat /\ a \in Nat
          BY <1>1, <1>8, <2>3, <3>3, <5>1 DEF Tabled
        <5>3. d[<<n, j>>] = Entry(a, b, c, v)
          BY <1>1, <2>3, <5>1 DEF Tabled
        <5> HIDE DEF a, b, c, v
        <5>4. a <= Entry(a, b, c, v)
          BY <5>2, EntryIsGreatest
        <5> QED BY <5>3, <5>4 DEF a
      <4> QED BY <4>1, <4>2
    <3>5. CASE x[n] = 0
      BY <2>5, <3>2, <3>3, <3>4, <3>5
    <3>6. CASE x[n] # 0
      <4> DEFINE t == to[n]
                 u == t - 1
      <4>1. t \in 1 .. J /\ x[n] = w[<<n, t>>] /\ t # None
        BY <1>4, <1>6, <2>3, <3>6
      <4>2. t <= j /\ t \in 0 .. J /\ u \in 0 .. J /\ t \in 0 .. j
        BY <1>2, <2>3, <2>6, <4>1
      <4>3. Below(l, u)
        <5> SUFFICES ASSUME NEW i \in 1 .. l, to[i] # None PROVE to[i] <= u
          OBVIOUS
        <5>1. i \in 1 .. I /\ i < n
          <6>1. n = l + 1 /\ l \in Nat /\ n \in 1 .. I
            BY <2>3
          <6> HIDE DEF l
          <6> QED BY <1>2, <6>1
        <5>2. to[i] < t
          BY <1>7, <2>3, <4>1, <5>1 DEF Increasing
        <5>3. to[i] \in 1 .. J
          BY <1>4, <5>1
        <5> QED BY <1>2, <4>1, <5>2, <5>3
      <4>4. f[l] <= d[<<l, u>>]
        BY <2>4, <4>2, <4>3
      <4> DEFINE a == d[<<l, t>>]
                 b == d[<<n, u>>]
                 c == d[<<l, u>>]
                 v == w[<<n, t>>]
      <4>5. a \in Nat /\ b \in Nat /\ c \in Nat /\ d[<<n, t>>] \in Nat /\ v \in Nat
        BY <1>1, <2>3, <2>5, <4>1, <4>2 DEF Tabled
      <4>6. d[<<n, t>>] = Entry(a, b, c, v)
        BY <1>1, <2>3, <4>1 DEF Tabled
      <4>7. v > 0 /\ f[n] = f[l] + v /\ f[l] <= c
        BY <2>5, <3>6, <4>1, <4>4
      <4>8. d[<<n, t>>] <= d[<<n, j>>]
        BY <1>1, <1>2, <1>8, <2>3, <4>2, RowsRise
      <4> HIDE DEF a, b, c, v, t, u, l
      <4>9. c + v <= Entry(a, b, c, v)
        BY <4>5, <4>7, EntryIsGreatest
      <4> QED BY <2>5, <3>3, <4>5, <4>6, <4>7, <4>8, <4>9
    <3> QED BY <3>5, <3>6
  <2>7. Good(n)
    <3>1. f[n] \in Nat
      BY <2>5
    <3> QED BY <2>6, <3>1
  <2> QED BY <2>1, <2>7
<1>11. Good(I) /\ Below(I, J) /\ J \in 0 .. J
  <2>1. I \in 0 .. I /\ J \in 0 .. J
    BY <1>2
  <2>2. Below(I, J)
    BY <1>2, <1>4
  <2> HIDE DEF Good, Below
  <2> QED BY <1>10, <2>1, <2>2
<1>12. SumOf(x, 1 .. I) = f[I]
  BY <1>5, <1>9 DEF Summed
<1> QED BY <1>1, <1>5, <1>11, <1>12

-----------------------------------------------------------------------------
(* The best assignment in order.                                           *)

\* Nobody is given a call: nothing is scored.
LEMMA NobodyScores ==
  ASSUME NEW expected, IsExpected(expected), NEW arrived, IsStream(arrived), NEW withArgs \in BOOLEAN,
         NEW to, \A n \in DOMAIN expected : to[n] = None
  PROVE  Sum(expected, arrived, withArgs, to) = 0
<1> DEFINE w == Shares(expected, arrived, withArgs, to)
<1>1. DOMAIN expected = 1 .. Len(expected)
  BY ExpectedTyped
<1>2. Len(w) = Len(expected) /\ Len(w) \in Nat /\ Sum(expected, arrived, withArgs, to) = SumOf(w, 1 .. Len(w))
  BY SharesTyped
<1>3. \A n \in 1 .. Len(w) : w[n] = 0
  BY <1>1, <1>2 DEF Shares
<1> HIDE DEF w
<1>4. \A n \in 1 .. Len(w) : w[n] \in 0 .. 0
  BY <1>3
<1>5. SumOf(w, 1 .. Len(w)) \in 0 .. 0 * Len(w)
  BY <1>2, <1>4, SumOfShares
<1> QED BY <1>2, <1>5

\* One more expected call is given one.
Gives(expected, arrived, to, by, i, j) ==
  /\ to \in [DOMAIN expected -> DOMAIN arrived \cup {None}]
  /\ by \in [DOMAIN expected -> DOMAIN arrived \cup {None}]
  /\ i \in DOMAIN expected /\ j \in DOMAIN arrived /\ to[i] = None /\ by[i] = j
  /\ \A n \in DOMAIN expected : n # i => by[n] = to[n]

\* An assignment of one call more scores what that pair does more.
LEMMA OneMoreScores ==
  ASSUME NEW expected, IsExpected(expected), NEW arrived, IsStream(arrived), NEW withArgs \in BOOLEAN,
         NEW to, NEW by, NEW i, NEW j, Gives(expected, arrived, to, by, i, j)
  PROVE  Sum(expected, arrived, withArgs, by)
           = Sum(expected, arrived, withArgs, to) + Pairs(expected, arrived, withArgs)[<<i, j>>]
<1> DEFINE w == Shares(expected, arrived, withArgs, to)
           v == Shares(expected, arrived, withArgs, by)
<1> USE DEF Gives
<1>1. DOMAIN expected = 1 .. Len(expected) /\ DOMAIN arrived = 1 .. Len(arrived)
  BY ExpectedTyped, StreamsTyped
<1>2. /\ \A n \in DOMAIN expected : by[n] \in DOMAIN arrived \cup {None}
      /\ by[i] = j /\ \A n \in DOMAIN expected : n # i => by[n] = to[n]
  OBVIOUS
<1>3. j # None
  BY <1>1, EventAssumption
<1>4. /\ Len(w) = Len(expected) /\ Len(w) \in Nat /\ \A n \in 1 .. Len(w) : w[n] \in 0 .. Unit
      /\ Sum(expected, arrived, withArgs, to) = SumOf(w, 1 .. Len(w))
  BY SharesTyped
<1>5. /\ Len(v) = Len(expected) /\ \A n \in 1 .. Len(v) : v[n] \in 0 .. Unit
      /\ Sum(expected, arrived, withArgs, by) = SumOf(v, 1 .. Len(v))
  BY <1>2, SharesTyped
<1>6. v[i] = PairScore(expected[i], arrived[j], withArgs, FALSE) /\ w[i] = 0
  BY <1>2, <1>3 DEF Shares
<1>7. \A n \in DOMAIN expected : n # i => v[n] = w[n]
  BY <1>2 DEF Shares
<1> HIDE DEF w, v
<1>8. \A n \in 1 .. Len(w) : w[n] \in Nat /\ (n # i => v[n] = w[n])
  BY <1>1, <1>4, <1>7
<1>9. i \in 1 .. Len(w) /\ v[i] \in Nat /\ Len(v) = Len(w)
  BY <1>1, <1>4, <1>5
<1>10. SumOf(v, 1 .. Len(v)) = SumOf(w, 1 .. Len(w)) + v[i]
  <2>1. OneMore(w, v, i)
    BY <1>4, <1>6, <1>8, <1>9 DEF OneMore
  <2> QED BY <2>1, SumOfOneMore
<1>11. v[i] = Pairs(expected, arrived, withArgs)[<<i, j>>]
  <2>1. \A m \in 1 .. Len(expected), l \in 1 .. Len(arrived) :
          Pairs(expected, arrived, withArgs)[<<m, l>>]
            = PairScore(expected[m], arrived[l], withArgs, FALSE)
    BY PairsTyped
  <2> QED BY <1>1, <1>6, <2>1
<1> QED BY <1>4, <1>5, <1>10, <1>11

\* An assignment that keeps the order gives that many first expected calls that many first
\* arrived ones at most, and scores that.
Reaches(expected, arrived, withArgs, i, j, s, to) ==
  /\ to \in [DOMAIN expected -> DOMAIN arrived \cup {None}]
  /\ \A n \in DOMAIN expected : to[n] # None => n <= i /\ to[n] <= j
  /\ Increasing(to)
  /\ Sum(expected, arrived, withArgs, to) = s

\* Every entry is what some assignment, in order, of the calls so far scores.
LEMMA EntriesAreReached ==
  ASSUME NEW expected, IsExpected(expected), NEW arrived, IsStream(arrived), NEW withArgs \in BOOLEAN,
         NEW d, Tabled(Pairs(expected, arrived, withArgs), Len(expected), Len(arrived), d)
  PROVE  \A i \in 0 .. Len(expected), j \in 0 .. Len(arrived) :
           \E to : Reaches(expected, arrived, withArgs, i, j, d[<<i, j>>], to)
<1> DEFINE I == Len(expected)
           J == Len(arrived)
           w == Pairs(expected, arrived, withArgs)
           Lead(i, j, to) == Reaches(expected, arrived, withArgs, i, j, d[<<i, j>>], to)
           Good(n) == \A i \in 0 .. I, j \in 0 .. J : i + j = n => \E to : Lead(i, j, to)
           T == {n \in Nat : ~ Good(n)}
<1>1. I \in Nat /\ J \in Nat /\ DOMAIN expected = 1 .. I /\ DOMAIN arrived = 1 .. J
  BY ExpectedTyped, StreamsTyped
<1>2. /\ w \in [(1 .. I) \X (1 .. J) -> 0 .. Unit]
      /\ \A i \in 1 .. I, j \in 1 .. J :
           w[<<i, j>>] = PairScore(expected[i], arrived[j], withArgs, FALSE)
  BY PairsTyped
<1> HIDE DEF w
<1>3. Unit \in Nat /\ None \notin Int
  BY TrajectoryAssumption, EventAssumption
<1>4. T = {}
  <2> SUFFICES ASSUME T # {} PROVE FALSE
    OBVIOUS
  <2>1. PICK n \in T : \A k \in T : n <= k
    <3>1. T \in SUBSET Nat
      OBVIOUS
    <3> HIDE DEF T
    <3> QED BY <3>1, LeastNatural
  <2>2. \A k \in Nat : k < n => Good(k)
    <3> TAKE k \in Nat
    <3>1. k \notin T => Good(k)
      OBVIOUS
    <3>2. n \in Nat
      BY <2>1
    <3> HIDE DEF T, Good
    <3> QED BY <2>1, <3>1, <3>2
  <2>3. PICK i \in 0 .. I, j \in 0 .. J : i + j = n /\ ~ \E to : Lead(i, j, to)
    BY <2>1
  <2>6. n \in Nat
    BY <2>1
  <2> SUFFICES \E to : Lead(i, j, to)
    BY <2>3
  <2> HIDE DEF T, Good
  <2>4. CASE i = 0 \/ j = 0
    <3> DEFINE to == [m \in DOMAIN expected |-> None]
    <3>1. d[<<i, j>>] = 0
      BY <2>4, <1>1 DEF Tabled, I, J
    <3>2. Sum(expected, arrived, withArgs, to) = 0
      <4>1. \A m \in DOMAIN expected : to[m] = None
        OBVIOUS
      <4> HIDE DEF to
      <4> QED BY <4>1, NobodyScores
    <3>3. Lead(i, j, to)
      BY <3>1, <3>2 DEF Reaches, Increasing
    <3> QED BY <3>3
  <2>5. CASE i # 0 /\ j # 0
    <3> DEFINE k == i - 1
               l == j - 1
    <3>1. /\ i \in 1 .. I /\ j \in 1 .. J /\ k \in 0 .. I /\ l \in 0 .. J
          /\ k + j \in Nat /\ i + l \in Nat /\ k + l \in Nat /\ k < i /\ l < j
          /\ k + j < n /\ i + l < n /\ k + l < n
      <4>1. I \in Nat /\ J \in Nat
        BY <1>1
      <4>2. i \in Nat /\ j \in Nat /\ i <= I /\ j <= J /\ i + j = n
        BY <2>3, <4>1
      <4> HIDE DEF I, J
      <4> QED BY <2>5, <4>1, <4>2
    <3> DEFINE a == d[<<k, j>>]
               b == d[<<i, l>>]
               c == d[<<k, l>>]
               v == w[<<i, j>>]
    <3>2. a \in Nat /\ b \in Nat /\ c \in Nat /\ v \in Nat /\ v \in 0 .. Unit
      <4>1. a \in Nat /\ b \in Nat /\ c \in Nat
        BY <3>1 DEF Tabled, I, J
      <4>2. v \in 0 .. Unit
        BY <1>2, <3>1
      <4> QED BY <1>3, <4>1, <4>2
    <3>3. d[<<i, j>>] = Entry(a, b, c, v)
      BY <3>1 DEF Tabled, I, J, w
    <3>4. v = PairScore(expected[i], arrived[j], withArgs, FALSE)
      BY <1>2, <3>1
    <3>5. \E to : Lead(k, j, to)
      <4> HIDE DEF Lead, k, l
      <4> QED BY <2>2, <2>3, <3>1 DEF Good
    <3>6. \E to : Lead(i, l, to)
      <4> HIDE DEF Lead, k, l
      <4> QED BY <2>2, <2>3, <3>1 DEF Good
    <3>7. \E to : Lead(k, l, to)
      <4> HIDE DEF Lead, k, l
      <4> QED BY <2>2, <2>3, <3>1 DEF Good
    <3>8. \A m : m \in DOMAIN expected => m \in Int
      BY <1>1
    <3>9. Entry(a, b, c, v) \in {a, b} \/ (v > 0 /\ Entry(a, b, c, v) = c + v)
      <4> HIDE DEF a, b, c, v
      <4> QED BY <3>2, EntryIsGreatest
    <3>10. CASE Entry(a, b, c, v) = a
      <4>1. PICK to : Lead(k, j, to)
        BY <3>5
      <4>2. \A m \in DOMAIN expected : to[m] # None => m <= i
        BY <1>1, <3>1, <4>1 DEF Reaches
      <4>3. Lead(i, j, to)
        BY <3>3, <3>10, <4>1, <4>2 DEF Reaches
      <4> QED BY <4>3
    <3>11. CASE Entry(a, b, c, v) = b
      <4>1. PICK to : Lead(i, l, to)
        BY <3>6
      <4>2. \A m \in DOMAIN expected : to[m] # None => to[m] <= j
        BY <1>1, <1>3, <3>1, <4>1 DEF Reaches
      <4>3. Lead(i, j, to)
        BY <3>3, <3>11, <4>1, <4>2 DEF Reaches
      <4> QED BY <4>3
    <3>12. CASE Entry(a, b, c, v) = c + v
      <4>1. PICK to : Lead(k, l, to)
        BY <3>7
      <4> DEFINE by == [to EXCEPT ![i] = j]
      <4>2. to \in [DOMAIN expected -> DOMAIN arrived \cup {None}] /\ Increasing(to)
        BY <4>1 DEF Reaches
      <4>3. i \in DOMAIN expected /\ j \in DOMAIN arrived
        BY <1>1, <3>1
      <4>4. to[i] = None
        <5>1. ~(i <= k)
          BY <1>1, <3>1
        <5> QED BY <4>1, <4>3, <5>1 DEF Reaches
      <4>5. Sum(expected, arrived, withArgs, by) = c + v
        <5>1. Sum(expected, arrived, withArgs, to) = c
          BY <4>1 DEF Reaches
        <5>2. Sum(expected, arrived, withArgs, by)
                = Sum(expected, arrived, withArgs, to) + Pairs(expected, arrived, withArgs)[<<i, j>>]
          <6>1. Gives(expected, arrived, to, by, i, j)
            BY <4>2, <4>3, <4>4 DEF Gives
          <6> HIDE DEF by
          <6> QED BY <6>1, OneMoreScores
        <5> HIDE DEF by
        <5> QED BY <5>1, <5>2 DEF w
      <4>6. by \in [DOMAIN expected -> DOMAIN arrived \cup {None}]
        BY <4>2, <4>3
      <4>7. \A m \in DOMAIN expected : by[m] = IF m = i THEN j ELSE to[m]
        BY <4>2
      <4> HIDE DEF by
      <4>8. \A m \in DOMAIN expected : to[m] # None => m < i /\ to[m] < j /\ to[m] \in 1 .. J
        <5> TAKE m \in DOMAIN expected
        <5> HAVE to[m] # None
        <5>1. m <= k /\ to[m] <= l /\ to[m] \in 1 .. J /\ m \in 1 .. I
          BY <1>1, <4>1, <4>2 DEF Reaches
        <5> QED BY <1>1, <3>1, <5>1
      <4>9. \A m \in DOMAIN expected : by[m] # None => m <= i /\ by[m] <= j
        <5> TAKE m \in DOMAIN expected
        <5> HAVE by[m] # None
        <5>1. CASE m = i
          BY <1>1, <3>1, <4>7, <5>1
        <5>2. CASE m # i
          <6>1. by[m] = to[m]
            BY <4>7, <5>2
          <6>2. m < i /\ to[m] < j /\ to[m] \in 1 .. J /\ m \in 1 .. I
            BY <1>1, <4>8, <6>1
          <6> QED BY <1>1, <3>1, <6>1, <6>2
        <5> QED BY <5>1, <5>2
      <4>10. Increasing(by)
        <5> SUFFICES ASSUME NEW m \in DOMAIN by, NEW o \in DOMAIN by, m < o,
                            by[m] # None, by[o] # None
                     PROVE  by[m] < by[o]
          BY DEF Increasing
        <5>1. m \in DOMAIN expected /\ o \in DOMAIN expected /\ m \in 1 .. I /\ o \in 1 .. I
          BY <1>1, <4>6
        <5>2. o <= i
          BY <4>9, <5>1
        <5>3. m # i /\ by[m] = to[m]
          BY <1>1, <3>1, <4>7, <5>1, <5>2
        <5>4. CASE o = i
          BY <4>7, <4>8, <5>1, <5>3, <5>4
        <5>5. CASE o # i
          <6>1. by[o] = to[o]
            BY <4>7, <5>1, <5>5
          <6>2. m \in DOMAIN to /\ o \in DOMAIN to
            BY <4>2, <5>1
          <6> QED BY <4>2, <5>3, <6>1, <6>2 DEF Increasing
        <5> QED BY <5>4, <5>5
      <4>11. Lead(i, j, by)
        BY <3>3, <3>12, <4>5, <4>6, <4>9, <4>10 DEF Reaches
      <4> QED BY <4>11
    <3> QED BY <3>9, <3>10, <3>11, <3>12
  <2> QED BY <2>4, <2>5
<1>5. ASSUME NEW i \in 0 .. I, NEW j \in 0 .. J PROVE \E to : Lead(i, j, to)
  <2>1. i + j \in Nat
    BY <1>1
  <2>2. Good(i + j)
    <3> HIDE DEF Good
    <3> QED BY <1>4, <2>1
  <2> QED BY <2>2
<1> QED BY <1>5

\* ordered: what it scores is attained by an assignment that keeps the order.
LEMMA OrderedIsAttained ==
  ASSUME NEW expected, IsExpected(expected), NEW arrived, IsStream(arrived), NEW withArgs \in BOOLEAN
  PROVE  \E to \in Assignments(expected, arrived) :
           /\ Increasing(to)
           /\ Sum(expected, arrived, withArgs, to) = ScoreOrdered(expected, arrived, withArgs)
<1> DEFINE I == Len(expected)
           J == Len(arrived)
           w == Pairs(expected, arrived, withArgs)
<1>1. PICK d : Tabled(w, I, J, d) /\ ScoreOrdered(expected, arrived, withArgs) = d[<<I, J>>]
  BY OrderedIsTabled
<1>2. I \in Nat /\ J \in Nat /\ DOMAIN expected = 1 .. I /\ DOMAIN arrived = 1 .. J
  BY ExpectedTyped, StreamsTyped
<1>3. I \in 0 .. I /\ J \in 0 .. J
  BY <1>2
<1>4. PICK to : Reaches(expected, arrived, withArgs, I, J, d[<<I, J>>], to)
  BY <1>1, <1>3, EntriesAreReached
<1>5. to \in [DOMAIN expected -> DOMAIN arrived \cup {None}] /\ Increasing(to)
  BY <1>4 DEF Reaches
<1>6. to \in Assignments(expected, arrived)
  <2> SUFFICES ASSUME NEW m \in DOMAIN expected, NEW n \in DOMAIN expected,
                      m # n, to[m] = to[n], to[m] # None
               PROVE  FALSE
    BY <1>5 DEF Assignments
  <2>1. m \in 1 .. I /\ n \in 1 .. I /\ to[m] \in 1 .. J /\ to[n] \in 1 .. J
    BY <1>2, <1>5
  <2>2. CASE m < n
    BY <1>2, <1>5, <2>1, <2>2 DEF Increasing
  <2>3. CASE n < m
    BY <1>2, <1>5, <2>1, <2>3 DEF Increasing
  <2> QED BY <1>2, <2>1, <2>2, <2>3
<1> QED BY <1>1, <1>4, <1>5, <1>6 DEF Reaches

-----------------------------------------------------------------------------
(* Greedy claims.                                                          *)

\* A member that no other exceeds is the Max.
LEMMA MaxIs ==
  ASSUME NEW S \in SUBSET Nat, NEW x \in S, \A y \in S : y <= x
  PROVE  Max(S) = x
<1>1. \E z \in S : \A y \in S : z >= y
  OBVIOUS
<1>2. Max(S) \in S /\ \A y \in S : Max(S) >= y
  BY <1>1 DEF Max
<1> DEFINE m == Max(S)
<1>3. m \in S /\ m \in Nat /\ x \in Nat /\ m >= x
  BY <1>2
<1> HIDE DEF m
<1>4. m <= x
  BY <1>3
<1>5. m = x
  BY <1>3, <1>4
<1> QED BY <1>5 DEF m

\* The best of the calls that are left scores something, no less than any other, and comes
\* first among its equals; without one all the others score nothing.
LEMMA BestIsFirst ==
  ASSUME NEW score, DOMAIN score \subseteq Nat, \A j \in DOMAIN score : score[j] \in 0 .. Unit,
         NEW taken
  PROVE  LET b == Best(score, taken) IN
         /\ b \in DOMAIN score \cup {None}
         /\ b = None => \A j \in DOMAIN score \ taken : score[j] = 0
         /\ b # None =>
              /\ b \in DOMAIN score \ taken /\ score[b] > 0
              /\ \A j \in DOMAIN score \ taken :
                   score[j] <= score[b] /\ (score[j] = score[b] => b <= j)
<1> DEFINE J == DOMAIN score \ taken
           B == BestsOf(score, J)
           b == Best(score, taken)
<1>1. Unit \in Nat /\ None \notin Int
  BY TrajectoryAssumption, EventAssumption
<1>2. \A j \in J : score[j] \in Nat /\ score[j] \in 0 .. Unit /\ j \in Nat
  BY <1>1
<1>3. b = IF B = {} THEN None ELSE Min(B)
  BY DEF Best
<1>4. B = {j \in J : score[j] > 0 /\ \A i \in J : score[i] <= score[j]}
  BY DEF BestsOf
<1> HIDE DEF b, B, J
<1>5. B \in SUBSET Nat /\ B \subseteq J
  BY <1>2, <1>4
<1>6. CASE B = {}
  <2>1. ASSUME NEW k \in J, score[k] # 0 PROVE FALSE
    <3> DEFINE T == {score[j] : j \in J}
    <3>1. T \in SUBSET (0 .. Unit) /\ score[k] \in T
      BY <1>2
    <3> HIDE DEF T
    <3>2. PICK x \in T : \A y \in T : y <= x
      BY <1>1, <3>1, GreatestIsMax
    <3>3. PICK j \in J : score[j] = x
      BY <3>2 DEF T
    <3>4. \A i \in J : score[i] <= score[j]
      BY <3>2, <3>3 DEF T
    <3>5. score[j] > 0
      BY <1>2, <2>1, <3>4
    <3>6. j \in B
      BY <1>4, <3>4, <3>5
    <3> QED BY <1>6, <3>6
  <2>2. b = None
    BY <1>3, <1>6
  <2> QED BY <2>1, <2>2 DEF b, J
<1>7. CASE B # {}
  <2>1. b \in B /\ \A y \in B : b <= y
    BY <1>3, <1>5, <1>7, LeastIsMin
  <2>2. b \in J /\ score[b] > 0 /\ \A i \in J : score[i] <= score[b]
    BY <1>4, <2>1
  <2>3. ASSUME NEW j \in J, score[j] = score[b] PROVE b <= j
    <3>1. j \in B
      BY <1>4, <2>2, <2>3
    <3> QED BY <2>1, <3>1
  <2>4. b # None
    BY <1>1, <1>5, <2>1
  <2> QED BY <2>2, <2>3, <2>4 DEF b, J
<1> QED BY <1>6, <1>7

\* The calls that the expected ones before this one have claimed.
Taken(c, k) == {c[l] : l \in 1 .. k - 1} \ {None}

\* Each expected call has claimed its best one, of those that are not taken.
Greedy(expected, arrived, withArgs, c) ==
  /\ c \in [1 .. Len(expected) -> DOMAIN arrived \cup {None}]
  /\ \A k \in 1 .. Len(expected) : c[k] = Best(Scores(expected[k], arrived, withArgs), Taken(c, k))

\* What each arrived call scores for an expected one.
LEMMA ScoresTyped ==
  ASSUME NEW e, IsExpectation(e), NEW arrived, IsStream(arrived), NEW withArgs \in BOOLEAN
  PROVE  LET score == Scores(e, arrived, withArgs) IN
         /\ DOMAIN score = DOMAIN arrived /\ DOMAIN score \subseteq Nat
         /\ \A j \in DOMAIN arrived :
              score[j] = PairScore(e, arrived[j], withArgs, FALSE) /\ score[j] \in 0 .. Unit
<1> DEFINE P(j) == PairScore(e, arrived[j], withArgs, FALSE)
<1>1. DOMAIN arrived = 1 .. Len(arrived) /\ Len(arrived) \in Nat
  BY StreamsTyped
<1>2. \A j \in DOMAIN arrived : P(j) \in 0 .. Unit
  <2> TAKE j \in DOMAIN arrived
  <2>1. IsCall(arrived[j])
    BY DEF IsStream
  <2> QED BY <2>1, PairScoreIsAShare
<1>3. Scores(e, arrived, withArgs) = [j \in DOMAIN arrived |-> P(j)]
  BY DEF Scores
<1> HIDE DEF P
<1>4. 1 .. Len(arrived) \subseteq Nat
  BY <1>1
<1> DEFINE s == [j \in DOMAIN arrived |-> P(j)]
<1>5. DOMAIN s = DOMAIN arrived /\ \A j \in DOMAIN arrived : s[j] = P(j)
  OBVIOUS
<1> HIDE DEF s
<1>6. DOMAIN s \subseteq Nat /\ \A j \in DOMAIN arrived : s[j] \in 0 .. Unit
  BY <1>1, <1>2, <1>4, <1>5
<1> QED BY <1>3, <1>5, <1>6 DEF P, s

\* The claims that the recursion makes are greedy.
LEMMA ClaimsAreGreedy ==
  ASSUME NEW expected, IsExpected(expected), NEW arrived, IsStream(arrived), NEW withArgs \in BOOLEAN
  PROVE  Greedy(expected, arrived, withArgs, Claims(expected, arrived, withArgs))
<1> DEFINE N == Len(expected)
           A == DOMAIN arrived \cup {None}
           S == Seq(A)
           B(n, s) == Best(Scores(expected[n], arrived, withArgs), Range(s) \ {None})
           G(n, s) == Append(s, B(n, s))
           Fits(f) == f = [n \in 0 .. N |-> IF n = 0 THEN <<>> ELSE G(n, f[n - 1])]
           cl == CHOOSE f : Fits(f)
           step == [q \in (1 .. N) \X S |-> G(q[1], q[2])]
<1>1. N \in Nat /\ DOMAIN expected = 1 .. N
  BY ExpectedTyped
<1>2. Claims(expected, arrived, withArgs) = cl[N]
  BY DEF Claims
<1>3. ASSUME NEW n \in 1 .. N, NEW s PROVE B(n, s) \in A
  <2> DEFINE score == Scores(expected[n], arrived, withArgs)
  <2>1. IsExpectation(expected[n])
    BY <1>1 DEF IsExpected
  <2>2. /\ DOMAIN score = DOMAIN arrived /\ DOMAIN score \subseteq Nat
        /\ \A j \in DOMAIN arrived : score[j] \in 0 .. Unit
    BY <2>1, ScoresTyped
  <2> HIDE DEF score
  <2>3. Best(score, Range(s) \ {None}) \in DOMAIN score \cup {None}
    BY <2>2, BestIsFirst
  <2> QED BY <2>2, <2>3 DEF score
<1> HIDE DEF B, A
<1>4. \A n \in 1 .. N, s \in S : G(n, s) \in S
  BY <1>3
<1> HIDE DEF G
<1>5. step \in [(1 .. N) \X S -> S] /\ <<>> \in S
  BY <1>4
<1>6. \A n \in 1 .. N, s \in S : step[<<n, s>>] = G(n, s)
  <2> TAKE n \in 1 .. N, s \in S
  <2>1. <<n, s>> \in (1 .. N) \X S
    OBVIOUS
  <2> QED BY <2>1
<1> HIDE DEF step, N
<1>7. PICK f : Recursion(N, S, <<>>, step, f)
  <2> HIDE DEF S
  <2> QED BY <1>1, <1>5, RecursionExists
<1>8. Fits(f)
  <2>1. f \in [0 .. N -> S]
    BY <1>7 DEF Recursion
  <2>2. ASSUME NEW n \in 0 .. N PROVE f[n] = IF n = 0 THEN <<>> ELSE G(n, f[n - 1])
    <3>1. CASE n = 0
      BY <1>7, <3>1 DEF Recursion
    <3>2. CASE n # 0
      <4>1. n \in 1 .. N /\ n - 1 \in 0 .. N
        BY <1>1, <3>2
      <4>2. f[n - 1] \in S /\ f[n] = step[<<n, f[n - 1]>>]
        BY <1>7, <4>1 DEF Recursion
      <4> QED BY <1>6, <3>2, <4>1, <4>2
    <3> QED BY <3>1, <3>2
  <2> QED BY <2>1, <2>2
<1>9. Fits(cl)
  <2> HIDE DEF Fits
  <2> QED BY <1>8
<1> HIDE DEF cl
<1>10. cl[0] = <<>> /\ \A n \in 1 .. N : cl[n] = Append(cl[n - 1], B(n, cl[n - 1]))
  <2>1. cl[0] = <<>>
    BY <1>1, <1>9
  <2>2. ASSUME NEW n \in 1 .. N PROVE cl[n] = G(n, cl[n - 1])
    <3>1. n \in 0 .. N /\ n # 0
      BY <1>1
    <3> QED BY <1>9, <3>1
  <2> QED BY <2>1, <2>2 DEF G
<1> HIDE DEF Fits
<1> DEFINE Good(n) ==
             /\ cl[n] \in [1 .. n -> A]
             /\ \A k \in 1 .. n : cl[n][k] = Best(Scores(expected[k], arrived, withArgs), Taken(cl[n], k))
           T == {n \in 0 .. N : ~ Good(n)}
<1>11. T = {}
  <2> SUFFICES ASSUME T # {} PROVE FALSE
    OBVIOUS
  <2>1. PICK n \in T : \A k \in T : n <= k
    <3>1. T \in SUBSET Nat
      OBVIOUS
    <3> HIDE DEF T
    <3> QED BY <3>1, LeastNatural
  <2>2. n # 0
    <3>1. Good(0)
      BY <1>10
    <3> HIDE DEF Good
    <3> QED BY <2>1, <3>1
  <2> DEFINE l == n - 1
  <2>3. n \in 1 .. N /\ l \in 0 .. N /\ l < n /\ l \in Nat /\ n \in Nat /\ n = l + 1 /\ n \in 0 .. N
    BY <1>1, <2>1, <2>2
  <2>4. Good(l)
    <3>1. l \notin T
      <4> HIDE DEF l, T
      <4> QED BY <2>1, <2>3
    <3> HIDE DEF Good
    <3> QED BY <2>3, <3>1
  <2> DEFINE s == cl[l]
             t == cl[n]
             b == B(n, s)
  <2>5. s \in [1 .. l -> A] /\ s \in Seq(A) /\ Len(s) = l /\ b \in A
    BY <1>3, <2>3, <2>4
  <2>6. t = Append(s, b)
    BY <1>10, <2>3
  <2> HIDE DEF t, s, l, b
  <2>7. /\ t \in Seq(A) /\ Len(t) = n /\ t[n] = b
        /\ \A k \in 1 .. l : t[k] = s[k]
    BY <2>3, <2>5, <2>6, AppendProperties
  <2>8. t \in [1 .. n -> A]
    BY <2>7
  <2>9. ASSUME NEW k \in 1 .. n
        PROVE  t[k] = Best(Scores(expected[k], arrived, withArgs), Taken(t, k))
    <3>1. CASE k = n
      <4>1. Taken(t, n) = Range(s) \ {None}
        <5>1. Range(s) = {s[i] : i \in 1 .. l}
          BY <2>5 DEF Range
        <5>2. n - 1 = l
          BY <2>3
        <5> QED BY <2>7, <5>1, <5>2 DEF Taken
      <4> QED BY <2>7, <3>1, <4>1 DEF b, B
    <3>2. CASE k # n
      <4>1. k \in 1 .. l
        BY <2>3, <3>2
      <4>2. Taken(t, k) = Taken(s, k)
        <5>1. \A i \in 1 .. k - 1 : i \in 1 .. l /\ t[i] = s[i]
          BY <2>3, <2>7, <4>1
        <5> QED BY <5>1 DEF Taken
      <4> QED BY <2>4, <2>7, <4>1, <4>2 DEF s
    <3> QED BY <3>1, <3>2
  <2>10. Good(n)
    BY <2>8, <2>9 DEF t
  <2> HIDE DEF Good
  <2> QED BY <2>1, <2>10
<1>12. Good(N)
  <2>1. N \in 0 .. N
    BY <1>1
  <2> HIDE DEF Good
  <2> QED BY <1>11, <2>1
<1> QED BY <1>2, <1>12 DEF Greedy, A, N

\* A claim b on the calls of J, of those that are not taken.
Picks(score, J, taken, b) ==
  /\ b \in J \cup {None}
  /\ \A j \in J : score[j] \in 0 .. Unit
  /\ b = None => \A j \in J \ taken : score[j] = 0
  /\ b # None =>
       /\ b \in J \ taken /\ score[b] > 0
       /\ \A j \in J \ taken : score[j] <= score[b] /\ (score[j] = score[b] => b <= j)

\* What a greedy assignment claims, in the terms of its scores.
LEMMA GreedyClaims ==
  ASSUME NEW expected, IsExpected(expected), NEW arrived, IsStream(arrived), NEW withArgs \in BOOLEAN,
         NEW c, Greedy(expected, arrived, withArgs, c), NEW k \in 1 .. Len(expected),
         NEW score, score = Scores(expected[k], arrived, withArgs)
  PROVE  Picks(score, DOMAIN arrived, Taken(c, k), c[k])
<1>1. IsExpectation(expected[k])
  BY ExpectedTyped DEF IsExpected
<1>2. /\ DOMAIN score = DOMAIN arrived /\ DOMAIN score \subseteq Nat
      /\ \A j \in DOMAIN arrived : score[j] \in 0 .. Unit
  BY <1>1, ScoresTyped
<1>3. c[k] = Best(score, Taken(c, k))
  BY DEF Greedy
<1> DEFINE taken == Taken(c, k)
<1> HIDE DEF taken
<1>4. LET b == Best(score, taken) IN
         /\ b \in DOMAIN score \cup {None}
         /\ b = None => \A j \in DOMAIN score \ taken : score[j] = 0
         /\ b # None =>
              /\ b \in DOMAIN score \ taken /\ score[b] > 0
              /\ \A j \in DOMAIN score \ taken :
                   score[j] <= score[b] /\ (score[j] = score[b] => b <= j)
  BY <1>2, BestIsFirst
<1> QED BY <1>2, <1>3, <1>4 DEF taken, Picks

\* No call is claimed twice: greedy claims are an assignment.
LEMMA GreedyAssigns ==
  ASSUME NEW expected, IsExpected(expected), NEW arrived, IsStream(arrived), NEW withArgs \in BOOLEAN,
         NEW c, Greedy(expected, arrived, withArgs, c)
  PROVE  c \in Assignments(expected, arrived)
<1>1. DOMAIN expected = 1 .. Len(expected) /\ Len(expected) \in Nat
  BY ExpectedTyped
<1>2. c \in [DOMAIN expected -> DOMAIN arrived \cup {None}]
  BY <1>1 DEF Greedy
<1>3. ASSUME NEW m \in 1 .. Len(expected), NEW n \in 1 .. Len(expected), m < n, c[m] = c[n], c[n] # None
      PROVE  FALSE
  <2> DEFINE score == Scores(expected[n], arrived, withArgs)
  <2>1. c[n] \notin Taken(c, n)
    <3> HIDE DEF score
    <3>1. score = Scores(expected[n], arrived, withArgs)
      BY DEF score
    <3>2. Picks(score, DOMAIN arrived, Taken(c, n), c[n])
      BY <3>1, GreedyClaims
    <3> QED BY <1>3, <3>2 DEF Picks
  <2>2. m \in 1 .. n - 1
    BY <1>1, <1>3
  <2> QED BY <1>3, <2>1, <2>2 DEF Taken
<1>4. ASSUME NEW m \in DOMAIN expected, NEW n \in DOMAIN expected, m # n, c[m] = c[n], c[m] # None
      PROVE  FALSE
  <2>1. m \in 1 .. Len(expected) /\ n \in 1 .. Len(expected)
    BY <1>1
  <2>2. m < n \/ n < m
    BY <1>1, <1>4, <2>1
  <2> QED BY <1>3, <1>4, <2>1, <2>2
<1> QED BY <1>2, <1>4 DEF Assignments

\* The expected calls to which an assignment gives a call of their tool.
Served(expected, arrived, to) ==
  {n \in 1 .. Len(expected) : to[n] # None /\ expected[n].tool = arrived[to[n]].tool}

\* When names alone count, an assignment scores as many Units as it serves expected calls.
LEMMA SumByName ==
  ASSUME NEW expected, IsExpected(expected), NEW arrived, IsStream(arrived),
         NEW withArgs \in BOOLEAN, ~ withArgs,
         NEW to, \A n \in DOMAIN expected : to[n] \in DOMAIN arrived \cup {None}
  PROVE  LET D == Served(expected, arrived, to) IN
         /\ IsFiniteSet(D) /\ Cardinality(D) \in Nat
         /\ Sum(expected, arrived, withArgs, to) = Unit * Cardinality(D)
<1> DEFINE w == Shares(expected, arrived, withArgs, to)
           D == Served(expected, arrived, to)
<1>1. DOMAIN expected = 1 .. Len(expected) /\ Unit \in Nat
  BY ExpectedTyped, TrajectoryAssumption
<1>3. /\ Len(w) = Len(expected) /\ Len(w) \in Nat
      /\ Sum(expected, arrived, withArgs, to) = SumOf(w, 1 .. Len(w))
  BY SharesTyped
<1>4. \A n \in 1 .. Len(w) : w[n] = IF n \in D THEN Unit ELSE 0
  BY <1>1, <1>3 DEF Shares, Served, PairScore
<1>5. D \in SUBSET (1 .. Len(w))
  BY <1>3 DEF Served
<1> HIDE DEF w, D
<1>6. IsFiniteSet(D) /\ Cardinality(D) \in Nat /\ SumOf(w, 1 .. Len(w)) = Unit * Cardinality(D)
  BY <1>1, <1>3, <1>4, <1>5, SumOfMembers
<1> QED BY <1>3, <1>6 DEF D

\* By name a greedy assignment serves as many expected calls as any other: whatever is
\* not served finds all calls of its tool claimed.
LEMMA GreedyServesMost ==
  ASSUME NEW expected, IsExpected(expected), NEW arrived, IsStream(arrived),
         NEW withArgs \in BOOLEAN, ~ withArgs,
         NEW c, Greedy(expected, arrived, withArgs, c), NEW to \in Assignments(expected, arrived)
  PROVE  Sum(expected, arrived, withArgs, to) <= Sum(expected, arrived, withArgs, c)
<1> DEFINE I == 1 .. Len(expected)
           D == Served(expected, arrived, to)
           C == Served(expected, arrived, c)
           Claimed(t) == \A j \in DOMAIN arrived : arrived[j].tool = t => \E l \in I : c[l] = j
           g == [n \in D |-> IF Claimed(expected[n].tool) THEN CHOOSE l \in I : c[l] = to[n] ELSE n]
<1>1. DOMAIN expected = I /\ Unit \in Nat \ {0} /\ Len(expected) \in Nat
  BY ExpectedTyped, TrajectoryAssumption
<1>2. c \in Assignments(expected, arrived)
  BY <1>1, GreedyAssigns
<1>3. /\ to \in [I -> DOMAIN arrived \cup {None}] /\ c \in [I -> DOMAIN arrived \cup {None}]
      /\ \A m, n \in I : m # n /\ to[m] = to[n] => to[m] = None
  BY <1>1, <1>2 DEF Assignments
<1>4. D \subseteq I /\ C \subseteq I /\ \A n \in D : to[n] \in DOMAIN arrived
  BY <1>3 DEF Served
<1>5. ASSUME NEW n \in I PROVE c[n] # None => n \in C
  <2> DEFINE score == Scores(expected[n], arrived, withArgs)
  <2> HAVE c[n] # None
  <2>1. c[n] \in DOMAIN arrived /\ score[c[n]] > 0
    <3>1. score = Scores(expected[n], arrived, withArgs)
      OBVIOUS
    <3> HIDE DEF score
    <3>2. Picks(score, DOMAIN arrived, Taken(c, n), c[n])
      BY <1>1, <3>1, GreedyClaims
    <3> QED BY <3>2 DEF Picks
  <2>2. expected[n].tool = arrived[c[n]].tool
    <3> DEFINE P(j) == PairScore(expected[n], arrived[j], withArgs, FALSE)
    <3>1. score = [j \in DOMAIN arrived |-> P(j)]
      BY DEF Scores
    <3>2. \A j : P(j) = IF expected[n].tool # arrived[j].tool THEN 0 ELSE Unit
      BY DEF PairScore
    <3> HIDE DEF score, P
    <3> QED BY <2>1, <3>1, <3>2
  <2> QED BY <2>2 DEF Served
<1>6. ASSUME NEW n \in D, ~ Claimed(expected[n].tool) PROVE n \in C
  <2> SUFFICES ASSUME c[n] = None PROVE FALSE
    BY <1>4, <1>5
  <2> DEFINE score == Scores(expected[n], arrived, withArgs)
  <2>1. \A j \in DOMAIN arrived \ Taken(c, n) : score[j] = 0
    <3>1. score = Scores(expected[n], arrived, withArgs) /\ n \in 1 .. Len(expected)
      BY <1>4
    <3> HIDE DEF score
    <3>2. Picks(score, DOMAIN arrived, Taken(c, n), c[n])
      BY <1>1, <3>1, GreedyClaims
    <3> QED BY <1>5, <3>2 DEF Picks
  <2>2. PICK j \in DOMAIN arrived : arrived[j].tool = expected[n].tool /\ ~ \E l \in I : c[l] = j
    BY <1>6
  <2>3. score[j] = Unit
    BY <2>2 DEF Scores, PairScore
  <2>4. j \notin Taken(c, n)
    <3>1. 1 .. n - 1 \subseteq I
      BY <1>1, <1>4
    <3> QED BY <2>2, <3>1 DEF Taken
  <2> QED BY <1>1, <2>1, <2>2, <2>3, <2>4
<1>7. ASSUME NEW n \in D, Claimed(expected[n].tool)
      PROVE  g[n] \in C /\ c[g[n]] = to[n] /\ expected[g[n]].tool = expected[n].tool
  <2>1. to[n] \in DOMAIN arrived /\ arrived[to[n]].tool = expected[n].tool /\ to[n] # None
    BY <1>4 DEF Served
  <2>2. \E l \in I : c[l] = to[n]
    BY <1>7, <2>1
  <2>3. g[n] = CHOOSE l \in I : c[l] = to[n]
    BY <1>7
  <2> HIDE DEF g
  <2>4. g[n] \in I /\ c[g[n]] = to[n]
    BY <2>2, <2>3
  <2>5. g[n] \in C
    BY <1>5, <2>1, <2>4
  <2>6. expected[g[n]].tool = arrived[c[g[n]]].tool
    BY <2>5 DEF Served
  <2> QED BY <2>1, <2>4, <2>5, <2>6
<1>8. ASSUME NEW n \in D, ~ Claimed(expected[n].tool) PROVE g[n] = n /\ g[n] \in C
  BY <1>6, <1>8
<1>9. g \in [D -> C]
  <2>1. \A n \in D : g[n] \in C
    BY <1>7, <1>8
  <2>2. g = [n \in D |-> g[n]]
    OBVIOUS
  <2> HIDE DEF g, D, C
  <2> QED BY <2>1, <2>2
<1> HIDE DEF g
<1>10. ASSUME NEW m \in D, NEW n \in D, g[m] = g[n] PROVE m = n
  <2>1. CASE Claimed(expected[m].tool) /\ Claimed(expected[n].tool)
    <3>1. to[m] = to[n] /\ to[m] # None
      BY <1>7, <1>10, <2>1 DEF Served
    <3> QED BY <1>3, <1>4, <3>1
  <2>2. CASE ~ Claimed(expected[m].tool) /\ ~ Claimed(expected[n].tool)
    BY <1>8, <1>10, <2>2
  <2>3. CASE Claimed(expected[m].tool) /\ ~ Claimed(expected[n].tool)
    <3>1. expected[m].tool = expected[n].tool
      <4> HIDE DEF Claimed
      <4> QED BY <1>7, <1>8, <1>10, <2>3
    <3> HIDE DEF Claimed
    <3> QED BY <2>3, <3>1
  <2>4. CASE ~ Claimed(expected[m].tool) /\ Claimed(expected[n].tool)
    <3>1. expected[m].tool = expected[n].tool
      <4> HIDE DEF Claimed
      <4> QED BY <1>7, <1>8, <1>10, <2>4
    <3> HIDE DEF Claimed
    <3> QED BY <2>4, <3>1
  <2> HIDE DEF Claimed
  <2> QED BY <2>1, <2>2, <2>3, <2>4
<1>11. /\ IsFiniteSet(D) /\ Cardinality(D) \in Nat
       /\ Sum(expected, arrived, withArgs, to) = Unit * Cardinality(D)
  BY <1>1, <1>3, SumByName
<1>12. /\ IsFiniteSet(C) /\ Cardinality(C) \in Nat
       /\ Sum(expected, arrived, withArgs, c) = Unit * Cardinality(C)
  BY <1>1, <1>3, SumByName
<1> HIDE DEF D, C
<1>13. Cardinality(D) <= Cardinality(C)
  <2>1. g \in Injection(D, C)
    BY <1>9, <1>10 DEF Injection, IsInjective
  <2> QED BY <1>12, <2>1, FS_Injection
<1> DEFINE a == Cardinality(D)
           b == Cardinality(C)
<1>14. a \in Nat /\ b \in Nat /\ a <= b
  BY <1>11, <1>12, <1>13
<1> HIDE DEF a, b
<1>15. Unit * a <= Unit * b
  BY <1>1, <1>14
<1> QED BY <1>11, <1>12, <1>15 DEF a, b

\* Calls make a stream, and every one of them has a known name.
LEMMA StreamOfCalls ==
  ASSUME NEW s \in Seq(Calls)
  PROVE  IsStream(s) /\ \A j \in DOMAIN s : s[j].tool \in Tools
<1>1. Calls \subseteq [tool : Tools, args : Readables \cup {None, Unreadable}]
  BY TrajectoryAssumption
<1>2. s \in Seq(Range(s))
  BY DEF Range
<1>3. \A j \in DOMAIN s : s[j] \in [tool : Tools, args : Readables \cup {None, Unreadable}]
  BY <1>1
<1> QED BY <1>2, <1>3 DEF IsStream, IsCall

\* The rules of a gate of tool calls, typed.
LEMMA ToolRules ==
  ASSUME NEW g \in ToolGates
  PROVE  /\ Len(g) \in Nat /\ DOMAIN g = 1 .. Len(g)
         /\ \A n \in DOMAIN g :
              /\ IsRule(g[n])
              /\ g[n].kind = "tool_calls" =>
                   /\ IsExpected(g[n].expected) /\ g[n].withArgs \in BOOLEAN
                   /\ g[n].op \in Op /\ g[n].target \in Int /\ g[n].match \in Match
<1>1. g \in Seq(Range(g)) /\ \A n \in DOMAIN g : IsRule(g[n])
  BY TrajectoryAssumption
<1>2. ASSUME NEW n \in DOMAIN g, g[n].kind = "tool_calls"
      PROVE  /\ IsExpected(g[n].expected) /\ g[n].withArgs \in BOOLEAN
             /\ g[n].op \in Op /\ g[n].target \in Int /\ g[n].match \in Match
  BY <1>1, <1>2 DEF IsRule, IsExpected, IsList
<1> QED BY <1>1, <1>2

\* The expectations of the gates, typed.
LEMMA ExpectationsTyped ==
  ASSUME NEW r \in Expectations
  PROVE  /\ IsExpected(r.expected) /\ r.withArgs \in BOOLEAN
         /\ r.op \in Op /\ r.target \in Int /\ r.match \in Match
<1>1. PICK g \in ToolGates : r \in Range(g) /\ r.kind = "tool_calls"
  BY DEF Expectations
<1>2. PICK n \in DOMAIN g : r = g[n]
  BY <1>1 DEF Range
<1> QED BY <1>1, <1>2, ToolRules

\* The ordered score is the best of the assignments in order (OrderedIsBestInOrder, for any rule).
LEMMA OrderedIsBest ==
  ASSUME NEW expected, IsExpected(expected), NEW arrived, IsStream(arrived), NEW withArgs \in BOOLEAN
  PROVE  ScoreOrdered(expected, arrived, withArgs) =
           Max({Sum(expected, arrived, withArgs, to) :
                  to \in {x \in Assignments(expected, arrived) : Increasing(x)}})
<1> DEFINE S == {Sum(expected, arrived, withArgs, to) :
                  to \in {x \in Assignments(expected, arrived) : Increasing(x)}}
           s == ScoreOrdered(expected, arrived, withArgs)
<1>1. s \in S
  BY OrderedIsAttained
<1>2. \A y \in S : y <= s
  BY OrderedIsAtLeast
<1>3. S \in SUBSET Nat
  <2> SUFFICES ASSUME NEW to \in Assignments(expected, arrived)
               PROVE  Sum(expected, arrived, withArgs, to) \in Nat
    OBVIOUS
  <2>1. \A n \in DOMAIN expected : to[n] \in DOMAIN arrived \cup {None}
    BY DEF Assignments
  <2>2. Sum(expected, arrived, withArgs, to) \in 0 .. Unit * Len(expected)
    BY <2>1, SharesTyped
  <2> QED BY <2>2
<1> HIDE DEF S, s
<1>4. Max(S) = s
  BY <1>1, <1>2, <1>3, MaxIs
<1> QED BY <1>4 DEF S, s

\* The greedy score is no better than the best assignment, and by name no worse
\* (SubsetIsBestByName, for any rule).
LEMMA SubsetIsBest ==
  ASSUME NEW expected, IsExpected(expected), NEW arrived, IsStream(arrived), NEW withArgs \in BOOLEAN
  PROVE  LET best == Max({Sum(expected, arrived, withArgs, to) : to \in Assignments(expected, arrived)})
         IN  /\ ScoreSubset(expected, arrived, withArgs) <= best
             /\ ~ withArgs => ScoreSubset(expected, arrived, withArgs) = best
<1> DEFINE S == {Sum(expected, arrived, withArgs, to) : to \in Assignments(expected, arrived)}
           c == Claims(expected, arrived, withArgs)
           s == ScoreSubset(expected, arrived, withArgs)
           m == Unit * Len(expected)
<1>1. Greedy(expected, arrived, withArgs, c)
  BY ClaimsAreGreedy
<1>2. c \in Assignments(expected, arrived)
  BY <1>1, GreedyAssigns
<1>3. s = Sum(expected, arrived, withArgs, c)
  BY DEF ScoreSubset
<1>4. s \in S
  BY <1>2, <1>3
<1>5. S \in SUBSET (0 .. m) /\ m \in Nat
  <2>1. ASSUME NEW to \in Assignments(expected, arrived)
        PROVE  Sum(expected, arrived, withArgs, to) \in 0 .. m
    <3>1. \A n \in DOMAIN expected : to[n] \in DOMAIN arrived \cup {None}
      BY DEF Assignments
    <3> QED BY <3>1, SharesTyped
  <2>2. m \in Nat
    BY ExpectedTyped, TrajectoryAssumption
  <2> QED BY <2>1, <2>2
<1>6. ~ withArgs => \A y \in S : y <= s
  BY <1>1, <1>3, GreedyServesMost
<1> HIDE DEF S, s, m
<1>7. S \in SUBSET Nat
  BY <1>5
<1>8. PICK x \in S : \A y \in S : y <= x
  BY <1>4, <1>5, GreatestIsMax
<1>9. Max(S) = x
  BY <1>7, <1>8, MaxIs
<1>10. ~ withArgs => Max(S) = s
  BY <1>4, <1>6, <1>7, MaxIs
<1> QED BY <1>4, <1>8, <1>9, <1>10 DEF S, s

-----------------------------------------------------------------------------
(* The ladder of the modes.                                                *)

\* The first step of the ladder: place by place is an assignment in order.
LEMMA FullExactIsFullOrdered ==
  ASSUME NEW expected, IsExpected(expected), NEW arrived, IsStream(arrived), NEW withArgs \in BOOLEAN,
         ScoreExact(expected, arrived, withArgs) = Unit * Len(expected)
  PROVE  ScoreOrdered(expected, arrived, withArgs) = Unit * Len(expected)
<1> DEFINE to == [n \in DOMAIN expected |-> n]
           m == Unit * Len(expected)
           s == ScoreOrdered(expected, arrived, withArgs)
<1>1. /\ DOMAIN expected = 1 .. Len(expected) /\ Len(expected) \in Nat \ {0}
      /\ DOMAIN arrived = 1 .. Len(arrived) /\ Unit \in Nat \ {0} /\ None \notin Int
  BY ExpectedTyped, StreamsTyped, TrajectoryAssumption, EventAssumption
<1>2. m \in Nat /\ m > 0
  <2> DEFINE a == Len(expected)
  <2> HIDE DEF a
  <2>1. a \in Nat \ {0}
    BY <1>1 DEF a
  <2>2. Unit * a \in Nat /\ Unit * a > 0
    BY <1>1, <2>1
  <2> QED BY <2>2 DEF a
<1>3. /\ Len(expected) = Len(arrived)
      /\ \A n \in DOMAIN expected : PairScore(expected[n], arrived[n], withArgs, TRUE) = Unit
  <2> HIDE DEF m
  <2>1. ScoreExact(expected, arrived, withArgs) # 0
    BY <1>2 DEF m
  <2> QED BY <2>1 DEF ScoreExact
<1>4. to \in Assignments(expected, arrived) /\ Increasing(to)
  <2>1. to \in [DOMAIN expected -> DOMAIN arrived \cup {None}]
    BY <1>1, <1>3
  <2> QED BY <2>1 DEF Assignments, Increasing
<1>5. \A n \in DOMAIN expected : Shares(expected, arrived, withArgs, to)[n] = Unit
  <2> TAKE n \in DOMAIN expected
  <2>1. to[n] = n /\ n # None
    BY <1>1
  <2>2. Shares(expected, arrived, withArgs, to)[n] = PairScore(expected[n], arrived[n], withArgs, FALSE)
    BY <2>1 DEF Shares
  <2> DEFINE e == expected[n]
             d == arrived[n]
  <2>3. PairScore(e, d, withArgs, TRUE) = Unit
    BY <1>3
  <2> HIDE DEF e, d
  <2>4. PairScore(e, d, withArgs, FALSE) = Unit
    <3>1. Unit # 0
      BY <1>1
    <3> QED BY <2>3, <3>1 DEF PairScore, ArgCredit
  <2> QED BY <2>2, <2>4 DEF e, d
<1>6. \A n \in DOMAIN expected : to[n] \in DOMAIN arrived \cup {None}
  BY <1>4 DEF Assignments
<1> HIDE DEF to
<1>7. Sum(expected, arrived, withArgs, to) = m
  BY <1>5, <1>6, SharesTyped
<1>8. m <= s
  BY <1>4, <1>7, OrderedIsAtLeast
<1>9. s \in 0 .. m
  <2>1. PICK by \in Assignments(expected, arrived) : s = Sum(expected, arrived, withArgs, by)
    BY OrderedIsAttained
  <2>2. \A n \in DOMAIN expected : by[n] \in DOMAIN arrived \cup {None}
    BY DEF Assignments
  <2> QED BY <2>1, <2>2, SharesTyped
<1> HIDE DEF s, m
<1>10. s = m
  BY <1>2, <1>8, <1>9
<1> QED BY <1>10 DEF s, m

\* In full, greedy claims no later than an assignment in order does.
LEMMA FullOrderedIsFullSubset ==
  ASSUME NEW expected, IsExpected(expected), NEW arrived, IsStream(arrived), NEW withArgs \in BOOLEAN,
         ScoreOrdered(expected, arrived, withArgs) = Unit * Len(expected)
  PROVE  ScoreSubset(expected, arrived, withArgs) = Unit * Len(expected)
<1> DEFINE I == Len(expected)
           c == Claims(expected, arrived, withArgs)
<1>1. /\ DOMAIN expected = 1 .. I /\ I \in Nat \ {0} /\ DOMAIN arrived \subseteq Nat
      /\ Unit \in Nat \ {0} /\ None \notin Int
  BY ExpectedTyped, StreamsTyped, TrajectoryAssumption, EventAssumption
<1>2. PICK to \in Assignments(expected, arrived) :
        Increasing(to) /\ Sum(expected, arrived, withArgs, to) = Unit * I
  BY OrderedIsAttained
<1>3. \A n \in DOMAIN expected : to[n] \in DOMAIN arrived \cup {None}
  BY <1>2 DEF Assignments
<1>4. \A n \in DOMAIN expected : Shares(expected, arrived, withArgs, to)[n] = Unit
  BY <1>2, <1>3, SharesTyped
<1>5. ASSUME NEW n \in 1 .. I
      PROVE  /\ to[n] \in DOMAIN arrived /\ to[n] # None
             /\ PairScore(expected[n], arrived[to[n]], withArgs, FALSE) = Unit
  <2>1. to[n] # None
    BY <1>1, <1>4 DEF Shares
  <2> QED BY <1>1, <1>3, <1>4, <2>1 DEF Shares
<1>6. Greedy(expected, arrived, withArgs, c)
  BY ClaimsAreGreedy
<1> HIDE DEF c
<1> DEFINE Good(n) == /\ c[n] # None /\ c[n] <= to[n]
                      /\ PairScore(expected[n], arrived[c[n]], withArgs, FALSE) = Unit
           T == {n \in 1 .. I : ~ Good(n)}
<1>7. T = {}
  <2> SUFFICES ASSUME T # {} PROVE FALSE
    OBVIOUS
  <2>1. PICK n \in T : \A k \in T : n <= k
    <3>1. T \in SUBSET Nat
      <4> HIDE DEF Good
      <4> QED BY <1>1
    <3> HIDE DEF T
    <3> QED BY <3>1, LeastNatural
  <2>2. \A l \in 1 .. n - 1 : l \in 1 .. I /\ Good(l)
    <3> TAKE l \in 1 .. n - 1
    <3>1. l \in 1 .. I /\ l < n
      BY <1>1, <2>1
    <3>2. l \notin T
      <4>1. n \in 1 .. I
        OBVIOUS
      <4> HIDE DEF T
      <4> QED BY <1>1, <2>1, <3>1, <4>1
    <3> QED BY <3>1, <3>2
  <2>3. n \in 1 .. I
    BY <2>1
  <2>4. ~ Good(n)
    BY <2>1
  <2> HIDE DEF T
  <2> DEFINE score == Scores(expected[n], arrived, withArgs)
  <2>5. IsExpectation(expected[n])
    BY <1>1, <2>3 DEF IsExpected
  <2>6. \A j \in DOMAIN arrived :
          score[j] = PairScore(expected[n], arrived[j], withArgs, FALSE) /\ score[j] \in 0 .. Unit
    <3> DEFINE P(j) == PairScore(expected[n], arrived[j], withArgs, FALSE)
    <3>1. score = [j \in DOMAIN arrived |-> P(j)]
      BY DEF Scores
    <3>2. \A j \in DOMAIN arrived : score[j] \in 0 .. Unit
      <4> DEFINE e == expected[n]
      <4>1. IsExpectation(e)
        BY <2>5
      <4> HIDE DEF e
      <4>2. \A j \in DOMAIN arrived : Scores(e, arrived, withArgs)[j] \in 0 .. Unit
        BY <4>1, ScoresTyped
      <4> QED BY <4>2 DEF e
    <3>3. \A j \in DOMAIN arrived : score[j] = P(j)
      <4> HIDE DEF P, score
      <4> QED BY <3>1
    <3> QED BY <3>2, <3>3
  <2>7. /\ c[n] \in DOMAIN arrived \cup {None}
        /\ c[n] = None => \A j \in DOMAIN arrived \ Taken(c, n) : score[j] = 0
        /\ c[n] # None =>
             /\ c[n] \in DOMAIN arrived
             /\ \A j \in DOMAIN arrived \ Taken(c, n) :
                  score[j] <= score[c[n]] /\ (score[j] = score[c[n]] => c[n] <= j)
    <3> HIDE DEF score
    <3>1. score = Scores(expected[n], arrived, withArgs)
      BY DEF score
    <3>2. Picks(score, DOMAIN arrived, Taken(c, n), c[n])
      BY <1>6, <2>3, <3>1, GreedyClaims
    <3> QED BY <3>2 DEF Picks
  <2>8. to[n] \in DOMAIN arrived \ Taken(c, n)
    <3>1. ASSUME NEW l \in 1 .. n - 1, c[l] = to[n] PROVE FALSE
      <4>1. l \in 1 .. I /\ c[l] <= to[l]
        BY <2>2
      <4>2. to[l] < to[n]
        <5>1. l < n
          BY <1>1, <2>3
        <5>2. DOMAIN to = 1 .. I
          BY <1>1, <1>2 DEF Assignments
        <5> QED BY <1>2, <1>5, <2>3, <4>1, <5>1, <5>2 DEF Increasing
      <4>3. to[l] \in Nat /\ to[n] \in Nat
        BY <1>1, <1>5, <2>3, <4>1
      <4> QED BY <3>1, <4>1, <4>2, <4>3
    <3> QED BY <1>5, <2>3, <3>1 DEF Taken
  <2>9. score[to[n]] = Unit
    <3> HIDE DEF score
    <3> QED BY <1>5, <2>3, <2>6
  <2> HIDE DEF score
  <2>10. c[n] # None
    BY <1>1, <2>7, <2>8, <2>9
  <2>11. score[c[n]] = Unit
    <3>1. score[c[n]] \in 0 .. Unit /\ Unit <= score[c[n]]
      BY <2>6, <2>7, <2>8, <2>9, <2>10
    <3> QED BY <1>1, <3>1
  <2>12. Good(n)
    BY <2>6, <2>7, <2>8, <2>9, <2>10, <2>11
  <2> QED BY <2>4, <2>12
<1>8. \A n \in DOMAIN expected : c[n] \in DOMAIN arrived \cup {None}
  BY <1>1, <1>6 DEF Greedy
<1>9. \A n \in DOMAIN expected : Shares(expected, arrived, withArgs, c)[n] = Unit
  BY <1>1, <1>7 DEF Shares
<1>10. Sum(expected, arrived, withArgs, c) = Unit * I
  BY <1>8, <1>9, SharesTyped
<1> QED BY <1>10 DEF ScoreSubset, c

-----------------------------------------------------------------------------
(* Arguments that were lost.                                               *)

\* A stream in which the arguments of one call were lost.
Spoils(arrived, spoilt, j) ==
  /\ IsStream(arrived) /\ IsStream(spoilt)
  /\ DOMAIN spoilt = DOMAIN arrived /\ Len(spoilt) = Len(arrived) /\ j \in DOMAIN arrived
  /\ \A i \in DOMAIN arrived : i # j => spoilt[i] = arrived[i]
  /\ spoilt[j].tool = arrived[j].tool /\ spoilt[j].args = Unreadable

\* A call whose arguments are lost, as the model writes it.
LEMMA SpoiltIsSpoilt ==
  ASSUME calls \in Seq(Calls), NEW j \in DOMAIN calls
  PROVE  Spoils(calls, Spoilt(j), j)
<1> DEFINE s == Spoilt(j)
<1>1. IsStream(calls) /\ DOMAIN calls = 1 .. Len(calls) /\ Len(calls) \in Nat
  BY StreamOfCalls
<1>2. calls[j] \in [tool : Tools, args : Readables \cup {None, Unreadable}]
  BY TrajectoryAssumption
<1>3. s = [calls EXCEPT ![j] = [calls[j] EXCEPT !.args = Unreadable]]
  BY DEF Spoilt
<1>4. s \in [DOMAIN calls -> {s[i] : i \in DOMAIN calls}] /\ DOMAIN s = DOMAIN calls
  BY <1>3
<1>5. s[j].tool = calls[j].tool /\ s[j].args = Unreadable
  BY <1>2, <1>3
<1>6. \A i \in DOMAIN calls : i # j => s[i] = calls[i]
  BY <1>3
<1> HIDE DEF s
<1>7. s \in Seq(Range(s)) /\ Len(s) = Len(calls)
  <2>1. Range(s) = {s[i] : i \in DOMAIN calls}
    BY <1>4 DEF Range
  <2> QED BY <1>1, <1>4, <2>1
<1>8. \A i \in DOMAIN s : IsCall(s[i])
  BY <1>1, <1>4, <1>5, <1>6 DEF IsStream, IsCall
<1> QED BY <1>1, <1>4, <1>5, <1>6, <1>7, <1>8 DEF Spoils, IsStream, s

\* A call with lost arguments scores nothing, or what it did.
LEMMA SpoiltScoresLess ==
  ASSUME NEW arrived, NEW spoilt, NEW j, Spoils(arrived, spoilt, j),
         NEW i \in DOMAIN arrived, NEW e, IsExpectation(e), NEW withArgs \in BOOLEAN,
         NEW exact \in BOOLEAN
  PROVE  /\ PairScore(e, spoilt[i], withArgs, exact) \in {0, PairScore(e, arrived[i], withArgs, exact)}
         /\ ~ withArgs => PairScore(e, spoilt[i], withArgs, exact) = PairScore(e, arrived[i], withArgs, exact)
         /\ withArgs /\ e.args # None /\ i = j => PairScore(e, spoilt[i], withArgs, exact) = 0
<1>1. CASE i = j
  <2> DEFINE d == spoilt[j]
             c == arrived[j]
  <2>1. d.tool = c.tool /\ d.args = Unreadable
    BY DEF Spoils
  <2> HIDE DEF d, c
  <2>2. CASE withArgs /\ e.args # None
    <3>1. PairScore(e, d, withArgs, exact) = 0
      BY <2>1, <2>2 DEF PairScore, ArgCredit, MatcherArgsPass
    <3> QED BY <1>1, <2>2, <3>1 DEF d
  <2>3. CASE ~ (withArgs /\ e.args # None)
    <3>1. PairScore(e, d, withArgs, exact) = PairScore(e, c, withArgs, exact)
      BY <2>1, <2>3 DEF PairScore
    <3> QED BY <1>1, <2>3, <3>1 DEF d, c
  <2> QED BY <2>2, <2>3
<1>2. CASE i # j
  BY <1>2 DEF Spoils
<1> QED BY <1>1, <1>2

\* Any assignment scores no more when arguments are lost.
LEMMA SpoiltSumsLess ==
  ASSUME NEW arrived, NEW spoilt, NEW j, Spoils(arrived, spoilt, j),
         NEW expected, IsExpected(expected), NEW withArgs \in BOOLEAN,
         NEW to, \A n \in DOMAIN expected : to[n] \in DOMAIN arrived \cup {None}
  PROVE  Sum(expected, spoilt, withArgs, to) <= Sum(expected, arrived, withArgs, to)
<1>1. IsStream(arrived) /\ IsStream(spoilt) /\ DOMAIN spoilt = DOMAIN arrived
  BY DEF Spoils
<1>2. ASSUME NEW n \in DOMAIN expected
      PROVE  Shares(expected, spoilt, withArgs, to)[n] <= Shares(expected, arrived, withArgs, to)[n]
  <2>1. CASE to[n] = None
    <3>1. /\ Shares(expected, spoilt, withArgs, to)[n] = 0
          /\ Shares(expected, arrived, withArgs, to)[n] = 0
      BY <2>1 DEF Shares
    <3> QED BY <3>1
  <2>2. CASE to[n] # None
    <3> DEFINE e == expected[n]
               i == to[n]
               x == PairScore(e, spoilt[i], withArgs, FALSE)
               y == PairScore(e, arrived[i], withArgs, FALSE)
    <3>1. IsExpectation(e) /\ i \in DOMAIN arrived /\ IsCall(arrived[i])
      BY <1>1, <2>2 DEF IsExpected, IsStream
    <3>2. /\ Shares(expected, spoilt, withArgs, to)[n] = x
          /\ Shares(expected, arrived, withArgs, to)[n] = y
      BY <2>2 DEF Shares
    <3> HIDE DEF e, i
    <3>3. x \in {0, y}
      BY <3>1, SpoiltScoresLess
    <3>4. y \in 0 .. Unit
      BY <3>1, PairScoreIsAShare
    <3>5. Unit \in Nat
      BY TrajectoryAssumption
    <3> HIDE DEF x, y
    <3>6. x <= y
      BY <3>3, <3>4, <3>5
    <3> QED BY <3>2, <3>6
  <2> QED BY <2>1, <2>2
<1>3. \A n \in DOMAIN expected : to[n] \in DOMAIN spoilt \cup {None}
  BY <1>1
<1> QED BY <1>1, <1>2, <1>3, SharesCompare

\* Lost arguments raise no exact score.
LEMMA SpoiltExact ==
  ASSUME NEW arrived, NEW spoilt, NEW j, Spoils(arrived, spoilt, j),
         NEW expected, IsExpected(expected), NEW withArgs \in BOOLEAN
  PROVE  ScoreExact(expected, spoilt, withArgs) <= ScoreExact(expected, arrived, withArgs)
<1> DEFINE a == Unit * Len(expected)
<1>1. Unit \in Nat \ {0} /\ Len(expected) \in Nat /\ DOMAIN expected = 1 .. Len(expected)
  BY TrajectoryAssumption, ExpectedTyped
<1>2. a \in Nat
  BY <1>1
<1>3. /\ IsStream(arrived) /\ DOMAIN spoilt = DOMAIN arrived /\ Len(spoilt) = Len(arrived)
      /\ DOMAIN arrived = 1 .. Len(arrived)
  BY StreamsTyped DEF Spoils
<1> DEFINE P(s, n) == PairScore(expected[n], s[n], withArgs, TRUE)
           Full(s) == Len(expected) = Len(s) /\ \A n \in DOMAIN expected : P(s, n) = Unit
<1>4. \A s : ScoreExact(expected, s, withArgs) = IF Full(s) THEN a ELSE 0
  BY DEF ScoreExact
<1>5. Full(spoilt) => Full(arrived)
  <2> SUFFICES ASSUME Full(spoilt), NEW n \in DOMAIN expected PROVE P(arrived, n) = Unit
    BY <1>3
  <2> DEFINE e == expected[n]
             x == PairScore(e, spoilt[n], withArgs, TRUE)
             y == PairScore(e, arrived[n], withArgs, TRUE)
  <2>1. n \in DOMAIN arrived /\ IsExpectation(e)
    BY <1>1, <1>3 DEF IsExpected
  <2>2. x = Unit
    OBVIOUS
  <2>3. y = P(arrived, n)
    OBVIOUS
  <2> HIDE DEF e, P
  <2>4. x \in {0, y}
    BY <2>1, SpoiltScoresLess
  <2> HIDE DEF x, y
  <2> QED BY <1>1, <2>2, <2>3, <2>4
<1> HIDE DEF Full, a
<1> QED BY <1>2, <1>4, <1>5

\* Nor an ordered one.
LEMMA SpoiltOrdered ==
  ASSUME NEW arrived, NEW spoilt, NEW j, Spoils(arrived, spoilt, j),
         NEW expected, IsExpected(expected), NEW withArgs \in BOOLEAN
  PROVE  ScoreOrdered(expected, spoilt, withArgs) <= ScoreOrdered(expected, arrived, withArgs)
<1>1. IsStream(arrived) /\ IsStream(spoilt) /\ DOMAIN spoilt = DOMAIN arrived
  BY DEF Spoils
<1>2. PICK to \in Assignments(expected, spoilt) :
        Increasing(to) /\ Sum(expected, spoilt, withArgs, to) = ScoreOrdered(expected, spoilt, withArgs)
  BY <1>1, OrderedIsAttained
<1>3. to \in Assignments(expected, arrived)
  BY <1>1 DEF Assignments
<1>4. \A n \in DOMAIN expected : to[n] \in DOMAIN arrived \cup {None}
  BY <1>3 DEF Assignments
<1> DEFINE x == Sum(expected, spoilt, withArgs, to)
           y == Sum(expected, arrived, withArgs, to)
           z == ScoreOrdered(expected, arrived, withArgs)
<1>5. x <= y
  BY <1>4, SpoiltSumsLess
<1>6. y <= z
  BY <1>1, <1>2, <1>3, OrderedIsAtLeast
<1>7. x \in 0 .. Unit * Len(expected) /\ y \in 0 .. Unit * Len(expected)
  BY <1>1, <1>4, SharesTyped
<1>8. z \in 0 .. Unit * Len(expected)
  <2>1. PICK by \in Assignments(expected, arrived) : z = Sum(expected, arrived, withArgs, by)
    BY <1>1, OrderedIsAttained
  <2>2. \A n \in DOMAIN expected : by[n] \in DOMAIN arrived \cup {None}
    BY DEF Assignments
  <2> QED BY <1>1, <2>1, <2>2, SharesTyped
<1>9. Unit * Len(expected) \in Nat
  BY TrajectoryAssumption, ExpectedTyped
<1> DEFINE m == Unit * Len(expected)
<1> HIDE DEF x, y, z, m
<1>10. x \in Nat /\ y \in Nat /\ z \in Nat
  BY <1>7, <1>8, <1>9 DEF m
<1>11. x <= z
  BY <1>5, <1>6, <1>10
<1> QED BY <1>2, <1>11 DEF x, z

\* What is left for an expected call, but for that one.
Left(arrived, c, k, j) == (DOMAIN arrived \ Taken(c, k)) \ {j}

\* While each expected call asks for arguments, nobody wants the call that lost them: at any
\* time the calls that are left beside it are left without the loss, and at most one more.
LEMMA SpoiltLeaves ==
  ASSUME NEW arrived, NEW spoilt, NEW j, Spoils(arrived, spoilt, j),
         NEW expected, IsExpected(expected), NEW withArgs \in BOOLEAN, withArgs,
         \A n \in DOMAIN expected : expected[n].args # None,
         NEW c, Greedy(expected, arrived, withArgs, c),
         NEW b, Greedy(expected, spoilt, withArgs, b)
  PROVE  \A n \in DOMAIN expected :
           Shares(expected, spoilt, withArgs, b)[n] <= Shares(expected, arrived, withArgs, c)[n]
<1> DEFINE I == Len(expected)
           J == DOMAIN arrived
           Mine(k) == Left(arrived, b, k, j)
           Theirs(k) == Left(arrived, c, k, None)
           Near(k) == /\ Mine(k) \subseteq Theirs(k)
                      /\ \E y : Theirs(k) \subseteq Mine(k) \cup {y}
<1>1. /\ I \in Nat /\ DOMAIN expected = 1 .. I /\ J \subseteq Nat /\ None \notin Nat
      /\ IsStream(arrived) /\ IsStream(spoilt) /\ DOMAIN spoilt = J /\ j \in J
      /\ Unit \in Nat
  BY ExpectedTyped, StreamsTyped, TrajectoryAssumption, EventAssumption DEF Spoils
<1>2. ASSUME NEW k \in 1 .. I, Near(k)
      PROVE  /\ Near(k + 1)
             /\ Shares(expected, spoilt, withArgs, b)[k] <= Shares(expected, arrived, withArgs, c)[k]
  <2> DEFINE e == expected[k]
             score == Scores(e, arrived, withArgs)
             spoils == Scores(e, spoilt, withArgs)
  <2>1. IsExpectation(e) /\ e.args # None /\ k \in Nat \ {0}
    BY <1>1 DEF IsExpected
  <2>2. /\ \A i \in J : score[i] = PairScore(e, arrived[i], withArgs, FALSE)
        /\ \A i \in J : spoils[i] = PairScore(e, spoilt[i], withArgs, FALSE)
    BY <1>1 DEF Scores
  <2>3. /\ score = Scores(expected[k], arrived, withArgs)
        /\ spoils = Scores(expected[k], spoilt, withArgs)
    OBVIOUS
  <2> HIDE DEF score, spoils
  <2>4. Picks(score, J, Taken(c, k), c[k])
    BY <1>1, <2>3, GreedyClaims
  <2>5. Picks(spoils, J, Taken(b, k), b[k])
    <3>1. Picks(spoils, DOMAIN spoilt, Taken(b, k), b[k])
      BY <1>1, <2>3, GreedyClaims
    <3> QED BY <1>1, <3>1
  <2>6. spoils[j] = 0 /\ \A i \in J : i # j => spoils[i] = score[i]
    <3>1. \A i \in J : i # j => spoilt[i] = arrived[i]
      BY DEF Spoils
    <3>2. spoils[j] = 0
      <4> HIDE DEF e
      <4>1. PairScore(e, spoilt[j], withArgs, FALSE) = 0
        <5> DEFINE d == spoilt[j]
        <5>1. d.args = Unreadable
          BY DEF Spoils
        <5> HIDE DEF d
        <5>2. PairScore(e, d, withArgs, FALSE) = 0
          BY <2>1, <5>1 DEF PairScore, ArgCredit, MatcherArgsPass
        <5> QED BY <5>2 DEF d
      <4> QED BY <1>1, <2>2, <4>1
    <3> QED BY <2>2, <3>1, <3>2
  <2> HIDE DEF e
  <2>7. Theirs(k) = J \ Taken(c, k) /\ Mine(k) = (J \ Taken(b, k)) \ {j}
    BY <1>1 DEF Left
  <2>8. /\ Theirs(k + 1) = IF c[k] = None THEN Theirs(k) ELSE Theirs(k) \ {c[k]}
        /\ Mine(k + 1) = IF b[k] = None THEN Mine(k) ELSE Mine(k) \ {b[k]}
    <3> DEFINE l == k + 1
    <3>1. 1 .. l - 1 = (1 .. k - 1) \cup {k}
      BY <2>1
    <3>2. Taken(c, l) = Taken(c, k) \cup ({c[k]} \ {None})
      BY <3>1 DEF Taken
    <3>3. Taken(b, l) = Taken(b, k) \cup ({b[k]} \ {None})
      BY <3>1 DEF Taken
    <3> HIDE DEF l
    <3>4. /\ Theirs(l) = IF c[k] = None THEN Theirs(k) ELSE Theirs(k) \ {c[k]}
          /\ Mine(l) = IF b[k] = None THEN Mine(k) ELSE Mine(k) \ {b[k]}
      BY <3>2, <3>3 DEF Left
    <3> QED BY <3>4 DEF l
  <2> DEFINE M == Mine(k)
             O == Theirs(k)
             x == c[k]
             y == b[k]
  <2> HIDE DEF Mine, Theirs
  <2>9. M \subseteq O /\ \E z : O \subseteq M \cup {z}
    BY <1>2
  <2>10. M \subseteq J /\ O \subseteq J /\ \A i \in M : spoils[i] = score[i]
    BY <2>6, <2>7
  <2>11. /\ x = None => \A i \in O : score[i] = 0
         /\ x # None => /\ x \in O /\ score[x] > 0
                        /\ \A i \in O : score[i] <= score[x] /\ (score[i] = score[x] => x <= i)
    BY <2>4, <2>7 DEF Picks
  <2>12. /\ y = None => \A i \in M : score[i] = 0
         /\ y # None => /\ y \in M /\ score[y] > 0
                        /\ \A i \in M : score[i] <= score[y] /\ (score[i] = score[y] => y <= i)
    <3>1. y = None => \A i \in M : spoils[i] = 0
      BY <2>5, <2>7 DEF Picks
    <3>2. y # None => /\ y \in M /\ spoils[y] > 0
                      /\ \A i \in M : spoils[i] <= spoils[y] /\ (spoils[i] = spoils[y] => y <= i)
      <4> HAVE y # None
      <4>1. y # j
        BY <2>5, <2>6 DEF Picks
      <4> QED BY <2>5, <2>7, <4>1 DEF Picks
    <3> QED BY <2>10, <3>1, <3>2
  <2>13. \A i \in O : score[i] \in Nat /\ i \in Nat
    BY <1>1, <2>4, <2>10 DEF Picks
  <2>14. /\ Shares(expected, spoilt, withArgs, b)[k] = IF y = None THEN 0 ELSE score[y]
         /\ Shares(expected, arrived, withArgs, c)[k] = IF x = None THEN 0 ELSE score[x]
    <3>1. k \in DOMAIN expected
      BY <1>1
    <3>2. Shares(expected, arrived, withArgs, c)[k] = IF x = None THEN 0 ELSE score[x]
      BY <2>2, <2>4, <3>1 DEF Shares, e, Picks
    <3>3. y # None => spoils[y] = score[y]
      BY <2>10, <2>12
    <3>4. Shares(expected, spoilt, withArgs, b)[k] = IF y = None THEN 0 ELSE spoils[y]
      BY <2>2, <2>5, <3>1 DEF Shares, e, Picks
    <3> QED BY <3>2, <3>3, <3>4
  <2> DEFINE M2 == Mine(k + 1)
             O2 == Theirs(k + 1)
  <2>15. /\ O2 = IF x = None THEN O ELSE O \ {x}
         /\ M2 = IF y = None THEN M ELSE M \ {y}
    BY <2>8
  <2> SUFFICES /\ M2 \subseteq O2 /\ \E z : O2 \subseteq M2 \cup {z}
               /\ (IF y = None THEN 0 ELSE score[y]) <= (IF x = None THEN 0 ELSE score[x])
    BY <2>14
  <2> HIDE DEF M, O, x, y, M2, O2
  <2>16. CASE x = None
    <3>1. y = None
      BY <2>9, <2>11, <2>12, <2>13, <2>16
    <3> QED BY <2>9, <2>15, <2>16, <3>1
  <2>17. CASE x # None /\ x \in M
    <3>1. y # None
      BY <2>11, <2>12, <2>13, <2>17
    <3>2. score[x] <= score[y] /\ score[y] <= score[x] /\ score[x] \in Nat /\ score[y] \in Nat
      BY <2>9, <2>11, <2>12, <2>13, <2>17, <3>1
    <3>3. score[x] = score[y]
      BY <3>2
    <3>4. y <= x /\ x <= y /\ x \in Nat /\ y \in Nat
      BY <2>9, <2>11, <2>12, <2>13, <2>17, <3>1, <3>3
    <3>5. x = y
      BY <3>4
    <3> QED BY <2>9, <2>15, <2>17, <3>2, <3>5
  <2>18. CASE x # None /\ x \notin M
    <3>1. O \subseteq M \cup {x}
      BY <2>9, <2>11, <2>18
    <3>2. O2 = O \ {x}
      BY <2>15, <2>18
    <3>3. O2 \subseteq M2 \cup {y} /\ M2 \subseteq O2
      BY <2>9, <2>15, <2>18, <3>1, <3>2
    <3>4. score[x] > 0 /\ score[x] \in Nat
      BY <2>11, <2>13, <2>18
    <3>5. y # None => score[y] <= score[x]
      BY <2>9, <2>11, <2>12, <2>18
    <3> QED BY <2>18, <3>3, <3>4, <3>5
  <2> QED BY <2>16, <2>17, <2>18
<1>3. Near(1)
  <2>1. Taken(b, 1) = {} /\ Taken(c, 1) = {}
    BY DEF Taken
  <2>2. Mine(1) = J \ {j} /\ Theirs(1) = J \ {None}
    BY <2>1 DEF Left
  <2> QED BY <1>1, <2>2
<1> DEFINE Good(k) == Near(k) /\ Shares(expected, spoilt, withArgs, b)[k] <= Shares(expected, arrived, withArgs, c)[k]
           T == {k \in 1 .. I : ~ Good(k)}
<1> HIDE DEF Near
<1>4. T = {}
  <2> SUFFICES ASSUME T # {} PROVE FALSE
    OBVIOUS
  <2>1. PICK n \in T : \A k \in T : n <= k
    <3>1. T \in SUBSET Nat
      <4> HIDE DEF Good
      <4> QED BY <1>1
    <3> HIDE DEF T
    <3> QED BY <3>1, LeastNatural
  <2>2. n \in 1 .. I /\ ~ Good(n)
    OBVIOUS
  <2>3. Near(n)
    <3>1. CASE n = 1
      BY <1>3, <3>1
    <3>2. CASE n # 1
      <4> DEFINE l == n - 1
      <4>1. l \in 1 .. I /\ l < n /\ l + 1 = n
        BY <1>1, <2>2, <3>2
      <4>2. l \notin T
        <5> HIDE DEF T, l
        <5> QED BY <1>1, <2>1, <2>2, <4>1
      <4>3. Near(l)
        BY <4>1, <4>2
      <4>4. Near(l + 1)
        <5> HIDE DEF l
        <5> QED BY <1>2, <4>1, <4>3
      <4> QED BY <4>1, <4>4
    <3> QED BY <3>1, <3>2
  <2> QED BY <1>2, <2>2, <2>3
<1> QED BY <1>1, <1>4

\* Nor a greedy one, when all expected calls ask for arguments or none does.
LEMMA SpoiltSubset ==
  ASSUME NEW arrived, NEW spoilt, NEW j, Spoils(arrived, spoilt, j),
         NEW expected, IsExpected(expected), NEW withArgs \in BOOLEAN,
         ~ withArgs \/ \A n \in DOMAIN expected : expected[n].args # None
  PROVE  ScoreSubset(expected, spoilt, withArgs) <= ScoreSubset(expected, arrived, withArgs)
<1> DEFINE c == Claims(expected, arrived, withArgs)
           b == Claims(expected, spoilt, withArgs)
           m == Unit * Len(expected)
<1>1. /\ IsStream(arrived) /\ IsStream(spoilt) /\ DOMAIN spoilt = DOMAIN arrived
      /\ m \in Nat
  BY TrajectoryAssumption, ExpectedTyped DEF Spoils
<1>2. Greedy(expected, arrived, withArgs, c) /\ Greedy(expected, spoilt, withArgs, b)
  BY <1>1, ClaimsAreGreedy
<1>3. ScoreSubset(expected, arrived, withArgs) = Sum(expected, arrived, withArgs, c)
  BY DEF ScoreSubset
<1>4. ScoreSubset(expected, spoilt, withArgs) = Sum(expected, spoilt, withArgs, b)
  BY DEF ScoreSubset
<1> HIDE DEF c, b, m
<1>5. c \in Assignments(expected, arrived) /\ b \in Assignments(expected, arrived)
  <2>1. c \in Assignments(expected, arrived) /\ b \in Assignments(expected, spoilt)
    BY <1>1, <1>2, GreedyAssigns
  <2> QED BY <1>1, <2>1 DEF Assignments
<1>6. /\ \A n \in DOMAIN expected : c[n] \in DOMAIN arrived \cup {None}
      /\ \A n \in DOMAIN expected : b[n] \in DOMAIN arrived \cup {None}
      /\ \A n \in DOMAIN expected : b[n] \in DOMAIN spoilt \cup {None}
  BY <1>1, <1>5 DEF Assignments
<1>7. CASE ~ withArgs
  <2> DEFINE x == Sum(expected, spoilt, withArgs, b)
             y == Sum(expected, arrived, withArgs, b)
             z == Sum(expected, arrived, withArgs, c)
  <2>1. x <= y
    BY <1>6, SpoiltSumsLess
  <2>2. y <= z
    BY <1>1, <1>2, <1>5, <1>7, GreedyServesMost
  <2>3. x \in 0 .. m /\ y \in 0 .. m /\ z \in 0 .. m
    BY <1>1, <1>6, SharesTyped DEF m
  <2> HIDE DEF x, y, z
  <2>4. x <= z
    BY <1>1, <2>1, <2>2, <2>3
  <2> QED BY <1>3, <1>4, <2>4 DEF x, z
<1>8. CASE withArgs
  <2>1. \A n \in DOMAIN expected :
          Shares(expected, spoilt, withArgs, b)[n] <= Shares(expected, arrived, withArgs, c)[n]
    BY <1>2, <1>8, SpoiltLeaves
  <2>2. Sum(expected, spoilt, withArgs, b) <= Sum(expected, arrived, withArgs, c)
    BY <1>1, <1>6, <2>1, SharesCompare
  <2> QED BY <1>3, <1>4, <2>2
<1> QED BY <1>7, <1>8

\* A score is at most full, in any mode.
LEMMA ScoreTyped ==
  ASSUME NEW expected, IsExpected(expected), NEW arrived, IsStream(arrived), NEW withArgs \in BOOLEAN,
         NEW match \in Match
  PROVE  Score(match, expected, arrived, withArgs) \in 0 .. Unit * Len(expected)
<1> DEFINE m == Unit * Len(expected)
<1>1. m \in Nat
  BY TrajectoryAssumption, ExpectedTyped
<1>2. ScoreExact(expected, arrived, withArgs) \in 0 .. m
  <2>1. ScoreExact(expected, arrived, withArgs) \in {0, m}
    BY DEF ScoreExact
  <2> HIDE DEF m
  <2> QED BY <1>1, <2>1
<1>3. ScoreSubset(expected, arrived, withArgs) \in 0 .. m
  <2> DEFINE c == Claims(expected, arrived, withArgs)
  <2>1. Greedy(expected, arrived, withArgs, c)
    BY ClaimsAreGreedy
  <2> HIDE DEF c
  <2>2. \A n \in DOMAIN expected : c[n] \in DOMAIN arrived \cup {None}
    BY <2>1, ExpectedTyped DEF Greedy
  <2>3. Sum(expected, arrived, withArgs, c) \in 0 .. m
    BY <2>2, SharesTyped
  <2> QED BY <2>3 DEF ScoreSubset, c
<1>4. ScoreOrdered(expected, arrived, withArgs) \in 0 .. m
  <2>1. PICK to \in Assignments(expected, arrived) :
          ScoreOrdered(expected, arrived, withArgs) = Sum(expected, arrived, withArgs, to)
    BY OrderedIsAttained
  <2>2. \A n \in DOMAIN expected : to[n] \in DOMAIN arrived \cup {None}
    BY DEF Assignments
  <2> QED BY <2>1, <2>2, SharesTyped
<1> HIDE DEF m
<1>5. CASE match = "exact"
  BY <1>2, <1>5 DEF Score, m
<1>6. CASE match = "subset"
  BY <1>3, <1>6 DEF Score, m
<1>7. CASE match = "ordered"
  BY <1>4, <1>7 DEF Score, m
<1> QED BY <1>5, <1>6, <1>7 DEF Match

\* Lost arguments raise no score of a rule that asks alike.
LEMMA SpoiltScoresNoMore ==
  ASSUME NEW arrived, NEW spoilt, NEW j, Spoils(arrived, spoilt, j),
         NEW r, IsExpected(r.expected), r.withArgs \in BOOLEAN, r.match \in Match, AsksAlike(r)
  PROVE  Score(r.match, r.expected, spoilt, r.withArgs) <= Score(r.match, r.expected, arrived, r.withArgs)
<1> DEFINE expected == r.expected
           withArgs == r.withArgs
<1>1. IsExpected(expected) /\ withArgs \in BOOLEAN
  OBVIOUS
<1>2. r.match # "subset" \/ ~ withArgs \/ \A n \in DOMAIN expected : expected[n].args # None
  BY DEF AsksAlike
<1> HIDE DEF expected, withArgs
<1>3. ScoreExact(expected, spoilt, withArgs) <= ScoreExact(expected, arrived, withArgs)
  BY <1>1, SpoiltExact
<1>4. ScoreOrdered(expected, spoilt, withArgs) <= ScoreOrdered(expected, arrived, withArgs)
  BY <1>1, SpoiltOrdered
<1>5. CASE r.match = "subset"
  <2>1. ScoreSubset(expected, spoilt, withArgs) <= ScoreSubset(expected, arrived, withArgs)
    BY <1>1, <1>2, <1>5, SpoiltSubset
  <2> QED BY <1>5, <2>1 DEF Score, expected, withArgs
<1>6. CASE r.match = "exact"
  BY <1>3, <1>6 DEF Score, expected, withArgs
<1>7. CASE r.match = "ordered"
  BY <1>4, <1>7 DEF Score, expected, withArgs
<1> QED BY <1>5, <1>6, <1>7 DEF Match

\* A rule that asks for more passes no stream with lost arguments that it does not pass without.
LEMMA SpoiltPassesLess ==
  ASSUME NEW arrived, NEW spoilt, NEW j, Spoils(arrived, spoilt, j),
         NEW g \in ToolGates, NEW n \in DOMAIN g,
         g[n].kind = "tool_calls" => g[n].op \in {">=", ">"} /\ AsksAlike(g[n]),
         RulePassed(g[n], spoilt)
  PROVE  RulePassed(g[n], arrived)
<1> DEFINE r == g[n]
<1>1. /\ IsRule(r)
      /\ r.kind = "tool_calls" =>
           /\ IsExpected(r.expected) /\ r.withArgs \in BOOLEAN
           /\ r.op \in Op /\ r.target \in Int /\ r.match \in Match
  BY ToolRules
<1>2. /\ r.kind = "tool_calls" => r.op \in {">=", ">"} /\ AsksAlike(r)
      /\ RulePassed(r, spoilt)
  OBVIOUS
<1> SUFFICES RulePassed(r, arrived)
  OBVIOUS
<1> HIDE DEF r
<1>3. /\ IsStream(arrived) /\ IsStream(spoilt) /\ DOMAIN spoilt = DOMAIN arrived
      /\ \A i \in DOMAIN arrived : spoilt[i].tool = arrived[i].tool
      /\ \A i \in DOMAIN arrived : spoilt[i].args \in {arrived[i].args, Unreadable}
  BY DEF Spoils
<1>4. CASE r.kind = "tool_calls"
  <2> DEFINE x == Score(r.match, r.expected, spoilt, r.withArgs)
             y == Score(r.match, r.expected, arrived, r.withArgs)
             t == r.target * Len(r.expected)
  <2>1. Holds(r.op, x, t)
    BY <1>2, <1>4 DEF RulePassed, CheckToolCalls
  <2>2. x <= y
    BY <1>1, <1>2, <1>4, SpoiltScoresNoMore
  <2>3. /\ x \in 0 .. Unit * Len(r.expected) /\ y \in 0 .. Unit * Len(r.expected)
    <3> DEFINE e == r.expected
               w == r.withArgs
               m == r.match
    <3>1. IsExpected(e) /\ w \in BOOLEAN /\ m \in Match
      BY <1>1, <1>4
    <3> HIDE DEF e, w, m
    <3>2. Score(m, e, spoilt, w) \in 0 .. Unit * Len(e) /\ Score(m, e, arrived, w) \in 0 .. Unit * Len(e)
      BY <1>3, <3>1, ScoreTyped
    <3> QED BY <3>2 DEF e, w, m
  <2>4. t \in Int /\ r.op \in {">=", ">"} /\ x \in Int /\ y \in Int
    BY <1>1, <1>2, <1>4, <2>3, ExpectedTyped, TrajectoryAssumption
  <2> HIDE DEF x, y, t
  <2>5. Holds(r.op, y, t)
    BY <2>1, <2>2, <2>4 DEF Holds
  <2> QED BY <1>4, <2>5 DEF RulePassed, CheckToolCalls, y, t
<1>5. CASE r.kind = "forbidden_tools"
  BY <1>2, <1>3, <1>5 DEF RulePassed, CheckForbiddenTools
<1>6. CASE r.kind = "forbidden_tool_calls"
  <2>1. CheckForbiddenToolCalls(r, spoilt)
    BY <1>2, <1>6 DEF RulePassed
  <2>2. CheckForbiddenToolCalls(r, arrived)
    <3> SUFFICES ASSUME NEW i \in DOMAIN arrived, NEW k \in DOMAIN r.items, Offends(r.items[k], arrived[i])
                 PROVE  Offends(r.items[k], spoilt[i])
      BY <1>3, <2>1 DEF CheckForbiddenToolCalls
    <3> QED BY <1>3 DEF Offends, ForbiddenArgsPass
  <2> QED BY <1>6, <2>2 DEF RulePassed
<1> QED BY <1>1, <1>4, <1>5, <1>6 DEF IsRule

\* Arguments that cannot be read fail closed (trajectory.py: _UNPARSEABLE).
LEMMA UnreadableHelpsNobody ==
  ASSUME calls \in Seq(Calls)
  PROVE  UnreadableNeverHelps
<1> SUFFICES ASSUME NEW g \in ToolGates, NEW j \in DOMAIN calls,
                    AsksForMore(g), \A n \in DOMAIN g : g[n].kind = "tool_calls" => AsksAlike(g[n]),
                    Green(g, Spoilt(j))
             PROVE  Green(g, calls)
  BY DEF UnreadableNeverHelps
<1>1. Spoils(calls, Spoilt(j), j)
  BY SpoiltIsSpoilt
<1>2. ASSUME NEW n \in GatingRules(g) PROVE RulePassed(g[n], calls)
  <2>1. n \in DOMAIN g /\ RulePassed(g[n], Spoilt(j))
    BY DEF Green, GatingRules
  <2>2. g[n].kind = "tool_calls" => g[n].op \in {">=", ">"} /\ AsksAlike(g[n])
    BY <2>1 DEF AsksForMore
  <2> QED BY <1>1, <2>1, <2>2, SpoiltPassesLess
<1> QED BY <1>2 DEF Green

\* Any calls are matched as well as their mode can.
LEMMA CallsAreAlwaysMatched ==
  ASSUME calls \in Seq(Calls)
  PROVE  CallsAreMatched
<1>1. IsStream(calls)
  BY StreamOfCalls
<1>2. OrderedIsBestInOrder
  <2> SUFFICES ASSUME NEW r \in Expectations
               PROVE  ScoreOrdered(r.expected, calls, r.withArgs) =
                        Max({Sum(r.expected, calls, r.withArgs, to) :
                               to \in {x \in Assignments(r.expected, calls) : Increasing(x)}})
    BY DEF OrderedIsBestInOrder
  <2> DEFINE e == r.expected
             w == r.withArgs
  <2>1. IsExpected(e) /\ w \in BOOLEAN
    BY ExpectationsTyped
  <2> HIDE DEF e, w
  <2>2. ScoreOrdered(e, calls, w) =
          Max({Sum(e, calls, w, to) : to \in {x \in Assignments(e, calls) : Increasing(x)}})
    BY <1>1, <2>1, OrderedIsBest
  <2> QED BY <2>2 DEF e, w
<1>3. SubsetIsBestByName
  <2> SUFFICES ASSUME NEW r \in Expectations
               PROVE  LET best == Max({Sum(r.expected, calls, r.withArgs, to) :
                                         to \in Assignments(r.expected, calls)})
                      IN  /\ ScoreSubset(r.expected, calls, r.withArgs) <= best
                          /\ ~ r.withArgs => ScoreSubset(r.expected, calls, r.withArgs) = best
    BY DEF SubsetIsBestByName
  <2> DEFINE e == r.expected
             w == r.withArgs
  <2>1. IsExpected(e) /\ w \in BOOLEAN
    BY ExpectationsTyped
  <2> HIDE DEF e, w
  <2>2. LET best == Max({Sum(e, calls, w, to) : to \in Assignments(e, calls)})
        IN  /\ ScoreSubset(e, calls, w) <= best
            /\ ~ w => ScoreSubset(e, calls, w) = best
    BY <1>1, <2>1, SubsetIsBest
  <2> QED BY <2>2 DEF e, w
<1>4. ModesAreALadder
  <2> SUFFICES ASSUME NEW r \in Expectations
               PROVE  LET Full(match) == Score(match, r.expected, calls, r.withArgs) = Unit * Len(r.expected)
                      IN  (Full("exact") => Full("ordered")) /\ (Full("ordered") => Full("subset"))
    BY DEF ModesAreALadder
  <2> DEFINE e == r.expected
             w == r.withArgs
  <2>1. IsExpected(e) /\ w \in BOOLEAN
    BY ExpectationsTyped
  <2> HIDE DEF e, w
  <2>2. ScoreExact(e, calls, w) = Unit * Len(e) => ScoreOrdered(e, calls, w) = Unit * Len(e)
    BY <1>1, <2>1, FullExactIsFullOrdered
  <2>3. ScoreOrdered(e, calls, w) = Unit * Len(e) => ScoreSubset(e, calls, w) = Unit * Len(e)
    BY <1>1, <2>1, FullOrderedIsFullSubset
  <2> QED BY <2>2, <2>3 DEF e, w, Score
<1> QED BY <1>2, <1>3, <1>4, UnreadableHelpsNobody DEF CallsAreMatched

-----------------------------------------------------------------------------
(* A gate and its tools.                                                   *)

\* A report was made of its gate over the calls that had arrived by then.
ReportTaken ==
  report # None =>
    /\ report.gate \in ToolGates /\ report.origin \in Seq(Calls)
    /\ report.rows = AnalyzeGate(report.gate, Derive(report.gate, report.origin), report.origin)

\* A sequence into which a member is inserted.
LEMMA InsertedTyped ==
  ASSUME NEW S, NEW s \in Seq(S), NEW e \in S, NEW n \in 1 .. Len(s) + 1
  PROVE  InsertAt(s, n, e) \in Seq(S)
<1>1. SubSeq(s, 1, n - 1) \in Seq(S)
  OBVIOUS
<1>2. SubSeq(s, n, Len(s)) \in Seq(S)
  <2>1. n <= Len(s) => \A i \in n .. Len(s) : s[i] \in S
    OBVIOUS
  <2> QED BY <2>1
<1>3. <<e>> \in Seq(S)
  OBVIOUS
<1> DEFINE a == SubSeq(s, 1, n - 1)
           b == SubSeq(s, n, Len(s))
<1>4. a \o <<e>> \o b \in Seq(S)
  <2> HIDE DEF a, b
  <2> QED BY <1>1, <1>2, <1>3 DEF a, b
<1> QED BY <1>4 DEF InsertAt


\* Nothing but calls arrives, and a report stays what it was made of.
LEMMA ToolsTyped == AuditSpec => [](calls \in Seq(Calls) /\ ReportTaken)
<1>1. AuditInit => calls \in Seq(Calls) /\ ReportTaken
  BY DEF AuditInit, ReportTaken
<1>2. calls \in Seq(Calls) /\ ReportTaken /\ [AuditNext]_auditVars => (calls \in Seq(Calls) /\ ReportTaken)'
  <2> SUFFICES ASSUME calls \in Seq(Calls), ReportTaken, [AuditNext]_auditVars
               PROVE  calls' \in Seq(Calls) /\ ReportTaken'
    OBVIOUS
  <2>1. CASE UNCHANGED toolVars
    BY <2>1 DEF toolVars, ReportTaken
  <2>2. ASSUME NEW c \in Calls, Arrive(c), UNCHANGED report
        PROVE  calls' \in Seq(Calls) /\ ReportTaken'
    <3>1. PICK n \in 1 .. Len(calls) + 1 : calls' = InsertAt(calls, n, c)
      BY <2>2 DEF Arrive
    <3>2. calls' \in Seq(Calls)
      BY <3>1, InsertedTyped
    <3> QED BY <2>2, <3>2 DEF ReportTaken
  <2>3. ASSUME NEW g \in ToolGates, TakeReport(g), UNCHANGED calls
        PROVE  calls' \in Seq(Calls) /\ ReportTaken'
    <3>1. report' = [gate |-> g, origin |-> calls,
                     rows |-> AnalyzeGate(g, Derive(g, calls), calls)]
      BY <2>3 DEF TakeReport
    <3> QED BY <2>3, <3>1 DEF ReportTaken
  <2>4. ASSUME DropReport, UNCHANGED calls
        PROVE  calls' \in Seq(Calls) /\ ReportTaken'
    BY <2>4 DEF DropReport, ReportTaken
  <2> QED BY <2>1, <2>2, <2>3, <2>4 DEF AuditNext, GateSteps, ToolSteps, auditVars, toolVars
<1> QED BY <1>1, <1>2, PTL DEF AuditSpec

-----------------------------------------------------------------------------
(* Events that are missing.                                                *)

\* Where nothing is left of what it requires, a check with authority fails.
Lacks(match, s) == Len(s) \in Nat /\ \A n \in 1 .. Len(s) : s[n] \notin match

\* A check that demands events fails when none of them is left.
LEMMA LackingFails ==
  ASSUME NEW g \in Gates, NEW p \in Demanding(g), NEW match \in Required(p[2]), NEW s, Lacks(match, s),
         p[2].kind = "must_order" => \A n \in 1 .. Len(s) : s[n] \in Stored
  PROVE  ~ Holding(p[2], RunOver(p[2], s))
<1> DEFINE c == p[2]
           m == RunOver(c, s)
           N == Len(s)
<1>1. p \in Gating(g) /\ p \in CheckSet(g) /\ Authoritative(c)
  BY DEF Demanding, Gating
<1>2. /\ c.kind \in {"present", "must_order", "count"}
      /\ c.kind = "count" => c.rule.op \in {">=", ">"}
  BY DEF Demanding
<1>3. IsCheck(c)
  BY <1>1, ChecksOfGates
<1>4. N \in Nat /\ \A n \in 1 .. N : s[n] \notin match
  BY DEF Lacks
<1>5. ~ c.optional /\ ~ c.pending /\ match \in Required(c)
  BY <1>1 DEF Authoritative
<1>6. c.kind = "must_order" => \A n \in 1 .. N : s[n] \in Stored
  OBVIOUS
<1>7. RunKept(c, m, s, N)
  BY <1>2, <1>3, <1>4, RunIsKept
<1>8. Matches(match, s, N) = {}
  BY <1>4 DEF Matches
<1> SUFFICES ~ Holding(c, m)
  OBVIOUS
<1> HIDE DEF c, m, N
<1>9. CASE c.kind = "count"
  <2>1. match = c.rule.match
    BY <1>5, <1>9 DEF Required
  <2>2. m.got = 0
    <3>1. m.got = Cardinality(Matches(match, s, N))
      BY <1>7, <1>9, <2>1 DEF RunKept, CountKept
    <3> QED BY <1>8, <3>1, FS_EmptySet
  <2>3. ~ Tautological(c.rule) /\ c.rule \in CountRule
    BY <1>1, <1>3, <1>9, KindsOfChecks DEF Authoritative
  <2>4. c.rule.twice \in Int
    BY <2>3 DEF CountRule
  <2>5. ~ CountPassed(c.rule, m)
    BY <1>2, <1>9, <2>2, <2>3, <2>4 DEF CountPassed, CountHolds, Holds, Tautological
  <2> QED BY <1>9, <2>5 DEF Holding
<1>10. CASE c.kind = "present"
  <2>1. match \in c.rule.matchers
    BY <1>5, <1>10 DEF Required
  <2>2. m.hit = {x \in c.rule.matchers : Matches(x, s, N) # {}}
    BY <1>7, <1>10 DEF RunKept, PresentKept
  <2>3. ~ PresentPassed(c.rule, m)
    BY <1>8, <2>1, <2>2 DEF PresentPassed
  <2> QED BY <1>10, <2>3 DEF Holding
<1>11. CASE c.kind = "must_order"
  <2>1. c.rule.seq # <<>> /\ match = {ev \in Stored : ev.name = c.rule.seq[1]}
    BY <1>5, <1>11 DEF Required
  <2> DEFINE x == c.rule.seq[1]
  <2>2. x \in Names(c.rule)
    <3>1. c.rule \in OrderRule
      BY <1>3, <1>11, RuleAssumption DEF IsCheck, Kinds
    <3>2. c.rule.seq \in Seq(Name)
      BY <3>1 DEF OrderRule
    <3>3. 1 \in DOMAIN c.rule.seq
      BY <2>1, <3>2
    <3> QED BY <3>3 DEF Names
  <2>3. OrderKept(c.rule, m, s, N)
    BY <1>7, <1>11 DEF RunKept
  <2>4. m.firsts[x] = None
    BY <1>4, <1>6, <1>11, <2>1, <2>2, <2>3 DEF OrderKept
  <2>5. ~ OrderPassed(c.rule, m)
    BY <2>2, <2>4 DEF OrderPassed, Missing
  <2> QED BY <1>11, <2>5 DEF Holding
<1> QED BY <1>2, <1>9, <1>10, <1>11

\* Without a quorum one failing check with authority is enough.
LEMMA FailingIsRed ==
  ASSUME NEW g \in Gates, g.threshold = None, NEW p \in Gating(g), NEW s,
         ~ Holding(p[2], RunOver(p[2], s))
  PROVE  ~ JudgedOk(g, s)
<1> DEFINE P == {q \in Gating(g) : q[2].kind # "external" /\ Holding(q[2], RunOver(q[2], s))}
<1>1. p \notin P
  OBVIOUS
<1>2. P # Gating(g)
  BY <1>1
<1> HIDE DEF P
<1>3. ~ Suffices(g, P)
  BY <1>2 DEF Suffices
<1> QED BY <1>3 DEF JudgedOk, P

\* What is left when the events of a match are dropped.
LEMMA DropLeaves ==
  ASSUME NEW match, NEW S, NEW s \in Seq(S)
  PROVE  Drop(match, s) \in Seq(S \ match)
<1> DEFINE N == Len(s)
           L == Seq(S \ match)
           G(n, l) == IF s[n] \in match THEN l ELSE Append(l, s[n])
           Fits(f) == f = [n \in 0 .. N |-> IF n = 0 THEN <<>> ELSE G(n, f[n - 1])]
           left == CHOOSE f : Fits(f)
           step == [q \in (1 .. N) \X L |-> G(q[1], q[2])]
<1>1. N \in Nat /\ \A n \in 1 .. N : s[n] \in S
  OBVIOUS
<1>2. Drop(match, s) = left[N]
  BY DEF Drop
<1>3. \A n \in 1 .. N, l \in L : G(n, l) \in L
  BY <1>1
<1> HIDE DEF G
<1>4. step \in [(1 .. N) \X L -> L] /\ <<>> \in L
  BY <1>3
<1>5. \A n \in 1 .. N, l \in L : step[<<n, l>>] = G(n, l)
  <2> TAKE n \in 1 .. N, l \in L
  <2>1. <<n, l>> \in (1 .. N) \X L
    OBVIOUS
  <2> QED BY <2>1
<1> HIDE DEF step, N
<1>6. PICK f : Recursion(N, L, <<>>, step, f)
  <2> HIDE DEF L
  <2> QED BY <1>1, <1>4, RecursionExists
<1>7. f \in [0 .. N -> L]
  BY <1>6 DEF Recursion
<1>8. Fits(f)
  <2>1. ASSUME NEW n \in 0 .. N PROVE f[n] = IF n = 0 THEN <<>> ELSE G(n, f[n - 1])
    <3>1. CASE n = 0
      BY <1>6, <3>1 DEF Recursion
    <3>2. CASE n # 0
      <4>1. n \in 1 .. N /\ n - 1 \in 0 .. N
        BY <1>1, <3>2
      <4>2. f[n - 1] \in L /\ f[n] = step[<<n, f[n - 1]>>]
        BY <1>6, <4>1 DEF Recursion
      <4> QED BY <1>5, <3>2, <4>1, <4>2
    <3> QED BY <3>1, <3>2
  <2> QED BY <1>7, <2>1
<1>9. Fits(left)
  <2> HIDE DEF Fits
  <2> QED BY <1>8
<1> HIDE DEF left
<1>10. left[0] = <<>> /\ \A n \in 1 .. N : left[n] = G(n, left[n - 1])
  <2>1. left[0] = <<>>
    BY <1>1, <1>9
  <2>2. ASSUME NEW n \in 1 .. N PROVE left[n] = G(n, left[n - 1])
    <3>1. n \in 0 .. N /\ n # 0
      BY <1>1
    <3> QED BY <1>9, <3>1
  <2> QED BY <2>1, <2>2
<1> HIDE DEF Fits
<1> DEFINE T == {n \in 0 .. N : left[n] \notin L}
<1>11. T = {}
  <2> SUFFICES ASSUME T # {} PROVE FALSE
    OBVIOUS
  <2>1. PICK n \in T : \A k \in T : n <= k
    <3>1. T \in SUBSET Nat
      OBVIOUS
    <3> HIDE DEF T
    <3> QED BY <3>1, LeastNatural
  <2>2. n # 0
    BY <1>4, <1>10, <2>1
  <2>3. n \in 1 .. N /\ n - 1 \in 0 .. N /\ n - 1 < n
    BY <1>1, <2>1, <2>2
  <2>4. n - 1 \notin T
    <3> DEFINE l == n - 1
    <3>1. l < n /\ l \in Nat /\ n \in Nat
      BY <1>1, <2>3
    <3> HIDE DEF T, l
    <3>2. l \notin T
      BY <2>1, <3>1
    <3> QED BY <3>2 DEF l
  <2>5. left[n - 1] \in L
    BY <2>3, <2>4
  <2>6. left[n] \in L
    BY <1>3, <1>10, <2>3, <2>5
  <2> QED BY <2>1, <2>6
<1>12. left[N] \in L
  <2>1. N \in 0 .. N
    BY <1>1
  <2> QED BY <1>11, <2>1
<1> QED BY <1>2, <1>12

\* analysis.py:16-21.
LEMMA DroppedIsRed ==
  ASSUME stream \in Seq(Stored)
  PROVE  RequiredDropsDie
<1> SUFFICES ASSUME NEW g \in GreenWithoutQuorum, NEW p \in Demanding(g),
                    NEW events \in DropMutants(Required(p[2]), stream)
                      \cup CorruptMutants({x \in Required(p[2]) : AsksForValue(x)}, stream)
             PROVE  ~ JudgedOk(g, events)
  BY DEF RequiredDropsDie
<1>1. g \in Gates /\ g.threshold = None /\ p \in Gating(g)
  BY DEF GreenWithoutQuorum, Demanding
<1>2. \E match \in Required(p[2]) :
        /\ Lacks(match, events)
        /\ p[2].kind = "must_order" => \A n \in 1 .. Len(events) : events[n] \in Stored
  <2>1. CASE events \in DropMutants(Required(p[2]), stream)
    <3>1. PICK match \in Required(p[2]) : events = Drop(match, stream)
      BY <2>1 DEF DropMutants
    <3>2. events \in Seq(Stored \ match)
      BY <3>1, DropLeaves
    <3> QED BY <3>2 DEF Lacks
  <2>2. CASE events \in CorruptMutants({x \in Required(p[2]) : AsksForValue(x)}, stream)
    <3>1. PICK match \in Required(p[2]) :
            AsksForValue(match) /\ Pinned(match) /\ events = Corrupt(match, stream)
      BY <2>2 DEF CorruptMutants
    <3>2. /\ DOMAIN events = 1 .. Len(stream) /\ Len(stream) \in Nat
          /\ \A n \in 1 .. Len(stream) :
               events[n] = IF stream[n] \in match THEN Corrupted(stream[n]) ELSE stream[n]
      BY <3>1 DEF Corrupt
    <3>3. Len(events) = Len(stream)
      BY <3>1 DEF Corrupt
    <3>4. Lacks(match, events)
      BY <3>1, <3>2, <3>3 DEF Lacks, AsksForValue
    <3>5. p[2].kind # "must_order"
      BY <3>1 DEF Pinned, Required
    <3> QED BY <3>4, <3>5
  <2> QED BY <2>1, <2>2
<1>3. ~ Holding(p[2], RunOver(p[2], events))
  BY <1>1, <1>2, LackingFails
<1> QED BY <1>1, <1>3, FailingIsRed

-----------------------------------------------------------------------------
(* Sequences, whatever they list.                                          *)

\* A sequence, of whatever it lists.
Listed(s) == s \in Seq(Range(s))

\* A sequence over any set is listed, and its members are of the set.
LEMMA ListedSeqs ==
  ASSUME NEW S, NEW s \in Seq(S)
  PROVE  Listed(s) /\ Range(s) \subseteq S /\ Range(s) = {s[i] : i \in 1 .. Len(s)}
<1>1. DOMAIN s = 1 .. Len(s) /\ Len(s) \in Nat /\ \A i \in 1 .. Len(s) : s[i] \in S
  OBVIOUS
<1>2. Range(s) = {s[i] : i \in 1 .. Len(s)} /\ Range(s) \subseteq S
  BY <1>1 DEF Range
<1>3. s \in [1 .. Len(s) -> Range(s)]
  BY <1>1, <1>2
<1>4. s \in Seq(Range(s))
  BY <1>1, <1>3
<1> QED BY <1>2, <1>4 DEF Listed

\* A function of 1 .. N is a sequence of length N.
LEMMA ListedFunctions ==
  ASSUME NEW N \in Nat, NEW s, DOMAIN s = 1 .. N, s = [i \in 1 .. N |-> s[i]]
  PROVE  Listed(s) /\ Len(s) = N
<1>1. s \in [1 .. N -> Range(s)]
  BY DEF Range
<1> QED BY <1>1 DEF Listed

\* Two sequences joined list what each of them lists.
LEMMA JoinedListed ==
  ASSUME NEW a, NEW b, Listed(a), Listed(b)
  PROVE  Listed(a \o b) /\ Range(a \o b) = Range(a) \cup Range(b)
<1> DEFINE S == Range(a) \cup Range(b)
           c == a \o b
           m == Len(a)
           n == Len(b)
<1>1. a \in Seq(S) /\ b \in Seq(S)
  <2>1. a \in Seq(Range(a)) /\ b \in Seq(Range(b)) /\ Range(a) \subseteq S /\ Range(b) \subseteq S
    BY DEF Listed
  <2> QED BY <2>1
<1>2. /\ m \in Nat /\ n \in Nat /\ c \in Seq(S) /\ Len(c) = m + n
      /\ \A i \in 1 .. m : c[i] = a[i]
      /\ \A i \in 1 .. n : c[m + i] = b[i]
      /\ DOMAIN a = 1 .. m /\ DOMAIN b = 1 .. n /\ DOMAIN c = 1 .. m + n
  BY <1>1
<1>3. Listed(c) /\ Range(c) \subseteq S
  BY <1>2, ListedSeqs
<1>4. ASSUME NEW x \in S PROVE x \in Range(c)
  <2>1. CASE x \in Range(a)
    <3>1. PICK i \in 1 .. m : x = a[i]
      BY <1>2, <2>1 DEF Range
    <3>2. i \in DOMAIN c /\ c[i] = x
      BY <1>2, <3>1
    <3> QED BY <3>2 DEF Range
  <2>2. CASE x \in Range(b)
    <3>1. PICK i \in 1 .. n : x = b[i]
      BY <1>2, <2>2 DEF Range
    <3>2. m + i \in DOMAIN c /\ c[m + i] = x
      BY <1>2, <3>1
    <3> QED BY <3>2 DEF Range
  <2> QED BY <2>1, <2>2
<1> QED BY <1>3, <1>4

\* A sequence of one, and of none.
LEMMA SingleListed ==
  ASSUME NEW x
  PROVE  /\ Listed(<<x>>) /\ Range(<<x>>) = {x}
         /\ Listed(<<>>) /\ Range(<<>>) = {}
BY DEF Listed, Range

\* Sequences flattened list what each of them lists.
LEMMA FlattenListed ==
  ASSUME NEW N \in Nat, NEW ss, DOMAIN ss = 1 .. N, Len(ss) = N, \A i \in 1 .. N : Listed(ss[i]),
         N = 0 => ss = <<>>
  PROVE  /\ Listed(FlattenSeq(ss))
         /\ Range(FlattenSeq(ss)) = UNION {Range(ss[i]) : i \in 1 .. N}
<1>1. CASE N = 0
  <2>1. FlattenSeq(ss) = <<>>
    BY <1>1 DEF FlattenSeq
  <2>2. UNION {Range(ss[i]) : i \in 1 .. N} = {}
    BY <1>1
  <2> QED BY <2>1, <2>2, SingleListed
<1>2. CASE N # 0
  <2> DEFINE G(f, i) == IF i = 1 THEN ss[i] ELSE f[i - 1] \o ss[i]
             Fits(f) == f = [i \in 1 .. N |-> G(f, i)]
             fl == CHOOSE f : Fits(f)
             U == UNION {Range(ss[i]) : i \in 1 .. N}
             S == Seq(U)
             step == [q \in (1 .. N) \X S |-> q[2] \o ss[q[1]]]
  <2>1. FlattenSeq(ss) = fl[N]
    BY <1>2 DEF FlattenSeq
  <2>2. \A i \in 1 .. N : ss[i] \in S
    <3> TAKE i \in 1 .. N
    <3>1. Range(ss[i]) \subseteq U
      OBVIOUS
    <3> HIDE DEF U
    <3>2. ss[i] \in Seq(Range(ss[i]))
      BY DEF Listed
    <3> QED BY <3>1, <3>2
  <2> HIDE DEF U
  <2>3. <<>> \in S /\ step \in [(1 .. N) \X S -> S]
    BY <2>2
  <2>4. \A i \in 1 .. N, s \in S : step[<<i, s>>] = s \o ss[i]
    <3> TAKE i \in 1 .. N, s \in S
    <3>1. <<i, s>> \in (1 .. N) \X S
      OBVIOUS
    <3> QED BY <3>1
  <2> HIDE DEF step
  <2>5. PICK f : Recursion(N, S, <<>>, step, f)
    <3> HIDE DEF S
    <3> QED BY <2>3, RecursionExists
  <2>6. f \in [0 .. N -> S] /\ f[0] = <<>>
    BY <2>5 DEF Recursion
  <2>7. ASSUME NEW i \in 1 .. N PROVE f[i] = f[i - 1] \o ss[i]
    <3>1. i - 1 \in 0 .. N
      OBVIOUS
    <3>2. f[i - 1] \in S /\ f[i] = step[<<i, f[i - 1]>>]
      BY <2>5, <3>1 DEF Recursion
    <3> QED BY <2>4, <3>2
  <2> DEFINE h == [i \in 1 .. N |-> f[i]]
  <2>8. Fits(h)
    <3>1. ASSUME NEW i \in 1 .. N PROVE h[i] = G(h, i)
      <4>1. CASE i = 1
        <5>3. f[i] = f[i - 1] \o ss[i] /\ i - 1 = 0
          BY <2>7, <4>1
        <5>1. f[1] = <<>> \o ss[1]
          BY <2>6, <4>1, <5>3
        <5>2. <<>> \o ss[1] = ss[1]
          BY <2>2, <4>1
        <5> QED BY <4>1, <5>1, <5>2
      <4>2. CASE i # 1
        <5>1. i - 1 \in 1 .. N
          BY <4>2
        <5> QED BY <2>7, <4>2, <5>1
      <4> QED BY <4>1, <4>2
    <3>2. h = [i \in 1 .. N |-> h[i]]
      OBVIOUS
    <3> HIDE DEF h, G
    <3> QED BY <3>1, <3>2
  <2>9. Fits(fl)
    <3> HIDE DEF Fits
    <3> QED BY <2>8
  <2> HIDE DEF fl
  <2>10. ASSUME NEW i \in 1 .. N PROVE fl[i] = IF i = 1 THEN ss[i] ELSE fl[i - 1] \o ss[i]
    <3> DEFINE g == fl
    <3>1. g = [k \in 1 .. N |-> G(g, k)]
      BY <2>9
    <3>2. g[i] = G(g, i)
      <4> HIDE DEF G
      <4>1. \A k \in 1 .. N : g[k] = G(g, k)
        BY <3>1
      <4> QED BY <4>1
    <3> QED BY <3>2
  <2> HIDE DEF Fits
  <2> DEFINE Good(n) == Listed(fl[n]) /\ Range(fl[n]) = UNION {Range(ss[i]) : i \in 1 .. n}
             T == {n \in 1 .. N : ~ Good(n)}
  <2>11. T = {}
    <3> SUFFICES ASSUME T # {} PROVE FALSE
      OBVIOUS
    <3>1. PICK n \in T : \A k \in T : n <= k
      <4>1. T \in SUBSET Nat
        OBVIOUS
      <4> HIDE DEF T
      <4> QED BY <4>1, LeastNatural
    <3>2. n \in 1 .. N
      OBVIOUS
    <3>3. n # 1
      <4>1. fl[1] = ss[1] /\ 1 \in 1 .. N
        BY <1>2, <2>10
      <4>2. 1 .. 1 = {1}
        OBVIOUS
      <4>3. Good(1)
        BY <4>1, <4>2
      <4> HIDE DEF Good
      <4> QED BY <3>1, <4>3
    <3> DEFINE l == n - 1
    <3>4. l \in 1 .. N /\ l < n /\ 1 .. n = (1 .. l) \cup {n}
      BY <3>2, <3>3
    <3>5. fl[n] = fl[l] \o ss[n]
      BY <2>10, <3>2, <3>3
    <3>6. l \notin T
      <4> HIDE DEF T, l
      <4> QED BY <3>1, <3>2, <3>4
    <3> HIDE DEF l
    <3>7. Listed(fl[l]) /\ Range(fl[l]) = UNION {Range(ss[i]) : i \in 1 .. l}
      BY <3>4, <3>6
    <3>8. Listed(ss[n])
      BY <3>2
    <3> DEFINE a == fl[l]
               b == ss[n]
    <3> HIDE DEF a, b
    <3>9. Listed(a \o b) /\ Range(a \o b) = Range(a) \cup Range(b)
      BY <3>7, <3>8, JoinedListed DEF a, b
    <3>10. UNION {Range(ss[i]) : i \in 1 .. n} = (UNION {Range(ss[i]) : i \in 1 .. l}) \cup Range(ss[n])
      BY <3>4
    <3>11. Good(n)
      BY <3>5, <3>7, <3>9, <3>10 DEF a, b
    <3> QED BY <3>1, <3>11
  <2>12. Good(N)
    <3>1. N \in 1 .. N
      BY <1>2
    <3> HIDE DEF Good
    <3> QED BY <2>11, <3>1
  <2> QED BY <2>1, <2>12
<1> QED BY <1>1, <1>2

-----------------------------------------------------------------------------
(* The mutants of a gate of tool calls.                                    *)

\* Only calls of the same tool are a pair.
LEMMA PairsAreOfTool ==
  ASSUME NEW e, NEW c, NEW w
  PROVE  /\ PairScore(e, c, w, TRUE) > 0 => c.tool = e.tool
         /\ PairScore(e, c, w, FALSE) > 0 => c.tool = e.tool
<1> DEFINE strict == PairScore(e, c, w, TRUE)
           loose  == PairScore(e, c, w, FALSE)
<1>1. e.tool # c.tool => strict = 0 /\ loose = 0
  BY DEF PairScore
<1> HIDE DEF strict, loose
<1>2. (strict > 0 => c.tool = e.tool) /\ (loose > 0 => c.tool = e.tool)
  BY <1>1
<1> QED BY <1>2 DEF strict, loose

\* An expected call is bound to one of its own tool, in order.
LEMMA FollowedIsBound ==
  ASSUME NEW r, r.match = "ordered", IsExpected(r.expected), NEW arrived, IsStream(arrived)
  PROVE  \A n \in DOMAIN r.expected :
           Bound(r, arrived)[n] # None =>
             /\ Bound(r, arrived)[n] \in DOMAIN arrived
             /\ arrived[Bound(r, arrived)[n]].tool = r.expected[n].tool
<1> DEFINE N == Len(r.expected)
           Pair(n, j, exact) == PairScore(r.expected[n], arrived[j], r.withArgs, exact) > 0
           Later(s, n) == {j \in DOMAIN arrived : j > Max({0} \cup (Range(s) \ {None})) /\ Pair(n, j, FALSE)}
           B(n, s) == IF Later(s, n) = {} THEN None ELSE Min(Later(s, n))
           A == DOMAIN arrived \cup {None}
           S == Seq(A)
           G(n, s) == Append(s, B(n, s))
           Fits(f) == f = [n \in 0 .. N |-> IF n = 0 THEN <<>> ELSE G(n, f[n - 1])]
           fo == CHOOSE f : Fits(f)
           step == [q \in (1 .. N) \X S |-> G(q[1], q[2])]
           Fit(n, b) == b # None => b \in DOMAIN arrived /\ arrived[b].tool = r.expected[n].tool
<1>1. N \in Nat /\ DOMAIN r.expected = 1 .. N
  BY ExpectedTyped
<1>2. Bound(r, arrived) = fo[N]
  BY DEF Bound
<1>3. ASSUME NEW n \in 1 .. N, NEW s PROVE B(n, s) \in A /\ Fit(n, B(n, s))
  <2> DEFINE L == Later(s, n)
  <2>1. L \subseteq DOMAIN arrived
    OBVIOUS
  <2>2. DOMAIN arrived \subseteq Nat
    BY StreamsTyped
  <2>3. ASSUME NEW j \in L PROVE arrived[j].tool = r.expected[n].tool
    <3>1. Pair(n, j, FALSE)
      OBVIOUS
    <3> QED BY <3>1, PairsAreOfTool
  <2> HIDE DEF L
  <2>4. L # {} => Min(L) \in L
    BY <2>1, <2>2, LeastIsMin
  <2> DEFINE b == IF L = {} THEN None ELSE Min(L)
  <2>5. b \in A /\ Fit(n, b)
    BY <2>1, <2>3, <2>4
  <2> HIDE DEF A, Fit
  <2> QED BY <2>5 DEF L
<1> HIDE DEF B, Fit, A
<1>4. \A n \in 1 .. N, s \in S : G(n, s) \in S
  BY <1>3
<1> HIDE DEF G
<1>5. step \in [(1 .. N) \X S -> S] /\ <<>> \in S
  BY <1>4
<1>6. \A n \in 1 .. N, s \in S : step[<<n, s>>] = G(n, s)
  <2> TAKE n \in 1 .. N, s \in S
  <2>1. <<n, s>> \in (1 .. N) \X S
    OBVIOUS
  <2> QED BY <2>1
<1> HIDE DEF step, N
<1>7. PICK f : Recursion(N, S, <<>>, step, f)
  <2> HIDE DEF S
  <2> QED BY <1>1, <1>5, RecursionExists
<1>8. Fits(f)
  <2>1. f \in [0 .. N -> S]
    BY <1>7 DEF Recursion
  <2>2. ASSUME NEW n \in 0 .. N PROVE f[n] = IF n = 0 THEN <<>> ELSE G(n, f[n - 1])
    <3>1. CASE n = 0
      BY <1>7, <3>1 DEF Recursion
    <3>2. CASE n # 0
      <4>1. n \in 1 .. N /\ n - 1 \in 0 .. N
        BY <1>1, <3>2
      <4>2. f[n - 1] \in S /\ f[n] = step[<<n, f[n - 1]>>]
        BY <1>7, <4>1 DEF Recursion
      <4> QED BY <1>6, <3>2, <4>1, <4>2
    <3> QED BY <3>1, <3>2
  <2> QED BY <2>1, <2>2
<1>9. Fits(fo)
  <2> HIDE DEF Fits
  <2> QED BY <1>8
<1> HIDE DEF fo
<1>10. fo[0] = <<>> /\ \A n \in 1 .. N : fo[n] = Append(fo[n - 1], B(n, fo[n - 1]))
  <2>1. fo[0] = <<>>
    BY <1>1, <1>9
  <2>2. ASSUME NEW n \in 1 .. N PROVE fo[n] = G(n, fo[n - 1])
    <3>1. n \in 0 .. N /\ n # 0
      BY <1>1
    <3> QED BY <1>9, <3>1
  <2> QED BY <2>1, <2>2 DEF G
<1> HIDE DEF Fits
<1> DEFINE Good(n) == fo[n] \in [1 .. n -> A] /\ \A k \in 1 .. n : Fit(k, fo[n][k])
           T == {n \in 0 .. N : ~ Good(n)}
<1>11. T = {}
  <2> SUFFICES ASSUME T # {} PROVE FALSE
    OBVIOUS
  <2>1. PICK n \in T : \A k \in T : n <= k
    <3>1. T \in SUBSET Nat
      OBVIOUS
    <3> HIDE DEF T
    <3> QED BY <3>1, LeastNatural
  <2>2. n # 0
    <3>1. Good(0)
      BY <1>10
    <3> HIDE DEF Good
    <3> QED BY <2>1, <3>1
  <2> DEFINE l == n - 1
  <2>3. n \in 1 .. N /\ l \in 0 .. N /\ l < n /\ l \in Nat /\ n \in Nat /\ n = l + 1 /\ n \in 0 .. N
    BY <1>1, <2>1, <2>2
  <2>4. Good(l)
    <3>1. l \notin T
      <4> HIDE DEF l, T
      <4> QED BY <2>1, <2>3
    <3> HIDE DEF Good
    <3> QED BY <2>3, <3>1
  <2> DEFINE s == fo[l]
             t == fo[n]
             b == B(n, s)
  <2>5. s \in [1 .. l -> A] /\ s \in Seq(A) /\ Len(s) = l /\ b \in A /\ Fit(n, b)
    BY <1>3, <2>3, <2>4
  <2>6. t = Append(s, b)
    BY <1>10, <2>3
  <2>7. \A k \in 1 .. l : Fit(k, s[k])
    BY <2>4
  <2> HIDE DEF t, s, l, b
  <2>8. /\ t \in Seq(A) /\ Len(t) = n /\ t[n] = b
        /\ \A k \in 1 .. l : t[k] = s[k]
    BY <2>3, <2>5, <2>6, AppendProperties
  <2>9. t \in [1 .. n -> A]
    BY <2>8
  <2>10. ASSUME NEW k \in 1 .. n PROVE Fit(k, t[k])
    <3>1. CASE k = n
      BY <2>5, <2>8, <3>1
    <3>2. CASE k # n
      <4>1. k \in 1 .. l
        BY <2>3, <3>2
      <4> QED BY <2>7, <2>8, <4>1
    <3> QED BY <3>1, <3>2
  <2>11. Good(n)
    BY <2>9, <2>10 DEF t
  <2> HIDE DEF Good
  <2> QED BY <2>1, <2>11
<1>12. Good(N)
  <2>1. N \in 0 .. N
    BY <1>1
  <2> HIDE DEF Good
  <2> QED BY <1>11, <2>1
<1> QED BY <1>1, <1>2, <1>12 DEF Fit

\* Whatever its mode, a rule binds an expected call to one of its own tool; in full and
\* exactly, to the one in its place.
LEMMA BoundIsOfTool ==
  ASSUME NEW r, r.match \in Match, r.withArgs \in BOOLEAN, IsExpected(r.expected),
         NEW arrived, IsStream(arrived), NEW n \in DOMAIN r.expected, Bound(r, arrived)[n] # None
  PROVE  /\ Bound(r, arrived)[n] \in DOMAIN arrived
         /\ arrived[Bound(r, arrived)[n]].tool = r.expected[n].tool
         /\ r.match = "exact" /\ Len(arrived) = Len(r.expected) => Bound(r, arrived)[n] = n
<1> DEFINE e == r.expected
           c == Claims(e, arrived, r.withArgs)
<1>1. DOMAIN e = 1 .. Len(e) /\ DOMAIN arrived = 1 .. Len(arrived)
  BY ExpectedTyped, StreamsTyped
<1>2. CASE r.match = "exact" /\ Len(arrived) = Len(e)
  <2>1. Bound(r, arrived) = [k \in DOMAIN e |->
                               IF PairScore(e[k], arrived[k], r.withArgs, TRUE) > 0 THEN k ELSE None]
    BY <1>2 DEF Bound
  <2>2. Bound(r, arrived)[n] = n /\ PairScore(e[n], arrived[n], r.withArgs, TRUE) > 0
    BY <2>1
  <2>3. arrived[n].tool = e[n].tool
    BY <2>2, PairsAreOfTool
  <2> QED BY <1>1, <1>2, <2>2, <2>3
<1>3. CASE r.match = "ordered"
  <2>1. /\ Bound(r, arrived)[n] \in DOMAIN arrived
        /\ arrived[Bound(r, arrived)[n]].tool = r.expected[n].tool
    BY <1>3, FollowedIsBound
  <2> QED BY <1>3, <2>1
<1>4. CASE ~ (r.match = "exact" /\ Len(arrived) = Len(e)) /\ r.match # "ordered"
  <2>1. Bound(r, arrived) = c
    BY <1>4 DEF Bound
  <2>2. Greedy(e, arrived, r.withArgs, c)
    BY ClaimsAreGreedy
  <2> DEFINE score == Scores(e[n], arrived, r.withArgs)
  <2>3. score = Scores(e[n], arrived, r.withArgs)
    OBVIOUS
  <2> HIDE DEF c, score
  <2>4. n \in 1 .. Len(e)
    BY <1>1
  <2>5. Picks(score, DOMAIN arrived, Taken(c, n), c[n])
    BY <2>2, <2>3, <2>4, GreedyClaims
  <2>6. c[n] \in DOMAIN arrived /\ score[c[n]] > 0
    BY <2>1, <2>5 DEF Picks
  <2>7. score[c[n]] = PairScore(e[n], arrived[c[n]], r.withArgs, FALSE)
    BY <2>6 DEF score, Scores
  <2>8. PairScore(e[n], arrived[c[n]], r.withArgs, FALSE) > 0
    BY <2>6, <2>7
  <2>9. arrived[c[n]].tool = e[n].tool
    BY <2>8, PairsAreOfTool
  <2> QED BY <1>4, <2>1, <2>6, <2>9
<1> QED BY <1>2, <1>3, <1>4

-----------------------------------------------------------------------------
(* The rows of a rule of tool calls.                                       *)

\* The sequences of a sequence of them, one after the other.
LEMMA FlattenMembers ==
  ASSUME NEW N \in Nat, NEW ss, ss = [i \in 1 .. N |-> ss[i]], \A i \in 1 .. N : Listed(ss[i])
  PROVE  /\ Listed(FlattenSeq(ss))
         /\ \A x : x \in Range(FlattenSeq(ss)) <=> \E i \in 1 .. N : x \in Range(ss[i])
<1>1. DOMAIN ss = 1 .. N
  OBVIOUS
<1>2. Listed(ss) /\ Len(ss) = N
  BY <1>1, ListedFunctions
<1>3. N = 0 => ss = <<>>
  BY <1>2 DEF Listed
<1>4. Listed(FlattenSeq(ss)) /\ Range(FlattenSeq(ss)) = UNION {Range(ss[i]) : i \in 1 .. N}
  BY <1>1, <1>2, <1>3, FlattenListed
<1> HIDE DEF Listed
<1> QED BY <1>4

\* What a set is mapped to, listed.
LEMMA MappedListed ==
  ASSUME NEW S, IsFiniteSet(S), NEW s, s = [i \in 1 .. Cardinality(S) |-> s[i]], NEW D,
         \A i \in 1 .. Cardinality(S) : SetToSeq(S)[i] \in S => s[i] \in D
  PROVE  Listed(s) /\ Range(s) \subseteq D
<1>1. Cardinality(S) \in Nat /\ \A i \in 1 .. Cardinality(S) : SetToSeq(S)[i] \in S
  BY ListedMembers
<1>2. DOMAIN s = 1 .. Cardinality(S) /\ \A i \in DOMAIN s : s[i] \in D
  BY <1>1
<1>3. Listed(s)
  BY <1>1, <1>2, ListedFunctions
<1> QED BY <1>2, <1>3 DEF Range

\* Corrupted arguments are rejected by what is asked of them.
LEMMA CorruptedAreRejected ==
  ASSUME NEW want, NEW k, NEW got, CorruptArgs(want, k, got) # None
  PROVE  ~ MatcherArgsPass([x \in {k} |-> want], CorruptArgs(want, k, got))
<1> DEFINE base    == IF got \in {None, Unreadable} THEN <<>> ELSE got
           With(v) == [x \in DOMAIN base \cup {k} |-> IF x = k THEN v ELSE base[x]]
           Asks(kinds) == IsMatcher(want) /\ \E constraint \in want.matcher : constraint.kind \in kinds
           When(condition, v) == IF condition THEN <<With(v)>> ELSE <<>>
           unwanted == UNION {constraint.want : constraint \in
                         {x \in IF IsMatcher(want) THEN want.matcher ELSE {} : x.kind = "not_contains"}}
           c1 == <<[x \in DOMAIN base \ {k} |-> base[x]]>>
           c2 == When(unwanted # {}, [shape |-> "text", parts |-> {CHOOSE x \in unwanted : TRUE}])
           c3 == When(Asks({"absent", "empty_or_absent"}), Sentinel)
           c4 == When(Asks({"has_keys"}), Empty("dict"))
           c5 == When(Asks({"non_empty", "any"}), Empty("text"))
           c6 == When(Asks({"contains_all", "contains_any", "equals"}), Sentinel)
           c7 == When(~IsMatcher(want) /\ want.shape # "dict", Sentinel)
           candidates == c1 \o c2 \o c3 \o c4 \o c5 \o c6 \o c7
           rejected == {n \in DOMAIN candidates : ~MatcherArgsPass([x \in {k} |-> want], candidates[n])}
<1>1. CorruptArgs(want, k, got) = IF rejected = {} THEN None ELSE candidates[Min(rejected)]
  BY DEF CorruptArgs
<1>2. ASSUME NEW condition \in BOOLEAN, NEW v PROVE Listed(When(condition, v))
  <2> HIDE DEF With
  <2> QED BY SingleListed
<1>3. /\ Listed(c1) /\ Listed(c2) /\ Listed(c3) /\ Listed(c4)
      /\ Listed(c5) /\ Listed(c6) /\ Listed(c7)
  <2>1. Listed(c1)
    BY SingleListed
  <2> HIDE DEF When, Asks, c1
  <2>2. (unwanted # {}) \in BOOLEAN /\ (~IsMatcher(want) /\ want.shape # "dict") \in BOOLEAN
    OBVIOUS
  <2>3. \A kinds : Asks(kinds) \in BOOLEAN
    BY DEF Asks
  <2> QED BY <1>2, <2>1, <2>2, <2>3
<1> HIDE DEF c1, c2, c3, c4, c5, c6, c7
<1>4. Listed(candidates)
  BY <1>3, JoinedListed
<1>5. DOMAIN candidates \subseteq Nat
  <2> HIDE DEF candidates
  <2> QED BY <1>4 DEF Listed
<1> DEFINE Rejects(args) == ~MatcherArgsPass([x \in {k} |-> want], args)
<1>6. rejected \in SUBSET Nat /\ \A n \in rejected : Rejects(candidates[n])
  BY <1>5
<1> HIDE DEF candidates
<1>7. rejected # {} => Min(rejected) \in rejected
  <2> HIDE DEF rejected
  <2> QED BY <1>6, LeastIsMin
<1> HIDE DEF rejected, Rejects
<1>8. Rejects(CorruptArgs(want, k, got))
  BY <1>1, <1>6, <1>7
<1> QED BY <1>8 DEF Rejects

\* An expected call that arrived, under another name.
Renames(row, r, arrived) ==
  \E n \in DOMAIN r.expected, j \in DOMAIN arrived :
    /\ row.label = <<"rename", n, r.expected[n].tool>>
    /\ arrived[j].tool = r.expected[n].tool
    /\ row.calls = [arrived EXCEPT ![j].tool = Renamed]

\* Arguments instead of those that arrived, and rejected for one that is asked for.
Corrupts(row, r, arrived) ==
  \E n \in DOMAIN r.expected, j \in DOMAIN arrived : \E x :
    /\ row.label[1] = "corrupt"
    /\ r.match = "exact" /\ Len(arrived) = Len(r.expected) => j = n
    /\ r.withArgs /\ r.expected[n].args # None
    /\ \E k \in DOMAIN r.expected[n].args : ~ MatcherArgsPass([y \in {k} |-> r.expected[n].args[k]], x)
    /\ row.calls = [arrived EXCEPT ![j].args = x]

\* One call more.
Extends(row, r, arrived) ==
  /\ row.label[1] = "extra" /\ r.match = "exact"
  /\ \E c : row.calls = Append(arrived, c)

\* One call more, which the rule forbids.
Injects(row, r, arrived) ==
  /\ row.label[1] \in {"inject_tool", "inject_call", "inject_unreadable"}
  /\ \E c : row.calls = Append(arrived, c)
  /\ ~ RulePassed(r, row.calls)

\* A row of an expectation that is met, in whatever mode.
OfBound(row, r, arrived) ==
  Renames(row, r, arrived) \/ Corrupts(row, r, arrived) \/ row.label[1] = "reorder"

\* Of what kind a row of an expectation is, by its label.
LEMMA LabelsOfBound ==
  ASSUME NEW row, NEW r, NEW arrived
  PROVE  /\ Renames(row, r, arrived) => row.label[1] = "rename"
         /\ Corrupts(row, r, arrived) => row.label[1] = "corrupt"
         /\ OfBound(row, r, arrived) => row.label[1] \in {"rename", "corrupt", "reorder"}
<1>1. Renames(row, r, arrived) => row.label[1] = "rename"
  BY DEF Renames
<1>2. Corrupts(row, r, arrived) => row.label[1] = "corrupt"
  BY DEF Corrupts
<1> QED BY <1>1, <1>2 DEF OfBound

\* The rename of a bound call is one row.
LEMMA RenameRows ==
  ASSUME NEW r, NEW arrived, NEW n \in DOMAIN r.expected, NEW j \in DOMAIN arrived,
         arrived[j].tool = r.expected[n].tool
  PROVE  /\ Listed(RenameRow(r, arrived, j, n))
         /\ RenameRow(r, arrived, j, n) # <<>>
         /\ \A row \in Range(RenameRow(r, arrived, j, n)) : row.rule = r /\ Renames(row, r, arrived)
<1> DEFINE row == Row(<<"rename", n, r.expected[n].tool>>, [arrived EXCEPT ![j].tool = Renamed], r)
<1>1. RenameRow(r, arrived, j, n) = <<row>>
  BY DEF RenameRow
<1>2. row.rule = r /\ Renames(row, r, arrived)
  BY DEF Row, Renames
<1> HIDE DEF row
<1>3. Listed(<<row>>) /\ Range(<<row>>) = {row} /\ <<row>> # <<>>
  BY SingleListed
<1> QED BY <1>1, <1>2, <1>3

\* Each corrupted row of a bound call is rejected for an argument that is asked for.
LEMMA CorruptRowsAre ==
  ASSUME NEW r, r.withArgs \in BOOLEAN, IsExpected(r.expected), NEW arrived, IsStream(arrived),
         NEW n \in DOMAIN r.expected, NEW j \in DOMAIN arrived,
         r.match = "exact" /\ Len(arrived) = Len(r.expected) => j = n
  PROVE  /\ Listed(CorruptRows(r, arrived, j, n))
         /\ \A row \in Range(CorruptRows(r, arrived, j, n)) : row.rule = r /\ Corrupts(row, r, arrived)
<1> DEFINE e == r.expected[n]
           Changed(k) == CorruptArgs(e.args[k], k, arrived[j].args)
           keys == IF ~r.withArgs \/ e.args = None THEN {} ELSE {k \in DOMAIN e.args : Changed(k) # None}
           Mutated(k) == Row(<<"corrupt", n, e.tool, k>>, [arrived EXCEPT ![j].args = Changed(k)], r)
           rows == CorruptRows(r, arrived, j, n)
           D == {row \in Range(rows) : row.rule = r /\ Corrupts(row, r, arrived)}
<1>1. rows = [i \in 1 .. Cardinality(keys) |-> Mutated(SetToSeq(keys)[i])]
  BY DEF CorruptRows
<1>2. IsExpectation(e)
  BY DEF IsExpected
<1>3. IsFiniteSet(keys)
  <2>1. IsFiniteSet(Keys)
    BY TrajectoryAssumption
  <2>2. keys \in SUBSET Keys
    BY <1>2 DEF IsExpectation
  <2> HIDE DEF keys
  <2> QED BY <2>1, <2>2, FS_Subset
<1>4. ASSUME NEW k \in keys PROVE Mutated(k).rule = r /\ Corrupts(Mutated(k), r, arrived)
  <2> DEFINE x == Changed(k)
             row == Mutated(k)
  <2>1. r.withArgs /\ e.args # None /\ k \in DOMAIN e.args /\ Changed(k) # None
    BY <1>4
  <2>2. ~ MatcherArgsPass([y \in {k} |-> e.args[k]], x)
    BY <2>1, CorruptedAreRejected
  <2> HIDE DEF x
  <2>3. row.label[1] = "corrupt" /\ row.rule = r /\ row.calls = [arrived EXCEPT ![j].args = x]
    BY DEF Row, x
  <2> HIDE DEF row
  <2>4. Corrupts(row, r, arrived)
    <3> DEFINE Is(y) ==
                 /\ r.withArgs /\ e.args # None
                 /\ \E z \in DOMAIN e.args : ~ MatcherArgsPass([u \in {z} |-> e.args[z]], y)
                 /\ row.calls = [arrived EXCEPT ![j].args = y]
    <3>1. Is(x)
      BY <2>1, <2>2, <2>3
    <3>2. \E y : Is(y)
      <4> HIDE DEF Is
      <4> QED BY <3>1
    <3> QED BY <2>3, <3>2 DEF Corrupts
  <2> QED BY <2>3, <2>4 DEF row
<1> HIDE DEF Mutated, keys
<1>5. rows = [i \in 1 .. Cardinality(keys) |-> rows[i]]
  BY <1>1
<1>6. \A i \in 1 .. Cardinality(keys) : SetToSeq(keys)[i] \in keys => rows[i] \in D
  <2> TAKE i \in 1 .. Cardinality(keys)
  <2> HAVE SetToSeq(keys)[i] \in keys
  <2>1. rows[i] = Mutated(SetToSeq(keys)[i]) /\ i \in DOMAIN rows
    BY <1>1
  <2>2. rows[i] \in Range(rows)
    BY <2>1 DEF Range
  <2> QED BY <1>4, <2>1, <2>2
<1> HIDE DEF rows, D
<1>7. Listed(rows) /\ Range(rows) \subseteq D
  BY <1>3, <1>5, <1>6, MappedListed
<1> QED BY <1>7 DEF rows, D

\* The rows of an expectation: where one is, an expected call was renamed.
LEMMA BoundRowsAre ==
  ASSUME NEW r, r.match \in Match, r.withArgs \in BOOLEAN, IsExpected(r.expected),
         NEW arrived, IsStream(arrived)
  PROVE  LET rows == CoverToolCalls(r, arrived) IN
         /\ Listed(rows)
         /\ \A row \in Range(rows) :
              row.rule = r /\ (OfBound(row, r, arrived) \/ Extends(row, r, arrived))
         /\ \A row \in Range(rows) :
              OfBound(row, r, arrived) => \E x \in Range(rows) : x.rule = r /\ Renames(x, r, arrived)
<1> DEFINE bound == Bound(r, arrived)
           N == Len(r.expected)
           Each(n) == IF bound[n] = None THEN <<>>
                      ELSE RenameRow(r, arrived, bound[n], n) \o CorruptRows(r, arrived, bound[n], n)
           Pair(n) == IF None \in {bound[n], bound[n + 1]} THEN <<>>
                      ELSE ReorderRow(r, arrived, bound[n], bound[n + 1], n)
           pairs == IF r.match \in {"ordered", "exact"} THEN Len(r.expected) - 1 ELSE 0
           a == FlattenSeq([n \in DOMAIN r.expected |-> Each(n)])
           b == FlattenSeq([n \in 1 .. pairs |-> Pair(n)])
           c == IF r.match # "exact" THEN <<>>
                ELSE <<Row(<<"extra">>, Append(arrived, Call(Renamed, <<>>)), r)>>
           rows == CoverToolCalls(r, arrived)
<1>1. rows = a \o b \o c
  BY DEF CoverToolCalls, BoundRows
<1>2. N \in Nat \ {0} /\ DOMAIN r.expected = 1 .. N
  BY ExpectedTyped
<1>3. ASSUME NEW n \in 1 .. N
      PROVE  /\ Listed(Each(n))
             /\ bound[n] # None => \E x \in Range(Each(n)) : x.rule = r /\ Renames(x, r, arrived)
             /\ \A row \in Range(Each(n)) :
                  bound[n] # None /\ row.rule = r /\ (Renames(row, r, arrived) \/ Corrupts(row, r, arrived))
  <2>1. CASE bound[n] = None
    BY <2>1, SingleListed
  <2>2. CASE bound[n] # None
    <3> DEFINE j == bound[n]
               p == RenameRow(r, arrived, j, n)
               q == CorruptRows(r, arrived, j, n)
    <3>1. /\ j \in DOMAIN arrived /\ arrived[j].tool = r.expected[n].tool
          /\ r.match = "exact" /\ Len(arrived) = Len(r.expected) => j = n
      BY <1>2, <2>2, BoundIsOfTool
    <3>2. n \in DOMAIN r.expected
      BY <1>2
    <3> HIDE DEF j
    <3>3. Listed(p) /\ p # <<>> /\ \A row \in Range(p) : row.rule = r /\ Renames(row, r, arrived)
      BY <3>1, <3>2, RenameRows
    <3>4. Listed(q) /\ \A row \in Range(q) : row.rule = r /\ Corrupts(row, r, arrived)
      BY <3>1, <3>2, CorruptRowsAre
    <3> HIDE DEF p, q
    <3>5. Listed(p \o q) /\ Range(p \o q) = Range(p) \cup Range(q)
      BY <3>3, <3>4, JoinedListed
    <3>6. \E x \in Range(p) : TRUE
      BY <3>3 DEF Listed, Range
    <3>7. Each(n) = p \o q
      BY <2>2 DEF p, q, j
    <3> HIDE DEF Each
    <3> QED BY <2>2, <3>3, <3>4, <3>5, <3>6, <3>7
  <2> QED BY <2>1, <2>2
<1>4. ASSUME NEW n \in 1 .. pairs
      PROVE  /\ Listed(Pair(n))
             /\ \A row \in Range(Pair(n)) : bound[n] # None /\ row.rule = r /\ row.label[1] = "reorder"
  <2>1. CASE None \in {bound[n], bound[n + 1]}
    BY <2>1, SingleListed
  <2>2. CASE None \notin {bound[n], bound[n + 1]}
    <3> DEFINE row == Row(<<"reorder", n, r.expected[n].tool, r.expected[n + 1].tool>>,
                          [arrived EXCEPT ![bound[n]] = arrived[bound[n + 1]],
                                          ![bound[n + 1]] = arrived[bound[n]]], r)
    <3>1. Pair(n) = <<row>> /\ bound[n] # None
      BY <2>2 DEF ReorderRow
    <3>2. row.rule = r /\ row.label[1] = "reorder"
      BY DEF Row
    <3> HIDE DEF row, Pair
    <3> QED BY <3>1, <3>2, SingleListed
  <2> QED BY <2>1, <2>2
<1>5. Listed(c) /\ \A row \in Range(c) : row.rule = r /\ Extends(row, r, arrived)
  <2> DEFINE row == Row(<<"extra">>, Append(arrived, Call(Renamed, <<>>)), r)
  <2>1. r.match = "exact" => row.rule = r /\ Extends(row, r, arrived)
    BY DEF Row, Extends
  <2> HIDE DEF row
  <2>2. Listed(<<row>>) /\ Range(<<row>>) = {row} /\ Listed(<<>>) /\ Range(<<>>) = {}
    BY SingleListed
  <2> QED BY <2>1, <2>2 DEF row
<1>6. pairs \in Nat /\ pairs <= N
  BY <1>2
<1> HIDE DEF Each, Pair, pairs, bound
<1>7. Listed(a) /\ \A x : x \in Range(a) <=> \E n \in 1 .. N : x \in Range(Each(n))
  <2> DEFINE ss == [n \in DOMAIN r.expected |-> Each(n)]
  <2>1. ss = [n \in 1 .. N |-> ss[n]] /\ \A n \in 1 .. N : ss[n] = Each(n)
    BY <1>2
  <2> HIDE DEF ss
  <2>2. \A n \in 1 .. N : Listed(ss[n])
    BY <1>3, <2>1
  <2>3. Listed(FlattenSeq(ss)) /\ \A x : x \in Range(FlattenSeq(ss)) <=> \E n \in 1 .. N : x \in Range(ss[n])
    BY <1>2, <2>1, <2>2, FlattenMembers
  <2> QED BY <2>1, <2>3 DEF ss
<1>8. Listed(b) /\ \A x : x \in Range(b) <=> \E n \in 1 .. pairs : x \in Range(Pair(n))
  <2> DEFINE ss == [n \in 1 .. pairs |-> Pair(n)]
  <2>1. ss = [n \in 1 .. pairs |-> ss[n]] /\ \A n \in 1 .. pairs : ss[n] = Pair(n)
    OBVIOUS
  <2> HIDE DEF ss
  <2>2. \A n \in 1 .. pairs : Listed(ss[n])
    BY <1>4, <2>1
  <2>3. Listed(FlattenSeq(ss)) /\ \A x : x \in Range(FlattenSeq(ss)) <=> \E n \in 1 .. pairs : x \in Range(ss[n])
    BY <1>6, <2>1, <2>2, FlattenMembers
  <2> QED BY <2>1, <2>3 DEF ss
<1> HIDE DEF a, b, c, N
<1>9. Listed(a \o b) /\ Range(a \o b) = Range(a) \cup Range(b)
  BY <1>7, <1>8, JoinedListed
<1>10. Listed(rows) /\ Range(rows) = Range(a) \cup Range(b) \cup Range(c)
  <2> DEFINE d == a \o b
  <2>1. Listed(d)
    BY <1>9
  <2> HIDE DEF d
  <2>2. Listed(d \o c) /\ Range(d \o c) = Range(d) \cup Range(c)
    BY <1>5, <2>1, JoinedListed
  <2> QED BY <1>1, <1>9, <2>2 DEF d
<1> HIDE DEF rows
<1>11. \A row \in Range(a) : row.rule = r /\ OfBound(row, r, arrived)
  BY <1>3, <1>7 DEF OfBound
<1>12. \A row \in Range(b) : row.rule = r /\ OfBound(row, r, arrived)
  BY <1>4, <1>8 DEF OfBound
<1>13. \A row \in Range(a) \cup Range(b) : \E x \in Range(a) : x.rule = r /\ Renames(x, r, arrived)
  <2>1. ASSUME NEW n \in 1 .. N, bound[n] # None
        PROVE  \E x \in Range(a) : x.rule = r /\ Renames(x, r, arrived)
    BY <1>3, <1>7, <2>1
  <2>2. ASSUME NEW row \in Range(a) PROVE \E n \in 1 .. N : bound[n] # None
    BY <1>3, <1>7
  <2>3. ASSUME NEW row \in Range(b) PROVE \E n \in 1 .. N : bound[n] # None
    <3>1. PICK n \in 1 .. pairs : row \in Range(Pair(n))
      BY <1>8
    <3>2. bound[n] # None /\ n \in 1 .. N
      BY <1>2, <1>4, <1>6, <3>1 DEF N
    <3> QED BY <3>2
  <2> QED BY <2>1, <2>2, <2>3
<1>14. \A row \in Range(c) : ~ OfBound(row, r, arrived)
  <2>1. ASSUME NEW row, OfBound(row, r, arrived)
        PROVE  row.label[1] \in {"rename", "corrupt", "reorder"}
    BY <2>1, LabelsOfBound
  <2>2. ASSUME NEW row, Extends(row, r, arrived) PROVE row.label[1] = "extra"
    BY <2>2 DEF Extends
  <2> QED BY <1>5, <2>1, <2>2
<1>15. \A row \in Range(rows) : row.rule = r /\ (OfBound(row, r, arrived) \/ Extends(row, r, arrived))
  BY <1>5, <1>10, <1>11, <1>12
<1>16. \A row \in Range(rows) :
         OfBound(row, r, arrived) => \E x \in Range(rows) : x.rule = r /\ Renames(x, r, arrived)
  BY <1>10, <1>13, <1>14
<1> QED BY <1>10, <1>15, <1>16 DEF rows

\* Every row of a rule.
OfRule(row, r, arrived) ==
  \/ r.kind = "tool_calls" /\ (OfBound(row, r, arrived) \/ Extends(row, r, arrived))
  \/ Injects(row, r, arrived)

\* A call put last.
LEMMA LastOfAppended ==
  ASSUME NEW arrived, IsStream(arrived), NEW c
  PROVE  /\ Len(arrived) + 1 \in DOMAIN Append(arrived, c)
         /\ Append(arrived, c)[Len(arrived) + 1] = c
         /\ Len(Append(arrived, c)) = Len(arrived) + 1
         /\ DOMAIN Append(arrived, c) = 1 .. Len(arrived) + 1
<1> DEFINE S == Range(arrived) \cup {c}
<1>1. arrived \in Seq(S) /\ c \in S
  <2>1. arrived \in Seq(Range(arrived))
    BY DEF IsStream
  <2> QED BY <2>1
<1> HIDE DEF S
<1> QED BY <1>1, AppendProperties

\* A forbidden tool among the calls.
LEMMA ForbiddenToolRows ==
  ASSUME NEW r, r.kind = "forbidden_tools", IsRule(r), NEW arrived, IsStream(arrived)
  PROVE  /\ Listed(CoverForbiddenTools(r, arrived))
         /\ \A row \in Range(CoverForbiddenTools(r, arrived)) : row.rule = r /\ Injects(row, r, arrived)
<1> DEFINE N == Len(r.tools)
           M(n) == Row(<<"inject_tool", r.tools[n]>>, Append(arrived, Call(r.tools[n], <<>>)), r)
           rows == CoverForbiddenTools(r, arrived)
<1>1. N \in Nat /\ DOMAIN r.tools = 1 .. N
  <2>1. IsList(r.tools)
    BY DEF IsRule
  <2> QED BY <2>1 DEF IsList
<1>2. rows = [n \in DOMAIN r.tools |-> M(n)]
  BY DEF CoverForbiddenTools
<1>3. ASSUME NEW n \in DOMAIN r.tools PROVE M(n).rule = r /\ Injects(M(n), r, arrived)
  <2> DEFINE c == Call(r.tools[n], <<>>)
             row == M(n)
  <2>1. row.label[1] = "inject_tool" /\ row.rule = r /\ row.calls = Append(arrived, c)
    BY DEF Row
  <2>2. c.tool \in Range(r.tools)
    BY DEF Call, Range
  <2> HIDE DEF c, row
  <2>3. ~ CheckForbiddenTools(r, row.calls)
    BY <2>1, <2>2, LastOfAppended DEF CheckForbiddenTools
  <2>4. ~ RulePassed(r, row.calls)
    BY <2>3 DEF RulePassed
  <2>5. Injects(row, r, arrived)
    BY <2>1, <2>4 DEF Injects
  <2> QED BY <2>1, <2>5 DEF row
<1> HIDE DEF M
<1>4. DOMAIN rows = 1 .. N /\ rows = [n \in 1 .. N |-> rows[n]] /\ \A n \in DOMAIN rows : rows[n] = M(n)
  BY <1>1, <1>2
<1> HIDE DEF rows
<1>5. Listed(rows)
  BY <1>1, <1>4, ListedFunctions
<1>6. \A row \in Range(rows) : row.rule = r /\ Injects(row, r, arrived)
  BY <1>1, <1>3, <1>4 DEF Range
<1> QED BY <1>5, <1>6 DEF rows

\* The empty arguments can be read.
LEMMA NothingIsReadable == <<>> \in Readables /\ <<>> # None /\ <<>> # Unreadable
<1>1. <<>> \in [{} -> Value] /\ {} \in SUBSET Keys
  OBVIOUS
<1>2. <<>> \in Readables
  BY <1>1 DEF Readables
<1> QED BY <1>2, TrajectoryAssumption

\* A call that an item forbids, put last.
LEMMA OffendingRow ==
  ASSUME NEW r, r.kind = "forbidden_tool_calls", NEW arrived, IsStream(arrived),
         NEW n \in DOMAIN r.items, NEW args,
         r.items[n].args # None => ForbiddenArgsPass(r.items[n].args, args),
         NEW label, label[1] \in {"inject_call", "inject_unreadable"},
         NEW row, row = Row(label, Append(arrived, Call(r.items[n].tool, args)), r)
  PROVE  row.rule = r /\ Injects(row, r, arrived)
<1> DEFINE c == Call(r.items[n].tool, args)
<1>1. Offends(r.items[n], c)
  BY DEF Offends, Call
<1>2. row.rule = r /\ row.label[1] \in {"inject_call", "inject_unreadable"} /\ row.calls = Append(arrived, c)
  BY DEF Row
<1> HIDE DEF c
<1>3. ~ CheckForbiddenToolCalls(r, row.calls)
  BY <1>1, <1>2, LastOfAppended DEF CheckForbiddenToolCalls
<1>4. ~ RulePassed(r, row.calls)
  BY <1>3 DEF RulePassed
<1> QED BY <1>2, <1>4 DEF Injects

\* A forbidden call among the calls.
LEMMA ForbiddenCallRows ==
  ASSUME NEW r, r.kind = "forbidden_tool_calls", IsRule(r), NEW arrived, IsStream(arrived)
  PROVE  /\ Listed(CoverForbiddenToolCalls(r, arrived))
         /\ \A row \in Range(CoverForbiddenToolCalls(r, arrived)) :
              row.rule = r /\ Injects(row, r, arrived)
<1> DEFINE N == Len(r.items)
           Injected(n, label, args) == <<Row(label, Append(arrived, Call(r.items[n].tool, args)), r)>>
           First(n) == \A m \in 1 .. n - 1 :
                         r.items[m].tool = r.items[n].tool => r.items[m].args \in {None, <<>>}
           Witness(n) == ArgsWitness(r.items[n].args)
           A(n) == IF ForbiddenArgsPass(r.items[n].args, Witness(n))
                   THEN Injected(n, <<"inject_call", n, r.items[n].tool>>, Witness(n)) ELSE <<>>
           B(n) == IF First(n)
                   THEN Injected(n, <<"inject_unreadable", r.items[n].tool>>, Unreadable) ELSE <<>>
           C(n) == Injected(n, <<"inject_call", n, r.items[n].tool>>, <<>>)
           Each(n) == IF r.items[n].args \in {None, <<>>} THEN C(n) ELSE A(n) \o B(n)
           rows == CoverForbiddenToolCalls(r, arrived)
           Fine(s) == Listed(s) /\ \A row \in Range(s) : row.rule = r /\ Injects(row, r, arrived)
<1>1. N \in Nat /\ DOMAIN r.items = 1 .. N
  <2>1. IsList(r.items)
    BY DEF IsRule
  <2> QED BY <2>1 DEF IsList
<1>2. rows = FlattenSeq([n \in DOMAIN r.items |-> Each(n)])
  BY DEF CoverForbiddenToolCalls
<1>3. Fine(<<>>)
  BY SingleListed
<1>4. ASSUME NEW n \in DOMAIN r.items, NEW args,
             r.items[n].args # None => ForbiddenArgsPass(r.items[n].args, args),
             NEW label, label[1] \in {"inject_call", "inject_unreadable"}
      PROVE  Fine(Injected(n, label, args))
  <2> DEFINE row == Row(label, Append(arrived, Call(r.items[n].tool, args)), r)
  <2>1. row.rule = r /\ Injects(row, r, arrived)
    BY <1>4, OffendingRow
  <2> HIDE DEF row
  <2>2. Fine(<<row>>)
    BY <2>1, SingleListed
  <2> QED BY <2>2 DEF row
<1> HIDE DEF Fine, Injected
<1>5. ASSUME NEW n \in DOMAIN r.items PROVE Fine(Each(n))
  <2> DEFINE call == <<"inject_call", n, r.items[n].tool>>
             blind == <<"inject_unreadable", r.items[n].tool>>
             policed == r.items[n].args
             w == Witness(n)
  <2>1. call[1] \in {"inject_call", "inject_unreadable"} /\ blind[1] \in {"inject_call", "inject_unreadable"}
    OBVIOUS
  <2>2. C(n) = Injected(n, call, <<>>)
    OBVIOUS
  <2>3. A(n) = (IF ForbiddenArgsPass(policed, w) THEN Injected(n, call, w) ELSE <<>>)
    OBVIOUS
  <2>4. B(n) = (IF First(n) THEN Injected(n, blind, Unreadable) ELSE <<>>)
    OBVIOUS
  <2>5. policed \in {None, <<>>} => (policed # None => ForbiddenArgsPass(policed, <<>>))
    BY NothingIsReadable DEF ForbiddenArgsPass
  <2>6. ForbiddenArgsPass(policed, Unreadable)
    BY DEF ForbiddenArgsPass
  <2> HIDE DEF call, blind, w, A, B, C, First
  <2>7. policed \in {None, <<>>} => Fine(C(n))
    BY <1>4, <2>1, <2>2, <2>5
  <2>8. Fine(A(n))
    BY <1>3, <1>4, <2>1, <2>3
  <2>9. Fine(B(n))
    BY <1>3, <1>4, <2>1, <2>4, <2>6
  <2> DEFINE a == A(n)
             b == B(n)
  <2>10. Fine(a \o b)
    <3>1. Listed(a) /\ Listed(b)
      BY <2>8, <2>9 DEF Fine
    <3> HIDE DEF a, b
    <3>2. Listed(a \o b) /\ Range(a \o b) = Range(a) \cup Range(b)
      BY <3>1, JoinedListed
    <3> QED BY <2>8, <2>9, <3>2 DEF Fine, a, b
  <2> QED BY <2>7, <2>10
<1> HIDE DEF Each
<1> DEFINE ss == [n \in DOMAIN r.items |-> Each(n)]
<1>6. ss = [n \in 1 .. N |-> ss[n]] /\ \A n \in 1 .. N : Fine(ss[n])
  BY <1>1, <1>5
<1>7. rows = FlattenSeq(ss)
  BY <1>2
<1> HIDE DEF ss, rows
<1>8. \A n \in 1 .. N : Listed(ss[n])
  BY <1>6 DEF Fine
<1>9. Listed(FlattenSeq(ss)) /\ \A x : x \in Range(FlattenSeq(ss)) <=> \E n \in 1 .. N : x \in Range(ss[n])
  <2> HIDE DEF N
  <2> QED BY <1>1, <1>6, <1>8, FlattenMembers
<1>10. Listed(rows) /\ \A row \in Range(rows) : row.rule = r /\ Injects(row, r, arrived)
  BY <1>6, <1>7, <1>9 DEF Fine
<1> QED BY <1>10 DEF rows

-----------------------------------------------------------------------------
(* The rows of a gate, and what is kept of them.                           *)

\* The rows of a gate, before those of a known label are left out.
CoverOf(r, arrived) ==
  CASE r.kind = "tool_calls"           -> CoverToolCalls(r, arrived)
    [] r.kind = "forbidden_tools"      -> CoverForbiddenTools(r, arrived)
    [] r.kind = "forbidden_tool_calls" -> CoverForbiddenToolCalls(r, arrived)

\* All rows of a gate, rule by rule.
RowsOf(g, arrived) ==
  FlattenSeq([n \in DOMAIN g |-> IF n \in GatingRules(g) THEN CoverOf(g[n], arrived) ELSE <<>>])

\* Every row is one of a rule with authority; one of an expectation is not alone.
OfGate(row, g, arrived) == \E n \in GatingRules(g) : row.rule = g[n] /\ OfRule(row, g[n], arrived)

\* One of the rows is a rename.
HasRename(rows, arrived) ==
  \E row \in Range(rows) : row.rule.kind = "tool_calls" /\ Renames(row, row.rule, arrived)

\* The rows of one rule.
LEMMA RowsOfRule ==
  ASSUME NEW r, IsRule(r), NEW arrived, IsStream(arrived)
  PROVE  LET rows == CoverOf(r, arrived) IN
         /\ Listed(rows)
         /\ \A row \in Range(rows) : row.rule = r /\ OfRule(row, r, arrived)
         /\ \A row \in Range(rows) :
              row.label[1] \in {"rename", "corrupt", "reorder"} => HasRename(rows, arrived)
<1> DEFINE rows == CoverOf(r, arrived)
<1>1. CASE r.kind = "tool_calls"
  <2>1. rows = CoverToolCalls(r, arrived)
    BY <1>1 DEF CoverOf
  <2>2. r.match \in Match /\ r.withArgs \in BOOLEAN /\ IsExpected(r.expected)
    BY <1>1 DEF IsRule, IsExpected, IsList
  <2>3. /\ Listed(rows)
        /\ \A row \in Range(rows) :
             row.rule = r /\ (OfBound(row, r, arrived) \/ Extends(row, r, arrived))
        /\ \A row \in Range(rows) :
             OfBound(row, r, arrived) => \E x \in Range(rows) : x.rule = r /\ Renames(x, r, arrived)
    BY <2>1, <2>2, BoundRowsAre
  <2> HIDE DEF rows
  <2>4. \A row : Extends(row, r, arrived) => row.label[1] = "extra"
    BY DEF Extends
  <2>5. (\E x \in Range(rows) : x.rule = r /\ Renames(x, r, arrived)) => HasRename(rows, arrived)
    BY <1>1 DEF HasRename
  <2> QED BY <1>1, <2>3, <2>4, <2>5 DEF OfRule, rows
<1>2. CASE r.kind \in {"forbidden_tools", "forbidden_tool_calls"}
  <2> DEFINE Fine == Listed(rows) /\ \A row \in Range(rows) : row.rule = r /\ Injects(row, r, arrived)
  <2>1. r.kind = "forbidden_tools" => Fine
    <3> HAVE r.kind = "forbidden_tools"
    <3>1. rows = CoverForbiddenTools(r, arrived)
      BY DEF CoverOf
    <3> QED BY <3>1, ForbiddenToolRows
  <2>2. r.kind = "forbidden_tool_calls" => Fine
    <3> HAVE r.kind = "forbidden_tool_calls"
    <3>1. rows = CoverForbiddenToolCalls(r, arrived)
      BY DEF CoverOf
    <3> QED BY <3>1, ForbiddenCallRows
  <2>3. \A row : Injects(row, r, arrived) =>
              row.label[1] \notin {"rename", "corrupt", "reorder"} /\ OfRule(row, r, arrived)
    BY DEF Injects, OfRule
  <2> HIDE DEF rows
  <2>4. Fine
    BY <1>2, <2>1, <2>2
  <2> QED BY <2>3, <2>4 DEF rows
<1> QED BY <1>1, <1>2 DEF IsRule

\* The rows of a gate.
LEMMA RowsOfGate ==
  ASSUME NEW g \in ToolGates, NEW arrived, IsStream(arrived)
  PROVE  LET rows == RowsOf(g, arrived) IN
         /\ Listed(rows)
         /\ \A row \in Range(rows) : OfGate(row, g, arrived)
         /\ \A row \in Range(rows) :
              row.label[1] \in {"rename", "corrupt", "reorder"} => HasRename(rows, arrived)
<1> DEFINE N == Len(g)
           Each(n) == IF n \in GatingRules(g) THEN CoverOf(g[n], arrived) ELSE <<>>
           ss == [n \in DOMAIN g |-> Each(n)]
           rows == RowsOf(g, arrived)
<1>1. N \in Nat /\ DOMAIN g = 1 .. N /\ \A n \in DOMAIN g : IsRule(g[n])
  BY ToolRules
<1>2. rows = FlattenSeq(ss)
  BY DEF RowsOf
<1>3. ASSUME NEW n \in DOMAIN g
      PROVE  /\ Listed(Each(n))
             /\ \A row \in Range(Each(n)) :
                  /\ n \in GatingRules(g) /\ row.rule = g[n] /\ OfRule(row, g[n], arrived)
                  /\ row.label[1] \in {"rename", "corrupt", "reorder"} => HasRename(Each(n), arrived)
  <2>1. CASE n \in GatingRules(g)
    <3> DEFINE r == g[n]
    <3>1. IsRule(r)
      BY <1>1
    <3>2. Each(n) = CoverOf(r, arrived)
      BY <2>1
    <3> HIDE DEF r, Each
    <3> QED BY <2>1, <3>1, <3>2, RowsOfRule DEF r
  <2>2. CASE n \notin GatingRules(g)
    BY <2>2, SingleListed
  <2> QED BY <2>1, <2>2
<1> HIDE DEF Each
<1>4. ss = [n \in 1 .. N |-> ss[n]] /\ \A n \in 1 .. N : ss[n] = Each(n)
  BY <1>1
<1> HIDE DEF ss
<1>5. \A n \in 1 .. N : Listed(ss[n])
  BY <1>1, <1>3, <1>4
<1>6. Listed(FlattenSeq(ss)) /\ \A x : x \in Range(FlattenSeq(ss)) <=> \E n \in 1 .. N : x \in Range(ss[n])
  <2> HIDE DEF N
  <2> QED BY <1>1, <1>4, <1>5, FlattenMembers
<1> HIDE DEF rows
<1>7. \A row : row \in Range(rows) <=> \E n \in 1 .. N : row \in Range(Each(n))
  BY <1>2, <1>4, <1>6
<1>8. ASSUME NEW n \in 1 .. N, HasRename(Each(n), arrived) PROVE HasRename(rows, arrived)
  BY <1>7, <1>8 DEF HasRename
<1>9. ASSUME NEW row \in Range(rows)
      PROVE  /\ OfGate(row, g, arrived)
             /\ row.label[1] \in {"rename", "corrupt", "reorder"} => HasRename(rows, arrived)
  <2>1. PICK n \in 1 .. N : row \in Range(Each(n))
    BY <1>7
  <2>2. /\ n \in GatingRules(g) /\ row.rule = g[n] /\ OfRule(row, g[n], arrived)
        /\ row.label[1] \in {"rename", "corrupt", "reorder"} => HasRename(Each(n), arrived)
    BY <1>1, <1>3, <2>1
  <2>3. OfGate(row, g, arrived)
    BY <2>2 DEF OfGate
  <2> QED BY <1>8, <2>2, <2>3
<1> QED BY <1>2, <1>6, <1>9 DEF rows

\* What is kept of the rows: none that changes nothing, and the first of every other label.
LEMMA KeptRows ==
  ASSUME NEW g, NEW arrived, Listed(RowsOf(g, arrived))
  PROVE  LET kept == Derive(g, arrived) IN
         /\ Listed(kept) /\ Range(kept) \subseteq Range(RowsOf(g, arrived))
         /\ \A row \in Range(RowsOf(g, arrived)) :
              row.calls # arrived => \E x \in Range(kept) : x.label = row.label
<1> DEFINE rows == RowsOf(g, arrived)
           N == Len(rows)
           R == Range(rows)
           S == Seq(R)
           Known(n, s) == \/ rows[n].calls = arrived /\ ~ SwappedStamps(rows[n])
                          \/ \E m \in DOMAIN s : s[m].label = rows[n].label
           G(n, s) == IF Known(n, s) THEN s ELSE Append(s, rows[n])
           Fits(f) == f = [n \in 0 .. N |-> IF n = 0 THEN <<>> ELSE G(n, f[n - 1])]
           kp == CHOOSE f : Fits(f)
           step == [q \in (1 .. N) \X S |-> G(q[1], q[2])]
           Covers(s, n) == \A i \in 1 .. n :
                             rows[i].calls # arrived => \E x \in Range(s) : x.label = rows[i].label
<1>1. N \in Nat /\ DOMAIN rows = 1 .. N /\ \A n \in 1 .. N : rows[n] \in R
  BY DEF Listed
<1>2. Derive(g, arrived) = kp[N]
  BY DEF Derive, RowsOf, CoverOf
<1> HIDE DEF rows
<1>3. ASSUME NEW n \in 1 .. N, NEW s \in S
      PROVE  /\ G(n, s) \in S /\ Range(s) \subseteq Range(G(n, s))
             /\ rows[n].calls # arrived => \E x \in Range(G(n, s)) : x.label = rows[n].label
  <2>1. CASE Known(n, s)
    <3>1. G(n, s) = s
      BY <2>1
    <3>2. rows[n].calls # arrived => \E x \in Range(s) : x.label = rows[n].label
      BY <2>1 DEF Range
    <3> HIDE DEF G
    <3> QED BY <3>1, <3>2
  <2>2. CASE ~ Known(n, s)
    <3> DEFINE t == Append(s, rows[n])
    <3>1. G(n, s) = t
      BY <2>2
    <3>2. rows[n] \in R
      BY <1>1
    <3> HIDE DEF R, G, Known
    <3>3. t \in S /\ Len(t) = Len(s) + 1 /\ t[Len(t)] = rows[n] /\ \A i \in 1 .. Len(s) : t[i] = s[i]
      BY <3>2, AppendProperties
    <3>4. DOMAIN s = 1 .. Len(s) /\ DOMAIN t = 1 .. Len(t) /\ Len(s) \in Nat
      BY <3>3
    <3> HIDE DEF t
    <3>5. Range(s) \subseteq Range(t) /\ rows[n] \in Range(t)
      BY <3>3, <3>4 DEF Range
    <3> QED BY <3>1, <3>3, <3>5
  <2> QED BY <2>1, <2>2
<1> HIDE DEF G, Known
<1>4. step \in [(1 .. N) \X S -> S] /\ <<>> \in S
  BY <1>3
<1>5. \A n \in 1 .. N, s \in S : step[<<n, s>>] = G(n, s)
  <2> TAKE n \in 1 .. N, s \in S
  <2>1. <<n, s>> \in (1 .. N) \X S
    OBVIOUS
  <2> QED BY <2>1
<1> HIDE DEF step, N
<1>6. PICK f : Recursion(N, S, <<>>, step, f)
  <2> HIDE DEF S
  <2> QED BY <1>1, <1>4, RecursionExists
<1>7. f \in [0 .. N -> S]
  BY <1>6 DEF Recursion
<1>8. Fits(f)
  <2>1. ASSUME NEW n \in 0 .. N PROVE f[n] = IF n = 0 THEN <<>> ELSE G(n, f[n - 1])
    <3>1. CASE n = 0
      BY <1>6, <3>1 DEF Recursion
    <3>2. CASE n # 0
      <4>1. n \in 1 .. N /\ n - 1 \in 0 .. N
        BY <1>1, <3>2
      <4>2. f[n - 1] \in S /\ f[n] = step[<<n, f[n - 1]>>]
        BY <1>6, <4>1 DEF Recursion
      <4> QED BY <1>5, <3>2, <4>1, <4>2
    <3> QED BY <3>1, <3>2
  <2> QED BY <1>7, <2>1
<1>9. Fits(kp)
  <2> HIDE DEF Fits
  <2> QED BY <1>8
<1> HIDE DEF kp
<1>10. kp[0] = <<>> /\ \A n \in 1 .. N : kp[n] = G(n, kp[n - 1])
  <2>1. kp[0] = <<>>
    BY <1>1, <1>9
  <2>2. ASSUME NEW n \in 1 .. N PROVE kp[n] = G(n, kp[n - 1])
    <3>1. n \in 0 .. N /\ n # 0
      BY <1>1
    <3> QED BY <1>9, <3>1
  <2> QED BY <2>1, <2>2
<1> HIDE DEF Fits
<1> DEFINE Good(n) == kp[n] \in S /\ Covers(kp[n], n)
           T == {n \in 0 .. N : ~ Good(n)}
<1>11. T = {}
  <2> SUFFICES ASSUME T # {} PROVE FALSE
    OBVIOUS
  <2>1. PICK n \in T : \A k \in T : n <= k
    <3>1. T \in SUBSET Nat
      OBVIOUS
    <3> HIDE DEF T
    <3> QED BY <3>1, LeastNatural
  <2>2. n # 0
    <3>1. Good(0)
      BY <1>4, <1>10
    <3> HIDE DEF Good
    <3> QED BY <2>1, <3>1
  <2> DEFINE l == n - 1
  <2>3. n \in 1 .. N /\ l \in 0 .. N /\ l < n /\ l \in Nat /\ n \in Nat /\ n = l + 1 /\ n \in 0 .. N
    BY <1>1, <2>1, <2>2
  <2>4. Good(l)
    <3>1. l \notin T
      <4> HIDE DEF l, T
      <4> QED BY <2>1, <2>3
    <3> HIDE DEF Good
    <3> QED BY <2>3, <3>1
  <2> DEFINE s == kp[l]
             t == kp[n]
  <2>5. t = G(n, s)
    BY <1>10, <2>3
  <2>6. s \in S /\ Covers(s, l)
    BY <2>4
  <2> HIDE DEF s, t, l, S
  <2>7. /\ t \in S /\ Range(s) \subseteq Range(t)
        /\ rows[n].calls # arrived => \E x \in Range(t) : x.label = rows[n].label
    BY <1>3, <2>3, <2>5, <2>6
  <2>8. Covers(t, n)
    <3> TAKE i \in 1 .. n
    <3>1. CASE i = n
      BY <2>7, <3>1
    <3>2. CASE i # n
      <4>1. i \in 1 .. l
        BY <2>3, <3>2
      <4> QED BY <2>6, <2>7, <4>1
    <3> QED BY <3>1, <3>2
  <2>9. Good(n)
    BY <2>7, <2>8 DEF t
  <2> HIDE DEF Good
  <2> QED BY <2>1, <2>9
<1>12. Good(N)
  <2>1. N \in 0 .. N
    BY <1>1
  <2> HIDE DEF Good
  <2> QED BY <1>11, <2>1
<1> DEFINE kept == Derive(g, arrived)
<1>13. kept \in Seq(R) /\ Covers(kept, N)
  BY <1>2, <1>12
<1> HIDE DEF kept, R
<1>14. Listed(kept) /\ Range(kept) \subseteq R
  BY <1>13, ListedSeqs
<1>15. \A row \in R : row.calls # arrived => \E x \in Range(kept) : x.label = row.label
  <2> TAKE row \in R
  <2>1. PICK i \in 1 .. N : row = rows[i]
    BY <1>1 DEF R, Range
  <2> QED BY <1>13, <2>1
<1> QED BY <1>14, <1>15 DEF kept, R, rows

-----------------------------------------------------------------------------
(* The audit of a report.                                                  *)

\* What the label of a row tells of its calls.
LEMMA LabelsTell ==
  ASSUME NEW row, NEW r, NEW arrived, OfRule(row, r, arrived)
  PROVE  /\ row.label[1] \in {"rename", "corrupt", "reorder", "extra",
                              "inject_tool", "inject_call", "inject_unreadable"}
         /\ row.label[1] = "rename" => r.kind = "tool_calls" /\ Renames(row, r, arrived)
         /\ row.label[1] = "corrupt" => r.kind = "tool_calls" /\ Corrupts(row, r, arrived)
         /\ row.label[1] = "extra" => r.kind = "tool_calls" /\ Extends(row, r, arrived)
         /\ row.label[1] \in {"inject_tool", "inject_call", "inject_unreadable"} => Injects(row, r, arrived)
<1>1. OfBound(row, r, arrived) =>
        /\ row.label[1] \in {"rename", "corrupt", "reorder"}
        /\ row.label[1] = "rename" => Renames(row, r, arrived)
        /\ row.label[1] = "corrupt" => Corrupts(row, r, arrived)
  BY LabelsOfBound DEF OfBound
<1>2. Extends(row, r, arrived) => row.label[1] = "extra"
  BY DEF Extends
<1>3. Injects(row, r, arrived) => row.label[1] \in {"inject_tool", "inject_call", "inject_unreadable"}
  BY DEF Injects
<1> QED BY <1>1, <1>2, <1>3 DEF OfRule

\* A stream is what is left of another one when its last call is.
LEMMA AppendedAlike ==
  ASSUME NEW o, IsStream(o), NEW m, IsStream(m), NEW c, NEW d, Append(o, c) = Append(m, d)
  PROVE  o = m
<1> DEFINE S == Range(o) \cup Range(m) \cup {c, d}
           s == Append(o, c)
           t == Append(m, d)
<1>1. o \in Seq(S) /\ m \in Seq(S) /\ c \in S /\ d \in S
  <2>1. o \in Seq(Range(o)) /\ m \in Seq(Range(m))
    BY DEF IsStream
  <2> QED BY <2>1
<1> HIDE DEF S
<1>2. /\ Len(s) = Len(o) + 1 /\ Len(t) = Len(m) + 1
      /\ \A i \in 1 .. Len(o) : s[i] = o[i]
      /\ \A i \in 1 .. Len(m) : t[i] = m[i]
  BY <1>1, AppendProperties
<1>3. s = t
  OBVIOUS
<1> HIDE DEF s, t
<1>4. Len(o) = Len(m) /\ \A i \in 1 .. Len(o) : o[i] = m[i]
  BY <1>1, <1>2, <1>3
<1> QED BY <1>1, <1>4

\* A call of no known name tells where a call was, and its label which one.
LEMMA RenamedAlike ==
  ASSUME NEW o \in Seq(Calls), NEW m \in Seq(Calls), NEW j \in DOMAIN o, NEW k \in DOMAIN m,
         NEW s, s = [o EXCEPT ![j].tool = Renamed], s = [m EXCEPT ![k].tool = Renamed],
         o[j].tool = m[k].tool
  PROVE  o = m
<1> DEFINE A == Readables \cup {None, Unreadable}
           t == s
<1>1. /\ \A i \in DOMAIN o : o[i] \in [tool : Tools, args : A]
      /\ \A i \in DOMAIN m : m[i] \in [tool : Tools, args : A]
  BY TrajectoryAssumption
<1>2. Renamed \notin Tools
  BY RenamedAssumption
<1> HIDE DEF A
<1>3. /\ DOMAIN s = DOMAIN o /\ s[j] = [o[j] EXCEPT !.tool = Renamed]
      /\ \A i \in DOMAIN o : i # j => s[i] = o[i]
  OBVIOUS
<1>4. /\ DOMAIN t = DOMAIN m /\ t[k] = [m[k] EXCEPT !.tool = Renamed]
      /\ \A i \in DOMAIN m : i # k => t[i] = m[i]
  OBVIOUS
<1>5. s = t
  OBVIOUS
<1> HIDE DEF t
<1>6. DOMAIN o = DOMAIN m
  BY <1>3, <1>4, <1>5
<1>7. j = k
  <2> SUFFICES ASSUME j # k PROVE FALSE
    OBVIOUS
  <2>1. t[j] = m[j] /\ m[j].tool \in Tools
    BY <1>1, <1>4, <1>6
  <2>2. s[j].tool = Renamed
    BY <1>1, <1>3
  <2> QED BY <1>2, <1>5, <2>1, <2>2
<1>8. o[j] = m[j]
  <2>1. s[j] = t[j] /\ s[j] = [o[j] EXCEPT !.tool = Renamed] /\ t[j] = [m[j] EXCEPT !.tool = Renamed]
    BY <1>3, <1>4, <1>5, <1>7
  <2>2. o[j] \in [tool : Tools, args : A] /\ m[j] \in [tool : Tools, args : A] /\ o[j].tool = m[j].tool
    BY <1>1, <1>6, <1>7
  <2>3. s[j].args = o[j].args /\ t[j].args = m[j].args
    BY <2>1, <2>2
  <2>4. o[j].args = m[j].args
    BY <2>1, <2>3
  <2>5. o[j] = [tool |-> o[j].tool, args |-> o[j].args] /\ m[j] = [tool |-> m[j].tool, args |-> m[j].args]
    BY <2>2
  <2> QED BY <2>2, <2>4, <2>5
<1>9. \A i \in DOMAIN o : o[i] = m[i]
  BY <1>3, <1>4, <1>5, <1>6, <1>7, <1>8
<1>10. Len(o) = Len(m) /\ \A i \in 1 .. Len(o) : o[i] = m[i]
  BY <1>6, <1>9
<1> QED BY <1>10

\* Two rows alike, unless they were corrupted or reordered, are of one stream.
LEMMA RowsAlike ==
  ASSUME NEW o \in Seq(Calls), NEW m \in Seq(Calls), NEW x, NEW y, NEW q, NEW r,
         OfRule(x, q, o), OfRule(y, r, m),
         x.label = y.label, x.calls = y.calls, x.label[1] \notin {"corrupt", "reorder"}
  PROVE  o = m
<1>1. IsStream(o) /\ IsStream(m)
  BY StreamOfCalls
<1>2. CASE x.label[1] = "rename"
  <2>1. Renames(x, q, o) /\ Renames(y, r, m)
    BY <1>2, LabelsTell
  <2>2. PICK n \in DOMAIN q.expected, j \in DOMAIN o :
          /\ x.label = <<"rename", n, q.expected[n].tool>>
          /\ o[j].tool = q.expected[n].tool
          /\ x.calls = [o EXCEPT ![j].tool = Renamed]
    BY <2>1 DEF Renames
  <2>3. PICK l \in DOMAIN r.expected, k \in DOMAIN m :
          /\ y.label = <<"rename", l, r.expected[l].tool>>
          /\ m[k].tool = r.expected[l].tool
          /\ y.calls = [m EXCEPT ![k].tool = Renamed]
    BY <2>1 DEF Renames
  <2>4. o[j].tool = m[k].tool
    <3>1. x.label[3] = o[j].tool
      BY <2>2
    <3>2. y.label[3] = m[k].tool
      BY <2>3
    <3> QED BY <3>1, <3>2
  <2>5. x.calls = [o EXCEPT ![j].tool = Renamed]
    BY <2>2
  <2>6. x.calls = [m EXCEPT ![k].tool = Renamed]
    BY <2>3
  <2> QED BY <2>4, <2>5, <2>6, RenamedAlike
<1>3. CASE x.label[1] # "rename"
  <2>1. \E c : x.calls = Append(o, c)
    BY <1>3, LabelsTell DEF Extends, Injects
  <2>2. \E d : y.calls = Append(m, d)
    BY <1>3, LabelsTell DEF Extends, Injects
  <2>3. PICK c, d : Append(o, c) = Append(m, d)
    BY <2>1, <2>2
  <2> QED BY <1>1, <2>3, AppendedAlike
<1> QED BY <1>2, <1>3

\* The mutants of a stream of calls.
LEMMA DerivedRows ==
  ASSUME NEW g \in ToolGates, NEW arrived \in Seq(Calls)
  PROVE  LET kept == Derive(g, arrived) IN
         /\ Listed(kept)
         /\ \A row \in Range(kept) : OfGate(row, g, arrived)
         /\ kept # <<>> => \E row \in Range(kept) : row.label[1] \notin {"corrupt", "reorder"}
<1> DEFINE rows == RowsOf(g, arrived)
           kept == Derive(g, arrived)
<1>1. IsStream(arrived) /\ \A j \in DOMAIN arrived : arrived[j].tool \in Tools
  BY StreamOfCalls
<1>2. /\ Listed(rows) /\ \A row \in Range(rows) : OfGate(row, g, arrived)
      /\ \A row \in Range(rows) :
           row.label[1] \in {"rename", "corrupt", "reorder"} => HasRename(rows, arrived)
  BY <1>1, RowsOfGate
<1>3. /\ Listed(kept) /\ Range(kept) \subseteq Range(rows)
      /\ \A row \in Range(rows) : row.calls # arrived => \E x \in Range(kept) : x.label = row.label
  BY <1>2, KeptRows
<1> HIDE DEF rows, kept
<1>4. ASSUME kept # <<>> PROVE \E row \in Range(kept) : row.label[1] \notin {"corrupt", "reorder"}
  <2>1. PICK row \in Range(kept) : TRUE
    BY <1>3, <1>4 DEF Listed, Range
  <2>2. CASE row.label[1] \in {"corrupt", "reorder"}
    <3>1. PICK x \in Range(rows) : Renames(x, x.rule, arrived)
      BY <1>2, <1>3, <2>2 DEF HasRename
    <3>2. PICK n \in DOMAIN x.rule.expected, j \in DOMAIN arrived :
            x.calls = [arrived EXCEPT ![j].tool = Renamed]
      BY <3>1 DEF Renames
    <3>3. x.calls # arrived
      <4>1. x.calls[j] = [arrived[j] EXCEPT !.tool = Renamed]
        BY <3>2
      <4>2. arrived[j] \in [tool : Tools, args : Readables \cup {None, Unreadable}]
        BY TrajectoryAssumption
      <4>3. x.calls[j].tool = Renamed /\ arrived[j].tool \in Tools
        BY <4>1, <4>2
      <4> QED BY <4>3, RenamedAssumption
    <3>4. x.label[1] = "rename"
      BY <3>1, LabelsOfBound
    <3>5. PICK y \in Range(kept) : y.label = x.label
      BY <1>3, <3>3
    <3> QED BY <3>4, <3>5
  <2> QED BY <2>1, <2>2
<1> QED BY <1>2, <1>3, <1>4 DEF kept

\* A report that passes the audit is one of the calls it is audited against.
LEMMA AcceptedIsOfIts ==
  ASSUME calls \in Seq(Calls), ReportTaken
  PROVE  AcceptedIsOfThisStream
<1> SUFFICES ASSUME report # None, Authentic(report, calls)
             PROVE  report.origin = calls
  BY DEF AcceptedIsOfThisStream, VerifyAuditRanking
<1> DEFINE g == report.gate
           o == report.origin
           d == Derive(g, o)
           e == Derive(g, calls)
<1>1. g \in ToolGates /\ o \in Seq(Calls) /\ report.rows = AnalyzeGate(g, d, o)
  BY DEF ReportTaken
<1>2. /\ report.rows # <<>> /\ Len(report.rows) = Len(e)
      /\ \A n \in DOMAIN e : report.rows[n].id = MutationId(e[n])
  BY DEF Authentic, SameMutants
<1>3. /\ Listed(d) /\ \A row \in Range(d) : OfGate(row, g, o)
      /\ d # <<>> => \E row \in Range(d) : row.label[1] \notin {"corrupt", "reorder"}
  BY <1>1, DerivedRows
<1>4. Listed(e) /\ \A row \in Range(e) : OfGate(row, g, calls)
  BY <1>1, DerivedRows
<1> HIDE DEF d, e, g, o
<1>5. DOMAIN report.rows = DOMAIN d /\ \A n \in DOMAIN d : report.rows[n].id = MutationId(d[n])
  BY <1>1 DEF AnalyzeGate
<1>6. Len(d) \in Nat /\ DOMAIN d = 1 .. Len(d) /\ Len(e) \in Nat /\ DOMAIN e = 1 .. Len(e)
  BY <1>3, <1>4 DEF Listed
<1>7. Len(report.rows) = Len(d)
  <2> DEFINE s == report.rows
  <2>1. s = [n \in 1 .. Len(d) |-> s[n]]
    <3>1. s = [n \in DOMAIN d |-> [id |-> MutationId(d[n]), caught |-> Caught(g, d[n], o)]]
      BY <1>1 DEF AnalyzeGate
    <3> QED BY <1>6, <3>1
  <2>2. DOMAIN s = 1 .. Len(d)
    BY <1>5, <1>6
  <2> HIDE DEF s
  <2>3. Len(s) = Len(d)
    BY <1>6, <2>1, <2>2, ListedFunctions
  <2> QED BY <2>3 DEF s
<1>8. d # <<>>
  BY <1>1, <1>2 DEF AnalyzeGate
<1>9. PICK n \in DOMAIN d : d[n].label[1] \notin {"corrupt", "reorder"}
  BY <1>3, <1>8 DEF Range
<1>10. n \in DOMAIN e
  BY <1>2, <1>6, <1>7
<1>11. d[n].label = e[n].label /\ d[n].calls = e[n].calls
  BY <1>2, <1>5, <1>10 DEF MutationId
<1>12. PICK q : OfRule(d[n], q, o)
  BY <1>3 DEF OfGate, Range
<1>13. PICK r : OfRule(e[n], r, calls)
  BY <1>4, <1>10 DEF OfGate, Range
<1> DEFINE x == d[n]
           y == e[n]
<1>14. /\ OfRule(x, q, o) /\ OfRule(y, r, calls)
       /\ x.label = y.label /\ x.calls = y.calls /\ x.label[1] \notin {"corrupt", "reorder"}
  BY <1>9, <1>11, <1>12, <1>13
<1> HIDE DEF x, y
<1>15. o = calls
  BY <1>1, <1>14, RowsAlike
<1> QED BY <1>15 DEF o

-----------------------------------------------------------------------------
(* Mutants that are caught, and those that survive.                        *)

\* A full match of an exact rule: as many calls, each in its place.
ExactlyMet(r, arrived) ==
  /\ Len(r.expected) = Len(arrived)
  /\ \A n \in DOMAIN r.expected : PairScore(r.expected[n], arrived[n], r.withArgs, TRUE) = Unit

\* A full exact rule passes nothing but a full match.
LEMMA FullExactRules ==
  ASSUME NEW r, IsRule(r), InFull(r), r.match = "exact", NEW arrived, RulePassed(r, arrived)
  PROVE  ExactlyMet(r, arrived)
<1> DEFINE s == ScoreExact(r.expected, arrived, r.withArgs)
           m == Unit * Len(r.expected)
<1>1. r.kind = "tool_calls" /\ r.op = ">=" /\ r.target = Unit
  BY DEF InFull
<1>2. IsExpected(r.expected)
  BY <1>1 DEF IsRule, IsExpected, IsList
<1>3. Score(r.match, r.expected, arrived, r.withArgs) = s
  BY DEF Score
<1>4. Holds(">=", s, m)
  <2>1. CheckToolCalls(r, arrived)
    BY <1>1 DEF RulePassed
  <2> HIDE DEF s
  <2> QED BY <1>1, <1>3, <2>1 DEF CheckToolCalls
<1>5. m \in Nat /\ m # 0
  <2>1. Unit \in Nat \ {0} /\ Len(r.expected) \in Nat \ {0}
    BY <1>2, ExpectedTyped, TrajectoryAssumption
  <2> DEFINE l == Len(r.expected)
  <2> HIDE DEF l
  <2>2. Unit * l \in Nat /\ Unit * l # 0
    BY <2>1 DEF l
  <2> QED BY <2>2 DEF l
<1>6. ~ ExactlyMet(r, arrived) => s = 0
  BY DEF ExactlyMet, ScoreExact
<1> HIDE DEF s, m
<1>7. s # 0
  BY <1>4, <1>5 DEF Holds
<1> QED BY <1>6, <1>7

\* Arguments that are rejected for one that is asked for do not match in full.
LEMMA RejectedIsNoMatch ==
  ASSUME NEW e, e.args # None, NEW c, NEW k \in DOMAIN e.args,
         ~ MatcherArgsPass([y \in {k} |-> e.args[k]], c.args), NEW w, w
  PROVE  PairScore(e, c, w, TRUE) # Unit
<1> DEFINE x == c.args
           m == [y \in {k} |-> e.args[k]]
           carried == IF x = None THEN <<>> ELSE x
<1>1. Unit # 0
  BY TrajectoryAssumption
<1>2. x = Unreadable \/ ~ Meets(e.args[k], carried, k)
  <2>1. DOMAIN m = {k} /\ m[k] = e.args[k]
    OBVIOUS
  <2> HIDE DEF m
  <2>2. ~ (x # Unreadable /\ \A y \in DOMAIN m : Meets(m[y], carried, y))
    BY DEF MatcherArgsPass, m
  <2> HIDE DEF carried
  <2> QED BY <2>1, <2>2
<1>3. ~ MatcherArgsPass(e.args, x)
  BY <1>2 DEF MatcherArgsPass
<1>4. CASE \E y \in DOMAIN e.args : IsMatcher(e.args[y])
  BY <1>1, <1>3, <1>4 DEF PairScore
<1>5. CASE ~ \E y \in DOMAIN e.args : IsMatcher(e.args[y])
  <2> DEFINE score == ArgCredit(e.args, x, TRUE)
  <2>1. CASE x \in {None, Unreadable}
    <3>1. score = 0
      BY <2>1 DEF ArgCredit
    <3> HIDE DEF score
    <3> QED BY <1>1, <1>5, <3>1 DEF PairScore, score
  <2>2. CASE x \notin {None, Unreadable}
    <3>1. e.args # x
      <4>1. ~ Meets(e.args[k], x, k) /\ ~ IsMatcher(e.args[k])
        BY <1>2, <1>5, <2>2
      <4> QED BY <4>1 DEF Meets
    <3>2. score = 0
      BY <2>2, <3>1 DEF ArgCredit
    <3> HIDE DEF score
    <3> QED BY <1>1, <1>5, <3>2 DEF PairScore, score
  <2> QED BY <2>1, <2>2
<1> QED BY <1>4, <1>5

\* A renamed, corrupted or additional call is no full exact match.
LEMMA ExactRowsFail ==
  ASSUME NEW r, IsRule(r), InFull(r), r.match = "exact", NEW arrived \in Seq(Calls),
         RulePassed(r, arrived), NEW row, OfRule(row, r, arrived),
         row.label[1] \in {"rename", "corrupt", "extra"}
  PROVE  ~ RulePassed(r, row.calls)
<1> DEFINE M == row.calls
<1>1. /\ ExactlyMet(r, arrived) /\ IsStream(arrived)
      /\ \A j \in DOMAIN arrived : arrived[j] \in [tool : Tools, args : Readables \cup {None, Unreadable}]
  BY FullExactRules, StreamOfCalls, TrajectoryAssumption
<1>2. /\ r.kind = "tool_calls" /\ r.withArgs \in BOOLEAN /\ IsExpected(r.expected)
  BY DEF InFull, IsRule, IsExpected, IsList
<1>3. /\ DOMAIN r.expected = 1 .. Len(r.expected) /\ DOMAIN arrived = 1 .. Len(arrived)
      /\ Len(arrived) \in Nat /\ Len(r.expected) = Len(arrived)
  BY <1>1, <1>2, ExpectedTyped, StreamsTyped DEF ExactlyMet
<1> SUFFICES ASSUME ExactlyMet(r, M) PROVE FALSE
  BY FullExactRules
<1> HIDE DEF M
<1>4. CASE row.label[1] = "rename"
  <2>1. PICK j \in DOMAIN arrived : M = [arrived EXCEPT ![j].tool = Renamed]
    <3>1. Renames(row, r, arrived)
      BY <1>4, LabelsTell
    <3> QED BY <3>1 DEF Renames, M
  <2>2. M[j] = [arrived[j] EXCEPT !.tool = Renamed]
    BY <2>1
  <2>3. j \in DOMAIN r.expected
    BY <1>3
  <2>4. r.expected[j].tool \in Tools
    BY <1>2, <2>3 DEF IsExpected, IsExpectation
  <2> DEFINE e == r.expected[j]
             c == M[j]
  <2>5. c.tool # e.tool
    <3>1. c.tool = Renamed
      BY <1>1, <2>2
    <3> QED BY <2>4, <3>1, RenamedAssumption
  <2>6. PairScore(e, c, r.withArgs, TRUE) = Unit
    BY <2>3 DEF ExactlyMet
  <2> HIDE DEF e, c
  <2>7. PairScore(e, c, r.withArgs, TRUE) = 0
    BY <2>5 DEF PairScore
  <2> QED BY <2>6, <2>7, TrajectoryAssumption
<1>5. CASE row.label[1] = "corrupt"
  <2>1. Corrupts(row, r, arrived)
    BY <1>5, LabelsTell
  <2>2. PICK n \in DOMAIN r.expected, j \in DOMAIN arrived : \E x :
          /\ j = n
          /\ r.withArgs /\ r.expected[n].args # None
          /\ \E k \in DOMAIN r.expected[n].args : ~ MatcherArgsPass([y \in {k} |-> r.expected[n].args[k]], x)
          /\ M = [arrived EXCEPT ![j].args = x]
    BY <1>3, <2>1 DEF Corrupts, M
  <2>3. PICK x :
          /\ r.withArgs /\ r.expected[n].args # None
          /\ \E k \in DOMAIN r.expected[n].args : ~ MatcherArgsPass([y \in {k} |-> r.expected[n].args[k]], x)
          /\ M = [arrived EXCEPT ![n].args = x]
    BY <2>2
  <2> DEFINE e == r.expected[n]
             c == M[n]
  <2>4. PICK k \in DOMAIN e.args : ~ MatcherArgsPass([y \in {k} |-> e.args[k]], x)
    BY <2>3
  <2>5. r.withArgs /\ e.args # None /\ PairScore(e, c, r.withArgs, TRUE) = Unit
    BY <2>3 DEF ExactlyMet
  <2>6. c.args = x
    BY <1>1, <2>2, <2>3
  <2> QED BY <2>4, <2>5, <2>6, RejectedIsNoMatch
<1>6. CASE row.label[1] = "extra"
  <2>1. PICK c : M = Append(arrived, c)
    BY <1>6, LabelsTell DEF Extends, M
  <2>2. Len(M) = Len(arrived) + 1
    BY <2>1, LastOfAppended
  <2>3. Len(r.expected) = Len(M)
    BY DEF ExactlyMet
  <2> QED BY <1>3, <2>2, <2>3
<1> QED BY <1>4, <1>5, <1>6

\* In any mode a full match gives each expected call one of its own tool, no two the same.
LEMMA FullMatches ==
  ASSUME NEW r, IsRule(r), InFull(r), NEW arrived, IsStream(arrived), RulePassed(r, arrived)
  PROVE  \E c \in Assignments(r.expected, arrived) :
           \A n \in DOMAIN r.expected :
             c[n] # None /\ arrived[c[n]].tool = r.expected[n].tool
<1> DEFINE expected == r.expected
           withArgs == r.withArgs
           s == Score(r.match, expected, arrived, withArgs)
           N == Len(expected)
           c == Claims(expected, arrived, withArgs)
<1>1. /\ r.kind = "tool_calls" /\ r.op = ">=" /\ r.target = Unit
      /\ withArgs \in BOOLEAN /\ IsExpected(expected) /\ r.match \in Match
  BY DEF InFull, IsRule, IsExpected, IsList
<1>2. N \in Nat \ {0} /\ Unit \in Nat \ {0} /\ DOMAIN expected = 1 .. N
  BY <1>1, ExpectedTyped, TrajectoryAssumption
<1>3. Holds(">=", s, Unit * N)
  <2>1. CheckToolCalls(r, arrived)
    BY <1>1 DEF RulePassed
  <2> HIDE DEF s
  <2> QED BY <1>1, <2>1 DEF CheckToolCalls, s
<1>4. s \in 0 .. Unit * N
  BY <1>1, ScoreTyped
<1> HIDE DEF N
<1>5. s = Unit * N
  <2> DEFINE m == Unit * N
  <2>1. m \in Nat
    BY <1>2
  <2> HIDE DEF m, s
  <2>2. s >= m
    BY <1>3 DEF Holds, m
  <2> QED BY <1>4, <2>1, <2>2 DEF m
<1> HIDE DEF expected, withArgs
<1>6. ScoreSubset(expected, arrived, withArgs) = Unit * N
  <2>1. CASE r.match = "exact"
    <3>1. ScoreExact(expected, arrived, withArgs) = Unit * N
      BY <1>5, <2>1 DEF Score
    <3>2. ScoreOrdered(expected, arrived, withArgs) = Unit * N
      BY <1>1, <3>1, FullExactIsFullOrdered DEF N
    <3> QED BY <1>1, <3>2, FullOrderedIsFullSubset DEF N
  <2>2. CASE r.match = "ordered"
    <3>1. ScoreOrdered(expected, arrived, withArgs) = Unit * N
      BY <1>5, <2>2 DEF Score
    <3> QED BY <1>1, <3>1, FullOrderedIsFullSubset DEF N
  <2>3. CASE r.match = "subset"
    BY <1>5, <2>3 DEF Score
  <2> QED BY <1>1, <2>1, <2>2, <2>3 DEF Match
<1>7. Greedy(expected, arrived, withArgs, c)
  BY <1>1, ClaimsAreGreedy
<1>8. Sum(expected, arrived, withArgs, c) = Unit * N
  BY <1>6 DEF ScoreSubset
<1> HIDE DEF c
<1>9. c \in Assignments(expected, arrived)
  BY <1>1, <1>7, GreedyAssigns
<1>10. \A n \in DOMAIN expected : c[n] \in DOMAIN arrived \cup {None}
  BY <1>9 DEF Assignments
<1> DEFINE w == Shares(expected, arrived, withArgs, c)
<1>11. \A n \in DOMAIN expected : w[n] = Unit
  <2> HIDE DEF w
  <2>1. Sum(expected, arrived, withArgs, c) = Unit * Len(expected)
          <=> \A n \in DOMAIN expected : w[n] = Unit
    BY <1>1, <1>10, SharesTyped DEF w
  <2> QED BY <1>8, <2>1 DEF N
<1>12. ASSUME NEW n \in DOMAIN expected
       PROVE  c[n] # None /\ arrived[c[n]].tool = expected[n].tool
  <2>1. w[n] = Unit
    BY <1>11
  <2> DEFINE p == PairScore(expected[n], arrived[c[n]], withArgs, FALSE)
  <2>2. w[n] = IF c[n] = None THEN 0 ELSE p
    BY DEF Shares
  <2> HIDE DEF w
  <2>3. expected[n].tool # arrived[c[n]].tool => p = 0
    BY DEF PairScore
  <2> HIDE DEF p
  <2> QED BY <1>2, <2>1, <2>2, <2>3
<1> QED BY <1>9, <1>12 DEF expected

\* A rename that survives has left another call of the tool for every expected one.
LEMMA SurvivorHasADouble ==
  ASSUME NEW r, IsRule(r), InFull(r), NEW arrived \in Seq(Calls), NEW row, Renames(row, r, arrived),
         RulePassed(r, row.calls), NEW tool, tool = r.expected[row.label[2]].tool
  PROVE  Cardinality({j \in DOMAIN arrived : arrived[j].tool = tool})
           > Cardinality({n \in DOMAIN r.expected : r.expected[n].tool = tool})
<1> DEFINE M == row.calls
           X == {n \in DOMAIN r.expected : r.expected[n].tool = tool}
           Z == {j \in DOMAIN arrived : arrived[j].tool = tool}
<1>1. PICK n \in DOMAIN r.expected, j \in DOMAIN arrived :
        /\ row.label = <<"rename", n, r.expected[n].tool>>
        /\ arrived[j].tool = r.expected[n].tool
        /\ M = [arrived EXCEPT ![j].tool = Renamed]
  BY DEF Renames
<1>2. tool = r.expected[n].tool
  BY <1>1
<1>3. /\ IsExpected(r.expected)
      /\ \A i \in DOMAIN arrived : arrived[i] \in [tool : Tools, args : Readables \cup {None, Unreadable}]
  BY TrajectoryAssumption DEF InFull, IsRule, IsExpected, IsList
<1>4. tool \in Tools /\ tool # Renamed
  <2>1. IsExpectation(r.expected[n])
    BY <1>3 DEF IsExpected
  <2>2. r.expected[n].tool \in Tools
    BY <2>1 DEF IsExpectation
  <2> QED BY <1>2, <2>2, RenamedAssumption
<1>5. /\ DOMAIN M = DOMAIN arrived /\ M \in Seq(Range(M)) /\ M[j].tool = Renamed
      /\ \A i \in DOMAIN arrived : i # j => M[i] = arrived[i]
      /\ \A i \in DOMAIN arrived : M[i].args = arrived[i].args
  <2>1. DOMAIN M = DOMAIN arrived /\ M[j] = [arrived[j] EXCEPT !.tool = Renamed]
    BY <1>1
  <2>2. \A i \in DOMAIN arrived : i # j => M[i] = arrived[i]
    BY <1>1
  <2>3. M[j].tool = Renamed /\ M[j].args = arrived[j].args
    BY <1>3, <2>1
  <2>4. M = [i \in 1 .. Len(arrived) |-> M[i]] /\ Len(arrived) \in Nat
    BY <1>1
  <2> HIDE DEF M
  <2>5. M \in Seq(Range(M))
    BY <2>1, <2>4, ListedFunctions DEF Listed
  <2> QED BY <2>1, <2>2, <2>3, <2>5
<1> HIDE DEF M
<1>6. IsStream(M)
  BY <1>3, <1>5 DEF IsStream, IsCall
<1>7. PICK c \in Assignments(r.expected, M) :
        \A i \in DOMAIN r.expected : c[i] # None /\ M[c[i]].tool = r.expected[i].tool
  BY <1>6, FullMatches DEF M
<1> DEFINE f == [i \in X |-> c[i]]
<1>8. ASSUME NEW i \in X PROVE f[i] \in Z \ {j}
  <2>1. i \in DOMAIN r.expected /\ r.expected[i].tool = tool /\ f[i] = c[i]
    OBVIOUS
  <2>2. c[i] \in DOMAIN M /\ M[c[i]].tool = tool
    BY <1>7, <2>1 DEF Assignments
  <2>3. c[i] # j /\ M[c[i]] = arrived[c[i]]
    BY <1>4, <1>5, <2>2
  <2> QED BY <1>5, <2>1, <2>2, <2>3
<1>9. \A i, k \in X : f[i] = f[k] => i = k
  BY <1>7 DEF Assignments
<1>10. IsFiniteSet(Z) /\ j \in Z
  <2>1. IsFiniteSet(DOMAIN arrived)
    <3>1. Len(arrived) \in Int /\ DOMAIN arrived = 1 .. Len(arrived) /\ 1 \in Int
      OBVIOUS
    <3> QED BY <3>1, FS_Interval
  <2>2. Z \in SUBSET (DOMAIN arrived)
    OBVIOUS
  <2>3. j \in Z
    BY <1>1, <1>2
  <2> HIDE DEF Z
  <2> QED BY <2>1, <2>2, <2>3, FS_Subset
<1>11. f = [i \in X |-> f[i]]
  OBVIOUS
<1> HIDE DEF X, Z, f
<1>12. f \in Injection(X, Z \ {j})
  BY <1>8, <1>9, <1>11 DEF Injection, IsInjective
<1>13. IsFiniteSet(Z \ {j}) /\ Cardinality(Z \ {j}) = Cardinality(Z) - 1 /\ Cardinality(Z) \in Nat
  BY <1>10, FS_RemoveElement, FS_CardinalityType
<1>14. Cardinality(X) <= Cardinality(Z \ {j}) /\ Cardinality(X) \in Nat
  BY <1>12, <1>13, FS_Injection, FS_CardinalityType
<1>15. Cardinality(Z) > Cardinality(X)
  BY <1>13, <1>14
<1> QED BY <1>15 DEF X, Z

\* Where a mutant is from, and what has become of it.
LEMMA TrialsAre ==
  ASSUME calls \in Seq(Calls), NEW t \in Trials
  PROVE  /\ IsRule(t.row.rule) /\ OfRule(t.row, t.row.rule, calls)
         /\ t.green => RulePassed(t.row.rule, calls)
         /\ ~ t.caught /\ t.row.label[1] # "reorder" => RulePassed(t.row.rule, t.row.calls)
<1>1. PICK g \in ToolGates : t \in TrialsOf(g, Green(g, calls), Derive(g, calls))
  BY DEF Trials
<1>2. PICK row \in Range(Derive(g, calls)) :
        t = [row |-> row, green |-> Green(g, calls), caught |-> Caught(g, row, calls)]
  BY <1>1 DEF TrialsOf
<1>3. t.row = row /\ t.green = Green(g, calls) /\ t.caught = Caught(g, row, calls)
  BY <1>2
<1>4. OfGate(row, g, calls)
  BY DerivedRows
<1>5. PICK n \in GatingRules(g) : row.rule = g[n] /\ OfRule(row, g[n], calls)
  BY <1>4 DEF OfGate
<1>6. IsRule(g[n])
  BY ToolRules DEF GatingRules
<1>7. t.green => RulePassed(g[n], calls)
  BY <1>3 DEF Green
<1>8. ~ t.caught /\ row.label[1] # "reorder" => RulePassed(g[n], row.calls)
  BY <1>3 DEF Caught, Judged, SwappedStamps, Green
<1> QED BY <1>3, <1>5, <1>6, <1>7, <1>8

\* What is forbidden is caught, whatever else arrived; a rename that survives is that of a
\* duplicate; and exact has no blind spot.
LEMMA ToolMutantsAreCaught ==
  ASSUME calls \in Seq(Calls)
  PROVE  ToolMutantsDie(Trials)
<1>1. ASSUME NEW t \in Trials,
             t.row.label[1] \in {"inject_tool", "inject_call", "inject_unreadable"}
      PROVE  t.caught
  <2> DEFINE r == t.row.rule
             row == t.row
  <2>1. OfRule(row, r, calls) /\ (~ t.caught => RulePassed(r, row.calls))
    BY <1>1, TrialsAre
  <2>2. row.label[1] \in {"inject_tool", "inject_call", "inject_unreadable"}
    BY <1>1
  <2> HIDE DEF r, row
  <2>3. Injects(row, r, calls)
    BY <2>1, <2>2, LabelsTell
  <2> QED BY <2>1, <2>3 DEF Injects
<1>2. ASSUME NEW t \in Trials, t.green, InFull(t.row.rule), t.row.rule.match = "exact",
             t.row.label[1] \in {"rename", "corrupt", "extra"}
      PROVE  t.caught
  <2>1. /\ IsRule(t.row.rule) /\ OfRule(t.row, t.row.rule, calls)
        /\ t.green => RulePassed(t.row.rule, calls)
        /\ ~ t.caught => RulePassed(t.row.rule, t.row.calls)
    BY <1>2, TrialsAre
  <2> DEFINE r == t.row.rule
             row == t.row
  <2>2. /\ IsRule(r) /\ InFull(r) /\ r.match = "exact" /\ RulePassed(r, calls)
        /\ OfRule(row, r, calls) /\ row.label[1] \in {"rename", "corrupt", "extra"}
    BY <1>2, <2>1
  <2> HIDE DEF r, row
  <2>3. ~ RulePassed(r, row.calls)
    BY <2>2, ExactRowsFail
  <2> QED BY <2>1, <2>3 DEF r, row
<1>3. ASSUME NEW t \in Trials, ~ t.caught, t.row.label[1] = "rename", InFull(t.row.rule),
             NEW tool, tool = t.row.rule.expected[t.row.label[2]].tool
      PROVE  Cardinality({j \in DOMAIN calls : calls[j].tool = tool})
               > Cardinality({n \in DOMAIN t.row.rule.expected : t.row.rule.expected[n].tool = tool})
  <2>1. /\ IsRule(t.row.rule) /\ OfRule(t.row, t.row.rule, calls)
        /\ ~ t.caught => RulePassed(t.row.rule, t.row.calls)
    BY <1>3, TrialsAre
  <2> DEFINE r == t.row.rule
             row == t.row
  <2>2. IsRule(r) /\ InFull(r) /\ OfRule(row, r, calls) /\ RulePassed(r, row.calls)
    BY <1>3, <2>1
  <2>3. row.label[1] = "rename" /\ tool = r.expected[row.label[2]].tool
    BY <1>3
  <2> HIDE DEF r, row
  <2>4. Renames(row, r, calls)
    BY <2>2, <2>3, LabelsTell
  <2>5. Cardinality({j \in DOMAIN calls : calls[j].tool = tool})
          > Cardinality({i \in DOMAIN r.expected : r.expected[i].tool = tool})
    BY <2>2, <2>3, <2>4, SurvivorHasADouble
  <2> QED BY <2>5 DEF r
<1>4. InjectionsAreCaught(Trials)
  BY <1>1 DEF InjectionsAreCaught
<1>5. ExactMutantsDie(Trials)
  BY <1>2 DEF ExactMutantsDie
<1>6. SurvivingRenameHasADouble(Trials)
  BY <1>3 DEF SurvivingRenameHasADouble
<1> QED BY <1>4, <1>5, <1>6 DEF ToolMutantsDie

-----------------------------------------------------------------------------
\* verify.py:194-222, for every gate, every store and every order in which events come and
\* are stamped: a settled green is green in every later complete read.
THEOREM SettledGreenIsKept == Spec => SettledGreenStays
<1>1. stream \in Seq(Stored) /\ [Next]_vars =>
        [\A g \in Gates : SettledGreen(g) /\ Readable' => Ok(g)']_vars
  BY GreenAfterStep
<1> QED BY <1>1, StreamTyped, PTL DEF Spec, SettledGreenStays

\* gate.py:1190-1212 and verify.py:207-210, for every gate and store: checks without authority
\* neither pass nor fail a gate nor lend it strength, what it is credited with was seen, and
\* a gate that only wants more settles as soon as it is green.
THEOREM AuthorityIsKept == Spec => []AuthorityDecides
<1>1. stream \in Seq(Stored) => GrowingGreenSettles
  BY GrowingSettles DEF GrowingGreenSettles, SettledGreen
<1>2. stream \in Seq(Stored) => AuthorityDecides
  BY <1>1, TiersHaveWitnesses, ObservationsWeighNothing DEF AuthorityDecides
<1> QED BY <1>2, StreamTyped, PTL

\* gate.py:1045-1108 and 1230-1246, for every set of specs, every rule and weight in them and
\* every store: an edit that turns a red gate green is reported, a clean lint licenses no
\* failing expectation, and a combination of gates needs each of them.
THEOREM EasingIsAlwaysNoticed == Spec => []EasingIsNoticed
<1>1. EasingIsNoticed
  BY WeakeningIsAlwaysFlagged, CleanLintNeverLicenses, CombinationsNeedEach DEF EasingIsNoticed
<1> QED BY <1>1, PTL

\* The gate with its tools is the gate: what its tools do is no step of it.
THEOREM AuditRefinesGate == AuditSpec => Spec
<1>1. AuditInit => Init
  BY DEF AuditInit
<1>2. [AuditNext]_auditVars => [Next]_vars
  BY DEF AuditNext, GateSteps, ToolSteps, auditVars, vars
<1> QED BY <1>1, <1>2, PTL DEF AuditSpec, Spec

\* The scores of the trajectory extension, whatever the rules and the calls: ordered is the best
\* assignment in order, greedy is no better than the best one and by name as good, and the modes are
\* a ladder.  Losing the arguments of a call turns no red gate green, if its rules ask for no less
\* than a score (AsksForMore) and no greedy rule mixes expected calls that name arguments with
\* ones that do not (AsksAlike); where one does, unreadable arguments can help.
THEOREM MatchingIsSound == AuditSpec => []CallsAreMatched
<1>1. calls \in Seq(Calls) /\ ReportTaken => CallsAreMatched
  BY CallsAreAlwaysMatched
<1> QED BY <1>1, ToolsTyped, PTL

\* A report that passes the audit was made of the very calls it is audited against, whatever the
\* gate (analysis.py:786-799).
THEOREM AuditsAreOfTheStream == AuditSpec => []AcceptedIsOfThisStream
<1>1. calls \in Seq(Calls) /\ ReportTaken => AcceptedIsOfThisStream
  BY AcceptedIsOfIts
<1> QED BY <1>1, ToolsTyped, PTL

\* Mutants that must turn a gate red do, whatever the gate, the calls and the events: what is
\* forbidden, what an exact rule expects, what a green gate demands; and a rename survives only
\* where the expected tool was called once more than expected (analysis.py:16-27, 382-389).
THEOREM BlindSpotsAreKnown == AuditSpec => []MutantsDie
<1>1. calls \in Seq(Calls) /\ ReportTaken /\ stream \in Seq(Stored) => MutantsDie
  BY ToolMutantsAreCaught, DroppedIsRed DEF MutantsDie
<1> QED BY <1>1, AuditRefinesGate, StreamTyped, ToolsTyped, PTL
===============================================================================
