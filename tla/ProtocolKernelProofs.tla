------------------------ MODULE ProtocolKernelProofs ------------------------
(***************************************************************************)
(* Theorems about ProtocolKernel, for any number of runners, any set of    *)
(* definitions and events, and every budget: what is stored is a run of    *)
(* its definition, the store moves by one accepted event, and what was     *)
(* answered or receipted stays true.                                       *)
(*                                                                         *)
(* The argument is about what a runner carries from its load to its save.  *)
(* It may be stale by then, but it agrees with the store on the steps it   *)
(* has loaded; so when the revisions match, what it saves is the store and *)
(* one more step.  A finished run is never extended, because the step that *)
(* extends it would start in a terminal state.                             *)
(***************************************************************************)
EXTENDS ProtocolKernel, TLAPS

States == UNION {d.states : d \in Definitions}
Entry  == [event : Events, source : States, target : States]

\* The entry k of a run of d takes a rule which the analysis has no finding about.
TakesReachableRule(d, entry) ==
  \E q \in ReachableRules(d) :
    q.source = entry.source /\ q.target = entry.target /\ q.event = entry.event.kind

\* s is what a run of its own definition leads to.
IsRun(s) ==
  /\ s.state \in ReachableStates(s.policy)
  /\ s.history = << >> => s.state = s.policy.initial
  /\ s.history # << >> => s.history[1].source = s.policy.initial
  /\ \A k \in DOMAIN s.history : TakesReachableRule(s.policy, s.history[k])
  /\ s.state \in s.policy.terminal /\ s.history # << >> =>
       s.policy.required \subseteq s.history[Len(s.history)].event.payload.shows

SnapshotOk(s) == WellFormed(s) /\ IsRun(s)

RunnerState ==
  [pc : {"idle", "stepping", "saving", "answering"}, event : Events \cup {None},
   expected : 0 .. MaxSteps, next : Snapshot \cup {None}]

\* t is s and one more step, for the event e, if s has n steps; and it agrees with s on the
\* first n if s has more.
Extends(t, s, n, e) ==
  /\ t.generation = s.generation /\ t.policy = s.policy
  /\ n <= Len(s.history) /\ Len(t.history) = n + 1
  /\ \A k \in 1 .. n : t.history[k] = s.history[k]
  /\ t.history[n + 1].event = e

InHistory(s, e) == \E k \in DOMAIN s.history : s.history[k].event = e

RunnerOk(r) ==
  LET own == runner[r]
  IN /\ own.pc # "idle" => own.event \in Events
     /\ own.pc # "saving" => own.next = None
     /\ own.pc = "saving" =>
          SnapshotOk(own.next) /\ Extends(own.next, stored, own.expected, own.event)
     /\ own.pc = "answering" => InHistory(stored, own.event)

\* A receipt is of a finished run: the one that is stored, or one of an earlier generation.
ReceiptsOk ==
  \A s \in receipts :
    /\ SnapshotOk(s) /\ s.state \in s.policy.terminal
    /\ s.generation <= stored.generation
    /\ s.generation = stored.generation => s = stored
    /\ \A t \in receipts : t.generation = s.generation => t = s

IInv ==
  /\ SnapshotOk(stored)
  /\ ReceiptsOk
  /\ runner \in [Runner -> RunnerState]
  /\ \A r \in Runner : RunnerOk(r)
  /\ answered \subseteq Events
  /\ AnsweredIsKept

-----------------------------------------------------------------------------
(* The analysis: a rule that can be executed leads from a reachable state  *)
(* to a reachable state.                                                   *)

LEMMA DefinitionFacts ==
  ASSUME NEW d \in Definitions
  PROVE  /\ d.initial \in d.states
         /\ d.transitions \subseteq TransitionRule(d)
         /\ d.states \subseteq States
BY DefinitionAssumption DEF DefinitionOk, States

LEMMA InitialIsReachable ==
  ASSUME NEW d \in Definitions
  PROVE  d.initial \in ReachableStates(d)
BY DefinitionFacts DEF ReachableStates, Closed

LEMMA ReachableIsClosed ==
  ASSUME NEW d \in Definitions, NEW q \in Executable(d), q.source \in ReachableStates(d)
  PROVE  q.target \in ReachableStates(d) /\ q \in ReachableRules(d)
<1>1. q.target \in d.states
  BY DefinitionFacts DEF Executable, TransitionRule
<1>2. ASSUME NEW S \in SUBSET d.states, Closed(d, S)
      PROVE  q.target \in S
  BY <1>2 DEF ReachableStates, Closed
<1> QED
  BY <1>1, <1>2 DEF ReachableStates, ReachableRules

-----------------------------------------------------------------------------
(* The reducer: what an accepted event satisfies, and what it leads to.    *)

LEMMA PolicyAccepts ==
  ASSUME NEW d, NEW s, NEW e, PolicyRejection(d, s, e) = None
  PROVE  /\ ~ Denied(d, s, e)
         /\ RuleOf(d, s, e).target \in d.terminal => CompletionHolds(d, e.payload)
BY NoneAssumption DEF PolicyRejection

LEMMA RuleIsARule ==
  ASSUME NEW d, NEW s, NEW e, Rules(d, s, e) # {}
  PROVE  /\ RuleOf(d, s, e) \in d.transitions
         /\ RuleOf(d, s, e).source = s.state
         /\ RuleOf(d, s, e).event = e.kind
<1>1. RuleOf(d, s, e) \in Rules(d, s, e)
  BY DEF RuleOf
<1> QED
  BY <1>1 DEF Rules

LEMMA PolicyRejectionRange ==
  ASSUME NEW d, NEW s, NEW e
  PROVE  PolicyRejection(d, s, e) \in
           {None, "evaluator_failure", "invalid_payload", "recovery_policy_denied",
            "completion_policy_failed"}
BY DEF PolicyRejection

LEMMA AcceptedMeans ==
  ASSUME NEW d, NEW drifted, NEW s, NEW e, Reply(d, drifted, s, e) = "accepted"
  PROVE  /\ s.policy = d /\ e.policy = d
         /\ Prior(s, e) = {}
         /\ ~ OutOfSteps(s)
         /\ s.state \notin d.terminal
         /\ Rules(d, s, e) # {}
         /\ PolicyRejection(d, s, e) = None
BY PolicyRejectionRange DEF Reply, Bound

LEMMA SnapshotFacts ==
  ASSUME NEW s, WellFormed(s)
  PROVE  /\ s.policy \in Definitions /\ s.state \in States
         /\ s.generation \in 0 .. MaxGenerations - 1
         /\ s.history \in Seq(Entry)
         /\ Len(s.history) \in Nat /\ Len(s.history) <= MaxSteps
         /\ DOMAIN s.history = 1 .. Len(s.history)
         /\ s = [generation |-> s.generation, state |-> s.state, policy |-> s.policy,
                 history |-> s.history]
<1>1. s \in [generation : 0 .. MaxGenerations - 1, state : States, policy : Definitions,
             history : Seq(Entry)]
  BY DEF WellFormed, Snapshot, Entry, States
<1>2. s.history \in Seq(Entry)
  BY <1>1
<1>3. Len(s.history) \in Nat /\ DOMAIN s.history = 1 .. Len(s.history)
  BY <1>2
<1> QED
  BY <1>1, <1>2, <1>3 DEF WellFormed, Revision

LEMMA AdvanceShape ==
  ASSUME NEW d, NEW s, NEW e \in Events, NEW drifted,
         WellFormed(s), Reply(d, drifted, s, e) = "accepted"
  PROVE  LET n == Len(s.history)
             t == Advance(d, s, e)
         IN /\ t \in Snapshot
            /\ t.generation = s.generation /\ t.policy = s.policy
            /\ t.state = RuleOf(d, s, e).target
            /\ t.history = Append(s.history, Record(d, s, e))
            /\ Len(t.history) = n + 1 /\ n + 1 <= MaxSteps
            /\ DOMAIN t.history = 1 .. n + 1
            /\ \A k \in 1 .. n : t.history[k] = s.history[k]
            /\ t.history[n + 1] = Record(d, s, e)
<1> DEFINE n == Len(s.history)
           t == Advance(d, s, e)
<1>1. s.policy = d /\ d \in Definitions /\ Rules(d, s, e) # {} /\ ~ OutOfSteps(s)
  BY AcceptedMeans, SnapshotFacts
<1>2. RuleOf(d, s, e).target \in States
  BY <1>1, RuleIsARule, DefinitionFacts DEF TransitionRule
<1>3. Record(d, s, e) \in Entry
  BY <1>2, SnapshotFacts DEF Record, Entry
<1>4. /\ t \in Snapshot
      /\ t.generation = s.generation /\ t.policy = s.policy
      /\ t.state = RuleOf(d, s, e).target
      /\ t.history = Append(s.history, Record(d, s, e))
  <2> DEFINE q == RuleOf(d, s, e).target
             h == Append(s.history, Record(d, s, e))
  <2>1. h \in Seq(Entry)
    BY <1>3, SnapshotFacts
  <2>2. s \in Snapshot
    BY DEF WellFormed
  <2>3. t = [s EXCEPT !.state = q, !.history = h]
    BY DEF Advance
  <2>4. q \in States
    BY <1>2
  <2> HIDE DEF q, h, t
  <2> DEFINE Shape == [generation : 0 .. MaxGenerations - 1, state : States,
                       policy : Definitions, history : Seq(Entry)]
  <2>5. Shape = Snapshot
    BY DEF Snapshot, States, Entry
  <2>6. /\ t \in Shape /\ t.generation = s.generation /\ t.policy = s.policy
        /\ t.state = q /\ t.history = h
    BY <2>1, <2>2, <2>3, <2>4, <2>5
  <2> HIDE DEF Shape
  <2> QED
    BY <2>5, <2>6 DEF q, h
<1>5. /\ t.history \in Seq(Entry)
      /\ Len(t.history) = n + 1
      /\ \A k \in 1 .. n : t.history[k] = s.history[k]
      /\ t.history[n + 1] = Record(d, s, e)
      /\ DOMAIN t.history = 1 .. n + 1
  BY <1>3, <1>4, SnapshotFacts
<1>6. n + 1 <= MaxSteps
  BY <1>1, SnapshotFacts, BudgetAssumption DEF OutOfSteps, Revision
<1> QED
  BY <1>4, <1>5, <1>6

LEMMA AcceptedIsExecutable ==
  ASSUME NEW d, NEW s, NEW e \in Events, NEW drifted,
         SnapshotOk(s), Reply(d, drifted, s, e) = "accepted"
  PROVE  /\ RuleOf(d, s, e) \in ReachableRules(d)
         /\ RuleOf(d, s, e).target \in ReachableStates(d)
<1> DEFINE q == RuleOf(d, s, e)
<1>1. /\ s.policy = d /\ d \in Definitions /\ s.state \notin d.terminal
      /\ Rules(d, s, e) # {} /\ ~ Denied(d, s, e)
  BY AcceptedMeans, PolicyAccepts, SnapshotFacts DEF SnapshotOk
<1>2. q \in d.transitions /\ q.source = s.state /\ q.event = e.kind
  BY <1>1, RuleIsARule
<1>3. q \in Executable(d)
  BY <1>1, <1>2 DEF Executable, Denied
<1>4. q.source \in ReachableStates(d)
  BY <1>1, <1>2 DEF SnapshotOk, IsRun
<1> QED
  BY <1>1, <1>3, <1>4, ReachableIsClosed

LEMMA AdvanceIsWellFormed ==
  ASSUME NEW d, NEW s, NEW e \in Events, NEW drifted,
         WellFormed(s), Reply(d, drifted, s, e) = "accepted"
  PROVE  WellFormed(Advance(d, s, e))
<1> DEFINE n == Len(s.history)
           t == Advance(d, s, e)
<1>1. n \in Nat /\ DOMAIN s.history = 1 .. n
  BY SnapshotFacts
<1>2. e.policy = s.policy /\ Prior(s, e) = {}
  BY AcceptedMeans
<1>0. /\ t \in Snapshot /\ t.policy = s.policy /\ t.generation = s.generation
      /\ t.state = RuleOf(d, s, e).target
      /\ Len(t.history) = n + 1 /\ n + 1 <= MaxSteps /\ DOMAIN t.history = 1 .. n + 1
      /\ \A k \in 1 .. n : t.history[k] = s.history[k]
      /\ t.history[n + 1] = Record(d, s, e)
  BY AdvanceShape
<1> HIDE DEF n, t
<1>3. t.history[n + 1] = [event |-> e, source |-> s.state, target |-> t.state]
  BY <1>0 DEF Record
<1>4. \A k \in DOMAIN t.history : t.history[k].event.policy = t.policy
  <2>1. \A k \in 1 .. n : s.history[k].event.policy = s.policy
    BY <1>1 DEF WellFormed
  <2>2. \A k \in 1 .. n : t.history[k].event.policy = t.policy
    BY <1>0, <2>1
  <2>3. t.history[n + 1].event.policy = t.policy
    BY <1>0, <1>2, <1>3
  <2>4. \A k \in 1 .. n + 1 : k \in 1 .. n \/ k = n + 1
    BY <1>1
  <2> QED
    BY <1>0, <2>2, <2>3, <2>4, Zenon
<1>5. ASSUME NEW k \in DOMAIN t.history, k + 1 \in DOMAIN t.history
      PROVE  t.history[k].target = t.history[k + 1].source
  <2>1. k \in 1 .. n
    BY <1>0, <1>1, <1>5
  <2>2. CASE k < n
    <3>1. k \in DOMAIN s.history /\ k + 1 \in DOMAIN s.history
      BY <1>1, <2>1, <2>2
    <3>2. s.history[k].target = s.history[k + 1].source
      BY <3>1 DEF WellFormed
    <3>3. t.history[k] = s.history[k] /\ t.history[k + 1] = s.history[k + 1]
      BY <1>0, <1>1, <3>1
    <3> QED
      BY <3>2, <3>3
  <2>3. CASE k = n
    <3>1. n # 0 /\ s.history # << >>
      BY <1>1, <2>1, <2>3 DEF n
    <3>2. s.history[n].target = s.state
      BY <3>1 DEF WellFormed, Revision, n
    <3> QED
      BY <1>0, <2>1, <2>3, <3>2, <1>3
  <2> QED
    BY <1>1, <2>1, <2>2, <2>3
<1>6. ASSUME NEW k \in DOMAIN t.history, NEW j \in DOMAIN t.history,
             t.history[j].event.id = t.history[k].event.id
      PROVE  j = k
  <2>1. \A i \in 1 .. n : t.history[i].event.id # e.id
    BY <1>0, <1>1, <1>2 DEF Prior
  <2>2. t.history[n + 1].event.id = e.id
    BY <1>3
  <2>3. CASE j \in 1 .. n /\ k \in 1 .. n
    BY <1>0, <1>1, <1>6, <2>3 DEF WellFormed
  <2> QED
    BY <1>0, <1>1, <1>6, <2>1, <2>2, <2>3
<1>7. t.history[Len(t.history)].target = t.state
  BY <1>0, <1>3
<1>8. WellFormed(t)
  BY <1>0, <1>4, <1>5, <1>6, <1>7 DEF WellFormed, Revision
<1> QED
  BY <1>8 DEF t

LEMMA AdvanceIsOk ==
  ASSUME NEW d, NEW s, NEW e \in Events, NEW drifted,
         SnapshotOk(s), Reply(d, drifted, s, e) = "accepted"
  PROVE  SnapshotOk(Advance(d, s, e)) /\ Extends(Advance(d, s, e), s, Len(s.history), e)
<1> DEFINE n == Len(s.history)
           t == Advance(d, s, e)
<1>1. WellFormed(s) /\ WellFormed(t)
  BY AdvanceIsWellFormed DEF SnapshotOk
<1>2. s.policy = d /\ n \in Nat /\ DOMAIN s.history = 1 .. n
  BY <1>1, SnapshotFacts, AcceptedMeans
<1>0. /\ t \in Snapshot /\ t.policy = s.policy /\ t.generation = s.generation
      /\ t.state = RuleOf(d, s, e).target
      /\ Len(t.history) = n + 1 /\ n + 1 <= MaxSteps /\ DOMAIN t.history = 1 .. n + 1
      /\ \A k \in 1 .. n : t.history[k] = s.history[k]
      /\ t.history[n + 1] = Record(d, s, e)
  BY <1>1, AdvanceShape
<1>3. t.policy = d /\ Len(t.history) = n + 1 /\ DOMAIN t.history = 1 .. n + 1
  BY <1>0, <1>2
<1> HIDE DEF n, t
<1>4. t.history[n + 1] = [event |-> e, source |-> s.state, target |-> t.state]
  BY <1>0 DEF Record
<1>5. \A k \in 1 .. n : t.history[k] = s.history[k]
  BY <1>0
<1>6. t.state = RuleOf(d, s, e).target
  BY <1>0
<1>7. t.state \in ReachableStates(d)
  BY <1>6, AcceptedIsExecutable
<1>8. t.history[1].source = d.initial
  <2>1. CASE n = 0
    <3>1. s.history = << >>
      BY <1>1, <2>1, SnapshotFacts DEF n
    <3> QED
      BY <2>1, <3>1, <1>2, <1>4 DEF SnapshotOk, IsRun
  <2>2. CASE n # 0
    <3>1. s.history # << >> /\ 1 \in 1 .. n
      BY <1>2, <2>2 DEF n
    <3> QED
      BY <3>1, <1>2, <1>5 DEF SnapshotOk, IsRun
  <2> QED
    BY <2>1, <2>2
<1>9. \A k \in 1 .. n + 1 : TakesReachableRule(d, t.history[k])
  <2>1. TakesReachableRule(d, t.history[n + 1])
    <3>1. PICK q \in ReachableRules(d) : q = RuleOf(d, s, e)
      BY AcceptedIsExecutable
    <3>2. q.source = s.state /\ q.target = t.state /\ q.event = e.kind
      BY <3>1, <1>6, AcceptedMeans, RuleIsARule
    <3> QED
      BY <3>1, <3>2, <1>4 DEF TakesReachableRule
  <2>2. \A k \in 1 .. n : TakesReachableRule(d, t.history[k])
    BY <1>2, <1>5 DEF SnapshotOk, IsRun
  <2> QED
    BY <2>1, <2>2, <1>2
<1>10. t.state \in d.terminal => d.required \subseteq t.history[n + 1].event.payload.shows
  BY <1>4, <1>6, AcceptedMeans, PolicyAccepts DEF CompletionHolds
<1>11. IsRun(t)
  <2>1. t.history # << >>
    BY <1>2, <1>3
  <2> QED
    BY <2>1, <1>3, <1>7, <1>8, <1>9, <1>10 DEF IsRun
<1>12. Extends(t, s, n, e)
  <2>1. t.generation = s.generation /\ t.policy = s.policy
    BY <1>0
  <2> QED
    BY <2>1, <1>2, <1>3, <1>4, <1>5 DEF Extends, n
<1> QED
  BY <1>1, <1>11, <1>12 DEF SnapshotOk, n, t

LEMMA InitialIsOk ==
  ASSUME NEW d \in Definitions, NEW g \in 0 .. MaxGenerations - 1
  PROVE  SnapshotOk(Initial(d, g))
<1> DEFINE t == Initial(d, g)
<1>1. t \in Snapshot
  BY DefinitionFacts DEF Initial, Snapshot, States
<1>2. t.history = << >> /\ Len(t.history) = 0 /\ DOMAIN t.history = {}
  BY DEF Initial
<1>3. WellFormed(t)
  BY <1>1, <1>2, BudgetAssumption DEF WellFormed, Revision
<1>4. IsRun(t)
  <2>1. t.state = d.initial /\ t.policy = d
    BY DEF Initial
  <2> QED
    BY <1>2, <2>1, InitialIsReachable DEF IsRun
<1> QED
  BY <1>3, <1>4 DEF SnapshotOk

-----------------------------------------------------------------------------
(* The runners: one lemma per action.                                      *)

LEMMA InitOk == Init => IInv
<1> SUFFICES ASSUME Init
             PROVE  IInv
  OBVIOUS
<1>1. PICK d \in Definitions : stored = Initial(d, 0)
  BY DEF Init
<1>2. SnapshotOk(stored)
  BY <1>1, InitialIsOk, BudgetAssumption
<1>3. runner \in [Runner -> RunnerState] /\ \A r \in Runner : runner[r] = Idle
  BY BudgetAssumption DEF Init, Idle, RunnerState
<1>4. \A r \in Runner : RunnerOk(r)
  BY <1>3 DEF RunnerOk, Idle
<1> QED
  BY <1>2, <1>3, <1>4 DEF IInv, Init, ReceiptsOk, AnsweredIsKept

\* A step that writes only one runner keeps the rest.
LEMMA OneRunnerMoves ==
  ASSUME IInv, NEW r \in Runner, NEW own \in RunnerState,
         runner' = [runner EXCEPT ![r] = own],
         UNCHANGED <<stored, receipts>>,
         answered' \subseteq Events, AnsweredIsKept',
         RunnerOk(r)'
  PROVE  IInv'
<1>1. runner' \in [Runner -> RunnerState] /\ \A q \in Runner \ {r} : runner'[q] = runner[q]
  BY DEF IInv
<1>2. ASSUME NEW q \in Runner
      PROVE  RunnerOk(q)'
  <2>1. CASE q = r
    BY <2>1
  <2>2. CASE q # r
    <3>1. RunnerOk(q)
      BY DEF IInv
    <3> QED
      BY <1>1, <2>2, <3>1 DEF RunnerOk
  <2> QED
    BY <2>1, <2>2
<1>3. SnapshotOk(stored)' /\ ReceiptsOk'
  BY DEF IInv, ReceiptsOk
<1> QED
  BY <1>1, <1>2, <1>3 DEF IInv

LEMMA IdleIsOk == Idle \in RunnerState
BY BudgetAssumption DEF Idle, RunnerState

LEMMA DeliverKeeps ==
  ASSUME IInv, NEW r \in Runner, NEW e \in Events, Deliver(r, e)
  PROVE  IInv'
<1> DEFINE own == [Idle EXCEPT !.pc = "stepping", !.event = e]
<1>1. runner' = [runner EXCEPT ![r] = own]
  BY DEF Deliver
<1>2. /\ own \in RunnerState
      /\ own.pc = "stepping" /\ own.event = e /\ own.next = None
  BY IdleIsOk DEF RunnerState, Idle
<1> HIDE DEF own
<1>3. RunnerOk(r)'
  BY <1>1, <1>2 DEF RunnerOk, IInv
<1>4. answered' \subseteq Events /\ AnsweredIsKept'
  BY DEF Deliver, IInv, AnsweredIsKept
<1> QED
  BY <1>1, <1>2, <1>3, <1>4, OneRunnerMoves DEF Deliver

LEMMA CrashKeeps ==
  ASSUME IInv, NEW r \in Runner, Crash(r)
  PROVE  IInv'
<1>1. runner' = [runner EXCEPT ![r] = Idle]
  BY DEF Crash
<1>2. RunnerOk(r)'
  BY <1>1 DEF RunnerOk, IInv, Idle
<1>3. answered' \subseteq Events /\ AnsweredIsKept'
  BY DEF Crash, IInv, AnsweredIsKept
<1> QED
  BY <1>1, <1>2, <1>3, IdleIsOk, OneRunnerMoves DEF Crash

LEMMA AnswerKeeps ==
  ASSUME IInv, NEW r \in Runner, Answer(r)
  PROVE  IInv'
<1>1. runner' = [runner EXCEPT ![r] = Idle]
  BY DEF Answer
<1>2. RunnerOk(r)'
  BY <1>1 DEF RunnerOk, IInv, Idle
<1>3. runner[r].event \in Events /\ InHistory(stored, runner[r].event)
  BY DEF Answer, IInv, RunnerOk
<1>4. answered' \subseteq Events /\ AnsweredIsKept'
  BY <1>3 DEF Answer, IInv, AnsweredIsKept, InHistory
<1> QED
  BY <1>1, <1>2, <1>4, IdleIsOk, OneRunnerMoves DEF Answer

\* A runner that steps carries the snapshot it has loaded and one more step.
LEMMA StepKeeps ==
  ASSUME IInv, NEW r \in Runner, NEW d \in Definitions, NEW drifted \in BOOLEAN,
         Step(r, d, drifted)
  PROVE  IInv'
<1> DEFINE e == runner[r].event
           reply == Reply(d, drifted, stored, e)
<1>1. e \in Events /\ runner[r] \in RunnerState /\ runner[r].next = None
  BY DEF Step, IInv, RunnerOk
<1>2. SnapshotOk(stored) /\ WellFormed(stored)
  BY DEF IInv, SnapshotOk
<1>3. CASE reply = "accepted"
  <2> DEFINE n == Len(stored.history)
             t == Advance(d, stored, e)
             own == [runner[r] EXCEPT !.pc = "saving", !.expected = n, !.next = t]
  <2>1. SnapshotOk(t) /\ Extends(t, stored, n, e)
    BY <1>1, <1>2, <1>3, AdvanceIsOk
  <2>2. n \in 0 .. MaxSteps /\ t \in Snapshot
    BY <1>2, <2>1, SnapshotFacts, BudgetAssumption DEF SnapshotOk, WellFormed
  <2> HIDE DEF n, t
  <2>3. /\ own \in RunnerState
        /\ own.pc = "saving" /\ own.event = e /\ own.expected = n /\ own.next = t
    BY <1>1, <2>2 DEF RunnerState
  <2>4. runner' = [runner EXCEPT ![r] = own]
    BY <1>3 DEF Step, Revision, n, t
  <2> HIDE DEF own
  <2>5. RunnerOk(r)'
    <3>1. runner'[r] = own /\ stored' = stored
      BY <2>4 DEF IInv, Step
    <3> QED
      BY <1>1, <2>1, <2>3, <3>1 DEF RunnerOk, n, t
  <2>6. answered' \subseteq Events /\ AnsweredIsKept'
    BY <1>3 DEF Step, IInv, AnsweredIsKept
  <2> QED
    BY <2>3, <2>4, <2>5, <2>6, OneRunnerMoves DEF Step
<1>4. CASE reply # "accepted"
  <2>1. runner' = [runner EXCEPT ![r] = Idle]
    BY <1>4 DEF Step
  <2>2. RunnerOk(r)'
    BY <2>1 DEF RunnerOk, IInv, Idle
  <2>3. reply = "replayed" => InHistory(stored, e)
    BY PolicyRejectionRange, NoneAssumption DEF Reply, Replayed, Prior, InHistory
  <2>4. answered' \subseteq Events /\ AnsweredIsKept'
    BY <1>1, <2>3 DEF Step, IInv, AnsweredIsKept, InHistory
  <2> QED
    BY <2>1, <2>2, <2>4, IdleIsOk, OneRunnerMoves DEF Step
<1> QED
  BY <1>3, <1>4

\* The step that extends a run starts in its last state, which therefore is not terminal;
\* and what was in the history stays in it.
LEMMA ExtendedRun ==
  ASSUME NEW s, NEW t, NEW e, SnapshotOk(s), SnapshotOk(t), Extends(t, s, Len(s.history), e)
  PROVE  /\ s.state \notin s.policy.terminal
         /\ InHistory(t, e)
         /\ \A x : InHistory(s, x) => InHistory(t, x)
<1> DEFINE n == Len(s.history)
<1>1. /\ n \in Nat /\ DOMAIN s.history = 1 .. n /\ n + 1 \in Nat
      /\ Len(t.history) = n + 1 /\ DOMAIN t.history = 1 .. n + 1
  BY SnapshotFacts DEF SnapshotOk, Extends
<1>2. /\ t.policy = s.policy /\ t.history[n + 1].event = e
      /\ \A k \in 1 .. n : t.history[k] = s.history[k]
  BY DEF Extends
<1>3. t.history[n + 1].source = s.state
  <2>1. CASE n = 0
    <3>1. s.history = << >>
      BY <2>1, SnapshotFacts DEF SnapshotOk
    <3>2. t.history # << >>
      <4>1. 1 \in DOMAIN t.history
        BY <1>1, <2>1
      <4>2. DOMAIN << >> = {}
        OBVIOUS
      <4> QED
        BY <4>1, <4>2
    <3>3. s.state = s.policy.initial /\ t.history[1].source = t.policy.initial
      BY <3>1, <3>2 DEF SnapshotOk, IsRun
    <3> QED
      BY <1>2, <2>1, <3>3
  <2>2. CASE n # 0
    <3>1. n \in 1 .. n + 1 /\ n + 1 \in 1 .. n + 1 /\ n \in 1 .. n
      BY <1>1, <2>2
    <3>2. t.history[n].target = t.history[n + 1].source
      BY <1>1, <3>1 DEF SnapshotOk, WellFormed
    <3>3. s.history[n].target = s.state
      BY <1>1, <2>2 DEF SnapshotOk, WellFormed, Revision
    <3> QED
      BY <1>2, <3>1, <3>2, <3>3
  <2> QED
    BY <2>1, <2>2
<1>4. s.state \notin s.policy.terminal
  <2>1. PICK q \in ReachableRules(t.policy) : q.source = t.history[n + 1].source
    BY <1>1 DEF SnapshotOk, IsRun, TakesReachableRule
  <2> QED
    BY <1>2, <1>3, <2>1 DEF ReachableRules, Executable
<1>5. InHistory(t, e)
  BY <1>1, <1>2 DEF InHistory
<1>6. ASSUME NEW x, InHistory(s, x)
      PROVE  InHistory(t, x)
  <2>1. PICK k \in 1 .. n : s.history[k].event = x
    BY <1>1, <1>6 DEF InHistory
  <2>2. k \in 1 .. n + 1 /\ t.history[k].event = x
    BY <1>1, <1>2, <2>1
  <2> QED
    BY <1>1, <2>2 DEF InHistory
<1> QED
  BY <1>4, <1>5, <1>6

LEMMA LoserKeeps ==
  ASSUME IInv, NEW r \in Runner, Save(r), ~ Swap(runner[r].expected)
  PROVE  IInv'
<1> DEFINE own == [runner[r] EXCEPT !.pc = "stepping", !.next = None]
<1>1. runner[r] \in RunnerState /\ runner[r].event \in Events
  BY DEF Save, IInv, RunnerOk
<1>2. runner' = [runner EXCEPT ![r] = own]
  BY DEF Save, IInv
<1>3. /\ own \in RunnerState
      /\ own.pc = "stepping" /\ own.event = runner[r].event /\ own.next = None
  BY <1>1 DEF RunnerState
<1> HIDE DEF own
<1>4. RunnerOk(r)'
  <2>1. runner'[r] = own
    BY <1>2 DEF IInv
  <2> QED
    BY <1>1, <1>3, <2>1 DEF RunnerOk
<1>5. answered' \subseteq Events /\ AnsweredIsKept'
  BY DEF Save, IInv, AnsweredIsKept
<1> QED
  BY <1>2, <1>3, <1>4, <1>5, OneRunnerMoves DEF Save

LEMMA WinnerExtends ==
  ASSUME IInv, NEW r \in Runner, Save(r), Swap(runner[r].expected)
  PROVE  /\ SnapshotOk(stored) /\ SnapshotOk(stored')
         /\ Extends(stored', stored, Len(stored.history), runner[r].event)
         /\ stored.state \notin stored.policy.terminal
<1>1. runner[r].pc = "saving" /\ stored' = runner[r].next
  BY DEF Save
<1>2. SnapshotOk(stored') /\ Extends(stored', stored, Len(stored.history), runner[r].event)
  BY <1>1 DEF IInv, RunnerOk, Swap, Revision
<1>3. SnapshotOk(stored)
  BY DEF IInv
<1> QED
  BY <1>2, <1>3, ExtendedRun

LEMMA WinnerKeeps ==
  ASSUME IInv, NEW r \in Runner, Save(r), Swap(runner[r].expected)
  PROVE  IInv'
<1> DEFINE own == [runner[r] EXCEPT !.pc = "answering", !.next = None]
           n == Len(stored.history)
<1>1. runner[r] \in RunnerState /\ runner[r].event \in Events
  BY DEF Save, IInv, RunnerOk
<1>2. runner' = [runner EXCEPT ![r] = own] /\ UNCHANGED <<receipts, answered>>
  BY DEF Save, IInv
<1>3. /\ own \in RunnerState
      /\ own.pc = "answering" /\ own.event = runner[r].event /\ own.next = None
  BY <1>1 DEF RunnerState
<1>4. /\ SnapshotOk(stored) /\ SnapshotOk(stored')
      /\ Extends(stored', stored, n, runner[r].event)
      /\ stored.state \notin stored.policy.terminal
  BY WinnerExtends
<1>5. /\ InHistory(stored', runner[r].event)
      /\ \A x : InHistory(stored, x) => InHistory(stored', x)
  BY <1>4, ExtendedRun
<1> HIDE DEF own, n
<1>6. /\ runner' \in [Runner -> RunnerState] /\ runner'[r] = own
      /\ \A q \in Runner \ {r} : runner'[q] = runner[q]
  BY <1>2, <1>3 DEF IInv
<1>7. ASSUME NEW q \in Runner
      PROVE  RunnerOk(q)'
  <2>1. CASE q = r
    BY <1>1, <1>3, <1>5, <1>6, <2>1 DEF RunnerOk
  <2>2. CASE q # r
    <3>1. RunnerOk(q) /\ runner'[q] = runner[q] /\ runner[q].expected \in Nat
      BY <1>6, <2>2 DEF IInv, RunnerState
    <3>2. ASSUME runner[q].pc = "saving"
          PROVE  Extends(runner[q].next, stored', runner[q].expected, runner[q].event)
      <4>1. Extends(runner[q].next, stored, runner[q].expected, runner[q].event)
        BY <3>1, <3>2 DEF RunnerOk
      <4>2. n \in Nat /\ Len(stored'.history) = n + 1
            /\ \A k \in 1 .. n : stored'.history[k] = stored.history[k]
        BY <1>4, SnapshotFacts DEF Extends, SnapshotOk, n
      <4>3. runner[q].expected <= n
        BY <4>1 DEF Extends, n
      <4>4. \A k \in 1 .. runner[q].expected :
              runner[q].next.history[k] = stored'.history[k]
        BY <3>1, <4>1, <4>2, <4>3 DEF Extends
      <4>5. stored'.generation = stored.generation /\ stored'.policy = stored.policy
        BY <1>4 DEF Extends
      <4> QED
        BY <3>1, <4>1, <4>2, <4>3, <4>4, <4>5 DEF Extends
    <3> QED
      BY <1>5, <3>1, <3>2 DEF RunnerOk
  <2> QED
    BY <2>1, <2>2
<1>8. ReceiptsOk'
  <2>1. stored'.generation = stored.generation
    BY <1>4 DEF Extends
  <2>2. \A s \in receipts : s.generation # stored.generation
    BY <1>4 DEF IInv, ReceiptsOk
  <2> QED
    BY <1>2, <2>1, <2>2 DEF IInv, ReceiptsOk
<1>9. answered' \subseteq Events /\ AnsweredIsKept'
  <2>1. \A x \in answered : InHistory(stored, x)
    BY DEF IInv, AnsweredIsKept, InHistory
  <2> QED
    BY <1>2, <1>5, <2>1 DEF IInv, AnsweredIsKept, InHistory
<1> QED
  BY <1>4, <1>6, <1>7, <1>8, <1>9 DEF IInv

LEMMA PutKeeps ==
  ASSUME IInv, NEW d \in Definitions, NEW drifted \in BOOLEAN, Put(d, drifted)
  PROVE  IInv'
<1>1. stored.state \in stored.policy.terminal /\ receipts' = receipts \cup {stored}
  BY DEF Put, Finished
<1>2. UNCHANGED <<stored, runner, answered>>
  BY DEF Put
<1>3. ReceiptsOk'
  <2>1. stored.generation \in Nat
    BY SnapshotFacts, BudgetAssumption DEF IInv, SnapshotOk
  <2> QED
    BY <1>1, <1>2, <2>1 DEF IInv, ReceiptsOk
<1> QED
  BY <1>2, <1>3 DEF IInv, RunnerOk, AnsweredIsKept

LEMMA SucceedKeeps ==
  ASSUME IInv, NEW d \in Definitions, NEW drifted \in BOOLEAN, Succeed(d, drifted)
  PROVE  IInv'
<1> DEFINE g == stored.generation + 1
<1>1. stored' = Initial(d, g) /\ answered' = {} /\ UNCHANGED <<receipts, runner>>
  BY DEF Succeed
<1>2. stored.generation \in Nat /\ g \in 0 .. MaxGenerations - 1
  BY SnapshotFacts, BudgetAssumption DEF IInv, SnapshotOk, Succeed
<1>3. SnapshotOk(stored')
  BY <1>1, <1>2, InitialIsOk
<1>4. ReceiptsOk'
  <2>1. stored'.generation = stored.generation + 1
    BY <1>1 DEF Initial
  <2>2. ASSUME NEW s \in receipts
        PROVE  s.generation \in Nat /\ s.generation <= stored.generation
    BY SnapshotFacts, BudgetAssumption DEF IInv, ReceiptsOk, SnapshotOk
  <2> QED
    BY <1>1, <1>2, <2>1, <2>2 DEF IInv, ReceiptsOk
<1>5. \A r \in Runner : RunnerOk(r)'
  BY <1>1 DEF IInv, RunnerOk, Succeed
<1> QED
  BY <1>1, <1>3, <1>4, <1>5 DEF IInv, AnsweredIsKept

LEMMA StepKeepsInv == IInv /\ [Next]_vars => IInv'
<1> SUFFICES ASSUME IInv, [Next]_vars
             PROVE  IInv'
  OBVIOUS
<1>1. ASSUME NEW r \in Runner, NEW e \in Events, Deliver(r, e)
      PROVE  IInv'
  BY <1>1, DeliverKeeps
<1>2. ASSUME NEW r \in Runner, NEW d \in Definitions, NEW drifted \in BOOLEAN,
             Step(r, d, drifted)
      PROVE  IInv'
  BY <1>2, StepKeeps
<1>3. ASSUME NEW r \in Runner, Save(r)
      PROVE  IInv'
  BY <1>3, WinnerKeeps, LoserKeeps
<1>4. ASSUME NEW r \in Runner, Answer(r)
      PROVE  IInv'
  BY <1>4, AnswerKeeps
<1>5. ASSUME NEW r \in Runner, Crash(r)
      PROVE  IInv'
  BY <1>5, CrashKeeps
<1>6. ASSUME NEW d \in Definitions, NEW drifted \in BOOLEAN, Put(d, drifted)
      PROVE  IInv'
  BY <1>6, PutKeeps
<1>7. ASSUME NEW d \in Definitions, NEW drifted \in BOOLEAN, Succeed(d, drifted)
      PROVE  IInv'
  BY <1>7, SucceedKeeps
<1>8. CASE UNCHANGED vars
  BY <1>8 DEF vars, IInv, ReceiptsOk, RunnerOk, AnsweredIsKept
<1> QED
  BY <1>1, <1>2, <1>3, <1>4, <1>5, <1>6, <1>7, <1>8 DEF Next

LEMMA Invariance == Spec => []IInv
BY InitOk, StepKeepsInv, PTL DEF Spec

-----------------------------------------------------------------------------
(* The theorems.                                                           *)

\* What the stores hold and what a runner is about to save is a snapshot the constructor
\* accepts: chained, with no event twice, within the budget.
THEOREM TypeCorrect == Spec => []TypeOK
<1>1. IInv => TypeOK
  <2> SUFFICES ASSUME IInv, NEW r \in Runner
               PROVE  /\ runner[r].pc \in {"idle", "stepping", "saving", "answering"}
                      /\ runner[r].event \in Events \cup {None}
                      /\ runner[r].expected \in 0 .. MaxSteps
                      /\ IF runner[r].pc = "saving" THEN WellFormed(runner[r].next)
                         ELSE runner[r].next = None
    BY DEF IInv, TypeOK, SnapshotOk, ReceiptsOk
  <2>1. runner[r] \in RunnerState
    BY DEF IInv
  <2>2. RunnerOk(r)
    BY DEF IInv
  <2> QED
    BY <2>1, <2>2 DEF RunnerState, RunnerOk, SnapshotOk
<1> QED
  BY <1>1, Invariance, PTL

\* A run keeps to what the analysis says of its definition, and is completed by an event
\* that shows what the definition requires - whatever the validators do and whoever races.
THEOREM RunsKeepToTheDefinition == Spec => []RunsAsDefined
<1>1. IInv => RunsAsAnalyzed
  <2> SUFFICES ASSUME IInv
               PROVE  RunsAsAnalyzed
    OBVIOUS
  <2> DEFINE d == stored.policy
  <2>1. IsRun(stored)
    BY DEF IInv, SnapshotOk
  <2>2. stored.state \notin Findings(d).unreachable_states
    BY <2>1 DEF IsRun, Findings
  <2>3. ASSUME NEW k \in DOMAIN stored.history
        PROVE  \E q \in d.transitions \ (Findings(d).terminal_outgoing \cup Findings(d).denied
                                           \cup Findings(d).unreachable_rules) :
                 /\ q.source = stored.history[k].source
                 /\ q.target = stored.history[k].target
                 /\ q.event = stored.history[k].event.kind
    <3>1. PICK q \in ReachableRules(d) :
            /\ q.source = stored.history[k].source /\ q.target = stored.history[k].target
            /\ q.event = stored.history[k].event.kind
      BY <2>1 DEF IsRun, TakesReachableRule
    <3>2. q \in Executable(d) /\ q \in d.transitions /\ q.source \notin d.terminal
      BY DEF ReachableRules, Executable
    <3>3. /\ q \notin Findings(d).terminal_outgoing
          /\ q \notin Findings(d).denied
          /\ q \notin Findings(d).unreachable_rules
      BY <3>2 DEF Findings
    <3> QED
      BY <3>1, <3>2, <3>3
  <2> QED
    BY <2>2, <2>3 DEF RunsAsAnalyzed
<1>2. IInv => CompletionIsEarned
  BY DEF IInv, SnapshotOk, IsRun, CompletionIsEarned, Revision
<1>3. IInv => RunsAsDefined
  BY <1>1, <1>2 DEF RunsAsDefined
<1> QED
  BY <1>3, Invariance, PTL

\* An event that was answered stays in the history, and a generation has one receipt, which
\* validates - whoever crashed between the save and the answer.
THEOREM PromisesHold == Spec => []PromisesAreKept
<1>1. ASSUME NEW s, SnapshotOk(s), s.state \in s.policy.terminal
      PROVE  ReceiptValid(s.policy, s)
  <2> DEFINE n == Len(s.history)
  <2>1. n \in Nat /\ DOMAIN s.history = 1 .. n
    BY <1>1, SnapshotFacts DEF SnapshotOk
  <2>2. HistoryDeclared(s.policy, s)
    <3>1. ASSUME NEW k \in DOMAIN s.history
          PROVE  Declared(s.policy, s.history[k])
      BY <1>1
      DEF SnapshotOk, IsRun, TakesReachableRule, ReachableRules, Executable, Declared
    <3> QED
      BY <1>1, <3>1 DEF SnapshotOk, IsRun, HistoryDeclared
  <2>3. ASSUME NEW k \in DOMAIN s.history
        PROVE  s.history[k].target = IF k = n THEN s.state ELSE s.history[k + 1].source
    <3>1. CASE k = n
      BY <1>1, <2>1, <3>1 DEF SnapshotOk, WellFormed, Revision
    <3>2. CASE k # n
      <4>1. k + 1 \in DOMAIN s.history
        BY <2>1, <3>2
      <4> QED
        BY <1>1, <3>2, <4>1 DEF SnapshotOk, WellFormed
    <3> QED
      BY <3>1, <3>2
  <2> QED
    BY <1>1, <2>2, <2>3 DEF ReceiptValid, SnapshotOk, WellFormed
<1>2. IInv => PromisesAreKept
  BY <1>1 DEF IInv, ReceiptsOk, PromisesAreKept, OneReceipt
<1> QED
  BY <1>2, Invariance, PTL

\* The snapshot store moves by one accepted event appended to what it held, or from a
\* finished generation to the next: a runner that was overtaken overwrites nothing.
THEOREM StoreMovesByOneStep == Spec => NoLostStep
<1> DEFINE Moves ==
      stored' # stored =>
        \/ /\ stored'.generation = stored.generation
           /\ Revision(stored') = Revision(stored) + 1
           /\ SubSeq(stored'.history, 1, Revision(stored)) = stored.history
        \/ /\ stored'.generation = stored.generation + 1
           /\ stored.state \in stored.policy.terminal
<1>1. ASSUME IInv, NEW r \in Runner, Save(r)
      PROVE  Moves
  <2>1. CASE Swap(runner[r].expected)
    <3> DEFINE n == Len(stored.history)
    <3>1. /\ SnapshotOk(stored) /\ SnapshotOk(stored')
          /\ Extends(stored', stored, n, runner[r].event)
      BY <1>1, <2>1, WinnerExtends
    <3>2. stored'.history \in Seq(Entry) /\ stored.history \in Seq(Entry) /\ n \in Nat
      BY <3>1, SnapshotFacts DEF SnapshotOk
    <3>3. Len(stored'.history) = n + 1 /\ \A k \in 1 .. n : stored'.history[k] = stored.history[k]
      BY <3>1 DEF Extends
    <3>4. SubSeq(stored'.history, 1, n) = stored.history
      BY <3>2, <3>3
    <3> QED
      BY <3>1, <3>3, <3>4 DEF Extends, Revision
  <2>2. CASE ~ Swap(runner[r].expected)
    BY <1>1, <2>2 DEF Save
  <2> QED
    BY <2>1, <2>2
<1>2. ASSUME NEW d \in Definitions, NEW drifted \in BOOLEAN, Succeed(d, drifted)
      PROVE  Moves
  BY <1>2 DEF Succeed, Initial, Finished
<1>3. IInv /\ [Next]_vars => [Moves]_vars
  BY <1>1, <1>2 DEF Next, vars, Deliver, Step, Answer, Crash, Put
<1> QED
  BY <1>3, Invariance, PTL DEF Spec, NoLostStep

\* An event that is new and of the snapshot's policy is rejected with the first of the
\* documented codes that applies, unless the evaluator raises; if none applies it is accepted.
THEOREM RejectedInOrder == Spec => []DocumentedPrecedence
<1> DEFINE Applicable(k, e) == Applies(FreshPrecedence[k], stored.policy, stored, e)
<1>1. ASSUME IInv, NEW e \in Events, Prior(stored, e) = {}, e.policy = stored.policy,
             Reply(stored.policy, FALSE, stored, e) # "evaluator_failure"
      PROVE  LET d    == stored.policy
                 code == Reply(d, FALSE, stored, e)
             IN IF code = "accepted"
                THEN \A k \in DOMAIN FreshPrecedence : ~ Applies(FreshPrecedence[k], d, stored, e)
                ELSE \E k \in DOMAIN FreshPrecedence :
                       /\ code = FreshPrecedence[k] /\ Applies(code, d, stored, e)
                       /\ \A j \in 1 .. k - 1 : ~ Applies(FreshPrecedence[j], d, stored, e)
  <2> DEFINE d    == stored.policy
             code == Reply(d, FALSE, stored, e)
             rule == RuleOf(d, stored, e)
             A1 == Revision(stored) = MaxSteps
             A2 == stored.state \notin d.states
             A3 == stored.state \in d.terminal
             A4 == e.kind \notin d.events
             A5 == Rules(d, stored, e) = {}
             A6 == rule.validator /\ e.payload.valid = "no"
             A7 == Denied(d, stored, e)
             A8 == rule.target \in d.terminal /\ ~ CompletionHolds(d, e.payload)
  <2>1. DOMAIN FreshPrecedence = 1 .. 8
    BY DEF FreshPrecedence
  <2>2. /\ FreshPrecedence[1] = "step_budget_exhausted" /\ FreshPrecedence[2] = "unknown_state"
        /\ FreshPrecedence[3] = "terminal_state" /\ FreshPrecedence[4] = "unknown_event"
        /\ FreshPrecedence[5] = "unknown_transition" /\ FreshPrecedence[6] = "invalid_payload"
        /\ FreshPrecedence[7] = "recovery_policy_denied"
        /\ FreshPrecedence[8] = "completion_policy_failed"
    BY DEF FreshPrecedence
  <2>3. /\ Applies("step_budget_exhausted", d, stored, e) <=> A1
        /\ Applies("unknown_state", d, stored, e) <=> A2
        /\ Applies("terminal_state", d, stored, e) <=> A3
        /\ Applies("unknown_event", d, stored, e) <=> A4
        /\ Applies("unknown_transition", d, stored, e) <=> A5
        /\ Applies("invalid_payload", d, stored, e) <=> A6
        /\ Applies("recovery_policy_denied", d, stored, e) <=> A7
        /\ Applies("completion_policy_failed", d, stored, e) <=> A8
    BY DEF Applies, Denied, CompletionHolds
  <2>4. OutOfSteps(stored) <=> A1
    <3>1. Revision(stored) \in Nat /\ Revision(stored) <= MaxSteps
      BY <1>1, SnapshotFacts DEF IInv, SnapshotOk, Revision
    <3> QED
      BY <3>1, BudgetAssumption DEF OutOfSteps
  <2>5. code = IF A1 THEN "step_budget_exhausted"
               ELSE IF A2 THEN "unknown_state"
               ELSE IF A3 THEN "terminal_state"
               ELSE IF A4 THEN "unknown_event"
               ELSE IF A5 THEN "unknown_transition"
               ELSE IF PolicyRejection(d, stored, e) # None THEN PolicyRejection(d, stored, e)
               ELSE "accepted"
    BY <1>1, <2>4 DEF Reply, Bound
  <2>6. \/ PolicyRejection(d, stored, e) = "evaluator_failure"
        \/ PolicyRejection(d, stored, e) =
             IF A6 THEN "invalid_payload" ELSE IF A7 THEN "recovery_policy_denied"
             ELSE IF A8 THEN "completion_policy_failed" ELSE None
    BY DEF PolicyRejection, Denied, CompletionHolds
  <2>7. PolicyRejection(d, stored, e) = "evaluator_failure" =>
          A1 \/ A2 \/ A3 \/ A4 \/ A5
    BY <1>1, <2>5, NoneAssumption
  <2> HIDE DEF d, code, rule, A1, A2, A3, A4, A5, A6, A7, A8
  <2>8. /\ Applicable(1, e) <=> A1
        /\ Applicable(2, e) <=> A2
        /\ Applicable(3, e) <=> A3
        /\ Applicable(4, e) <=> A4
        /\ Applicable(5, e) <=> A5
        /\ Applicable(6, e) <=> A6
        /\ Applicable(7, e) <=> A7
        /\ Applicable(8, e) <=> A8
    BY <2>2, <2>3 DEF d
  <2>9. CASE code = "accepted"
    <3>1. ~ A1 /\ ~ A2 /\ ~ A3 /\ ~ A4 /\ ~ A5 /\ ~ A6 /\ ~ A7 /\ ~ A8
      BY <2>5, <2>6, <2>7, <2>9, NoneAssumption
    <3>2. \A k \in 1 .. 8 : ~ Applicable(k, e)
      BY <2>8, <3>1
    <3> QED
      BY <2>1, <2>9, <3>2 DEF d, code
  <2>10. CASE code # "accepted"
    <3>1. \E k \in 1 .. 8 : /\ code = FreshPrecedence[k] /\ Applicable(k, e)
                            /\ \A j \in 1 .. k - 1 : ~ Applicable(j, e)
      <4> SUFFICES \/ code = FreshPrecedence[1] /\ A1
                   \/ code = FreshPrecedence[2] /\ A2 /\ ~ A1
                   \/ code = FreshPrecedence[3] /\ A3 /\ ~ A1 /\ ~ A2
                   \/ code = FreshPrecedence[4] /\ A4 /\ ~ A1 /\ ~ A2 /\ ~ A3
                   \/ code = FreshPrecedence[5] /\ A5 /\ ~ A1 /\ ~ A2 /\ ~ A3 /\ ~ A4
                   \/ code = FreshPrecedence[6] /\ A6 /\ ~ A1 /\ ~ A2 /\ ~ A3 /\ ~ A4 /\ ~ A5
                   \/ code = FreshPrecedence[7] /\ A7 /\ ~ A1 /\ ~ A2 /\ ~ A3 /\ ~ A4 /\ ~ A5 /\ ~ A6
                   \/ code = FreshPrecedence[8] /\ A8 /\ ~ A1 /\ ~ A2 /\ ~ A3 /\ ~ A4 /\ ~ A5 /\ ~ A6
                                                /\ ~ A7
        <5> HIDE DEF Applicable
        <5> QED
          BY <2>8
      <4> QED
        BY <2>2, <2>5, <2>6, <2>7, <2>10, NoneAssumption
    <3>2. PICK k \in 1 .. 8 : /\ code = FreshPrecedence[k] /\ Applicable(k, e)
                              /\ \A j \in 1 .. k - 1 : ~ Applicable(j, e)
      BY <3>1
    <3> QED
      BY <2>1, <2>10, <3>2 DEF d, code
  <2> QED
    BY <2>9, <2>10 DEF d, code
<1>2. IInv => DocumentedPrecedence
  BY <1>1 DEF DocumentedPrecedence
<1> QED
  BY <1>2, Invariance, PTL
=============================================================================
