------------------------ MODULE EvidenceCycleProofs ------------------------
(***************************************************************************)
(* Theorems about EvidenceCycle, for every set of sources, materials,      *)
(* findings, tiers and boundaries and for every budget.                    *)
(*                                                                         *)
(* The first half is about recovery: the journal is bounded, the source is *)
(* restored, the first cause is kept.  The second is about what is told    *)
(* and sealed.  A record names its event by its own position, unless it is *)
(* the record of a collision; the effects of the record at k are those of  *)
(* intent k; and each phase that leads to a seal has the runs that were    *)
(* due by then.                                                            *)
(***************************************************************************)
EXTENDS EvidenceCycle, TLAPS

Event == [id : Nat, intent : Nat]

-----------------------------------------------------------------------------
(* Type correctness.                                                       *)

LEMMA EventNamedOK ==
  ASSUME TypeOK, NEW id \in Nat
  PROVE  EventNamed(id) \in Event /\ FreshEvent \in Event
  BY DEF TypeOK, ProgressOK, EventNamed, FreshEvent, Event

LEMMA ReusedEventOK ==
  ASSUME TypeOK, NEW k \in DOMAIN journal
  PROVE  EventNamed(journal[k].id) \in Event
<1>1. journal[k] \in EventRecord
  BY DEF TypeOK, ProgressOK
<1>2. journal[k].id \in Nat
  BY <1>1 DEF EventRecord
<1> QED
  BY <1>2, EventNamedOK

LEMMA HaltPhaseOK ==
  ASSUME NEW reason
  PROVE  HaltPhase(reason) \in Terminal \ {"complete", "superseded_by_successor"}
  BY DEF HaltPhase, Terminal

LEMMA CommitOK ==
  ASSUME TypeOK, NEW event \in Event, NEW to \in Phase, NEW counted \in BOOLEAN,
         NEW reason \in InterruptReason \cup {None}, NEW code,
         Commit(event, to, counted, reason, code)
  PROVE  ProgressOK' /\ IdentityOK' /\ phase' = to
<1> USE DEF TypeOK, ProgressOK
<1>1. revision' \in Nat /\ steps' \in Nat /\ phase' = to
  BY DEF Commit
<1>2. [id |-> event.id, intent |-> event.intent, from |-> phase, to |-> to]
        \in EventRecord
  BY DEF EventRecord, Event
<1>3. journal' \in Seq(EventRecord)
  BY <1>2 DEF Commit
<1>4. /\ Effect(event, "record_transition", None) \in EffectIntent
      /\ Effect(event, "restore_required", reason) \in EffectIntent
  BY DEF Effect, EffectIntent, Event
<1>5. effects' \subseteq EffectIntent
  BY <1>4 DEF Commit
<1>6. IdentityOK'
  BY DEF Commit, IdentityOK, identity
<1> QED
  BY <1>1, <1>3, <1>5, <1>6

LEMMA AdvanceOK ==
  ASSUME TypeOK, NEW to \in Phase, Advance(to)
  PROVE  ProgressOK' /\ IdentityOK' /\ phase' = to
<1>1. FreshEvent \in Event
  BY EventNamedOK DEF TypeOK, ProgressOK
<1> QED
  BY <1>1, CommitOK DEF Advance

LEMMA HaltOK ==
  ASSUME TypeOK, NEW event \in Event, NEW reason \in InterruptReason,
         NEW counted \in BOOLEAN, NEW code, phase # "recovery_required",
         Halt(event, reason, counted, code)
  PROVE  ProgressOK' /\ IdentityOK' /\ FaultOK'
<1>1. CASE active
  <2>1. /\ Commit(event, "recovery_required", counted, reason, code)
        /\ pending' = reason /\ halt' = halt
    BY <1>1 DEF Halt
  <2>2. ProgressOK' /\ IdentityOK' /\ phase' = "recovery_required"
    BY <2>1, CommitOK DEF Phase
  <2> QED
    BY <2>1, <2>2, NameAssumption DEF TypeOK, FaultOK
<1>2. CASE ~ active
  <2>1. /\ Commit(event, HaltPhase(reason), counted, None, code)
        /\ halt' = reason /\ pending' = pending
    BY <1>2 DEF Halt
  <2>2. HaltPhase(reason) \in Phase /\ HaltPhase(reason) # "recovery_required"
    BY HaltPhaseOK DEF Phase, Terminal
  <2>3. ProgressOK' /\ IdentityOK' /\ phase' = HaltPhase(reason)
    BY <2>1, <2>2, CommitOK
  <2> QED
    BY <2>1, <2>2, <2>3, NameAssumption DEF TypeOK, FaultOK
<1> QED
  BY <1>1, <1>2

\* What a handler that only advances owes: it leaves fault alone and moves from one
\* phase that is not recovery to another.
LEMMA AdvanceFaultOK ==
  ASSUME TypeOK, NEW to \in Phase \ {"recovery_required"}, Advance(to),
         phase # "recovery_required", UNCHANGED fault
  PROVE  ProgressOK' /\ IdentityOK' /\ FaultOK'
<1>1. ProgressOK' /\ IdentityOK' /\ phase' = to
  BY AdvanceOK
<1> QED
  BY <1>1 DEF TypeOK, FaultOK, fault

LEMMA TakeRunType ==
  ASSUME TypeOK, NEW kind, NEW from \in Phase \ {"recovery_required"},
         NEW role \in RunRole, NEW to \in Phase \ {"recovery_required"},
         TakeRun(kind, from, role, to)
  PROVE  TypeOK'
<1>1. PICK run \in RunPayload(role) :
        /\ ValidRun(run)
        /\ runs' = Append(runs, run)
        /\ IF Inconclusive(run) THEN Halt(FreshEvent, "inconclusive", TRUE, "accepted")
                                ELSE Advance(to) /\ UNCHANGED fault
  BY DEF TakeRun
<1>2. phase # "recovery_required" /\ UNCHANGED <<lock, oracle, quarantine, mutation, bite>>
  BY DEF TakeRun
<1>3. run \in RunEvidence
  <2>1. Len(runs) \in Nat /\ FreshNamespace \in Nat
    BY DEF TypeOK, EvidenceOK, FreshNamespace
  <2>2. 1 .. Len(runs) + 1 \subseteq Nat /\ 1 .. FreshNamespace \subseteq Nat
    BY <2>1
  <2> QED
    BY <2>2, NameAssumption DEF RunPayload, RunEvidence
<1>4. ProgressOK' /\ IdentityOK' /\ FaultOK'
  <2>1. CASE Inconclusive(run)
    <3>1. FreshEvent \in Event
      BY EventNamedOK DEF TypeOK, ProgressOK
    <3>2. Halt(FreshEvent, "inconclusive", TRUE, "accepted")
      BY <1>1, <2>1
    <3> QED
      BY <1>2, <3>1, <3>2, HaltOK DEF InterruptReason, CallerReason
  <2>2. CASE ~ Inconclusive(run)
    BY <1>1, <1>2, <2>2, AdvanceFaultOK
  <2> QED
    BY <2>1, <2>2
<1>5. EvidenceOK'
  BY <1>1, <1>2, <1>3 DEF TypeOK, EvidenceOK
<1> QED
  BY <1>2, <1>4, <1>5 DEF TypeOK, MutationOK, BiteOK, mutation, bite

LEMMA FaultsType ==
  ASSUME TypeOK, Faults
  PROVE  TypeOK'
<1>0. /\ FreshEvent \in Event
      /\ \A k \in DOMAIN journal : EventNamed(journal[k].id) \in Event
  BY EventNamedOK, ReusedEventOK DEF TypeOK, ProgressOK
<1> DEFINE Rest == UNCHANGED <<evidence, mutation, bite>>
<1>1. ASSUME NEW k \in DOMAIN journal, Collide(k)
      PROVE  ProgressOK' /\ IdentityOK' /\ FaultOK' /\ Rest
  <2>1. (steps < budget) \in BOOLEAN
    OBVIOUS
  <2> QED
    BY <1>0, <1>1, <2>1, HaltOK DEF Collide, InterruptReason
<1>2. ASSUME ExhaustBudget
      PROVE  ProgressOK' /\ IdentityOK' /\ FaultOK' /\ Rest
  BY <1>0, <1>2, HaltOK DEF ExhaustBudget, InterruptReason
<1>3. ASSUME NEW reason \in CallerReason, Interrupt(reason)
      PROVE  ProgressOK' /\ IdentityOK' /\ FaultOK' /\ Rest
  <2>1. phase # "recovery_required" /\ reason \in InterruptReason
    BY <1>3 DEF Interrupt, Admitted, InterruptReason
  <2> QED
    BY <1>0, <1>3, <2>1, HaltOK DEF Interrupt
<1>4. ProgressOK' /\ IdentityOK' /\ FaultOK' /\ Rest
  BY <1>1, <1>2, <1>3 DEF Faults
<1> QED
  BY <1>4 DEF TypeOK, EvidenceOK, MutationOK, BiteOK, evidence, mutation, bite

LEMMA RestoreType ==
  ASSUME TypeOK, NEW source \in Source, Restore(source)
  PROVE  TypeOK'
<1>1. /\ active' = FALSE /\ restored' = source
      /\ RestoreAndStop \/ RestoreAndHalt \/ RestoreAndGoOn
      /\ UNCHANGED <<mutated, evidence, bite>>
  BY DEF Restore, RestoreTo
<1>2. FreshEvent \in Event
  BY EventNamedOK DEF TypeOK, ProgressOK
<1>3. CASE RestoreAndStop
  <2>1. ProgressOK' /\ IdentityOK' /\ phase' = "interrupted"
    BY <1>2, <1>3, CommitOK DEF RestoreAndStop, Phase, Terminal
  <2> QED
    BY <1>1, <1>3, <2>1
    DEF RestoreAndStop, TypeOK, EvidenceOK, MutationOK, BiteOK, FaultOK, evidence, bite,
        InterruptReason
<1>4. CASE RestoreAndHalt
  <2>1. HaltPhase(pending) \in Phase /\ HaltPhase(pending) # "recovery_required"
    BY HaltPhaseOK DEF Phase, Terminal
  <2>2. (steps < budget) \in BOOLEAN
    OBVIOUS
  <2>3. ProgressOK' /\ IdentityOK' /\ phase' = HaltPhase(pending)
    BY <1>2, <1>4, <2>1, <2>2, CommitOK DEF RestoreAndHalt
  <2> QED
    BY <1>1, <1>4, <2>1, <2>3
    DEF RestoreAndHalt, TypeOK, EvidenceOK, MutationOK, BiteOK, FaultOK, evidence, bite
<1>5. CASE RestoreAndGoOn
  <2>1. ProgressOK' /\ IdentityOK' /\ FaultOK'
    BY <1>5, AdvanceFaultOK DEF RestoreAndGoOn, Phase
  <2> QED
    BY <1>1, <2>1 DEF TypeOK, EvidenceOK, MutationOK, BiteOK, evidence, bite
<1> QED
  BY <1>1, <1>3, <1>4, <1>5

LEMMA ProgressType ==
  ASSUME TypeOK, Progress
  PROVE  TypeOK'
<1> USE DEF TypeOK, EvidenceOK, MutationOK, BiteOK
<1>1. CASE Size
  <2>1. ProgressOK' /\ IdentityOK' /\ FaultOK'
    BY <1>1, AdvanceFaultOK DEF Size, Phase
  <2> QED
    BY <1>1, <2>1 DEF Size, evidence, mutation, bite
<1>2. ASSUME NEW materials \in MaterialLock, NEW boundary \in Boundaries,
             Lock(materials, boundary)
      PROVE  TypeOK'
  <2>1. ProgressOK' /\ IdentityOK' /\ FaultOK'
    BY <1>2, AdvanceFaultOK DEF Lock, Phase
  <2> QED
    BY <1>2, <2>1, NameAssumption DEF Lock, mutation, bite
<1>3. CASE InitialRed
  BY <1>3, TakeRunType DEF InitialRed, RunRole, Phase
<1>4. CASE Green
  BY <1>4, TakeRunType DEF Green, RunRole, Phase
<1>5. ASSUME NEW namespace \in 1 .. FreshNamespace, Quarantine(namespace)
      PROVE  TypeOK'
  <2>1. ProgressOK' /\ IdentityOK' /\ FaultOK'
    BY <1>5, AdvanceFaultOK DEF Quarantine, Phase
  <2>2. namespace \in Nat
    BY <1>5 DEF FreshNamespace
  <2> QED
    BY <1>5, <2>1, <2>2 DEF Quarantine, mutation, bite
<1>6. ASSUME NEW before \in Source, NEW after \in Source, MutationApplied(before, after)
      PROVE  TypeOK'
  <2>1. ProgressOK' /\ IdentityOK' /\ FaultOK'
    BY <1>6, AdvanceFaultOK DEF MutationApplied, Phase
  <2> QED
    BY <1>6, <2>1 DEF MutationApplied, evidence, bite
<1>7. CASE NegativeRed
  BY <1>7, TakeRunType DEF NegativeRed, RunRole, Phase
<1>8. ASSUME NEW source \in Source, Restore(source)
      PROVE  TypeOK'
  BY <1>8, RestoreType
<1>9. CASE Regreen
  BY <1>9, TakeRunType DEF Regreen, RunRole, Phase
<1>10. ASSUME NEW ids \in SUBSET Finding, EnumerateFindings(ids)
       PROVE  TypeOK'
  <2>1. ProgressOK' /\ IdentityOK' /\ FaultOK'
    BY <1>10, AdvanceFaultOK DEF EnumerateFindings, Phase
  <2> QED
    BY <1>10, <2>1 DEF EnumerateFindings, evidence, mutation
<1>11. ASSUME NEW record \in FindingDisposition, DisposeFinding(record)
       PROVE  TypeOK'
  <2>1. ProgressOK' /\ IdentityOK' /\ FaultOK'
    BY <1>11, AdvanceFaultOK DEF DisposeFinding, Phase
  <2>2. changed' \in BOOLEAN
    BY <1>11 DEF DisposeFinding
  <2> QED
    BY <1>11, <2>1, <2>2 DEF DisposeFinding, evidence, mutation
<1>12. ASSUME NEW name \in Cycle \cup {None}, Seal(name)
       PROVE  TypeOK'
  <2>1. UNCHANGED <<findings, disposed, changed, evidence, mutation, fault>>
    BY <1>12 DEF Seal
  <2>2. /\ successor' \in Cycle \cup {None}
        /\ Advance("superseded_by_successor") \/ Advance("complete")
        /\ phase = "bite_pending"
    BY <1>12 DEF Seal
  <2>3. ProgressOK' /\ IdentityOK' /\ FaultOK'
    BY <2>1, <2>2, AdvanceFaultOK DEF Phase, Terminal
  <2> QED
    BY <2>1, <2>2, <2>3 DEF evidence, mutation
<1> QED
  BY <1>1, <1>2, <1>3, <1>4, <1>5, <1>6, <1>7, <1>8, <1>9, <1>10, <1>11, <1>12
  DEF Progress

\* A replay and every rejection return the snapshot they were given.
LEMMA UnchangingSnapshot == Unchanging => UNCHANGED snapshot
  BY DEF Unchanging, Replay, Reject, RejectForeign, RejectTerminal, RejectDuringRecovery,
         RejectRestore, RejectPayload, RejectTransition

LEMMA StutterType ==
  ASSUME TypeOK, UNCHANGED snapshot
  PROVE  TypeOK'
<1>1. UNCHANGED <<identity, progress, evidence, mutation, bite, fault>>
  BY DEF snapshot
<1> QED
  BY <1>1 DEF TypeOK, IdentityOK, ProgressOK, EvidenceOK, MutationOK, BiteOK, FaultOK,
              identity, progress, evidence, mutation, bite, fault

LEMMA InitType == Init => TypeOK
<1> SUFFICES ASSUME Init PROVE TypeOK
  OBVIOUS
<1>1. IdentityOK
  BY DEF Init, IdentityOK
<1>2. ProgressOK
  <2>1. journal = << >> /\ << >> \in Seq(EventRecord)
    BY DEF Init
  <2> QED
    BY <2>1 DEF Init, ProgressOK, Phase
<1>3. EvidenceOK
  <2>1. runs = << >> /\ << >> \in Seq(RunEvidence)
    BY DEF Init
  <2> QED
    BY <2>1 DEF Init, EvidenceOK
<1>4. MutationOK /\ BiteOK
  BY DEF Init, MutationOK, BiteOK
<1>5. FaultOK
  BY DEF Init, FaultOK
<1> QED
  BY <1>1, <1>2, <1>3, <1>4, <1>5 DEF TypeOK

\* Every variable of every reachable snapshot has its type, for all constants.
THEOREM TypeCorrect == Spec => []TypeOK
<1>1. TypeOK /\ [Next]_vars => TypeOK'
  <2> SUFFICES ASSUME TypeOK, [Next]_vars PROVE TypeOK'
    OBVIOUS
  <2>1. CASE Next
    BY <2>1, ProgressType, FaultsType, UnchangingSnapshot, StutterType DEF Next
  <2>2. CASE UNCHANGED vars
    BY <2>2, StutterType DEF vars
  <2> QED
    BY <2>1, <2>2
<1> QED
  BY <1>1, InitType, PTL DEF Spec

-----------------------------------------------------------------------------
(* The length of the journal.                                              *)

Halted == Terminal \cup {"recovery_required"}

\* RevisionBounded is not inductive: what keeps the second uncounted record from being
\* followed by a third is where the first one leaves the cycle.  Up to a fault every
\* record is counted, recovery holds at most one that is not, a terminal phase two.
SafetyTail ==
  /\ Len(journal) = revision
  /\ steps <= budget
  /\ phase \notin Halted => revision = steps
  /\ phase = "recovery_required" => revision <= steps + 1
  /\ revision <= steps + 2

\* Every accepted event is one record: from a phase that is not terminal, counted only
\* with budget left, uncounted only on the way into Halted, and out of recovery only
\* into a terminal phase.
Recorded(event, to, counted, reason, code) ==
  /\ Commit(event, to, counted, reason, code)
  /\ phase \notin Terminal
  /\ counted => steps < budget
  /\ counted \/ to \in Halted
  /\ phase = "recovery_required" => to \in Terminal

Answer == {"accepted", "event_identity_conflict", "budget_exhausted"}

Accepted ==
  \E event \in Event, to \in Phase, counted \in BOOLEAN,
     reason \in InterruptReason \cup {None}, code \in Answer :
    Recorded(event, to, counted, reason, code)

LEMMA AdvanceAccepted ==
  ASSUME TypeOK, NEW to \in Phase, Advance(to), steps < budget, phase \notin Halted
  PROVE  Accepted
<1>1. FreshEvent \in Event
  BY EventNamedOK DEF TypeOK, ProgressOK
<1>2. Recorded(FreshEvent, to, TRUE, None, "accepted")
  BY DEF Advance, Recorded, Halted
<1> QED
  BY <1>1, <1>2 DEF Accepted, Answer

LEMMA HaltAccepted ==
  ASSUME TypeOK, NEW event \in Event, NEW reason \in InterruptReason,
         NEW counted \in BOOLEAN, NEW code \in Answer, phase \notin Halted,
         counted => steps < budget, Halt(event, reason, counted, code)
  PROVE  Accepted
<1>1. CASE active
  <2>1. Recorded(event, "recovery_required", counted, reason, code)
    BY <1>1 DEF Halt, Recorded, Halted
  <2> QED
    BY <2>1 DEF Accepted, Answer, Phase
<1>2. CASE ~ active
  <2>1. HaltPhase(reason) \in Terminal
    BY HaltPhaseOK
  <2>2. Recorded(event, HaltPhase(reason), counted, None, code)
    BY <1>2, <2>1 DEF Halt, Recorded, Halted
  <2> QED
    BY <2>1, <2>2 DEF Accepted, Answer, Phase
<1> QED
  BY <1>1, <1>2

LEMMA FaultsAccepted ==
  ASSUME TypeOK, Faults
  PROVE  Accepted
<1>0. /\ FreshEvent \in Event
      /\ \A k \in DOMAIN journal : EventNamed(journal[k].id) \in Event
  BY EventNamedOK, ReusedEventOK DEF TypeOK, ProgressOK
<1>1. ASSUME NEW k \in DOMAIN journal, Collide(k) PROVE Accepted
  <2>1. (steps < budget) \in BOOLEAN /\ phase \notin Halted
    BY <1>1 DEF Collide, Halted
  <2> QED
    BY <1>0, <1>1, <2>1, HaltAccepted DEF Collide, InterruptReason, Answer
<1>2. CASE ExhaustBudget
  BY <1>0, <1>2, HaltAccepted DEF ExhaustBudget, InterruptReason, Halted, Answer
<1>3. ASSUME NEW reason \in CallerReason, Interrupt(reason) PROVE Accepted
  <2>1. phase \notin Halted /\ steps < budget /\ reason \in InterruptReason
    BY <1>3 DEF Interrupt, Admitted, Halted, InterruptReason
  <2> QED
    BY <1>0, <1>3, <2>1, HaltAccepted DEF Interrupt, Answer
<1> QED
  BY <1>1, <1>2, <1>3 DEF Faults

LEMMA TakeRunAccepted ==
  ASSUME TypeOK, NEW kind, kind # "restore", NEW from \in Phase \ Halted, NEW role,
         NEW to \in Phase, TakeRun(kind, from, role, to)
  PROVE  Accepted
<1>1. phase \notin Halted /\ steps < budget
  BY DEF TakeRun, Admitted
<1>2. Halt(FreshEvent, "inconclusive", TRUE, "accepted") \/ Advance(to)
  BY DEF TakeRun
<1>3. FreshEvent \in Event
  BY EventNamedOK DEF TypeOK, ProgressOK
<1> QED
  BY <1>1, <1>2, <1>3, HaltAccepted, AdvanceAccepted DEF InterruptReason, CallerReason, Answer

LEMMA RestoreAccepted ==
  ASSUME TypeOK, NEW source \in Source, Restore(source)
  PROVE  Accepted
<1>1. FreshEvent \in Event /\ phase \in RestorePhase
  BY EventNamedOK DEF TypeOK, ProgressOK, Restore
<1>2. CASE RestoreAndStop
  <2>1. Recorded(FreshEvent, "interrupted", FALSE, None, "accepted")
    BY <1>1, <1>2 DEF RestoreAndStop, Recorded, Halted, Terminal, RestorePhase
  <2> QED
    BY <1>1, <2>1 DEF Accepted, Answer, Phase, Terminal
<1>3. CASE RestoreAndHalt
  <2>1. HaltPhase(pending) \in Terminal /\ (steps < budget) \in BOOLEAN
    BY HaltPhaseOK
  <2>2. Recorded(FreshEvent, HaltPhase(pending), steps < budget, None, "accepted")
    BY <1>3, <2>1 DEF RestoreAndHalt, Recorded, Halted, Terminal
  <2> QED
    BY <1>1, <2>1, <2>2 DEF Accepted, Answer, Phase
<1>4. CASE RestoreAndGoOn
  BY <1>4, AdvanceAccepted DEF RestoreAndGoOn, Halted, Terminal, Phase
<1> QED
  BY <1>2, <1>3, <1>4 DEF Restore, RestoreTo

LEMMA ProgressAccepted ==
  ASSUME TypeOK, Progress
  PROVE  Accepted
<1> USE DEF Halted, Terminal, Phase
<1>1. CASE Size
  BY <1>1, AdvanceAccepted DEF Size, Admitted
<1>2. ASSUME NEW materials \in MaterialLock, NEW boundary \in Boundaries,
             Lock(materials, boundary)
      PROVE  Accepted
  BY <1>2, AdvanceAccepted DEF Lock, Admitted
<1>3. CASE InitialRed
  BY <1>3, TakeRunAccepted DEF InitialRed
<1>4. CASE Green
  BY <1>4, TakeRunAccepted DEF Green
<1>5. ASSUME NEW namespace, Quarantine(namespace) PROVE Accepted
  BY <1>5, AdvanceAccepted DEF Quarantine, Admitted
<1>6. ASSUME NEW before, NEW after, MutationApplied(before, after) PROVE Accepted
  BY <1>6, AdvanceAccepted DEF MutationApplied, Admitted
<1>7. CASE NegativeRed
  BY <1>7, TakeRunAccepted DEF NegativeRed
<1>8. ASSUME NEW source \in Source, Restore(source) PROVE Accepted
  BY <1>8, RestoreAccepted
<1>9. CASE Regreen
  BY <1>9, TakeRunAccepted DEF Regreen
<1>10. ASSUME NEW ids, EnumerateFindings(ids) PROVE Accepted
  BY <1>10, AdvanceAccepted DEF EnumerateFindings, Admitted
<1>11. ASSUME NEW record, DisposeFinding(record) PROVE Accepted
  BY <1>11, AdvanceAccepted DEF DisposeFinding, Admitted
<1>12. ASSUME NEW name, Seal(name) PROVE Accepted
  <2>1. /\ phase \notin Halted /\ steps < budget
        /\ Advance("superseded_by_successor") \/ Advance("complete")
    BY <1>12 DEF Seal, Admitted
  <2> QED
    BY <2>1, AdvanceAccepted
<1> QED
  BY <1>1, <1>2, <1>3, <1>4, <1>5, <1>6, <1>7, <1>8, <1>9, <1>10, <1>11, <1>12
  DEF Progress

\* A step of the cycle records an accepted event or leaves the snapshot alone.
LEMMA StepAccepts ==
  ASSUME TypeOK, [Next]_vars
  PROVE  Accepted \/ UNCHANGED snapshot
<1>1. CASE UNCHANGED vars
  BY <1>1 DEF vars
<1> QED
  BY <1>1, ProgressAccepted, FaultsAccepted, UnchangingSnapshot DEF Next

LEMMA SafetyTailStep ==
  ASSUME TypeOK, SafetyTail, [Next]_vars
  PROVE  SafetyTail'
<1>1. CASE Accepted
  <2>1. PICK event \in Event, to \in Phase, counted \in BOOLEAN,
             reason \in InterruptReason \cup {None}, code \in Answer :
               Recorded(event, to, counted, reason, code)
    BY <1>1 DEF Accepted
  <2>2. budget \in Nat /\ steps \in Nat /\ revision \in Nat
    BY BudgetAssumption DEF TypeOK, IdentityOK, ProgressOK
  <2>3. /\ phase' = to /\ revision' = revision + 1 /\ budget' = budget
        /\ steps' = IF counted THEN steps + 1 ELSE steps
        /\ Len(journal') = Len(journal) + 1
    BY <2>1 DEF Recorded, Commit, identity, TypeOK, ProgressOK
  <2>4. /\ phase \notin Terminal
        /\ counted => steps < budget
        /\ counted \/ to \in Halted
        /\ phase = "recovery_required" => to \in Terminal
    BY <2>1 DEF Recorded
  <2>5. "recovery_required" \notin Terminal
    BY DEF Terminal
  <2> QED
    BY <2>2, <2>3, <2>4, <2>5 DEF SafetyTail, Halted
<1>2. CASE UNCHANGED snapshot
  BY <1>2 DEF SafetyTail, snapshot, identity, progress
<1> QED
  BY <1>1, <1>2, StepAccepts

\* The journal never outgrows max_steps + 2 records, for every budget.
THEOREM RevisionIsBounded == Spec => []RevisionBounded
<1>1. Init => SafetyTail
  BY BudgetAssumption DEF Init, SafetyTail, Halted, Terminal
<1>2. TypeOK /\ SafetyTail => RevisionBounded
  <2>1. TypeOK => budget \in Nat /\ steps \in Nat /\ revision \in Nat
    BY BudgetAssumption DEF TypeOK, IdentityOK, ProgressOK
  <2> QED
    BY <2>1 DEF SafetyTail, RevisionBounded
<1> QED
  BY <1>1, <1>2, SafetyTailStep, TypeCorrect, PTL DEF Spec

\* A terminal snapshot is never rewritten: no step accepts an event in one.
THEOREM TerminalFinal == Spec => TerminalIsFinal
<1>1. TypeOK /\ [Next]_vars => [(phase \in Terminal) => UNCHANGED snapshot]_vars
  BY StepAccepts DEF Accepted, Recorded
<1> QED
  BY <1>1, TypeCorrect, PTL DEF Spec, TerminalIsFinal

-----------------------------------------------------------------------------
(* The source tree.                                                        *)

\* SourceRestored is about terminal phases only.  What carries it there: the flag is up
\* exactly in the phases a restoration is accepted in, the lock never moves once it is
\* taken, and a mutation is undone before the flag goes down.
MutationSafe ==
  /\ active <=> phase \in RestorePhase
  /\ phase \in {"init", "sized"} => mutated = None
  /\ phase \notin Terminal \cup {"init", "sized"} => lock # None
  /\ mutated # None =>
       /\ lock # None
       /\ mutated # lock.source
       /\ active \/ restored = lock.source

\* The phases a fault leads to: recovery with the mutation active, else a terminal phase
\* that is not a seal.
FaultMove ==
  \/ active /\ phase' = "recovery_required"
  \/ ~ active /\ phase' \in Terminal \ {"complete", "superseded_by_successor"}

LEMMA HaltMoves ==
  ASSUME NEW event, NEW reason, NEW counted, NEW code, Halt(event, reason, counted, code)
  PROVE  FaultMove
  BY HaltPhaseOK DEF Halt, Commit, FaultMove

LEMMA FaultsMove ==
  ASSUME Faults
  PROVE  /\ phase \notin Halted
         /\ FaultMove
         /\ UNCHANGED <<evidence, mutation, bite>>
<1>1. ASSUME NEW k, Collide(k)
      PROVE  phase \notin Halted /\ FaultMove /\ UNCHANGED <<evidence, mutation, bite>>
  BY <1>1, HaltMoves DEF Collide, Halted
<1>2. CASE ExhaustBudget
  BY <1>2, HaltMoves DEF ExhaustBudget, Halted
<1>3. ASSUME NEW reason, Interrupt(reason)
      PROVE  phase \notin Halted /\ FaultMove /\ UNCHANGED <<evidence, mutation, bite>>
  BY <1>3, HaltMoves DEF Interrupt, Admitted, Halted
<1> QED
  BY <1>1, <1>2, <1>3 DEF Faults

LEMMA TakeRunMoves ==
  ASSUME NEW kind, NEW from, NEW role, NEW to, TakeRun(kind, from, role, to)
  PROVE  /\ phase = from
         /\ FaultMove \/ phase' = to
         /\ UNCHANGED <<lock, mutation>>
<1>1. Halt(FreshEvent, "inconclusive", TRUE, "accepted") \/ Advance(to)
  BY DEF TakeRun
<1>2. FaultMove \/ phase' = to
  BY <1>1, HaltMoves DEF Advance, Commit
<1> QED
  BY <1>2 DEF TakeRun

\* The moves of a step as the source tree sees them.
Moves ==
  \/ /\ phase \notin Halted
     /\ FaultMove
     /\ UNCHANGED <<lock, mutation>>
  \/ /\ <<phase, phase'>> \in
          {<<"init", "sized">>, <<"locked", "initial_red_confirmed">>,
           <<"initial_red_confirmed", "green_confirmed">>,
           <<"green_confirmed", "quarantined">>,
           <<"mutation_active", "negative_red_confirmed">>,
           <<"restored", "regreen_confirmed">>, <<"regreen_confirmed", "bite_pending">>,
           <<"bite_pending", "bite_pending">>, <<"bite_pending", "complete">>,
           <<"bite_pending", "superseded_by_successor">>}
     /\ UNCHANGED <<lock, mutation>>
  \/ /\ phase = "sized" /\ phase' = "locked"
     /\ lock' \in MaterialLock
     /\ UNCHANGED mutation
  \/ /\ phase = "quarantined" /\ phase' = "mutation_active"
     /\ mutated' # lock.source /\ active'
     /\ UNCHANGED <<lock, restored>>
  \/ /\ phase \in RestorePhase
     /\ \/ phase = "negative_red_confirmed" /\ phase' = "restored"
        \/ phase' \in Terminal \ {"complete", "superseded_by_successor"}
     /\ active /\ ~ active' /\ restored' = lock.source
     /\ UNCHANGED <<lock, mutated>>

\* A restoration goes on after a negative run, and otherwise ends the cycle unsealed.
LEMMA RestoreGoes ==
  ASSUME NEW source, Restore(source)
  PROVE  \/ phase = "negative_red_confirmed" /\ phase' = "restored"
         \/ phase' \in Terminal \ {"complete", "superseded_by_successor"}
<1>1. CASE RestoreAndStop
  BY <1>1 DEF RestoreAndStop, Commit, Terminal
<1>2. CASE RestoreAndHalt
  BY <1>2, HaltPhaseOK DEF RestoreAndHalt, Commit
<1>3. CASE RestoreAndGoOn
  BY <1>3 DEF RestoreAndGoOn, Advance, Commit
<1> QED
  BY <1>1, <1>2, <1>3 DEF Restore, RestoreTo

LEMMA RestoreMoves ==
  ASSUME NEW source, Restore(source)
  PROVE  Moves
<1>1. /\ phase \in RestorePhase /\ active /\ ~ active' /\ restored' = lock.source
      /\ UNCHANGED <<lock, mutated>>
  BY DEF Restore, RestoreTo, evidence
<1>2. \/ phase = "negative_red_confirmed" /\ phase' = "restored"
      \/ phase' \in Terminal \ {"complete", "superseded_by_successor"}
  BY RestoreGoes
<1> QED
  BY <1>1, <1>2 DEF Moves

LEMMA ProgressMoves ==
  ASSUME Progress
  PROVE  Moves
<1> USE DEF Moves, Advance, Commit, mutation, evidence
<1>1. CASE Size
  BY <1>1 DEF Size
<1>2. ASSUME NEW materials \in MaterialLock, NEW boundary, Lock(materials, boundary)
      PROVE  Moves
  BY <1>2 DEF Lock
<1>3. CASE InitialRed
  BY <1>3, TakeRunMoves DEF InitialRed, Halted, Terminal
<1>4. CASE Green
  BY <1>4, TakeRunMoves DEF Green, Halted, Terminal
<1>5. ASSUME NEW namespace, Quarantine(namespace) PROVE Moves
  BY <1>5 DEF Quarantine
<1>6. ASSUME NEW before, NEW after, MutationApplied(before, after) PROVE Moves
  BY <1>6 DEF MutationApplied
<1>7. CASE NegativeRed
  BY <1>7, TakeRunMoves DEF NegativeRed, Halted, Terminal
<1>8. ASSUME NEW source, Restore(source) PROVE Moves
  BY <1>8, RestoreMoves
<1>9. CASE Regreen
  BY <1>9, TakeRunMoves DEF Regreen, Halted, Terminal
<1>10. ASSUME NEW ids, EnumerateFindings(ids) PROVE Moves
  BY <1>10 DEF EnumerateFindings
<1>11. ASSUME NEW record, DisposeFinding(record) PROVE Moves
  BY <1>11 DEF DisposeFinding
<1>12. ASSUME NEW name, Seal(name) PROVE Moves
  BY <1>12 DEF Seal
<1> QED
  BY <1>1, <1>2, <1>3, <1>4, <1>5, <1>6, <1>7, <1>8, <1>9, <1>10, <1>11, <1>12
  DEF Progress

LEMMA StepMoves ==
  ASSUME [Next]_vars
  PROVE  Moves \/ UNCHANGED snapshot
<1>1. CASE UNCHANGED vars
  BY <1>1 DEF vars
<1>2. CASE Faults
  BY <1>2, FaultsMove DEF Moves, evidence
<1> QED
  BY <1>1, <1>2, ProgressMoves, UnchangingSnapshot DEF Next

LEMMA MutationSafeStep ==
  ASSUME MutationSafe, [Next]_vars
  PROVE  MutationSafe'
<1>1. CASE Moves
  BY <1>1, NameAssumption
  DEF Moves, FaultMove, MutationSafe, RestorePhase, Halted, Terminal, mutation
<1>2. CASE UNCHANGED snapshot
  BY <1>2 DEF MutationSafe, RestorePhase, Terminal, snapshot, progress, mutation, evidence
<1> QED
  BY <1>1, <1>2, StepMoves

\* Every cycle that ends leaves the locked source in the tree.
THEOREM SourceIsRestored == Spec => []SourceRestored
<1>1. Init => MutationSafe
  BY DEF Init, MutationSafe, RestorePhase, Terminal
<1>2. TypeOK /\ MutationSafe => SourceRestored
  BY DEF TypeOK, FaultOK, MutationSafe, SourceRestored, RestorePhase, Terminal
<1> QED
  BY <1>1, <1>2, MutationSafeStep, TypeCorrect, PTL DEF Spec

\* The cycle implements the abstract contract on the source tree.
THEOREM Implements == Spec => ImplementsSafety
<1>1. Init => Safety!Init
  BY DEF Init, Safety!Init, stage, tree, Sealed, Terminal
<1>2. Init => MutationSafe
  BY DEF Init, MutationSafe, RestorePhase, Terminal
<1>3. MutationSafe /\ [Next]_vars => [Safety!Next]_(Safety!vars)
  <2> SUFFICES ASSUME MutationSafe, [Next]_vars PROVE [Safety!Next]_(Safety!vars)
    OBVIOUS
  <2>1. CASE Moves
    BY <2>1
    DEF Moves, FaultMove, MutationSafe, RestorePhase, Halted, Terminal, Sealed, mutation,
        stage, tree, Safety!Next, Safety!vars, Safety!Mutate, Safety!Challenge,
        Safety!Restore, Safety!HandOver, Safety!Close, Safety!Seal
  <2>2. CASE UNCHANGED snapshot
    BY <2>2 DEF snapshot, progress, mutation, stage, tree, Sealed, Safety!vars
  <2> QED
    BY <2>1, <2>2, StepMoves
<1> QED
  BY <1>1, <1>2, <1>3, MutationSafeStep, PTL DEF Spec, ImplementsSafety, Safety!Spec

-----------------------------------------------------------------------------
(* The cause of a halt.                                                    *)

Asked == {f \in effects : f.kind = "restore_required"}

\* Up to a fault no restoration has been asked for; from then on there is one request,
\* and its reason travels from pending to halt.
CauseKept ==
  /\ phase \notin Halted => Asked = {}
  /\ FirstCauseKept

\* What a step does to the requests: none is made, the first is made on the way into
\* recovery, or the pending reason takes effect.
Causes ==
  \/ phase \notin Halted /\ phase' # "recovery_required" /\ Asked' = Asked
  \/ /\ phase \notin Halted /\ phase' = "recovery_required"
     /\ \E f : f.reason = pending' /\ Asked' = Asked \cup {f}
  \/ /\ phase = "recovery_required" /\ phase' = HaltPhase(pending) /\ halt' = pending
     /\ Asked' = Asked

LEMMA CommitAsks ==
  ASSUME NEW event, NEW to, NEW counted, NEW reason, NEW code,
         Commit(event, to, counted, reason, code)
  PROVE  /\ reason = None => Asked' = Asked
         /\ reason # None =>
              Asked' = Asked \cup {Effect(event, "restore_required", reason)}
  BY DEF Commit, Asked, Effect

LEMMA AdvanceCauses ==
  ASSUME NEW to, to # "recovery_required", Advance(to), phase \notin Halted
  PROVE  Causes
<1>1. Asked' = Asked /\ phase' = to
  BY CommitAsks DEF Advance, Commit
<1> QED
  BY <1>1 DEF Causes

LEMMA HaltCauses ==
  ASSUME NEW event, NEW reason \in InterruptReason, NEW counted, NEW code,
         Halt(event, reason, counted, code), phase \notin Halted
  PROVE  Causes
<1>1. CASE active
  <2>1. /\ Commit(event, "recovery_required", counted, reason, code)
        /\ pending' = reason /\ reason # None
    BY <1>1, NameAssumption DEF Halt
  <2>2. /\ phase' = "recovery_required"
        /\ Asked' = Asked \cup {Effect(event, "restore_required", reason)}
    BY <2>1, CommitAsks DEF Commit
  <2>3. Effect(event, "restore_required", reason).reason = pending'
    BY <2>1 DEF Effect
  <2> QED
    BY <2>2, <2>3 DEF Causes
<1>2. CASE ~ active
  <2>1. Commit(event, HaltPhase(reason), counted, None, code)
    BY <1>2 DEF Halt
  <2>2. phase' = HaltPhase(reason) /\ Asked' = Asked
    BY <2>1, CommitAsks DEF Commit
  <2>3. HaltPhase(reason) # "recovery_required"
    BY HaltPhaseOK DEF Terminal
  <2> QED
    BY <2>2, <2>3 DEF Causes
<1> QED
  BY <1>1, <1>2

LEMMA FaultsCause ==
  ASSUME Faults
  PROVE  Causes
<1> USE DEF InterruptReason, Halted
<1>1. ASSUME NEW k, Collide(k) PROVE Causes
  BY <1>1, HaltCauses DEF Collide
<1>2. CASE ExhaustBudget
  BY <1>2, HaltCauses DEF ExhaustBudget
<1>3. ASSUME NEW reason \in CallerReason, Interrupt(reason) PROVE Causes
  BY <1>3, HaltCauses DEF Interrupt, Admitted
<1> QED
  BY <1>1, <1>2, <1>3 DEF Faults

LEMMA TakeRunCauses ==
  ASSUME NEW kind, NEW from, from \notin Halted, NEW role, NEW to,
         to # "recovery_required", TakeRun(kind, from, role, to)
  PROVE  Causes
  BY HaltCauses, AdvanceCauses DEF TakeRun, InterruptReason, CallerReason

LEMMA RestoreCauses ==
  ASSUME NEW source, Restore(source)
  PROVE  Causes
<1>1. phase \notin Terminal
  BY DEF Restore, Admitted
<1>2. CASE RestoreAndStop
  <2>1. Asked' = Asked /\ phase' = "interrupted" /\ phase # "recovery_required"
    BY <1>2, CommitAsks DEF RestoreAndStop, Commit
  <2> QED
    BY <1>1, <2>1 DEF Causes, Halted
<1>3. CASE RestoreAndHalt
  <2>1. Asked' = Asked
    BY <1>3, CommitAsks DEF RestoreAndHalt
  <2> QED
    BY <1>3, <2>1 DEF RestoreAndHalt, Commit, Causes
<1>4. CASE RestoreAndGoOn
  BY <1>4, AdvanceCauses DEF RestoreAndGoOn, Halted, Terminal
<1> QED
  BY <1>2, <1>3, <1>4 DEF Restore, RestoreTo

LEMMA ProgressCauses ==
  ASSUME Progress
  PROVE  Causes
<1> USE DEF Halted, Terminal
<1>1. CASE Size
  BY <1>1, AdvanceCauses DEF Size
<1>2. ASSUME NEW materials, NEW boundary, Lock(materials, boundary) PROVE Causes
  BY <1>2, AdvanceCauses DEF Lock
<1>3. CASE InitialRed
  BY <1>3, TakeRunCauses DEF InitialRed
<1>4. CASE Green
  BY <1>4, TakeRunCauses DEF Green
<1>5. ASSUME NEW namespace, Quarantine(namespace) PROVE Causes
  BY <1>5, AdvanceCauses DEF Quarantine
<1>6. ASSUME NEW before, NEW after, MutationApplied(before, after) PROVE Causes
  BY <1>6, AdvanceCauses DEF MutationApplied
<1>7. CASE NegativeRed
  BY <1>7, TakeRunCauses DEF NegativeRed
<1>8. ASSUME NEW source, Restore(source) PROVE Causes
  BY <1>8, RestoreCauses
<1>9. CASE Regreen
  BY <1>9, TakeRunCauses DEF Regreen
<1>10. ASSUME NEW ids, EnumerateFindings(ids) PROVE Causes
  BY <1>10, AdvanceCauses DEF EnumerateFindings
<1>11. ASSUME NEW record, DisposeFinding(record) PROVE Causes
  BY <1>11, AdvanceCauses DEF DisposeFinding
<1>12. ASSUME NEW name, Seal(name) PROVE Causes
  BY <1>12, AdvanceCauses DEF Seal
<1> QED
  BY <1>1, <1>2, <1>3, <1>4, <1>5, <1>6, <1>7, <1>8, <1>9, <1>10, <1>11, <1>12
  DEF Progress

LEMMA CauseKeptStep ==
  ASSUME CauseKept, [Next]_vars
  PROVE  CauseKept'
<1>1. Causes \/ UNCHANGED snapshot
  BY FaultsCause, ProgressCauses, UnchangingSnapshot DEF Next, vars
<1>2. CASE UNCHANGED snapshot
  BY <1>2 DEF CauseKept, FirstCauseKept, Asked, Halted, HaltPhase, snapshot, progress, fault
<1>3. CASE Causes
  <2>1. \A f : f \in Asked <=> f \in effects /\ f.kind = "restore_required"
    BY DEF Asked
  <2>2. \A f : f \in Asked' <=> f \in effects' /\ f.kind = "restore_required"
    BY DEF Asked
  <2>3. CASE phase \notin Halted /\ phase' # "recovery_required" /\ Asked' = Asked
    BY <2>2, <2>3 DEF CauseKept, FirstCauseKept
  <2>4. CASE /\ phase \notin Halted /\ phase' = "recovery_required"
             /\ \E f : f.reason = pending' /\ Asked' = Asked \cup {f}
    BY <2>2, <2>4 DEF CauseKept, FirstCauseKept, Halted, Terminal
  <2>5. CASE /\ phase = "recovery_required" /\ phase' = HaltPhase(pending)
             /\ halt' = pending /\ Asked' = Asked
    <3>1. phase' \in Terminal /\ phase' # "recovery_required"
      BY <2>5, HaltPhaseOK DEF Terminal
    <3> QED
      BY <2>1, <2>2, <2>5, <3>1 DEF CauseKept, FirstCauseKept, Halted, HaltPhase
  <2> QED
    BY <1>3, <2>3, <2>4, <2>5 DEF Causes
<1> QED
  BY <1>1, <1>2, <1>3

\* The reason of the first fault during a mutation is the reason of the halt.
THEOREM FirstCauseIsKept == Spec => []FirstCauseKept
<1>1. Init => CauseKept
  BY DEF Init, CauseKept, FirstCauseKept, Asked
<1>2. CauseKept => FirstCauseKept
  BY DEF CauseKept
<1> QED
  BY <1>1, <1>2, CauseKeptStep, PTL DEF Spec

-----------------------------------------------------------------------------
(* The journal.                                                            *)

\* The record k is of a collision: the cycle is on its way out, or out.
Collided(k) ==
  /\ journal[k].to \in {"recovery_required", "identity_conflict"}
  /\ \/ /\ Len(journal) = k
        /\ \/ phase = "recovery_required" /\ pending = "identity_conflict"
           \/ phase = "identity_conflict" /\ halt = "identity_conflict"
     \/ Len(journal) = k + 1 /\ phase = "identity_conflict" /\ halt = "identity_conflict"

\* An event that is new is named by its position, so an ID that is not its record's
\* position has been used before.
NamesKept ==
  \A k \in DOMAIN journal :
    /\ journal[k].id \in 1 .. k /\ journal[k].intent = k
    /\ journal[k].id # k => Collided(k)

EffectsOf(k) == {f \in effects : f.intent = k}

\* What the commit of the record k emitted.
Emitted(k, reason) ==
  {[id |-> journal[k].id, intent |-> k, kind |-> "record_transition", reason |-> None]}
    \cup (IF journal[k].to = "recovery_required"
          THEN {[id |-> journal[k].id, intent |-> k, kind |-> "restore_required",
                 reason |-> reason]}
          ELSE {})

EffectsKept ==
  /\ \A k \in DOMAIN journal :
       \E reason \in InterruptReason \cup {None} : EffectsOf(k) = Emitted(k, reason)
  /\ \A f \in effects : f.intent \in DOMAIN journal

\* Every accepted event takes the next name, or is a collision; and it asks for a
\* restoration exactly on the way into recovery.
Named(event, to, reason) ==
  /\ event.intent = Len(journal) + 1
  /\ phase \notin Terminal
  /\ reason # None <=> to = "recovery_required"
  /\ \/ /\ event.id = Len(journal) + 1
        /\ phase = "recovery_required" => to = HaltPhase(pending) /\ halt' = pending
     \/ /\ \E k \in DOMAIN journal : event.id = journal[k].id
        /\ phase \notin Halted
        /\ \/ to = "recovery_required" /\ pending' = "identity_conflict"
           \/ to = "identity_conflict" /\ halt' = "identity_conflict"

Journalled ==
  \E event \in Event, to \in Phase, counted \in BOOLEAN,
     reason \in InterruptReason \cup {None}, code \in Answer :
    Commit(event, to, counted, reason, code) /\ Named(event, to, reason)

LEMMA FreshIsNamed ==
  ASSUME TypeOK
  PROVE  /\ FreshEvent \in Event
         /\ FreshEvent.id = Len(journal) + 1 /\ FreshEvent.intent = Len(journal) + 1
<1>1. Len(journal) \in Nat
  BY DEF TypeOK, ProgressOK
<1> QED
  BY <1>1, EventNamedOK DEF FreshEvent, EventNamed

LEMMA AdvanceJournals ==
  ASSUME TypeOK, NEW to \in Phase \ {"recovery_required"}, Advance(to), phase \notin Halted
  PROVE  Journalled
<1>1. Commit(FreshEvent, to, TRUE, None, "accepted")
  BY DEF Advance
<1>2. Named(FreshEvent, to, None)
  BY FreshIsNamed DEF Named, Halted
<1> QED
  BY <1>1, <1>2, FreshIsNamed DEF Journalled, Answer

LEMMA HaltJournals ==
  ASSUME TypeOK, NEW event \in Event, NEW reason \in InterruptReason,
         NEW counted \in BOOLEAN, NEW code \in Answer, phase \notin Halted,
         Halt(event, reason, counted, code),
         event.intent = Len(journal) + 1,
         \/ event.id = Len(journal) + 1
         \/ /\ \E k \in DOMAIN journal : event.id = journal[k].id
            /\ reason = "identity_conflict"
  PROVE  Journalled
<1>1. CASE active
  <2>1. /\ Commit(event, "recovery_required", counted, reason, code)
        /\ pending' = reason /\ reason # None
    BY <1>1, NameAssumption DEF Halt
  <2>2. Named(event, "recovery_required", reason)
    BY <2>1 DEF Named, Halted
  <2> QED
    BY <2>1, <2>2 DEF Journalled, Phase
<1>2. CASE ~ active
  <2>1. Commit(event, HaltPhase(reason), counted, None, code) /\ halt' = reason
    BY <1>2 DEF Halt
  <2>2. HaltPhase(reason) \in Phase /\ HaltPhase(reason) # "recovery_required"
    BY HaltPhaseOK DEF Phase, Terminal
  <2>3. Named(event, HaltPhase(reason), None)
    BY <2>1, <2>2 DEF Named, Halted, HaltPhase
  <2> QED
    BY <2>1, <2>2, <2>3 DEF Journalled
<1> QED
  BY <1>1, <1>2

LEMMA FaultsJournal ==
  ASSUME TypeOK, Faults
  PROVE  Journalled
<1> USE DEF InterruptReason, Halted, Answer
<1>1. ASSUME NEW k \in DOMAIN journal, Collide(k) PROVE Journalled
  <2>1. EventNamed(journal[k].id) \in Event /\ (steps < budget) \in BOOLEAN
    BY ReusedEventOK
  <2>2. /\ EventNamed(journal[k].id).id = journal[k].id
        /\ EventNamed(journal[k].id).intent = Len(journal) + 1
    BY DEF EventNamed
  <2> QED
    BY <1>1, <2>1, <2>2, HaltJournals DEF Collide
<1>2. CASE ExhaustBudget
  BY <1>2, FreshIsNamed, HaltJournals DEF ExhaustBudget
<1>3. ASSUME NEW reason \in CallerReason, Interrupt(reason) PROVE Journalled
  BY <1>3, FreshIsNamed, HaltJournals DEF Interrupt, Admitted
<1> QED
  BY <1>1, <1>2, <1>3 DEF Faults

LEMMA TakeRunJournals ==
  ASSUME TypeOK, NEW kind, NEW from \in Phase \ Halted, NEW role,
         NEW to \in Phase \ {"recovery_required"}, TakeRun(kind, from, role, to)
  PROVE  Journalled
<1>1. phase \notin Halted
  BY DEF TakeRun
<1>2. Halt(FreshEvent, "inconclusive", TRUE, "accepted") \/ Advance(to)
  BY DEF TakeRun
<1> QED
  BY <1>1, <1>2, FreshIsNamed, HaltJournals, AdvanceJournals
  DEF InterruptReason, CallerReason, Answer

LEMMA RestoreJournals ==
  ASSUME TypeOK, NEW source, Restore(source)
  PROVE  Journalled
<1> USE FreshIsNamed
<1>1. phase \notin Terminal
  BY DEF Restore, Admitted
<1>2. CASE RestoreAndStop
  <2>1. Named(FreshEvent, "interrupted", None)
    BY <1>1, <1>2 DEF RestoreAndStop, Named
  <2> QED
    BY <1>2, <2>1 DEF RestoreAndStop, Journalled, Answer, Phase, Terminal
<1>3. CASE RestoreAndHalt
  <2>1. HaltPhase(pending) \in Phase /\ HaltPhase(pending) # "recovery_required"
    BY HaltPhaseOK DEF Phase, Terminal
  <2>2. Named(FreshEvent, HaltPhase(pending), None)
    BY <1>1, <1>3, <2>1 DEF RestoreAndHalt, Named
  <2>3. (steps < budget) \in BOOLEAN
    OBVIOUS
  <2> QED
    BY <1>3, <2>1, <2>2, <2>3 DEF RestoreAndHalt, Journalled, Answer
<1>4. CASE RestoreAndGoOn
  BY <1>4, AdvanceJournals DEF RestoreAndGoOn, Halted, Terminal, Phase
<1> QED
  BY <1>2, <1>3, <1>4 DEF Restore, RestoreTo

LEMMA ProgressJournals ==
  ASSUME TypeOK, Progress
  PROVE  Journalled
<1> USE DEF Halted, Terminal, Phase
<1>1. CASE Size
  BY <1>1, AdvanceJournals DEF Size
<1>2. ASSUME NEW materials, NEW boundary, Lock(materials, boundary) PROVE Journalled
  BY <1>2, AdvanceJournals DEF Lock
<1>3. CASE InitialRed
  BY <1>3, TakeRunJournals DEF InitialRed
<1>4. CASE Green
  BY <1>4, TakeRunJournals DEF Green
<1>5. ASSUME NEW namespace, Quarantine(namespace) PROVE Journalled
  BY <1>5, AdvanceJournals DEF Quarantine
<1>6. ASSUME NEW before, NEW after, MutationApplied(before, after) PROVE Journalled
  BY <1>6, AdvanceJournals DEF MutationApplied
<1>7. CASE NegativeRed
  BY <1>7, TakeRunJournals DEF NegativeRed
<1>8. ASSUME NEW source, Restore(source) PROVE Journalled
  BY <1>8, RestoreJournals
<1>9. CASE Regreen
  BY <1>9, TakeRunJournals DEF Regreen
<1>10. ASSUME NEW ids, EnumerateFindings(ids) PROVE Journalled
  BY <1>10, AdvanceJournals DEF EnumerateFindings
<1>11. ASSUME NEW record, DisposeFinding(record) PROVE Journalled
  BY <1>11, AdvanceJournals DEF DisposeFinding
<1>12. ASSUME NEW name, Seal(name) PROVE Journalled
  <2>1. phase = "bite_pending" /\ (Advance("superseded_by_successor") \/ Advance("complete"))
    BY <1>12 DEF Seal
  <2> QED
    BY <2>1, AdvanceJournals
<1> QED
  BY <1>1, <1>2, <1>3, <1>4, <1>5, <1>6, <1>7, <1>8, <1>9, <1>10, <1>11, <1>12
  DEF Progress

\* What a commit does to the journal and to the effects.
LEMMA CommitJournals ==
  ASSUME TypeOK, NEW event \in Event, NEW to \in Phase, NEW counted, NEW reason, NEW code,
         Commit(event, to, counted, reason, code)
  PROVE  LET n == Len(journal)
         IN /\ n \in Nat /\ DOMAIN journal = 1 .. n
            /\ Len(journal') = n + 1 /\ DOMAIN journal' = 1 .. n + 1
            /\ \A k \in 1 .. n : journal'[k] = journal[k]
            /\ journal'[n + 1] = [id |-> event.id, intent |-> event.intent,
                                  from |-> phase, to |-> to]
            /\ phase' = to
<1>1. journal \in Seq(EventRecord)
  BY DEF TypeOK, ProgressOK
<1>2. [id |-> event.id, intent |-> event.intent, from |-> phase, to |-> to] \in EventRecord
  BY DEF EventRecord, Event, TypeOK, ProgressOK
<1>3. /\ phase' = to
      /\ journal' = Append(journal, [id |-> event.id, intent |-> event.intent,
                                     from |-> phase, to |-> to])
  BY DEF Commit
<1> HIDE DEF TypeOK
<1> QED
  BY <1>1, <1>2, <1>3

LEMMA NamesStep ==
  ASSUME TypeOK, NamesKept, Journalled
  PROVE  NamesKept'
<1>0. PICK n \in Nat : n = Len(journal)
  BY DEF TypeOK, ProgressOK
<1>1. PICK event \in Event, to \in Phase, counted \in BOOLEAN,
           reason \in InterruptReason \cup {None}, code \in Answer :
             Commit(event, to, counted, reason, code) /\ Named(event, to, reason)
  BY DEF Journalled
<1>2. /\ n \in Nat /\ DOMAIN journal = 1 .. n
      /\ Len(journal') = n + 1 /\ DOMAIN journal' = 1 .. n + 1
      /\ \A k \in 1 .. n : journal'[k] = journal[k]
      /\ journal'[n + 1] = [id |-> event.id, intent |-> event.intent,
                            from |-> phase, to |-> to]
      /\ phase' = to
  BY <1>0, <1>1, CommitJournals
<1>3. ASSUME NEW k \in 1 .. n
      PROVE  /\ journal'[k].id \in 1 .. k /\ journal'[k].intent = k
             /\ journal'[k].id # k => Collided(k)'
  <2>1. journal'[k].id \in 1 .. k /\ journal'[k].intent = k
    BY <1>2 DEF NamesKept
  <2>2. ASSUME journal'[k].id # k
        PROVE  Collided(k)'
    <3>1. Collided(k) /\ phase \notin Terminal
      BY <1>1, <1>2, <2>2 DEF NamesKept, Named
    <3>2. n = k /\ phase = "recovery_required" /\ pending = "identity_conflict"
      BY <1>0, <3>1 DEF Collided, Terminal
    <3>3. to = "identity_conflict" /\ halt' = "identity_conflict"
      BY <1>1, <3>2 DEF Named, HaltPhase, Halted
    <3> QED
      BY <1>2, <3>1, <3>2, <3>3 DEF Collided
  <2> QED
    BY <2>1, <2>2
<1>4. /\ journal'[n + 1].id \in 1 .. n + 1 /\ journal'[n + 1].intent = n + 1
      /\ journal'[n + 1].id # n + 1 => Collided(n + 1)'
  <2>1. journal'[n + 1].id = event.id /\ journal'[n + 1].intent = n + 1
        /\ journal'[n + 1].to = to
    BY <1>0, <1>1, <1>2 DEF Named
  <2>2. CASE event.id = n + 1
    BY <1>2, <2>1, <2>2
  <2>3. CASE /\ \E k \in DOMAIN journal : event.id = journal[k].id
             /\ \/ to = "recovery_required" /\ pending' = "identity_conflict"
                \/ to = "identity_conflict" /\ halt' = "identity_conflict"
    <3>1. event.id \in 1 .. n + 1
      <4>1. PICK k \in 1 .. n : event.id = journal[k].id
        BY <1>2, <2>3
      <4>2. journal[k].id \in 1 .. k
        BY <1>2 DEF NamesKept
      <4> QED
        BY <1>2, <4>1, <4>2
    <3>2. Collided(n + 1)'
      BY <1>2, <2>1, <2>3 DEF Collided
    <3> QED
      BY <2>1, <3>1, <3>2
  <2> QED
    BY <1>0, <1>1, <2>2, <2>3 DEF Named
<1> QED
  BY <1>2, <1>3, <1>4 DEF NamesKept

LEMMA EffectsStep ==
  ASSUME TypeOK, EffectsKept, Journalled
  PROVE  EffectsKept'
<1>0. PICK n \in Nat : n = Len(journal)
  BY DEF TypeOK, ProgressOK
<1>1. PICK event \in Event, to \in Phase, counted \in BOOLEAN,
           reason \in InterruptReason \cup {None}, code \in Answer :
             Commit(event, to, counted, reason, code) /\ Named(event, to, reason)
  BY DEF Journalled
<1>2. /\ n \in Nat /\ DOMAIN journal = 1 .. n /\ DOMAIN journal' = 1 .. n + 1
      /\ \A k \in 1 .. n : journal'[k] = journal[k]
      /\ journal'[n + 1].id = event.id /\ journal'[n + 1].to = to
      /\ event.intent = n + 1
  <2>1. /\ DOMAIN journal = 1 .. n /\ DOMAIN journal' = 1 .. n + 1
        /\ \A k \in 1 .. n : journal'[k] = journal[k]
        /\ journal'[n + 1] = [id |-> event.id, intent |-> event.intent,
                              from |-> phase, to |-> to]
    BY <1>0, <1>1, CommitJournals
  <2>2. event.intent = n + 1
    BY <1>0, <1>1 DEF Named
  <2> QED
    BY <2>1, <2>2
<1> DEFINE new == {Effect(event, "record_transition", None)} \cup
                    (IF reason = None THEN {}
                     ELSE {Effect(event, "restore_required", reason)})
<1>3. effects' = effects \cup new
  BY <1>1 DEF Commit
<1>4. \A f \in new : f.intent = n + 1
  BY <1>2 DEF Effect
<1>5. \A f \in effects : f.intent \in 1 .. n
  BY <1>2 DEF EffectsKept
<1>6. new = Emitted(n + 1, reason)'
  BY <1>1, <1>2 DEF Emitted, Effect, Named
<1> HIDE DEF new
<1>7. EffectsOf(n + 1)' = new
  BY <1>2, <1>3, <1>4, <1>5 DEF EffectsOf
<1>8. ASSUME NEW k \in 1 .. n
      PROVE  \E why \in InterruptReason \cup {None} : EffectsOf(k)' = Emitted(k, why)'
  <2>1. EffectsOf(k)' = EffectsOf(k)
    BY <1>2, <1>3, <1>4 DEF EffectsOf
  <2>2. PICK why \in InterruptReason \cup {None} : EffectsOf(k) = Emitted(k, why)
    BY <1>2 DEF EffectsKept
  <2>3. Emitted(k, why)' = Emitted(k, why)
    BY <1>2 DEF Emitted
  <2> QED
    BY <2>1, <2>2, <2>3
<1>9. \A f \in effects' : f.intent \in DOMAIN journal'
  BY <1>2, <1>3, <1>4, <1>5
<1>10. \A k \in 1 .. n + 1 :
         \E why \in InterruptReason \cup {None} : EffectsOf(k)' = Emitted(k, why)'
  BY <1>2, <1>6, <1>7, <1>8
<1> QED
  BY <1>2, <1>9, <1>10 DEF EffectsKept

LEMMA JournalStep ==
  ASSUME TypeOK, NamesKept, EffectsKept, [Next]_vars
  PROVE  NamesKept' /\ EffectsKept'
<1>1. Journalled \/ UNCHANGED snapshot
  BY FaultsJournal, ProgressJournals, UnchangingSnapshot DEF Next, vars
<1>2. CASE UNCHANGED snapshot
  BY <1>2 DEF NamesKept, EffectsKept, EffectsOf, Emitted, Collided, snapshot, progress, fault
<1> QED
  BY <1>1, <1>2, NamesStep, EffectsStep

-----------------------------------------------------------------------------
(* What a caller was told.                                                 *)

\* The answer to the last call, as long as it was a refused restoration.
RefusalKept ==
  /\ reply # "no_active_mutation"
  /\ reply = "restore_requires_negative_red" => phase = "mutation_active" /\ steps < budget

LEMMA RefusalStep ==
  ASSUME TypeOK, MutationSafe, RefusalKept, [Next]_vars
  PROVE  RefusalKept'
<1>1. CASE Accepted
  <2>1. reply' \in Answer
    BY <1>1 DEF Accepted, Recorded, Commit
  <2> QED
    BY <2>1 DEF Answer, RefusalKept
<1>2. CASE Unchanging
  <2>1. UNCHANGED <<phase, steps, budget>>
    BY <1>2, UnchangingSnapshot DEF snapshot, progress, identity
  <2>2. CASE RejectRestore
    BY <2>1, <2>2 DEF RejectRestore, Reject, RefusalKept, MutationSafe
  <2>3. CASE ~ RejectRestore
    <3>1. reply' \in {"replayed", "cycle_identity_mismatch", "terminal_state",
                      "recovery_requires_restore", "event_identity_conflict_during_recovery",
                      "invalid_payload", "invalid_transition"}
      BY <1>2, <2>3
      DEF Unchanging, Replay, Reject, RejectForeign, RejectTerminal, RejectDuringRecovery,
          RejectPayload, RejectTransition
    <3> QED
      BY <3>1 DEF RefusalKept
  <2> QED
    BY <2>2, <2>3
<1>3. CASE UNCHANGED vars
  BY <1>3 DEF vars, snapshot, progress, identity, RefusalKept
<1> QED
  BY <1>1, <1>2, <1>3, ProgressAccepted, FaultsAccepted DEF Next

AnswersKept == NamesKept /\ EffectsKept /\ RefusalKept

LEMMA AnswersStep ==
  ASSUME TypeOK, MutationSafe, AnswersKept, [Next]_vars
  PROVE  AnswersKept'
BY JournalStep, RefusalStep DEF AnswersKept

LEMMA ConflictFromNames ==
  ASSUME TypeOK, NamesKept
  PROVE  OneIdentityConflict
<1> SUFFICES ASSUME NEW j \in DOMAIN journal, NEW k \in DOMAIN journal,
                    j < k, journal[j].id = journal[k].id
             PROVE  /\ Len(journal) <= k + 1
                    /\ journal[k].to \in {"recovery_required", "identity_conflict"}
                    /\ phase \in Terminal =>
                         phase = "identity_conflict" /\ halt = "identity_conflict"
  BY DEF OneIdentityConflict
<1>1. j \in Nat /\ k \in Nat /\ Len(journal) \in Nat
  BY DEF TypeOK, ProgressOK
<1>2. journal[j].id \in 1 .. j
  BY DEF NamesKept
<1>3. journal[k].id # k
  BY <1>1, <1>2
<1>4. Collided(k)
  BY <1>3 DEF NamesKept
<1> QED
  BY <1>1, <1>4 DEF Collided, Terminal

LEMMA ReplayFromEffects ==
  ASSUME NamesKept, EffectsKept
  PROVE  ReplayReturnsOriginal
<1> SUFFICES ASSUME NEW k \in DOMAIN journal
             PROVE  /\ {f.kind : f \in ReplayedEffects(k)} =
                         {"record_transition"} \cup
                         (IF journal[k].to = "recovery_required" THEN {"restore_required"}
                          ELSE {})
                    /\ \A f, g \in ReplayedEffects(k) : f.kind = g.kind => f = g
  BY DEF ReplayReturnsOriginal
<1>1. PICK reason \in InterruptReason \cup {None} : EffectsOf(k) = Emitted(k, reason)
  BY DEF EffectsKept
<1>2. ReplayedEffects(k) = Emitted(k, reason)
  <2>1. ReplayedEffects(k) = {f \in EffectsOf(k) : f.id = journal[k].id}
    BY DEF ReplayedEffects, EffectsOf, NamesKept
  <2>2. \A f \in Emitted(k, reason) : f.id = journal[k].id
    BY DEF Emitted
  <2> QED
    BY <1>1, <2>1, <2>2
<1>3. CASE journal[k].to = "recovery_required"
  BY <1>2, <1>3 DEF Emitted
<1>4. CASE journal[k].to # "recovery_required"
  BY <1>2, <1>4 DEF Emitted
<1> QED
  BY <1>3, <1>4

\* An event ID stands for one event, an exact replay gets what the event was answered with,
\* and a refused restoration leaves the interrupt that makes it acceptable.
THEOREM WhatWasAnsweredHolds == Spec => []AnswersHold
<1>1. Init => AnswersKept /\ MutationSafe
  BY DEF Init, AnswersKept, NamesKept, EffectsKept, RefusalKept, MutationSafe, RestorePhase,
         Terminal
<1>2. TypeOK /\ MutationSafe /\ AnswersKept => AnswersHold
  <2> SUFFICES ASSUME TypeOK, MutationSafe, AnswersKept
               PROVE  AnswersHold
    OBVIOUS
  <2>1. RefusedRestoreHasAWayOut
    BY DEF AnswersKept, RefusalKept, MutationSafe, RefusedRestoreHasAWayOut, Admitted,
           RestorePhase, Terminal
  <2> QED
    BY <2>1, ConflictFromNames, ReplayFromEffects DEF AnswersKept, AnswersHold
<1>3. TypeOK /\ MutationSafe /\ AnswersKept /\ [Next]_vars
        => MutationSafe' /\ AnswersKept'
  BY AnswersStep, MutationSafeStep
<1> QED
  BY <1>1, <1>2, <1>3, TypeCorrect, PTL DEF Spec

-----------------------------------------------------------------------------
(* The phases that lead to a seal.                                         *)

Course == (Phase \ Halted) \cup {"complete", "superseded_by_successor"}

\* How many of the four runs are due by the phase p, and the role of each.
RunsDue(p) ==
  IF p \in {"init", "sized", "locked"} THEN 0
  ELSE IF p = "initial_red_confirmed" THEN 1
  ELSE IF p \in {"green_confirmed", "quarantined", "mutation_active"} THEN 2
  ELSE IF p \in {"negative_red_confirmed", "restored"} THEN 3 ELSE 4

RoleDue == <<"initial_red", "positive", "negative", "regreen">>

RunIsSound(run) ==
  /\ run.lock = lock
  /\ ~ Inconclusive(run)
  /\ run.outcome = ExpectedOutcome(run.role)
  /\ IF run.role = "negative" THEN mutated # None /\ run.source = mutated
                              ELSE run.source = lock.source
  /\ run.role \in {"positive", "regreen"} =>
       run.observation = "present" /\ run.tier \in CompletionTier
  /\ run.tier = "external_verdict" => oracle # None /\ oracle.corroborated

RunsInCourse ==
  phase \in Course =>
    /\ Len(runs) = RunsDue(phase)
    /\ \A k \in DOMAIN runs : runs[k].role = RoleDue[k] /\ RunIsSound(runs[k])
    /\ RunsDue(phase) >= 3 => mutated # None

RunsDistinct ==
  \A j, k \in DOMAIN runs :
    j # k => runs[j].id # runs[k].id /\ runs[j].namespace # runs[k].namespace

\* Nothing is disposed of before the findings are known, and none twice.
BiteKept ==
  /\ \A d, e \in disposed : d.finding = e.finding => d = e
  /\ changed <=> \E d \in disposed : d.changed
  /\ phase \notin Terminal \cup {"bite_pending"} => disposed = {}
  /\ phase # "superseded_by_successor" => successor = None
  /\ Sealed =>
       /\ {d.finding : d \in disposed} = findings
       /\ (phase = "complete") <=> ~ changed
       /\ phase # "complete" => successor # Self /\ generation + 1 < MaxGenerations

SealKept == RunsInCourse /\ RunsDistinct /\ BiteKept
\* The phases a fault leads to are no part of the course.
LEMMA CourseIsNoFault ==
  /\ "recovery_required" \notin Course
  /\ \A p \in Terminal \ {"complete", "superseded_by_successor"} : p \notin Course
BY DEF Course, Halted, Terminal

LEMMA BiteStays ==
  ASSUME BiteKept, phase \notin Terminal, ~ Sealed',
         UNCHANGED <<disposed, changed, successor>>,
         phase = "bite_pending" => phase' \in Terminal \cup {"bite_pending"}
  PROVE  BiteKept'
BY DEF BiteKept, Sealed, Terminal

LEMMA RunsStay ==
  ASSUME RunsInCourse, RunsDistinct, UNCHANGED <<lock, oracle, mutated, runs>>,
         phase' \in Course => phase \in Course /\ RunsDue(phase') = RunsDue(phase)
  PROVE  RunsInCourse' /\ RunsDistinct'
BY DEF RunsInCourse, RunsDistinct, RunIsSound

LEMMA FaultKeepsSeal ==
  ASSUME TypeOK, MutationSafe, SealKept, Faults
  PROVE  SealKept'
<1>1. /\ phase \notin Halted /\ FaultMove
      /\ UNCHANGED <<lock, oracle, mutated, runs, disposed, changed, successor>>
  BY FaultsMove DEF evidence, mutation, bite
<1>2. phase' \notin Course /\ ~ Sealed'
  BY <1>1, CourseIsNoFault DEF FaultMove, Sealed, Terminal
<1>3. phase = "bite_pending" => phase' \in Terminal
  BY <1>1 DEF FaultMove, MutationSafe, RestorePhase
<1> QED
  BY <1>1, <1>2, <1>3, BiteStays, RunsStay DEF SealKept, Halted

LEMMA RestoreKeepsSeal ==
  ASSUME TypeOK, SealKept, NEW source, Restore(source)
  PROVE  SealKept'
<1>1. /\ phase \in RestorePhase
      /\ UNCHANGED <<lock, oracle, mutated, runs, disposed, changed, successor>>
  BY DEF Restore, RestoreTo, evidence, bite
<1>2. \/ phase = "negative_red_confirmed" /\ phase' = "restored"
      \/ phase' \in Terminal \ {"complete", "superseded_by_successor"}
  BY RestoreGoes
<1>3. phase' \in Course => phase \in Course /\ RunsDue(phase') = RunsDue(phase)
  BY <1>2, CourseIsNoFault DEF Course, Phase, Halted, Terminal, RunsDue
<1>4. ~ Sealed' /\ phase \notin Terminal /\ phase # "bite_pending"
  BY <1>1, <1>2 DEF Sealed, Terminal, RestorePhase
<1> QED
  BY <1>1, <1>3, <1>4, BiteStays, RunsStay DEF SealKept

\* A run that is taken is the next one that is due, and sound; an inconclusive one is the
\* last of the cycle.
LEMMA TakeRunKeepsSeal ==
  ASSUME TypeOK, MutationSafe, SealKept, NEW kind, NEW role \in RunRole,
         NEW from \in Course \ {"bite_pending", "complete", "superseded_by_successor"},
         NEW to \in Course \ {"bite_pending", "complete", "superseded_by_successor"},
         RunsDue(from) \in 0 .. 3, RunsDue(to) = RunsDue(from) + 1,
         role = RoleDue[RunsDue(to)],
         RunsDue(to) >= 3 => from = "mutation_active" \/ RunsDue(from) >= 3,
         TakeRun(kind, from, role, to)
  PROVE  SealKept'
<1>1. PICK run \in RunPayload(role) :
        /\ ValidRun(run)
        /\ runs' = Append(runs, run)
        /\ IF Inconclusive(run) THEN Halt(FreshEvent, "inconclusive", TRUE, "accepted")
                                ELSE Advance(to) /\ UNCHANGED fault
  BY DEF TakeRun
<1>2. /\ phase = from /\ phase \notin Terminal
      /\ UNCHANGED <<lock, oracle, mutated, disposed, changed, successor>>
  BY DEF TakeRun, Admitted, mutation, bite
<1>3. PICK n \in Nat : n = Len(runs)
  BY DEF TypeOK, EvidenceOK
<1>4. run \in RunEvidence /\ run.role = role
  <2>1. 1 .. Len(runs) + 1 \subseteq Nat /\ 1 .. FreshNamespace \subseteq Nat
    BY DEF TypeOK, EvidenceOK, FreshNamespace
  <2> QED
    BY <2>1, NameAssumption DEF RunPayload, RunEvidence
<1>5. /\ DOMAIN runs = 1 .. n /\ DOMAIN runs' = 1 .. n + 1 /\ Len(runs') = n + 1
      /\ \A k \in 1 .. n : runs'[k] = runs[k]
      /\ runs'[n + 1] = run
  <2>1. runs \in Seq(RunEvidence)
    BY DEF TypeOK, EvidenceOK
  <2> QED
    BY <1>1, <1>3, <1>4, <2>1
<1>6. RunsDistinct'
  <2>1. \A k \in 1 .. n : runs[k].id # run.id /\ runs[k].namespace # run.namespace
    BY <1>1, <1>5 DEF ValidRun
  <2> QED
    BY <1>3, <1>5, <2>1 DEF SealKept, RunsDistinct
<1>7. BiteKept'
  <2>1. ~ Sealed'
    BY <1>1, <1>2, HaltMoves DEF FaultMove, Sealed, Advance, Commit, Terminal
  <2> QED
    BY <1>2, <2>1, BiteStays DEF SealKept
<1>8. RunsInCourse'
  <2>1. CASE Inconclusive(run)
    <3>1. phase' \notin Course
      BY <1>1, <2>1, HaltMoves, CourseIsNoFault DEF FaultMove
    <3> QED
      BY <3>1 DEF RunsInCourse
  <2>2. CASE ~ Inconclusive(run)
    <3>1. phase' = to
      BY <1>1, <2>2 DEF Advance, Commit
    <3>2. /\ n = RunsDue(from)
          /\ \A k \in 1 .. n : runs[k].role = RoleDue[k] /\ RunIsSound(runs[k])
          /\ RunsDue(from) >= 3 => mutated # None
      BY <1>2, <1>3, <1>5 DEF SealKept, RunsInCourse
    <3>3. RunIsSound(run)
      BY <1>1, <1>4, <2>2 DEF ValidRun, RunIsSound, ReadBack
    <3>4. \A k \in 1 .. n + 1 : RunIsSound(runs'[k])
      BY <1>3, <1>5, <3>2, <3>3
    <3>5. \A k \in 1 .. n + 1 : RunIsSound(runs[k])'
      BY <1>2, <3>4 DEF RunIsSound
    <3>6. \A k \in 1 .. n + 1 : runs'[k].role = RoleDue[k]
      BY <1>3, <1>4, <1>5, <3>2
    <3>7. RunsDue(to) >= 3 => mutated # None
      <4>1. CASE from = "mutation_active"
        <5>1. run.role = "negative"
          BY <1>4, <4>1 DEF RunsDue, RoleDue
        <5> QED
          BY <3>3, <5>1 DEF RunIsSound
      <4>2. CASE RunsDue(from) >= 3
        BY <3>2, <4>2
      <4> QED
        BY <4>1, <4>2
    <3> QED
      BY <1>2, <1>5, <3>1, <3>2, <3>5, <3>6, <3>7 DEF RunsInCourse
  <2> QED
    BY <2>1, <2>2
<1> QED
  BY <1>6, <1>7, <1>8 DEF SealKept

LEMMA SealKeepsSeal ==
  ASSUME TypeOK, SealKept, NEW name, Seal(name)
  PROVE  SealKept'
<1>1. /\ phase = "bite_pending" /\ {d.finding : d \in disposed} = findings
      /\ UNCHANGED <<lock, oracle, mutated, runs, findings, disposed, changed>>
  BY DEF Seal, evidence, mutation
<1>2. \/ /\ changed /\ phase' = "superseded_by_successor" /\ successor' # Self
         /\ generation + 1 < MaxGenerations
      \/ ~ changed /\ phase' = "complete" /\ successor' = successor
  BY DEF Seal, RoomForSuccessor, Advance, Commit
<1>3. generation' = generation
  BY DEF Seal, Advance, Commit, identity
<1>4. RunsInCourse' /\ RunsDistinct'
  BY <1>1, <1>2, RunsStay DEF SealKept, RunsDue, Course, Phase, Halted, Terminal
<1>5. BiteKept'
  BY <1>1, <1>2, <1>3 DEF SealKept, BiteKept, Sealed, Terminal
<1> QED
  BY <1>4, <1>5 DEF SealKept

LEMMA ProgressKeepsSeal ==
  ASSUME TypeOK, MutationSafe, SealKept, Progress
  PROVE  SealKept'
<1> DEFINE Same == UNCHANGED <<lock, oracle, mutated, runs>>
           SameBite == UNCHANGED <<disposed, changed, successor>>
<1>0. ASSUME NEW from \in Course, NEW to \in Course \ {"complete", "superseded_by_successor"},
             phase = from, phase' = to, RunsDue(to) = RunsDue(from), from \notin Terminal,
             from = "bite_pending" => to = "bite_pending", Same, SameBite
      PROVE  SealKept'
  BY <1>0, RunsStay, BiteStays DEF SealKept, Sealed
<1> USE DEF Course, Phase, Halted, Terminal, RunsDue
<1>1. CASE Size
  BY <1>0, <1>1 DEF Size, Advance, Commit, evidence, mutation, bite
<1>2. ASSUME NEW materials, NEW boundary, Lock(materials, boundary) PROVE SealKept'
  <2>1. /\ phase = "sized" /\ phase' = "locked" /\ UNCHANGED <<runs, mutated>> /\ SameBite
    BY <1>2 DEF Lock, Advance, Commit, mutation, bite
  <2>2. DOMAIN runs = {}
    BY <2>1 DEF SealKept, RunsInCourse, TypeOK, EvidenceOK
  <2>3. RunsInCourse' /\ RunsDistinct'
    BY <2>1, <2>2 DEF SealKept, RunsInCourse, RunsDistinct
  <2> QED
    BY <2>1, <2>3, BiteStays DEF SealKept, Sealed
<1>3. CASE InitialRed
  BY <1>3, TakeRunKeepsSeal DEF InitialRed, RunRole, RoleDue
<1>4. CASE Green
  BY <1>4, TakeRunKeepsSeal DEF Green, RunRole, RoleDue
<1>5. ASSUME NEW namespace, Quarantine(namespace) PROVE SealKept'
  BY <1>0, <1>5 DEF Quarantine, Advance, Commit, mutation, bite
<1>6. ASSUME NEW before, NEW after, MutationApplied(before, after) PROVE SealKept'
  <2>1. /\ phase = "quarantined" /\ phase' = "mutation_active"
        /\ UNCHANGED <<lock, oracle, runs>> /\ SameBite
    BY <1>6 DEF MutationApplied, Advance, Commit, evidence, bite
  <2>2. Len(runs) = 2 /\ DOMAIN runs = 1 .. 2
    BY <2>1 DEF SealKept, RunsInCourse, TypeOK, EvidenceOK
  <2>3. \A k \in DOMAIN runs : runs[k].role = RoleDue[k] /\ RunIsSound(runs[k])
    BY <2>1 DEF SealKept, RunsInCourse
  <2>4. \A k \in DOMAIN runs : runs[k].role # "negative"
    BY <2>2, <2>3 DEF RoleDue
  <2>5. \A k \in DOMAIN runs' : runs'[k].role = RoleDue[k] /\ RunIsSound(runs[k])'
    BY <2>1, <2>3, <2>4 DEF RunIsSound
  <2>6. RunsInCourse' /\ RunsDistinct'
    BY <2>1, <2>2, <2>5 DEF SealKept, RunsInCourse, RunsDistinct
  <2> QED
    BY <2>1, <2>6, BiteStays DEF SealKept, Sealed
<1>7. CASE NegativeRed
  BY <1>7, TakeRunKeepsSeal DEF NegativeRed, RunRole, RoleDue
<1>8. ASSUME NEW source, Restore(source) PROVE SealKept'
  BY <1>8, RestoreKeepsSeal
<1>9. CASE Regreen
  BY <1>9, TakeRunKeepsSeal DEF Regreen, RunRole, RoleDue
<1>10. ASSUME NEW ids, EnumerateFindings(ids) PROVE SealKept'
  BY <1>0, <1>10 DEF EnumerateFindings, Advance, Commit, evidence, mutation
<1>11. ASSUME NEW record \in FindingDisposition, DisposeFinding(record) PROVE SealKept'
  <2>1. /\ phase = "bite_pending" /\ phase' = "bite_pending" /\ Same
        /\ record.finding \notin {d.finding : d \in disposed}
        /\ disposed' = disposed \cup {record} /\ changed' = (changed \/ record.changed)
        /\ successor' = successor
    BY <1>11 DEF DisposeFinding, Advance, Commit, evidence, mutation
  <2>2. RunsInCourse' /\ RunsDistinct'
    BY <2>1, RunsStay DEF SealKept
  <2>3. BiteKept'
    <3>1. \A d \in disposed : d.finding # record.finding
      BY <2>1
    <3>2. \A d, e \in disposed' : d.finding = e.finding => d = e
      BY <2>1, <3>1 DEF SealKept, BiteKept
    <3>3. changed' <=> \E d \in disposed' : d.changed
      BY <2>1 DEF SealKept, BiteKept, TypeOK, BiteOK, FindingDisposition
    <3> QED
      BY <2>1, <3>2, <3>3 DEF SealKept, BiteKept, Sealed
  <2> QED
    BY <2>2, <2>3 DEF SealKept
<1>12. ASSUME NEW name, Seal(name) PROVE SealKept'
  BY <1>12, SealKeepsSeal
<1> QED
  BY <1>1, <1>2, <1>3, <1>4, <1>5, <1>6, <1>7, <1>8, <1>9, <1>10, <1>11, <1>12
  DEF Progress

LEMMA SealStep ==
  ASSUME TypeOK, MutationSafe, SealKept, [Next]_vars
  PROVE  SealKept'
<1>1. CASE UNCHANGED snapshot
  BY <1>1
  DEF SealKept, RunsInCourse, RunsDistinct, RunIsSound, BiteKept, Sealed, snapshot, identity,
      progress, evidence, mutation, bite
<1> QED
  BY <1>1, FaultKeepsSeal, ProgressKeepsSeal, UnchangingSnapshot DEF Next, vars

\* A cycle that is sealed has run the four roles in their order, soundly and under one lock,
\* and has disposed of every finding exactly once.
THEOREM SealsAreEarned == Spec => []SealIsEarned
<1>1. Init => SealKept /\ MutationSafe
  <2>1. Init => SealKept
    BY DEF Init, SealKept, RunsInCourse, RunsDistinct, RunsDue, BiteKept, Sealed, Terminal
  <2> QED
    BY <2>1 DEF Init, MutationSafe, RestorePhase, Terminal
<1>2. TypeOK /\ MutationSafe /\ SealKept => SealedEvidence
  <2> SUFFICES ASSUME TypeOK, MutationSafe, SealKept, Sealed
               PROVE  /\ [k \in DOMAIN runs |-> runs[k].role] =
                           <<"initial_red", "positive", "negative", "regreen">>
                      /\ restored = lock.source
                      /\ \A k \in DOMAIN runs :
                           /\ runs[k].lock = lock
                           /\ ~ Inconclusive(runs[k])
                           /\ runs[k].outcome = ExpectedOutcome(runs[k].role)
                           /\ (runs[k].source = lock.source) <=> (runs[k].role # "negative")
                           /\ runs[k].role \in {"positive", "regreen"} =>
                                runs[k].observation = "present"
                                  /\ runs[k].tier \in CompletionTier
                           /\ runs[k].tier = "external_verdict" => oracle.independent
                           /\ \A j \in DOMAIN runs \ {k} :
                                runs[j].id # runs[k].id
                                  /\ runs[j].namespace # runs[k].namespace
    BY DEF SealedEvidence
  <2>1. phase \in Course /\ RunsDue(phase) = 4
    BY DEF Sealed, Course, RunsDue
  <2>2. /\ Len(runs) = 4 /\ DOMAIN runs = 1 .. 4 /\ mutated # None
        /\ \A k \in DOMAIN runs : runs[k].role = RoleDue[k] /\ RunIsSound(runs[k])
    BY <2>1 DEF SealKept, RunsInCourse, TypeOK, EvidenceOK
  <2>3. [k \in DOMAIN runs |-> runs[k].role] =
          <<"initial_red", "positive", "negative", "regreen">>
    <3>1. /\ runs[1].role = "initial_red" /\ runs[2].role = "positive"
          /\ runs[3].role = "negative" /\ runs[4].role = "regreen"
      BY <2>2 DEF RoleDue
    <3> QED
      BY <2>2, <3>1
  <2>4. restored = lock.source /\ mutated # lock.source
    BY <2>2 DEF MutationSafe, Sealed, RestorePhase
  <2>5. oracle # None /\ oracle.corroborated => oracle.independent
    BY DEF TypeOK, EvidenceOK, OracleBoundary
  <2> QED
    BY <2>2, <2>3, <2>4, <2>5 DEF RunIsSound, SealKept, RunsDistinct
<1>3. SealKept => SealedFindings
  BY DEF SealKept, BiteKept, SealedFindings, Sealed
<1>4. TypeOK /\ MutationSafe /\ SealKept => SealIsEarned
  BY <1>2, <1>3 DEF SealIsEarned
<1>5. TypeOK /\ MutationSafe /\ SealKept /\ [Next]_vars => MutationSafe' /\ SealKept'
  BY SealStep, MutationSafeStep
<1> QED
  BY <1>1, <1>4, <1>5, TypeCorrect, PTL DEF Spec
=============================================================================
