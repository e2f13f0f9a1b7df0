---------------------------- MODULE EvidenceCycle ----------------------------
(***************************************************************************)
(* The bounded mutation-evidence cycle of the ooptdd-mutation extension:   *)
(* the pure reducer step(snapshot, event) of ouroboros/reducer.py over the *)
(* CycleSnapshot of ouroboros/model.py.                                    *)
(*                                                                         *)
(* A behaviour is one generation: some caller hands the reducer an event,  *)
(* keeps the snapshot it returns, and hands it the next one.  Nothing is   *)
(* assumed of that caller: it may send any kind of event in any phase,     *)
(* repeat an event, reuse an event ID, or send an ill-formed payload.      *)
(*                                                                         *)
(* The code compares event IDs, intent hashes, run IDs and namespaces with *)
(* = only.  Each is a number here, named in the order of first use: an     *)
(* event not seen before is named by the journal position it would take.   *)
(***************************************************************************)
EXTENDS Naturals, Sequences

CONSTANTS
  Source,          \* digests of the source tree
  Material,        \* what else the lock binds: spec, verifier, environment, commit
  Finding,         \* finding identifiers
  Cycle,           \* cycle identifiers
  Self,            \* the identifier of this cycle
  Tiers,           \* evidence tiers the caller's runs may claim
  Boundaries,      \* oracle boundaries the caller may lock
  Budgets,         \* the max_steps a cycle may be started with
  MaxGenerations,  \* the max_generations of its budget
  None             \* Python's None

EvidenceTier ==
  {"local_pass", "emitted", "arrived", "queryable_causal", "external_verdict"}

Terminal ==
  {"complete", "superseded_by_successor", "inconclusive", "interrupted",
   "identity_conflict"}

Phase == Terminal \cup
  {"init", "sized", "locked", "initial_red_confirmed", "green_confirmed",
   "quarantined", "mutation_active", "negative_red_confirmed", "restored",
   "regreen_confirmed", "bite_pending", "recovery_required"}

EventKind ==
  {"size", "lock", "initial_red", "green", "quarantine", "mutation_applied",
   "negative_red", "restore", "regreen", "enumerate_findings",
   "dispose_finding", "seal", "interrupt"}

RunRole            == {"initial_red", "positive", "negative", "regreen"}
RunOutcome         == {"red", "green", "inconclusive"}
ObservationVerdict == {"present", "absent", "inconclusive"}
CompletionTier     == {"arrived", "queryable_causal", "external_verdict"}

\* deferred, refuted and accepted_risk are not told apart
Disposition == {"fixed", "unfixed"}

\* The reasons a caller may assert, and with the two the reducer owns, all of them;
\* timed_out and retry_exhausted are not told apart from cancelled.
CallerReason    == {"cancelled", "inconclusive"}
InterruptReason == CallerReason \cup {"budget_exhausted", "identity_conflict"}

MaterialLock == [source : Source, rest : Material]

\* corroboration requires a distinct, separate read authority
OracleBoundary ==
  {o \in [independent : BOOLEAN, corroborated : BOOLEAN] :
     o.corroborated => o.independent}

RunEvidence ==
  [role : RunRole, id : Nat, namespace : Nat, outcome : RunOutcome,
   observation : ObservationVerdict, tier : EvidenceTier,
   lock : MaterialLock, source : Source]

ASSUME BudgetAssumption ==
  /\ Budgets \subseteq Nat \ {0}
  /\ MaxGenerations \in Nat \ {0}
ASSUME NameAssumption ==
  /\ Self \in Cycle
  /\ Tiers \subseteq EvidenceTier
  /\ Boundaries \subseteq OracleBoundary
  /\ None \notin Source \cup Cycle \cup Nat \cup InterruptReason
  /\ None \notin MaterialLock \cup OracleBoundary

\* evidence stands for "change_evidence is not None"
FindingDisposition ==
  {d \in [finding : Finding, disposition : Disposition,
          changed : BOOLEAN, evidence : BOOLEAN] :
     /\ d.changed => d.disposition = "fixed" /\ d.evidence
     /\ d.evidence => d.changed}

EventRecord  == [id : Nat, intent : Nat, from : Phase, to : Phase]
EffectIntent ==
  [id : Nat, intent : Nat, kind : {"record_transition", "restore_required"},
   reason : InterruptReason \cup {None}]

VARIABLES
  \* the identity and the budget, fixed by CycleSnapshot.start
  generation, budget,
  \* progress: every accepted event moves these
  phase, revision, steps, journal, effects,
  \* what the phases established
  lock, oracle, runs, quarantine,
  mutated, active, restored,
  findings, disposed, changed, successor,
  pending, halt,
  \* what the last call returned besides the snapshot: "accepted", "replayed", or
  \* the rejection_code
  reply

identity == <<generation, budget>>
progress == <<phase, revision, steps, journal, effects>>
evidence == <<lock, oracle, runs, quarantine>>
mutation == <<mutated, active, restored>>
bite     == <<findings, disposed, changed, successor>>
fault    == <<pending, halt>>

snapshot == <<identity, progress, evidence, mutation, bite, fault>>
vars     == <<snapshot, reply>>

Init ==
  /\ generation \in 0 .. MaxGenerations - 1
  /\ budget \in Budgets
  /\ phase = "init"
  /\ revision = 0
  /\ steps = 0
  /\ journal = << >>
  /\ effects = {}
  /\ lock = None
  /\ oracle = None
  /\ runs = << >>
  /\ quarantine = None
  /\ mutated = None
  /\ active = FALSE
  /\ restored = None
  /\ findings = {}
  /\ disposed = {}
  /\ changed = FALSE
  /\ successor = None
  /\ pending = None
  /\ halt = None
  /\ reply = "accepted"

-----------------------------------------------------------------------------
(* Results of a call.                                                      *)

\* A rejection returns the snapshot it was given.  Its audit_rejection effect is
\* a function of the code and is not kept.
Reject(code) ==
  /\ reply' = code
  /\ UNCHANGED snapshot

\* An event as the journal knows it: its ID, and an intent hash no record has yet.
EventNamed(id) == [id |-> id, intent |-> Len(journal) + 1]
FreshEvent     == EventNamed(Len(journal) + 1)

Effect(event, kind, reason) ==
  [id |-> event.id, intent |-> event.intent, kind |-> kind, reason |-> reason]

\* _commit: journal the event and move.  reason is None, or the reason the
\* restore_required effect carries.
Commit(event, to, counted, reason, code) ==
  LET emitted == {Effect(event, "record_transition", None)} \cup
                 (IF reason = None THEN {}
                  ELSE {Effect(event, "restore_required", reason)})
  IN /\ phase' = to
     /\ revision' = revision + 1
     /\ steps' = IF counted THEN steps + 1 ELSE steps
     /\ journal' = Append(journal, [id |-> event.id, intent |-> event.intent,
                                    from |-> phase, to |-> to])
     /\ effects' = effects \cup emitted
     /\ reply' = code
     /\ UNCHANGED identity

\* The ordinary case: one counted step to the next phase.
Advance(to) == Commit(FreshEvent, to, TRUE, None, "accepted")

\* Mutants: the reason's own name as the phase; no phase of its own for a conflict.
HaltPhaseVerbatim(reason)  == reason
HaltPhaseNoConflict(reason) ==
  IF reason = "inconclusive" THEN "inconclusive" ELSE "interrupted"

\* The terminal phase a reason ends in: two reasons have one of their own name.
HaltPhase(reason) ==
  IF reason \in {"identity_conflict", "inconclusive"} THEN reason ELSE "interrupted"

\* Interruptions, faults and inconclusive runs share one shape: with the mutation
\* active hand over to recovery and keep the reason pending, else halt at once.
Halt(event, reason, counted, code) ==
  IF active
  THEN /\ Commit(event, "recovery_required", counted, reason, code)
       /\ pending' = reason
       /\ UNCHANGED halt
  ELSE /\ Commit(event, HaltPhase(reason), counted, None, code)
       /\ halt' = reason
       /\ UNCHANGED pending

-----------------------------------------------------------------------------
(* The checks of step that come before any handler, in the code's order.    *)

\* Mutant: effects looked up by event ID alone.
ReplayedEffectsById(k) == {f \in effects : f.id = journal[k].id}

\* Exactly the event of record k is in the journal: answer with its effects.
ReplayedEffects(k) ==
  {f \in effects : f.id = journal[k].id /\ f.intent = journal[k].intent}

Replay(k) ==
  /\ reply' = "replayed"
  /\ UNCHANGED snapshot

\* The event names another cycle, or another generation of this one.
RejectForeign == Reject("cycle_identity_mismatch")

RejectTerminal ==
  /\ phase \in Terminal
  /\ Reject("terminal_state")

RejectDuringRecovery ==
  /\ phase = "recovery_required"
  /\ \/ Reject("recovery_requires_restore")
     \/ journal # << >> /\ Reject("event_identity_conflict_during_recovery")

\* Mutants: the check for a reused ID moved before the checks of the phase.
CollideInRecovery(k) ==
  /\ phase \notin Terminal
  /\ Halt(EventNamed(journal[k].id), "identity_conflict", steps < budget,
          "event_identity_conflict")
  /\ UNCHANGED <<evidence, mutation, bite>>

CollideAnywhere(k) ==
  /\ Halt(EventNamed(journal[k].id), "identity_conflict", steps < budget,
          "event_identity_conflict")
  /\ UNCHANGED <<evidence, mutation, bite>>

\* _collision: the ID of record k with another intent.
Collide(k) ==
  /\ phase \notin Terminal \cup {"recovery_required"}
  /\ Halt(EventNamed(journal[k].id), "identity_conflict", steps < budget,
          "event_identity_conflict")
  /\ UNCHANGED <<evidence, mutation, bite>>

\* Mutant: a spent budget is noticed before recovery is.
ExhaustBudgetInRecovery ==
  /\ phase \notin Terminal
  /\ steps >= budget
  /\ Halt(FreshEvent, "budget_exhausted", FALSE, "budget_exhausted")
  /\ UNCHANGED <<evidence, mutation, bite>>

\* _budget_exhausted: a fresh event of any kind but the restoration of an active
\* mutation finds the budget spent.  Recovery only gets here with a RESTORE, and
\* then the mutation is active.
ExhaustBudget ==
  /\ phase \notin Terminal \cup {"recovery_required"}
  /\ steps >= budget
  /\ Halt(FreshEvent, "budget_exhausted", FALSE, "budget_exhausted")
  /\ UNCHANGED <<evidence, mutation, bite>>

\* Mutant: restoration has no exemption from the budget.
AdmittedWithinBudget(kind) ==
  /\ phase \notin Terminal
  /\ phase = "recovery_required" => kind = "restore"
  /\ steps < budget

\* A fresh event of this kind passes every check above and reaches its handler.
Admitted(kind) ==
  /\ phase \notin Terminal
  /\ phase = "recovery_required" => kind = "restore"
  /\ steps < budget \/ (active /\ kind = "restore")

-----------------------------------------------------------------------------
(* Evidence of a run.                                                      *)

Inconclusive(run) ==
  run.outcome = "inconclusive" \/ run.observation = "inconclusive"

ExpectedOutcome(role) == IF role \in {"initial_red", "negative"} THEN "red" ELSE "green"

FreshNamespace == Len(runs) + (IF quarantine = None THEN 1 ELSE 2)

\* What a caller may send as run evidence; the name fields range over every name
\* used so far and one new one.
RunPayload(role) ==
  [role : {role}, id : 1 .. Len(runs) + 1, namespace : 1 .. FreshNamespace,
   outcome : RunOutcome, observation : ObservationVerdict, tier : Tiers,
   lock : MaterialLock, source : Source]

\* The readback a role must show; and a mutant that forgets the second GREEN.
ReadBackFirstGreen(run) ==
  run.role = "positive" =>
    run.observation = "present" /\ run.tier \in CompletionTier

ReadBack(run) ==
  run.role \in {"positive", "regreen"} =>
    run.observation = "present" /\ run.tier \in CompletionTier

\* _parse_run: the conditions under which it raises nothing.
ValidRun(run) ==
  /\ lock # None
  /\ run.lock = lock
  /\ \A k \in DOMAIN runs : runs[k].id # run.id /\ runs[k].namespace # run.namespace
  /\ IF run.role = "negative" THEN mutated # None /\ run.source = mutated
                              ELSE run.source = lock.source
  /\ Inconclusive(run) \/ (run.outcome = ExpectedOutcome(run.role) /\ ReadBack(run))
  /\ run.tier = "external_verdict" => oracle # None /\ oracle.corroborated

\* _commit_run under step's (phase, kind) test.
TakeRun(kind, from, role, to) ==
  /\ Admitted(kind)
  /\ phase = from
  /\ \E run \in RunPayload(role) :
       /\ ValidRun(run)
       /\ runs' = Append(runs, run)
       /\ IF Inconclusive(run) THEN Halt(FreshEvent, "inconclusive", TRUE, "accepted")
                               ELSE Advance(to) /\ UNCHANGED fault
  /\ UNCHANGED <<lock, oracle, quarantine, mutation, bite>>

InitialRed  == TakeRun("initial_red", "locked", "initial_red", "initial_red_confirmed")
Green       == TakeRun("green", "initial_red_confirmed", "positive", "green_confirmed")
NegativeRed == TakeRun("negative_red", "mutation_active", "negative",
                       "negative_red_confirmed")
Regreen     == TakeRun("regreen", "restored", "regreen", "regreen_confirmed")

-----------------------------------------------------------------------------
(* The other handlers.                                                     *)

Interrupt(reason) ==
  /\ Admitted("interrupt")
  /\ Halt(FreshEvent, reason, TRUE, "accepted")
  /\ UNCHANGED <<evidence, mutation, bite>>

Size ==
  /\ Admitted("size")
  /\ phase = "init"
  /\ Advance("sized")
  /\ UNCHANGED <<evidence, mutation, bite, fault>>

Lock(materials, boundary) ==
  /\ Admitted("lock")
  /\ phase = "sized"
  /\ lock' = materials
  /\ oracle' = boundary
  /\ Advance("locked")
  /\ UNCHANGED <<runs, quarantine, mutation, bite, fault>>

Quarantine(namespace) ==
  /\ Admitted("quarantine")
  /\ phase = "green_confirmed"
  /\ \A k \in DOMAIN runs : runs[k].namespace # namespace
  /\ quarantine' = namespace
  /\ Advance("quarantined")
  /\ UNCHANGED <<lock, oracle, runs, mutation, bite, fault>>

MutationApplied(before, after) ==
  /\ Admitted("mutation_applied")
  /\ phase = "quarantined"
  /\ before = lock.source
  /\ after # before
  /\ mutated' = after
  /\ active' = TRUE
  /\ Advance("mutation_active")
  /\ UNCHANGED <<restored, evidence, bite, fault>>

RestorePhase == {"mutation_active", "negative_red_confirmed", "recovery_required"}

\* _restore has three commits.  The budget is spent: stop here.
RestoreAndStop ==
  /\ phase # "recovery_required"
  /\ steps >= budget
  /\ Commit(FreshEvent, "interrupted", FALSE, None, "accepted")
  /\ halt' = "budget_exhausted"
  /\ UNCHANGED pending

\* The end of a recovery: the pending reason takes effect.
RestoreAndHalt ==
  /\ phase = "recovery_required"
  /\ Commit(FreshEvent, HaltPhase(pending), steps < budget, None, "accepted")
  /\ halt' = pending
  /\ pending' = None

\* The ordinary course, after a negative run; and a mutant that skips that run.
RestoreUnchallenged ==
  /\ phase # "recovery_required"
  /\ steps < budget
  /\ Advance("restored")
  /\ UNCHANGED fault

RestoreAndGoOn ==
  /\ phase = "negative_red_confirmed"
  /\ steps < budget
  /\ Advance("restored")
  /\ UNCHANGED fault

RestoreTo(source) ==
  /\ active' = FALSE
  /\ restored' = source
  /\ RestoreAndStop \/ RestoreAndHalt \/ RestoreAndGoOn
  /\ UNCHANGED <<mutated, evidence, bite>>

\* Mutant: the restored source is not compared with the lock.
RestoreAnySource(source) ==
  /\ Admitted("restore")
  /\ phase \in RestorePhase
  /\ lock # None /\ active
  /\ RestoreTo(source)

Restore(source) ==
  /\ Admitted("restore")
  /\ phase \in RestorePhase
  /\ lock # None /\ active
  /\ source = lock.source
  /\ RestoreTo(source)

\* Mutant: the refusal does not look at the budget.
RejectRestoreAlways ==
  /\ Admitted("restore")
  /\ active
  /\ phase = "mutation_active"
  /\ Reject("restore_requires_negative_red")

RejectRestore ==
  /\ Admitted("restore")
  /\ phase \in RestorePhase
  /\ \/ ~ active /\ Reject("no_active_mutation")
     \/ /\ active
        /\ \E source \in Source \ {lock.source} :
             Reject("restoration_does_not_match_locked_source")
     \/ /\ active
        /\ phase = "mutation_active" /\ steps < budget
        /\ Reject("restore_requires_negative_red")

EnumerateFindings(ids) ==
  /\ Admitted("enumerate_findings")
  /\ phase = "regreen_confirmed"
  /\ findings' = ids
  /\ Advance("bite_pending")
  /\ UNCHANGED <<disposed, changed, successor, evidence, mutation, fault>>

DisposeFinding(record) ==
  /\ Admitted("dispose_finding")
  /\ phase = "bite_pending"
  /\ record.finding \in findings
  /\ record.finding \notin {d.finding : d \in disposed}
  /\ disposed' = disposed \cup {record}
  /\ changed' = (changed \/ record.changed)
  /\ Advance("bite_pending")
  /\ UNCHANGED <<findings, successor, evidence, mutation, fault>>

\* The generation budget leaves room for a successor; and an off-by-one mutant.
RoomForOneMore == generation + 1 <= MaxGenerations
RoomForSuccessor == generation + 1 < MaxGenerations

\* SEAL: with a bound material changed the cycle is superseded by the successor the
\* payload names, else it is complete and the payload must name none.
Seal(name) ==
  /\ Admitted("seal")
  /\ phase = "bite_pending"
  /\ {d.finding : d \in disposed} = findings
  /\ \/ /\ changed
        /\ name \notin {None, Self}
        /\ RoomForSuccessor
        /\ successor' = name
        /\ Advance("superseded_by_successor")
     \/ /\ ~ changed
        /\ name = None
        /\ UNCHANGED successor
        /\ Advance("complete")
  /\ UNCHANGED <<findings, disposed, changed, evidence, mutation, fault>>

\* The event kinds step knows in each phase, INTERRUPT and RESTORE aside.
KindsOf(p) ==
  CASE p = "init"                   -> {"size"}
    [] p = "sized"                  -> {"lock"}
    [] p = "locked"                 -> {"initial_red"}
    [] p = "initial_red_confirmed"  -> {"green"}
    [] p = "green_confirmed"        -> {"quarantine"}
    [] p = "quarantined"            -> {"mutation_applied"}
    [] p = "mutation_active"        -> {"negative_red"}
    [] p = "restored"               -> {"regreen"}
    [] p = "regreen_confirmed"      -> {"enumerate_findings"}
    [] p = "bite_pending"           -> {"dispose_finding", "seal"}
    [] OTHER                        -> {}

\* A handler raises on its payload: a missing key, a wrong type, or a value one of
\* the handlers above does not take.
RejectPayload(kind) ==
  /\ Admitted(kind)
  /\ \/ kind \in KindsOf(phase)
     \/ kind = "interrupt"
     \/ kind = "restore" /\ phase \in RestorePhase
  /\ Reject("invalid_payload")

RejectTransition(kind) ==
  /\ Admitted(kind)
  /\ kind \notin KindsOf(phase) \cup {"interrupt"}
  /\ kind = "restore" => phase \notin RestorePhase
  /\ Reject("invalid_transition")

-----------------------------------------------------------------------------

Faults ==
  \/ \E k \in DOMAIN journal : Collide(k)
  \/ ExhaustBudget
  \/ \E reason \in CallerReason : Interrupt(reason)

Progress ==
  \/ Size
  \/ \E materials \in MaterialLock, boundary \in Boundaries : Lock(materials, boundary)
  \/ InitialRed
  \/ Green
  \/ \E namespace \in 1 .. FreshNamespace : Quarantine(namespace)
  \/ \E before, after \in Source : MutationApplied(before, after)
  \/ NegativeRed
  \/ \E source \in Source : Restore(source)
  \/ Regreen
  \/ \E ids \in SUBSET Finding : EnumerateFindings(ids)
  \/ \E record \in FindingDisposition : DisposeFinding(record)
  \/ \E name \in Cycle \cup {None} : Seal(name)

Unchanging ==
  \/ \E k \in DOMAIN journal : Replay(k)
  \/ RejectForeign
  \/ RejectTerminal
  \/ RejectDuringRecovery
  \/ RejectRestore
  \/ \E kind \in EventKind : RejectPayload(kind) \/ RejectTransition(kind)

Next == Progress \/ Faults \/ Unchanging

Spec == Init /\ [][Next]_vars

\* What step does with a fresh INTERRUPT that asserts "cancelled".
Cancel == Interrupt("cancelled") \/ ExhaustBudget

\* The kernel has no scheduler.  FairSpec is the caller that
\* bounded-execution-policy.json asks for: one that keeps cancelling a cycle it has
\* given up on and keeps delivering the restoration it was told is required.
FairSpec ==
  /\ Spec
  /\ WF_vars(Cancel)
  /\ WF_vars(lock # None /\ Restore(lock.source))

-----------------------------------------------------------------------------
(* Properties.                                                             *)

Sealed == phase \in {"complete", "superseded_by_successor"}

IdentityOK ==
  /\ generation \in 0 .. MaxGenerations - 1
  /\ budget \in Budgets

ProgressOK ==
  /\ phase \in Phase
  /\ revision \in Nat
  /\ steps \in Nat
  /\ journal \in Seq(EventRecord)
  /\ effects \subseteq EffectIntent

EvidenceOK ==
  /\ lock \in MaterialLock \cup {None}
  /\ oracle \in OracleBoundary \cup {None}
  /\ runs \in Seq(RunEvidence)
  /\ quarantine \in Nat \cup {None}

MutationOK ==
  /\ mutated \in Source \cup {None}
  /\ active \in BOOLEAN
  /\ restored \in Source \cup {None}

BiteOK ==
  /\ findings \subseteq Finding
  /\ disposed \subseteq FindingDisposition
  /\ changed \in BOOLEAN
  /\ successor \in Cycle \cup {None}

FaultOK ==
  /\ pending \in InterruptReason \cup {None}
  /\ halt \in InterruptReason \cup {None}
  /\ pending # None <=> phase = "recovery_required"

\* Every variable holds a value the dataclasses of model.py accept, and a reason is
\* pending exactly during recovery, so that the restoration has a phase to go to.
TypeOK ==
  IdentityOK /\ ProgressOK /\ EvidenceOK /\ MutationOK /\ BiteOK /\ FaultOK

\* The journal never holds more than max_steps + 2 records, whatever the caller sends
\* and wherever the budget runs out: the two uncounted records of the safety tail are
\* one hand-over to recovery and one restoration (CycleSnapshot.__post_init__ would
\* raise in the middle of a recovery otherwise).
RevisionBounded ==
  /\ Len(journal) = revision
  /\ steps <= budget
  /\ revision <= budget + 2

\* No way out leaves the mutation in the tree: in every terminal phase a mutation that
\* was applied has been undone, to exactly the source that was locked.
SourceRestored ==
  phase \in Terminal =>
    /\ ~ active
    /\ pending = None
    /\ mutated # None => restored = lock.source /\ mutated # lock.source

\* A cycle that seals has run all four roles, in order and conclusively, under the one
\* lock: the negative run on the mutated source, the other three on the locked source,
\* the two positive ones read back, none sharing its run ID or namespace with another.
SealedEvidence ==
  Sealed =>
    /\ [k \in DOMAIN runs |-> runs[k].role] =
         <<"initial_red", "positive", "negative", "regreen">>
    /\ restored = lock.source
    /\ \A k \in DOMAIN runs :
         /\ runs[k].lock = lock
         /\ ~ Inconclusive(runs[k])
         /\ runs[k].outcome = ExpectedOutcome(runs[k].role)
         /\ (runs[k].source = lock.source) <=> (runs[k].role # "negative")
         /\ runs[k].role \in {"positive", "regreen"} =>
              runs[k].observation = "present" /\ runs[k].tier \in CompletionTier
         /\ runs[k].tier = "external_verdict" => oracle.independent
         /\ \A j \in DOMAIN runs \ {k} :
              runs[j].id # runs[k].id /\ runs[j].namespace # runs[k].namespace

\* Bite totality and generational monotonicity: a sealed cycle has disposed of each
\* enumerated finding exactly once; it is complete exactly when no disposition changed
\* a bound material, and otherwise names a successor the generation budget has room for.
SealedFindings ==
  Sealed =>
    /\ {d.finding : d \in disposed} = findings
    /\ \A d, e \in disposed : d.finding = e.finding => d = e
    /\ (phase = "complete") <=> (\A d \in disposed : ~ d.changed)
    /\ phase = "complete" => successor = None
    /\ phase # "complete" => successor # Self /\ generation + 1 < MaxGenerations

\* A sealed cycle has earned its seal: by the evidence of its runs, and with no finding left.
SealIsEarned == SealedEvidence /\ SealedFindings

\* An event ID is used for two intents at most once in a cycle.  That record takes the
\* cycle out of ordinary progress, at most the restoration follows it, and the cycle can
\* then end in no phase but identity_conflict.
OneIdentityConflict ==
  \A j, k \in DOMAIN journal :
    j < k /\ journal[j].id = journal[k].id =>
      /\ Len(journal) <= k + 1
      /\ journal[k].to \in {"recovery_required", "identity_conflict"}
      /\ phase \in Terminal => phase = "identity_conflict" /\ halt = "identity_conflict"

\* A cycle asks for a restoration at most once, and the reason it gave then is the one it
\* is pending on and the one it halts with: a later fault does not overwrite the first.
FirstCauseKept ==
  \A f \in effects : f.kind = "restore_required" =>
    /\ \A g \in effects : g.kind = "restore_required" => g = f
    /\ phase = "recovery_required" => pending = f.reason
    /\ phase \in Terminal => halt = f.reason /\ phase = HaltPhase(f.reason)

\* A caller that lost the answer gets all of it again: an exact replay of any journalled
\* event, also of one whose ID was used twice, finds exactly one record_transition, and
\* the restore_required exactly when that event handed over to recovery.
ReplayReturnsOriginal ==
  \A k \in DOMAIN journal :
    /\ {f.kind : f \in ReplayedEffects(k)} =
         {"record_transition"} \cup
         (IF journal[k].to = "recovery_required" THEN {"restore_required"} ELSE {})
    /\ \A f, g \in ReplayedEffects(k) : f.kind = g.kind => f = g

\* No dead end: a restoration refused for want of a negative run leaves the caller the
\* interrupt that makes it acceptable, and none is ever refused for want of a mutation.
RefusedRestoreHasAWayOut ==
  /\ reply # "no_active_mutation"
  /\ reply = "restore_requires_negative_red" => active /\ Admitted("interrupt")

\* What a caller is told holds: an ID means one event, a replay is answered as the event was,
\* and a refusal leaves a way on.
AnswersHold == OneIdentityConflict /\ ReplayReturnsOriginal /\ RefusedRestoreHasAWayOut

\* A terminal snapshot is final: neither a reused event ID nor a spent budget rewrites it.
TerminalIsFinal ==
  [][(phase \in Terminal) => UNCHANGED snapshot]_vars

\* Whatever happened before, a caller that keeps cancelling and keeps restoring reaches a
\* terminal phase; by SourceRestored the source tree is then the locked one.
EventuallyTerminal == <>(phase \in Terminal)

-----------------------------------------------------------------------------
(* The cycle implements MutationSafety.                                    *)

stage ==
  IF phase = "mutation_active" THEN "active"
  ELSE IF phase = "negative_red_confirmed" THEN "challenged"
  ELSE IF phase = "recovery_required" THEN "recovery_required"
  ELSE IF phase \in {"restored", "regreen_confirmed", "bite_pending"} THEN "restored"
  ELSE IF Sealed THEN "sealed"
  ELSE IF phase \in Terminal THEN "closed"
  ELSE "clean"

tree == IF active THEN "mutated" ELSE "locked"

Safety == INSTANCE MutationSafety WITH stage <- stage, tree <- tree

\* Refinement: every step of the cycle is a step of MutationSafety or leaves its two
\* variables alone.
ImplementsSafety == Safety!Spec

=============================================================================
