--------------------------- MODULE ProtocolKernel ---------------------------
(***************************************************************************)
(* The generic kernel of src/ooptdd/ouroboros: the reducer step, receipts, *)
(* successors and the structural analysis of a definition, run by several  *)
(* runners over the SnapshotStore and ReceiptStore ports.                  *)
(*                                                                         *)
(* The repository has the ports and no runner.  A runner here is the least *)
(* one that uses them: it loads the snapshot, steps it, and saves it with  *)
(* compare_and_swap under the revision it has loaded; it starts over when  *)
(* it lost the race, and may crash at any moment.                          *)
(*                                                                         *)
(* A digest is the value it is the digest of.  revision and steps_used are *)
(* both the length of the history, which __post_init__ insists on.         *)
(***************************************************************************)
EXTENDS Naturals, Sequences, FiniteSets

CONSTANTS
  Definitions,     \* the versions of the protocol that are in use
  Proof,           \* authorities and artifacts a completion may require
  EventId,
  Events,          \* the events callers may hand to a runner
  Runner,
  MaxSteps, MaxGenerations,
  None

TransitionRule(d) ==
  [source : d.states, event : d.events, target : d.states, validator : BOOLEAN]

\* What the constructor of a definition insists on.
DefinitionOk(d) ==
  /\ d.initial \in d.states
  /\ d.terminal \subseteq d.states /\ d.terminal # {}
  /\ d.initial \in d.terminal => d.required = {}
  /\ d.transitions \subseteq TransitionRule(d)
  /\ \A q, r \in d.transitions : q.source = r.source /\ q.event = r.event => q = r
  /\ d.recovery \subseteq d.states \X d.events
  /\ d.required \subseteq Proof

\* A validator accepts, refuses or raises; so does the completion policy, which reports
\* whether it is satisfied and what the payload shows.
Payload ==
  [valid : {"yes", "no", "raises"}, satisfied : {"yes", "no", "raises"}, shows : SUBSET Proof]

\* An event may be of no kind the definition declares.  Its intent is all of it.
Kind  == UNION {d.events : d \in Definitions} \cup {"undeclared"}
Event == [id : EventId, kind : Kind, payload : Payload, policy : Definitions]

ASSUME DefinitionAssumption == \A d \in Definitions : DefinitionOk(d)
ASSUME EventAssumption == Events \subseteq Event /\ None \notin Events
ASSUME BudgetAssumption == MaxSteps \in Nat \ {0} /\ MaxGenerations \in Nat \ {0}
ASSUME NoneAssumption ==
  None \notin {"evaluator_failure", "invalid_payload", "recovery_policy_denied",
               "completion_policy_failed"}

VARIABLES
  stored,     \* what the snapshot store holds for the workflow
  receipts,   \* what the receipt store holds
  runner,     \* what each runner is at
  answered    \* for the properties only: events of this generation reported as accepted

vars == <<stored, receipts, runner, answered>>

-----------------------------------------------------------------------------
(* The reducer.                                                            *)

Initial(d, generation) ==
  [generation |-> generation, state |-> d.initial, policy |-> d, history |-> << >>]

Revision(s) == Len(s.history)

\* An evaluator may have drifted from the definition it was written for.
Bound(d, drifted, s, e) == ~ drifted /\ s.policy = d /\ e.policy = d

Prior(s, e) == {k \in DOMAIN s.history : s.history[k].event.id = e.id}

\* Mutant: an event that was accepted before is taken to be the same by its ID.
ReplayedById(s, e) == Prior(s, e) # {}

Replayed(s, e) == \E k \in Prior(s, e) : s.history[k].event = e

Rules(d, s, e)  == {r \in d.transitions : r.source = s.state /\ r.event = e.kind}
RuleOf(d, s, e) == CHOOSE r \in Rules(d, s, e) : TRUE

RecoveryStates(d) == {p[1] : p \in d.recovery}

\* Mutant: an event that leaves the recovery states is let through.
DeniedWithin(d, s, e) ==
  /\ {s.state, RuleOf(d, s, e).target} \subseteq RecoveryStates(d)
  /\ <<s.state, e.kind>> \notin d.recovery

Denied(d, s, e) ==
  s.state \in RecoveryStates(d) /\ <<s.state, e.kind>> \notin d.recovery

\* Mutant: the evaluator's word is enough.
CompletionAsserted(d, payload) == payload.satisfied = "yes"

CompletionHolds(d, payload) ==
  payload.satisfied = "yes" /\ d.required \subseteq payload.shows

\* Mutant: the recovery policy speaks before the validator.
PolicyRejectionSwapped(d, s, e) ==
  LET rule == RuleOf(d, s, e)
  IN IF Denied(d, s, e) THEN "recovery_policy_denied"
     ELSE IF rule.validator /\ e.payload.valid = "raises" THEN "evaluator_failure"
     ELSE IF rule.validator /\ e.payload.valid = "no" THEN "invalid_payload"
     ELSE IF rule.target \in d.terminal /\ ~ CompletionHolds(d, e.payload)
          THEN "completion_policy_failed" ELSE None

\* What the evaluator's two calls make of a fresh event that has a rule.
PolicyRejection(d, s, e) ==
  LET rule == RuleOf(d, s, e)
  IN IF rule.validator /\ e.payload.valid = "raises" THEN "evaluator_failure"
     ELSE IF rule.validator /\ e.payload.valid = "no" THEN "invalid_payload"
     ELSE IF Denied(d, s, e) THEN "recovery_policy_denied"
     ELSE IF rule.target \notin d.terminal THEN None
     ELSE IF e.payload.satisfied = "raises" THEN "evaluator_failure"
     ELSE IF ~ CompletionHolds(d, e.payload) THEN "completion_policy_failed" ELSE None

\* Mutant: one step too many.
OutOfStepsLate(s) == Revision(s) > MaxSteps

OutOfSteps(s) == Revision(s) >= MaxSteps

\* What step answers: "accepted", "replayed" or the code it rejects with.
Reply(d, drifted, s, e) ==
  IF ~ Bound(d, drifted, s, e) THEN "policy_mismatch"
  ELSE IF Prior(s, e) # {}
       THEN IF Replayed(s, e) THEN "replayed" ELSE "event_identity_conflict"
  ELSE IF OutOfSteps(s) THEN "step_budget_exhausted"
  ELSE IF s.state \notin d.states THEN "unknown_state"
  ELSE IF s.state \in d.terminal THEN "terminal_state"
  ELSE IF e.kind \notin d.events THEN "unknown_event"
  ELSE IF Rules(d, s, e) = {} THEN "unknown_transition"
  ELSE IF PolicyRejection(d, s, e) # None THEN PolicyRejection(d, s, e)
  ELSE "accepted"

Record(d, s, e) == [event |-> e, source |-> s.state, target |-> RuleOf(d, s, e).target]

Advance(d, s, e) ==
  [s EXCEPT !.state = RuleOf(d, s, e).target, !.history = Append(@, Record(d, s, e))]

-----------------------------------------------------------------------------
(* Receipts and the analysis of a definition.                              *)

Declared(d, record) ==
  \E r \in d.transitions :
    /\ r.source = record.source /\ r.target = record.target
    /\ r.event = record.event.kind

\* _definition_history_errors finds none.
HistoryDeclared(d, s) ==
  IF s.history = << >> THEN s.state = d.initial
  ELSE /\ s.history[1].source = d.initial
       /\ \A k \in DOMAIN s.history : Declared(d, s.history[k])

\* Mutant: a receipt in any state.
FinishedAnywhere(d, drifted, s) == ~ drifted /\ s.policy = d /\ HistoryDeclared(d, s)

\* receipt_from_snapshot and start_successor accept the snapshot.
Finished(d, drifted, s) ==
  /\ ~ drifted /\ s.policy = d
  /\ s.state \in d.terminal
  /\ HistoryDeclared(d, s)

\* The body of a receipt is the snapshot without its budget.  This is what its constructor,
\* parse_receipt and validate_receipt insist on besides the digest.
ReceiptValid(d, receipt) ==
  /\ receipt.policy = d
  /\ receipt.state \in d.terminal
  /\ HistoryDeclared(d, receipt)
  /\ \A k \in DOMAIN receipt.history :
       /\ receipt.history[k].event.policy = d
       /\ receipt.history[k].target =
            IF k = Len(receipt.history) THEN receipt.state ELSE receipt.history[k + 1].source
       /\ \A j \in DOMAIN receipt.history :
            receipt.history[j].event.id = receipt.history[k].event.id => j = k

\* Rules the reducer can execute, the payload aside.
Executable(d) ==
  {r \in d.transitions :
     /\ r.source \notin d.terminal
     /\ r.source \in RecoveryStates(d) => <<r.source, r.event>> \in d.recovery}

\* The fixpoint of _reachable_states: the least set that has the initial state and is closed.
Closed(d, S) == d.initial \in S /\ \A r \in Executable(d) : r.source \in S => r.target \in S
ReachableStates(d) == {q \in d.states : \A S \in SUBSET d.states : Closed(d, S) => q \in S}
ReachableRules(d)  == {r \in Executable(d) : r.source \in ReachableStates(d)}

\* The findings of analyze_definition.
Findings(d) ==
  [terminal_outgoing |-> {r \in d.transitions : r.source \in d.terminal},
   denied |-> {r \in d.transitions \ Executable(d) : r.source \notin d.terminal},
   missing |-> {p \in d.recovery :
                ~ \E r \in d.transitions : r.source = p[1] /\ r.event = p[2]},
   unreachable_states |-> d.states \ ReachableStates(d),
   unreachable_rules |-> Executable(d) \ ReachableRules(d)]

-----------------------------------------------------------------------------
(* The runners.                                                            *)

Idle == [pc |-> "idle", event |-> None, expected |-> 0, next |-> None]

Init ==
  /\ \E d \in Definitions : stored = Initial(d, 0)
  /\ receipts = {}
  /\ runner = [r \in Runner |-> Idle]
  /\ answered = {}

\* A caller hands an event to a runner, or hands it over again.
Deliver(r, e) ==
  /\ runner[r].pc = "idle"
  /\ runner' = [runner EXCEPT ![r] = [Idle EXCEPT !.pc = "stepping", !.event = e]]
  /\ UNCHANGED <<stored, receipts, answered>>

\* load and step.  The evaluator may be another version's, and may have drifted.
Step(r, d, drifted) ==
  LET e     == runner[r].event
      reply == Reply(d, drifted, stored, e)
  IN /\ runner[r].pc = "stepping"
     /\ runner' = [runner EXCEPT ![r] =
          IF reply = "accepted"
          THEN [@ EXCEPT !.pc = "saving", !.expected = Revision(stored),
                         !.next = Advance(d, stored, e)]
          ELSE Idle]
     /\ answered' = IF reply = "replayed" THEN answered \cup {e} ELSE answered
     /\ UNCHANGED <<stored, receipts>>

\* Mutant: the snapshot is saved whatever has happened meanwhile.
SwapBlindly(expected) == TRUE

Swap(expected) == Revision(stored) = expected

\* compare_and_swap; the runner that lost loads and steps again.
Save(r) ==
  /\ runner[r].pc = "saving"
  /\ IF Swap(runner[r].expected)
     THEN /\ stored' = runner[r].next
          /\ runner' = [runner EXCEPT ![r].pc = "answering", ![r].next = None]
     ELSE /\ runner' = [runner EXCEPT ![r].pc = "stepping", ![r].next = None]
          /\ UNCHANGED stored
  /\ UNCHANGED <<receipts, answered>>

\* The caller hears that its event was accepted.
Answer(r) ==
  /\ runner[r].pc = "answering"
  /\ runner' = [runner EXCEPT ![r] = Idle]
  /\ answered' = answered \cup {runner[r].event}
  /\ UNCHANGED <<stored, receipts>>

\* A crash, also between the save and the answer: the caller will ask again.
Crash(r) ==
  /\ runner[r].pc # "idle"
  /\ runner' = [runner EXCEPT ![r] = Idle]
  /\ UNCHANGED <<stored, receipts, answered>>

\* A runner puts the receipt of the snapshot it has loaded.
Put(d, drifted) ==
  /\ Finished(d, drifted, stored)
  /\ receipts' = receipts \cup {stored}
  /\ UNCHANGED <<stored, runner, answered>>

\* start_successor.  The port compares revisions only, and a successor restarts them, so it
\* is saved when nobody else is about to save, or has yet to answer.
Succeed(d, drifted) ==
  /\ Finished(d, drifted, stored)
  /\ stored.generation + 1 < MaxGenerations
  /\ \A r \in Runner : runner[r].pc \in {"idle", "stepping"}
  /\ stored' = Initial(d, stored.generation + 1)
  /\ answered' = {}
  /\ UNCHANGED <<receipts, runner>>

Next ==
  \/ \E r \in Runner :
       \/ \E e \in Events : Deliver(r, e)
       \/ \E d \in Definitions, drifted \in BOOLEAN : Step(r, d, drifted)
       \/ Save(r) \/ Answer(r) \/ Crash(r)
  \/ \E d \in Definitions, drifted \in BOOLEAN : Put(d, drifted) \/ Succeed(d, drifted)

Spec == Init /\ [][Next]_vars

-----------------------------------------------------------------------------
(* Properties.                                                             *)

Snapshot ==
  [generation : 0 .. MaxGenerations - 1, state : UNION {d.states : d \in Definitions},
   policy : Definitions,
   history : Seq([event : Events, source : UNION {d.states : d \in Definitions},
                  target : UNION {d.states : d \in Definitions}])]

\* The constructor of ProtocolSnapshot accepts every snapshot that is stored or saved.
WellFormed(s) ==
  /\ s \in Snapshot
  /\ Revision(s) <= MaxSteps
  /\ s.history # << >> => s.history[Revision(s)].target = s.state
  /\ \A k \in DOMAIN s.history :
       /\ s.history[k].event.policy = s.policy
       /\ k + 1 \in DOMAIN s.history => s.history[k].target = s.history[k + 1].source
       /\ \A j \in DOMAIN s.history : s.history[j].event.id = s.history[k].event.id => j = k

TypeOK ==
  /\ WellFormed(stored)
  /\ \A s \in receipts : WellFormed(s)
  /\ \A r \in Runner :
       /\ runner[r].pc \in {"idle", "stepping", "saving", "answering"}
       /\ runner[r].event \in Events \cup {None}
       /\ runner[r].expected \in 0 .. MaxSteps
       /\ IF runner[r].pc = "saving" THEN WellFormed(runner[r].next) ELSE runner[r].next = None
  /\ answered \subseteq Events

\* What the analysis says of a definition holds of every run of it, whatever the validators
\* do: no run reaches a state or takes a rule that a finding names.
RunsAsAnalyzed ==
  LET d     == stored.policy
      found == Findings(d)
  IN /\ stored.state \notin found.unreachable_states
     /\ \A k \in DOMAIN stored.history :
          \E q \in d.transitions \
                   (found.terminal_outgoing \cup found.denied \cup found.unreachable_rules) :
            /\ q.source = stored.history[k].source /\ q.target = stored.history[k].target
            /\ q.event = stored.history[k].event.kind

\* docs/ouroboros.md:80-84: a terminal state that was reached was reached by an event that
\* shows every authority and artifact the policy requires.
CompletionIsEarned ==
  stored.state \in stored.policy.terminal /\ stored.history # << >> =>
    stored.policy.required \subseteq stored.history[Revision(stored)].event.payload.shows

\* A run keeps to its definition, and what it completes it has shown.
RunsAsDefined == RunsAsAnalyzed /\ CompletionIsEarned

\* An event whose acceptance was reported, to the first caller or to one that asked again
\* after a crash, is in the history, and no event is in it twice.
AnsweredIsKept ==
  \A e \in answered : \E k \in DOMAIN stored.history : stored.history[k].event = e

\* The store moves by one accepted event, or from a finished generation to the next.
NoLostStep ==
  [][stored' # stored =>
       \/ /\ stored'.generation = stored.generation
          /\ Revision(stored') = Revision(stored) + 1
          /\ SubSeq(stored'.history, 1, Revision(stored)) = stored.history
       \/ /\ stored'.generation = stored.generation + 1
          /\ stored.state \in stored.policy.terminal]_vars

\* A generation has one receipt, whoever puts it and however often, and it validates.
OneReceipt ==
  \A s \in receipts :
    /\ ReceiptValid(s.policy, s)
    /\ \A t \in receipts : t.generation = s.generation => t = s

\* What the stores promised they keep, whoever crashed on the way.
PromisesAreKept == AnsweredIsKept /\ OneReceipt

\* conformance.py:33-43: the order in which invalid events are told apart.
FreshPrecedence ==
  <<"step_budget_exhausted", "unknown_state", "terminal_state", "unknown_event",
    "unknown_transition", "invalid_payload", "recovery_policy_denied",
    "completion_policy_failed">>

Applies(code, d, s, e) ==
  CASE code = "step_budget_exhausted"    -> Revision(s) = MaxSteps
    [] code = "unknown_state"            -> s.state \notin d.states
    [] code = "terminal_state"           -> s.state \in d.terminal
    [] code = "unknown_event"            -> e.kind \notin d.events
    [] code = "unknown_transition"       -> Rules(d, s, e) = {}
    [] code = "invalid_payload"          -> RuleOf(d, s, e).validator /\ e.payload.valid = "no"
    [] code = "recovery_policy_denied"   -> s.state \in RecoveryStates(d) /\
                                              <<s.state, e.kind>> \notin d.recovery
    [] code = "completion_policy_failed" -> RuleOf(d, s, e).target \in d.terminal /\
                                              ~ (e.payload.satisfied = "yes" /\
                                                 d.required \subseteq e.payload.shows)

\* The code a fresh event is rejected with is the first of the documented ones that applies,
\* unless the evaluator raised on the way.
DocumentedPrecedence ==
  \A e \in Events :
    LET d    == stored.policy
        code == Reply(d, FALSE, stored, e)
    IN Prior(stored, e) = {} /\ e.policy = d /\ code # "evaluator_failure" =>
         IF code = "accepted"
         THEN \A k \in DOMAIN FreshPrecedence : ~ Applies(FreshPrecedence[k], d, stored, e)
         ELSE \E k \in DOMAIN FreshPrecedence :
                /\ code = FreshPrecedence[k] /\ Applies(code, d, stored, e)
                /\ \A j \in 1 .. k - 1 : ~ Applies(FreshPrecedence[j], d, stored, e)
=============================================================================
