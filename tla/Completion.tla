----------------------------- MODULE Completion -----------------------------
(***************************************************************************)
(* From gate results to an authenticated completion: the runs of a cycle,  *)
(* its receipt and successor (ouroboros/schema.py of the mutation          *)
(* extension), and the assessment of a receipt against artifacts that a    *)
(* resolver fetches and an authority judges (completion.py and             *)
(* completion_io.py).                                                      *)
(*                                                                         *)
(* A behaviour is a lineage of generations, each with the four runs in     *)
(* order, every one a poll of the same locked gate under a correlation ID  *)
(* of its own, adapted by GateEvidence.  What EvidenceCycle says of the    *)
(* steps between the runs (lock, mutation, restoration, findings) is not   *)
(* said again: a run and a seal stand for the events that lead to them.    *)
(*                                                                         *)
(* A digest is the value it is taken of: a successor names its             *)
(* predecessor's receipt by holding it.                                    *)
(***************************************************************************)
EXTENDS GateEvidence

CONSTANTS
  Plans,           \* [gate, boundary]: what a cycle may lock
  MaxGenerations,  \* of the lineage's budget
  Readings,        \* bound: the reads under which a run is recorded
  MaxFaults        \* bound on the faulty answers during an assessment

ASSUME PlanAssumption ==
  /\ Plans \subseteq [gate : Gates, boundary : Boundaries]
  /\ MaxGenerations \in Nat \ {0}
  /\ Readings \subseteq [source : [reachable : BOOLEAN, complete : BOOLEAN, authentic : BOOLEAN],
                         observed : [Externals -> Answer]]
  /\ MaxFaults \in Nat

VARIABLES
  plan,      \* what the cycle has locked
  cycle,     \* its identity: [generation, previous], previous a receipt or None
  runs,      \* the runs recorded so far
  stage,     \* "collecting", "sealed" or "halted"
  store,     \* the artifacts ever written
  receipts,  \* the receipts issued, the latest last
  assessing, \* the assessment under way or ended, or None
  polls      \* for the properties only: what the engine said of each run, by generation

gateVars == <<stream, source, observed>>
lineage  == <<plan, cycle, runs, stage, store, receipts, polls>>
allVars  == <<gateVars, lineage, assessing>>

Order == <<"initial_red", "positive", "negative", "regreen">>

-----------------------------------------------------------------------------
(* The runs of a cycle.                                                    *)

Before == [reachable |-> TRUE, complete |-> TRUE, authentic |-> TRUE]
Unread == source = Before /\ observed = [x \in Externals |-> "none"]

NewPoll ==
  /\ stream' = << >>
  /\ source' = Before
  /\ observed' = [x \in Externals |-> "none"]

\* The store ingests what the run in progress emits, and the last poll of its gate reads it.
\* The first run of a lineage meets every reading, the later ones only those of Readings.
Observe ==
  /\ stage = "collecting" /\ assessing = None /\ Len(runs) < 4
  /\ Unread
  /\ Next
  /\ receipts # << >> \/ runs # << >> =>
       [source |-> source', observed |-> observed'] \in Readings
  /\ UNCHANGED <<lineage, assessing>>

Inconclusive(run) == run.outcome = "inconclusive" \/ run.observation = "inconclusive"

\* What the reducer asks of a run that follows the runs before.
Acceptable(run, before, boundary) ==
  /\ run.role = Order[Len(before) + 1]
  /\ run.run \notin {before[k].run : k \in DOMAIN before}
  /\ run.executed = IF run.role = "negative" THEN "mutated" ELSE run.lock
  /\ ~ Inconclusive(run) => run.outcome = Expected(run.role)
  /\ run.role \in GreenRole /\ ~ Inconclusive(run) =>
       run.observation = "present" /\ run.tier \in CompletionTier
  /\ run.tier = "external_verdict" => boundary.corroborated

NextRequest ==
  LET role == Order[Len(runs) + 1]
  IN [role |-> role, run |-> Len(runs) + 1, cycle |-> cycle, subject |-> Expected(role),
      lock |-> "locked", executed |-> IF role = "negative" THEN "mutated" ELSE "locked",
      boundary |-> plan.boundary]

\* The reducer takes a run of the artifact d.  An inconclusive run ends the cycle.
TakeRun(run, d) ==
  /\ Acceptable(run, runs, plan.boundary)
  /\ store' = store \cup {d}
  /\ runs' = Append(runs, run)
  /\ stage' = IF Inconclusive(run) THEN "halted" ELSE "collecting"

\* A poll ends, its result v is adapted and sent to the reducer.  A result that is refused
\* changes nothing: the caller may poll again.
RecordResult(v, q) ==
  /\ Adapts(v, q)
  /\ \E d \in {Document(v, q)} : ValidDocument(d) /\ TakeRun(RunEvidence(d), d)
  /\ polls' = [polls EXCEPT ![cycle.generation] =
                 Append(@, [ok |-> v.ok, tier |-> EvidenceTier(plan.gate),
                            sure |-> Readable /\ ProbeReachable(plan.gate)])]

RecordRun(settleEarly) ==
  /\ stage = "collecting" /\ assessing = None /\ Len(runs) < 4
  /\ [source |-> source, observed |-> observed] \in Readings
  /\ ~ Raises(plan.gate)
  /\ RecordResult(Verification(plan.gate, settleEarly), NextRequest)
  /\ NewPoll
  /\ UNCHANGED <<plan, cycle, receipts, assessing>>

-----------------------------------------------------------------------------
(* The receipt of a sealed generation.                                     *)

\* Mutant: the budget is taken for the last generation.
RoomForLast(generation) == generation <= MaxGenerations

\* The generation a seal with changed material names must fit the budget.
RoomFor(generation) == generation < MaxGenerations

Receipt(successor) ==
  [status |-> IF successor THEN "superseded" ELSE "complete",
   cycle |-> cycle, boundary |-> plan.boundary, lock |-> "locked", runs |-> runs]

RunVocabulary ==
  [role |-> RunRole, outcome |-> {"red", "green", "inconclusive"},
   observation |-> {"present", "absent", "inconclusive"},
   tier |-> CompletionTier \cup {"local_pass", "emitted"}]

ReceiptShape(r) ==
  /\ r.status \in {"complete", "superseded"}
  /\ (r.cycle.generation = 0) = (r.cycle.previous = None)
  /\ \A k \in DOMAIN r.runs : \A f \in DOMAIN RunVocabulary :
       r.runs[k][f] \in RunVocabulary[f]

\* validate_receipt replays the events of the trace; what it can find wrong with the runs
\* and the lineage.
ValidReceipt(r) ==
  /\ ReceiptShape(r)
  /\ Len(r.runs) = 4
  /\ \A k \in 1 .. 4 :
       /\ Acceptable(r.runs[k], SubSeq(r.runs, 1, k - 1), r.boundary)
       /\ ~ Inconclusive(r.runs[k])
       /\ r.runs[k].lock = r.lock
  /\ r.status = "superseded" => RoomFor(r.cycle.generation + 1)

Seal(successor) ==
  /\ stage = "collecting" /\ assessing = None /\ Len(runs) = 4
  /\ successor => RoomFor(cycle.generation + 1)
  /\ ValidReceipt(Receipt(successor))
  /\ stage' = "sealed"
  /\ receipts' = Append(receipts, Receipt(successor))
  /\ UNCHANGED <<gateVars, plan, cycle, runs, store, assessing, polls>>

SuccessorOf(r) == [generation |-> r.cycle.generation + 1, previous |-> r]

StartSuccessor ==
  LET r == receipts[Len(receipts)]
  IN /\ stage = "sealed" /\ assessing = None
     /\ ValidReceipt(r) /\ r.status = "superseded"
     /\ RoomFor(r.cycle.generation + 1)
     /\ cycle' = SuccessorOf(r)
     /\ runs' = << >>
     /\ stage' = "collecting"
     /\ plan' \in Plans
     /\ UNCHANGED <<gateVars, store, receipts, assessing, polls>>

-----------------------------------------------------------------------------
(* The assessment of a receipt.                                            *)

Vouching == [known |-> TRUE, authentic |-> TRUE, independent |-> TRUE]

\* What an authority may say of an artifact, beside raising: it vouches, or it does not on
\* one count, or it is not the authority that was expected.
Judgement ==
  {Vouching} \cup {[Vouching EXCEPT ![f] = FALSE] : f \in DOMAIN Vouching}

\* An authority that says nothing does not vouch.
ASSUME JudgementAssumption == None \notin Judgement

\* The policy selects the four roles of a complete receipt, with an artifact each.
Required(r) ==
  /\ ValidReceipt(r) /\ r.status = "complete"
  /\ \A j, k \in 1 .. 4 : r.runs[j].artifact = r.runs[k].artifact => j = k

StartAssessment(k) ==
  /\ stage # "collecting" /\ assessing = None
  /\ k \in DOMAIN receipts
  /\ assessing' = [receipt |-> receipts[k], next |-> 1, shellFailed |-> FALSE,
                   resolved |-> << >>, faults |-> 0, refused |-> ~ Required(receipts[k])]
  /\ UNCHANGED <<gateVars, lineage>>

Assessing == assessing # None /\ ~ assessing.refused /\ assessing.next <= 4

Wanted == assessing.receipt.runs[assessing.next]

\* Mutant: the predecessor is left out of the identity.
CycleOfGeneration(r) == [r.cycle EXCEPT !.previous = None]

CycleOf(r) == r.cycle

\* The bytes of d are those the run names, and bind it.
Binds(d, run, r) == d = run.artifact /\ ValidFor(d, run, CycleOf(r), r.boundary)

\* Nothing comes of an artifact; an exception of a port is an error of the assessment.
Lose(failed) ==
  /\ Assessing
  /\ assessing.faults < MaxFaults
  /\ assessing' = [assessing EXCEPT !.next = @ + 1, !.shellFailed = @ \/ failed,
                     !.resolved = Append(@, None), !.faults = @ + 1]
  /\ UNCHANGED <<gateVars, lineage>>

\* The resolver or the authority raises; the resolver knows no such artifact.
PortRaises     == Lose(TRUE)
ResolverMisses == Lose(FALSE)

\* The resolver answers with the bytes of d, and the authority judges them.
Resolve(d, judgement) ==
  LET right == Binds(d, Wanted, assessing.receipt)
      fault == d # Wanted.artifact \/ judgement # Vouching
  IN /\ Assessing
     /\ d \in store
     /\ assessing.faults + (IF fault THEN 1 ELSE 0) <= MaxFaults
     /\ assessing' =
          [assessing EXCEPT
             !.next = @ + 1,
             !.shellFailed = @ \/ ~ right,
             !.resolved = Append(@, IF right THEN judgement ELSE None),
             !.faults = @ + (IF fault THEN 1 ELSE 0)]
     /\ UNCHANGED <<gateVars, lineage>>

\* Mutant: a role whose artifact was not found is passed over.
RunSatisfiedIfFound(judgement) == judgement = None \/ judgement = Vouching

\* The policy asks for the expected authority, for authentication and for independence.
RunSatisfied(judgement) == judgement = Vouching

Assessed == assessing # None /\ (assessing.refused \/ assessing.next > 4)

Satisfied ==
  /\ Assessed /\ ~ assessing.refused /\ ~ assessing.shellFailed
  /\ \A k \in 1 .. 4 : RunSatisfied(assessing.resolved[k])

EndAssessment ==
  /\ Assessed
  /\ assessing' = None
  /\ UNCHANGED <<gateVars, lineage>>

Assess ==
  \/ \E k \in DOMAIN receipts : StartAssessment(k)
  \/ PortRaises
  \/ ResolverMisses
  \/ \E d \in store, judgement \in Judgement : Resolve(d, judgement)
  \/ EndAssessment

-----------------------------------------------------------------------------
CompletionInit ==
  /\ Init
  /\ plan \in Plans
  /\ cycle = [generation |-> 0, previous |-> None]
  /\ runs = << >> /\ stage = "collecting"
  /\ store = {} /\ receipts = << >> /\ assessing = None
  /\ polls = [n \in 0 .. MaxGenerations - 1 |-> << >>]

CompletionNext ==
  \/ Observe
  \/ \E settleEarly \in BOOLEAN : RecordRun(settleEarly)
  \/ \E successor \in BOOLEAN : Seal(successor)
  \/ StartSuccessor
  \/ Assess

CompletionSpec == CompletionInit /\ [][CompletionNext]_allVars

-----------------------------------------------------------------------------
(* Properties.  The first three are about gates alone, and are looked at   *)
(* where a gate meets every reading.                                       *)

FirstPoll == receipts = << >> /\ runs = << >>

\* gate_adapter.py:843: whatever the adapter accepts, the validator accepts; a document is
\* never built only to be found invalid, and its run record matches it.
AdaptedIsValid ==
  FirstPoll => \A g \in {x \in Gates : ~ Raises(x)} :
    \A v \in {Verification(g, FALSE)}, q \in Requests : Adapts(v, q) =>
      ValidFor(Document(v, q), RunEvidence(Document(v, q)), q.cycle, q.boundary)

\* gate_adapter.py:459-485 and gate.py:1160-1227: the tier the adapter recomputes from the
\* sealed checks is the tier the engine gives the gate.
TierIsTheEngines ==
  FirstPoll => \A g \in Gates : ~ Raises(g) => AdaptedTier(Verification(g, FALSE)) = EvidenceTier(g)

\* gate_adapter.py:733-760: a genuine bounded-final result for the right role is refused
\* only because its subject did not do what the role is to show, because it is red by
\* policy alone, because its evidence is too weak, because the boundary does not name its
\* reader, or because it is green while a probe could not be reached.
RefusedForAReason ==
  FirstPoll => \A g \in {x \in Gates : ~ Raises(x)} :
    \A v \in {Verification(g, FALSE)}, tier \in {EvidenceTier(g)}, q \in Requests :
      RightRequest(q) /\ q.boundary.emit = Emitter /\ ~ Adapts(v, q) =>
        \/ /\ Readable /\ ProbeReachable(g)
           /\ \/ Ok(g) # (q.subject = "green")
              \/ q.subject = "red" /\ RequiredOk(g)
              \/ q.subject = "green" /\ tier \in {"local_pass", "emitted"}
        \/ /\ tier = "external_verdict"
           /\ \/ ~ q.boundary.corroborated
              \/ \A p \in Corroborated(g) : Reader[p[2].rule] # q.boundary.read
        \/ Ok(g) /\ ~ ProbeReachable(g)

\* gate_adapter.py:733-779 and reducer.py:207-273: what the adapter accepts for the next run
\* of a cycle the reducer accepts too, inconclusive or not.
AdaptedRunIsAccepted ==
  stage = "collecting" /\ Len(runs) < 4 =>
    \A settleEarly \in BOOLEAN : ~ Raises(plan.gate) =>
      \A v \in {Verification(plan.gate, settleEarly)}, q \in {NextRequest} :
        Adapts(v, q) => Acceptable(RunEvidence(Document(v, q)), runs, plan.boundary)

\* gate_adapter.py:843-870: the engine, the adapter, the validator and the reducer judge a
\* gate alike: what one of them accepts none of the others refuses.
CodingsAgree == AdaptedIsValid /\ TierIsTheEngines /\ AdaptedRunIsAccepted

\* completion.py:1-8: a satisfied assessment rests, for every role, on the very artifact of
\* a poll of this generation that found by a complete read and reachable probes what the
\* role is to show, and on an authority that vouched for it.
SatisfiedRestsOnGates ==
  Satisfied =>
    /\ assessing.faults = 0
    /\ \A k \in 1 .. 4 :
         LET poll == polls[assessing.receipt.cycle.generation][k]
         IN /\ poll.sure
            /\ poll.ok = (Order[k] \in GreenRole)
            /\ Order[k] \in GreenRole => poll.tier \in CompletionTier

\* completion_io.py:36-84: nothing but a missing or foreign artifact, a port that raises or
\* an authority that does not vouch keeps a complete receipt from satisfying the policy,
\* in whatever generation it was issued.
HonestCompletes ==
  Assessed /\ assessing.receipt.status = "complete" /\ assessing.faults = 0 => Satisfied

\* completion.py:1-8: the policy is satisfied when, and only when, every run is vouched for.
CompletionIsExact == SatisfiedRestsOnGates /\ HonestCompletes

\* schema.py:716-744: the receipts of a lineage form one chain within the budget, each
\* generation naming the receipt of the one before.
LineageUnbroken ==
  LET Predecessor(n) == IF n = 0 THEN None ELSE receipts[n]
  IN /\ cycle.generation \in {Len(receipts), Len(receipts) - 1}
     /\ cycle.generation < MaxGenerations
     /\ cycle.previous = Predecessor(cycle.generation)
     /\ \A n \in DOMAIN receipts :
          /\ receipts[n].cycle = [generation |-> n - 1, previous |-> Predecessor(n - 1)]
          /\ n < Len(receipts) => receipts[n].status = "superseded"
=============================================================================
