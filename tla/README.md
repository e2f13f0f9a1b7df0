# Verification of ooptdd in TLA+

ooptdd judges a program by the events that *arrive* in a store, not by what the
program says of itself. A gate is a list of checks; each check is an automaton that
reads the events one by one; a poller reads a store that lags, throttles and truncates
until the gate can be judged. A pytest plugin ships a session's results and reads them
back; a signing chain tells whether what came back is what was sent. On top, a reducer
runs a bounded mutation-evidence cycle whose runs are such gates, issues receipts and
starts successors; tools grade gates by mutants and by their specs. This directory
models these parts, checks them with TLC on small instances, and proves their safety
properties with TLAPS, for every value of the constants.

Paths below are relative to the repository; `.../ouroboros` is
`extensions/ooptdd-mutation/src/ooptdd_mutation/ouroboros`.

## The system's parts

| Part | State it keeps | Operations | Modules |
|---|---|---|---|
| Mutation evidence cycle (`.../ouroboros/reducer.py`, `model.py`) | `CycleSnapshot`: phase, journal, effects, lock, runs, mutation flags, findings, pending reason | `step(snapshot, event)`: 13 event kinds, replay, collision, budget | `EvidenceCycle`, `MutationSafety` |
| Receipt v2, completion policy, lineage (`.../ouroboros/gate_adapter.py`, `schema.py`, `completion.py`, `completion_io.py`) | sealed evidence documents, receipts | `adapt_gate_verification`, `validate_gate_evidence`, `receipt_from_snapshot`, `successor_from_receipt`, `assess_completion` | `GateEvidence`, `Completion` |
| Generic kernel (`src/ooptdd/ouroboros/`) | `ProtocolSnapshot`, the two stores behind the ports | `step`, `start_successor`, receipts, `analyze_definition`, compare-and-swap | `ProtocolKernel` |
| Arrival poller (`src/ooptdd/engine/verify.py`, `polling.py`) | attempt, last read, elapsed time, confirming rounds | `poll_until_present`, `verify_gate` | `ArrivalPoller` |
| LTL3 monitors (`src/ooptdd/engine/monitor.py`) | per check: verdict and a small counter | `step`, `collapse`, `LiveMonitorSet.feed` | `Automata`, `Monitors` |
| Gate kernel and rules (`gate_kernel.py`, `gate_rules.py`, `gate.py`) | none | `judge_events`, quorum, optional and pending checks, policies, tiers, settling; `expand_rules`, `strength_fingerprint`, `compare_strength`, `lint_spec`, `combine_results` | `Gate`, `GateStrength`; partly |
| Backends (`src/ooptdd/backends/`, `domain/ports.py`) | rows per correlation id | `ship`, `query`, `query_spec`, `fetch_all_pages` | `Readback`; partly |
| pytest adapter (`plugin.py`, `adapters/pytest.py`, `pytest_cli.py`) | reports, heartbeat, summary, the poll | the plugin's hooks, `verify_trace`, `verify_policy`, `ooptdd verify` | `Session`; partly |
| Signing chain (`domain/model.py`) | records linked by MACs | `sign_chain`, `verify_chain` | `ChainReader` |
| Trajectory extension (`extensions/ooptdd-trajectory`) | none | matchers, three scores, forbidden tools and calls | `Trajectory` |
| Mutation analysis (`ooptdd_mutation/analysis.py`) | a report | `derive_mutations`, `mutation_report`, `verify_audit_ranking` | `MutationReport`; partly |
| Probes | none | an answer, or unreachable | an input of `ArrivalPoller` and `Gate`; partly |
| Rest of the CLI, configuration, ontology, genai extension, scripts | - | - | not modelled |

**Interaction.** The poller calls a driver through `fetch` and hands every read to the
gate (`evaluate_events`), which feeds the events to one monitor per check. The pytest
plugin ships through the same drivers it later reads from, and the command line repeats
its reading from another process. The mutation extension takes the result of
`verify_gate` apart, seals it as a document, and the cycle takes the document's run
record; a receipt is assessed later against documents that a resolver fetches and an
authority vouches for. Nothing in the repository schedules the cycle or the generic
kernel: `step` is pure, and who keeps the snapshot is a port.

**What is hard.** For the cycle: the order of the checks before any handler, the faults
that arrive while the mutation is in the tree, the budget that may run out anywhere, and
replays. For receipts: one judgement coded three times, artifacts of another generation,
ports that fail half-way. For the generic kernel: two runners over one revision, a crash
between the save and the answer, a successor whose revisions start over. For the poller:
reads that are evaluated earlier than they return, offenders after the last read,
Retry-After, three loops that share one read. For the drivers: rows that appear between
two pages, caps that fall on a page boundary, torn files and garbled bodies. For a
session: batches lost in part, rows that come late and in any order, summaries of other
sessions. For the monitors: a verdict latched on a prefix must survive every
continuation, while three clocks (`_emit_seq`, the time stamp, `_seq`) decide what came
before. For the gate: which checks have a say, which may settle a poll, what a green has
been earned by, and which edits of a spec go unnoticed. For the tools: greedy matching,
partial credits, mutants that cannot die. `PROJECT.json` lists each hazard at its line.

**What makes each part correct.** A property with a list in brackets is the conjunction
of the named parts.

| Part | Properties |
|---|---|
| Evidence cycle | a seal is earned (`SealIsEarned`: `SealedEvidence` - four conclusive runs under one lock, read back; `SealedFindings` - every finding disposed of, a successor the generations have room for); the source is restored before a cycle ends (`SourceRestored`, `ImplementsSafety`); the first cause survives recovery (`FirstCauseKept`); the journal is bounded (`RevisionBounded`); a terminal cycle is final (`TerminalIsFinal`); answers hold (`AnswersHold`: `OneIdentityConflict`, `ReplayReturnsOriginal`, `RefusedRestoreHasAWayOut`); a fair caller ends (`EventuallyTerminal`) |
| Receipts and lineage | engine, adapter, validator and reducer agree on every gate result (`CodingsAgree`: `AdaptedIsValid`, `TierIsTheEngines`, `AdaptedRunIsAccepted`), and a genuine result is refused for five named reasons only (`RefusedForAReason`); a satisfied assessment rests on a vouched poll for every role and nothing else is needed (`CompletionIsExact`: `SatisfiedRestsOnGates`, `HonestCompletes`); the receipts form one chain within the budget (`LineageUnbroken`) |
| Generic kernel | what the analysis finds unreachable or denied no run does, and a completion has shown what the policy requires (`RunsAsDefined`: `RunsAsAnalyzed`, `CompletionIsEarned`); a reported acceptance is in the history and a generation has one receipt (`PromisesAreKept`: `AnsweredIsKept`, `OneReceipt`); the store moves one accepted event at a time (`NoLostStep`); rejections follow the documented order (`DocumentedPrecedence`) |
| Poller | lag is not absence (`LagIsNotAbsence`), a late offender is caught (`LateOffenderCaught`), an early green is final (`IrrevocableIsFinal`), throttling is respected between attempts (`RetriesHonourThrottle`), every call returns (`EventuallyReturns`) |
| Monitors | latched verdicts are final (`SettledIsFinal`: `SatIsFinal`, `ViolIsFinal`; `ComparableInversionIsFinal` for orders that failed, where one authority compares all their names), collapse is the batch verdict (`CollapseIsBatch`), a count commits as soon as it can, `!=`, fractional `==` and what is inevitable from the start excepted (`CommitsAtOnce`) |
| Gate | a settled green stays (`SettledGreenStays`); checks without authority decide nothing, a tier has a witness and a gate that only grows settles when it is green (`AuthorityDecides`: `ObservationsDontGate`, `TierHasWitness`, `GrowingGreenSettles`) |
| Specs | an edit that turns a red gate green is reported, a clean lint licenses no failing expectation that weighs anything, and a combination needs each of its gates (`EasingIsNoticed`: `WeakeningIsFlagged`, `CleanLintLicensesNothing`, `CombinedNeedsEach`) |
| Backends | a read whose pages came in one order is complete exactly when it has every row that was to be seen (`CompleteIsExact`: `CompleteMissesNothing`, `FullReadIsComplete`) |
| pytest adapter | a verdict says what is so of this session (`VerdictIsHonest`: `ConfirmedRestsOnThisSession`, `LossIsNamed`, `SummaryTellsTheWorst`); the build fails for a loss, never for a store that could not say (`BuildFailsForALoss`: `FailsOnlyOnAMiss`, `OutageNeverFailsTheBuild`), and in strict mode for every lost summary that a complete read shows to be lost (`StrictCatchesLoss`) |
| Signing chain | a chain is authentic exactly when it is what was signed, up to a cut end without an anchor (`ChainIsExact`: `AuthenticIsPrefix`, `WholeChainIsAuthentic`) |
| Trajectory | each mode is the best assignment of its kind, the modes are a ladder, unreadable arguments never help (`CallsAreMatched`: `OrderedIsBestInOrder`, `SubsetIsBestByName`, `ModesAreALadder`, `UnreadableNeverHelps`) |
| Mutation analysis | mutants that must die die, survivors mark blind spots (`MutantsDie`: `InjectionsAreCaught`, `SurvivingRenameHasADouble`, `ExactMutantsDie`, `RequiredDropsDie`); a report that passes the audit was made of the calls it is audited against (`AcceptedIsOfThisStream`) |

## Modules

    MutationSafety          what a cycle promises about the source tree
      ^ refined by
    EvidenceCycle           the reducer
      ^ extended by         MCEvidenceCycle (TLC), EvidenceCycleProofs (TLAPS)

    ProtocolKernel          generic reducer, stores, runners
      ^ extended by         MCProtocolKernel (TLC), ProtocolKernelProofs (TLAPS)

    ArrivalPoller           the poller, the store and the observed system
      ^ extended by         MCArrivalPoller (TLC), ArrivalPollerProofs (TLAPS)

    Sums                    the sum of some numbers of a sequence
      ^ extended by
    Automata                the monitor classes: start, step, collapse
      ^ extended by
      Monitors              a bank of monitors fed one event at a time
        ^ extended by       MCMonitors (TLC), MonitorsProofs (TLAPS)
      Gate                  gates over the automata, the read and the probes
        ^ extended by       MCGate (TLC)
        GateEvidence        the adapter and the validator of a gate result
          Completion        runs, receipts, successors, assessment
            ^ extended by   MCCompletion (TLC), CompletionProofs (TLAPS)
        GateStrength        specs: expansion, strength, weakening, lint
        Trajectory          tool calls: matchers, scores, forbidden calls
          MutationReport    mutants of a gate, the report and its audit
        GateAudit           (GateStrength + MutationReport) over one store
          ^ extended by     MCGateAudit (TLC), GateProofs (TLAPS)

    Readback                the drivers: ship, index, query, page, fail
      ^ extended by
      Session               a pytest session and the command line
      ChainReader           a producer of signed batches and a verifier
        ^ composed in
      Clients               one store, one of the two clients
        ^ extended by       MCClients (TLC), ClientsProofs (TLAPS)

    Induction               least counterexamples, recursive functions, sums, places;
                            used by MonitorsProofs, GateProofs and ClientsProofs

A definition that begins with `\* Mutant:` is the neighbour's definition with a plausible
bug. It is used nowhere; it is there to be put in the neighbour's place, and every part
of a conjunction has one that breaks it. `PROJECT.json` pairs one with each property.

### EvidenceCycle

One behaviour is one generation. Each variable is a field of `CycleSnapshot`
(`reply` is the rest of `TransitionResult`), except that `changed` caches
`change_evidence is not None` over the dispositions. Each handler of `step` is an
action of `Progress`; the faults are `Faults`; everything that returns the
snapshot it was given is in `Unchanging`. The five tests that precede every
handler appear as guards: `Admitted` is what an event has passed when it reaches
its handler. `Commit`, `Halt` and `TakeRun` are `_commit`, the shape shared by
`_fault_transition`, `_interrupt` and the inconclusive half of `_commit_run`, and
`_commit_run`.

The caller is unconstrained: any kind of event in any phase, any ID used before
or a new one, any payload from the sets of the configuration. IDs, intent hashes,
run IDs and namespaces are compared with `=` only, so each is a number named in
order of first use.

### ProtocolKernel

A definition is a record of states, events, rules, recovery pairs and what completion
requires; what its constructor insists on is the assumption on the constant. `Reply` is
the chain of rejections of `step` in its order, `Advance` its acceptance. The evaluator
of a rule is what the payload says it does: accept, refuse or raise. `Findings` is
`analyze_definition`. The repository declares the `SnapshotStore` and `ReceiptStore`
ports and has no runner over them, so the model's runner is the least one: load, step,
compare-and-swap, answer, start over after a lost race, and crash at any of these
moments. A definition may be replaced by another version and an evaluator may drift,
which the digests detect. `Succeed` waits until no runner has a save or an answer
outstanding: the port compares revisions only and a successor restarts them, which the
repository itself names an obligation it does not meet (`RUNTIME-CAS-070`).

### GateEvidence and Completion

`Verification` (by way of `Result`) is what `verify_gate` returns; `Adapts` and `Document` are
`adapt_gate_verification`, whose `Projected...` operators recompute from the sealed checks
what the result says; `ValidDocument` is the third coding, over the document alone. In
`Completion` a run and a seal stand for the events of `EvidenceCycle` that lead to them,
so that the lock, the mutation and the findings are not told twice: `Acceptable` is what
the reducer asks of the next run. Receipts, successors and the assessment are actions; an
assessment looks at one run after the other, and the resolver may miss, return any
document ever written or raise, and the authority may deny or raise, up to `MaxFaults`
times. A digest is the value it is taken of.

### ArrivalPoller

`Receive` is `_read`; the four ways on from a read are `Settle`, `Retry`,
`Extend`, `Confirm` and the end `Conclude`. Between `Send` and the answer, and
during a sleep, time passes (`Tick`), and the observed system emits (`Emit`): an
event is accepted now and visible within the declared delay. `Answers` is what a
driver may return: all the matching rows, some of them with `complete` unset, or
unreachable, with a Retry-After in the last two cases. The store evaluates a
query at any moment between sending and return.

A gate is one of five kinds: `counts` (lower-bound counts and presence, which
latch SAT), `absence` (anything a later event can revoke), `order`, `signed`, and
`external` (a check with a probe and no monitor verdict).

Time is discrete, a sleeper sleeps exactly what it is asked to, and the clock the
poller reads is monotone. A query takes at most `Latency`.

### Automata and Monitors

`Automata` has, for each class of `monitor.py`, its fields as a record, a start,
a step and a predicate for the collapse. A matcher is the set of events it
matches; `absent`, `duration` and `conforms` are one automaton over a set of
matched events of which some are fine; a fractional target is kept doubled.
`Monitors` is `LiveMonitorSet`: `Feed` steps every monitor with one event.
`run_monitor`, the batch path, is the same feed over a sorted stream, so every
stream in any order covers both. The automata keep computing after they have
latched, as the code does, which is why a latched verdict and a collapse can
differ, and why that they do not is a property.

### Gate

One state is what `judge_events` is given: the events ingested so far (kept in
the order they are judged in: `Ingest` inserts by `stream_key`), the reachability
and completeness of the read, whether its chain is authentic, and what the probes
of external checks answered. `Run` folds the automaton of a check over the
events; the outcome of a gate (`Ok`, `Verdict3`, `SettledGreen`, `EvidenceTier`)
is a function of that state. A gate is a list of checks, a quorum, and the
policies a configuration may turn on.

### GateStrength, Trajectory, MutationReport, GateAudit

`GateStrength` goes from a spec to a gate (`ResolvePolicy`, the automatic checks, the
order they are added in), to its fingerprint and lint, and combines results. A where
clause is what makes a matcher smaller than the events of its names. The edits of
`Weakenings` are those the comparison is meant for: a check is left out, marked or loses its
where clauses, the quorum falls, a wing that was asked for is given up, an error is allowed.
Giving a wing that was refused back to the environment is none of them: it may add a check
that passes, which under a quorum can outweigh one that fails. A check that weighs nothing
may fail under a quorum of 100, which `gate_settle` has a spec for.

`Trajectory` scores in whole Units instead of floats, and keeps the code's way of
computing: a greedy claim for `subset`, a table for `ordered`, position by position for
`exact`; the properties compare them with all assignments. What the constructors of the
rules validate is the assumption on `ToolGates`.

`MutationReport` derives the mutants of a gate from the calls or events that arrived,
with the code's bindings and its first suitable corruption; `Caught` judges the gate
again over the mutated events, in the order in which it judges any: where events carry a time
stamp or a sequence number (`Stamped`), `judge_events` sorts two swapped calls back, so a
reorder mutant of them is derived and survives (`SwappedStamps`, `Judged`). No property is
about the reorder mutants. `GateAudit` puts both over one store. No rule reads tool
calls and other events, so the first arrival decides which of the two a behaviour has.

### Readback, Session, ChainReader, Clients

A store is a log of rows under one correlation id and the set of rows it shows. Memory and
JSONL show a row at once (a full disk leaves a prefix of the batch and half a line, to
which the next batch is glued); a network store may refuse a batch, take it and fail to say
so, or lose any part of it and answer 200, and indexes a row whenever it likes. A read
begins (`BeginRead`), takes a page at a time, with indexing in between, and ends in one
result; each driver has its own end condition, cap and reaction to a failure. No statement
the drivers send has an ORDER BY, so a network store chooses an order for every request
(`Orders`, `TurnPage`): oldest or newest row first, which is enough for one page to repeat a
row of the page before it and to leave another out. `mixed` says of a read that its pages did
not all come in one order. What is claimed of such a read is less: that it has no fewer rows
than the store showed when it began, not that it has those rows (`CompleteMissesNothing`).
So a session read that way may be turned red, or have a loss named, for a record that was
there; `FailsOnlyOnAMiss` and `LossIsNamed` are about reads in one order.

`Session` is the plugin from the collection to the exit status: the heartbeat, the
reports, the batch with the signed summary, and `verify_trace` over the polls, which decides
from every read with what the reads before it have left (`queried_ok`, `saw_start`).
`Recheck` is the command line reading again. `Killed` ends a session at any moment before.
`EvaluatePrefix` returns the verdict of a read, `VerifyPolicy` what it means for the build. The
sleeping between two polls is `ArrivalPoller`'s matter; here the store just takes its steps
between them. What the store indexes while nobody reads is left to the next read, which
sees the same.

`ChainReader` ships batches of signed records and verifies what any driver, in one query or
page by page, brings back. A MAC is the triple it authenticates, so that nobody without the
key makes one.

## Runs

| Run | Expectation | Distinct states | What it shows |
|---|---|---|---|
| `cycle_progress` | pass | 140 000 | well-formed snapshots; what a seal rests on, with two findings, a claimed external verdict, and a successor |
| `cycle_faults` | pass | 83 000 | every fault at every step, for ten budgets; refinement of `MutationSafety`; a fair caller gets to a terminal phase |
| `kernel_race` | pass | 109 000 | two runners and crashes over one store, two versions of a definition, two generations |
| `receipts` | pass | 16 800 | nine gates under every reading through three codings of the judgement; two generations to a satisfied or refused assessment |
| `poller_safety` | pass | 579 000 | lag, throttling, truncation, late offenders; every call returns |
| `poller_slow` | violation | - | slow reads: lag becomes absence |
| `monitors_feed` | pass | 37 000 | what has settled stays settled, collapse is the batch verdict, counts commit at once |
| `monitors_mixed` | violation | - | a settled inversion is undone when only some events are stamped |
| `gate_settle` | pass | 9 600 | early greens, authority, tiers; edits of specs; matching of tool calls; mutants and audits |
| `gate_optional` | violation | - | an optional check whose probe is down decides the verdict |
| `session` | pass | 1 696 000 | seven drivers under seven sessions and under a reader of chains, with lost, late and repeated rows, outages, throttling, garbled bodies |
| `session_partial` | violation | - | a session with missing records is confirmed |

**Bounds.** The cycle needs no artificial bound: the journal is at most
`max_steps + 2` long because of the budget (that is `RevisionBounded`), and the
names are bounded by the journal. A full cycle with one finding takes 12 steps,
with two 13; budgets 1 to 9 put the exhaustion of the budget after each step up
to the end of the mutation. Two sources suffice to tell locked from mutated; a
third is a wrong one. Symmetry is over sources, findings and runners, which the actions
never order, and only in runs without liveness properties.

In `ProtocolKernel` three steps are one more than a repair and an approval take, two runners
are the least that race, and the events hold each way to be invalid and two IDs used for
several intents. In `Completion` two generations are the least with a predecessor, and the
two plans give each of the two tiers a cycle completes with here, one of them by a fact of
an external source; the nine gates of the three codings are judged while the first run is
read, which meets every reading. One faulty answer suffices, since an assessment that met
one cannot be satisfied.

In `ArrivalPoller` time is bounded by the loops themselves and `Horizon` is the last time
anything is emitted; two attempts, one confirming round and a visibility delay of 3 leave
both the extension and the confirmation a case to decide. The lookback is 4, one more than
the visibility delay: the read that follows the extension still has an event accepted before
the call in its window, so a poller that judged the read before it, or never read again,
would be seen to report lag as absence. The confirming round waits for 2, so the last read
of a revocable green is at 6 at the earliest, the call having started at 1: an offender
accepted at 1 or 2 has to be caught by it, one accepted at 0 has left the window by then,
and one accepted later may escape. One wanted event and one offender are enough, because a
gate only asks whether all of the first and any of the second is there.

`Monitors` feeds streams of up to five events out of eight: an order over three
names with an event between two that were compared, a heartbeat with both edges,
a count one past its target and reductions over values that cancel all fit.
`Gate` ingests three events, enough for an order that holds and is then undone by
a late one; two reads and every answer of the probe are always possible. Three tool calls
meet rules of up to three expected calls: enough for a duplicate, for a call out of order,
and for a partial credit that a better alignment skips.

In `Clients` a page has two rows and the cap is three, no multiple of it; a session ships up
to five rows, so a read ends on a page, within one, on the cap and beyond it, and where no
order is asked for its two pages may come in two orders. Two polls are the least with an
earlier read to remember. A batch of three signed records can lose its
end, its middle and its order, and a second batch starts a chain of its own.

**Deadlock.** Checked for `GateAudit`, `Gate` and `ProtocolKernel`, where a read, a report
or a delivery is always possible. The other configurations switch it off, because the
system stops: `ArrivalPoller` when the call returns, `Monitors` when the stream is as long
as the bound, `Clients` when the session has ended and was read again or the chain is
checked, `Completion` when the budget of generations is used and assessed. In
`EvidenceCycle` a terminal snapshot still answers, but a call that changes nothing is a
stutter.

**Fairness.** The reducer has no scheduler. `EvidenceCycle!FairSpec` is the caller
that `.../ouroboros` documents as required: it keeps cancelling a cycle it has
given up on, and keeps delivering the restoration a `restore_required` effect asks
for. No fairness is put on ordinary progress. `ArrivalPoller!FairSpec` is weak
fairness of time and of the poller's own steps: it is sequential code in one
thread that only the driver's timeout and the sleeper can hold up. The observed
system and the store owe nothing. No fairness is stated for runners of the generic kernel,
which the repository leaves to its users, nor for a session: its loops are bounded, and
that a paged read makes way is part of `ReadbackOK`.

## Findings

1. `verify.py:160` - the blind-window guard measures the elapsed time after the
   read returned, not when it was evaluated (`poller_slow`).
2. `monitor.py:407` - neighbours are compared by `_emit_seq` when both have it
   and by time otherwise; an inversion that has latched VIOL may pass at the
   collapse (`monitors_mixed`).
3. `gate_kernel.py:270` - an optional or pending check whose probe is down makes a
   red gate inconclusive instead of absent (`gate_optional`).
4. `adapters/pytest.py:185` - the partial-loss check compares the number of records, up to
   three a test, with the number of tests (`session_partial`).

Smaller disagreements met on the way, for which there is no run.

Cycle and kernel
- `reducer.py:319`: a restoration that finds the budget spent skips RECOVERY_REQUIRED, which
  `docs/ouroboros/ooptdd_mutation/README.md:337-340` promises.

Poller and monitors
- `verify.py:163`: the extension and the confirming rounds ignore a pending Retry-After,
  which `domain/ports.py:146-147` calls the earliest time to come back.
- `verify.py:313` gives the verdict of the last read, while its docstring says
  inconclusive means *never* reachable or *every* read truncated.
- `monitor.py:223` never settles a `!=` count as satisfied, and neither flags
  `!= 1.5` as a tautology (246) nor settles `== 1.5` as failed at once, although
  12-15 promises the instant a verdict is inevitable. Of the counts that are inevitable
  before the first event only `>=` is settled then; `> -1` waits for the first match.
- `monitor.py:415`: a concurrency window over three names compares neighbours only, so it
  lets a latched inversion pass as finding 2 does: with a window of 1, a at 4 and c at 2
  have latched VIOL when b arrives, stamped 3.
- `monitor.py:265`: a present rule with no matchers passes over nothing and gates, is not
  flagged as a tautology, and settles at the first event only.

Gates and specs
- `gate_kernel.py:153` raises for a gate with a threshold whose checks are all optional,
  which `docs/ci_mutation_gate.md:132-133` says is reported as vacuous.
- `verify_gate` answers present for a green gate whose optional probe is down, and
  `adapt_gate_verification` then refuses the result.
- `lint_spec` misses a `count: 0` written without `op`, though `gate.py:1065` says that VAC4
  matches the full tautology set.
- `compare_strength` does not notice `require_independent_store`, `pin_service`, weights, a
  wing of the environment switched off by an explicit false, an `allow_errors` entry
  replaced by a wider one, or one where clause of several dropped from a present rule; its
  list of classes has no external, threshold, bounded or metamorphic.
- `combine_results` calls a gate failed that `verify_gate` calls inconclusive when a probe is
  down.
- A gate that requires signatures is never authentic over a correlation id with unsigned
  records or with two signed batches.

Drivers and sessions
- `fetch_all_pages` at `max_rows` returns the first `max_rows` events with the cursor after
  the whole page, which its docstring calls the unconsumed cursor.
- `domain/ports.py:236-238` says that no shipped backend implements `query_spec`; three do.
- No statement of the drivers asks for an order (`clickhouse.py:179-185`,
  `openobserve.py:153` and 200), so a server may answer two pages in two orders, and a walk
  reported complete may repeat one row and leave out another. `clickhouse.py:143-144` calls
  `LIMIT n OFFSET k` over the driver's fixed ordering exact, and `domain/ports.py:131-133`
  says that a complete result has every matching row, while 130 promises no order. A session
  of more than one page read from OpenObserve may so lose its summary to the reader, which
  strict mode fails, though `plugin.py:14-16` says only on a real miss.
- A server that answers newest first breaks a chain whose records share a time stamp.
- A Retry-After that is no finite positive number makes `QueryResult` raise inside the
  driver's error path; strict mode fails the build with `verify ERROR`, though
  `plugin.py:14-16` says never for a store that cannot be reached. `BuildFailsForALoss` is
  about reads whose driver did not raise.
- An invalid signature fails the build in warn mode too.
- Of two sessions that share a correlation id the first summary found is taken.
- A test whose only report is a rerun is counted in no column of the summary.
- `verify_trace` never runs the confirming rounds of the poller.

Tools
- `subset` depends on the order of the expected calls when arguments are compared, though the
  docstring calls it order-independent recall.
- A greedy match lets an expected call with arguments claim, for a partial credit, a call that
  an expected call without arguments would have scored in full: of find(q, p) and find, one
  call find(q) scores a quarter, and a half when its arguments cannot be read, though
  `__init__.py:130-131` says that these fail closed in every way of scoring. Where all
  expected calls ask for arguments, or none does, they do (`UnreadableNeverHelps`).
- The value an event is corrupted with (`analysis.py:319`) meets a where clause that says
  what the value must not be: the mutant survives, though 317 says that the event no longer
  matches. `RequiredDropsDie` is about the other where clauses.
- A forbidden call with an `absent` matcher misses a call with no arguments at all, though
  `matcher_args_pass` treats none as empty.
- `derive_mutations` drops events of `count <=`, duration, invariant, metamorphic and
  external checks, which cannot turn red by it, though `analysis.py:28-30` derives mutants
  only where the semantics change the verdict; likewise the injected error for an absent
  rule without `level` in its where clause (147).
- A reorder mutant of stamped events always survives: `analysis.py:414-419` swaps whole events
  and `judge_events` sorts them by time stamp again (`gate_kernel.py:307`), though
  `analysis.py:28-31` says that an ordered rule gets a mutant that should change the verdict.
- `verify_audit_ranking` does not authenticate the `caught` of a row.

## Proofs

The theorems hold for every value of the constants that satisfies the named assumptions of
the modules, which TLC evaluates on every run. Besides what the code validates, these say:
`None` is not one of the values it stands in for (`NoneAssumption`, `JudgementAssumption`,
and a conjunct of others); a power of naturals is a natural (`PowerAssumption`: the provers
have no arithmetic of powers); a corroborated boundary has a reader other than its emitter
(`OracleAssumption`, which the constructor of `OracleBoundary` enforces), and a probe of the
very endpoint the events were emitted to is not a separate one (`gate_kernel.py` demotes it);
no rule and no call has a tool of the name that the mutation analysis renames to, and no
matcher asks for a part of its text (`RenamedAssumption`, `Sentinel`: the code relies on
`__ooptdd_mutant__` being nobody's, and does not check it).
Only two theorems have a hypothesis of their own, `PromptStore` below.

None of the invariants is inductive as it stands. This is what each module strengthens
them with.

**`EvidenceCycleProofs`.** `TypeCorrect`, `RevisionIsBounded`, `TerminalFinal`,
`SourceIsRestored`, `FirstCauseIsKept`, the refinement `Implements`, `WhatWasAnsweredHolds`
and `SealsAreEarned`. The journal's bound needs that an uncounted record was written at
most once outside recovery and that the mutation is active only in the phases of the
mutation region; the restored source needs the same, and that the lock exists from LOCKED
on; the first cause needs that a hand-over happens only with the mutation active and that
recovery is left only to a terminal phase. For the answers, a record names its event by its
own position unless it records a collision (`NamesKept`), and the effects of the record at
k are those of intent k (`EffectsKept`): so an ID used twice is a collision, which ends the
cycle, and a replay finds what was answered. For the seal, each phase has exactly the runs
that were due by then, with their own names (`RunsInCourse`, `RunsDistinct`), and nothing is
disposed of before the findings are known, and none twice (`BiteKept`).

**`ProtocolKernelProofs`.** `TypeCorrect`, `RunsKeepToTheDefinition`, `PromisesHold`,
`StoreMovesByOneStep` and `RejectedInOrder`, for any number of runners. The invariant is
about what a runner carries from its load to its save (`RunnerOk`): it may be stale, but it
agrees with the store on the steps it has loaded, so when the revisions match, what it saves
is the store and one more step. What is stored is a run of its definition (`SnapshotOk`),
and a receipt is of a finished run, the stored one or one of an earlier generation
(`ReceiptsOk`).

**`ArrivalPollerProofs`.** `NeverAbsentByLag` and `NoLateOffenderEscapes` for every polling
policy and every visibility delay from the one hypothesis `PromptStore` (reads take no time,
the skew fits the future buffer) - which `poller_slow` shows to be necessary; the second is
about offenders accepted by the time the confirming rounds have lasted, counted from the start
of the call, and not about those of the last visibility delay before the last read - and
`SettledForGood` and `ThrottleIsHonoured` from none. The invariant says when an accepted
event must be visible (`Delivery`) and that the wait so far covers the visibility delay plus
the confirming rounds run, whenever the next read is one that may conclude (`Paced`). For the
throttle it says that before an attempt the window has passed, or passes while the poller
sleeps (`Patient`).

**`MonitorsProofs`.** For all events, rules and streams in any order. `TypeCorrect`,
`SatisfiedForGood`, `FailedForGood` and their conjunction `SettledForGood`: that a latched
verdict agrees with the collapse now says nothing about the next event; the invariant `Inv`
says why it must. A count is settled only when no larger count changes the comparison, a
satisfied order misses no name and has compared every pair of neighbours, and the widest gap
of a heartbeat only grows. `CollapsesToBatch`, `CountsCommitAtOnce` (for the comparisons and
targets of `Settles`), `InversionsAreFinal`: the invariant `Watched` adds what each monitor
has seen of the stream (`CountSeen`, `PresentSeen`, `ForbidSeen`, `OrderSeen`, `BeatSeen`,
`SideSeen`) - the number of matches and the first prefix at which it settled, the first
occurrence of each name, whether neighbouring beats are close, the sum, the extremes and the
last of the values. An order that has failed keeps two names that are out of order or too
far apart (`Broken`), and stamps of one authority are transitive, so some neighbours stay
out of order when all names have occurred; `monitors_mixed` shows that without the one
authority they need not.

**`GateProofs`.** `SettledGreenIsKept`, `AuthorityIsKept` and `EasingIsAlwaysNoticed`, for
every gate and spec. A gate runs its automata anew over a list into which an event may be
inserted anywhere, so the invariant is replaced by lemmas about runs: `RunKept` says what an
automaton has seen of the first n events, inserting an event loses no match, and only counts
and presences settle a gate. That observations do not gate is that filtering the
authoritative checks and weighing all of them by their authority come to the same counts and
sums (`FilterKept`). The same lemma carries the edits of a spec: one that is not reported
leaves the checks with authority as they were, whether a list is one shorter or has another
check in a place (`FiltersGoOnAlike`), so the two gates have the same bare gate; and an edit
that does touch them lowers a count, told by an injection of what is still demanded into a
proper part of what was. Under a quorum of 100 a check that failed would leave the sum of
the weights short (`SumOfFewer`).

The second half is about `GateAudit`, whose steps are steps of `Gate` or leave it alone
(`AuditRefinesGate`, so the three theorems above hold of it too). Its invariant says that the
calls are calls and that a report was made of its gate over calls that had arrived
(`ReportTaken`); everything else is about what the code computes from them.

- `MatchingIsSound`: the table of `ordered` is the table its recursion computes, row by row
  (`TablesExist`). No assignment in order of the first expected and arrived calls scores
  more than their entry (the least place where one did would be beaten by a neighbour), and
  some assignment reaches every entry (`EntriesAreReached`); so the last entry is the best.
  For `subset`, the calls claimed so far are an assignment and each expected call has claimed
  the best that was left (`ClaimsAreGreedy`); by name a tool either has all its calls claimed
  or serves every expected call of it, which maps what any assignment serves one to one into
  what the greedy one does (`GreedyServesMost`). On the ladder, place by place is an assignment
  in order, and when one in order is full no greedy claim is later than its place there. Lost
  arguments raise what no pair scores, hence no sum of shares (`SumOfLess`), best or greedy,
  when a greedy rule asks alike: then names or all arguments decide, and the call that
  lost its own is no rival of the others.
- `BlindSpotsAreKnown`: what the rows of a rule are, by label (`RowsOfRule`), and that
  what is kept of them are the rows without their repetitions. An injected call meets the
  very ban it was made of. A rename that survives still fills all expected calls, in an
  assignment that does not use the renamed call; together with that call the tool occurs once
  more often than expected (`SurvivorHasADouble`). An event without which nothing is left
  of what a check requires makes the check fail by `RunKept` (`LackingFails`), and with it a gate
  without a quorum is red (`DroppedIsRed`).
- `AuditsAreOfTheStream`: rows with one label and the same calls, unless they were corrupted
  or reordered, were derived from one stream (`RowsAlike`): an appended call can be taken off, and
  the renamed one is where no rule and no call has its tool, while the label says which tool
  it had. Every report that has rows has one of those.

**`CompletionProofs`.** `LineagesStayUnbroken`, `CodingsNeverDisagree`, `RefusalsAreReasoned`
and `CompletionsAreExact`, for every plan, gate and reading. Most of it is about one result:
what the adapter and the validator recompute from the projection of its checks is what the
gate said. The invariant follows the chain: the cycle under way is the one its generation and
the receipts before it make (`CycleKept`), each receipt is the seal of such a cycle with the
polls its runs were taken from (`ReceiptsKept`), and an assessment counts as faults exactly
the lookups that did not vouch (`AssessmentKept`).

**`ClientsProofs`.** `StateIsTyped`, `CompleteReadsAreExact`, `ChainsAreExact`,
`VerdictsAreHonest`, `BuildsFailForALoss` and `StrictModeCatchesLoss`, for every driver, page
size, cap, session and sequence of batches. A page is a stretch of the rows in the order of
its request; the number of rows shown before one of them never shrinks, so while the order
stays the same a row shown at the beginning of a read is in hand or ahead, and whatever the
orders, the rows in hand are as many as the offset says (`ReadKept`), which at the last page
is as many as the store shows (`NoFewerShown`). A MAC names its record and the MAC
before it, so neighbours in a chain that verifies are neighbours in one batch (`ChainKept`),
and the least place where a read departs from the batch cannot exist. The rows of a session
are records of its one batch, none twice (`BatchKept`), so as many rows as tests are all of
them; and what the plugin says is what its last read told, given what the reads before it
left (`AnswerTold`, `SettledKept`).

**`Induction`.** The library's induction theorems take an operator as a parameter, which the
installed provers cannot instantiate. Here an induction is told by the least counterexample
(`LeastNatural`, from the well-foundedness of strict inclusion of finite sets), and a
recursive function is shown to exist before its equation is used (`SumsExist`,
`RecursionExists`).

**Only model-checked.** Liveness: `EventuallyTerminal` and `EventuallyReturns` are beyond the
prover, and so is what depends on ENABLED (that nothing deadlocks). Every other property of a
passing run is stated by a theorem. `InversionIsFinal`, without the one authority, is false, as
`monitors_mixed` shows; so are the properties of the other runs that expect a violation.

## Plan

What is left: `ArrivalPoller` over `Gate` in place of its five kinds, which the lemma behind
`SettledGreenIsKept` now justifies; the xdist workers of the plugin; the conformance kit as a
specification that the drivers of `Readback` implement.

## Not modelled

- Command line other than `ooptdd verify`, configuration, report layout: argument and
  environment lookup, no state worth a transition system.
- Ontology and gate freezing: pure validation of static documents.
- Probes: pure I/O; whether one was reachable is an input of `ArrivalPoller` and `Gate`.
- genai extension: a translation between event vocabularies over the same gate.
- Scripts and benchmarks: batch measurement of the modelled code.
- Of gates: parsing of specs, custom predicates other than the trajectory extension's,
  declared strengths, findings of medium severity, banners.
- Of backends: the time window of a query, aliases of the correlation id, retention, and the
  conformance kit.
- Of the plugin: a disabled plugin, xdist workers, the fixture.
- Of the mutation analysis: the injected error record, the value of the ranking score, the
  lock of the threshold, the canary.
