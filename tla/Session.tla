------------------------------- MODULE Session -------------------------------
(***************************************************************************)
(* A pytest session under the opt-in ooptdd plugin (plugin.py and          *)
(* adapters/pytest.py): it ships a heartbeat when the tests are collected, *)
(* gathers the reports of the tests, ships one record per report and a     *)
(* signed summary when the session ends, and reads the store back to       *)
(* decide whether the build may stay green.  The command line repeats the  *)
(* reading later, from another process.                                    *)
(*                                                                         *)
(* The process is the one that ships: the controller under xdist, with the *)
(* plugin enabled.  Sleeping between two reads is left to ArrivalPoller;   *)
(* here the store just takes its steps between them.                       *)
(***************************************************************************)
EXTENDS Readback

CONSTANTS
  Scenarios,     \* the sessions to consider: see Scenario below
  Retries        \* polling.retries

Phase  == {"setup", "call", "teardown"}
Mode   == {"off", "warn", "strict"}
Reason == {"partial_loss", "mismatch", "signature", "unreachable", "incomplete",
           "summary_lost", "nothing_arrived", "error"}

ASSUME SessionAssumption ==
  /\ Retries \in Nat \ {0}
  /\ Scenarios # {}
  /\ \A s \in Scenarios :
       /\ s.policy.mode \in Mode                       \* verify
       /\ s.policy.declared \in BOOLEAN \cup {None}     \* require_signature; key: the signing key
       /\ s.suite \in Seq(Elements(s.suite))
       /\ \A n \in DOMAIN s.suite :
            /\ {"test", "when", "outcome"} = DOMAIN s.suite[n]
            /\ s.suite[n].outcome \in {"passed", "failed", "skipped"}
       /\ s.held \in Seq(Elements(s.held))      \* of earlier sessions, same correlation id
       /\ \A n \in DOMAIN s.held :
            /\ s.held[n].kind = "summary"
            /\ s.held[n].ship \in Nat
            /\ s.held[n].run # "this"

VARIABLES
  policy,        \* the adapter's settings
  suite,         \* the reports still to come
  reports,       \* _ooptdd_reports
  pc,            \* "collecting", "running", "polling", "done" or "killed"
  reader,        \* who polls: "plugin" or "cli"
  attempt,
  extended,      \* the poller has waited for the visibility delay once
  queried,       \* queried_ok
  sawStart,      \* saw_start
  verdict,       \* what verify_trace returned last, or None
  exitstatus,    \* of the pytest session
  failBuild      \* the plugin turned it from 0 to 1

suiteVars == <<policy, suite, reports>>
pollVars  == <<attempt, extended, queried, sawStart>>
exitVars  == <<exitstatus, failBuild>>
sessionVars == <<suiteVars, pc, reader, pollVars, verdict, exitVars>>

-----------------------------------------------------------------------------
(* Records (domain/model.py, adapters/pytest.py)                           *)

Start == [kind |-> "start", ship |-> 0]
OutcomeRecord(report) == [kind |-> "outcome", ship |-> 0, test |-> report.test]

NodeIds(rs) == {rs[n].test : n \in DOMAIN rs}
Rank(outcome) == CASE outcome = "failed" -> 2 [] outcome = "skipped" -> 1 [] OTHER -> 0

\* Mutant: the last report decides.
OverallLast(rs, test) ==
  LET own == {n \in DOMAIN rs : rs[n].test = test}
  IN  rs[CHOOSE n \in own : \A m \in own : m <= n].outcome

\* The outcome of the first report of the test that no other one outranks.
Overall(rs, test) ==
  LET own   == {n \in DOMAIN rs : rs[n].test = test}
      worst == CHOOSE n \in own : \A m \in own :
                 \/ Rank(rs[m].outcome) < Rank(rs[n].outcome)
                 \/ Rank(rs[m].outcome) = Rank(rs[n].outcome) /\ n <= m
  IN  rs[worst].outcome

Count(rs, outcome) == Cardinality({t \in NodeIds(rs) : Overall(rs, t) = outcome})

\* A signature names the key it was made with: the record it covers is never edited.
SummaryRecord(rs, key, run) ==
  [kind |-> "summary", ship |-> 0, run |-> run, total |-> Cardinality(NodeIds(rs)),
   passed |-> Count(rs, "passed"), failed |-> Count(rs, "failed"),
   skipped |-> Count(rs, "skipped"), sig |-> key]

SignatureStatus(record, key) ==
  IF record.sig = None THEN "unsigned"
  ELSE IF key = None THEN "unverifiable"
  ELSE IF record.sig = key THEN "valid"
  ELSE "invalid"

BuildOutcomeRecords(rs, key) ==
  Append([n \in DOMAIN rs |-> OutcomeRecord(rs[n])], SummaryRecord(rs, key, "this"))

-----------------------------------------------------------------------------
(* verify_trace and verify_policy                                          *)

\* The places of the events of a kind among the rows.
Events(kind, rows) == {n \in DOMAIN rows : log[rows[n]].kind = kind}

\* Mutant: an unsigned record is let through.
SigBadIfInvalid(status, required) == status = "invalid"

SigBad(status, required) == status = "invalid" \/ (required /\ status # "valid")

\* Mutant: only an unreachable store is no evidence.
NoEvidenceIfDown(result) == ~result.reachable

NoEvidence(result) == ~result.reachable \/ ~result.complete

\* evaluate_prefix on a read: None while there is something to wait for.
EvaluatePrefix(result, started, ok, expected, key, required, final) ==
  LET rows     == StreamOrder(result.events)
      sessions == IF result.complete THEN Events("summary", rows) ELSE {}
      session  == log[rows[CHOOSE n \in sessions : \A m \in sessions : n <= m]]
      sig      == SignatureStatus(session, key)
      partial  == Cardinality(Events("outcome", rows)) < session.total
      mismatch == expected # None /\ session.total # expected
      sigBad   == SigBad(sig, required)
      reasons  == {r \in Reason : \/ r = "partial_loss" /\ partial
                                  \/ r = "mismatch" /\ mismatch
                                  \/ r = "signature" /\ sigBad}
      absent(kind, reason) ==
        [ok |-> FALSE, verdict |-> kind, sig |-> "none", reasons |-> {reason}]
  IN  IF sessions # {}
      THEN IF partial /\ ~final /\ ~mismatch /\ ~sigBad THEN None
           ELSE [ok |-> reasons = {}, verdict |-> "present", sig |-> sig, reasons |-> reasons]
      ELSE IF ~final THEN None
      ELSE IF ~ok THEN absent("inconclusive", "unreachable")
      ELSE IF NoEvidence(result) THEN absent("inconclusive", "incomplete")
      ELSE IF started THEN absent("absent", "summary_lost")
      ELSE absent("absent", "nothing_arrived")

\* Mutant: what is absent is treated as what could not be read.
PolicyIfPresent(body, mode) ==
  \/ body.sig = "invalid"
  \/ ~body.ok /\ body.verdict = "present" /\ mode = "strict"

VerifyPolicy(body, mode) ==
  \/ body.sig = "invalid"
  \/ ~body.ok /\ body.verdict # "inconclusive" /\ mode = "strict"

\* resolve_signing_settings: a key asks for signatures unless told otherwise.
RequireSignature(key, declared) == IF declared = None THEN key # None ELSE declared

-----------------------------------------------------------------------------
(* The hooks of the plugin                                                 *)

SessionInit ==
  /\ \E s \in Scenarios :
       /\ policy = s.policy
       /\ suite = s.suite
       /\ Opened(s.held)
  /\ reports = <<>>
  /\ pc = "collecting"
  /\ reader = "plugin"
  /\ attempt = 1
  /\ extended = FALSE
  /\ queried = FALSE
  /\ sawStart = FALSE
  /\ verdict = None
  /\ exitstatus = 0
  /\ failBuild = FALSE

\* pytest_collection_finish: whatever happens to the heartbeat, the run goes on.
\* The backend may not even be constructed.
CollectionFinish ==
  /\ pc = "collecting"
  /\ pc' = "running"
  /\ \/ \E raised \in BOOLEAN : Ship(<<Start>>, raised)
     \/ UNCHANGED readback
  /\ UNCHANGED <<suiteVars, reader, pollVars, verdict, exitVars>>

\* pytest_runtest_logreport: reports of any other phase are not collected, as the
\* one xdist sends for a worker that crashed.
LogReport ==
  /\ pc = "running"
  /\ suite # <<>>
  /\ suite' = Tail(suite)
  /\ reports' = IF Head(suite).when \in Phase THEN Append(reports, Head(suite)) ELSE reports
  /\ exitstatus' = IF Head(suite).outcome = "failed" THEN 1 ELSE exitstatus
  /\ UNCHANGED <<readback, policy, pc, reader, pollVars, verdict, failBuild>>

\* The pytest process dies before its last hook.
Killed ==
  /\ pc = "running"
  /\ pc' = "killed"
  /\ UNCHANGED <<readback, suiteVars, reader, pollVars, verdict, exitVars>>

\* pytest_sessionfinish, up to the first read; a session may be cut short.
\* The summary is shipped, unless there is nothing to ship or the backend cannot
\* be had; a ship that raises leaves the build alone.
Interrupted == IF suite = <<>> THEN exitstatus ELSE 2

FinishUnshipped ==
  /\ pc = "running"
  /\ \/ reports = <<>> /\ UNCHANGED readback
     \/ reports # <<>> /\ UNCHANGED readback       \* backend init failed
     \/ reports # <<>> /\ Ship(BuildOutcomeRecords(reports, policy.key), TRUE)
  /\ pc' = "done"
  /\ exitstatus' = Interrupted
  /\ UNCHANGED <<suiteVars, reader, pollVars, verdict, failBuild>>

Fail(fails) ==
  /\ failBuild' = (fails /\ exitstatus' = 0)

FinishShipped ==
  /\ pc = "running"
  /\ reports # <<>>
  /\ Ship(BuildOutcomeRecords(reports, policy.key), FALSE)
  /\ exitstatus' = Interrupted
  /\ IF policy.mode # "off" /\ Queryable
     THEN pc' = "polling" /\ UNCHANGED failBuild
     ELSE pc' = "done" /\ Fail(policy.mode = "strict")
  /\ UNCHANGED <<suiteVars, reader, pollVars, verdict>>

-----------------------------------------------------------------------------
(* poll_until_present, as verify_trace runs it                             *)

Plugin == reader = "plugin"

\* Mutants: every report counted as a test; the last read not looked at for a heartbeat.
ExpectedReports == IF Plugin THEN Len(reports) ELSE None
StartedBefore   == sawStart

Expected   == IF Plugin THEN Cardinality(NodeIds(reports)) ELSE None
CheckKey   == IF Plugin THEN policy.key ELSE None
Required   == Plugin /\ RequireSignature(policy.key, policy.declared)
Reads      == queried \/ answer.reachable
Started    == sawStart \/ Events("start", answer.events) # {}
Body(final) ==
  EvaluatePrefix(answer, Started, Reads, Expected, CheckKey, Required, final)

Poll ==
  /\ pc = "polling"
  /\ \E flushed \in IF attempt = 1 THEN Flushed ELSE {shown} : BeginRead(FALSE, flushed)
  /\ UNCHANGED sessionVars

\* What the reading has taught is kept, and the store is read once more.
ReadAgain ==
  /\ queried' = Reads
  /\ sawStart' = Started
  /\ answer' = None
  /\ UNCHANGED <<store, shown, read, suiteVars, pc, reader, verdict, exitVars>>

TryAgain ==
  /\ pc = "polling" /\ answer # None
  /\ ~answer.raised
  /\ Body(FALSE) = None
  /\ \/ attempt < Retries /\ attempt' = attempt + 1 /\ UNCHANGED extended
     \* The budget is spent, and the store may still owe rows it has taken in.
     \/ /\ attempt = Retries /\ Reads /\ Delayed /\ ~extended
        /\ extended' = TRUE /\ UNCHANGED attempt
  /\ ReadAgain

\* The plugin turns a green exit status red; the command line only reports.
Settle(body, fails) ==
  /\ verdict' = body
  /\ pc' = "done"
  /\ failBuild' = IF Plugin THEN fails /\ exitstatus = 0 ELSE failBuild
  /\ queried' = Reads
  /\ sawStart' = Started
  /\ UNCHANGED <<readback, suiteVars, reader, attempt, extended, exitstatus>>

\* A final evaluation never turns a prefix green that was not green before, so
\* the confirming rounds do not run.
Conclude ==
  /\ pc = "polling" /\ answer # None
  /\ ~answer.raised
  /\ LET body == IF Body(FALSE) # None THEN Body(FALSE) ELSE Body(TRUE)
     IN  /\ Body(FALSE) = None => attempt = Retries
         /\ Settle(body, VerifyPolicy(body, policy.mode))

\* An exception on the way to the verdict: verify ERROR.
VerifyError ==
  /\ pc = "polling" /\ answer # None
  /\ answer.raised
  /\ Settle([ok |-> FALSE, verdict |-> "error", sig |-> "none", reasons |-> {"error"}],
            policy.mode = "strict")

\* python -m ooptdd.adapters.pytest_cli <cid>, by another process and without a key.
Recheck ==
  /\ pc \in {"done", "killed"}
  /\ Plugin
  /\ driver \notin {"memory", "dropping"}
  /\ reader' = "cli"
  /\ pc' = "polling"
  /\ attempt' = 1
  /\ extended' = FALSE /\ queried' = FALSE /\ sawStart' = FALSE
  /\ verdict' = None
  /\ answer' = None
  /\ UNCHANGED <<store, shown, read, suiteVars, exitVars>>

Hooks == CollectionFinish \/ LogReport \/ FinishUnshipped \/ FinishShipped
Polling == Poll \/ TryAgain \/ Conclude \/ VerifyError

-----------------------------------------------------------------------------
SessionOK ==
  /\ \E s \in Scenarios : policy = s.policy
  /\ pc \in {"collecting", "running", "polling", "done", "killed"}
  /\ reader \in {"plugin", "cli"}
  /\ attempt \in 1 .. Retries
  /\ exitstatus \in 0 .. 2
  /\ verdict # None => verdict.reasons \subseteq Reason
  /\ failBuild => pc \in {"done", "polling"} /\ exitstatus = 0

\* No earlier session used the correlation id.
Fresh == \A i \in DOMAIN log : log[i].kind = "summary" => log[i].run = "this"
Own   == {i \in DOMAIN log : log[i].kind = "summary" /\ log[i].run = "this"}
Batch == Own \cup {i \in DOMAIN log : log[i].kind = "outcome"}

\* A session is confirmed only by its own summary, found in a complete read, and
\* by the plugin only when it counts the tests that ran and bears the signature
\* that is required.
ConfirmedRestsOnThisSession ==
  verdict # None /\ verdict.ok /\ Fresh =>
    \E i \in Own :
      /\ answer.complete /\ i \in Elements(answer.events)
      /\ Plugin => log[i].total = Cardinality(NodeIds(reports))
      /\ Required => log[i].sig = policy.key /\ policy.key # None

\* A green build is turned red only when the last read began before the store
\* showed everything the session had shipped: never by lag that was over, by a
\* row cap, or by a store that does not answer.  (A driver that raises, a
\* driver that cannot be read and a signature nobody can make are said to fail,
\* and pages in several orders may leave a record out.)
FailsOnlyOnAMiss ==
  /\ failBuild /\ Plugin /\ Fresh /\ Queryable
  /\ ~answer.raised /\ ~answer.mixed
  /\ Required => policy.key # None
  => Cardinality(answer.before \cap Batch) < Len(reports) + 1

\* The converse: in strict mode a session whose summary the store never showed
\* does not stay green, whatever else was lost or came late, if the store could
\* be read in full.
StrictCatchesLoss ==
  /\ pc = "done" /\ Plugin /\ Fresh /\ verdict # None
  /\ policy.mode = "strict" /\ exitstatus = 0
  /\ answer.reachable /\ answer.complete
  /\ Own \cap shown = {}
  => failBuild

\* A store that is down, or gives up half of its rows, leaves the build alone
\* even when the earlier reads of the same poll were answered.
OutageNeverFailsTheBuild ==
  failBuild /\ Plugin /\ Queryable /\ ~answer.raised =>
    answer.reachable /\ answer.complete

\* The heartbeat tells a lost summary from a run that never arrived: nothing_arrived
\* is said only when no heartbeat was to be seen.  (Pages in several orders may have
\* left it out.)
LossIsNamed ==
  verdict # None /\ ~answer.mixed =>
    /\ "nothing_arrived" \in verdict.reasons =>
         \A i \in answer.before : log[i].kind \notin {"start", "summary"}
    /\ "summary_lost" \in verdict.reasons =>
         \A i \in answer.before : log[i].kind # "summary"

\* The summary counts every test once, and a test that failed in any phase failed.
SummaryTellsTheWorst ==
  \A i \in Own :
    /\ log[i].passed + log[i].failed + log[i].skipped = log[i].total
    /\ log[i].failed = Cardinality({reports[n].test : n \in
                          {m \in DOMAIN reports : reports[m].outcome = "failed"}})

\* The build fails for what was lost, and never for a store that could not say.
BuildFailsForALoss == FailsOnlyOnAMiss /\ OutageNeverFailsTheBuild

\* What a verdict says of the session is so.
VerdictIsHonest == ConfirmedRestsOnThisSession /\ LossIsNamed /\ SummaryTellsTheWorst

\* What the partial-loss check is said to do: a session is confirmed only when no
\* record it shipped is missing from the read.
ConfirmedIsComplete ==
  verdict # None /\ verdict.ok /\ Plugin /\ Fresh =>
    Cardinality(Elements(answer.events) \cap Batch) = Len(reports) + 1
=============================================================================
