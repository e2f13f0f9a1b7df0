----------------------------- MODULE MCClients -----------------------------
EXTENDS Clients

CONSTANTS t1, t2, k1, k2

Report(t, phase, result) == [test |-> t, when |-> phase, outcome |-> result]

Skipped == <<Report(t1, "setup", "skipped"), Report(t2, "setup", "passed"), Report(t2, "???", "failed")>>
Failed  == <<Report(t1, "setup", "passed"), Report(t1, "call", "failed"), Report(t1, "teardown", "passed")>>
Passed  == <<Report(t1, "setup", "passed"), Report(t1, "call", "passed")>>

Policy(m, k, d) == [mode |-> m, key |-> k, declared |-> d]

\* A summary an earlier session left under the same correlation id.
Old(key) ==
  [kind |-> "summary", ship |-> 1, run |-> "old", total |-> 1,
   passed |-> 1, failed |-> 0, skipped |-> 0, sig |-> key]

Scenario(p, s, h) == [policy |-> p, suite |-> s, held |-> h]

MCScenarios ==
  {Scenario(Policy("off", None, None), Failed, <<>>),
   Scenario(Policy("warn", k1, FALSE), Skipped, <<Old(k2)>>),
   Scenario(Policy("warn", None, None), <<>>, <<>>),
   Scenario(Policy("strict", None, None), Skipped, <<>>),
   Scenario(Policy("strict", k1, None), Passed, <<>>),
   Scenario(Policy("strict", k1, None), Passed, <<Old(None)>>),
   Scenario(Policy("strict", None, TRUE), Passed, <<>>)}

MCBatches == <<3, 1>>

MCLossy == {Scenario(Policy("strict", None, None), Failed, <<>>)}
=============================================================================
