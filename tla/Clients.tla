------------------------------ MODULE Clients ------------------------------
(***************************************************************************)
(* The clients of a store, one at a time: a pytest session with the        *)
(* plugin, or a producer of signed chains and its verifier.                *)
(***************************************************************************)
EXTENDS Session, ChainReader

VARIABLE client    \* "pytest" or "chain"

vars == <<client, readback, sessionVars, chainVars>>

Init ==
  \/ /\ client = "pytest"
     /\ SessionInit
     /\ evolve = FALSE /\ shipped = 0 /\ anchored = FALSE /\ authentic = None
  \/ /\ client = "chain"
     /\ Opened(<<>>)
     /\ ChainInit
     /\ policy = (CHOOSE s \in Scenarios : TRUE).policy
     /\ suite = <<>> /\ reports = <<>>
     /\ pc = "done" /\ reader = "cli"
     /\ attempt = 1 /\ extended = FALSE /\ queried = FALSE /\ sawStart = FALSE
     /\ verdict = None /\ exitstatus = 0 /\ failBuild = FALSE

PytestStep ==
  /\ client = "pytest"
  /\ Hooks \/ Polling \/ Killed \/ Recheck
  /\ UNCHANGED <<client, chainVars>>

ChainStep ==
  /\ client = "chain"
  /\ ShipChain \/ ReadChain \/ CheckChain
  /\ UNCHANGED <<client, sessionVars>>

\* What a store indexes while nobody reads it might as well come at the next read.
Reading == client = "pytest" => pc = "polling" /\ answer = None

StoreStep ==
  /\ (Reading /\ Index) \/ Answer
  /\ UNCHANGED <<client, sessionVars, chainVars>>

Next == PytestStep \/ ChainStep \/ StoreStep

Spec == Init /\ [][Next]_vars

TypeOK == ReadbackOK /\ SessionOK /\ ChainOK
=============================================================================
