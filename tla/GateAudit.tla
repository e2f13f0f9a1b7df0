------------------------------ MODULE GateAudit ------------------------------
(***************************************************************************)
(* A gate and the tools that grade it, over one store: the specs a gate is *)
(* expanded from and their strength, the mutants of the events it has      *)
(* judged, the tool calls of the trajectory extension, and the report that *)
(* is taken of them and audited later.                                     *)
(*                                                                         *)
(* No rule reads both tool calls and other events, so a store that holds   *)
(* both shows nothing that two stores do not: the first event decides      *)
(* which of the two this is.                                               *)
(***************************************************************************)
EXTENDS MutationReport, GateStrength

toolVars  == <<calls, report>>
auditVars == <<stream, source, observed, calls, report>>

AuditInit == Init /\ calls = <<>> /\ report = None

GateSteps == calls = <<>> /\ report = None /\ Next /\ UNCHANGED toolVars

ToolSteps ==
  /\ Init /\ UNCHANGED vars
  /\ \/ \E c \in Calls : Arrive(c) /\ UNCHANGED report
     \/ \E g \in ToolGates : TakeReport(g) /\ UNCHANGED calls
     \/ DropReport /\ UNCHANGED calls

AuditNext == GateSteps \/ ToolSteps
AuditSpec == AuditInit /\ [][AuditNext]_auditVars
=============================================================================
