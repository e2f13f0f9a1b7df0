--------------------------- MODULE MCProtocolKernel ---------------------------
\* A small instance of ProtocolKernel for TLC.
EXTENDS ProtocolKernel, TLC

Rule(source, event, target, validator) ==
  [source |-> source, event |-> event, target |-> target, validator |-> validator]

\* A release that may break and be repaired.  Approving it while it is broken is declared but
\* no recovery, reopening it leaves a terminal state, and nothing leads to "lost".
Release ==
  [version |-> 1,
   states |-> {"draft", "broken", "approved", "lost"},
   events |-> {"approve", "break", "repair"},
   initial |-> "draft", terminal |-> {"approved"}, required |-> {"owner", "manifest"},
   transitions |->
     {Rule("draft", "approve", "approved", TRUE), Rule("draft", "break", "broken", FALSE),
      Rule("broken", "repair", "draft", FALSE), Rule("broken", "approve", "approved", TRUE),
      Rule("approved", "break", "broken", FALSE), Rule("lost", "repair", "draft", FALSE)},
   recovery |-> {<<"broken", "repair">>}]

MCDefinitions == {Release, [Release EXCEPT !.version = 2]}
MCProof == {"owner", "manifest"}
MCEventId == 1 .. 4

Shows(valid, satisfied, shows) == [valid |-> valid, satisfied |-> satisfied, shows |-> shows]
Full    == Shows("yes", "yes", MCProof)
Partial == Shows("yes", "yes", {"owner"})
Hand(id, kind, payload) ==
  [id |-> id, kind |-> kind, payload |-> payload, policy |-> Release]

MCEvents ==
  {Hand(1, "break", Full),
   Hand(2, "repair", Full), Hand(2, "undeclared", Full),
   Hand(3, "approve", Full), Hand(3, "approve", Partial), Hand(3, "repair", Full),
   Hand(4, "approve", Shows("no", "yes", MCProof)),
   Hand(4, "approve", Shows("raises", "yes", MCProof)),
   Hand(4, "approve", Shows("yes", "raises", MCProof)),
   Hand(4, "break", Shows("no", "no", {})),
   [Hand(1, "break", Full) EXCEPT !.policy = [Release EXCEPT !.version = 2]]}

Symmetry == Permutations(Runner)
=============================================================================
