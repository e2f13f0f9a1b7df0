---------------------------- MODULE MCGateAudit ----------------------------
\* Small instances of the gate, its specs and its tools for TLC.
EXTENDS MCGate, GateAudit

PinnedA == [match |-> {e \in Of("a") : e.value = 1}, op |-> ">=", twice |-> 2]

MCAuditCount == MCCount \cup {PinnedA}
MCAuditGates == MCGates \cup {Plain(<<Check("count", PinnedA), Check("must_order", AThenB)>>)}

\* Specs.
Unset == [w \in Wings |-> "unset"]
Draft(expect) ==
  [expect |-> expect, threshold |-> None, justified |-> FALSE, declared |-> Unset,
   allowed |-> {}, pinned |-> None]

Weightless(c) == [c EXCEPT !.weight = 0]

MCErrors == Of("c")

MCSpecs ==
  {Draft(<<Check("count", PinnedA), Check("must_order", AThenB)>>),
   Draft(<<Check("present", Both), Check("count", FewB), Optional(Check("external", Fact))>>),
   [Draft(<<Check("count", OneA), Check("count", OneA), Check("invariant", Balance)>>)
      EXCEPT !.threshold = 80, !.justified = TRUE],
   [Draft(<<Heavy(Check("count", OneA)), Check("present", Both)>>) EXCEPT !.threshold = 60],
   [Draft(<<Weightless(Check("count", OneA)), Check("count", FewB)>>) EXCEPT !.threshold = 100],
   [Draft(<<Check("count", OneA)>>) EXCEPT !.declared = [w \in Wings |-> "yes"]],
   [Draft(<<Check("count", OneA), Check("absent", NoC)>>)
      EXCEPT !.declared["forbid_errors"] = "yes", !.allowed = {{}},
             !.pinned = Of("a") \cup Of("c")]}

\* Tool calls.
Carry(shape, parts) == [shape |-> shape, parts |-> parts]
X    == Carry("text", {"x"})
XY   == Carry("list", {"x", "y"})
Deep == Carry("dict", {"x"})
Wide == Carry("dict", {"x", "y"})
Q(v)     == [k \in {"q"} |-> v]
QP(v, w) == [k \in {"q", "p"} |-> IF k = "q" THEN v ELSE w]

Ask(kind, want) == [kind |-> kind, want |-> want]
Asked(asks)     == [matcher |-> asks]

MCTools   == {"find", "send"}
MCKeys    == {"q", "p"}
MCNeedles == {"x", "y"}

MCCalls ==
  {Call("find", Q(X)), Call("find", QP(X, Wide)), Call("find", Unreadable),
   Call("send", None), Call("send", Q(XY))}

Expecting(match, withArgs, target, expected) ==
  [kind |-> "tool_calls", expected |-> expected, match |-> match, withArgs |-> withArgs,
   op |-> ">=", target |-> target, optional |-> FALSE]
Banning(tools) == [kind |-> "forbidden_tools", tools |-> tools, optional |-> FALSE]
BanningCalls(items) == [kind |-> "forbidden_tool_calls", items |-> items, optional |-> FALSE]
Loosely(r) == [r EXCEPT !.optional = TRUE]

HasX    == Q(Asked({Ask("contains_any", {"x"}), Ask("non_empty", {})}))
NoneOfY == Q(Asked({Ask("not_contains", {"y"})}))
NoQ == Q(Asked({Ask("absent", {})}))

MCToolGates ==
  {<<Expecting("exact", TRUE, Unit, <<Call("find", QP(X, Wide)), Call("send", None)>>)>>,
   <<Expecting("exact", TRUE, Unit, <<Call("find", HasX), Call("send", Q(XY))>>),
     Banning(<<"send">>)>>,
   <<Expecting("subset", TRUE, 2, <<Call("find", QP(X, Deep)), Call("find", Q(X))>>)>>,
   <<Expecting("subset", FALSE, Unit, <<Call("find", None), Call("find", None)>>),
     BanningCalls(<<Call("send", Q(XY)), Call("send", NoneOfY)>>)>>,
   <<Expecting("ordered", TRUE, Unit,
       <<Call("find", HasX), Call("send", NoQ), Call("find", Q(X))>>),
     Loosely(Banning(<<"send">>))>>,
   <<Expecting("ordered", TRUE, 2, <<Call("find", QP(X, Deep)), Call("find", Q(X))>>),
     Expecting("subset", FALSE, Unit, <<Call("find", None)>>)>>,
   <<BanningCalls(<<Call("send", <<>>), Call("find", HasX), Call("find", None)>>)>>}
=============================================================================
