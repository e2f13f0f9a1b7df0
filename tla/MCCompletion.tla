---------------------------- MODULE MCCompletion ----------------------------
\* Small instances of GateEvidence and Completion for TLC.
EXTENDS Completion

Evt(name) == [name |-> name, time |-> 1, seq |-> 0, emit |-> None, value |-> 1]

MCName   == {"done", "error"}
MCEvents == {Evt(n) : n \in MCName}

Of(name) == {e \in Stored : e.name = name}
Counting(name, op, twice) == [match |-> Of(name), op |-> op, twice |-> twice]

Done    == Counting("done", ">=", 2)
Never   == Counting("done", ">=", 0)
NoError == [match |-> Of("error"), fine |-> {}, evidence |-> FALSE]
Balance == [left |-> Of("done"), right |-> Of("done"), reduceLeft |-> "sum",
            reduceRight |-> "sum", relation |-> "invariant", op |-> "==", target |-> 2,
            tol |-> 1, factor |-> 1]
Fact    == [name |-> "fact", separate |-> TRUE]
Echo    == [name |-> "echo", separate |-> FALSE]

MCCount     == {Done, Never}
MCForbid    == {NoError}
MCRelation  == {Balance}
MCExternals == {Fact, Echo}

Check(kind, rule) ==
  [kind |-> kind, rule |-> rule, optional |-> FALSE, pending |-> FALSE, weight |-> 1]
Optional(c) == [c EXCEPT !.optional = TRUE]
Plain(checks) == [checks |-> checks, threshold |-> None, policy |-> {}]

Proven  ==
  [checks |-> <<Check("count", Done), Check("external", Fact)>>, threshold |-> None,
   policy |-> {"corroboration", "independent_store"}]
Causal  == Plain(<<Check("invariant", Balance), Optional(Check("external", Echo))>>)
Quorum  ==
  [checks |-> <<[Check("count", Done) EXCEPT !.weight = 2], Check("absent", NoError)>>,
   threshold |-> 60, policy |-> {}]

MCGates ==
  {Proven, Causal, Quorum, Plain(<<Check("count", Done)>>),
   Plain(<<Check("absent", NoError)>>),
   Plain(<<Check("count", Never), Optional(Check("count", Done))>>),
   Plain(<<Check("count", Never), Check("absent", NoError)>>),
   [checks |-> <<Check("count", Never), Check("count", Done)>>, threshold |-> 100, policy |-> {}],
   [checks |-> <<Check("count", Done)>>, threshold |-> None, policy |-> {"signature"}]}

MCReader == [x \in Externals |-> IF x = Fact THEN "oracle" ELSE "store"]

Boundary(read, corroborated) ==
  [emit |-> "store", read |-> read, separate |-> corroborated, corroborated |-> corroborated]

Self   == Boundary("store", FALSE)
Apart  == Boundary("oracle", TRUE)
Unproven == Boundary("oracle", FALSE)
MCBoundaries == {Self, Apart, Unproven, Boundary("other", TRUE)}

MCPlans ==
  {[gate |-> Proven, boundary |-> Apart], [gate |-> Causal, boundary |-> Self]}

Whole == [reachable |-> TRUE, complete |-> TRUE, authentic |-> TRUE]
Answers(a) == [x \in Externals |-> IF x = Fact THEN a ELSE "none"]
MCReadings ==
  {[source |-> Whole, observed |-> Answers(a)] : a \in {"none", "down", "passes"}}
    \cup {[source |-> [Whole EXCEPT !.complete = FALSE], observed |-> Answers("none")]}
=============================================================================
