------------------------------- MODULE MCGate -------------------------------
\* Small instances of Gate for TLC.
EXTENDS Gate

Evt(name, time, emit, value) ==
  [name |-> name, time |-> time, seq |-> 0, emit |-> emit, value |-> value]

MCName == {"a", "b", "c"}

\* Ties, an inversion by emitter stamps, an event without a time, a value that is missing.
MCEvents ==
  {Evt("a", 1, 2, 1), Evt("a", 3, None, 2), Evt("b", 1, 1, 1), Evt("b", 2, None, None),
   Evt("c", None, None, 3)}

Of(name) == {e \in Stored : e.name = name}
Counting(name, op, twice) == [match |-> Of(name), op |-> op, twice |-> twice]
Related(reduce, relation) ==
  [left |-> Of("a"), right |-> Of("b"), reduceLeft |-> reduce, reduceRight |-> reduce,
   relation |-> relation, op |-> IF relation = "ratio" THEN "<=" ELSE "==", target |-> 2,
   tol |-> 1, factor |-> 1]
Forbidding(name, evidence) ==
  [match |-> Of(name), fine |-> {e \in Stored : e.time = 1}, evidence |-> evidence]

OneA    == Counting("a", ">=", 2)
TwoA    == Counting("a", ">", 2)
FewB    == Counting("b", "<=", 2)
Never   == Counting("a", "!=", -2)
Both    == [matchers |-> {Of("a"), Of("b")}]
NoC     == Forbidding("c", FALSE)
FineB   == Forbidding("b", TRUE)
AThenB  == [seq |-> <<"a", "b">>, within |-> None, skew |-> None]
BeatA   == [name |-> "a", every |-> 1, edges |-> TRUE]
Share   == Related("count", "ratio")
Balance == Related("sum", "invariant")
Same    == Related("last", "equal")
Budget  == [match |-> Of("b"), fn |-> "avg", op |-> "<=", target |-> 1]
Ceiling == [match |-> Of("a"), fn |-> "sum", op |-> "<=", target |-> 2]
Fact    == [name |-> "fact", separate |-> TRUE]

MCCount     == {OneA, TwoA, FewB, Never}
MCPresent   == {Both}
MCForbid    == {NoC, FineB}
MCOrder     == {AThenB}
MCBeat      == {BeatA}
MCRelation  == {Share, Balance, Same}
MCAggregate == {Budget, Ceiling}
MCExternals == {Fact}

Check(kind, rule) ==
  [kind |-> kind, rule |-> rule, optional |-> FALSE, pending |-> FALSE, weight |-> 1]
Optional(c) == [c EXCEPT !.optional = TRUE]
Pending(c)  == [c EXCEPT !.pending = TRUE]
Heavy(c)    == [c EXCEPT !.weight = 2]
Plain(checks) == [checks |-> checks, threshold |-> None, policy |-> {}]

MCGates ==
  {Plain(<<Check("count", TwoA), Check("present", Both)>>),
   Plain(<<Check("count", OneA), Check("count", Never), Optional(Check("absent", NoC)),
           Pending(Check("external", Fact))>>),
   Plain(<<Check("count", OneA), Check("must_order", AThenB)>>),
   Plain(<<Check("absent", NoC), Optional(Check("invariant", Balance))>>),
   Plain(<<Check("invariant", Balance), Check("ratioMetric", Share)>>),
   Plain(<<Check("metamorphic", Same), Pending(Check("count", OneA))>>),
   Plain(<<Check("aggregate", Budget), Check("aggregate", Ceiling)>>),
   Plain(<<Check("duration", FineB), Check("conforms", NoC), Check("heartbeat", BeatA)>>),
   [checks |-> <<Heavy(Check("count", OneA)), Check("count", FewB), Check("absent", NoC)>>,
    threshold |-> 60, policy |-> {}],
   [checks |-> <<Optional(Check("count", OneA))>>, threshold |-> 60, policy |-> {}],
   [checks |-> <<Check("count", OneA), Check("external", Fact)>>, threshold |-> None,
    policy |-> {"corroboration", "independent_store"}],
   [checks |-> <<Check("count", OneA)>>, threshold |-> None, policy |-> {"signature"}]}
=============================================================================
