----------------------------- MODULE MCMonitors -----------------------------
\* Small instances of Monitors for TLC.
EXTENDS Monitors

Evt(name, time, seq, emit, value) ==
  [name |-> name, time |-> time, seq |-> seq, emit |-> emit, value |-> value]

MCName == {"a", "b", "c"}

\* Ties in time, with and without a seq; values that cancel, and none; no time.
PlainEvents ==
  {Evt("a", 0, 0, None, 1), Evt("a", 2, 0, None, 2), Evt("a", None, 0, None, 1),
   Evt("b", 0, 1, None, -1), Evt("b", 2, 0, None, None), Evt("b", 4, 0, None, 2),
   Evt("c", 2, 1, None, 3), Evt("c", 5, 0, None, None)}

\* Some emitters stamp a sequence number, some do not.
StampedEvents ==
  {Evt("a", 0, 0, 3, 1), Evt("a", 2, 0, None, 2), Evt("b", 2, 0, 1, 1),
   Evt("b", 4, 0, 4, 2), Evt("c", 1, 0, 5, 1), Evt("c", 5, 0, 2, None)}

Of(name) == {e \in Stored : e.name = name}

Count(ops, targets) ==
  {[match |-> Of("a"), op |-> op, twice |-> twice] : op \in ops, twice \in targets}

\* Targets 1 and 2; 1.5, which no count can equal; 0, which ">=" reaches at the start; -1.
MCCount == Count(Op, {2, 3, 4}) \cup Count({">="}, {0}) \cup Count({">"}, {-2})

MCPresent == {[matchers |-> {Of("a"), Of("b")}], [matchers |-> {Of("c")}]}

MCForbid ==
  {[match |-> Of("b"), fine |-> {e \in Stored : e.time = 0}, evidence |-> evidence] :
     evidence \in BOOLEAN}

MCOrder ==
  {[seq |-> <<"a", "b", "c">>, within |-> within, skew |-> skew] :
     within \in {None, 2}, skew \in {None, 1}} \cup
  {[seq |-> <<"b", "a">>, within |-> None, skew |-> None]}

MCBeat ==
  {[name |-> name, every |-> 2, edges |-> edges] : name \in {"a", "b"}, edges \in BOOLEAN}

Relate(reduce, relation, op) ==
  [left |-> Of("a"), right |-> Of("b"), reduceLeft |-> reduce, reduceRight |-> reduce,
   relation |-> relation, op |-> op, target |-> 1, tol |-> 1, factor |-> 2]

MCRelation ==
  {Relate("count", "ratio", ">="), Relate("sum", "invariant", "=="),
   Relate("last", "invariant", "<="), Relate("min", "equal", "=="),
   Relate("max", "scaled", "=="), Relate("sum", "subset", "=="),
   Relate("count", "monotone", "==")}

Nothing == {}
=============================================================================
