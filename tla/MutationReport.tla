--------------------------- MODULE MutationReport ---------------------------
(***************************************************************************)
(* Mutation analysis of a gate (ooptdd_mutation/analysis.py): the          *)
(* deviations derived from what a gate demands of the events that arrived, *)
(* whether the gate catches each of them, and the audit of a report that   *)
(* was written of it.                                                      *)
(*                                                                         *)
(* A mutant is identified by its label and its events: the code takes a    *)
(* digest of both.                                                         *)
(***************************************************************************)
EXTENDS Trajectory

CONSTANTS
  Renamed,       \* the tool name of no rule and no call (_SENTINEL)
  Stamped        \* every call arrives with a time stamp, later than those before it
ASSUME RenamedAssumption == Renamed \notin Tools
ASSUME StampedAssumption == Stamped \in BOOLEAN

VARIABLE report   \* a mutation report, or None: [gate, rows, origin]; origin, which the
                  \* code does not keep, is what the report was made of

\* A text of the analysis, one that no needle is part of; and an empty value.
Sentinel == [shape |-> "other", parts |-> {}]
Empty(shape) == [shape |-> shape, parts |-> {}]

-----------------------------------------------------------------------------
(* Mutants of tool calls                                                   *)

\* Each expected call is bound to one that arrived, as its mode would match them.
Bound(r, arrived) ==
  LET Pair(n, j, exact) == PairScore(r.expected[n], arrived[j], r.withArgs, exact) > 0
      Follow(bound, n) ==
        LET from  == Max({0} \cup (Range(bound) \ {None}))
            later == {j \in DOMAIN arrived : j > from /\ Pair(n, j, FALSE)}
        IN  IF later = {} THEN None ELSE Min(later)
      followed[n \in 0 .. Len(r.expected)] ==
        IF n = 0 THEN <<>> ELSE Append(followed[n - 1], Follow(followed[n - 1], n))
  IN  CASE r.match = "exact" /\ Len(arrived) = Len(r.expected) ->
             [n \in DOMAIN r.expected |-> IF Pair(n, n, TRUE) THEN n ELSE None]
        [] r.match = "ordered" -> followed[Len(r.expected)]
        [] OTHER -> Claims(r.expected, arrived, r.withArgs)

\* Arguments the expected one rejects: the first candidate that does.
CorruptArgs(want, k, got) ==
  LET base    == IF got \in {None, Unreadable} THEN <<>> ELSE got
      With(v) == [x \in DOMAIN base \cup {k} |-> IF x = k THEN v ELSE base[x]]
      Asks(kinds) == IsMatcher(want) /\ \E constraint \in want.matcher : constraint.kind \in kinds
      When(condition, v) == IF condition THEN <<With(v)>> ELSE <<>>
      unwanted == UNION {constraint.want : constraint \in
                    {x \in IF IsMatcher(want) THEN want.matcher ELSE {} : x.kind = "not_contains"}}
      candidates ==
        <<[x \in DOMAIN base \ {k} |-> base[x]]>>
        \o When(unwanted # {}, [shape |-> "text", parts |-> {CHOOSE x \in unwanted : TRUE}])
        \o When(Asks({"absent", "empty_or_absent"}), Sentinel)
        \o When(Asks({"has_keys"}), Empty("dict"))
        \o When(Asks({"non_empty", "any"}), Empty("text"))
        \o When(Asks({"contains_all", "contains_any", "equals"}), Sentinel)
        \o When(~IsMatcher(want) /\ want.shape # "dict", Sentinel)
      rejected == {n \in DOMAIN candidates : ~MatcherArgsPass([x \in {k} |-> want], candidates[n])}
  IN  IF rejected = {} THEN None ELSE candidates[Min(rejected)]

Row(label, mutated, r) == [label |-> label, calls |-> mutated, rule |-> r]

RenameRow(r, arrived, j, n) ==
  <<Row(<<"rename", n, r.expected[n].tool>>, [arrived EXCEPT ![j].tool = Renamed], r)>>

CorruptRows(r, arrived, j, n) ==
  LET e    == r.expected[n]
      Corrupted(k) == CorruptArgs(e.args[k], k, arrived[j].args)
      keys == IF ~r.withArgs \/ e.args = None THEN {} ELSE
                {k \in DOMAIN e.args : Corrupted(k) # None}
      Mutated(k) == Row(<<"corrupt", n, e.tool, k>>, [arrived EXCEPT ![j].args = Corrupted(k)], r)
  IN  [i \in 1 .. Cardinality(keys) |-> Mutated(SetToSeq(keys)[i])]

ReorderRow(r, arrived, i, j, n) ==
  <<Row(<<"reorder", n, r.expected[n].tool, r.expected[n + 1].tool>>,
        [arrived EXCEPT ![i] = arrived[j], ![j] = arrived[i]], r)>>

Call(tool, args) == [tool |-> tool, args |-> args]

BoundRows(r, arrived, bound) ==
  LET Each(n) == IF bound[n] = None THEN <<>>
                 ELSE RenameRow(r, arrived, bound[n], n) \o CorruptRows(r, arrived, bound[n], n)
      Pair(n) == IF None \in {bound[n], bound[n + 1]} THEN <<>>
                 ELSE ReorderRow(r, arrived, bound[n], bound[n + 1], n)
      pairs   == IF r.match \in {"ordered", "exact"} THEN Len(r.expected) - 1 ELSE 0
  IN  FlattenSeq([n \in DOMAIN r.expected |-> Each(n)])
      \o FlattenSeq([n \in 1 .. pairs |-> Pair(n)])
      \o IF r.match # "exact" THEN <<>>
         ELSE <<Row(<<"extra">>, Append(arrived, Call(Renamed, <<>>)), r)>>

CoverToolCalls(r, arrived) == BoundRows(r, arrived, Bound(r, arrived))

CoverForbiddenTools(r, arrived) ==
  [n \in DOMAIN r.tools |->
    Row(<<"inject_tool", r.tools[n]>>, Append(arrived, Call(r.tools[n], <<>>)), r)]

\* Values one of which a satisfiable matcher accepts, as far as the code looks.
Witnesses(want) ==
  LET Wanted(kind) == UNION {c.want : c \in {x \in want.matcher : x.kind = kind}}
      groups == {Wanted("contains_all"), Wanted("has_keys"),
                 Wanted("contains_all") \cup Wanted("has_keys")}
                \cup {{x} : x \in Wanted("contains_any")}
      equal  == {c.want : c \in {x \in want.matcher : x.kind = "equals"}}
  IN  equal \cup {Sentinel} \cup [shape : {"text", "list", "dict"}, parts : groups \ {{}}]

ArgsWitness(args) ==
  LET Fitting(k) == IF ~IsMatcher(args[k]) THEN {args[k]}
                    ELSE IF \E c \in args[k].matcher : c.kind \in {"absent", "empty_or_absent"} THEN {}
                    ELSE {v \in Witnesses(args[k]) : Meets(args[k], [x \in {k} |-> v], k)}
  IN  [k \in {x \in DOMAIN args : Fitting(x) # {}} |-> CHOOSE v \in Fitting(k) : TRUE]

CoverForbiddenToolCalls(r, arrived) ==
  LET Each(n) ==
        LET tool    == r.items[n].tool
            Injected(label, args) == <<Row(label, Append(arrived, Call(tool, args)), r)>>
            policed == r.items[n].args
            witness == ArgsWitness(policed)
            first   == \A m \in 1 .. n - 1 :
                         r.items[m].tool = r.items[n].tool => r.items[m].args \in {None, <<>>}
        IN  IF policed \in {None, <<>>} THEN Injected(<<"inject_call", n, tool>>, <<>>)
            ELSE (IF ForbiddenArgsPass(policed, witness)
                  THEN Injected(<<"inject_call", n, tool>>, witness) ELSE <<>>)
                 \o (IF first THEN Injected(<<"inject_unreadable", tool>>, Unreadable) ELSE <<>>)
  IN  FlattenSeq([n \in DOMAIN r.items |-> Each(n)])

\* Calls that changed places, each with its time stamp: the events are others, however alike
\* the calls, but judge_events sorts by stamp and puts them back.  (A call that is added
\* bears none, and comes last.)
SwappedStamps(row) == Stamped /\ row.label[1] = "reorder"

\* What is kept of the rows: the first of a label, and none that changes nothing.
Derive(g, arrived) ==
  LET Cover(r) == CASE r.kind = "tool_calls"           -> CoverToolCalls(r, arrived)
                    [] r.kind = "forbidden_tools"      -> CoverForbiddenTools(r, arrived)
                    [] r.kind = "forbidden_tool_calls" -> CoverForbiddenToolCalls(r, arrived)
      rows == FlattenSeq([n \in DOMAIN g |-> IF n \in GatingRules(g) THEN Cover(g[n]) ELSE <<>>])
      kept[n \in 0 .. Len(rows)] ==
        IF n = 0 THEN <<>>
        ELSE IF \/ rows[n].calls = arrived /\ ~SwappedStamps(rows[n])
                \/ \E m \in DOMAIN kept[n - 1] : kept[n - 1][m].label = rows[n].label
        THEN kept[n - 1] ELSE Append(kept[n - 1], rows[n])
  IN  kept[Len(rows)]

\* The calls of a mutant in the order in which they are judged.
Judged(row, arrived) == IF SwappedStamps(row) THEN arrived ELSE row.calls

Caught(g, row, arrived) == ~Green(g, Judged(row, arrived))

-----------------------------------------------------------------------------
(* Mutants of other events: what a required expectation matches is         *)
(* dropped, or loses the value a where clause asks for                     *)

\* judge_events over these events alone, read in full: no probe answers, no chain is verified.
JudgedOk(g, events) ==
  /\ ~Raises(g) /\ Gating(g) # {}
  /\ Suffices(g, {p \in Gating(g) :
                    p[2].kind # "external" /\ Holding(p[2], RunOver(p[2], events))})
  /\ "corroboration" \notin g.policy /\ "signature" \notin g.policy
  /\ "independent_store" \in g.policy => "dependent" \notin Caps

\* Does a matcher ask for more than a name?
Pinned(match) == \E e \in match, f \in Stored \ match : e.name = f.name

\* Mutant: only the first event that matches is dropped.
DropFirst(match, events) ==
  LET hits == {n \in DOMAIN events : events[n] \in match}
  IN  IF hits = {} THEN events ELSE RemoveAt(events, Min(hits))

Drop(match, events) ==
  LET left[n \in 0 .. Len(events)] ==
        IF n = 0 THEN <<>>
        ELSE IF events[n] \in match THEN left[n - 1] ELSE Append(left[n - 1], events[n])
  IN  left[Len(events)]

\* An event with the value _SENTINEL, which no literal is equal to.
Corrupted(ev) == [ev EXCEPT !.value = None]

Corrupt(match, events) ==
  [n \in DOMAIN events |-> IF events[n] \in match THEN Corrupted(events[n]) ELSE events[n]]

\* What the check of a gate asks to be there, as far as the analysis looks.  A predicate
\* it does not know is taken for a count of every event.
Required(c) ==
  CASE c.optional \/ c.pending -> {}
    [] c.kind = "present"      -> c.rule.matchers
    [] c.kind = "must_order" /\ c.rule.seq # <<>> -> {{ev \in Stored : ev.name = c.rule.seq[1]}}
    [] c.kind = "count"        -> {c.rule.match}
    [] c.kind \in {"duration", "invariant", "metamorphic", "external"} -> {Stored}
    [] OTHER -> {}

DropMutants(required, events) == {Drop(match, events) : match \in required} \ {events}

CorruptMutants(required, events) ==
  {Corrupt(match, events) : match \in {x \in required : Pinned(x)}} \ {events}

-----------------------------------------------------------------------------
(* The report and its audit                                                *)

\* Mutant: a row is told by its label only.
LabelOnly(row) == row.label

MutationId(row) == <<row.label, row.calls>>

\* Is this a report of the gate over these calls?  The rows are compared one by one; what
\* a row says of its mutant is taken as it is.
SameMutants(rows, derived) ==
  /\ rows # <<>>
  /\ Len(rows) = Len(derived)
  /\ \A n \in DOMAIN derived : rows[n].id = MutationId(derived[n])

Authentic(rep, arrived) == SameMutants(rep.rows, Derive(rep.gate, arrived))

\* nDCG of an order of the rows is undefined when nothing was caught.
VerifyAuditRanking(rep, arrived) ==
  /\ Authentic(rep, arrived)
  /\ \E n \in DOMAIN rep.rows : rep.rows[n].caught

AnalyzeGate(g, derived, arrived) ==
  [n \in DOMAIN derived |->
    [id |-> MutationId(derived[n]), caught |-> Caught(g, derived[n], arrived)]]

TakeReport(g) ==
  /\ report = None
  /\ report' = [gate |-> g, origin |-> calls, rows |-> AnalyzeGate(g, Derive(g, calls), calls)]

\* The next report replaces it.
DropReport == report # None /\ report' = None

-----------------------------------------------------------------------------
(* Properties                                                              *)

\* What becomes of a mutant of what arrived: does its gate catch it, and was it green before?
TrialsOf(g, green, derived) ==
  {[row |-> row, green |-> green, caught |-> Caught(g, row, calls)] : row \in Range(derived)}

Trials == UNION {TrialsOf(g, Green(g, calls), Derive(g, calls)) : g \in ToolGates}

\* analysis.py:26-27: what a gate forbids turns it red when it is put there, whatever else
\* arrived; so does a forbidden tool with arguments nobody can read.
InjectionsAreCaught(trials) ==
  \A t \in trials :
    t.row.label[1] \in {"inject_tool", "inject_call", "inject_unreadable"} => t.caught

InFull(r) == r.kind = "tool_calls" /\ r.op = ">=" /\ r.target = Unit

\* analysis.py:382-389: a rename that a rule in full waves through is the blind spot of a
\* duplicate: more calls of the tool arrived than the rule expects.
SurvivingRenameHasADouble(trials) ==
  \A t \in {x \in trials : x.green /\ ~x.caught} :
    t.row.label[1] = "rename" /\ InFull(t.row.rule) =>
      LET expected == t.row.rule.expected
          tool     == expected[t.row.label[2]].tool
      IN  Cardinality({j \in DOMAIN calls : calls[j].tool = tool})
            > Cardinality({n \in DOMAIN expected : expected[n].tool = tool})

\* analysis.py:421-432: exact has no blind spot: renamed, corrupted or additional calls turn
\* a green gate red.
ExactMutantsDie(trials) ==
  \A t \in {x \in trials : x.green} :
    /\ InFull(t.row.rule) /\ t.row.rule.match = "exact"
    /\ t.row.label[1] \in {"rename", "corrupt", "extra"}
    => t.caught

\* analysis.py:786-799: a report that passes the audit was made of the calls it is audited
\* against, though others may derive as many mutants under the same labels.
AcceptedIsOfThisStream ==
  report # None /\ VerifyAuditRanking(report, calls) => report.origin = calls

\* A matcher that no event meets without the value it asks for.
AsksForValue(match) == \A ev \in match : Corrupted(ev) \notin match

\* The checks of a green gate that fail when what they demand is missing.
Demanding(g) ==
  {p \in Gating(g) :
     \/ p[2].kind \in {"present", "must_order"}
     \/ p[2].kind = "count" /\ p[2].rule.op \in {">=", ">"}}

GreenWithoutQuorum == {g \in Gates : g.threshold = None /\ JudgedOk(g, stream)}

\* analysis.py:16-21: a green gate without a quorum turns red when the events it requires
\* are dropped, or lose a value that it requires them to have.
RequiredDropsDie ==
  \A g \in GreenWithoutQuorum : \A p \in Demanding(g) :
    LET required == Required(p[2])
    IN  \A events \in DropMutants(required, stream)
                     \cup CorruptMutants({x \in required : AsksForValue(x)}, stream) :
          ~JudgedOk(g, events)

ToolMutantsDie(trials) ==
  InjectionsAreCaught(trials) /\ SurvivingRenameHasADouble(trials) /\ ExactMutantsDie(trials)

\* The events alone decide what follows: it is looked at once for each.
Once == report = None /\ source.authentic /\ Readable /\ \A x \in Externals : observed[x] = "none"

\* Calls are matched as well as their mode can, and no better in a stricter mode; arguments
\* nobody can read help no gate whose rules ask for more and ask alike.
CallsAreMatched ==
  Once =>
    OrderedIsBestInOrder /\ SubsetIsBestByName /\ ModesAreALadder /\ UnreadableNeverHelps

\* A mutant that must turn the gate red does; one that survives has found a blind spot.
MutantsDie == Once => ToolMutantsDie(Trials) /\ RequiredDropsDie
=============================================================================
