----------------------------- MODULE Trajectory -----------------------------
(***************************************************************************)
(* The tool-call predicates of the ooptdd-trajectory extension: how far    *)
(* the calls that arrived meet the calls that were expected, and whether   *)
(* one of them was forbidden.                                              *)
(*                                                                         *)
(* A call is a tool and its arguments; a name is never missing here, for   *)
(* a nameless event is skipped.  A score is counted in Units, a full match *)
(* being one Unit; the code adds floats.  The trajectory predicate is      *)
(* must_order under another name: see Gate.                                *)
(***************************************************************************)
EXTENDS Gate, SequencesExt

CONSTANTS
  Tools,
  Keys,          \* of arguments
  Needles,       \* what a value may contain
  Unit,          \* the score of a full match; it divides by every number of keys
  Calls,         \* the calls that may arrive
  ToolGates,     \* sequences of rules
  MaxCalls,      \* bound on the number of calls
  Unreadable     \* arguments that arrived and are no dict (_UNPARSEABLE)

\* A text or a list contains needles and a dict has them as keys, all with one value; one
\* without a needle is empty.  Any other value is no container, or one of no needle.
Value == [shape : {"text", "list", "dict"}, parts : SUBSET Needles]
           \cup [shape : {"other"}, parts : {{}}]

Match == {"exact", "subset", "ordered"}

\* What an expected argument asks: a literal, or a matcher of one or more constraints.
IsMatcher(want) == "matcher" \in DOMAIN want

\* Arguments that can be read, and those that are expected.
Readables == UNION {[K -> Value] : K \in SUBSET Keys}

IsExpectation(e) ==
  /\ e.tool \in Tools
  /\ \/ e.args = None
     \/ /\ DOMAIN e.args \subseteq Keys /\ e.args = [k \in DOMAIN e.args |-> e.args[k]]
        /\ \A k \in DOMAIN e.args : IsMatcher(e.args[k]) \/ e.args[k] \in Value

IsList(s) == s \in Seq(Range(s)) \ {<<>>}

IsRule(r) ==
  /\ r.optional \in BOOLEAN
  /\ \/ /\ r.kind = "tool_calls" /\ r.match \in Match /\ r.withArgs \in BOOLEAN
        /\ r.op \in Op /\ r.target \in Int
        /\ IsList(r.expected) /\ \A n \in DOMAIN r.expected : IsExpectation(r.expected[n])
     \/ r.kind = "forbidden_tools" /\ IsList(r.tools)
     \/ r.kind = "forbidden_tool_calls" /\ IsList(r.items)

ASSUME TrajectoryAssumption ==
  /\ Unit \in Nat \ {0} /\ MaxCalls \in Nat
  /\ IsFiniteSet(Keys) /\ IsFiniteSet(Needles)
  /\ None # Unreadable /\ None \notin Readables /\ Unreadable \notin Readables
  /\ Calls \subseteq [tool : Tools, args : Readables \cup {None, Unreadable}]
  /\ \A g \in ToolGates : g \in Seq(Range(g)) /\ \A n \in DOMAIN g : IsRule(g[n])

VARIABLE calls   \* the calls that arrived, in the order of the stream

-----------------------------------------------------------------------------
(* Arguments                                                               *)

Truthy(v) == v.shape = "other" \/ v.parts # {}

Satisfies(constraint, carried, k) ==
  LET present == k \in DOMAIN carried
      want    == constraint.want
      v       == carried[k]
  IN  CASE constraint.kind = "equals"          -> present /\ v = want
        [] constraint.kind = "contains_all"    -> present /\ want \subseteq v.parts
        [] constraint.kind = "contains_any"    -> present /\ want \cap v.parts # {}
        [] constraint.kind = "not_contains"    -> present => want \cap v.parts = {}
        [] constraint.kind = "any"             -> present
        [] constraint.kind = "non_empty"       -> present /\ Truthy(v)
        [] constraint.kind = "absent"          -> ~present
        [] constraint.kind = "empty_or_absent" -> present => ~Truthy(v)
        [] constraint.kind = "has_keys"        -> present /\ v.shape = "dict" /\ want \subseteq v.parts

Meets(want, carried, k) ==
  IF IsMatcher(want) THEN \A constraint \in want.matcher : Satisfies(constraint, carried, k)
  ELSE k \in DOMAIN carried /\ carried[k] = want

\* Mutant: arguments that cannot be read are no arguments.
ReadAsNone(expected, got) ==
  LET carried == IF got \in {None, Unreadable} THEN <<>> ELSE got
  IN  \A k \in DOMAIN expected : Meets(expected[k], carried, k)

\* A call without arguments carries the empty dict; one whose arguments cannot be
\* read meets nothing.
MatcherArgsPass(expected, got) ==
  /\ got # Unreadable
  /\ LET carried == IF got = None THEN <<>> ELSE got
     IN  \A k \in DOMAIN expected : Meets(expected[k], carried, k)

\* Mutant: what cannot be read matches nothing.
ForbidsReadable(expected, got) ==
  got \notin {None, Unreadable} /\ \A k \in DOMAIN expected : Meets(expected[k], got, k)

\* The other way round: what cannot be read may be what is forbidden.
ForbiddenArgsPass(expected, got) ==
  \/ got = Unreadable
  \/ got # None /\ \A k \in DOMAIN expected : Meets(expected[k], got, k)

\* Jaccard credit over the keys, and once more over those of nested dicts.
ArgCredit(expected, got, exact) ==
  LET all  == DOMAIN expected \cup DOMAIN got
      share == Unit \div Cardinality(all)
      Credit(k) ==
        LET x == expected[k]  y == got[k]
        IN  IF x = y THEN share
            ELSE IF x.shape = "dict" /\ y.shape = "dict"
            THEN (share * Cardinality(x.parts \cap y.parts)) \div Cardinality(x.parts \cup y.parts)
            ELSE 0
      both == DOMAIN expected \cap DOMAIN got
      keys == 1 .. Cardinality(both)
  IN  IF got \in {None, Unreadable} THEN 0
      ELSE IF expected = got THEN Unit
      ELSE IF exact THEN 0
      ELSE SumOf([n \in keys |-> Credit(SetToSeq(both)[n])], keys)

PairScore(expected, got, withArgs, exact) ==
  IF expected.tool # got.tool THEN 0
  ELSE IF ~withArgs \/ expected.args = None THEN Unit
  ELSE IF \E k \in DOMAIN expected.args : IsMatcher(expected.args[k])
  THEN IF MatcherArgsPass(expected.args, got.args) THEN Unit ELSE 0
  ELSE ArgCredit(expected.args, got.args, exact)

-----------------------------------------------------------------------------
(* The three matching modes; a score is a sum over the expected calls      *)

\* Mutant: some credit for each is enough.
ScoreAlike(expected, arrived, withArgs) ==
  IF /\ Len(expected) = Len(arrived)
     /\ \A n \in DOMAIN expected : PairScore(expected[n], arrived[n], withArgs, FALSE) > 0
  THEN Unit * Len(expected) ELSE 0

ScoreExact(expected, arrived, withArgs) ==
  IF /\ Len(expected) = Len(arrived)
     /\ \A n \in DOMAIN expected : PairScore(expected[n], arrived[n], withArgs, TRUE) = Unit
  THEN Unit * Len(expected) ELSE 0

\* What each arrived call would score for an expected one.
Scores(e, arrived, withArgs) ==
  [j \in DOMAIN arrived |-> PairScore(e, arrived[j], withArgs, FALSE)]

BestsOf(score, J) == {j \in J : score[j] > 0 /\ \A i \in J : score[i] <= score[j]}

\* Mutant: the last of the best ones.
BestLast(score, taken) ==
  LET best == BestsOf(score, DOMAIN score \ taken) IN IF best = {} THEN None ELSE Max(best)

\* Mutant: a call may be claimed by several.
BestOfAll(score, taken) ==
  LET best == BestsOf(score, DOMAIN score) IN IF best = {} THEN None ELSE Min(best)

\* The first arrived call, of those left, that scores best for an expected one.
Best(score, taken) ==
  LET best == BestsOf(score, DOMAIN score \ taken) IN IF best = {} THEN None ELSE Min(best)

\* Greedy: each expected call claims its best unclaimed one.  The indices claimed, or None.
Claims(expected, arrived, withArgs) ==
  LET claimed[n \in 0 .. Len(expected)] ==
        IF n = 0 THEN <<>>
        ELSE Append(claimed[n - 1],
                    Best(Scores(expected[n], arrived, withArgs), Range(claimed[n - 1]) \ {None}))
  IN  claimed[Len(expected)]

\* What an assignment of arrived to expected calls scores.
Sum(expected, arrived, withArgs, to) ==
  SumOf([n \in DOMAIN expected |->
           IF to[n] = None THEN 0 ELSE PairScore(expected[n], arrived[to[n]], withArgs, FALSE)],
        DOMAIN expected)

ScoreSubset(expected, arrived, withArgs) ==
  Sum(expected, arrived, withArgs, Claims(expected, arrived, withArgs))

\* Mutant: a call is used again by the next expected one.
ScoreOrderedAgain(expected, arrived, withArgs) ==
  LET dp[at \in (0 .. Len(expected)) \X (0 .. Len(arrived))] ==
        LET i == at[1]  j == at[2]
            w == PairScore(expected[i], arrived[j], withArgs, FALSE)
        IN  IF i = 0 \/ j = 0 THEN 0
            ELSE Max({dp[<<i - 1, j>>], dp[<<i, j - 1>>], IF w > 0 THEN dp[<<i - 1, j>>] + w ELSE 0})
  IN  dp[<<Len(expected), Len(arrived)>>]

\* Weighted longest common subsequence.
ScoreOrdered(expected, arrived, withArgs) ==
  LET dp[at \in (0 .. Len(expected)) \X (0 .. Len(arrived))] ==
        LET i == at[1]  j == at[2]
            w == PairScore(expected[i], arrived[j], withArgs, FALSE)
        IN  IF i = 0 \/ j = 0 THEN 0
            ELSE Max({dp[<<i - 1, j>>], dp[<<i, j - 1>>], IF w > 0 THEN dp[<<i - 1, j - 1>>] + w ELSE 0})
  IN  dp[<<Len(expected), Len(arrived)>>]

Score(match, expected, arrived, withArgs) ==
  CASE match = "exact"   -> ScoreExact(expected, arrived, withArgs)
    [] match = "subset"  -> ScoreSubset(expected, arrived, withArgs)
    [] match = "ordered" -> ScoreOrdered(expected, arrived, withArgs)

-----------------------------------------------------------------------------
(* The predicates                                                          *)

CheckToolCalls(r, arrived) ==
  Holds(r.op, Score(r.match, r.expected, arrived, r.withArgs), r.target * Len(r.expected))

CheckForbiddenTools(r, arrived) ==
  \A j \in DOMAIN arrived : arrived[j].tool \notin Range(r.tools)

Offends(item, c) ==
  /\ c.tool = item.tool
  /\ item.args # None => ForbiddenArgsPass(item.args, c.args)

CheckForbiddenToolCalls(r, arrived) ==
  \A j \in DOMAIN arrived, n \in DOMAIN r.items : ~Offends(r.items[n], arrived[j])

RulePassed(r, arrived) ==
  CASE r.kind = "tool_calls"           -> CheckToolCalls(r, arrived)
    [] r.kind = "forbidden_tools"      -> CheckForbiddenTools(r, arrived)
    [] r.kind = "forbidden_tool_calls" -> CheckForbiddenToolCalls(r, arrived)

\* A gate of such rules, read in full and without a quorum.
GatingRules(g) == {n \in DOMAIN g : ~g[n].optional}
Green(g, arrived) ==
  /\ GatingRules(g) # {}
  /\ \A n \in GatingRules(g) : RulePassed(g[n], arrived)

-----------------------------------------------------------------------------
\* A call arrives; the order of the stream is that of the time stamps, so it may be
\* found anywhere among the others.
Arrive(c) ==
  /\ Len(calls) < MaxCalls
  /\ \E n \in 1 .. Len(calls) + 1 : calls' = InsertAt(calls, n, c)

-----------------------------------------------------------------------------
(* Properties                                                              *)

Expectations == {r \in UNION {Range(g) : g \in ToolGates} : r.kind = "tool_calls"}

\* Every way to give expected calls distinct arrived ones.
Assignments(expected, arrived) ==
  {to \in [DOMAIN expected -> DOMAIN arrived \cup {None}] :
     \A m, n \in DOMAIN expected : m # n /\ to[m] = to[n] => to[m] = None}

Increasing(to) == \A m, n \in DOMAIN to : m < n /\ None \notin {to[m], to[n]} => to[m] < to[n]

\* ordered is the best assignment that keeps the order, whatever the partial credits.
OrderedIsBestInOrder ==
  \A r \in Expectations :
    LET sums == {Sum(r.expected, calls, r.withArgs, to) :
                   to \in {x \in Assignments(r.expected, calls) : Increasing(x)}}
    IN  ScoreOrdered(r.expected, calls, r.withArgs) = Max(sums)

\* Greedy is no worse than the best assignment, in any order, when names are compared;
\* with arguments it is never better.
SubsetIsBestByName ==
  \A r \in Expectations :
    LET best == Max({Sum(r.expected, calls, r.withArgs, to) : to \in Assignments(r.expected, calls)})
    IN  /\ ScoreSubset(r.expected, calls, r.withArgs) <= best
        /\ ~r.withArgs => ScoreSubset(r.expected, calls, r.withArgs) = best

\* The modes are a ladder: a full exact score is a full ordered one, and a full ordered
\* score a full subset one, greedy or not.
ModesAreALadder ==
  \A r \in Expectations :
    LET Full(match) == Score(match, r.expected, calls, r.withArgs) = Unit * Len(r.expected)
    IN  (Full("exact") => Full("ordered")) /\ (Full("ordered") => Full("subset"))

\* A greedy match compares like with like: all its expected calls ask for arguments, or
\* none does.
AsksAlike(r) ==
  \/ r.match # "subset" \/ ~r.withArgs
  \/ \A n \in DOMAIN r.expected : r.expected[n].args # None

\* The gate asks for no less than some score.
AsksForMore(g) == \A n \in DOMAIN g : g[n].kind = "tool_calls" => g[n].op \in {">=", ">"}

Spoilt(j) == [calls EXCEPT ![j].args = Unreadable]

\* Arguments that cannot be read fail closed: losing them turns no red gate green, as long as
\* its rules ask for more and ask alike.  (A greedy rule that does not ask alike may be helped.)
UnreadableNeverHelps ==
  \A g \in ToolGates, j \in DOMAIN calls :
    /\ AsksForMore(g) /\ \A n \in DOMAIN g : g[n].kind = "tool_calls" => AsksAlike(g[n])
    /\ Green(g, Spoilt(j))
    => Green(g, calls)
=============================================================================
