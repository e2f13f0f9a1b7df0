---------------------------- MODULE ArrivalPoller ----------------------------
(***************************************************************************)
(* The read half of ooptdd: poll_until_present of engine/verify.py, run    *)
(* by verify_gate over a store that shows an event only some time after it *)
(* has accepted it.                                                        *)
(*                                                                         *)
(* Three processes interleave: the observed system, which may emit at any  *)
(* time; the store, which decides when an event becomes visible and how a  *)
(* query is answered; and the poller.  Time is discrete and passes only    *)
(* while a query is under way or the poller sleeps.                        *)
(*                                                                         *)
(* A gate is known by its kind, the strictest of its gating checks, and    *)
(* by the events that decide it: it is green on a read that holds all of   *)
(* Wanted and, when a later event can revoke it, none of Offenders.        *)
(***************************************************************************)
EXTENDS Integers

CONSTANTS
  Wanted,        \* the events the gate expects
  Offenders,     \* the events that turn a revocable gate red
  Kinds,         \* the kinds of gate to consider
  Retries, Delay, Backoff, MaxDelay,    \* PollingSettings
  ConfirmRounds, ConfirmDelay,
  Lookback,      \* seconds a window reaches back
  Future,        \* and ahead
  Visibility,    \* the ingest-to-queryable delay the backend declares
  Skew,          \* how far the store's clock is ahead of the poller's
  Latency,       \* the driver's timeout: the longest a query takes
  RetryAfters,   \* the Retry-After values a throttling store may send
  Horizon,       \* the last time at which the observed system emits
  None

Event == Wanted \cup Offenders

Verdict    == {"present", "absent", "inconclusive"}
Settlement == {"irrevocable_prefix", "bounded_final"}

GateKind == {"counts", "absence", "order", "signed", "external"}

ASSUME PollingAssumption ==
  /\ Retries \in Nat \ {0}
  /\ Delay \in Nat /\ Backoff \in Nat /\ MaxDelay \in Nat
  /\ ConfirmRounds \in Nat /\ ConfirmDelay \in Nat
\* A law of arithmetic: the provers know nothing of powers.
ASSUME PowerAssumption == \A n \in 1 .. Retries : Backoff ^ (n - 1) \in Nat
ASSUME WindowAssumption ==
  /\ Lookback \in Nat /\ Future \in Nat
  /\ Visibility \in Nat /\ Skew \in Nat /\ Latency \in Nat
  /\ RetryAfters \subseteq Nat
  /\ Horizon \in Nat
ASSUME EventAssumption ==
  /\ Wanted \cap Offenders = {}
  /\ Kinds \subseteq GateKind
  /\ None \notin Nat \cup Verdict \cup Settlement

QueryResult ==
  [reachable : BOOLEAN, complete : BOOLEAN, probe : BOOLEAN,
   events : SUBSET Event, retryAfter : Nat \cup {None}]

VARIABLES
  now,
  \* the store: when it accepted each event, when it shows it
  accepted, visible,
  \* the call's arguments
  kind,          \* the kind of the gate
  early,         \* settle_early
  \* the poller
  pc,            \* "start", "send", "querying", "sleeping" or "done"
  started,       \* started_us
  round,         \* "attempt", "extension" or "confirm": the caller of _read
  attempt, confirms, queried,
  sent,          \* the now the window of the query under way was taken from
  wake,          \* when the sleeper returns
  last,          \* last_events, last_reachable, last_complete
  \* the body it returns
  verdict, settlement,
  throttled      \* for the properties only: until when the store has asked not to be queried

store   == <<accepted, visible>>
request == <<kind, early>>
loop    == <<started, round, attempt, confirms, queried>>
body    == <<verdict, settlement>>
vars    == <<now, store, request, pc, loop, sent, wake, last, body, throttled>>

NoAnswer ==
  [reachable |-> FALSE, complete |-> TRUE, probe |-> TRUE, events |-> {},
   retryAfter |-> None]

\* Some events were accepted just before the call, and may not be visible yet.
Init ==
  /\ now = 1
  /\ accepted \in [Event -> {0, None}]
  /\ visible \in [Event -> 0 .. Visibility \cup {None}]
  /\ \A e \in Event : visible[e] = None <=> accepted[e] = None
  /\ kind \in Kinds
  /\ early \in BOOLEAN
  /\ pc = "start"
  /\ started = 1
  /\ round = "attempt"
  /\ attempt = 1
  /\ confirms = 0
  /\ queried = FALSE
  /\ sent = 1
  /\ wake = 1
  /\ last = NoAnswer
  /\ verdict = None
  /\ settlement = None
  /\ throttled = 0

-----------------------------------------------------------------------------
(* The observed system and the store.                                      *)

\* Accepted now, stamped with the store's clock, visible within the declared delay.
Emit(e, lag) ==
  /\ accepted[e] = None
  /\ now <= Horizon
  /\ accepted' = [accepted EXCEPT ![e] = now]
  /\ visible' = [visible EXCEPT ![e] = now + lag]
  /\ UNCHANGED <<now, request, pc, loop, sent, wake, last, body, throttled>>

\* What the store can show of a window when it evaluates the query at time t.
Matching(t, since, until) ==
  {e \in Event :
     /\ visible[e] # None /\ visible[e] <= t
     /\ accepted[e] + Skew >= since /\ accepted[e] + Skew <= until}

Tick ==
  /\ \/ pc = "querying" /\ now < sent + Latency
     \/ pc = "sleeping" /\ now < wake
  /\ now' = now + 1
  /\ UNCHANGED <<store, request, pc, loop, sent, wake, last, body, throttled>>

\* How a store may answer a query it evaluated at time t: in full, with part of the rows
\* (a paging cap, or a failure on a later page), or not at all.
Answers(t, since, until) ==
  LET all  == Matching(t, since, until)
      wait == RetryAfters \cup {None}
  IN {r \in [reachable : {TRUE}, complete : {TRUE}, probe : BOOLEAN,
             events : {all}, retryAfter : {None}]
             \cup
            [reachable : {TRUE}, complete : {FALSE}, probe : BOOLEAN,
             events : SUBSET all, retryAfter : wait]
             \cup
            [reachable : {FALSE}, complete : {TRUE}, probe : BOOLEAN,
             events : {{}}, retryAfter : wait] :
        r.probe \/ kind = "external"}

-----------------------------------------------------------------------------
(* Judging a read.                                                         *)

\* A later event can turn a green gate of this kind red.
Revocable == kind \in {"absence", "order", "signed"}

\* Mutant: what the extension reads is recorded, and the read before it is judged.
OkStale(read) ==
  LET judged == IF round = "extension" THEN last ELSE read
  IN  /\ judged.reachable /\ judged.complete
      /\ Wanted \subseteq judged.events
      /\ Revocable => judged.events \cap Offenders = {}
      /\ kind = "external" => judged.probe

\* evaluate_events: the "ok" of a gate of this kind over the read.
Ok(read) ==
  /\ read.reachable /\ read.complete
  /\ Wanted \subseteq read.events
  /\ Revocable => read.events \cap Offenders = {}
  /\ kind = "external" => read.probe

\* Mutant: the green of an ordered gate is taken for settled.
SettledByOrder(read) == early /\ Ok(read) /\ kind \in {"counts", "order"}

\* _settled_green: every gating check is a latched SAT.  The checks of an ordered gate
\* and of one over a signed chain latch SAT too, and are excluded by name.
Settled(read) == early /\ Ok(read) /\ kind = "counts"

\* The three-valued verdict of a final evaluation.
FinalVerdict(read) ==
  IF Ok(read) THEN "present"
  ELSE IF read.reachable /\ read.complete /\ read.probe THEN "absent"
  ELSE "inconclusive"

-----------------------------------------------------------------------------
(* The poller.                                                             *)

\* min(delay * backoff ** (n - 1), max_delay)
BackedOff(n) ==
  LET grown == Delay * Backoff ^ (n - 1)
  IN IF grown < MaxDelay THEN grown ELSE MaxDelay

\* Mutant: the Retry-After is dropped.
PauseUnthrottled(n, retryAfter) == BackedOff(n)

\* next_poll_delay: at least the Retry-After, when there is one.
Pause(n, retryAfter) ==
  IF retryAfter # None /\ retryAfter > BackedOff(n) THEN retryAfter ELSE BackedOff(n)

\* One best-effort flush before the first read; ok is what it answered, or FALSE when the
\* store has none or it raised.  Accepted events are visible once it succeeds.
Flush(ok) ==
  /\ pc = "start"
  /\ pc' = "send"
  /\ started' = now
  /\ visible' = [e \in Event |->
                    IF ok /\ visible[e] # None /\ visible[e] > now THEN now ELSE visible[e]]
  /\ UNCHANGED <<now, accepted, request, round, attempt, confirms, queried,
                 sent, wake, last, body, throttled>>

Send ==
  /\ pc = "send"
  /\ pc' = "querying"
  /\ sent' = now
  /\ UNCHANGED <<now, store, request, loop, wake, last, body, throttled>>

Sleep(seconds) ==
  /\ pc' = "sleeping"
  /\ wake' = now + seconds
  /\ UNCHANGED body

Return(v, how) ==
  /\ pc' = "done"
  /\ verdict' = v
  /\ settlement' = how
  /\ UNCHANGED wake

\* TimeWindow.around_now
Window(t) == [since |-> t - Lookback, until |-> t + Future]

\* A query returns and _read records it.  The store evaluated it at some time t on the way.
Receive(t, read) ==
  /\ pc = "querying"
  /\ t \in sent .. now
  /\ read \in Answers(t, Window(sent).since, Window(sent).until)
  /\ last' = read
  /\ queried' = (queried \/ read.reachable)
  /\ throttled' = IF read.retryAfter = None THEN throttled ELSE now + read.retryAfter
  /\ UNCHANGED <<now, store, request, started, sent>>

\* An irrevocable green on a read that is not final.
Settle(t, read) ==
  /\ round # "confirm" /\ Settled(read)
  /\ Receive(t, read)
  /\ Return("present", "irrevocable_prefix")
  /\ UNCHANGED <<round, attempt, confirms>>

Retry(t, read) ==
  /\ round = "attempt" /\ ~ Settled(read)
  /\ attempt < Retries
  /\ Receive(t, read)
  /\ attempt' = attempt + 1
  /\ Sleep(Pause(attempt, read.retryAfter))
  /\ UNCHANGED <<round, confirms>>

\* The store has answered, and the wait does not cover the visibility delay yet.
InBlindWindow(read) ==
  (queried \/ read.reachable) /\ Visibility - (now - started) > 0

\* The retry budget is spent inside the blind window: wait it out once and read again.
Extend(t, read) ==
  /\ round = "attempt" /\ ~ Settled(read)
  /\ attempt = Retries /\ InBlindWindow(read)
  /\ Receive(t, read)
  /\ round' = "extension"
  /\ Sleep(Visibility - (now - started))
  /\ UNCHANGED <<attempt, confirms>>

\* Mutant: nothing judges the read after the extension unless it settles.
FinalButExtended(read) ==
  \/ round = "attempt" /\ ~ Settled(read) /\ attempt = Retries /\ ~ InBlindWindow(read)
  \/ round = "confirm"

\* This read is judged as the last one.
Final(read) ==
  \/ round = "attempt" /\ ~ Settled(read) /\ attempt = Retries /\ ~ InBlindWindow(read)
  \/ round = "extension" /\ ~ Settled(read)
  \/ round = "confirm"

\* Mutant: a green last read is believed at once.
UnconfirmedNever(read) == FALSE

\* A green last read is not yet believed while there are confirming rounds left.
Unconfirmed(read) == Ok(read) /\ confirms < ConfirmRounds

\* Look again.
Confirm(t, read) ==
  /\ Final(read) /\ Unconfirmed(read)
  /\ Receive(t, read)
  /\ round' = "confirm"
  /\ confirms' = confirms + 1
  /\ Sleep(ConfirmDelay)
  /\ UNCHANGED attempt

\* The last read decides; a confirming round that is no longer green ends the rounds.
Conclude(t, read) ==
  /\ Final(read) /\ ~ Unconfirmed(read)
  /\ Receive(t, read)
  /\ Return(FinalVerdict(read), "bounded_final")
  /\ UNCHANGED <<round, attempt, confirms>>

Wake ==
  /\ pc = "sleeping"
  /\ now >= wake
  /\ pc' = "send"
  /\ UNCHANGED <<now, store, request, loop, sent, wake, last, body, throttled>>

Answer ==
  /\ pc = "querying"
  /\ \E t \in sent .. now : \E read \in Answers(t, Window(sent).since, Window(sent).until) :
       \/ Settle(t, read)
       \/ Retry(t, read)
       \/ Extend(t, read)
       \/ Confirm(t, read)
       \/ Conclude(t, read)

Poll == (\E ok \in BOOLEAN : Flush(ok)) \/ Send \/ Answer \/ Wake

Next ==
  \/ Poll
  \/ Tick
  \/ \E e \in Event, lag \in 0 .. Visibility : Emit(e, lag)

Spec == Init /\ [][Next]_vars

\* Time passes, a driver answers within its timeout, a sleep ends: the loop is
\* sequential code that nothing else can block.  The observed system owes nothing.
FairSpec == Spec /\ WF_vars(Tick) /\ WF_vars(Poll)

-----------------------------------------------------------------------------
(* Properties.                                                             *)

Times == Nat \cup {None}

\* Every variable holds a value of its Python counterpart.
TypeOK ==
  /\ now \in Nat /\ started \in Nat /\ sent \in Nat /\ wake \in Nat
  /\ accepted \in [Event -> Times] /\ visible \in [Event -> Times]
  /\ kind \in Kinds /\ early \in BOOLEAN
  /\ pc \in {"start", "send", "querying", "sleeping", "done"}
  /\ round \in {"attempt", "extension", "confirm"}
  /\ attempt \in 1 .. Retries /\ confirms \in 0 .. ConfirmRounds
  /\ queried \in BOOLEAN
  /\ last \in QueryResult
  /\ verdict \in Verdict \cup {None}
  /\ settlement \in Settlement \cup {None}
  /\ pc = "done" <=> verdict # None
  /\ throttled \in Nat

\* The window of the last read reaches back to this event.
Reached(e) == accepted[e] + Skew >= sent - Lookback

\* Ingestion lag is never taken for absence: a gate whose events were all accepted before
\* the call started, and which no offender ever breaks, is not found absent, however few
\* attempts there are and whatever the store answers in between; unless the call lasted so
\* long that the window has slid past an event.
LagIsNotAbsence ==
  verdict = "absent" =>
    \/ \E e \in Wanted : accepted[e] = None \/ accepted[e] >= started \/ ~ Reached(e)
    \/ Revocable /\ \E o \in Offenders : accepted[o] # None

\* A green that can be revoked is kept only if the call outlasted the lag of every
\* offender accepted before it started or, after that, within the time the confirming
\* rounds add, as long as the window still reaches back to it.  One accepted later than
\* that, less than the visibility delay before the last read, may escape.
LateOffenderCaught ==
  verdict = "present" /\ Revocable =>
    \A o \in Offenders :
      \/ accepted[o] = None \/ ~ Reached(o)
      \/ accepted[o] >= started + ConfirmRounds * ConfirmDelay

\* A green settled before the last attempt is irrevocable: whatever the observed system
\* still emits, the gate stays green over everything the store accepts.
IrrevocableIsFinal ==
  settlement = "irrevocable_prefix" =>
    /\ \A e \in Wanted : accepted[e] # None
    /\ Revocable => \A o \in Offenders : accepted[o] = None

\* No attempt is spent inside a throttle window the store has announced.
RetriesHonourThrottle ==
  pc = "querying" /\ round = "attempt" => sent >= throttled

\* Every call returns a verdict, also over a store that throttles or fails each read.
EventuallyReturns == <>(pc = "done")
=============================================================================
