------------------------- MODULE ArrivalPollerProofs -------------------------
(***************************************************************************)
(* Theorems about ArrivalPoller: what the blind-window guard and the       *)
(* confirming rounds are worth, for every polling policy, every delay and  *)
(* every schedule of emissions and answers.                                *)
(*                                                                         *)
(* The theorems about the guard hold of a store that answers at once and   *)
(* whose clock is no further ahead than the future buffer;                 *)
(* ArrivalPoller_slow.cfg shows that the first assumption is needed.  That *)
(* a throttled poller waits as long as it was told, and backs off, holds   *)
(* of every store.                                                         *)
(***************************************************************************)
EXTENDS ArrivalPoller, TLAPS

PromptStore ==
  /\ Latency = 0
  /\ Skew <= Future

\* The time from which on a read of the present round sees every event accepted before
\* the call started, and then some.
Floor == started + Visibility + confirms * ConfirmDelay

\* Types, as far as the argument needs them.
Typed ==
  /\ now \in Nat /\ started \in Nat /\ sent \in Nat
  /\ confirms \in 0 .. ConfirmRounds
  /\ accepted \in [Event -> Nat \cup {None}]
  /\ visible \in [Event -> Nat \cup {None}]
  /\ round \in {"attempt", "extension", "confirm"}
  /\ pc \in {"start", "send", "querying", "sleeping", "done"}
  /\ queried \in BOOLEAN

\* What the store owes: an event is visible within the declared delay.
Delivery ==
  \A e \in Event :
    /\ accepted[e] = None <=> visible[e] = None
    /\ accepted[e] # None => accepted[e] <= now /\ visible[e] <= accepted[e] + Visibility

\* Where the loop stands: a query is answered at the time it was sent, and from the
\* extension on no read comes before the floor.
Paced ==
  /\ pc = "querying" => sent = now
  /\ round # "confirm" => confirms = 0
  /\ started <= now
  /\ pc = "start" => round = "attempt"
  /\ pc = "sleeping" /\ round # "attempt" => wake \in Int /\ wake >= Floor
  /\ pc \in {"send", "querying"} /\ round # "attempt" => now >= Floor
  /\ pc = "done" /\ verdict \in {"present", "absent"} /\ settlement = "bounded_final"
       => now >= Floor /\ (verdict = "present" => confirms = ConfirmRounds)
  /\ pc # "done" <=> verdict = None
  /\ settlement = "irrevocable_prefix" => kind = "counts" /\ verdict = "present"
  /\ settlement = None <=> verdict = None
  /\ settlement \in {"irrevocable_prefix", "bounded_final", None}

Inv == Typed /\ Delivery /\ Paced /\ LagIsNotAbsence /\ LateOffenderCaught

-----------------------------------------------------------------------------
(* Arithmetic of the floor.                                                *)

LEMMA Numbers ==
  /\ Visibility \in Nat /\ ConfirmDelay \in Nat /\ ConfirmRounds \in Nat
  /\ Future \in Nat /\ Skew \in Nat /\ Lookback \in Nat /\ Latency \in Nat
  BY PollingAssumption, WindowAssumption

LEMMA NoneIsNone ==
  /\ None \notin Nat
  /\ None # "present" /\ None # "absent" /\ None # "inconclusive"
  /\ None # "irrevocable_prefix" /\ None # "bounded_final"
  BY EventAssumption DEF Verdict, Settlement

LEMMA FloorNat ==
  ASSUME Typed
  PROVE  /\ confirms * ConfirmDelay \in Nat
         /\ ConfirmRounds * ConfirmDelay \in Nat
         /\ Floor \in Nat
         /\ Floor >= started + Visibility
         /\ confirms = 0 => Floor = started + Visibility
         /\ confirms = ConfirmRounds =>
              Floor = started + Visibility + ConfirmRounds * ConfirmDelay
<1>1. confirms \in Nat /\ started \in Nat
  BY Numbers DEF Typed
<1>2. confirms * ConfirmDelay \in Nat /\ ConfirmRounds * ConfirmDelay \in Nat
  BY <1>1, Numbers
<1>3. confirms = 0 => confirms * ConfirmDelay = 0
  BY Numbers
<1> QED
  BY <1>1, <1>2, <1>3, Numbers DEF Floor

\* A confirming round moves the floor by its delay.
LEMMA FloorStep ==
  ASSUME Typed, confirms' = confirms + 1, started' = started
  PROVE  Floor' = Floor + ConfirmDelay
<1>1. confirms \in Nat /\ started \in Nat
  BY Numbers DEF Typed
<1>2. (confirms + 1) * ConfirmDelay = confirms * ConfirmDelay + ConfirmDelay
  BY <1>1, Numbers
<1>3. confirms * ConfirmDelay \in Nat
  BY <1>1, Numbers
<1> QED
  BY <1>1, <1>2, <1>3, Numbers DEF Floor

-----------------------------------------------------------------------------
(* Answers.                                                                *)

LEMMA AnswerType ==
  ASSUME NEW t, NEW since, NEW until, NEW read \in Answers(t, since, until)
  PROVE  /\ read.reachable \in BOOLEAN /\ read.complete \in BOOLEAN
         /\ read.reachable /\ read.complete => read.events = Matching(t, since, until)
         /\ read.probe \/ kind = "external"
  BY DEF Answers

\* A full answer to a query sent and evaluated now shows every event in reach that was
\* accepted a visibility delay ago.
LEMMA FullAnswer ==
  ASSUME PromptStore, Typed, Delivery, sent = now,
         NEW read \in Answers(now, Window(sent).since, Window(sent).until),
         read.reachable, read.complete,
         NEW e \in Event, accepted[e] # None, Reached(e),
         accepted[e] + Visibility <= now
  PROVE  e \in read.events
<1>1. read.events = Matching(now, sent - Lookback, sent + Future)
  BY AnswerType DEF Window
<1>2. accepted[e] \in Nat /\ visible[e] \in Nat
  BY DEF Typed, Delivery
<1>3. accepted[e] <= now /\ visible[e] <= accepted[e] + Visibility
  BY DEF Delivery
<1> QED
  BY <1>1, <1>2, <1>3, Numbers, NoneIsNone DEF Matching, Reached, PromptStore, Typed

\* Only accepted events have a time of visibility.
Recorded == \A e \in Event : accepted[e] = None <=> visible[e] = None

\* What an answer shows has been accepted.
LEMMA ShownIsAccepted ==
  ASSUME Recorded, NEW t, NEW since, NEW until, NEW read \in Answers(t, since, until),
         read.reachable, read.complete, NEW e \in read.events
  PROVE  e \in Event /\ accepted[e] # None
<1>1. e \in Matching(t, since, until)
  BY AnswerType
<1> QED
  BY <1>1 DEF Matching, Recorded

-----------------------------------------------------------------------------
(* Steps that return no verdict.                                           *)

Pending == verdict = None /\ settlement = None

\* While no verdict is returned the two properties hold for want of one.
LEMMA PendingHolds ==
  Pending => LagIsNotAbsence /\ LateOffenderCaught
  BY NoneIsNone DEF Pending, LagIsNotAbsence, LateOffenderCaught

LEMMA InitInv == Init => Inv
<1> SUFFICES ASSUME Init PROVE Inv
  OBVIOUS
<1>1. 0 .. Visibility \subseteq Nat
  BY Numbers
<1>2. /\ accepted \in [Event -> Nat \cup {None}]
      /\ visible \in [Event -> Nat \cup {None}]
  BY <1>1 DEF Init
<1>3. Typed
  <2>1. confirms \in 0 .. ConfirmRounds
    BY Numbers DEF Init
  <2> QED
    BY <1>2, <2>1 DEF Init, Typed
<1>4. Delivery
  BY Numbers, NoneIsNone DEF Init, Delivery
<1>5. Pending /\ Paced
  BY NoneIsNone DEF Init, Paced, Pending
<1> QED
  BY <1>3, <1>4, <1>5, PendingHolds DEF Inv

\* A step of the poller that leaves the store alone and returns nothing.
LEMMA QuietStep ==
  ASSUME Inv, UNCHANGED <<now, accepted, visible, verdict, settlement>>, Pending,
         Typed', Paced'
  PROVE  Inv'
<1>1. Delivery'
  BY DEF Inv, Delivery
<1>2. LagIsNotAbsence' /\ LateOffenderCaught'
  BY NoneIsNone DEF Pending, LagIsNotAbsence, LateOffenderCaught
<1> QED
  BY <1>1, <1>2 DEF Inv

LEMMA EmitInv ==
  ASSUME PromptStore, Inv, NEW e \in Event, NEW lag \in 0 .. Visibility, Emit(e, lag)
  PROVE  Inv'
<1> USE DEF Inv
<1>0. UNCHANGED <<now, kind, early, pc, started, round, attempt, confirms, queried, sent,
                  wake, last, verdict, settlement>>
  BY DEF Emit, request, loop, body
<1>1. /\ accepted[e] = None
      /\ accepted' = [accepted EXCEPT ![e] = now]
      /\ visible' = [visible EXCEPT ![e] = now + lag]
  BY DEF Emit
<1>2. now \in Nat /\ now + lag \in Nat /\ now + lag <= now + Visibility
  BY Numbers DEF Typed
<1>3. /\ accepted'[e] = now /\ visible'[e] = now + lag
      /\ \A f \in Event \ {e} : accepted'[f] = accepted[f] /\ visible'[f] = visible[f]
  BY <1>1 DEF Typed
<1>4. Typed'
  BY <1>0, <1>1, <1>2 DEF Typed
<1>5. Delivery'
  BY <1>0, <1>2, <1>3, Numbers, NoneIsNone DEF Delivery
<1>6. Paced' /\ Floor' = Floor
  BY <1>0 DEF Paced, Floor
<1>7. \A f \in Event : Reached(f) /\ f # e => Reached(f)'
  BY <1>0, <1>3 DEF Reached
<1>8. LagIsNotAbsence'
  <2> SUFFICES ASSUME verdict = "absent" PROVE LagIsNotAbsence'
    BY <1>0 DEF LagIsNotAbsence
  <2>1. now >= started
    BY DEF Paced
  <2>2. CASE \E w \in Wanted : accepted[w] = None \/ accepted[w] >= started \/ ~ Reached(w)
    <3>1. PICK w \in Wanted : accepted[w] = None \/ accepted[w] >= started \/ ~ Reached(w)
      BY <2>2
    <3>2. w \in Event
      BY DEF Event
    <3>3. CASE w = e
      BY <1>0, <1>3, <2>1, <3>3 DEF LagIsNotAbsence
    <3>4. CASE w # e
      BY <1>0, <1>3, <3>1, <3>2, <3>4 DEF LagIsNotAbsence, Reached
    <3> QED
      BY <3>3, <3>4
  <2>3. CASE Revocable /\ \E o \in Offenders : accepted[o] # None
    <3>1. PICK o \in Offenders : accepted[o] # None
      BY <2>3
    <3>2. o \in Event /\ accepted'[o] # None
      BY <1>1, <1>3, <3>1 DEF Event
    <3> QED
      BY <1>0, <2>3, <3>2 DEF LagIsNotAbsence, Revocable
  <2> QED
    BY <2>2, <2>3 DEF LagIsNotAbsence
<1>9. LateOffenderCaught'
  <2> SUFFICES ASSUME verdict = "present", Revocable, NEW o \in Offenders
               PROVE  \/ accepted'[o] = None \/ ~ Reached(o)'
                      \/ accepted'[o] >= started + ConfirmRounds * ConfirmDelay
    BY <1>0 DEF LateOffenderCaught, Revocable
  <2>1. o \in Event
    BY DEF Event
  <2>2. CASE o # e
    BY <1>0, <1>3, <2>1, <2>2 DEF LateOffenderCaught, Reached
  <2>3. CASE o = e
    <3>1. settlement = "bounded_final" /\ pc = "done"
      BY NoneIsNone DEF Paced, Revocable
    <3>2. now >= started + Visibility + ConfirmRounds * ConfirmDelay
      BY <3>1, FloorNat DEF Paced
    <3>3. ConfirmRounds * ConfirmDelay \in Nat /\ started \in Nat
      BY FloorNat DEF Typed
    <3> QED
      BY <1>2, <1>3, <2>3, <3>2, <3>3, Numbers
  <2> QED
    BY <2>2, <2>3
<1> QED
  BY <1>4, <1>5, <1>6, <1>8, <1>9

LEMMA TickInv ==
  ASSUME PromptStore, Inv, Tick
  PROVE  Inv'
<1> USE DEF Inv
<1>0. /\ pc = "sleeping" /\ now' = now + 1
      /\ UNCHANGED <<accepted, visible, kind, early, pc, started, round, attempt, confirms,
                     queried, sent, wake, last, verdict, settlement>>
  BY DEF Tick, store, request, loop, body, PromptStore, Paced, Typed
<1>1. Typed' /\ Floor' = Floor
  BY <1>0 DEF Typed, Floor
<1>2. Delivery'
  BY <1>0, Numbers DEF Typed, Delivery
<1>3. Pending
  BY <1>0 DEF Paced, Pending
<1>4. Paced'
  BY <1>0, <1>1 DEF Paced, Typed
<1>5. LagIsNotAbsence' /\ LateOffenderCaught'
  BY <1>0, <1>3, NoneIsNone DEF Pending, LagIsNotAbsence, LateOffenderCaught
<1> QED
  BY <1>1, <1>2, <1>4, <1>5

LEMMA FlushInv ==
  ASSUME Inv, NEW ok \in BOOLEAN, Flush(ok)
  PROVE  Inv'
<1> USE DEF Inv
<1>0. /\ pc = "start" /\ pc' = "send" /\ started' = now
      /\ UNCHANGED <<now, accepted, kind, early, round, attempt, confirms, queried, sent,
                     wake, last, verdict, settlement>>
  BY DEF Flush, request, body
<1>1. \A e \in Event : visible'[e] = IF ok /\ visible[e] # None /\ visible[e] > now
                                     THEN now ELSE visible[e]
  BY DEF Flush
<1>2. visible' \in [Event -> Nat \cup {None}]
  BY DEF Flush, Typed
<1>3. Typed'
  BY <1>0, <1>2 DEF Typed
<1>4. Delivery'
  BY <1>0, <1>1, Numbers, NoneIsNone DEF Delivery, Typed
<1>5. round = "attempt" /\ Pending
  BY <1>0 DEF Paced, Pending
<1>6. Paced'
  BY <1>0, <1>5, NoneIsNone DEF Paced, Pending, Typed
<1>7. LagIsNotAbsence' /\ LateOffenderCaught'
  BY <1>0, <1>5, NoneIsNone DEF Pending, LagIsNotAbsence, LateOffenderCaught
<1> QED
  BY <1>3, <1>4, <1>6, <1>7

LEMMA SendInv ==
  ASSUME Inv, Send
  PROVE  Inv'
<1> USE DEF Inv
<1>0. /\ pc = "send" /\ pc' = "querying" /\ sent' = now
      /\ UNCHANGED <<now, accepted, visible, kind, early, started, round, attempt, confirms,
                     queried, wake, last, verdict, settlement>>
  BY DEF Send, store, request, loop, body
<1>1. Pending
  BY <1>0 DEF Paced, Pending
<1>2. Typed' /\ Floor' = Floor
  BY <1>0 DEF Typed, Floor
<1>3. Paced'
  BY <1>0, <1>1, <1>2, NoneIsNone DEF Paced, Pending
<1> QED
  BY <1>0, <1>1, <1>2, <1>3, QuietStep

LEMMA WakeInv ==
  ASSUME Inv, Wake
  PROVE  Inv'
<1> USE DEF Inv
<1>0. /\ pc = "sleeping" /\ now >= wake /\ pc' = "send"
      /\ UNCHANGED <<now, accepted, visible, kind, early, started, round, attempt, confirms,
                     queried, sent, wake, last, verdict, settlement>>
  BY DEF Wake, store, request, loop, body
<1>1. Pending
  BY <1>0 DEF Paced, Pending
<1>2. Typed' /\ Floor' = Floor
  BY <1>0 DEF Typed, Floor
<1>3. Floor \in Nat
  BY FloorNat
<1>4. Paced'
  BY <1>0, <1>1, <1>2, <1>3, NoneIsNone DEF Paced, Pending, Typed
<1> QED
  BY <1>0, <1>1, <1>2, <1>4, QuietStep

-----------------------------------------------------------------------------
(* The five ways a read ends.                                              *)

\* A read was sent and evaluated now.
LEMMA Received ==
  ASSUME PromptStore, Inv, NEW t, NEW read, Receive(t, read)
  PROVE  /\ pc = "querying" /\ sent = now /\ t = now
         /\ read \in Answers(now, Window(sent).since, Window(sent).until)
         /\ UNCHANGED <<now, accepted, visible, kind, early, started, sent>>
         /\ queried' \in BOOLEAN
         /\ read.reachable \in BOOLEAN /\ read.complete \in BOOLEAN
         /\ Pending
<1>1. pc = "querying" /\ sent = now /\ t \in now .. now /\ now \in Nat
  BY DEF Inv, Receive, Paced, Typed
<1>2. t = now
  BY <1>1
<1>3. read \in Answers(now, Window(sent).since, Window(sent).until)
  BY <1>2 DEF Receive
<1>4. read.reachable \in BOOLEAN /\ read.complete \in BOOLEAN
  BY <1>3, AnswerType
<1>5. queried' \in BOOLEAN
  BY <1>4 DEF Receive, Inv, Typed
<1> QED
  BY <1>1, <1>2, <1>3, <1>4, <1>5 DEF Receive, store, request, Inv, Paced, Pending

LEMMA RetryInv ==
  ASSUME PromptStore, Inv, NEW t, NEW read, Retry(t, read)
  PROVE  Inv'
<1>0. Receive(t, read) /\ round = "attempt"
  BY DEF Retry
<1>1. /\ pc' = "sleeping" /\ wake' = now + Pause(attempt, read.retryAfter)
      /\ UNCHANGED <<round, confirms, verdict, settlement>>
  BY DEF Retry, Sleep, body
<1>2. Typed'
  BY <1>0, <1>1, Received DEF Typed, Inv
<1>3. Paced'
  BY <1>0, <1>1, Received, NoneIsNone DEF Paced, Inv, Pending
<1> QED
  BY <1>0, <1>1, <1>2, <1>3, Received, QuietStep

LEMMA ExtendInv ==
  ASSUME PromptStore, Inv, NEW t, NEW read, Extend(t, read)
  PROVE  Inv'
<1>0. Receive(t, read) /\ round = "attempt"
  BY DEF Extend
<1>1. /\ pc' = "sleeping" /\ wake' = now + (Visibility - (now - started))
      /\ round' = "extension"
      /\ UNCHANGED <<confirms, verdict, settlement>>
  BY DEF Extend, Sleep, body
<1>2. Typed' /\ Floor' = Floor
  BY <1>0, <1>1, Received DEF Typed, Inv, Floor
<1>3. confirms = 0 /\ now \in Nat /\ started \in Nat
  BY <1>0 DEF Inv, Paced, Typed
<1>4. wake' = started + Visibility /\ wake' \in Int
  BY <1>1, <1>3, Numbers
<1>5. wake' >= Floor'
  BY <1>2, <1>3, <1>4, FloorNat DEF Inv
<1>6. Paced'
  BY <1>0, <1>1, <1>3, <1>4, <1>5, Received, NoneIsNone DEF Paced, Inv, Pending
<1> QED
  BY <1>0, <1>1, <1>2, <1>6, Received, QuietStep

\* A final read that the store has answered comes no sooner than the floor.
LEMMA FinalAtFloor ==
  ASSUME PromptStore, Inv, NEW t, NEW read, Receive(t, read), Final(read), read.reachable
  PROVE  now >= Floor
<1>1. pc = "querying"
  BY Received
<1>2. CASE round = "attempt"
  <2>1. ~ (Visibility - (now - started) > 0)
    BY <1>2 DEF Final, InBlindWindow
  <2>2. confirms = 0 /\ now \in Nat /\ started \in Nat
    BY <1>2 DEF Inv, Paced, Typed
  <2> QED
    BY <2>1, <2>2, FloorNat, Numbers DEF Inv
<1>3. CASE round # "attempt"
  BY <1>1, <1>3 DEF Inv, Paced
<1> QED
  BY <1>2, <1>3

LEMMA ConfirmInv ==
  ASSUME PromptStore, Inv, NEW t, NEW read, Confirm(t, read)
  PROVE  Inv'
<1>0. Receive(t, read) /\ Final(read) /\ Ok(read) /\ confirms < ConfirmRounds
  BY DEF Confirm, Unconfirmed
<1>1. /\ pc' = "sleeping" /\ wake' = now + ConfirmDelay
      /\ round' = "confirm" /\ confirms' = confirms + 1
      /\ UNCHANGED <<verdict, settlement>>
  BY DEF Confirm, Sleep, body
<1>2. confirms' \in 0 .. ConfirmRounds
  BY <1>0, <1>1, Numbers DEF Inv, Typed
<1>3. Typed'
  BY <1>0, <1>1, <1>2, Received DEF Typed, Inv
<1>4. now >= Floor
  BY <1>0, FinalAtFloor DEF Ok
<1>5. Floor' = Floor + ConfirmDelay
  BY <1>0, <1>1, Received, FloorStep DEF Inv
<1>6. wake' \in Int /\ wake' >= Floor'
  BY <1>1, <1>4, <1>5, FloorNat, Numbers DEF Inv, Typed
<1>7. Paced'
  BY <1>0, <1>1, <1>6, Received, NoneIsNone DEF Paced, Inv, Pending
<1> QED
  BY <1>0, <1>1, <1>3, <1>7, Received, QuietStep

LEMMA SettleInv ==
  ASSUME PromptStore, Inv, NEW t, NEW read, Settle(t, read)
  PROVE  Inv'
<1>0. Receive(t, read) /\ kind = "counts" /\ Ok(read)
  BY DEF Settle, Settled
<1>1. /\ pc' = "done" /\ verdict' = "present" /\ settlement' = "irrevocable_prefix"
      /\ UNCHANGED <<round, confirms>>
  BY DEF Settle, Return
<1>2. Typed'
  BY <1>0, <1>1, Received DEF Typed, Inv
<1>3. Paced'
  BY <1>0, <1>1, Received, NoneIsNone DEF Paced, Inv, Pending
<1>4. Delivery'
  BY <1>0, Received DEF Inv, Delivery
<1>5. LagIsNotAbsence' /\ LateOffenderCaught'
  BY <1>0, <1>1, Received DEF LagIsNotAbsence, LateOffenderCaught, Revocable
<1> QED
  BY <1>2, <1>3, <1>4, <1>5 DEF Inv

LEMMA ConcludeInv ==
  ASSUME PromptStore, Inv, NEW t, NEW read, Conclude(t, read)
  PROVE  Inv'
<1>0. /\ Receive(t, read) /\ Final(read)
      /\ ~ (Ok(read) /\ confirms < ConfirmRounds)
  BY DEF Conclude, Unconfirmed
<1>1. /\ pc' = "done" /\ verdict' = FinalVerdict(read) /\ settlement' = "bounded_final"
      /\ UNCHANGED <<round, confirms>>
  BY DEF Conclude, Return
<1>2. Typed' /\ Floor' = Floor
  BY <1>0, <1>1, Received DEF Typed, Inv, Floor
<1>3. Delivery'
  BY <1>0, Received DEF Inv, Delivery
<1>4. /\ verdict' \in {"present", "absent", "inconclusive"}
      /\ verdict' = "present" => Ok(read) /\ confirms = ConfirmRounds
      /\ verdict' = "absent" => ~ Ok(read) /\ read.probe
      /\ verdict' \in {"present", "absent"} => read.reachable /\ read.complete
  BY <1>0, <1>1, Numbers DEF FinalVerdict, Ok, Inv, Typed
<1>5. verdict' \in {"present", "absent"} => now >= Floor
  BY <1>0, <1>4, FinalAtFloor
<1>6. Paced'
  BY <1>0, <1>1, <1>2, <1>4, <1>5, Received, NoneIsNone DEF Paced, Inv, Pending
<1>7. UNCHANGED <<now, accepted, started, sent, kind>> /\ sent = now
  BY <1>0, Received
<1>8. ASSUME verdict' \in {"present", "absent"}, NEW e \in Event,
             accepted[e] # None, Reached(e), accepted[e] + Visibility <= now
      PROVE  e \in read.events
  BY <1>0, <1>4, <1>8, Received, FullAnswer DEF Inv
<1>9. LagIsNotAbsence'
  <2> SUFFICES ASSUME verdict' = "absent",
                      \A e \in Wanted :
                        accepted[e] # None /\ ~ (accepted[e] >= started) /\ Reached(e),
                      Revocable => \A o \in Offenders : accepted[o] = None
               PROVE  FALSE
    BY <1>7 DEF LagIsNotAbsence, Revocable, Reached
  <2>1. Wanted \subseteq read.events
    <3> SUFFICES ASSUME NEW e \in Wanted PROVE e \in read.events
      OBVIOUS
    <3>1. e \in Event /\ accepted[e] \in Nat
      BY DEF Event, Inv, Typed
    <3>2. accepted[e] + Visibility <= now
      BY <1>5, <3>1, FloorNat, Numbers DEF Inv, Typed
    <3> QED
      BY <1>8, <3>1, <3>2
  <2>2. read.reachable /\ read.complete /\ read.probe
    BY <1>4
  <2>3. Revocable => read.events \cap Offenders = {}
    BY <1>0, <2>2, Received, ShownIsAccepted DEF Inv, Delivery, Recorded
  <2>4. Ok(read)
    BY <2>1, <2>2, <2>3 DEF Ok
  <2> QED
    BY <1>4, <2>4
<1>10. LateOffenderCaught'
  <2> SUFFICES ASSUME verdict' = "present", Revocable, NEW o \in Offenders,
                      accepted[o] # None, Reached(o),
                      ~ (accepted[o] >= started + ConfirmRounds * ConfirmDelay)
               PROVE  FALSE
    BY <1>7 DEF LateOffenderCaught, Revocable, Reached
  <2>1. o \in Event /\ accepted[o] \in Nat
    BY DEF Event, Inv, Typed
  <2>2. Floor = started + Visibility + ConfirmRounds * ConfirmDelay
    BY <1>4, FloorNat DEF Inv
  <2>3. accepted[o] + Visibility <= now
    BY <1>5, <2>1, <2>2, FloorNat, Numbers DEF Inv, Typed
  <2>4. o \in read.events
    BY <1>8, <2>1, <2>3
  <2> QED
    BY <1>4, <2>4 DEF Ok
<1> QED
  BY <1>2, <1>3, <1>6, <1>9, <1>10 DEF Inv

-----------------------------------------------------------------------------
(* The theorems.                                                           *)

LEMMA StepInv ==
  ASSUME PromptStore, Inv, [Next]_vars
  PROVE  Inv'
<1>1. CASE Poll
  BY <1>1, FlushInv, SendInv, WakeInv, SettleInv, RetryInv, ExtendInv, ConfirmInv,
     ConcludeInv DEF Poll, Answer
<1>2. CASE Tick
  BY <1>2, TickInv
<1>3. CASE \E e \in Event, lag \in 0 .. Visibility : Emit(e, lag)
  BY <1>3, EmitInv
<1>4. CASE UNCHANGED vars
  BY <1>4 DEF vars, store, request, loop, body, Inv, Typed, Delivery, Paced, Floor,
     LagIsNotAbsence, LateOffenderCaught, Reached, Revocable
<1> QED
  BY <1>1, <1>2, <1>3, <1>4 DEF Next

LEMMA InvHolds == PromptStore => (Spec => []Inv)
<1> SUFFICES ASSUME PromptStore PROVE Spec => []Inv
  OBVIOUS
<1>1. Inv /\ [Next]_vars => Inv'
  BY StepInv
<1> QED
  BY <1>1, InitInv, PTL DEF Spec

\* However short the retry budget, however long the declared delay: over a store that
\* answers promptly, events accepted before the call are never reported absent.
THEOREM NeverAbsentByLag == PromptStore => (Spec => []LagIsNotAbsence)
<1> SUFFICES ASSUME PromptStore PROVE Spec => []LagIsNotAbsence
  OBVIOUS
<1>1. Inv => LagIsNotAbsence
  BY DEF Inv
<1> QED
  BY <1>1, InvHolds, PTL

\* A revocable green has outlasted the visibility delay and the confirming rounds: an
\* offender the window still reaches escapes it only when it was accepted later than the
\* confirming rounds reach past the start of the call.
THEOREM NoLateOffenderEscapes == PromptStore => (Spec => []LateOffenderCaught)
<1> SUFFICES ASSUME PromptStore PROVE Spec => []LateOffenderCaught
  OBVIOUS
<1>1. Inv => LateOffenderCaught
  BY DEF Inv
<1> QED
  BY <1>1, InvHolds, PTL

-----------------------------------------------------------------------------
(* The irrevocable green, over any store: prompt or slow.                  *)

Lasting ==
  /\ now \in Nat
  /\ accepted \in [Event -> Nat \cup {None}]
  /\ visible \in [Event -> Nat \cup {None}]
  /\ Recorded
  /\ settlement = "irrevocable_prefix" =>
       kind = "counts" /\ \A e \in Wanted : accepted[e] # None

LEMMA LastingInit == Init => Lasting
<1> SUFFICES ASSUME Init PROVE Lasting
  OBVIOUS
<1>1. 0 .. Visibility \subseteq Nat
  BY Numbers
<1> QED
  BY <1>1, NoneIsNone DEF Init, Lasting, Recorded

LEMMA LastingStep ==
  ASSUME Lasting, [Next]_vars
  PROVE  Lasting'
<1> USE DEF Lasting
<1>1. CASE \E e \in Event, lag \in 0 .. Visibility : Emit(e, lag)
  <2>1. PICK e \in Event, lag \in 0 .. Visibility : Emit(e, lag)
    BY <1>1
  <2>2. now \in Nat /\ now + lag \in Nat
    BY Numbers
  <2> QED
    BY <2>1, <2>2, NoneIsNone DEF Emit, Recorded, request, body
<1>2. CASE \E ok \in BOOLEAN : Flush(ok)
  BY <1>2, NoneIsNone DEF Flush, Recorded, request, body
<1>3. CASE Answer
  <2>0. PICK t \in sent .. now :
          \E read \in Answers(t, Window(sent).since, Window(sent).until) :
            \/ Settle(t, read) \/ Retry(t, read) \/ Extend(t, read)
            \/ Confirm(t, read) \/ Conclude(t, read)
    BY <1>3 DEF Answer
  <2>1. PICK read \in Answers(t, Window(sent).since, Window(sent).until) :
               \/ Settle(t, read) \/ Retry(t, read) \/ Extend(t, read)
               \/ Confirm(t, read) \/ Conclude(t, read)
    BY <2>0
  <2>2. UNCHANGED <<now, accepted, visible, kind>>
    BY <2>1 DEF Settle, Retry, Extend, Confirm, Conclude, Receive, store, request
  <2>3. CASE Settle(t, read)
    <3>1. kind = "counts" /\ read.reachable /\ read.complete /\ Wanted \subseteq read.events
      BY <2>3 DEF Settle, Settled, Ok
    <3>2. \A e \in Wanted : accepted[e] # None
      BY <2>1, <3>1, ShownIsAccepted
    <3> QED
      BY <2>2, <3>1, <3>2 DEF Recorded
  <2>4. CASE Retry(t, read) \/ Extend(t, read) \/ Confirm(t, read)
    BY <2>2, <2>4 DEF Retry, Extend, Confirm, Sleep, body, Recorded
  <2>5. CASE Conclude(t, read)
    BY <2>2, <2>5 DEF Conclude, Return, Recorded
  <2> QED
    BY <2>1, <2>3, <2>4, <2>5
<1>4. CASE Send \/ Wake \/ UNCHANGED vars
  BY <1>4 DEF Send, Wake, vars, store, request, body, Recorded
<1>5. CASE Tick
  BY <1>5 DEF Tick, store, request, body, Recorded
<1> QED
  BY <1>1, <1>2, <1>3, <1>4, <1>5 DEF Next, Poll

\* What settles a call early, without confirming rounds, is a green no later event undoes.
THEOREM SettledForGood == Spec => []IrrevocableIsFinal
<1>1. Lasting => IrrevocableIsFinal
  BY DEF Lasting, IrrevocableIsFinal, Revocable
<1> QED
  BY <1>1, LastingInit, LastingStep, PTL DEF Spec
-----------------------------------------------------------------------------
(* The throttle, over any store.                                           *)

LEMMA BackedOffNat ==
  ASSUME NEW n \in 1 .. Retries
  PROVE  BackedOff(n) \in Nat
<1>1. Backoff ^ (n - 1) \in Nat
  BY PowerAssumption
<1> DEFINE power == Backoff ^ (n - 1)
<1> HIDE DEF power
<1>2. Delay * power \in Nat
  BY <1>1, PollingAssumption DEF power
<1> QED
  BY <1>2, PollingAssumption DEF BackedOff, power

\* A pause is never shorter than the Retry-After it was computed from.
LEMMA PauseIsLongEnough ==
  ASSUME NEW n \in 1 .. Retries, NEW retryAfter \in Nat \cup {None}
  PROVE  /\ Pause(n, retryAfter) \in Nat
         /\ retryAfter # None => Pause(n, retryAfter) >= retryAfter
BY BackedOffNat, NoneIsNone DEF Pause

\* Before an attempt the throttle window has passed, or passes while the poller sleeps.
Patient ==
  /\ now \in Nat /\ sent \in Nat /\ sent <= now /\ throttled \in Nat
  /\ attempt \in 1 .. Retries
  /\ round = "attempt" =>
       /\ pc = "start" => throttled = 0
       /\ pc = "send" => throttled <= now
       /\ pc = "querying" => throttled <= sent
       /\ pc = "sleeping" => wake \in Nat /\ throttled <= wake

LEMMA ReceiveThrottles ==
  ASSUME Patient, NEW t, NEW read, Receive(t, read)
  PROVE  /\ UNCHANGED <<now, sent>>
         /\ read.retryAfter \in Nat \cup {None}
         /\ throttled' = IF read.retryAfter = None THEN throttled ELSE now + read.retryAfter
         /\ throttled' \in Nat
<1>1. read.retryAfter \in RetryAfters \cup {None}
  BY DEF Receive, Answers
<1>2. read.retryAfter \in Nat \cup {None}
  BY <1>1, WindowAssumption
<1> QED
  BY <1>2 DEF Receive, Patient

LEMMA PatientStep ==
  ASSUME Patient, [Next]_vars
  PROVE  Patient'
<1> USE DEF Patient
<1>1. ASSUME NEW e, NEW lag, Emit(e, lag) PROVE Patient'
  BY <1>1 DEF Emit, loop
<1>2. ASSUME NEW ok, Flush(ok) PROVE Patient'
  BY <1>2 DEF Flush
<1>3. CASE Answer
  <2>1. PICK t, read : \/ Settle(t, read) \/ Retry(t, read) \/ Extend(t, read)
                       \/ Confirm(t, read) \/ Conclude(t, read)
    BY <1>3 DEF Answer
  <2>2. pc = "querying" /\ Receive(t, read)
    BY <2>1 DEF Settle, Retry, Extend, Confirm, Conclude, Receive
  <2>3. /\ UNCHANGED <<now, sent>>
        /\ read.retryAfter \in Nat \cup {None}
        /\ throttled' = IF read.retryAfter = None THEN throttled ELSE now + read.retryAfter
        /\ throttled' \in Nat
    BY <2>2, ReceiveThrottles
  <2>4. CASE Settle(t, read) \/ Conclude(t, read)
    BY <2>3, <2>4 DEF Settle, Conclude, Return
  <2>5. CASE Retry(t, read)
    <3>1. /\ round = "attempt" /\ round' = "attempt" /\ pc' = "sleeping"
          /\ attempt < Retries /\ attempt' = attempt + 1
          /\ wake' = now + Pause(attempt, read.retryAfter)
      BY <2>5 DEF Retry, Sleep
    <3>2. /\ Pause(attempt, read.retryAfter) \in Nat
          /\ read.retryAfter # None => Pause(attempt, read.retryAfter) >= read.retryAfter
      BY <2>3, PauseIsLongEnough
    <3>3. throttled <= sent
      BY <2>2, <3>1
    <3>4. attempt' \in 1 .. Retries
      BY <3>1, PollingAssumption
    <3> QED
      BY <2>3, <3>1, <3>2, <3>3, <3>4
  <2>6. CASE Extend(t, read) \/ Confirm(t, read)
    BY <2>3, <2>6 DEF Extend, Confirm, Sleep
  <2> QED
    BY <2>1, <2>4, <2>5, <2>6
<1>4. CASE Send
  BY <1>4 DEF Send, loop
<1>5. CASE Wake
  BY <1>5 DEF Wake, loop
<1>6. CASE Tick
  BY <1>6 DEF Tick, loop
<1>7. CASE UNCHANGED vars
  BY <1>7 DEF vars, loop
<1> QED
  BY <1>1, <1>2, <1>3, <1>4, <1>5, <1>6, <1>7 DEF Next, Poll

\* Whatever the back-off is and however long the store asks to be left alone, an attempt is
\* sent only after that time.
THEOREM ThrottleIsHonoured == Spec => []RetriesHonourThrottle
<1>1. Init => Patient
  BY PollingAssumption DEF Init, Patient
<1>2. Patient => RetriesHonourThrottle
  BY DEF Patient, RetriesHonourThrottle
<1> QED
  BY <1>1, <1>2, PatientStep, PTL DEF Spec
=============================================================================
