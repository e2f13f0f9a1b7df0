------------------------------ MODULE Readback ------------------------------
(***************************************************************************)
(* The backend drivers of ooptdd: what ship leaves in a store and what     *)
(* query, or a walk along the bounded pages of query_spec, brings back.    *)
(*                                                                         *)
(* A store is a log of rows in the order it took them in, one correlation  *)
(* id per log, and the set of rows it shows: the local drivers show a row  *)
(* at once, a network store when it has indexed it.  A network store may   *)
(* refuse a batch, take it and fail to say so, or lose any part of it and  *)
(* answer 200.  No statement the drivers send asks for an order, so a      *)
(* network store answers each request in an order of its own: of those it  *)
(* may choose, the two kept here, oldest and newest row first, are enough  *)
(* for two pages to overlap or to leave a row out.                         *)
(*                                                                         *)
(* This module has no specification of its own: its clients compose its    *)
(* actions with theirs.                                                    *)
(***************************************************************************)
EXTENDS Integers, Sequences, FiniteSets

CONSTANTS
  Drivers,       \* the drivers to consider
  PageSize,      \* page_size, and the limit of a walk
  MaxRows,       \* max_rows
  WalkRows,      \* the max_rows of fetch_all_pages
  None

Local   == {"memory", "dropping", "jsonl"}    \* dropping: MemoryBackend(drop=True)
Network == {"openobserve", "clickhouse", "victorialogs"}
Paged   == Network                            \* the drivers with a query_spec

ASSUME DriverAssumption == Drivers \subseteq Local \cup Network \cup {"otel"}
ASSUME NoneAssumption == None \notin BOOLEAN
ASSUME PageAssumption ==
  /\ PageSize \in Nat \ {0} /\ MaxRows \in Nat /\ WalkRows \in Nat \ {0}
  /\ PageSize <= MaxRows

VARIABLES
  driver,
  log,           \* the rows it holds, in the order it took them in
  shown,         \* which of them a query finds
  read,          \* the query under way, or None
  answer         \* the last QueryResult, or None

store   == <<driver, log>>
readVars == <<read, answer>>
readback == <<store, shown, readVars>>

\* BackendCaps.queryable, and whether the driver declares an ingest-to-query delay.
Queryable == driver # "otel"
Delayed   == driver \in Network

\* A line of the jsonl file cut off before its newline, and one that is no record.
Torn      == [kind |-> "torn", ship |-> 0]
Malformed == [kind |-> "malformed", ship |-> 0]
Broken    == {i \in DOMAIN log : log[i].kind \in {"torn", "malformed"}}

\* A memory store is gone with its process.
Opened(held) ==
  /\ driver \in Drivers
  /\ driver \in {"memory", "dropping"} => held = <<>>
  /\ log = held
  /\ shown = DOMAIN held
  /\ read = None
  /\ answer = None

-----------------------------------------------------------------------------
(* Rows in order                                                           *)

\* The elements of S in the order R, a set of pairs: the k-th has k - 1 before it.
Ordered(S, R) ==
  [k \in 1 .. Cardinality(S) |->
     CHOOSE i \in S : Cardinality({j \in S : <<j, i>> \in R}) = k - 1]

Ascending(S)  == Ordered(S, {p \in S \X S : p[1] < p[2]})
Descending(S) == Ordered(S, {p \in S \X S : p[1] > p[2]})

Elements(rows) == {rows[k] : k \in DOMAIN rows}

Orders == IF driver \in Network THEN {"oldest", "newest"} ELSE {"oldest"}

\* What the store shows, in the order in which it answers the request under way.
Rows == IF read.order = "newest" THEN Descending(shown) ELSE Ascending(shown)

\* At most size rows, from the offset on.
Take(rows, offset, size) ==
  SubSeq(rows, offset + 1, IF offset + size <= Len(rows) THEN offset + size ELSE Len(rows))

\* Rows in the order of stream_key: by time stamp, then by place in the answer.
StreamOrder(events) ==
  LET places   == DOMAIN events
      stamp(n) == log[events[n]].ship
      order    == Ordered(places, {p \in places \X places :
                                     \/ stamp(p[1]) < stamp(p[2])
                                     \/ stamp(p[1]) = stamp(p[2]) /\ p[1] < p[2]})
  IN  [k \in places |-> events[order[k]]]

-----------------------------------------------------------------------------
(* ship                                                                    *)

\* The rows of a batch share the time at which the store took them in.
Stamped(batch) == [n \in DOMAIN batch |-> [batch[n] EXCEPT !.ship = Len(log) + 1]]

\* Appending to a file that ends in a torn line glues the first record to it.
Appended(lines) ==
  IF log # <<>> /\ log[Len(log)].kind = "torn" /\ lines # <<>>
  THEN [log EXCEPT ![Len(log)] = Malformed] \o Tail(lines)
  ELSE log \o lines

ShipMemory(batch, raised) ==
  /\ driver \in {"memory", "dropping"}
  /\ ~raised
  /\ log' = IF driver = "memory" THEN log \o Stamped(batch) ELSE log

\* open(path, "a") and one line per record: the disk may fill up on the way.
ShipJsonl(batch, raised) ==
  /\ driver = "jsonl"
  /\ \/ ~raised /\ log' = Appended(Stamped(batch))
     \/ /\ raised
        /\ \E n \in 0 .. Len(batch) - 1, torn \in {<<>>, <<Torn>>} :
             log' = Appended(SubSeq(Stamped(batch), 1, n) \o torn)

\* One POST of the whole batch.  Only a non-2xx status or a timeout raises,
\* and neither tells what the store kept of it.
ShipNetwork(batch, raised) ==
  /\ driver \in Network
  /\ \E kept \in SUBSET DOMAIN batch :
       LET order == Ascending(kept)
       IN  log' = log \o [n \in DOMAIN order |-> Stamped(batch)[order[n]]]

\* The exporter is handed every record; what becomes of it cannot be read back.
ShipOtel(batch, raised) ==
  /\ driver = "otel"
  /\ log' = IF raised THEN log ELSE log \o Stamped(batch)

Ship(batch, raised) ==
  /\ \/ ShipMemory(batch, raised)
     \/ ShipJsonl(batch, raised)
     \/ ShipNetwork(batch, raised)
     \/ ShipOtel(batch, raised)
  /\ shown' = IF driver \in Local THEN DOMAIN log' ELSE shown
  /\ UNCHANGED <<driver, readVars>>

\* The store indexes a row it has taken in, in any order and at any time.
Index ==
  /\ driver \in Network
  /\ \E i \in DOMAIN log \ shown : shown' = shown \cup {i}
  /\ UNCHANGED <<store, readVars>>

\* POST /internal/force_flush, best effort; the other drivers have no such port.
Flushed ==
  IF driver = "victorialogs" THEN {shown, DOMAIN log} ELSE {shown}

-----------------------------------------------------------------------------
(* query and query_spec                                                    *)

\* fetch, or fetch_all_pages; a flush may have shown more rows just before.
BeginRead(paged, flushed) ==
  /\ read = None
  /\ answer = None
  /\ shown' = flushed
  /\ \E order \in Orders :
       read' = [paged |-> paged, offset |-> 0, events |-> <<>>, before |-> flushed,
                order |-> order, mixed |-> FALSE]
  /\ UNCHANGED <<store, answer>>

Returns(clean, reachable, complete, events) ==
  /\ answer' = [raised |-> FALSE, clean |-> clean, reachable |-> reachable,
                complete |-> complete, events |-> events,
                paged |-> read.paged, before |-> read.before, mixed |-> read.mixed]
  /\ read' = None

Result(reachable, complete, events) == Returns(TRUE, reachable, complete, events)
Faulty(reachable, complete, events) == Returns(FALSE, reachable, complete, events)

Raise ==
  /\ answer' = [raised |-> TRUE, clean |-> FALSE, reachable |-> FALSE,
                complete |-> FALSE, events |-> <<>>,
                paged |-> read.paged, before |-> read.before, mixed |-> read.mixed]
  /\ read' = None

QueryMemory ==
  /\ driver \in {"memory", "dropping"}
  /\ ~read.paged
  /\ Result(TRUE, TRUE, Rows)

\* Everything up to the first line that is no record, and then nothing more;
\* nothing at all when the torn line is not even text.
QueryJsonl ==
  /\ driver = "jsonl"
  /\ ~read.paged
  /\ IF Broken = {}
     THEN Result(TRUE, TRUE, Rows)
     ELSE \/ \E first \in Broken :
               /\ \A i \in Broken : first <= i
               /\ Result(TRUE, FALSE, Take(Rows, 0, first - 1))
          \/ Result(TRUE, FALSE, <<>>)

QueryOtel ==
  /\ driver = "otel"
  /\ ~read.paged
  /\ Result(FALSE, TRUE, <<>>)

\* Mutant: no row is asked for beyond the cap.
LimitAtCap == MaxRows

\* LIMIT max_rows + 1: the row beyond the cap tells that the read is not whole.
Limit == MaxRows + 1

QueryClickHouse ==
  /\ driver = "clickhouse"
  /\ ~read.paged
  /\ LET data == Take(Rows, 0, Limit)
     IN  Result(TRUE, Len(data) <= MaxRows, Take(data, 0, MaxRows))

\* The rows are taken one by one until the cap is reached, and a filled limit
\* proves nothing about what lies beyond it.
QueryVictoriaLogs ==
  /\ driver = "victorialogs"
  /\ LET limited == IF read.paged THEN Take(Rows, 0, PageSize) ELSE Rows
         rows    == Take(limited, 0, MaxRows)
     IN  Result(TRUE,
                /\ Len(limited) < MaxRows
                /\ read.paged => Len(rows) < PageSize,
                rows)

\* Mutants: no cap; a cap on where the next page would end.
NeverCapped(offset) == FALSE
CappedEarly(offset) == offset + PageSize > MaxRows

\* The runaway guard on the next page.
Capped(offset) == offset >= MaxRows

\* The rows are kept, and the next page is asked for; mixed: not every page came in the
\* order of the one before it.
TurnPage(hits) ==
  /\ \E order \in Orders :
       read' = [read EXCEPT !.offset = @ + Len(hits), !.events = @ \o hits,
                            !.order = order, !.mixed = @ \/ order # read.order]
  /\ UNCHANGED answer

\* One request of OpenObserve's loop over from and size.
QueryOpenObserve ==
  /\ driver = "openobserve"
  /\ ~read.paged
  /\ LET hits   == Take(Rows, read.offset, PageSize)
         events == read.events \o hits
         offset == read.offset + Len(hits)
     IN  IF Len(hits) < PageSize THEN Result(TRUE, TRUE, events)
         ELSE IF Capped(offset) THEN Result(TRUE, FALSE, events)
         ELSE TurnPage(hits)

\* One page of fetch_all_pages: a full page carries the cursor of the next one.
WalkPage ==
  /\ driver \in {"openobserve", "clickhouse"}
  /\ read.paged
  /\ LET hits   == Take(Rows, read.offset, PageSize)
         events == read.events \o hits
     IN  IF Len(hits) < PageSize THEN Result(TRUE, TRUE, events)
         ELSE IF Len(events) >= WalkRows THEN Result(TRUE, FALSE, Take(events, 0, WalkRows))
         ELSE TurnPage(hits)

\* fetch_all_pages over a driver that has no query_spec: TypeError.
WalkUnpaged == read.paged /\ driver \notin Paged /\ Raise

-----------------------------------------------------------------------------
(* A request that fails                                                    *)

Failure == {"rate_limited", "auth", "timeout", "other"}
Header  == {"absent", "seconds", "date", "odd"}   \* odd: nan, inf or negative

\* classify_http_error and _retry_after_s: float() takes the odd ones, and
\* a date is ignored.
RetryAfter(failure, header) ==
  IF failure = "rate_limited" /\ header \in {"seconds", "odd"} THEN header ELSE None

\* A later request that fails leaves the rows of those before it; QueryResult
\* refuses a Retry-After that is no duration.
RequestFails(failure, header) ==
  /\ driver \in Network
  /\ IF RetryAfter(failure, header) = "odd" THEN Raise
     ELSE IF read.paged THEN Faulty(FALSE, FALSE, read.events)
     ELSE IF read.offset = 0 THEN Faulty(FALSE, TRUE, <<>>)
     ELSE Faulty(TRUE, FALSE, read.events)

\* OSError on open: the store is there, the file cannot be read.
FileFails ==
  /\ driver = "jsonl"
  /\ ~read.paged
  /\ Faulty(FALSE, FALSE, <<>>)

\* A body that is not what was asked for: OpenObserve's decoder raises, the
\* other two keep the rows they have decoded so far.
BodyGarbled ==
  \/ driver = "openobserve" /\ RequestFails("other", "absent")
  \/ /\ driver \in {"clickhouse", "victorialogs"}
     /\ \E n \in 0 .. PageSize :
          Faulty(TRUE, FALSE, read.events \o Take(Take(Rows, read.offset, PageSize), 0, n))

Answer ==
  /\ read # None
  /\ \/ QueryMemory \/ QueryJsonl \/ QueryOtel
     \/ QueryClickHouse \/ QueryVictoriaLogs \/ QueryOpenObserve
     \/ WalkPage \/ WalkUnpaged
     \/ FileFails \/ BodyGarbled
     \/ \E failure \in Failure, header \in Header : RequestFails(failure, header)
  /\ UNCHANGED <<store, shown>>

-----------------------------------------------------------------------------
ReadbackOK ==
  /\ driver \in Drivers
  /\ shown \subseteq DOMAIN log
  /\ read # None =>    \* however many rows arrive, the next page starts below the cap
       /\ read.order \in Orders
       /\ Elements(read.events) \subseteq shown
       /\ read.offset < IF read.paged THEN WalkRows ELSE MaxRows
  /\ answer # None => Elements(answer.events) \subseteq shown

\* A read reported complete holds every row the store showed when it began,
\* whatever was indexed between two of its pages, if the pages came in one order:
\* the boundary cases are a result that fills its last page, or the row cap,
\* exactly.  Pages in several orders hold no fewer rows, but may repeat one and
\* leave out another.
CompleteMissesNothing ==
  answer # None /\ answer.complete /\ answer.reachable =>
    /\ Len(answer.events) >= Cardinality(answer.before)
    /\ ~answer.mixed => answer.before \subseteq Elements(answer.events)

\* The caps are not stricter than they say: when every request was answered
\* and the store shows fewer rows than the cap, the read is complete.  (A
\* filled LogsQL limit is incomplete by design.)
FullReadIsComplete ==
  LET cap == IF answer.paged THEN WalkRows ELSE MaxRows
  IN  /\ answer # None
      /\ answer.clean
      /\ Queryable /\ Broken = {}
      /\ ~(answer.paged /\ driver = "victorialogs")
      /\ Cardinality(shown) < cap
    => answer.reachable /\ answer.complete

\* domain/ports.py:131: complete means every matching row, and no more than that.
CompleteIsExact == CompleteMissesNothing /\ FullReadIsComplete
=============================================================================
