------------------------- MODULE UsdJpyForwardTest -------------------------
(***************************************************************************)
(* services/usdjpy_service.py: the forward test over the database.  A      *)
(* request (a pasted close, a scan, the scanner's own run, a seed or a     *)
(* backfill) ingests one close after the other, each in a transaction: the *)
(* close is upserted, its signal computed, a trade opened if it fires and  *)
(* no hold window covers it, and the exits that are due are filled.        *)
(*                                                                         *)
(* A transaction reads what others have committed and what it wrote; a row *)
(* it has written is locked until it ends.  Two requests interleave at     *)
(* every query.                                                            *)
(***************************************************************************)
EXTENDS UsdJpyRules

CONSTANTS
    Requests,       \* requests ingesting closes at a time
    Prices,         \* the closes a day can have
    LastDay,        \* bound: trading days
    Slices,         \* the runs of days <<from, to>> a request can ingest
    Gaps,           \* whether a request may begin although an earlier day is missing
    MaxBatches,     \* bound: requests
    MaxFaults       \* bound: exceptions and restarts

ASSUME FeedAssumption ==
    /\ Prices \subseteq Int /\ LastDay \in Nat
    /\ Slices \subseteq (1 .. LastDay) \X (1 .. LastDay)
    /\ Gaps \in BOOLEAN /\ MaxBatches \in Nat /\ MaxFaults \in Nat

VARIABLES
    feed,       \* the true close of each day
    log,        \* usdjpy_closes: a function on the days that have a row
    trades,     \* usdjpy_trades; the id is the index
    request,    \* [Requests -> what a request holds between two queries]
    batches,    \* requests so far
    faults      \* faults so far

vars == <<feed, log, trades, request, batches, faults>>

Idle  == [phase |-> "idle"]
NoRow == [close |-> 0, signal |-> ""]

Init ==
    /\ feed \in [1 .. LastDay -> Prices]
    /\ log = <<>>
    /\ trades = <<>>
    /\ request = [r \in Requests |-> Idle]
    /\ batches = 0
    /\ faults = 0

-----------------------------------------------------------------------------
(* A table of closes in the order of its days.                              *)

\* index_by_date, from 1: the place of a day among the days of a table.
Place(table, day) == Cardinality({d \in DOMAIN table : d <= day})

\* The day at a place.
DayAt(table, place) == CHOOSE d \in DOMAIN table : Place(table, d) = place

\* The closes of a table up to a place.
ClosesTo(table, place) == [i \in 1 .. place |-> table[DayAt(table, i)].close]

\* What request r reads: the committed rows and its own.
Seen(r) ==
    [d \in DOMAIN log \cup {request[r].day} |->
        IF d = request[r].day THEN request[r].row ELSE log[d]]

-----------------------------------------------------------------------------
(* ingest_close                                                             *)

Active(r) == request[r].phase \in {"trades", "exits", "commit"}

\* r has written its row and not committed.
Locks(r) ==
    /\ Active(r)
    /\ request[r].was = NoRow \/ request[r].was.close # request[r].row.close

StartBatch(r, slice) ==
    /\ request[r] = Idle
    /\ batches < MaxBatches /\ batches' = batches + 1
    /\ slice[1] <= slice[2]
    /\ Gaps \/ 1 .. slice[1] - 1 \subseteq DOMAIN log
    /\ request' = [request EXCEPT ![r] =
           [phase |-> "next", day |-> slice[1], last |-> slice[2]]]
    /\ UNCHANGED <<feed, log, trades, faults>>

\* The row of the day is looked for.
FindRow(r) ==
    /\ request[r].phase = "next"
    /\ LET day == request[r].day
       IN  request' = [request EXCEPT ![r] =
               [phase |-> "upsert", day |-> day, last |-> request[r].last,
                was |-> IF day \in DOMAIN log THEN log[day] ELSE NoRow]]
    /\ UNCHANGED <<feed, log, trades, batches, faults>>

\* The row came to exist after r looked: the unique key refuses r's insert.
InsertRefused(r) ==
    /\ request[r].phase = "upsert"
    /\ request[r].was = NoRow /\ request[r].day \in DOMAIN log
    /\ request' = [request EXCEPT ![r] = Idle]
    /\ UNCHANGED <<feed, log, trades, batches, faults>>

\* The row is flushed, behind whoever holds it, and the history is read: the
\* signal is that of the closes up to the day.  What is read of a row stays as
\* it was read for the rest of the transaction.
Upsert(r) ==
    /\ request[r].phase = "upsert"
    /\ request[r].was = NoRow => request[r].day \notin DOMAIN log
    /\ \A q \in Requests \ {r} : ~(Locks(q) /\ request[q].day = request[r].day)
    /\ LET day    == request[r].day
           table  == [d \in DOMAIN log \cup {day} |->
                         IF d = day THEN [close |-> feed[day], signal |-> ""] ELSE log[d]]
           closes == ClosesTo(table, Place(table, day))
           signal == Signal(closes)
       IN  request' = [request EXCEPT ![r] =
               [phase |-> IF signal \in Actions THEN "trades" ELSE "exits",
                day |-> day, last |-> request[r].last, was |-> request[r].was,
                row |-> [close |-> feed[day], signal |-> signal],
                spread |-> IF signal \in Actions THEN Spread(Window(closes)) ELSE 0,
                days |-> DOMAIN table, opened |-> <<>>, exits |-> <<>>]]
    /\ UNCHANGED <<feed, log, trades, batches, faults>>

\* The day has a trade, or an earlier trade's hold window covers it.  Trades of
\* days that are not in the history r has read do not count.
Covered(r) ==
    LET held  == request[r]
        at(d) == Cardinality({e \in held.days : e <= d})
    IN  \/ \E t \in DOMAIN trades : trades[t].day = held.day
        \/ ~IsNewStretch(at(held.day),
               {at(trades[t].day) : t \in {u \in DOMAIN trades : trades[u].day \in held.days}})

\* mutant: the column default of status is lost
NewTradeNoStatus(held) ==
    [day |-> held.day, action |-> held.row.signal, entry |-> held.row.close,
     spread |-> held.spread, status |-> "", exitDay |-> 0, exit |-> 0,
     breached |-> FALSE]

NewTrade(held) ==
    [day |-> held.day, action |-> held.row.signal, entry |-> held.row.close,
     spread |-> held.spread, status |-> "OPEN", exitDay |-> 0, exit |-> 0,
     breached |-> FALSE]

\* The trades are read; a new one is opened unless the day is covered.
DecideTrade(r) ==
    /\ request[r].phase = "trades"
    /\ LET held == request[r]
       IN  request' = [request EXCEPT ![r] =
               [phase |-> "exits", day |-> held.day, last |-> held.last,
                was |-> held.was, row |-> held.row, spread |-> held.spread,
                days |-> held.days, exits |-> <<>>,
                opened |-> IF Covered(r) THEN <<>> ELSE <<NewTrade(held)>>]]
    /\ UNCHANGED <<feed, log, trades, batches, faults>>

-----------------------------------------------------------------------------
(* fill_due_exits                                                           *)

Due(table, trade) ==
    /\ trade.status = "OPEN" /\ trade.day \in DOMAIN table
    /\ Place(table, trade.day) + HoldDays <= Cardinality(DOMAIN table)

\* A due trade with the close HoldDays rows later as its exit.
Settled(table, trade) ==
    LET at      == Place(table, trade.day)
        exitDay == DayAt(table, at + HoldDays)
    IN  [day |-> trade.day, action |-> trade.action, entry |-> trade.entry,
         spread |-> trade.spread, status |-> "CLOSED", exitDay |-> exitDay,
         exit |-> table[exitDay].close,
         breached |-> \E i \in at + 1 .. at + HoldDays :
             Breaches(trade.action, trade.entry, trade.spread,
                      table[DayAt(table, i)].close)]

\* The open trades, its own among them, and the history are read again.
FillDueExits(r) ==
    /\ request[r].phase = "exits"
    /\ LET held  == request[r]
           table == Seen(r)
           due   == {t \in DOMAIN trades : Due(table, trades[t])}
           own   == held.opened
       IN  request' = [request EXCEPT ![r] =
               [phase |-> "commit", day |-> held.day, last |-> held.last,
                was |-> held.was, row |-> held.row, spread |-> held.spread,
                days |-> held.days,
                opened |-> [k \in DOMAIN own |->
                    IF Due(table, own[k]) THEN Settled(table, own[k]) ELSE own[k]],
                exits |-> [t \in due |-> Settled(table, trades[t])]]]
    /\ UNCHANGED <<feed, log, trades, batches, faults>>

\* A column of the row is written if it differs from what was read.
Merged(row, was, new) ==
    IF was = NoRow THEN new
    ELSE [close  |-> IF was.close = new.close THEN row.close ELSE new.close,
          signal |-> IF was.signal = new.signal THEN row.signal ELSE new.signal]

\* The row, the trade and the exits are committed together; a seed or a backfill
\* goes on with the next day.
Commit(r) ==
    /\ request[r].phase = "commit"
    /\ LET held == request[r]
       IN  /\ log' = [d \in DOMAIN log \cup {held.day} |->
                         IF d # held.day THEN log[d]
                         ELSE IF d \in DOMAIN log THEN Merged(log[d], held.was, held.row)
                         ELSE held.row]
           /\ trades' = [t \in DOMAIN trades |->
                            IF t \in DOMAIN held.exits THEN held.exits[t] ELSE trades[t]]
                        \o held.opened
           /\ request' = [request EXCEPT ![r] =
                  IF held.day = held.last THEN Idle
                  ELSE [phase |-> "next", day |-> held.day + 1, last |-> held.last]]
    /\ UNCHANGED <<feed, batches, faults>>

-----------------------------------------------------------------------------
Fault == faults < MaxFaults /\ faults' = faults + 1

\* An exception ends a request: its transaction is rolled back, the days it has
\* committed stay.
RequestFails(r) ==
    /\ request[r] # Idle
    /\ Fault
    /\ request' = [request EXCEPT ![r] = Idle]
    /\ UNCHANGED <<feed, log, trades, batches>>

AppRestarts ==
    /\ Fault
    /\ request' = [r \in Requests |-> Idle]
    /\ UNCHANGED <<feed, log, trades, batches>>

Ingest(r) ==
    \/ FindRow(r)
    \/ InsertRefused(r)
    \/ Upsert(r)
    \/ DecideTrade(r)
    \/ FillDueExits(r)
    \/ Commit(r)

Next ==
    \/ \E r \in Requests, slice \in Slices : StartBatch(r, slice)
    \/ \E r \in Requests : Ingest(r) \/ RequestFails(r)
    \/ AppRestarts

Spec == Init /\ [][Next]_vars

-----------------------------------------------------------------------------
(* Properties.                                                              *)

RowType == [close : Prices, signal : Actions \cup {"NO TRADE"}]

TradeType ==
    [day : 1 .. LastDay, action : Actions, entry : Prices, spread : Nat,
     status : {"OPEN", "CLOSED"}, exitDay : 0 .. LastDay, exit : Prices \cup {0},
     breached : BOOLEAN]

RequestOK(held) ==
    \/ held = Idle
    \/ /\ held.phase \in {"next", "upsert", "trades", "exits", "commit"}
       /\ held.last \in 1 .. LastDay /\ held.day \in 1 .. held.last
       /\ held.phase # "next" => held.was \in RowType \cup {NoRow}
       /\ held.phase = "trades" => held.row.signal \in Actions
       /\ held.phase \in {"trades", "exits", "commit"} =>
             /\ held.row \in RowType /\ held.spread \in Nat
             /\ held.days \subseteq 1 .. LastDay
             /\ held.opened \in Seq(TradeType) /\ Len(held.opened) <= 1
             /\ DOMAIN held.exits \subseteq DOMAIN trades
             /\ \A t \in DOMAIN held.exits : held.exits[t] \in TradeType

TypeOK ==
    /\ feed \in [1 .. LastDay -> Prices]
    /\ DOMAIN log \subseteq 1 .. LastDay
    /\ \A d \in DOMAIN log : log[d] \in RowType
    /\ trades \in Seq(TradeType)
    /\ DOMAIN request = Requests /\ \A r \in Requests : RequestOK(request[r])
    /\ batches \in Nat /\ faults \in Nat

\* usdjpy_trades, read as the workbook's journal.
JournalLine(trade) ==
    [day |-> Place(log, trade.day), action |-> trade.action, entry |-> trade.entry,
     ended |-> trade.status = "CLOSED", exit |-> trade.exit, breached |-> trade.breached]

Workbook ==
    INSTANCE UsdJpyBacktest WITH
        Closes  <- Prices,
        log     <- ClosesTo(log, Cardinality(DOMAIN log)),
        journal <- [t \in DOMAIN trades |-> JournalLine(trades[t])]

\* The service implements the workbook: as long as days arrive in order, every
\* commit leaves the journal the backtest would, whatever is retried, overlaps
\* or fails half-way.
ImplementsWorkbook == Workbook!Spec

=============================================================================
