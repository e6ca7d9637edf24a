---------------------------- MODULE TradingDesk ----------------------------
(***************************************************************************)
(* A trading day: scans that turn set-ups into cards, tracked trades and   *)
(* orders (services/gold_positions.py into services/trade_executor.py),    *)
(* the operator who asks the gate and the lock-in before a trade of his    *)
(* own (routes/propfirm.py), trades that close, and the record the         *)
(* scorecards are made of.  The books are read and written in one step:    *)
(* GoldPositions and ExecutionQueue are about their interleavings.         *)
(***************************************************************************)
EXTENDS OrderPlans, Scorecards

CONSTANTS
    Setups,         \* what a scan may find: [bias, entry, stop, rr, trend, partial]
    Nodes,          \* the sets of high-volume nodes it may read
    Asks,           \* risks the operator may propose
    Results,        \* closed USD/JPY trades
    Accounts,       \* the fleet
    Balance, Tier, Risk,    \* of the cards
    Rates, VarLimit,        \* of the VaR gate
    Known,          \* the sets of VaR estimates there can be data for
    Trades,         \* the trades of a day, which bound the book
    MaxTrades       \* bound: trades in the book and the record together

ASSUME TradingAssumption ==
    /\ Setups \subseteq [bias : STRING, entry : Nat, stop : Nat, rr : Seq(Nat \ {0}),
                       trend : Seq(Nat), partial : BOOLEAN]
    /\ Nodes \subseteq SUBSET Nat /\ \A hvn \in Nodes : IsFiniteSet(hvn)
    /\ Accounts \in Seq([id : STRING, balance : Nat, riskPct : Nat])
    /\ Asks \subseteq Nat /\ Balance \in Nat /\ Tier \in Nat /\ Risk \in Nat
    /\ RiskLimits(Balance, Tier).dailyLossCap > 0
    /\ Rates \in [parametric : Nat, fall : Nat, rise : Nat] /\ VarLimit \in Nat
    /\ Known \subseteq SUBSET {"parametric", "historical"}
    /\ Results \subseteq [r : Int, breached : BOOLEAN, month : Nat, action : STRING]
    /\ IsFiniteSet(Trades) /\ MaxTrades \in Nat

VARIABLES
    book,           \* the day's trades: [by, side, lot, price, risk, fresh, closed, pnl]
    sent,           \* what the last scan sent, if anything, and what its gate knew
    record          \* the closed USD/JPY trades

vars == <<book, sent, record>>

NotSent == [orders |-> <<>>]

Open(trades) == {i \in DOMAIN trades : ~trades[i].closed}
Tracked(trades) == Restrict(trades, {i \in Open(trades) : trades[i].by = "card"})
DayPnl(trades) == SumFunction([i \in DOMAIN trades |-> trades[i].pnl])
OpenRisk(trades) == SumFunction([i \in Open(trades) |-> trades[i].risk])

Init == book = <<>> /\ sent = NotSent /\ record = <<>>

\* The bound.  No action looks at both the book and the record.
Room == Cardinality(DOMAIN book) + Len(record) < MaxTrades

Opened(new, by, side, lot, price, risk) ==
    [i \in DOMAIN book \cup {new} |->
        IF i \in DOMAIN book THEN book[i]
        ELSE [by |-> by, side |-> side, lot |-> lot, price |-> price, risk |-> risk,
              fresh |-> TRUE, closed |-> FALSE, pnl |-> 0]]

-----------------------------------------------------------------------------
CardOf(s) ==
    [AssembleStructured(s.bias, s.entry, s.stop, Balance, Tier, Risk, s.rr)
        EXCEPT !.trend = s.trend, !.partial = s.partial]

\* var_gate: the tracked trades, and the new order at the size the fleet would take,
\* whether or not the fleet trades.  It fails open: a gate that is switched off, has no
\* equity or meets an error knows nothing, as one without enough daily bars.
VarGate(trades, card, known) ==
    LET copies == BuildFleetOrders(card, Accounts)
        lots   == SumFunction([i \in DOMAIN copies |-> copies[i].lot])
    IN  RiskGate(Tracked(trades),
                 [side |-> card.side, price |-> card.entry,
                  lot |-> IF lots > 0 THEN lots ELSE card.lot], Rates, VarLimit, known)

\* open_from_signal and maybe_enqueue: the trade is committed before the gate looks, and
\* stays tracked when it refuses.  The fleet is switched by the environment.
ScanCard(new, s, hvn, fleet, known) ==
    LET card == CardOf(s)
    IN  /\ Room /\ new \notin DOMAIN book
        /\ Tradeable(card)
        /\ \A i \in DOMAIN book : ~(/\ book[i].by = "card" /\ book[i].side = card.side
                                    /\ book[i].fresh /\ ~book[i].closed)
        /\ book' = Opened(new, "card", card.side, card.lot, card.entry, card.risk)
        /\ sent' = IF VarGate(book', card, known)
                     THEN [card |-> card, fleet |-> fleet, known |-> known,
                           orders |-> LiveOrders(card, hvn, fleet, Accounts)]
                     ELSE NotSent
        /\ UNCHANGED record

\* lockin, then evaluate_trade, both on the figures of the query, which are zero where it
\* leaves them out; closed, on the way to the target, only eases the size.  The operator
\* takes what is allowed.
OperatorAsks(new, proposed, closed, pnl, open) ==
    LET risk  == (proposed * Lockin(closed, pnl, Balance, Tier, TradeTarget)) \div 1000
        given == pnl = DayPnl(book) /\ open = OpenRisk(book)
    IN  /\ Room /\ new \notin DOMAIN book /\ risk > 0
        /\ EvaluateTrade(Balance, risk, pnl, open, Tier)
        /\ book' = Opened(new, IF given THEN "asked" ELSE "blind", "long", 0, 0, risk)
        /\ sent' = NotSent
        /\ UNCHANGED record

\* A trade ends at its stop or at twice its risk.
CloseTrade(i) ==
    /\ ~book[i].closed
    /\ \E multiple \in {-1, 2} :
          book' = [book EXCEPT ![i].closed = TRUE, ![i].pnl = multiple * book[i].risk]
    /\ sent' = NotSent
    /\ UNCHANGED record

\* Trades are held equally long, so that they close in the order of their entries.
UsdTradeCloses(t) ==
    /\ Room
    /\ \A i \in DOMAIN record : record[i].month <= t.month
    /\ record' = Append(record, t)
    /\ sent' = NotSent
    /\ UNCHANGED book

DayTurns ==
    /\ DOMAIN book # {}
    /\ book' = [i \in Open(book) |-> [book[i] EXCEPT !.fresh = FALSE]]
    /\ sent' = NotSent
    /\ UNCHANGED record

Next ==
    \/ \E new \in Trades, s \in Setups, hvn \in Nodes, fleet \in BOOLEAN, known \in Known :
          ScanCard(new, s, hvn, fleet, known)
    \/ \E new \in Trades, proposed \in Asks, closed \in {0, TradeTarget},
          pnl \in {0, DayPnl(book)}, open \in {0, OpenRisk(book)} :
          OperatorAsks(new, proposed, closed, pnl, open)
    \/ \E i \in DOMAIN book : CloseTrade(i)
    \/ \E t \in Results : UsdTradeCloses(t)
    \/ DayTurns

Spec == Init /\ [][Next]_vars

-----------------------------------------------------------------------------
(* Properties.                                                              *)

\* propfirm/engine.py, "total concurrent risk is held under the daily loss cap": the open
\* risk is, but for the trades that were let in on less than the day's figures, which are
\* the cards, gated as if the day were new, and what was asked with a figure left out.
\* "would breach the cap" is not asked of the day: evaluate_trade compares its loss and its
\* open risk with the cap apart, so what the same trades can lose in a day, all that is
\* open included, is twice the cap.
DayLossBounded ==
    LET cap      == RiskLimits(Balance, Tier).dailyLossCap
        ungated  == {i \in DOMAIN book : book[i].by # "asked"}
        Of(S)  == SumFunction([i \in S |-> book[i].risk])
    IN  /\ OpenRisk(book) <= cap + Of(ungated \cap Open(book))
        /\ DayPnl(book) - OpenRisk(book) > -2 * cap - Of(ungated)

\* However a card is split, what is sent is its lot and no more, in legs a broker takes,
\* all with the card's stop and a target on the winning side, and a runner only behind a
\* partial; the fleet gets one order an account, within its ladder.
Sums(legs, lot) == SumFunction([i \in DOMAIN legs |-> legs[i].lot]) = lot
OrdersCoverCard ==
    sent.orders # <<>> =>
        LET legs == sent.orders
            card == sent.card
            n    == Len(legs)
        IN  /\ \A i \in 1..n :
                  /\ legs[i].lot >= 1 /\ legs[i].sl = card.stop
                  /\ \A tp \in legs[i].tp : Sign(card.side) * (tp - card.entry) > 0
                  /\ legs[i].trails => i = n /\ n > 1 /\ legs[1].role = <<"p", 1>>
                  /\ legs[i].role = <<"p", 1>> => legs[n].trails
            /\ IF sent.fleet
                 THEN /\ n = Len(Accounts)
                      /\ \A i \in 1..n : legs[i].lot <= LotLadder(Accounts[i].balance).max
                 ELSE Sums(legs, card.lot)

\* The gate counts the committed trade again as the new order, and the new order at the
\* size of the fleet: an order that is sent still never leaves the tracked book over the
\* limit, by what the gate knew, unless it was further over it before.  Nothing is said of
\* an order that a gate without an estimate let through, as it does whatever the book.
BookVar(trades, known) == PortfolioVar(NetExposure(Tracked(trades)), Rates, known)
VarNeverPushedOver ==
    [][sent' # NotSent /\ sent'.known # {} =>
          \/ BookVar(book', sent'.known) <= VarLimit
          \/ BookVar(book', sent'.known) <= BookVar(book, sent'.known)]_vars

\* The scoreboard's verdict and the scorecard's, written apart, do not contradict each
\* other on one record, stop-aware or not; the confidence factor leans the way of the
\* verdict; months add up to the whole and none draws down further than it; and the
\* drawdown is the worst fall between two points of the curve.
Curve(rs, k) == Total(SubSeq(rs, 1, k))
VerdictsAgree ==
    \A stopAware \in BOOLEAN :
        LET rs     == ResultsOf(Scored(record, stopAware))
            board  == BuildScoreboard(rs)
            report == BuildReport(record, stopAware)
            card   == report.allTime
            months == report.byMonth
        IN  /\ board.verdict = "PASS" => card.verdict \in {"GREEN", "AMBER"}
            /\ board.verdict = "FAIL" => card.verdict = "RED"
            /\ card.verdict = "RED" => card.factor <= 1000
            /\ card.verdict = "AMBER" => card.factor >= 1000
            /\ card.verdict = "GREEN" => card.factor >= 1200
            /\ SumFunction([m \in DOMAIN months |-> months[m].total]) = card.total
            /\ \A m \in DOMAIN months : months[m].drawdown <= card.drawdown
            /\ card.drawdown = Max({Curve(rs, p[1]) - Curve(rs, p[2]) :
                                  p \in {q \in (0..Len(rs)) \X (0..Len(rs)) : q[1] <= q[2]}})
=============================================================================
