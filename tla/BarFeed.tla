------------------------------ MODULE BarFeed ------------------------------
(***************************************************************************)
(* The candle feed and the engines that re-read it.  Every engine of       *)
(* gold/, cbdr/ and indicators/ is handed the newest candles of            *)
(* fetch_ohlc and recomputes its plan from nothing; the last candle is     *)
(* still forming.  What must hold is about one feed read twice: as it      *)
(* grows, upside down, and by two engines.                                 *)
(***************************************************************************)
EXTENDS CandleFeed, TradeWalks, SessionSweeps

CONSTANTS
    Ceiling,        \* the price the feed is turned upside down about
    MinBars,        \* the bars an engine asks for before it plans
    StackRisk,      \* the risk of a sniper stack
    StackLayers,    \* and the limits it is laid over
    ScanTimes,      \* when the scans run: [weekday, hour, bias], the weekday that of the
                    \* feed's first day and the bias the dollar's
    SellLevels,     \* SELL_RETEST_LEVELS, which the backtest sells at,
    SellFloors,     \* and the floors it sells down to
    SellPartials    \* DEFAULT_PARTIALS: <<[distance, share]>>, shares in hundredths

\* A candle is between its extremes.
Shown(c) == /\ c.low <= c.open  /\ c.open <= c.high
            /\ c.low <= c.close /\ c.close <= c.high

\* No two candles make a box of one unit, of which half a deviation is no price.
Halvable == \A c, d \in Candles : Max({c.high, d.high}) - Min({c.low, d.low}) # 1

\* Levels and floors are prices, and the partials leave something to run.
Sellable ==
    /\ SellLevels \cup SellFloors \subseteq Int
    /\ IsFiniteSet(SellLevels) /\ IsFiniteSet(SellFloors)
    /\ SellPartials \in Seq([distance : Nat, share : Nat])
    /\ SumFunction([i \in DOMAIN SellPartials |-> SellPartials[i].share]) < 100

ASSUME FeedAssumption ==
    /\ StackLayers \in Nat \ {0}
    /\ MinBars \in Nat /\ MinBars >= 3      \* a box of two candles, and one after it
    /\ Halvable /\ Sellable
    /\ \A c \in Candles : Shown(c)

Book == INSTANCE PositionRules WITH MaxPositions <- 1, RiskCap <- 0, MinCapture <- 0

-----------------------------------------------------------------------------
(* What is read from a feed.                                                *)

Price(bars) == bars[Len(bars)].close
Legs(bars)  == {l \in {ImpulseLeg(bars)} : l.side # "none" /\ l.high > l.low}

MapOf(bars) == BuildLevels(bars,
                   {bars[i].high : i \in FractalHighs(bars, SwingReach)},
                   {bars[i].low : i \in FractalLows(bars, SwingReach)},
                   Price(bars), 14, 5)
ZonesOf(map) == map.sellZones \cup map.buyZones

\* A plan as [side, entry, stop, targets], whichever engine made it.
AsPlan(p, targets) == [side |-> p.side, entry |-> p.entry, stop |-> p.stop, targets |-> targets]

StructurePlans(bars) ==
    {AsPlan(w, w.targets \cup {1000 * l : l \in w.liquidity}) : w \in Warthog(bars, {}, SwingReach)}
    \cup UNION {{AsPlan(r, {}) : r \in RefinedEntry(bars, side, SwingReach)} :
                   side \in {"long", "short"}}

SweepPlans(bars) ==
    LET card == B2bBomber(bars)
    IN  (IF card = Wait THEN {} ELSE
            {[side |-> card.signal, entry |-> card.entry, stop |-> card.stop,
              targets |-> {card.target}]})
        \cup {AsPlan(p, p.target) : p \in OptimusArmed(bars, ZonesOf(MapOf(bars)))}

BoxPlans(bars) ==
    LET box == CbdrBox(bars)
    IN  IF Width(box) <= 0 THEN {}
        ELSE {AsPlan(o, Range(o.targets)) : o \in PrelondonOrders(box)}
             \cup {AsPlan(o, Range(o.targets)) :
                      o \in UNION {CrossSession(box, {}, w, m, 50, 4) :
                                      w \in {-1, 0, 1}, m \in {-1, 0, 1}}}

LegPlans(bars) ==
    {AsPlan(p, {p.targets[i].price : i \in DOMAIN p.targets}) :
        p \in {PlanTrade(l.low, l.high, l.side, {}, StopBeyond, 100) : l \in Legs(bars)} \ {NoPlan}}

StackPlans(bars) ==
    UNION {UNION {{[side |-> s.side, entry |-> s.orders[i].entry, stop |-> s.stop,
                    targets |-> {}] : i \in DOMAIN s.orders} :
                  s \in SniperStack(z, StackRisk, StackLayers, StopBuffer)} :
           z \in ZonesOf(MapOf(bars))}

\* Scalp or sell, at the price of the last close.
RetracementSignals(bars) ==
    RetracementState(bars, Price(bars), FALSE, {Price(bars)}, SwingReach) \ {Leave}

\* A retracement is sold where its rejection closed, for the targets of Warthog's plan,
\* which is entered in the leg's pull-back.  A rejection that closed in the lowest 115
\* thousandths of the leg may be beyond the first of them.
Sunk(bars, s) == LET leg == ImpulseLeg(bars) IN s.entry - 1000 * leg.low <= 115 * (leg.high - leg.low)
RetracementPlans(bars) ==
    {AsPlan(s, IF Sunk(bars, s) THEN {} ELSE s.targets) : s \in RetracementSignals(bars)}

\* The session's bars, from the hour the New York range opens.
AtHour(bar, hour) == [hour |-> hour, open |-> bar.open, high |-> bar.high, low |-> bar.low,
                      close |-> bar.close]
Hourly(bars)  == [i \in DOMAIN bars |-> AtHour(bars[i], 12 + i)]
Clocked(bars) == LastBars(Hourly(bars), 24)

RangePlans(bars) ==
    {AsPlan(o, {}) : o \in OpeningRange(Clocked(bars), 13, 1, StopPad)}
    \cup UNION {AsianBreakout(Clocked(bars), p) : p \in {0, Ceiling}}
    \cup UNION {CrtSetup(bars[i]) : i \in DOMAIN bars}

\* The newest days of the feed, two bars each, from a weekday on.
Days(bars, weekday) ==
    LET day(n) == LET of == SubSeq(bars, 2 * n - 1, Min({2 * n, Len(bars)}))
                  IN  [week |-> 1, weekday |-> weekday + n - 1, open |-> of[1].open,
                       close |-> of[Len(of)].close, high |-> HighestOf(of), low |-> LowestOf(of)]
    IN  LastBars([n \in 1..((Len(bars) + 1) \div 2) |-> day(n)], 20)

\* The scans with every layer that only says wait switched off, each side of the dollar.
Lenient == [macro |-> FALSE, distribution |-> FALSE, fld |-> FALSE, protraction |-> FALSE, distance |-> 2]
Dollar(bias) == [bias |-> bias, heading |-> {}, rates |-> "falling", net |-> 0]

ScanPlans(bars) ==
    LET scans == UNION {IntradayScan(Days(bars, t.weekday), Clocked(bars), t.hour, {}, Dollar(t.bias),
                                     SwingReach, Lenient) \cup
                        BreakoutScan(Days(bars, t.weekday), Clocked(bars),
                                     IF t.bias = {} THEN 0 ELSE Ceiling, 13, 0, SwingReach, 100) :
                            t \in ScanTimes}
    IN  {AsPlan(c, c.targets) : c \in scans}
        \cup {AsPlan(p, {p.targets[i].price : i \in DOMAIN p.targets}) :
                p \in LegPlan(bars, SwingReach, StopBeyond) \cup AbcPlan(bars, SwingReach, StopBeyond)}

\* What a signal projects from a price is ahead of it.
ProjectionsAhead(bars) ==
    \A side \in {"long", "short"} :
        \A t \in BuildAuto(bars, CbdrBox(SubSeq(bars, 1, 2)), side, "continuation", Price(bars), SwingReach).trend :
            Ordered(side, K * Price(bars), t)

Plans(bars) ==
    RetracementPlans(bars) \cup StructurePlans(bars) \cup SweepPlans(bars) \cup BoxPlans(bars) \cup LegPlans(bars)
    \cup StackPlans(bars) \cup RangePlans(bars) \cup ScanPlans(bars)

Protected(p) == /\ Ordered(p.side, p.stop, p.entry)
                /\ \A t \in p.targets : Ordered(p.side, p.entry, t)

\* Where a set-up is neither too early nor too late: a continuation from half a deviation
\* behind its box to one beyond it, a reversal before the middle.
Timely(box, side, mode, price) ==
    LET way  == IF side = "long" THEN 1 ELSE -1
        near == IF side = "long" THEN box.low ELSE box.high
    IN  IF mode = "reversal" THEN Ordered(side, price, Mid(box))
        ELSE Ordered(side, near - way * (Width(box) \div 2), price) /\ Ordered(side, price, Level(box, 2 * way))

\* build_setup is asked for any side, mode and price, and answers with a plan.
SetupsProtectedInTime(bars) ==
    LET box    == CbdrBox(SubSeq(bars, 1, 2))
        price  == Price(bars)
        floors == {(3 * a) \div 2000 : a \in WilderAtr(bars, 2)}
    IN  Width(box) > 0 =>
            \A side \in {"long", "short"}, mode \in {"continuation", "reversal"} :
                LET timely == Timely(box, side, mode, price)
                IN  /\ Protected(BuildSetup(box, side, price, mode, {})) <=> timely
                    /\ timely => Protected(BuildSetup(box, side, price, mode, floors))

-----------------------------------------------------------------------------
(* What the backtests make of a feed.                                       *)

\* Every bar a day of one week, from its Monday.
AtDay(bar, day) == [week |-> 1, weekday |-> day, open |-> bar.open, high |-> bar.high,
                    low |-> bar.low, close |-> bar.close]
Daily(bars)  == [i \in DOMAIN bars |-> AtDay(bars[i], i - 1)]
Swings(bars) == SwingTrades(Daily(bars), 1, 7)

\* Every bar an hour, two of them Asian.
Overnight(bars) == [i \in DOMAIN bars |-> AtHour(bars[i], 5 + i)]

\* A position of the book that was opened at an order's entry and ends after so many passes.
Opened(o, passes) ==
    [card |-> [born |-> "market", side |-> o.side, type |-> "swing", entry |-> o.entry,
               stop |-> o.stop, targets |-> o.targets, risk |-> 0, end |-> 0],
     status |-> "OPEN", opened |-> 0, until |-> passes, be |-> FALSE, tp |-> 0,
     stop |-> o.stop, exit |-> 0, reason |-> ""]

\* What evaluate makes of it at the closes, a pass each.
BookedBy(o, bars) ==
    LET pass(row, i) == IF row.status = "OPEN" THEN Book!Evaluate(row, bars[i].close, i) ELSE row
        row == FoldLeft(pass, Opened(o, Len(bars)), [i \in DOMAIN bars |-> i])
    IN  Ended(row.reason, Won(o.side, o.entry, row.exit))

\* The bars that show no more than their close.
Closes(bars) == [i \in DOMAIN bars |-> [open |-> bars[i].close, high |-> bars[i].close,
                                        low |-> bars[i].close, close |-> bars[i].close]]

\* The orders of a feed: of the box of its first candles, and of a night of all of them.
Traded(bars) ==
    LET box == CbdrBox(SubSeq(bars, 1, 2))
    IN  (IF Width(box) <= 0 THEN {} ELSE PrelondonOrders(box))
            \cup {t.decision : t \in ConfluenceTrades(Overnight(bars), -1, -1)}

\* On bars that are no more than their close the forward walk books what the book does.
BooksAlike(o, bars) ==
    SimulateForward(o.entry, o.stop, o.targets, o.side, Closes(bars)) = BookedBy(o, bars)

\* From the fill on the three walks agree, but on a bar that holds both ends.
WalksAlike(o, bars) ==
    LET fills == {i \in DOMAIN bars : Suffers(o.side, bars[i], o.entry)}
        held  == SubSeq(bars, Min(fills), Len(bars))
        limit == SimulateLimit(o, bars)
        swing == SimulateForward(o.entry, o.stop, <<o.targets[1]>>, o.side, held)
        triad == SimulateTriad([side |-> o.side, entry |-> o.entry, stop |-> o.stop,
                                target |-> o.targets[1]], held)
    IN  fills # {} =>
            /\ limit.how = "open" => swing.how = "TIME" /\ swing.made = triad.made
            /\ limit.how # "open" => limit = triad
            /\ swing.made # triad.made =>
                  swing.how = "TP" /\ triad.made = Won(o.side, o.entry, o.stop)

WalkersAgree(bars) ==
    LET after == SubSeq(bars, 3, Len(bars))
    IN  \A o \in Traded(bars) : BooksAlike(o, after) /\ WalksAlike(o, after)

\* Scaling out takes and ends the same sells; it loses the stop at most, turns no sell that
\* made its floor into a loss, and makes no more of one than its floor or its furthest partial.
SellsAlike(bars, buffer) ==
    LET single == BacktestSells(bars, SellLevels, SellFloors, buffer, 1)
        scaled == BacktestSellsPartial(bars, SellLevels, SellFloors, buffer, 1, SellPartials)
        banks  == {SellPartials[i].distance : i \in DOMAIN SellPartials}
    IN  /\ Len(scaled.done) = Len(single.done)
        /\ \A i \in DOMAIN single.done :
              LET one == single.done[i]
                  all == scaled.done[i]
              IN  /\ all.level = one.level
                  /\ -100 * buffer <= all.made
                  /\ all.made <= 100 * Max({one.made} \cup banks)
                  /\ one.made > 0 => all.made > 0

\* A retracement signal and a swing lose their risk at most and win their target at most.
SignalsBounded(bars) ==
    \A k \in MinBars..Len(bars) :
        \A s \in RetracementSignals(SubSeq(bars, 1, k)) :
            LET risk == Distance(s.entry, s.stop)
                made == ReplayOutcome(s, SubSeq(bars, k + 1, Len(bars)), 2)
            IN  -risk <= made /\ made <= 2 * risk

SwingsBounded(bars) ==
    \A t \in Swings(bars) :
        LET d == t.decision
        IN  /\ -Distance(d.entry, d.stop) <= t.result.made
            /\ t.result.made <= Won(d.side, d.entry, d.targets[Len(d.targets)])

-----------------------------------------------------------------------------
(* The feed upside down.                                                    *)

Flip(p) == Ceiling - p
FlipSide(side) == CASE side = "long" -> "short" [] side = "short" -> "long" [] OTHER -> side
Mirrored(bars) ==
    [i \in DOMAIN bars |-> [open |-> Flip(bars[i].open), close |-> Flip(bars[i].close),
                            high |-> Flip(bars[i].low), low |-> Flip(bars[i].high)]]
FlipZone(z) == [side |-> FlipSide(z.side), low |-> Flip(z.high), high |-> Flip(z.low)]
FlipBlock(b) == [b EXCEPT !.type = IF @ = "bearish" THEN "bullish" ELSE "bearish",
                          !.low = Flip(b.high), !.high = Flip(b.low)]
FlipCard(c) == IF c = Wait THEN Wait
               ELSE Card(FlipSide(c.signal), Flip(c.entry), Flip(c.stop), Flip(c.target))
FlipRange(r) == [high |-> Flip(r.low), low |-> Flip(r.high)]
FlipWay(way) == CASE way = "up" -> "down" [] way = "down" -> "up" [] OTHER -> way
FlipPlan(p) == [side |-> FlipSide(p.side), entry |-> Flip(p.entry), stop |-> Flip(p.stop),
                targets |-> {Flip(t) : t \in p.targets}]

\* The options board of the feed: its extremes are the walls, its range the second band.
Board(bars) ==
    LET box == CbdrBox(bars)
    IN  [future |-> {Price(bars)}, put |-> {box.low}, call |-> {box.high},
         sigma2 |-> {Width(box)}, sigma3 |-> {2 * Width(box)}]

\* The readings of a session's range and of its candles.
RangesReadUpsideDown(up, down) ==
    LET last(bars) == bars[Len(bars)]
        whole == CbdrBox(SubSeq(up, 1, 2))
    IN  /\ {[o EXCEPT !.box = FlipRange(@)] : o \in OpeningRange(Clocked(down), 13, 1, StopPad)} =
               {[o EXCEPT !.side = FlipSide(@), !.entry = Flip(@), !.stop = Flip(@)] :
                   o \in OpeningRange(Clocked(up), 13, 1, StopPad)}
        /\ FridayGap(last(down)) = [FridayGap(last(up)) EXCEPT !.gap = FlipWay(@)]
        /\ last(up).open # last(up).close =>
               \A i \in DOMAIN up :
                  /\ ClassifyCandle(last(down), down[i].close) =
                     [ClassifyCandle(last(up), up[i].close) EXCEPT !.break = FlipWay(@)]
                  /\ CrtToSetup(last(down), ClassifyCandle(last(down), down[i].close)) =
                     {[s EXCEPT !.side = FlipSide(@)] :
                         s \in CrtToSetup(last(up), ClassifyCandle(last(up), up[i].close))}
        /\ Analyze(Range(down), Price(down)).break = FlipWay(Analyze(Range(up), Price(up)).break)
        /\ WilderAtr(down, 2) = WilderAtr(up, 2)
        /\ \A side \in {"long", "short"} :
              /\ RoomToRun(Price(down), FlipSide(side), last(down), Adr(down, 2)) =
                    RoomToRun(Price(up), side, last(up), Adr(up, 2))
              /\ OptionsConfluence(Board(down), FlipSide(side), last(down).high, 1) =
                    OptionsConfluence(Board(up), side, last(up).low, 1)
              /\ Width(whole) % 2 = 0 =>         \* half a deviation is a price
                 \A mode \in {"continuation", "reversal"} :
                    BuildSetup(FlipRange(whole), FlipSide(side), Price(down), mode, {2}) =
                       FlipPlan(BuildSetup(whole, side, Price(up), mode, {2}))

-----------------------------------------------------------------------------
(* Properties.                                                              *)

\* Whatever printed, the stop of a plan is on the losing side of its entry and its targets
\* on the winning side, for retracements, warthog and refined entries, sweep and armed
\* cards, box and cross-session orders, fib legs, sniper stacks, opening ranges (which name
\* no target before they are sized), Asian breakouts, candle ranges and the scans' cards.
\* Two engines plan on the wrong side, and just there: set-ups asked for too late or too
\* early (setups/engine.py:64, 72), protected when timely and, unless their stop is floored,
\* only then; and retracements whose rejection has sunk to the leg's end.
PlansProtected ==
    Len(feed) >= MinBars =>
        /\ \A p \in Plans(feed) : Protected(p)
        /\ SetupsProtectedInTime(feed)
        /\ ProjectionsAhead(feed)
        /\ \A i \in DOMAIN feed : \A o \in CrtConfirm(feed[i], Price(feed)) :
              Protected([o EXCEPT !.entry = Price(feed)])

\* The trades of a history keep their plans: a retracement signal and a swing lose
\* their risk at most and win the last target at most.  The three walkers agree from
\* the fill on, but on a bar that holds stop and target, which simulate_forward books
\* as the target.  On prices it ends a trade as the live book does.
ReplaysAgree ==
    Len(feed) >= MinBars =>
        /\ SignalsBounded(feed) /\ SwingsBounded(feed)
        /\ WalkersAgree(feed)
        /\ \A buffer \in {1, 3} : SellsAlike(feed, buffer)

\* Buying and selling are the same code written twice: upside down, the feed gives
\* the same blocks, breakers, legs, cards and zones upside down.
ReadsTheSameUpsideDown ==
    Len(feed) >= MinBars =>
        LET up  == feed
            down == Mirrored(feed)
            whole == FlipRange(CbdrBox(SubSeq(up, 1, 2)))
        IN  /\ RangesReadUpsideDown(up, down)
            /\ OrderBlockSet(down) = {FlipBlock(b) : b \in OrderBlockSet(up)}
            /\ BreakerBlocks(down, OrderBlockSet(down)) =
                   {[k EXCEPT !.from = FlipBlock(@)] : k \in BreakerBlocks(up, OrderBlockSet(up))}
            /\ HtfBias(OrderBlockSet(down)) = FlipSide(HtfBias(OrderBlockSet(up)))
            /\ ImpulseLeg(down) = [side |-> FlipSide(ImpulseLeg(up).side)] @@ FlipRange(ImpulseLeg(up))
            /\ B2bBomber(down) = FlipCard(B2bBomber(up))
            /\ DisplacementBlocks(down, 14) =
                   {FlipZone(z) @@ [mid |-> Flip(z.mid)] : z \in DisplacementBlocks(up, 14)}
            /\ DetectProtraction(down, whole, 3).side =
                   FlipSide(DetectProtraction(up, FlipRange(whole), 3).side)
            /\ RangeOutcome(whole, down, 1) =
                   LET o == RangeOutcome(FlipRange(whole), up, 1)
                   IN  CASE o = "sweep_high" -> "sweep_low" [] o = "sweep_low" -> "sweep_high"
                         [] o = "failed_high" -> "failed_low" [] o = "failed_low" -> "failed_high"
                         [] OTHER -> o
            /\ \A side \in {"long", "short"} :
                   FairValueGap(down, FlipSide(side)) = {FlipRange(g) : g \in FairValueGap(up, side)}

\* What closed candles drew stays as the feed grows: an order block keeps its candle and
\* its band and only loses its freshness, and a backtest's decision is not taken back
\* nor taken afterwards.
ClosedBlocks(bars) == {b \in OrderBlockSet(bars) : b.conf < Len(bars)}
Decisions(bars, upto) ==
    {t.decision : t \in {t \in Swings(bars) \cup Triads(Hourly(bars), {13, 14}, 1, 12) : t.decision.at <= upto}}
ClosedNeverRepaints ==
    [][/\ \A b \in ClosedBlocks(feed) :
             \E c \in OrderBlockSet(feed') : /\ c = [b EXCEPT !.fresh = c.fresh]
                                             /\ c.fresh => b.fresh
       /\ Decisions(feed', Len(feed) - 1) = Decisions(feed, Len(feed) - 1)]_feed

\* The two reads of one session agree: the call on the range's outcome and the
\* continuity after its sweep never point opposite ways, and neither points against
\* the bias it was given.
Hours == <<14, 15, 16>>
Timed(bars) == [i \in DOMAIN bars |-> AtHour(bars[i], Hours[((i - 1) % 3) + 1])]
SessionCallsAgree ==
    Len(feed) >= MinBars =>
        \A bias \in {"none", "neutral", "long", "short"}, touched \in {"yes", "no", "unknown"} :
            \A r \in Scan(Timed(feed), "asian", bias, touched, TRUE, 3) :
                /\ {r.signal, r.continuity} # {"long", "short"}
                /\ ~Opposes(bias, r.signal) \/ r.signal = "wait"
                /\ ~Opposes(bias, r.continuity) \/ r.continuity = "wait"
=============================================================================
