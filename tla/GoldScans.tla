----------------------------- MODULE GoldScans -----------------------------
(***************************************************************************)
(* The scans that turn a feed into a card: the intraday scan               *)
(* (services/gold_intraday.py over gold/intraday.py), the opening-range    *)
(* scan (services/gold_session_breakout.py) and the box signal             *)
(* (services/signal_engine.py), with the clocks, cycles and projections    *)
(* they ask (gold/quarterly_session.py, gold/hurst.py,                     *)
(* services/structure_service.py).                                         *)
(*                                                                         *)
(* Pure operators.  "days" are the daily bars with their week and weekday, *)
(* "hours" the hourly ones.  A scan's card is a set with at most one       *)
(* element [side, entry, stop, targets, trend, ...], empty for NO TRADE;   *)
(* its prices are in thousandths.                                          *)
(***************************************************************************)
EXTENDS RetracementRead, SwingSetups, RangeBreaks, FibLegs

Tiers  == INSTANCE OrderPlans WITH Partials <- <<>>, Fractions <- <<>>
Regime == INSTANCE DollarRegime

CONSTANTS
    Floor,          \* what the model's price 0 is, in dollars
    Balance         \* the account a signal is sized for

ASSUME ScanAssumption == Floor \in Nat /\ Balance \in Nat \ {0}

-----------------------------------------------------------------------------
(* Clocks and cycles.                                                       *)

\* session_quarter and weekday_quarter.
SessionQuarter(hour) == CASE hour < 8 -> 1 [] hour \in 8..12 -> 2 [] hour \in 13..20 -> 3 [] OTHER -> 4
TradeableDay(weekday) == weekday <= 3

\* fld_signal: the close against the one half a cycle earlier, on which a cross is
\* always on the same side; a price on its line counts as below it.
FldSignal(bars, cycle) ==
    LET n    == Len(bars)
        half == Max({1, cycle \div 2})
    IN  IF n < half + 2 THEN "none"
        ELSE IF bars[n].close > bars[n - half].close THEN "long" ELSE "short"

-----------------------------------------------------------------------------
(* Swings to project from.                                                  *)

\* detect_leg: the leg that broke structure, else the newest swing of either kind.
DetectLeg(bars, k) ==
    LET highs == SwingHighs(bars, k)
        lows  == SwingLows(bars, k)
        bos   == BreakOfStructure(bars, k)
    IN  IF bos # {} THEN bos
        ELSE IF highs = {} \/ lows = {} THEN {}
        ELSE {[side |-> IF Max(lows) < Max(highs) THEN "long" ELSE "short",
               low |-> bars[Max(lows)].low, high |-> bars[Max(highs)].high]}

\* The fibonacci plan of the leg, when there is one.
LegPlan(bars, k, buffer) ==
    {PlanTrade(l.low, l.high, l.side, {}, buffer, 300) : l \in DetectLeg(bars, k)} \ {NoPlan}

\* detect_abc: the newest three swings in a row that alternate, if the third is a
\* pullback of the move between the first two.
DetectAbc(bars, k) ==
    LET pivots == {[at |-> i, high |-> FALSE, price |-> bars[i].low] : i \in SwingLows(bars, k)}
                  \cup {[at |-> i, high |-> TRUE, price |-> bars[i].high] : i \in SwingHighs(bars, k)}
        legOf(p, q, r) == [a |-> p.price, b |-> q.price, c |-> r.price,
                           side |-> IF p.high THEN "short" ELSE "long"]
        newest(seq) == {legOf(seq[i - 2], seq[i - 1], seq[i]) :
            i \in LastOf({i \in 3..Len(seq) : /\ seq[i - 2].high # seq[i - 1].high
                                              /\ seq[i - 1].high # seq[i].high})}
    IN  {l \in newest(SetToSortSeq(pivots, LAMBDA p, q : p.at < q.at \/ (p.at = q.at /\ p.high /\ ~q.high))) :
            Ordered(l.side, l.a, l.c) /\ Ordered(l.side, l.c, l.b)}

\* The three-point plan of that swing.
AbcPlan(bars, k, buffer) ==
    {TrendPlan(s.a, s.b, s.c, {}, buffer, FALSE, 300) : s \in DetectAbc(bars, k)} \ {NoPlan}

\* trend_targets: the projection of the chart's own swing when it agrees with the bias,
\* else of the range from the entry; only what is still ahead of the entry.
TrendTargets(bars, bias, entry, range, k) ==
    LET abc == {s \in DetectAbc(bars, k) : s.side = bias}
        from == IF abc # {} THEN abc
                ELSE {IF bias = "long" THEN [a |-> r.low, b |-> r.high, c |-> entry, side |-> bias]
                      ELSE [a |-> r.high, b |-> r.low, c |-> entry, side |-> bias] : r \in range}
        rungs == UNION {{TrendExtension(s.a, s.b, s.c, r) : r \in {618, 1000, 1618, 2618}} : s \in from}
    IN  {t \in rungs : Ordered(bias, K * entry, t)}

-----------------------------------------------------------------------------
(* The card, in thousandths of a dollar.                                    *)

CardAt(side, entry, stop, rr) ==
    IF entry = stop THEN {}
    ELSE {[side |-> side, entry |-> entry, stop |-> stop,
           targets |-> Range(Tiers!Targets(entry, stop, side, rr))]}

\* The layers a card must pass, and what the scan reads for them:
\* [bias, fld, quarter, tradeable, structure, tier, stop, range, entry, inputs].
\* assemble_intraday: the macro anchor, the card, the location, the regime, the weekday,
\* the session and the cycle, in this order.
AssembleIntraday(r, needs) ==
    LET macro == Regime!MacroConfluence(r.bias, Floor + r.entry)
        rr    == IF r.tier = {} THEN <<2, 3, 4>> ELSE (CHOOSE t \in r.tier : TRUE).rr
        card  == CASE r.stop # {} -> CardAt(r.bias, K * r.entry, K * (CHOOSE s \in r.stop : TRUE), rr)
                   [] r.stop = {} /\ r.structure # {} ->
                        UNION {CardAt(r.bias, e.entry, e.stop, rr) : e \in r.structure}
                   [] OTHER -> CardAt(r.bias, K * r.entry,
                                      K * r.entry - Tiers!Sign(r.bias) * K * needs.distance, rr)
        located(c) == \A g \in r.range :
                         Regime!LocationGate(r.bias, c.entry, K * g.high, K * g.low, 50)
    IN  {c \in card :
            /\ needs.macro => ~macro.invalidated /\ macro.status = "confirms"
            /\ located(c)
            /\ Regime!RegimeGate(r.bias, {}, r.inputs, FALSE, FALSE) # "diverges"
            /\ r.tradeable
            /\ r.quarter \in IF needs.distribution THEN {3} ELSE {1, 3}
            /\ needs.fld => r.fld = r.bias}

\* scan of the intraday service, up to the news.  The card is held to the reversal it
\* must follow: the sweep of the newest eight hours by the newest six of them.
IntradayScan(days, hours, hour, prelondon, inputs, k, needs) ==
    LET week    == WeekRead(days, 20)
        pid     == ClassifyWeek(week)
        bias    == WeeklyBias(pid)
        quarter == SessionQuarter(hour)
        today   == days[Len(days)]
        current == SelectSeq(days, LAMBDA d : d.week = today.week)
        range(bars) == [high |-> HighestOf(bars), low |-> LowestOf(bars)]
        rangeOf(name) == CASE name = "weekly" -> range(current)
                           [] name = "day" -> range(<<today>>)
                           [] name = "session" -> range(LastBars(hours, 6))
        tier    == Tiers!ClassifyTier([id |-> pid, bias |-> bias], quarter)
        reads   == [bias |-> bias, fld |-> FldSignal(hours, 4), quarter |-> quarter,
                    tradeable |-> TradeableDay(today.weekday), inputs |-> inputs,
                    structure |-> RefinedEntry(hours, bias, k), tier |-> tier,
                    entry |-> hours[Len(hours)].close,
                    stop  |-> UNION {Tiers!TierStop(rangeOf(t.range), bias, StopBeyond) : t \in tier},
                    range |-> IF quarter = 3 /\ prelondon # {} THEN prelondon
                              ELSE IF tier = {} THEN {range(<<today>>)}
                              ELSE {rangeOf(t.range) : t \in tier}]
        swept(c) == \A eight \in EightHourRange(hours, 8) :
                       ProtractionGate(bias, DetectProtraction(hours, eight, 6)).ok
    IN  IF Len(days) < 3 \/ bias \notin {"long", "short"} THEN {}
        ELSE {c \in AssembleIntraday(reads, needs) : needs.protraction => swept(c)}

-----------------------------------------------------------------------------
(* The other two scans.                                                     *)

\* scan of the opening-range service: the break, its retest, the balance it left, the
\* week, and a day that is not yet spent.  "reach" is the target it must project.
BreakoutScan(days, hours, price, start, reach, k, spent) ==
    LET today   == days[Len(days)]
        session == InHours(hours, start, IF start = 8 THEN 13 ELSE start + 8)
        orElse(inside) == IF inside = <<>> THEN session ELSE inside
        balance(o) == TpoProfile(orElse(SelectSeq(session, LAMBDA b : b.close \in o.box.low..o.box.high)))
        far(o, trend, room) == IF trend = {} THEN room
                               ELSE {Max({Between(t, K * o.entry) : t \in trend})}
        exhausted(adr) == \E a \in adr : a > 0 /\ 100 * K * (today.high - today.low) > spent * a
        cramped(adr, room) == \E a \in adr : 10 * K * reach <= 8 * a /\ \E x \in room : x < K * reach
        card(o, bias, trend, adr, room) ==
            IF /\ o.retest
               /\ bias \in {"long", "short"}       \* the card is the week's
               /\ reach > 0 => (\E x \in far(o, trend, room) : x >= K * reach) /\ ~cramped(adr, room)
               /\ ~exhausted(adr)
               /\ Tiers!SessionBreakoutPlan(o, BreakoutConfirmed(o.side, price, balance(o), o.box),
                                            bias, "ny") # {}
              THEN {[c EXCEPT !.targets = @ \cup trend] :
                      c \in CardAt(o.side, K * o.entry, K * o.stop, Tiers!TierOf("intraday").rr)}
              ELSE {}
        read(o, bias, adr) == card(o, bias, TrendTargets(days, bias, o.entry, {o.box}, k), adr,
                                   RoomToRun(o.entry, o.side, today, adr))
        reads(opening, bias, adr) == UNION {read(o, bias, adr) : o \in opening}
    IN  reads(OpeningRange(hours, start, 1, StopPad), WeeklyBias(ClassifyWeek(WeekRead(days, 20))),
              Adr(days, 5))

\* build_auto: the box's set-up at the live price, its stop no nearer than the
\* volatility allows, the trend's targets beside its own, and the gate of a new day.
BuildAuto(bars, box, side, mode, price, k) ==
    LET atr  == WilderAtr(bars, 2)
        plan == BuildSetup(box, side, price, mode, {(3 * a) \div 2000 : a \in atr})
        soft == Tiers!RiskLimits(Balance, 6).dailyLossSoft
    IN  [plan  |-> plan,
         trend |-> TrendTargets(bars, side, price, {box}, k),
         spike |-> IsSpike(bars[Len(bars)], atr, 2),
         lot   |-> Tiers!MaxLot(Balance),
         allow |-> Tiers!EvaluateTrade(Balance, soft, 0, 0, 6)]
=============================================================================
