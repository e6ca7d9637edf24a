---------------------------- MODULE SwingSetups ----------------------------
(***************************************************************************)
(* The swing set-ups read from closed candles: the four-hour sweep         *)
(* (gold/b2b.py), session liquidity and its protraction                    *)
(* (gold/session_levels.py), the weekly profile (gold/ict.py) and the map  *)
(* built from displacement (gold/level_finder.py).  Pure operators over    *)
(* bars [open, high, low, close], oldest first; prices are integers.       *)
(***************************************************************************)
EXTENDS Arrangements, FiniteSetsExt, SequencesExt

CONSTANTS
    SweepPad,       \* _buf, beyond the swept extreme
    Window,         \* order_blocks' window
    DedupeFloor     \* the least distance between two levels of the map

ASSUME SwingAssumption == {SweepPad, DedupeFloor} \subseteq Nat /\ Window \in Nat \ {0}

Apart(p, q)  == IF p < q THEN q - p ELSE p - q
Wait         == [signal |-> "wait"]
HighestOf(bars) == Max({bars[i].high : i \in DOMAIN bars})
LowestOf(bars)  == Min({bars[i].low : i \in DOMAIN bars})
LastBars(bars, n) == SubSeq(bars, Max({1, Len(bars) - n + 1}), Len(bars))

Card(side, entry, stop, target) ==
    [signal |-> side, entry |-> entry, stop |-> stop, target |-> target]

-----------------------------------------------------------------------------
(* b2b.                                                                     *)

\* b2b_bomber: a sweep of the candle before it, then two closes that run on.
B2bBomber(bars) ==
    LET n == Len(bars)
        b(k) == bars[n - 3 + k]              \* b(0) is the reference candle
        bull == b(1).low < b(0).low /\ b(2).close > b(1).close /\ b(3).close > b(2).close
        bear == b(1).high > b(0).high /\ b(2).close < b(1).close /\ b(3).close < b(2).close
    IN  CASE n < 4 -> Wait
          [] n >= 4 /\ bull -> Card("long", b(1).close, Min({b(0).low, b(1).low}) - SweepPad,
                                    Max({b(k).high : k \in 1..3}))
          [] n >= 4 /\ ~bull /\ bear ->
                Card("short", b(1).close, Max({b(0).high, b(1).high}) + SweepPad,
                     Min({b(k).low : k \in 1..3}))
          [] OTHER -> Wait

\* b2b_armed: the sweep that closed back inside; the target is the prior range
\* projected beyond its far end.
B2bArmed(bars) ==
    LET n == Len(bars)
        prior == bars[n - 1]
        bar   == bars[n]
        low   == bar.low < prior.low /\ bar.close > prior.low
        high  == bar.high > prior.high /\ bar.close < prior.high
    IN  CASE n < 2 -> Wait
          [] n >= 2 /\ low -> Card("long", bar.close, bar.low - SweepPad,
                                   2 * prior.high - bar.low)
          [] n >= 2 /\ ~low /\ high -> Card("short", bar.close, bar.high + SweepPad,
                                            2 * prior.low - bar.high)
          [] OTHER -> Wait

-----------------------------------------------------------------------------
(* Session liquidity.                                                       *)

EightHourRange(bars, hours) ==
    IF bars = <<>> THEN {}
    ELSE {[high |-> HighestOf(LastBars(bars, hours)), low |-> LowestOf(LastBars(bars, hours))]}

\* detect_protraction: a side of the range taken by the newest bars and the last
\* close back inside it; both sides taken is no protraction.
DetectProtraction(bars, range, lookback) ==
    LET recent == LastBars(bars, lookback)
        last   == bars[Len(bars)].close
        high   == (\E i \in DOMAIN recent : recent[i].high > range.high) /\ last < range.high
        low    == (\E i \in DOMAIN recent : recent[i].low < range.low) /\ last > range.low
    IN  CASE bars = <<>> -> [side |-> "none", target |-> {}]
          [] bars # <<>> /\ high /\ ~low -> [side |-> "short", target |-> {range.low}]
          [] bars # <<>> /\ low /\ ~high -> [side |-> "long", target |-> {range.high}]
          [] OTHER -> [side |-> "none", target |-> {}]

ProtractionGate(side, protraction) ==
    [ok |-> protraction.side = side,
     target |-> IF protraction.side = side THEN protraction.target ELSE {}]

\* most_recent_at_hour; the bars of this and of the next three also have a day, an
\* hour or a week.
MostRecentAtHour(hourly, hour) ==
    {[high |-> hourly[i].high, low |-> hourly[i].low] :
        i \in {j \in DOMAIN hourly : /\ hourly[j].hour = hour
                                     /\ \A k \in DOMAIN hourly :
                                            hourly[k].hour = hour =>
                                                \/ hourly[k].day < hourly[j].day
                                                \/ hourly[k].day = hourly[j].day /\ k <= j}}

PriorDay(daily) ==
    IF Len(daily) < 2 THEN {}
    ELSE LET d == daily[Len(daily) - 1] IN {[high |-> d.high, low |-> d.low]}

\* prior_week_hl: the newest week before the last bar's.
PriorWeek(daily) ==
    LET weeks == {w \in {daily[i].week : i \in DOMAIN daily} : w < daily[Len(daily)].week}
        bars  == SelectSeq(daily, LAMBDA b : b.week = Max(weeks))
    IN  IF daily = <<>> \/ weeks = {} THEN {}
        ELSE {[high |-> HighestOf(bars), low |-> LowestOf(bars)]}

\* build_liquidity, flattened: every price a draw on liquidity may be.
BuildLiquidity(hourly, daily, hours) ==
    UNION {{r.high, r.low} : r \in
        UNION {MostRecentAtHour(hourly, h) : h \in hours}
        \cup EightHourRange(hourly, 8) \cup PriorDay(daily) \cup PriorWeek(daily)}

OppositeLiquidity(side, entry, levels) ==
    IF side = "long"
      THEN {p \in levels : p > entry /\ \A q \in levels : q > entry => p <= q}
      ELSE {p \in levels : p < entry /\ \A q \in levels : q < entry => p >= q}

-----------------------------------------------------------------------------
(* The weekly profile.  A bar has its week and its weekday, 0 for Monday.   *)

ProfileBias == <<"long", "short", "long", "short", "long", "short", "long", "short",
                 "neutral", "neutral", "long", "short">>

\* What classify_week reads from the days, before its rules.
WeekRead(daily, lookback) ==
    LET n    == Len(daily)
        week == SelectSeq(daily, LAMBDA b : b.week = daily[n].week)
        early == SelectSeq(week, LAMBDA b : b.weekday <= 2)
        htf  == LastBars(daily, lookback)
        span == HighestOf(htf) - LowestOf(htf)
        high == HighestOf(week)
        low  == LowestOf(week)
        last == daily[n]
        day(S) == week[Min(S)].weekday
        ranHigh == {week[i].weekday : i \in {j \in DOMAIN week : 1000 * week[j].high >= 999 * high}}
        ranLow  == {week[i].weekday : i \in {j \in DOMAIN week : 1000 * week[j].low <= 1001 * low}}
    IN  [weekday |-> last.weekday,
         premium |-> 2 * last.close > HighestOf(htf) + LowestOf(htf),
         atOrAbove |-> 2 * last.close >= HighestOf(htf) + LowestOf(htf),
         highDay |-> day({i \in DOMAIN week : week[i].high = high}),
         lowDay  |-> day({i \in DOMAIN week : week[i].low = low}),
         bull    |-> last.close >= last.open,
         consolidated |-> span # 0 /\ 10 * (IF early = <<>> THEN 0
                              ELSE HighestOf(early) - LowestOf(early)) < 4 * span,
         sweptBoth |-> /\ high > low
                       /\ 2 * Apart(2 * last.close, high + low) <= high - low
                       /\ \E h \in ranHigh, l \in ranLow : h # l,
         up   |-> last.close >= week[1].close,
         down |-> last.close <= week[1].close]

\* classify_week: the first rule that holds, 0 when none does.
ClassifyWeek(r) ==
    LET wed == r.weekday = 2   tue == r.weekday = 1   late == r.weekday >= 3
        rules == <<
            [pid |-> IF r.atOrAbove THEN 9 ELSE 10,
             holds |-> (r.sweptBoth /\ r.weekday >= 2) \/ (r.weekday >= 4 /\ r.consolidated)],
            [pid |-> 11, holds |-> wed /\ r.lowDay = 2 /\ ~r.premium /\ r.bull],
            [pid |-> 12, holds |-> wed /\ r.highDay = 2 /\ r.premium /\ ~r.bull],
            [pid |-> 3,  holds |-> wed /\ r.lowDay = 2],
            [pid |-> 4,  holds |-> wed /\ r.highDay = 2],
            [pid |-> 1,  holds |-> tue /\ r.lowDay = 1 /\ r.bull],
            [pid |-> 2,  holds |-> tue /\ r.highDay = 1 /\ ~r.bull],
            [pid |-> 5,  holds |-> late /\ r.consolidated /\ r.lowDay = r.weekday /\ r.bull],
            [pid |-> 6,  holds |-> late /\ r.consolidated /\ r.highDay = r.weekday /\ ~r.bull],
            [pid |-> 7,  holds |-> late /\ r.premium /\ r.up],
            [pid |-> 8,  holds |-> late /\ ~r.premium /\ r.down]>>
        held == {i \in DOMAIN rules : rules[i].holds}
    IN  IF held = {} THEN 0 ELSE rules[Min(held)].pid

WeeklyBias(pid) == IF pid = 0 THEN "neutral" ELSE ProfileBias[pid]

WeekConfluence(pid, side) ==
    CASE WeeklyBias(pid) = "neutral" -> "neutral"
      [] WeeklyBias(pid) = side -> "confirms"
      [] OTHER -> "diverges"

-----------------------------------------------------------------------------
(* The map from displacement.                                               *)

\* The true ranges of a sequence of bars, and the sum of the newest of them.
TrueRange(bars, i) ==
    LET b == bars[i]
    IN  IF i = 1 THEN b.high - b.low
        ELSE Max({b.high - b.low, Apart(b.high, bars[i - 1].close),
                  Apart(b.low, bars[i - 1].close)})

\* atr as [sum, count]: an average of zero counts as one.
Atr(bars, period) ==
    LET tail == Max({1, Len(bars) - period + 1})..Len(bars)
        sum  == SumFunction([i \in tail |-> TrueRange(bars, i)])
    IN  IF sum = 0 THEN [sum |-> 1, count |-> 1]
        ELSE [sum |-> sum, count |-> Cardinality(tail)]

\* order_blocks: the last candle of the other colour in the window before a bar
\* whose body is above 1.1 of the ATR.
DisplacementBlocks(bars, period) ==
    LET a == Atr(bars, period)
        strong(move) == 10 * move * a.count > 11 * a.sum
        back(i) == Max({1, i - Window + 1})..(i - 1)
        last(S) == {j \in S : \A k \in S : k <= j}
        sell(i) == IF ~strong(bars[i].open - bars[i].close) THEN {}
                   ELSE last({j \in back(i) : bars[j].close > bars[j].open})
        buy(i)  == IF ~strong(bars[i].close - bars[i].open) THEN {}
                   ELSE last({j \in back(i) : bars[j].close < bars[j].open})
    IN  {[side |-> "short", low |-> bars[j].low, high |-> bars[j].high,
          mid |-> (bars[j].open + bars[j].high) \div 2] :
            j \in UNION {sell(i) : i \in 2..Len(bars)}}
        \cup
        {[side |-> "long", low |-> bars[j].low, high |-> bars[j].high,
          mid |-> (bars[j].low + bars[j].open) \div 2] :
            j \in UNION {buy(i) : i \in 2..Len(bars)}}

\* _dedupe: a level is kept when it is further than tol from every one kept.
Dedupe(levels, tol) ==
    FoldLeft(LAMBDA kept, l : IF \A i \in DOMAIN kept : Apart(kept[i], l) > tol
                                THEN Append(kept, l) ELSE kept, <<>>, levels)

\* zones at the levels themselves, for a side without a block.
LevelBands(levels, side, tol) ==
    {[name |-> levels[i], side |-> side,
      low |-> IF side = "short" THEN levels[i] - tol ELSE levels[i],
      high |-> IF side = "short" THEN levels[i] ELSE levels[i] + tol] : i \in DOMAIN levels}

\* The bands of the blocks, nearest first, none whose mid is within tol of one kept.
BlockBands(blocks, price, tol, most) ==
    LET all    == {z.mid : z \in blocks}
        nearer == {p \in {<<x, y>> : x, y \in all} :
                      \/ Apart(p[1], price) < Apart(p[2], price)
                      \/ Apart(p[1], price) = Apart(p[2], price) /\ p[1] < p[2]}
        mids   == Dedupe(Arranged(all, nearer), tol)
    IN  {LET z == CHOOSE y \in blocks : y.mid = mids[i]
         IN  [name |-> z.mid, side |-> z.side, low |-> z.low, high |-> z.high] :
            i \in 1..Min({most, Len(mids)})}

\* build_levels: the levels to sell at and the floors, nearest first, and the zones, each
\* named by its level; a block counts as above the price when its high is;
\* "highs" and "lows" are the prices of the swings.
BuildLevels(bars, highs, lows, price, period, most) ==
    LET a    == Atr(bars, period)
        tol  == Max({DedupeFloor, (4 * a.sum) \div (10 * a.count)})
        obs  == DisplacementBlocks(bars, period)
        sells == {z \in obs : z.side = "short" /\ z.high > price}
        buys  == {z \in obs : z.side = "long" /\ z.low < price}
        up   == Ascending({h \in highs : h > price} \cup {z.mid : z \in sells})
        down == Descending({l \in lows : l < price} \cup {z.mid : z \in buys})
        first(s) == SubSeq(s, 1, Min({most, Len(s)}))
        sellLevels == first(Dedupe(up, tol))
        floors     == first(Dedupe(down, tol))
    IN  [sellLevels |-> sellLevels, floors |-> floors,
         sellZones |-> IF sells = {} THEN LevelBands(sellLevels, "short", tol)
                                     ELSE BlockBands(sells, price, tol, most),
         buyZones |-> IF buys = {} THEN LevelBands(floors, "long", tol)
                                   ELSE BlockBands(buys, price, tol, most)]
=============================================================================
