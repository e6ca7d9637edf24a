---------------------------- MODULE RangeBreaks ----------------------------
(***************************************************************************)
(* What is read from a session's range and its breakout: the opening range *)
(* (indicators/opening_range.py), the time-at-price profiles               *)
(* (indicators/profile.py, gold/volume_profile.py), the reference candles  *)
(* (candlerange/engine.py, candlerange/crt.py), the set-ups over a box     *)
(* (setups/engine.py), the volatility units (indicators/atr.py) and the    *)
(* options walls (gold/options_flow.py).                                   *)
(*                                                                         *)
(* Pure operators over bars [hour, open, high, low, close], oldest first.  *)
(* A level of a profile is a price counted in halves of a bin; a           *)
(* volatility is counted in thousandths.                                   *)
(***************************************************************************)
EXTENDS SdBoxes

CONSTANTS
    BinSize,        \* of the time-at-price tally of a balance
    Bins            \* of the profile of a session

ASSUME ProfileAssumption == BinSize \in Nat \ {0} /\ Bins \in 1..10

Between(p, q) == IF p < q THEN q - p ELSE p - q
Least(S) == Min(S)
Sizes(counts) == FoldFunction(+, 0, counts)

-----------------------------------------------------------------------------
(* The opening range.                                                       *)

InHours(bars, from, to) == SelectSeq(bars, LAMBDA b : from <= b.hour /\ b.hour < to)

\* opening_range: the first close beyond the range breaks it, a later bar that trades
\* back to the broken boundary is the retest; the stop is beyond the other boundary.
OpeningRange(bars, start, hours, buffer) ==
    LET opening == InHours(bars, start, start + hours)
        orr     == CbdrBox(opening)
        after   == InHours(bars, start + hours, 24)
        out     == {i \in DOMAIN after : after[i].close > orr.high \/ after[i].close < orr.low}
        side    == IF after[Least(out)].close > orr.high THEN "long" ELSE "short"
        later   == {after[i] : i \in {j \in DOMAIN after : j > Least(out)}}
    IN  IF opening = <<>> \/ out = {} THEN {}
        ELSE IF orr.high <= orr.low THEN {}
        ELSE IF side = "long"
          THEN {[side |-> side, entry |-> orr.high, stop |-> orr.low - buffer, box |-> orr,
                 retest |-> \E b \in later : b.low <= orr.high + buffer]}
          ELSE {[side |-> side, entry |-> orr.low, stop |-> orr.high + buffer, box |-> orr,
                 retest |-> \E b \in later : b.high >= orr.low - buffer]}

-----------------------------------------------------------------------------
(* Profiles: a function from bins to weights.                               *)

\* The loop of value_area and of volume_profile: from the busiest bin, the heavier
\* neighbour is taken until 70% is inside; the upper one when they weigh the same.
ValueArea(counts, poc) ==
    LET first == Min(DOMAIN counts)
        last  == Max(DOMAIN counts)
        total == Sizes(counts)
        inside(a, b) == FoldFunctionOnSet(+, 0, counts, a..b)
        at(i) == IF i \in DOMAIN counts THEN counts[i] ELSE -1
        grown[a \in first..last, b \in first..last] ==
            IF 10 * inside(a, b) >= 7 * total \/ (a = first /\ b = last) THEN <<a, b>>
            ELSE IF at(b + 1) >= at(a - 1) THEN grown[a, b + 1] ELSE grown[a - 1, b]
        area == grown[poc, poc]
    IN  [val |-> 2 * area[1], poc |-> 2 * poc + 1, vah |-> 2 * area[2] + 2]

\* tpo_profile: how many bars traded through each bin; of the busiest bins the point of
\* control is the one nearest the middle, and of two as near the one tallied first.
BinsOf(b) == (b.low \div BinSize)..(b.high \div BinSize)
Busiest(counts) == {n \in DOMAIN counts : \A k \in DOMAIN counts : counts[k] <= counts[n]}
NearestTo(twice, S) == {n \in S : \A k \in S : Between(2 * n, twice) <= Between(2 * k, twice)}
TpoProfile(bars) ==
    LET first(n)     == Least({i \in DOMAIN bars : n \in BinsOf(bars[i])})
        earliest(S)  == Min({n \in S : \A k \in S : first(n) <= first(k)})
        tally(bins)  == [n \in bins |-> Cardinality({i \in DOMAIN bars : n \in BinsOf(bars[i])})]
        middle(bins) == Min(bins) + Max(bins)
        area(counts) == ValueArea(counts, earliest(NearestTo(middle(DOMAIN counts), Busiest(counts))))
        over(bins)   == area(tally(Min(bins)..Max(bins)))
    IN  over(UNION {BinsOf(bars[i]) : i \in DOMAIN bars})

\* breakout_confirmed: the price has left the value area on the side of the trade, and
\* the point of control is inside the opening range.
BreakoutConfirmed(side, price, va, box) ==
    /\ IF side = "long" THEN 2 * price > va.vah * BinSize ELSE 2 * price < va.val * BinSize
    /\ va.poc * BinSize \in (2 * box.low)..(2 * box.high)

\* Every span divides the unit of weight a bar spreads over its bins.
WeightUnit == FoldSet(LAMBDA n, acc : n * acc, 1, 1..Bins)

\* The histogram of volume_profile and nodes, a bar's weight shared by the bins it spans.
Histogram(bars) ==
    LET box    == CbdrBox(bars)
        bin(p) == Min({Bins - 1, ((p - box.low) * Bins) \div Width(box)})
        spread(b) == LET low == bin(b.low)
                         high == bin(b.high)
                     IN  [n \in 0..(Bins - 1) |->
                            IF n \in low..high THEN WeightUnit \div (high - low + 1) ELSE 0]
    IN  FoldSeq(LAMBDA b, hist : LET more == spread(b) IN [n \in DOMAIN hist |-> hist[n] + more[n]],
                [n \in 0..(Bins - 1) |-> 0], bars)

\* A level in halves of a bin, and a price, both 2 * Bins to the dollar.
LevelPrice(box, level) == 2 * Bins * box.low + level * Width(box)
Fine(price) == 2 * Bins * price

VolumeProfile(hist) ==
    ValueArea(hist, Min({n \in DOMAIN hist : \A k \in DOMAIN hist : hist[k] <= hist[n]}))

\* nodes: the peaks well above the average, and the valleys well below it.
Nodes(hist) ==
    LET total   == Sizes(hist)
        at(n)   == IF n \in DOMAIN hist THEN hist[n] ELSE -1
        peaks   == {n \in DOMAIN hist : /\ at(n) >= at(n - 1) /\ at(n) >= at(n + 1)
                                        /\ 100 * Bins * at(n) >= 115 * total}
        valleys == {n \in DOMAIN hist \ peaks : /\ at(n) <= at(n - 1) /\ at(n) <= at(n + 1)
                                                /\ at(n) > 0
                                                /\ 100 * Bins * at(n) <= 70 * total}
    IN  [hvn |-> {2 * n + 1 : n \in peaks}, lvn |-> {2 * n + 1 : n \in valleys}]

\* scenario, with the location profile_read finds.
Scenario(vp, box, price) ==
    CASE Fine(price) > LevelPrice(box, vp.vah) -> "bullish"
      [] Fine(price) < LevelPrice(box, vp.val) -> "bearish"
      [] OTHER -> "neutral"

\* The level nearest beyond another, if any.
NextUp(levels, ref)   == {l \in levels : l > ref /\ \A k \in levels : k > ref => l <= k}
NextDown(levels, ref) == {l \in levels : l < ref /\ \A k \in levels : k < ref => k <= l}

\* The edge of the value area is bought or sold on its break, the point of control is
\* the stop; the target is the first peak beyond the first valley, else the value area
\* once more.
BreakOf(vp, node, box, call) ==
    LET or(S, l) == IF S = {} THEN {l} ELSE S
        plan(side, edge, ends) ==
            {[side |-> side, entry |-> LevelPrice(box, edge), stop |-> LevelPrice(box, vp.poc),
              targets |-> {LevelPrice(box, l) : l \in ends}]}
        peaksUp   == UNION {NextUp(node.hvn, l) : l \in or(NextUp(node.lvn, vp.vah), vp.vah)}
        peaksDown == UNION {NextDown(node.hvn, l) : l \in or(NextDown(node.lvn, vp.val), vp.val)}
    IN  CASE call = "bullish" -> plan("long", vp.vah, or(peaksUp, 2 * vp.vah - vp.val))
          [] call = "bearish" -> plan("short", vp.val, or(peaksDown, 2 * vp.val - vp.vah))
          [] OTHER -> {}

\* asian_breakout, of the profile asian_profile keeps.
AsianBreakout(bars, price) ==
    LET asian == InHours(bars, 14, 20)
        box   == CbdrBox(asian)
        breakOf(vp, node) == BreakOf(vp, node, box, Scenario(vp, box, price))
        profiled(hist) == breakOf(VolumeProfile(hist), Nodes(hist))
    IN  IF Len(asian) < 3 \/ Width(box) <= 0 THEN {} ELSE profiled(Histogram(asian))

-----------------------------------------------------------------------------
(* Reference candles.                                                       *)

BodyOf(candle) == [low |-> Min({candle.open, candle.close}), high |-> Max({candle.open, candle.close})]
Bullish(candle) == candle.close >= candle.open

\* classify: a break in the direction of the candle continues it, the other reverses it.
ClassifyCandle(candle, price) ==
    LET body == BodyOf(candle)
        up   == price > body.high
        down == price < body.low
    IN  IF ~up /\ ~down THEN [state |-> "inside", break |-> "none"]
        ELSE [state |-> IF up = Bullish(candle) THEN "continuation" ELSE "reversal",
              break |-> IF up THEN "up" ELSE "down"]

\* analyze: each anchor by itself, and the break of the range of their bodies.
Analyze(anchors, price) ==
    LET all == {BodyOf(c).low : c \in anchors} \cup {BodyOf(c).high : c \in anchors}
    IN  [anchors |-> {ClassifyCandle(c, price) : c \in anchors},
         break   |-> IF all = {} \/ price \in Min(all)..Max(all) THEN "none"
                     ELSE IF price > Max(all) THEN "up" ELSE "down"]

\* close_position, in thousandths of the candle's range.
ClosePosition(candle) ==
    LET range == candle.high - candle.low
    IN  IF range <= 0 THEN 500 ELSE (2000 * (candle.close - candle.low) + range) \div (2 * range)

\* friday_gap_read.
FridayGap(candle) ==
    LET pos == ClosePosition(candle)
        gap == CASE pos >= 660 /\ Bullish(candle) -> "up"
                 [] pos <= 340 /\ ~Bullish(candle) -> "down"
                 [] OTHER -> "flat"
    IN  [gap |-> gap,
         strength |-> CASE gap = "flat" -> "weak"
                        [] gap # "flat" /\ (pos >= 800 \/ pos <= 200) -> "strong"
                        [] OTHER -> "moderate"]

\* crt_levels: halves of the body, outward, to three bodies and no further.
CrtDeviations == 1..6
CrtLevel(candle, h) == Level(BodyOf(candle), h)

\* mutant: past the ladder's end the sale's stop falls back like the purchase's
CrtSetupCopied(candle) ==
    LET body == BodyOf(candle)
        beyond(h) == IF h + 2 \in CrtDeviations THEN CrtLevel(candle, h + 2)
                     ELSE CrtLevel(candle, h) - Width(body) \div 2
        sell(h) == [side |-> "short", entry |-> CrtLevel(candle, h), stop |-> beyond(h),
                    targets |-> {body.low, CrtLevel(candle, -h)}]
    IN  IF Width(body) <= 0 THEN {} ELSE {sell(2), sell(6)}

\* crt_setup: a limit is stopped one deviation further out, or half a body further where
\* the ladder has ended, and aims at the far end of the body and the opposite level.
CrtSetup(candle) ==
    LET body == BodyOf(candle)
        beyond(h) == IF h + 2 \in CrtDeviations THEN CrtLevel(candle, h + 2)
                     ELSE CrtLevel(candle, h) + Width(body) \div 2
        buy  == [side |-> "long", entry |-> CrtLevel(candle, -2), stop |-> CrtLevel(candle, -4),
                 targets |-> {body.high, CrtLevel(candle, 2)}]
        sell(h) == [side |-> "short", entry |-> CrtLevel(candle, h), stop |-> beyond(h),
                    targets |-> {body.low, CrtLevel(candle, -h)}]
    IN  IF Width(body) <= 0 THEN {} ELSE {buy, sell(2), sell(6)}

\* crt_confirm: the nearest limit within a tenth of the body, the first of two as near.
CrtConfirm(candle, price) ==
    LET hits == {o \in CrtSetup(candle) : 10 * Between(price, o.entry) <= Width(BodyOf(candle))}
    IN  {o \in hits : \A k \in hits : Between(price, o.entry) <= Between(price, k.entry)}

-----------------------------------------------------------------------------
(* Volatility.                                                              *)

\* true_range: a gap counts as range.
TrueReach(bars, i) ==
    LET b == bars[i]
    IN  IF i = 1 THEN b.high - b.low
        ELSE Max({b.high - b.low, Between(b.high, bars[i - 1].close), Between(b.low, bars[i - 1].close)})

\* atr: the mean of the first ranges, then Wilder's smoothing.
WilderAtr(bars, period) ==
    LET seed == FoldSet(LAMBDA i, sum : 1000 * TrueReach(bars, i) + sum, 0, 1..period) \div period
        smooth[i \in period..Len(bars)] ==
            IF i = period THEN seed
            ELSE (smooth[i - 1] * (period - 1) + 1000 * TrueReach(bars, i)) \div period
    IN  IF Len(bars) < period THEN {} ELSE {smooth[Len(bars)]}

IsSpike(bar, atr, k) == \E a \in atr : a # 0 /\ 1000 * (bar.high - bar.low) >= k * a

\* adr: the mean range of the newest days.
Adr(days, n) ==
    LET newest == SubSeq(days, Max({1, Len(days) - n + 1}), Len(days))
    IN  IF days = <<>> THEN {}
        ELSE {FoldSeq(LAMBDA b, sum : 1000 * (b.high - b.low) + sum, 0, newest) \div Len(newest)}

\* room_to_run: from the entry to a day of average range, in thousandths.
RoomToRun(entry, side, day, adr) ==
    {IF side = "long" THEN 1000 * (day.low - entry) + a
     ELSE 1000 * (entry - day.high) + a : a \in {x \in adr : x > 0}}

-----------------------------------------------------------------------------
(* Set-ups over a box.                                                      *)

\* crt_to_setup: with the candle or against it.
CrtToSetup(candle, read) ==
    IF read.state = "inside" THEN {}
    ELSE {[mode |-> read.state,
           side |-> IF Bullish(candle) = (read.state = "continuation") THEN "long" ELSE "short"]}

\* build_setup: continuations run to 1, 2 and 4 deviations and are stopped half a
\* deviation behind the box; reversals step back to the mean and are stopped half a range
\* beyond the entry.  A stop nearer than the volatility's floor is moved out to it.
BuildSetup(box, side, entry, mode, floors) ==
    LET way  == IF side = "long" THEN 1 ELSE -1
        near == IF side = "long" THEN box.low ELSE box.high
        far  == IF side = "long" THEN box.high ELSE box.low
        stop == (IF mode = "reversal" THEN entry ELSE near) - way * (Width(box) \div 2)
        out  == {f \in floors : Between(entry, stop) < f}
    IN  [side |-> side, entry |-> entry,
         stop |-> IF out = {} THEN stop ELSE entry - way * Max(out),
         targets |-> IF mode = "reversal" THEN {Mid(box), far, Level(box, 2 * way)}
                     ELSE {Level(box, h * way) : h \in {2, 4, 8}}]

-----------------------------------------------------------------------------
(* Options.  Inputs are [future, put, call, sigma2, sigma3], each a set with *)
(* at most one element.                                                     *)

\* confluence: a sale confirms at the call wall or at the second or third band up, and
\* opposes at the put wall; a purchase the other way round.
OptionsConfluence(inputs, side, level, tol) ==
    LET at(prices) == \E p \in prices : Between(level, p) <= tol
        bands(way) == {f + way * s : f \in inputs.future, s \in inputs.sigma2 \cup inputs.sigma3}
        top    == inputs.call \cup bands(1)
        bottom == inputs.put \cup bands(-1)
        with   == IF side = "short" THEN top ELSE bottom
        wall   == IF side = "short" THEN inputs.put ELSE inputs.call
    IN  CASE inputs.future = {} -> "neutral"
          [] inputs.future # {} /\ at(with) -> "confirms"
          [] inputs.future # {} /\ ~at(with) /\ at(wall) -> "opposes"
          [] OTHER -> "neutral"
=============================================================================
