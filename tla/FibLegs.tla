------------------------------ MODULE FibLegs ------------------------------
(***************************************************************************)
(* The Fibonacci leg engine (indicators/fibonacci.py) and the ladder of    *)
(* the daily swing (gold/timeline.py).  Pure operators.                    *)
(*                                                                         *)
(* Prices that are given are integers; a ratio is in thousandths, and a    *)
(* price that is computed is in thousandths too, so that nothing rounds.   *)
(* A plan that cannot be made is NoPlan.                                   *)
(***************************************************************************)
EXTENDS Integers, Sequences, FiniteSets, FiniteSetsExt, SequencesExt

K == 1000
Extensions == <<1272, 1414, 1618, 2000, 2618>>
Ote == [shallow |-> 618, mid |-> 705, deep |-> 786]
NoPlan == [ok |-> FALSE, targets |-> <<>>]

Absolute(x) == IF x < 0 THEN -x ELSE x
Norm(a, b)  == [low |-> Min({a, b}), high |-> Max({a, b})]
Span(leg)   == leg.high - leg.low

\* The profit of a move as seen from one side.
Profit(side, from, to) == IF side = "long" THEN to - from ELSE from - to

Retracement(leg, r)     == K * leg.high - r * Span(leg)
Extension(leg, e, side) == IF side = "long" THEN K * leg.low + e * Span(leg)
                                            ELSE K * leg.high - e * Span(leg)
OteEntry(leg, r, side)  == IF side = "long" THEN K * leg.high - r * Span(leg)
                                            ELSE K * leg.low + r * Span(leg)

\* ote_zone: the band and its 70.5% entry.
OteZone(leg, side) ==
    LET ends == {OteEntry(leg, Ote.shallow, side), OteEntry(leg, Ote.deep, side)}
    IN  [low |-> Min(ends), high |-> Max(ends), entry |-> OteEntry(leg, Ote.mid, side)]

\* The structural stop, beyond the extreme the trade is wrong at.
Invalidation(leg, side, buffer) ==
    IF side = "long" THEN K * (leg.low - buffer) ELSE K * (leg.high + buffer)

\* The reward to risk of a target, in hundredths, rounded to the nearest.
RewardRisk(reward, risk) == (200 * reward + risk) \div (2 * risk)

\* The targets in profit, in the order of their ratios.
TargetsInProfit(side, entry, risk, prices) ==
    SelectSeq([i \in DOMAIN prices |->
                  [price |-> prices[i],
                   rr |-> RewardRisk(Profit(side, entry, prices[i]), risk)]],
              LAMBDA t : t.rr > 0)

\* plan_trade over a leg; "given" is the set of the entry passed in, if any.  The
\* risk is an absolute distance, so an entry beyond the stop is planned as well.
PlanTrade(a, b, side, given, buffer, minRr) ==
    LET leg   == Norm(a, b)
        entry == IF given = {} THEN OteZone(leg, side).entry
                               ELSE K * (CHOOSE p \in given : TRUE)
        stop  == Invalidation(leg, side, buffer)
        risk  == Absolute(entry - stop)
        tps   == TargetsInProfit(side, entry, risk,
                     [i \in DOMAIN Extensions |-> Extension(leg, Extensions[i], side)])
    IN  IF Span(leg) <= 0 \/ risk <= 0 THEN NoPlan
        ELSE [ok |-> tps # <<>> /\ tps[1].rr >= minRr, side |-> side, entry |-> entry,
              stop |-> stop, targets |-> tps]

-----------------------------------------------------------------------------
(* Three points: the pullback to c of the impulse from a to b.              *)

TrendExtension(a, b, c, r) == K * c + r * (b - a)

TrendZones(a, b, c) ==
    LET zone(s, t) == Norm(TrendExtension(a, b, c, s), TrendExtension(a, b, c, t))
    IN  [reaction |-> zone(618, 1000), target |-> zone(1272, 1618)]

\* trend_plan: entry at c unless given, stop beyond c or beyond a.
TrendPlan(a, b, c, given, buffer, beyondA, minRr) ==
    LET side  == IF b > a THEN "long" ELSE "short"
        entry == IF given = {} THEN K * c ELSE K * (CHOOSE p \in given : TRUE)
        ref   == IF beyondA THEN a ELSE c
        stop  == Invalidation([low |-> ref, high |-> ref], side, buffer)
        risk  == Absolute(entry - stop)
        tps   == TargetsInProfit(side, entry, risk,
                     [i \in 1..3 |-> TrendExtension(a, b, c, <<1000, 1618, 2618>>[i])])
    IN  IF a = b \/ risk <= 0 THEN NoPlan
        ELSE [ok |-> tps # <<>> /\ tps[1].rr >= minRr, side |-> side, entry |-> entry,
              stop |-> stop, targets |-> tps]

-----------------------------------------------------------------------------
(* The daily swing's ladder: a rung is a number of halves of the swing.     *)

Rung(zero, one, h) == 2 * zero + h * (one - zero)     \* in half units of price

HtfLadder(zero, one) ==
    IF one <= zero THEN <<>> ELSE [h \in -6..8 |-> Rung(zero, one, h)]

\* _region_bias of a price: from the rung it has reached.
RegionBias(price, zero, one) ==
    LET at(h) == 2 * price >= Rung(zero, one, h)
    IN  CASE at(5)             -> [bias |-> "short", scale |-> TRUE]
          [] ~at(5) /\ at(3)   -> [bias |-> "short", scale |-> FALSE]
          [] ~at(3) /\ at(1)   -> [bias |-> "neutral", scale |-> FALSE]
          [] ~at(1) /\ at(-5)  -> [bias |-> "long", scale |-> FALSE]
          [] OTHER             -> [bias |-> "long", scale |-> TRUE]

\* locate: the region and the rungs that hold the price.
Locate(price, zero, one) ==
    IF one <= zero THEN [bias |-> "neutral", scale |-> FALSE, above |-> {}, below |-> {}]
    ELSE LET rungs == -6..8
             over  == {h \in rungs : Rung(zero, one, h) > 2 * price}
             read  == RegionBias(price, zero, one)
         IN  [bias |-> read.bias, scale |-> read.scale,
              above |-> {h \in over : \A g \in over : h <= g},
              below |-> {h \in rungs \ over : \A g \in rungs \ over : g <= h}]

HtfConfluence(side, price, zero, one) ==
    LET bias == Locate(price, zero, one).bias
    IN  CASE bias = "neutral" -> "neutral"
          [] bias = side      -> "aligns"
          [] OTHER            -> "opposes"

\* The Friday close against its decision band; the targets are fib 0.382 and zero.
WeeklyDecision(close, zero, one, buyAbove, sellBelow) ==
    CASE close >= buyAbove -> [call |-> "long", target |-> K * zero + 382 * (one - zero)]
      [] close < buyAbove /\ close <= sellBelow -> [call |-> "short", target |-> K * zero]
      [] OTHER -> [call |-> "wait", target |-> 0]

CycleStatus(price, zero, one, ath) ==
    CASE price > ath -> "next_cycle"
      [] price <= ath /\ 2 * price >= Rung(zero, one, 8) -> "exhausted"
      [] OTHER -> "active"

\* daily_mean_map: the steps walked both ways from the day's mean (in half units),
\* each with the set of the mapped level it lands within tol of, if any.
DailyMeanMap(open, close, zero, one, tol, steps) ==
    LET mean   == open + close
        mapped == {K * Rung(zero, one, h) : h \in -6..8}
                     \cup {2 * (K * zero + f * (one - zero)) : f \in {236, 382, 500, 618, 786}}
        near(p) == LET d == Min({Absolute(m - K * p) : m \in mapped})
                   IN  {m \in mapped : Absolute(m - K * p) = d /\ d <= 2 * K * tol}
    IN  [bias |-> Locate(mean \div 2, zero, one).bias,
         up   |-> [i \in DOMAIN steps |-> near(mean + 2 * steps[i])],
         down |-> [i \in DOMAIN steps |-> near(mean - 2 * steps[i])]]
=============================================================================
