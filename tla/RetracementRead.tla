-------------------------- MODULE RetracementRead --------------------------
(***************************************************************************)
(* The three-state retracement classifier and its replay                   *)
(* (gold/retracement.py), and the clock that names the phase a sweep is    *)
(* read in (gold/venom.py).  Pure operators.                               *)
(***************************************************************************)
EXTENDS OrderBlocks, GoldMaps

Leave == [state |-> "LEAVE"]

\* The give-back of the impulse in thousandths, between 0 and 1500; 0 without one.
GivenBack(leg, price) ==
    LET back == CASE leg.side = "short" -> price - leg.low
                  [] leg.side = "long" -> leg.high - price
                  [] OTHER -> 0
    IN  Max({0, Min({1500, (1000 * back) \div (leg.high - leg.low)})})

\* retracement_state: sell the top of a bearish leg after the high was swept and
\* given back, unless the trend is unlocked; else buy a swept low at a discount;
\* else leave.  "discount" is the set of the box's -1SD and -1.5SD levels.
RetracementState(bars, price, bullish, discount, k) ==
    LET leg   == ImpulseLeg(bars)
        given == GivenBack(leg, price)
        sweeps == {s \in DetectHtfSweep(bars, k) : s.reclaim}
        highs == {s \in sweeps : s.high}
        lows  == {s \in sweeps : ~s.high}
        top(s)    == SweepReject(bars, bars[s.at].high, "short", 3)
        bottom(s) == SweepReject(bars, bars[s.at].low, "long", 3)
        sells == IF ~(leg.side = "short" /\ given \in 620..790 /\ ~bullish) THEN {}
                 ELSE UNION {{[state |-> "SELL_OTE", side |-> "short",
                         entry |-> IF top(s) = {} THEN w.entry
                                   ELSE 1000 * (CHOOSE r \in top(s) : TRUE).entry,
                         stop |-> IF top(s) = {} THEN w.stop
                                  ELSE 1000 * (CHOOSE r \in top(s) : TRUE).stop,
                         targets |-> w.targets] :
                            w \in Warthog(bars, {"short"}, k)} : s \in highs}
        buys  == IF ~\E d \in discount : price <= d THEN {}
                 ELSE UNION {{[state |-> "SCALP_BOUNCE", side |-> "long",
                         entry |-> 1000 * r.entry, stop |-> 1000 * r.stop, targets |-> {}] :
                            r \in bottom(s)} : s \in lows}
    IN  IF leg.high <= leg.low THEN {Leave}
        ELSE IF sells # {} THEN sells
        ELSE IF buys # {} THEN buys ELSE {Leave}

\* The replay of one signal over the bars after it: the stop is taken first, the
\* target at r times the risk next, else the last close marks it.
ReplayOutcome(signal, ahead, r) ==
    LET long == signal.side = "long"
        risk == Distance(signal.entry, signal.stop)
        tp   == IF long THEN signal.entry + r * risk ELSE signal.entry - r * risk
        stopped(b) == IF long THEN 1000 * b.low <= signal.stop ELSE 1000 * b.high >= signal.stop
        paid(b)    == IF long THEN 1000 * b.high >= tp ELSE 1000 * b.low <= tp
        ends == Lowest({i \in DOMAIN ahead : stopped(ahead[i]) \/ paid(ahead[i])})
    IN  IF \E i \in ends : stopped(ahead[i]) THEN -risk
        ELSE IF ends # {} THEN r * risk
        ELSE LET last == IF ahead = <<>> THEN signal.entry
                         ELSE 1000 * ahead[Len(ahead)].close
             IN  IF long THEN last - signal.entry ELSE signal.entry - last

-----------------------------------------------------------------------------
(* venom.  A reading is the hour of the day, the weekday (0 for Monday),    *)
(* the day of the month and the month.                                      *)

IntradayPhase(hour) ==
    CASE hour \in 14..21 -> "accumulation"
      [] hour >= 22 \/ hour < 6 -> "manipulation"
      [] OTHER -> "distribution"

WeeklyPhase(weekday) == <<"accumulation", "manipulation", "distribution",
    "distribution", "reversal", "weekend", "weekend">>[weekday + 1]

WeekOfMonth(day) == ((day - 1) \div 7) + 1
MonthlyPhase(week) == IF week > 3 THEN "continuation_reversal"
                      ELSE <<"accumulation", "manipulation", "distribution">>[week]
MonthInQuarter(month) == ((month - 1) % 3) + 1
QuarterlyPhase(month) ==
    <<"accumulation", "manipulation", "distribution_aggressive">>[MonthInQuarter(month)]

\* venom_read: how many of the four clocks share the commonest phase.
VenomRead(hour, weekday, day, month) ==
    LET quarter == QuarterlyPhase(month)
        phases == <<IntradayPhase(hour), WeeklyPhase(weekday),
                    MonthlyPhase(WeekOfMonth(day)),
                    IF quarter = "distribution_aggressive" THEN "distribution" ELSE quarter>>
        aligned == Max({Cardinality({i \in 1..4 : phases[i] = p}) : p \in Range(phases)})
    IN  [phase |-> phases[1], aligned |-> aligned,
         conviction |-> IF aligned >= 3 THEN "high" ELSE IF aligned = 2 THEN "medium" ELSE "low",
         manipulation |-> WeekOfMonth(day) = 2 \/ MonthInQuarter(month) = 2]
=============================================================================
