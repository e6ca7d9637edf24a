----------------------------- MODULE TradeWalks -----------------------------
(***************************************************************************)
(* The backtests: what each takes from a history and how it walks a trade  *)
(* over the bars after it.  backtest/gold_tiers.py (the swing tier),       *)
(* backtest/cbdr_confluence_backtest.py (limits over the Asian box),       *)
(* backtest/amd_triad_backtest.py over indicators/amd_triad.py, and        *)
(* backtest/sell_backtest.py.                                              *)
(*                                                                         *)
(* Pure operators over bars, oldest first.  A walk returns what it made in *)
(* price, and how it ended.                                                *)
(***************************************************************************)
EXTENDS GoldScans

\* A bar as one side of the market sees it.
Reaches(side, bar, price) == IF side = "long" THEN bar.high >= price ELSE bar.low <= price
Suffers(side, bar, price) == IF side = "long" THEN bar.low <= price ELSE bar.high >= price
Won(side, from, to) == IF side = "long" THEN to - from ELSE from - to

Ended(how, made) == [how |-> how, made |-> made]

-----------------------------------------------------------------------------
(* The walks.                                                               *)

\* mutant: the trail is worked out from each bar alone
SimulateForwardForgetful(entry, stop, targets, side, ahead) ==
    LET last == Len(targets)
        final(i) == last > 0 /\ Reaches(side, ahead[i], targets[last])
        trailed(i) == \E t \in DOMAIN targets : Reaches(side, ahead[i], targets[t])
        held(i) == IF trailed(i) THEN entry ELSE stop
        ends == {i \in DOMAIN ahead : final(i) \/ Suffers(side, ahead[i], held(i))}
        n    == Min(ends)
    IN  IF entry = stop \/ ahead = <<>> THEN Ended("invalid", 0)
        ELSE IF ends = {} THEN Ended("TIME", Won(side, entry, ahead[Len(ahead)].close))
        ELSE IF final(n) THEN Ended("TP", Won(side, entry, targets[last]))
        ELSE Ended(IF trailed(n) THEN "BE" ELSE "SL", Won(side, entry, held(n)))

\* simulate_forward: the final target, then the stop, which is the entry from the bar on
\* that reached a target; at the end the last close.
SimulateForward(entry, stop, targets, side, ahead) ==
    LET last == Len(targets)
        final(i) == last > 0 /\ Reaches(side, ahead[i], targets[last])
        trailed(i) == \E k \in 1..i, t \in DOMAIN targets : Reaches(side, ahead[k], targets[t])
        held(i) == IF trailed(i) THEN entry ELSE stop
        ends == {i \in DOMAIN ahead : final(i) \/ Suffers(side, ahead[i], held(i))}
        n    == Min(ends)
    IN  IF entry = stop \/ ahead = <<>> THEN Ended("invalid", 0)
        ELSE IF ends = {} THEN Ended("TIME", Won(side, entry, ahead[Len(ahead)].close))
        ELSE IF final(n) THEN Ended("TP", Won(side, entry, targets[last]))
        ELSE Ended(IF trailed(n) THEN "BE" ELSE "SL", Won(side, entry, held(n)))

\* The triad's _simulate: a bar with both is the stop's, and the deadline is the last close.
SimulateTriad(trade, ahead) ==
    LET ends == {i \in DOMAIN ahead : \/ Suffers(trade.side, ahead[i], trade.stop)
                                      \/ Reaches(trade.side, ahead[i], trade.target)}
        n    == Min(ends)
        mark == Won(trade.side, trade.entry, ahead[Len(ahead)].close)
    IN  IF trade.entry = trade.stop THEN Ended("skip", 0)
        ELSE IF ahead = <<>> THEN Ended("open", 0)
        ELSE IF ends = {} THEN Ended(IF mark > 0 THEN "win" ELSE "loss", mark)
        ELSE IF Suffers(trade.side, ahead[n], trade.stop)
               THEN Ended("loss", Won(trade.side, trade.entry, trade.stop))
        ELSE Ended("win", Won(trade.side, trade.entry, trade.target))

\* The confluence's _simulate: the limit fills when a bar comes back to it, and from that
\* bar on the stop is looked at before the first target.
SimulateLimit(order, ahead) ==
    LET fills == {i \in DOMAIN ahead : Suffers(order.side, ahead[i], order.entry)}
        ends  == {i \in DOMAIN ahead :
                    /\ fills # {} /\ i >= Min(fills)
                    /\ \/ Suffers(order.side, ahead[i], order.stop)
                       \/ Reaches(order.side, ahead[i], order.targets[1])}
    IN  IF ends = {} THEN Ended(IF fills = {} THEN "unfilled" ELSE "open", 0)
        ELSE IF Suffers(order.side, ahead[Min(ends)], order.stop)
               THEN Ended("loss", Won(order.side, order.entry, order.stop))
        ELSE Ended("win", Won(order.side, order.entry, order.targets[1]))

-----------------------------------------------------------------------------
(* What is traded.                                                          *)

\* What the swing tier decides at the close of the last of the days, where the week
\* reverses and the price is on the cheap side of its middle.
SwingDecisions(hist) ==
    LET now   == hist[Len(hist)]
        pid   == ClassifyWeek(WeekRead(hist, 20))
        side  == WeeklyBias(pid)
        week  == {i \in DOMAIN hist : hist[i].week = now.week}
        range == [high |-> TopOf(hist, week), low |-> BottomOf(hist, week)]
        mid2  == range.high + range.low
        cheap == IF side = "long" THEN 2 * now.close <= mid2 ELSE 2 * now.close >= mid2
        swing == {t \in Tiers!ClassifyTier([id |-> pid, bias |-> side], 0) :
                     t.type = "swing" /\ cheap}
    IN  UNION {{[at |-> Len(hist), side |-> side, entry |-> now.close, stop |-> stop,
                 targets |-> Tiers!Targets(now.close, stop, side, t.rr)] :
                    stop \in Tiers!TierStop(range, side, StopBeyond)} : t \in swing}

\* backtest_swing: every day but the last is a decision, from the days up to it.
SwingTrades(days, warmup, horizon) ==
    {[decision |-> d,
      result |-> SimulateForward(d.entry, d.stop, d.targets, d.side,
                     SubSeq(days, d.at + 1, Min({Len(days), d.at + horizon})))] :
         d \in UNION {SwingDecisions(SubSeq(days, 1, i)) : i \in (warmup + 1)..(Len(days) - 1)}}

\* triad_signal: the sweep of one side of the first bar's range by the second, faded at the
\* close of the third, which has come back from that side.
TriadSignal(range, manip, react, buffer) ==
    LET high == manip.high > range.high
        low  == manip.low < range.low
        fade(side, stop, target) ==
            {[side |-> side, entry |-> react.close, stop |-> stop, target |-> target]}
    IN  CASE high /\ ~low /\ react.close < range.high ->
                fade("short", manip.high + buffer, range.low)
          [] low /\ ~high /\ react.close > range.low ->
                fade("long", manip.low - buffer, range.high)
          [] OTHER -> {}

\* The triad of a bar of a trigger hour and of the two hours after it.
TriadDecisions(bars, triggers, buffer, i) ==
    IF bars[i].hour \in triggers /\ \A k \in 1..2 : bars[i + k].hour = bars[i].hour + k
      THEN {[at |-> i + 2, side |-> s.side, entry |-> s.entry, stop |-> s.stop, target |-> s.target] :
               s \in TriadSignal(bars[i], bars[i + 1], bars[i + 2], buffer)}
      ELSE {}

\* backtest of the triads, as it is called: of every one there is, to the far side of the
\* range, held for so many bars.
Triads(bars, triggers, buffer, hold) ==
    {t \in {[decision |-> d,
             result |-> SimulateTriad(d, SubSeq(bars, d.at + 1, Min({Len(bars), d.at + hold})))] :
                d \in UNION {TriadDecisions(bars, triggers, buffer, i) : i \in 1..(Len(bars) - 2)}} :
        t.result.how # "skip"}

\* _box of the hours of a session.
HoursBox(bars, hours) ==
    LET of == {i \in DOMAIN bars : bars[i].hour \in hours}
    IN  IF Cardinality(of) < 2 \/ TopOf(bars, of) <= BottomOf(bars, of) THEN {}
        ELSE {[high |-> TopOf(bars, of), low |-> BottomOf(bars, of)]}

\* backtest of the confluence, of one day: the limits that chain the Asian box to London's,
\* on every bar after the Asian hours, London's own included.
ConfluenceTrades(bars, weekly, macro) ==
    LET ahead == SelectSeq(bars, LAMBDA b : b.hour >= 8)
    IN  UNION {{[decision |-> o, result |-> SimulateLimit(o, ahead)] :
                   o \in CrossSession(asian, HoursBox(bars, 8..12), weekly, macro, 50, 4)} :
               asian \in HoursBox(bars, 0..7)}

-----------------------------------------------------------------------------
(* The sells at the drawn levels, one at a time.  A trade is [level, stop,  *)
(* target, deep], deep the lowest price since, and a result [level, made].  *)

\* The highest level that a bar tags and closes below, where a floor is below it.
SellAt(bar, levels, floors, buffer, tol) ==
    LET tagged == {v \in levels : /\ bar.high >= v - tol /\ bar.close < v
                                  /\ \E f \in floors : f < v}
        level  == Max(tagged)
    IN  IF tagged = {} THEN {}
        ELSE {[level |-> level, stop |-> level + buffer, deep |-> level,
               target |-> Max({f \in floors : f < level})]}

NoSells == [open |-> {}, done |-> <<>>]
Booked(state, trade, made) ==
    [open |-> {}, done |-> Append(state.done, [level |-> trade.level, made |-> made])]

\* backtest_sells: the stop first; a bar that ends a trade begins none.
BacktestSells(bars, levels, floors, buffer, tol) ==
    LET step(state, bar) ==
            IF state.open = {} THEN [state EXCEPT !.open = SellAt(bar, levels, floors, buffer, tol)]
            ELSE LET t == CHOOSE x \in state.open : TRUE
                 IN  IF bar.high >= t.stop THEN Booked(state, t, t.level - t.stop)
                     ELSE IF bar.low <= t.target THEN Booked(state, t, t.level - t.target)
                     ELSE state
    IN  FoldLeft(step, NoSells, bars)

\* What the partials bank of a trade that fell to a price, and the share they leave, in
\* hundredths of the position.
BankedShare(partials, trade, deep) ==
    FoldLeft(LAMBDA bank, p :
                 IF deep > trade.level - p.distance THEN bank
                 ELSE LET take == Min({p.share, bank.left})
                      IN  [made |-> bank.made + take * p.distance, left |-> bank.left - take],
             [made |-> 0, left |-> 100], partials)

\* backtest_sells_partial: banks on the way down, the nearest partial first, and runs the
\* rest; the results are in hundredths.
BacktestSellsPartial(bars, levels, floors, buffer, tol, partials) ==
    LET step(state, bar) ==
            IF state.open = {} THEN [state EXCEPT !.open = SellAt(bar, levels, floors, buffer, tol)]
            ELSE LET t    == CHOOSE x \in state.open : TRUE
                     deep == Min({t.deep, bar.low})
                     bank(low) == BankedShare(partials, t, low)
                     total(low, exit) == bank(low).made + bank(low).left * (t.level - exit)
                 IN  IF bar.high >= t.stop THEN Booked(state, t, total(t.deep, t.stop))
                     ELSE IF bar.low <= t.target /\ bank(deep).left > 0
                            THEN Booked(state, t, total(deep, t.target))
                     ELSE [state EXCEPT !.open = {[t EXCEPT !.deep = deep]}]
    IN  FoldLeft(step, NoSells, bars)
=============================================================================
