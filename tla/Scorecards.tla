----------------------------- MODULE Scorecards -----------------------------
(***************************************************************************)
(* What the closed trades say: the scoreboard of the USD/JPY forward test  *)
(* (usdjpy/engine.py), the scorecard and its reflection                    *)
(* (usdjpy/scorecard.py), their reports (services/scorecard_service.py,    *)
(* services/usdjpy_service.py) and the risk posture made of them           *)
(* (routes/alerts.py).                                                     *)
(*                                                                         *)
(* A trade is [r, breached, month, action, day]; results are in tenths of  *)
(* the risk, factors in thousandths.  Pure operators.                      *)
(***************************************************************************)
EXTENDS GoldSizing, Arrangements

CONSTANTS
    MinTrades,      \* trades a scoreboard verdict needs, 20 in the code
    MinSample,      \* trades a reflection needs, 10 in the code
    TradeTarget     \* trades over which targets lock in, 100 in the code

ASSUME ScoresAssumption ==
    /\ MinTrades \in Nat \ {0} /\ MinSample \in Nat \ {0} /\ TradeTarget \in Nat \ {0}
    /\ MinSample <= MinTrades

Total(rs)  == SumFunction(rs)
Wins(rs)   == Filtered(rs, {i \in DOMAIN rs : rs[i] > 0})
Losses(rs) == Filtered(rs, {i \in DOMAIN rs : rs[i] < 0})

\* result_r: the exit in tenths of the risk, and realized_r: a stop is a full loss.
ResultR(side, entry, stop, exit) == (10 * Sign(side) * (exit - entry)) \div Distance(entry, stop)
RealizedR(r, breached) == IF breached THEN -10 ELSE r

-----------------------------------------------------------------------------
(* The scoreboard.                                                          *)

\* _verdict: thresholds 1.2 and 1.0 on the profit factor, which is undefined without a
\* losing trade and then neither passes nor fails.
BoardVerdict(n, won, lost) ==
    CASE n < MinTrades -> "INCONCLUSIVE"
      [] n >= MinTrades /\ lost > 0 /\ 10 * won > 12 * lost -> "PASS"
      [] n >= MinTrades /\ lost > 0 /\ won < lost -> "FAIL"
      [] OTHER -> "INCONCLUSIVE"

\* build_scoreboard: a scratch counts as a loss.
BuildScoreboard(rs) ==
    LET won  == Total(Wins(rs))
        lost == -Total(Losses(rs))
    IN  [trades |-> Len(rs), wins |-> Len(Wins(rs)), losses |-> Len(rs) - Len(Wins(rs)),
         total |-> Total(rs), verdict |-> BoardVerdict(Len(rs), won, lost)]

-----------------------------------------------------------------------------
(* The scorecard.                                                           *)

\* max_drawdown_r: the largest drop of the running total from its peak so far.
DrawStep(a, r) ==
    LET equity == a.equity + r
        peak   == Max({a.peak, equity})
    IN  [equity |-> equity, peak |-> peak, worst |-> Max({a.worst, peak - equity})]
MaxDrawdown(rs) == FoldLeft(DrawStep, [equity |-> 0, peak |-> 0, worst |-> 0], rs).worst

\* confidence_factor: one and the mean result rounded to thousandths, held between a half
\* and one and a half.
ConfidenceFactor(n, total) == Max({500, Min({1500, 1000 + (200 * total + n) \div (2 * n)})})

\* mutant: the verdict is the profit factor's alone
ReflectByProfitFactor(n, total, won, lost) ==
    IF n < MinSample THEN [verdict |-> "INCONCLUSIVE", factor |-> 1000]
    ELSE [factor |-> ConfidenceFactor(n, total),
          verdict |-> IF 10 * won >= 13 * lost THEN "GREEN" ELSE "RED"]

\* _reflect: the verdict of the expectancy (0.20) and the profit factor (1.30), and the
\* confidence factor of the expectancy alone.
Reflect(n, total, won, lost) ==
    LET pfGood == lost = 0 \/ 10 * won >= 13 * lost
        pfBad  == lost > 0 /\ won < lost
    IN  IF n < MinSample THEN [verdict |-> "INCONCLUSIVE", factor |-> 1000]
        ELSE [factor |-> ConfidenceFactor(n, total),
              verdict |-> CASE total >= 2 * n /\ pfGood -> "GREEN"
                            [] ~(total >= 2 * n /\ pfGood) /\ (total <= 0 \/ pfBad) -> "RED"
                            [] OTHER -> "AMBER"]

\* build_scorecard.
BuildScorecard(rs) ==
    LET read == Reflect(Len(rs), Total(rs), Total(Wins(rs)), -Total(Losses(rs)))
    IN  [n |-> Len(rs), wins |-> Len(Wins(rs)), losses |-> Len(Losses(rs)),
         scratches |-> Len(rs) - Len(Wins(rs)) - Len(Losses(rs)),
         total |-> Total(rs), drawdown |-> MaxDrawdown(rs),
         verdict |-> read.verdict, factor |-> read.factor]

ResultsOf(trades) == [i \in DOMAIN trades |-> trades[i].r]

\* by_group: a scorecard for every value of a field.
ByGroup(trades, key) ==
    [g \in {trades[i][key] : i \in DOMAIN trades} |->
        BuildScorecard(ResultsOf(Filtered(trades, {i \in DOMAIN trades : trades[i][key] = g})))]

-----------------------------------------------------------------------------
(* Reports.                                                                 *)

\* _rows: the trades of a mode.
Scored(trades, stopAware) ==
    IF stopAware THEN [i \in DOMAIN trades |->
                          [trades[i] EXCEPT !.r = RealizedR(@, trades[i].breached)]]
                 ELSE trades

\* build_report.
BuildReport(trades, stopAware) ==
    LET rows    == Scored(trades, stopAware)
        byMonth == ByGroup(rows, "month")
    IN  [allTime |-> BuildScorecard(ResultsOf(rows)), byMonth |-> byMonth,
         current |-> IF trades = <<>> THEN {} ELSE {byMonth[Max(DOMAIN byMonth)]},
         byAction |-> ByGroup(rows, "action")]

\* window_report: the trades entered in the last days.
WindowReport(trades, stopAware, today, days) ==
    BuildScorecard(ResultsOf(Filtered(Scored(trades, stopAware),
                                      {i \in DOMAIN trades : trades[i].day >= today - days})))

\* gold_report: each source's verdict of its own.
SourceVerdicts(trades) == ByGroup(trades, "source")

\* get_scoreboard: the two tallies.
Scoreboards(trades) ==
    [faithful |-> BuildScoreboard(ResultsOf(trades)),
     stopAware |-> BuildScoreboard(ResultsOf(Scored(trades, TRUE)))]

\* _risk_posture: the verdict and the lock-in's scale for a balance.
RiskPosture(trades, balance, tier) ==
    LET card == BuildReport(trades, FALSE).allTime
    IN  [verdict |-> card.verdict, confidence |-> card.factor, riskOff |-> card.verdict = "RED",
         maxLot |-> MaxLot(balance), lossCap |-> RiskLimits(balance, tier).dailyLossCap,
         scale |-> Lockin(Len(trades), 0, balance, tier, TradeTarget)]
=============================================================================
