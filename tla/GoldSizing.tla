----------------------------- MODULE GoldSizing -----------------------------
(***************************************************************************)
(* Money: the prop-firm limits and gate (propfirm/engine.py), the lots and *)
(* targets of gold/risk_engine.py, the cards of gold/signal.py, the fleet  *)
(* fan-out (gold/accounts.py), the conviction-scaled fleet allocation      *)
(* (gold/portfolio_opt.py) and the VaR gate (gold/portfolio_risk.py).      *)
(*                                                                         *)
(* Prices and money are whole dollars; lots are in steps of 0.01, so that  *)
(* one step gains or loses one dollar per dollar of price.  Percentages of *)
(* a balance are rounded down to the dollar.  Pure operators.              *)
(***************************************************************************)
EXTENDS Integers, Sequences, FiniteSets, FiniteSetsExt, SequencesExt

Distance(p, q) == IF p < q THEN q - p ELSE p - q
Sign(side) == IF side = "long" THEN 1 ELSE -1

-----------------------------------------------------------------------------
(* The cheat sheet: fractions of the balance, in hundredths of a percent.   *)

LimitPct == [dailyTargetMin |-> 30, dailyTargetMax |-> 60, dailyLossSoft |-> 15, dailyLossCap |-> 30,
             weeklyTargetMin |-> 150, weeklyTargetMax |-> 300, weeklyLossSoft |-> 75,
             weeklyLossCap |-> 150, monthlyTargetMin |-> 600, monthlyTargetMax |-> 1200,
             monthlyLossSoft |-> 300, monthlyLossCap |-> 600]

\* TARGET_TIERS: a tier scales targets and losses alike; an unknown tier is 6.
TierScale(tier) == IF tier \in {6, 8, 10, 12} THEN tier ELSE 6

RiskLimits(balance, tier) ==
    [k \in DOMAIN LimitPct |-> (balance * LimitPct[k] * TierScale(tier)) \div 60000]

\* max_lot rounds to the nearest step.
MaxLot(balance) == (2 * balance + 1250) \div 2500

\* mutant: each trade is held under the cap by itself
EvaluateTradeAlone(balance, proposed, dayPnl, openRisk, tier) ==
    LET lim == RiskLimits(balance, tier)
    IN  /\ dayPnl > -lim.dailyLossCap
        /\ dayPnl < lim.dailyTargetMax
        /\ proposed <= lim.dailyLossCap

\* evaluate_trade, the gate: the day is neither lost nor won, and the open risk with
\* the new trade's stays under the daily cap.
EvaluateTrade(balance, proposed, dayPnl, openRisk, tier) ==
    LET lim == RiskLimits(balance, tier)
    IN  /\ dayPnl > -lim.dailyLossCap
        /\ dayPnl < lim.dailyTargetMax
        /\ openRisk + proposed <= lim.dailyLossCap

\* lockin: the risk scale in thousandths, easing off over TradeTarget trades.
Lockin(closed, dayPnl, balance, tier, tradeTarget) ==
    LET lim      == RiskLimits(balance, tier)
        progress == Min({tradeTarget, closed})
    IN  CASE dayPnl >= lim.dailyTargetMax -> 0
          [] /\ dayPnl < lim.dailyTargetMax
             /\ dayPnl >= lim.dailyTargetMin -> 1000 - (500 * progress) \div tradeTarget
          [] dayPnl < lim.dailyTargetMin -> 1000 - (250 * progress) \div tradeTarget

\* grid_state: the budget left by the open trades.
RemainingBudget(balance, openRisk, tier) == RiskLimits(balance, tier).dailyLossCap - openRisk
CanOpenMore(balance, openRisk, tier) == RemainingBudget(balance, openRisk, tier) > 0

-----------------------------------------------------------------------------
(* Lots and targets.                                                        *)

\* lot_ladder: three frozen lots of a balance, rounded down, one step at least.
LotLadder(balance) == [base60 |-> Max({1, balance \div 5000}),
                       agg120 |-> Max({1, balance \div 2500}),
                       max    |-> Max({1, balance \div 1250})]

\* size_for_risk, rounded down.
SizeForRisk(entry, stop, risk) ==
    IF entry = stop THEN 0 ELSE risk \div Distance(entry, stop)

\* targets: multiples of the risk.
Targets(entry, stop, side, rr) ==
    [i \in DOMAIN rr |-> entry + Sign(side) * rr[i] * Distance(entry, stop)]

\* breakeven_price: half way to the first target.
BreakevenPrice(entry, tp) == entry + (tp - entry) \div 2

\* prop_pass_math: the trades of a size that make the month's minimum target.
TradesToPass(balance, tier, each) ==
    (RiskLimits(balance, tier).monthlyTargetMin + each - 1) \div each

-----------------------------------------------------------------------------
(* The card.                                                                *)

NoTrade == [side |-> "none"]

\* assemble_structured, and assemble with its fixed stop distance: sized money-first,
\* capped at the prop lot, and gated as if the day were new and the book empty.  Whoever
\* asked for the card adds the trend targets and the exit style.
AssembleStructured(bias, entry, stop, balance, tier, risk, rr) ==
    IF bias \notin {"long", "short"} \/ entry = stop THEN NoTrade
    ELSE LET lot == Max({1, Min({SizeForRisk(entry, stop, risk), MaxLot(balance)})})
         IN  [side |-> bias, entry |-> entry, stop |-> stop, lot |-> lot,
              risk |-> lot * Distance(entry, stop), targets |-> Targets(entry, stop, bias, rr),
              allow |-> EvaluateTrade(balance, lot * Distance(entry, stop), 0, 0, tier),
              trend |-> <<>>, partial |-> FALSE]

Assemble(bias, entry, balance, tier, risk, distance, rr) ==
    AssembleStructured(bias, entry, entry - Sign(bias) * distance, balance, tier, risk, rr)

-----------------------------------------------------------------------------
(* The fleet.                                                               *)

\* copy_fanout: one signal, a lot for each account.
CopyFanout(entry, stop, accounts) ==
    [i \in DOMAIN accounts |->
        LET a == accounts[i]
            want == SizeForRisk(entry, stop, (a.balance * a.riskPct) \div 100)
        IN  [account |-> a.id, balance |-> a.balance,
             lot |-> Max({1, Min({want, LotLadder(a.balance).max})})]]

\* conviction_scale, in thousandths: a quarter at least, all of it at most.
ConvictionScale(conviction) == 250 + (750 * Max({0, Min({100, conviction})})) \div 100

\* allocate: each account risks its percentage times the scale, at most maxPct; the lot
\* is rounded to the nearest step and is one step at least.
Allocate(accounts, entry, stop, conviction, maxPct) ==
    [i \in DOMAIN accounts |->
        LET a    == accounts[i]
            dist == Distance(entry, stop)
            risk == Min({a.balance * a.riskPct * ConvictionScale(conviction),
                         1000 * a.balance * maxPct}) \div 100000
        IN  [account |-> a.id, balance |-> a.balance, risk |-> risk,
             lot |-> IF dist = 0 \/ risk <= 0 THEN 0
                     ELSE Max({1, (2 * risk + dist) \div (2 * dist)})]]

\* risk_budget_check: a fleet over its budget is scaled down leg by leg.
RiskBudgetCheck(legs, budgetPct) ==
    LET risk    == SumFunction([i \in DOMAIN legs |-> legs[i].risk])
        budget  == (SumFunction([i \in DOMAIN legs |-> legs[i].balance]) * budgetPct) \div 100
        fit(x)  == (2 * x * budget + risk) \div (2 * risk)
    IN  IF risk <= budget THEN legs
        ELSE [i \in DOMAIN legs |-> [legs[i] EXCEPT !.risk = fit(@), !.lot = fit(@)]]

-----------------------------------------------------------------------------
(* The VaR gate.                                                            *)

\* _pos_exposure: signed, a lot at its price.
Exposure(p) == Sign(p.side) * p.lot * p.price

NetExposure(positions) == SumFunction([i \in DOMAIN positions |-> Exposure(positions[i])])

\* parametric_var, and historical_var, which knows the two tails apart.  A rate is a
\* percentage of the exposure.
Estimate(kind, net, rates) ==
    LET rate == CASE kind = "parametric" -> rates.parametric
                  [] kind = "historical" -> IF net > 0 THEN rates.fall ELSE rates.rise
    IN  (Max({net, -net}) * rate) \div 100

\* portfolio_risk: the largest of the estimates that are known.  The parametric one takes
\* five daily returns that are not all alike, the historical one twenty.
PortfolioVar(net, rates, known) == Max({Estimate(kind, net, rates) : kind \in known})

\* mutant: the new order is valued as a long whatever its side
RiskGateLong(positions, order, rates, limit, known) ==
    \/ known = {}
    \/ PortfolioVar(NetExposure(positions) + Exposure([order EXCEPT !.side = "long"]), rates, known)
           <= limit

\* risk_gate over the book with the new order: open when there is no estimate.
RiskGate(positions, order, rates, limit, known) ==
    \/ known = {}
    \/ PortfolioVar(NetExposure(positions) + Exposure(order), rates, known) <= limit
=============================================================================
