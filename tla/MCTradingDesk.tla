--------------------------- MODULE MCTradingDesk ---------------------------
(* A small instance of TradingDesk for TLC. *)
EXTENDS TradingDesk

AnyTrade == Permutations(Trades)

Setup(bias, stop, rr, trend, partial) ==
    [bias |-> bias, entry |-> 100, stop |-> stop, rr |-> rr, trend |-> trend,
     partial |-> partial]

\* lots of four and two: a scale-out, a single order, a ladder
Found ==
    {Setup("long", 95, <<2, 3, 4>>, <<>>, TRUE),
     Setup("short", 105, <<2, 3>>, <<94, 90, 80>>, FALSE),
     Setup("short", 110, <<>>, <<94, 90>>, TRUE)}

NodeSets == {{}, {93, 107, 125, 70}}

Banks     == <<8, 16>>
Shares    == <<40, 30>>
Fleet     == <<[id |-> "acc1", balance |-> 2500, riskPct |-> 1],
               [id |-> "acc2", balance |-> 2500, riskPct |-> 2]>>
DayRates  == [parametric |-> 3, fall |-> 4, rise |-> 1]

Outcome(r, breached, month, action) ==
    [r |-> r, breached |-> breached, month |-> month, action |-> action]
Outcomes ==
    {Outcome(18, FALSE, 1, "BUY"), Outcome(3, FALSE, 2, "SELL"), Outcome(-15, TRUE, 2, "BUY")}

\* none, as when the gate is off or has failed; five days; twenty
DataFor == {{}, {"parametric"}, {"parametric", "historical"}}
=============================================================================
