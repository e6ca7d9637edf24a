--------------------------- MODULE MCDeployments ---------------------------
(* Small instances of Deployments for TLC.                                  *)
EXTENDS Deployments

Cand(side, type, campaign, bonuses) ==
    [side |-> side, type |-> type, risk |-> 20, gate |-> TRUE, news |-> FALSE,
     campaign |-> campaign, htf |-> "aligns", regime |-> "confirms",
     location |-> "ok", protraction |-> "none", liquidity |-> FALSE, rr |-> 400,
     bonuses |-> bonuses]

\* Layer is the second sniper layer of a zone and the better one.
Fade   == Cand("long", "sniper", "neutral", {})
Layer  == Cand("long", "sniper", "advances", {"b2b"})

Layers  == {<<Fade, Layer>>}

Sell   == [side |-> "short", type |-> "swing", risk |-> 20]
Reject == {[side |-> "long", type |-> "sniper", risk |-> 20]}

\* a tier's week is full after one position, as that of swing is in the code
Budget  == [type \in TradeTypes |-> 1]
Factors == [type \in TradeTypes |->
               CASE type = "intrasession" -> 1415 [] type = "intraday" -> 949
                 [] OTHER -> 1000]

\* No definition looks at the place of a row in the table, so that states whose rows
\* differ in their order alone behave alike.
AnyOrder == <<day, marks, task, history, faults,
              [row \in Range(rows) |-> Cardinality({i \in DOMAIN rows : rows[i] = row})]>>
=============================================================================
