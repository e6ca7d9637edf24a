--------------------------- MODULE MCOptimusDesk ---------------------------
(* Small instances of OptimusDesk for TLC.                                  *)
EXTENDS OptimusDesk

Candle(o, h, l, c) == [open |-> o, high |-> h, low |-> l, close |-> c]

\* A down candle whose wick sweeps 2 and an up candle that rejects it; a rally.
Prints == {Candle(6, 6, 2, 4), Candle(4, 8, 0, 6), Candle(4, 10, 4, 10)}

Zone(name, side, low, high) == [name |-> name, side |-> side, low |-> low, high |-> high]

\* The operator's map: two demands, one supply, and staircases whose highs, floors or first
\* fall are less than the two prices of a dollar apart.
Boot  == [zones |-> {Zone(101, "long", 2, 4), Zone(103, "long", 4, 6), Zone(109, "short", 10, 12)},
          sells |-> {10, 9, 8, 5}, floors |-> {4, 1}, tp |-> 1]
Other == [zones |-> {Zone(103, "long", 4, 6)}, sells |-> {12, 9, 7}, floors |-> {5, 4}, tp |-> 0]
Posts == {Other}

\* The feeds: with gold, against it as far as they go, and down.
With == [inputs |-> [bias |-> {}, heading |-> {}, rates |-> "falling", net |-> 170000],
         interest |-> 9, peak |-> 10, hmm |-> {"long"}, vol |-> {"high"}, venom |-> "high",
         vix |-> {30}, spx |-> {-20}, lead |-> {-150}, fear |-> {20}, jpy |-> {-40}, geo |-> {80},
         rates |-> [FED |-> 450, ECB |-> 215, BOJ |-> 50], location |-> "above", poc |-> "above"]
Against == [With EXCEPT !.inputs = [@ EXCEPT !.bias = {"short"}, !.rates = "rising", !.net = 210000],
                        !.interest = 5, !.hmm = {"short"}, !.vix = {12}, !.spx = {10},
                        !.lead = {200}, !.fear = {80}, !.jpy = {60}, !.geo = {0},
                        !.location = "below", !.poc = "below"]
Down == [With EXCEPT !.inputs.rates = "rising", !.hmm = {}, !.vol = {}, !.venom = "low", !.vix = {},
                     !.spx = {}, !.lead = {}, !.fear = {}, !.jpy = {}, !.geo = {}, !.location = "none"]
Tape == {With, Down}
AnyTape == Tape \cup {Against}
Paid == [vix |-> {22}, spx |-> {-10}]
=============================================================================
