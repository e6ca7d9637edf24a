----------------------------- MODULE MCWatchers -----------------------------
(* A small instance of Watchers for TLC.                                    *)
EXTENDS Watchers, TLC

CONSTANTS c1, c2

\* In gold's ceiling, and at the dollar's extreme.
SomeLevels  == {105900, 111000}
SomeSeries  == {<<3, 3, 2>>, <<2, 2, 3>>}
SomeAnchors == {[side |-> "long", zone |-> "buy_ob", at |-> -1],
                [side |-> "short", zone |-> "sell_ob", at |-> 1]}
OneCall     == {c1}
SomeNets    == {-5000, 170000, 250000}
SomePrices  == {3850, 4000}
SomeUnlocks == {{}, {TRUE}}
TwoCalls    == {c1, c2}
Interchangeable == Permutations(TwoCalls)
=============================================================================
