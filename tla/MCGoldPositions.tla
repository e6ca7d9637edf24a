-------------------------- MODULE MCGoldPositions --------------------------
(* Small instances of GoldPositions for TLC.  A price unit is 125 pips.     *)
EXTENDS GoldPositions

CardOf(born, side, type, entry, stop, targets, risk) ==
    [born |-> born, side |-> side, type |-> type, entry |-> entry, stop |-> stop,
     targets |-> targets, risk |-> risk, end |-> 0]

Intraday == CardOf("market", "long", "intraday", 4, 2, <<6, 8>>, 1)
Fade     == CardOf("limit", "long", "sd_fade", 4, 2, <<8>>, 1)
Armed    == CardOf("limit", "short", "prelondon", 6, 8, <<4, 2>>, 3)
Sniper   == CardOf("market", "short", "sniper", 6, 8, <<3>>, 1)

BookCards  == {Intraday, Armed}
SlowCards  == {Fade, Armed}
LimitCards == {Armed}
HeldCards  == {Sniper}

NoBoxes == {}
OneBox  == {[low |-> 4, high |-> 6]}
HighBox == {[low |-> 12, high |-> 14]}
=============================================================================
