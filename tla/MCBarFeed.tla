----------------------------- MODULE MCBarFeed -----------------------------
(* A small instance of BarFeed for TLC.                                     *)
EXTENDS BarFeed

\* Prices are quarters of the unit the candles are written in.
Candle(o, h, l, c) == [open |-> 4 * o, high |-> 4 * h, low |-> 4 * l, close |-> 4 * c]

\* Rallies, a rejection, a displacement and a pause, each with its mirror image
\* about 6; the pause may still become the rejection.  The last one rejects the highs
\* all the way down.
Prints == {Candle(4, 10, 4, 8), Candle(8, 8, 2, 4),
           Candle(6, 12, 4, 4), Candle(6, 8, 0, 8),
           Candle(10, 10, 0, 2), Candle(2, 12, 2, 10),
           Candle(6, 8, 4, 6), Candle(2, 3, 1, 2), Candle(10, 11, 9, 10),
           [open |-> 36, high |-> 48, low |-> 2, close |-> 2]}

\* A Wednesday in New York against the dollar's fall, a Thursday in Asia with its rise.
Clocks == {[weekday |-> 0, hour |-> 14, bias |-> {}],
           [weekday |-> 1, hour |-> 3, bias |-> {"short"}]}

\* Two partials of the sells, the further one beyond some of the floors.
Partials == <<[distance |-> 2, share |-> 34], [distance |-> 5, share |-> 33]>>
=============================================================================
