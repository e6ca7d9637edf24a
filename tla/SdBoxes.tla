------------------------------ MODULE SdBoxes ------------------------------
(***************************************************************************)
(* The dealers-range boxes of cbdr/engine.py and the cross-session limits  *)
(* of cbdr/confluence.py.  Pure operators.                                 *)
(*                                                                         *)
(* Prices are even integers, so that a half deviation and a mid are exact; *)
(* a deviation is counted in halves: 2 is 1SD, 3 is 1.5SD.  A limit order  *)
(* is [side, kind, at, entry, stop, targets] with "at" the signed halves.  *)
(***************************************************************************)
EXTENDS Integers, Sequences, FiniteSets, FiniteSetsExt, SequencesExt

CONSTANTS
    DayLength,      \* time slots in a day (1440 minutes)
    StopPad         \* buffer beyond the stop deviation

ASSUME BoxAssumption == DayLength \in Nat \ {0} /\ StopPad \in Nat

DefaultDeviations == {2, 3, 4, 5, 6, 8}
ExtremeSd == 5

\* The prices run away from "from" in the direction of the trade.
Ordered(side, from, to) == IF side = "long" THEN from < to ELSE from > to

-----------------------------------------------------------------------------
(* Windows.                                                                 *)

\* Is a slot of the day inside [start, end), honouring a midnight wrap?
InWindow(slot, start, end) ==
    IF start < end THEN start <= slot /\ slot < end
                   ELSE slot >= start \/ slot < end

\* The day a bar's session opened: yesterday for a bar past the wrap.
SessionKey(day, slot, start, end) ==
    IF start < end \/ slot >= start THEN day ELSE day - 1

-----------------------------------------------------------------------------
(* The box and its levels.                                                  *)

CbdrBox(bars) ==
    [high |-> Max({bars[i].high : i \in DOMAIN bars}),
     low  |-> Min({bars[i].low  : i \in DOMAIN bars})]

Width(box) == box.high - box.low
Mid(box)   == (box.high + box.low) \div 2

\* build_cbdr's level of h signed halves, outward from the edge it is nearest.
Level(box, h) == IF h > 0 THEN box.high + (h * Width(box)) \div 2
                          ELSE box.low  + (h * Width(box)) \div 2

\* sd_ladder: 0 is the high and -2 the low, every half out to four units.
SdLadder(box) ==
    IF Width(box) <= 0 THEN <<>>
    ELSE [h \in -8..8 |-> box.high + (h * Width(box)) \div 2]

ReadBias(price, box) ==
    CASE price > box.high -> [state |-> "breakout_up",   key |-> Level(box, 2)]
      [] price < box.low  -> [state |-> "breakout_down", key |-> Level(box, -2)]
      [] price \in Mid(box)..box.high ->
             [state |-> "bullish_half", key |-> Level(box, -2)]
      [] OTHER -> [state |-> "bearish_half", key |-> Level(box, 2)]

\* The n box and projection levels nearest to a price.
NearestLevels(price, box, n) ==
    LET points == {box.high, box.low, Mid(box)}
                      \cup {Level(box, h) : h \in DefaultDeviations}
                      \cup {Level(box, -h) : h \in DefaultDeviations}
        far(p) == IF p >= price THEN p - price ELSE price - p
        ranked == SetToSortSeq(points, LAMBDA p, q :
                      far(p) < far(q) \/ (far(p) = far(q) /\ p < q))
    IN  SubSeq(ranked, 1, n)

\* extension_read: the deepest deviation reached, 0 inside or short of 1SD.
ExtensionRead(price, box) ==
    LET up      == price > box.high
        down    == price < box.low
        reached == {0} \cup {h \in DefaultDeviations :
                       \/ up /\ price >= Level(box, h)
                       \/ down /\ price <= Level(box, -h)}
    IN  [side |-> IF up THEN "up" ELSE IF down THEN "down" ELSE "inside",
         reached |-> Max(reached), extreme |-> Max(reached) >= ExtremeSd]

Control(price, box) ==
    CASE price >= box.high -> "buyers"
      [] price < box.high /\ price <= box.low -> "sellers"
      [] OTHER -> "balanced"

\* lookback_control: how many boxes, newest first, one party holds.
Streak(boxes, price) ==
    LET n == Len(boxes)
        same == {k \in 1..n : \A i \in (n - k + 1)..n :
                     Control(price, boxes[i]) = Control(price, boxes[n])}
    IN  IF n = 0 THEN [control |-> "none", years |-> 0]
        ELSE [control |-> Control(price, boxes[n]), years |-> Max(same)]

-----------------------------------------------------------------------------
(* The pre-London plan: reversals from the deviations, stops on momentum.   *)

Order(box, side, kind, at, entry, stop, targets) ==
    [side |-> side, kind |-> kind, at |-> at,
     entry |-> entry, stop |-> stop, targets |-> targets]

PrelondonOrders(box) ==
    LET lv(h) == Level(box, h)
        limit(side, at, stop, tgts) ==
            Order(box, side, "limit", at, lv(at), lv(stop), tgts)
    IN  {limit("long",  -2, -4, <<Mid(box), lv(2)>>),
         limit("short",  2,  4, <<Mid(box), lv(-2)>>),
         limit("short",  6,  8, <<lv(2), Mid(box)>>),
         limit("long",  -3, -4, <<Mid(box), lv(2)>>),
         limit("short",  3,  4, <<Mid(box), lv(-2)>>),
         Order(box, "long",  "stop",  2, lv(2),  Mid(box), <<lv(4), lv(6)>>),
         Order(box, "short", "stop", -2, lv(-2), Mid(box), <<lv(-4), lv(-6)>>)}

-----------------------------------------------------------------------------
(* Cross-session confluence.  A bias is 1, 0 or -1.                         *)

Clamp(low, x, high) == Max({low, Min({x, high})})

ConfluenceScore(direction, weekly, macro, geometryOk) ==
    Clamp(0, 40 + (CASE weekly = direction -> 30 [] weekly = 0 -> 10 [] OTHER -> -30)
                + (CASE macro = direction -> 20 [] macro = 0 -> 5 [] OTHER -> -15)
                + (IF geometryOk THEN 10 ELSE 0), 100)

ConfluenceConviction(score) ==
    CASE score >= 80 -> "A"
      [] score \in 65..79 -> "B"
      [] score \in 50..64 -> "C"
      [] OTHER -> "-"

\* The orders that chain an Asian box to a London box (the Asian box again when
\* there is none); the sell side is armed in a confirmed downtrend only.  A level
\* at price zero counts as missing.
CrossSession(asian, london, weekly, macro, minScore, stopSd) ==
    LET tgt  == IF london = {} THEN asian ELSE CHOOSE b \in london : TRUE
        lv(h) == Level(tgt, h)
        geometry == Level(asian, 2) > lv(-2)
        sell == [side |-> "short", entry |-> Level(asian, 2),
                 stop |-> asian.high + (stopSd * Width(asian)) \div 2 + StopPad,
                 targets |-> <<Mid(tgt), lv(-2), lv(-4), lv(-6)>>,
                 score |-> ConfluenceScore(-1, weekly, macro, geometry)]
        buy  == [side |-> "long", entry |-> lv(-2),
                 stop |-> tgt.low - (stopSd * Width(tgt)) \div 2 - StopPad,
                 targets |-> <<Mid(tgt), lv(2), lv(4)>>,
                 score |-> ConfluenceScore(1, weekly, macro, TRUE)]
    IN  {o \in (IF weekly < 0 /\ macro < 0 /\ Level(asian, 2) # 0 /\ lv(-2) # 0
                  THEN {sell} ELSE {})
               \cup (IF lv(-2) # 0 /\ lv(2) # 0 THEN {buy} ELSE {}) :
            o.score >= minScore}
=============================================================================
