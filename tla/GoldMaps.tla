------------------------------ MODULE GoldMaps ------------------------------
(***************************************************************************)
(* The operator-fed maps of reaction levels and what is planned from them: *)
(* the precision locator (gold/optimus.py), the named order-block zones    *)
(* (gold/zones.py), the capture tiers (gold/big5.py), the money-first lots *)
(* (gold/risk_engine.py) and sweep-and-reject (gold/rejection.py).         *)
(*                                                                         *)
(* Prices are in a unit of which PerDollar make a dollar, ten pips.  Lots  *)
(* are in steps of 0.01, so that one step gains or loses one dollar per    *)
(* dollar of price.  A zone is [name, side, low, high].  A reading that    *)
(* may be missing is a set with at most one element.                       *)
(***************************************************************************)
EXTENDS Arrangements, FiniteSetsExt, SequencesExt

CONSTANTS
    PerDollar,      \* prices to the dollar
    StopBuffer,     \* _STOP_BUFFER, beyond a wick
    BandSlack,      \* how far outside its band a body may close
    NearBand,       \* the distance at which a zone is read at all
    PathSlack,      \* 0.1% of the price: a sell block this far below still counts
    TopGap,         \* 0.4% of a level: the stop of the highest sell limit
    VoidMin,        \* VOID_MIN_PIPS as a distance
    StackRiskCap,   \* DEFAULT_RISK_CAP_USD
    TouchDistance   \* DEFAULT_TOUCH_PIPS as a distance

ASSUME MapAssumption ==
    /\ {StopBuffer, BandSlack, NearBand, PathSlack, VoidMin,
        StackRiskCap, TouchDistance} \subseteq Nat
    /\ TopGap \in Nat \ {0} /\ PerDollar \in Nat \ {0}

Distance(p, q) == IF p < q THEN q - p ELSE p - q
Newest(S)  == {i \in S : \A j \in S : j <= i}
Highest(S) == {p \in S : \A q \in S : q <= p}
Lowest(S)  == {p \in S : \A q \in S : p <= q}

-----------------------------------------------------------------------------
(* Capture tiers.                                                           *)

Big5 == [i \in 1..6 |-> 25 * i * PerDollar]
MinCaptureMove == Big5[1]

\* tier_for_pips: 0 below the cheetah, 7 for a whale, past the elephant.
Tier(move) == IF move > Big5[6] THEN 7 ELSE Cardinality({i \in 1..6 : move >= Big5[i]})

\* next_tier: the move still missing to the next tier, none past the elephant.
NextTier(move) == {Big5[i] - move : i \in {j \in 1..6 : /\ move < Big5[j]
                                            /\ \A k \in 1..(j - 1) : move >= Big5[k]}}

\* classify_capture: the signed move and its grade.
Classify(entry, exit, side) ==
    LET move == IF side = "long" THEN exit - entry ELSE entry - exit
    IN  [move |-> move, tier |-> IF move > 0 THEN Tier(move) ELSE 0,
         meetsMin |-> move >= MinCaptureMove]

\* size_for_risk, in steps of 0.01 lot, rounded down.
SizeForRisk(entry, stop, risk) ==
    IF entry = stop THEN 0 ELSE (risk * PerDollar) \div Distance(entry, stop)

-----------------------------------------------------------------------------
(* Sweep and reject: a wick through the level and a close back inside.      *)

Swept(bar, level, side) ==
    IF side = "short" THEN bar.high >= level /\ bar.close < level /\ bar.close <= bar.open
                      ELSE bar.low <= level /\ bar.close > level /\ bar.close >= bar.open

\* sweep_reject: the newest such bar of the last "lookback".
SweepReject(bars, level, side, lookback) ==
    {[bar |-> i, entry |-> bars[i].close,
      stop |-> IF side = "short" THEN bars[i].high + StopBuffer
                                 ELSE bars[i].low - StopBuffer] :
        i \in Newest({j \in DOMAIN bars : /\ j > Len(bars) - lookback
                                          /\ Swept(bars[j], level, side)})}

-----------------------------------------------------------------------------
(* The precision locator.  "zones" is the live map of both sides.           *)

\* locate_ob: the last candle of the zone's colour whose body closes in the band.
LocateOb(bars, zone, side) ==
    LET top(b) == Max({b.open, b.close})
        inBand(b) == /\ top(b) \in (zone.low - BandSlack)..(zone.high + BandSlack)
                     /\ b.low <= zone.high /\ b.high >= zone.low
        colour(b) == IF side = "short" THEN b.close > b.open ELSE b.close < b.open
        last == Newest({j \in DOMAIN bars : inBand(bars[j]) /\ colour(bars[j])})
    IN  {IF side = "short"
           THEN [low |-> bars[i].open, high |-> bars[i].high,
                 stop |-> bars[i].high + StopBuffer]
           ELSE [low |-> bars[i].low, high |-> bars[i].open,
                 stop |-> bars[i].low - StopBuffer] : i \in last}

\* The edges a trade from "entry" runs into, and _next_target, the first of them.
EdgesAhead(zones, side, entry) ==
    IF side = "short"
      THEN {z.high : z \in {y \in zones : y.side = "long" /\ y.high < entry}}
      ELSE {z.low  : z \in {y \in zones : y.side = "short" /\ y.low > entry}}

NextTarget(zones, side, entry) ==
    IF side = "short" THEN Highest(EdgesAhead(zones, side, entry))
                      ELSE Lowest(EdgesAhead(zones, side, entry))

\* precision_entry: armed by a reject at the block's edge in the last three bars.
PrecisionEntry(bars, zones, zone) ==
    LET side == zone.side
        plan(ob) ==
            LET rej   == SweepReject(bars, IF side = "short" THEN ob.high ELSE ob.low,
                                     side, 3)
                armed == rej # {}
                r     == CHOOSE x \in rej : TRUE
                entry == IF armed THEN r.entry ELSE (ob.low + ob.high) \div 2
                tgt   == NextTarget(zones, side, entry)
            IN  [zone |-> zone.name, side |-> side, entry |-> entry,
                 stop |-> IF armed THEN r.stop ELSE ob.stop, target |-> tgt,
                 meetsFloor |-> \E t \in tgt : Distance(entry, t) >= MinCaptureMove,
                 armed |-> armed]
    IN  {plan(ob) : ob \in LocateOb(bars, zone, side)}

\* optimus_scan's armed plans and the zones it watches.
OptimusArmed(bars, zones) ==
    UNION {{p \in PrecisionEntry(bars, zones, z) : p.armed} : z \in zones}

OptimusWatching(bars, zones, price) ==
    {z \in zones : /\ price \in (z.low - NearBand)..(z.high + NearBand)
                   /\ \A p \in PrecisionEntry(bars, zones, z) : ~p.armed}

\* target_ladder: the edges ahead in order, with the last floor before a void
\* and the first edge on a void's far side.
TargetLadder(zones, side, entry) ==
    LET edges == EdgesAhead(zones, side, entry)
        ladder == IF side = "short" THEN Descending(edges) ELSE Ascending(edges)
        gap(i) == Distance(ladder[i], IF i = 1 THEN entry ELSE ladder[i - 1])
        voids  == {i \in DOMAIN ladder : gap(i) >= VoidMin}
    IN  [ladder |-> ladder,
         lastFloor  |-> {ladder[i] : i \in Newest(DOMAIN ladder \ voids)},
         voidTarget |-> {ladder[i] : i \in Lowest(voids)}]

-----------------------------------------------------------------------------
(* Plans from the sell levels.                                              *)

\* sell_limit_ladder: a sell at every level above the floor, its stop beyond the
\* next higher one, its target the next lower one.
SellLimitLadder(levels, floor, price) ==
    LET desc == Descending({l \in levels : l > floor})
    IN  [i \in DOMAIN desc |->
            [entry  |-> desc[i],
             stop   |-> IF i = 1 THEN desc[i] + TopGap ELSE desc[i - 1] + StopBuffer,
             target |-> IF i = Len(desc) THEN floor ELSE desc[i + 1],
             live   |-> desc[i] <= price + 5 * PerDollar]]

\* bounce_plan: the n nearest levels above, each the target of a buy and the entry
\* of the sell that re-arms there.
BouncePlan(levels, floor, price, n) ==
    LET asc == Ascending({l \in levels : l > price})
    IN  [i \in 1..Min({n, Len(asc)}) |->
            [level  |-> asc[i],
             target |-> Max({floor} \cup {l \in levels : l < asc[i]})]]

\* mutant: the bounce may come back to the last high
BounceHighRepeats(sells, floors, floor, lastHigh) ==
    Max({(floor + lastHigh) \div 2} \cup
        {l \in sells \cup floors : floor < l /\ l <= lastHigh})

\* set_sell_path keeps the levels sorted; sell_path walks them.  "sells", "floors"
\* are sets; the walk carries the price it has reached and the last lower high.
\* The bounce is at least a dollar lower, be it below the floor it comes from.
BounceHigh(sells, floors, floor, lastHigh) ==
    LET between == {l \in sells \cup floors : floor < l /\ l < lastHigh}
        level   == IF between = {} THEN (floor + lastHigh) \div 2 ELSE Max(between)
    IN  Min({level, lastHigh - PerDollar})

Leg(kind, from, to) == [kind |-> kind, from |-> from, to |-> to]

SellPath(sells, floors, price, tp) ==
    LET ahead == Lowest({l \in sells : l >= price - PathSlack})
        steps == Descending({f \in floors : f < price /\ f > tp} \cup {tp})
        start == IF ahead = {} THEN [cur |-> price, high |-> price, legs |-> <<>>]
                 ELSE LET lh == CHOOSE l \in ahead : TRUE
                      IN  [cur |-> lh, high |-> lh, legs |-> <<Leg("up", price, lh)>>]
        walk(s, f) ==
            LET down == Append(s.legs, Leg("down", s.cur, f))
                high == BounceHigh(sells, floors, f, s.high)
            IN  IF f <= tp THEN [s EXCEPT !.cur = f, !.legs = down]
                ELSE [cur |-> high, high |-> high, legs |-> Append(down, Leg("up", f, high))]
    IN  FoldLeft(walk, start, steps).legs

-----------------------------------------------------------------------------
(* Named zones: "zones" is a sequence, in the order of the table.           *)

\* zone_for: the first zone around the price and the rails on either side.
Inside(zones, price) ==
    {zones[i] : i \in Lowest({j \in DOMAIN zones :
        zones[j].low <= price /\ price <= zones[j].high})}
RailBelow(zones, price) ==
    {z \in Range(zones) : z.high < price /\
        \A y \in Range(zones) : y.high < price => y.high <= z.high}
RailAbove(zones, price) ==
    {z \in Range(zones) : z.low > price /\
        \A y \in Range(zones) : y.low > price => z.low <= y.low}

\* _opposite_rail: the base of the first sell zone above, or top of a buy below.
OppositeRail(zones, zone) ==
    IF zone.side = "long"
      THEN Lowest({y.low : y \in {x \in Range(zones) : x.side = "short" /\ x.low > zone.high}})
      ELSE Highest({y.high : y \in {x \in Range(zones) : x.side = "long" /\ x.high < zone.low}})

\* zone_budget: the way down, the way up, and the round trip.
ZoneBudget(zones, price) ==
    [down |-> {price - z.high : z \in RailBelow(zones, price)},
     up   |-> {z.low - price : z \in RailAbove(zones, price)},
     bag  |-> {a.low - b.high : a \in RailAbove(zones, price), b \in RailBelow(zones, price)}]

\* zone_anchored_entry: inside a zone of the side, and at the box's 1SD when a box
\* is given; "reached" says whether the price has passed that level.
ZoneAnchored(zones, side, price, boxed, reached) ==
    (\E z \in Inside(zones, price) : z.side = side) /\ (boxed => reached)

\* sniper_stack: the risk split evenly over limits laid across the zone, each
\* sized to the shared stop, at least one step.  What they risk is in the unit of prices.
SniperStack(zone, risk, layers, pad) ==
    LET width == zone.high - zone.low
        stop  == IF zone.side = "long" THEN zone.low - pad ELSE zone.high + pad
        entry(i) == IF layers = 1 THEN (zone.low + zone.high) \div 2
                    ELSE IF zone.side = "long"
                           THEN zone.high - (width * (i - 1)) \div (layers - 1)
                           ELSE zone.low + (width * (i - 1)) \div (layers - 1)
        want(i) == SizeForRisk(entry(i), stop, risk \div layers)
        orders  == [i \in 1..layers |->
                      [entry |-> entry(i), lot |-> Max({1, want(i)}),
                       risk |-> Max({1, want(i)}) * Distance(entry(i), stop)]]
        total   == SumFunction([i \in 1..layers |-> orders[i].risk])
    IN  IF layers < 1 \/ risk > StackRiskCap THEN {}
        ELSE {[side |-> zone.side, stop |-> stop, orders |-> orders, risk |-> total,
               withinCap |-> total <= StackRiskCap * PerDollar,
               clamped |-> \E i \in 1..layers : want(i) < 1]}

\* zone_plan: the zone around the price and both rails, armed by a near touch.
ZonePlan(zones, price, risk, layers, pad) ==
    LET near == Inside(zones, price) \cup RailBelow(zones, price) \cup RailAbove(zones, price)
        touched(z) == \/ z.low <= price /\ price <= z.high
                      \/ Distance(price, IF z.side = "long" THEN z.high ELSE z.low)
                            <= TouchDistance
    IN  UNION {{[zone |-> z, stack |-> s, target |-> OppositeRail(zones, z),
                 armed |-> touched(z)] : s \in SniperStack(z, risk, layers, pad)} : z \in near}
=============================================================================
