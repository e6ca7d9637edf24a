----------------------------- MODULE OrderPlans -----------------------------
(***************************************************************************)
(* How services/trade_executor.py turns a card into orders: one order, the *)
(* front-loaded ladder over the trend targets, the 250/500 partials with a *)
(* runner, and the fleet's copies; and the trade-type tiers that give a    *)
(* card its stop and its kind (gold/trade_types.py).                       *)
(*                                                                         *)
(* A card is [side, entry, stop, lot, targets, allow, kind, trend,         *)
(* partial]; a leg [role, lot, sl, tp, trails, account], its tp a set with *)
(* at most one element.  Lots are in steps of 0.01.  Pure operators.       *)
(***************************************************************************)
EXTENDS GoldSizing

CONSTANTS
    Partials,       \* DEFAULT_EXIT_PARTIALS: the distances
    Fractions       \* and the hundredths of the lot banked there

ASSUME PartialsAssumption ==
    /\ Partials \in Seq(Nat \ {0}) /\ Fractions \in Seq(Nat \ {0})
    /\ Len(Partials) = Len(Fractions) /\ Partials # <<>>

-----------------------------------------------------------------------------
(* Splitting a lot.                                                         *)

\* plan_scale_out: weights n, n - 1, ..., 1 over the nearest targets the lot affords,
\* the remainder to the front legs.
PlanScaleOut(total, tps) ==
    LET n       == Min({Len(tps), total})
        prop(i) == ((total - n) * (n - i + 1)) \div ((n * (n + 1)) \div 2)
        left    == total - n - SumFunction([i \in 1..n |-> prop(i)])
    IN  [i \in 1..n |-> [lot |-> 1 + prop(i) + (IF i <= left THEN 1 ELSE 0), tp |-> tps[i]]]

\* mutant: what the fractions leave over is dropped
LotFractionsFloored(total) ==
    LET weights == Append(Fractions, Max({0, 100 - SumFunction(Fractions)}))
        n       == Min({Len(weights), total})
        cut     == SubSeq(weights, 1, n)
    IN  [i \in 1..n |-> 1 + ((total - n) * cut[i]) \div Max({1, SumFunction(cut)})]

\* _lot_fractions: the fractions and the runner's rest, cut to the legs the lot affords,
\* the remainder from the runner backwards.
LotFractions(total) ==
    LET weights == Append(Fractions, Max({0, 100 - SumFunction(Fractions)}))
        n       == Min({Len(weights), total})
        cut     == SubSeq(weights, 1, n)
        prop(i) == ((total - n) * cut[i]) \div Max({1, SumFunction(cut)})
        left    == total - n - SumFunction([i \in 1..n |-> prop(i)])
    IN  [i \in 1..n |-> 1 + prop(i) + (IF n - i < left THEN 1 ELSE 0)]

\* _snap_to_hvn: the nearest node on the winning side, if within 40% of the distance.
SnapToHvn(entry, dist, side, hvn) ==
    LET raw   == entry + Sign(side) * dist
        cands == {h \in hvn : Sign(side) * (h - entry) > 0}
        near  == {h \in cands : \A k \in cands : Distance(h, raw) <= Distance(k, raw)}
        best  == CHOOSE h \in near : TRUE
    IN  IF cands # {} /\ 5 * Distance(best, raw) <= 2 * dist THEN best ELSE raw

-----------------------------------------------------------------------------
(* Orders of a card.                                                        *)

LegOf(card, role, lot, tp) ==
    [role |-> role, lot |-> lot, sl |-> card.stop, tp |-> tp, trails |-> role = <<"runner">>,
     account |-> "none"]

Tradeable(card) == card.side \in {"long", "short"} /\ card.allow

FirstTp(card) == {card.targets[i] : i \in DOMAIN card.targets \cap {1}}

\* build_order: one order at the first target.
BuildOrder(card) ==
    IF Tradeable(card) THEN <<LegOf(card, <<"single">>, card.lot, FirstTp(card))>> ELSE <<>>

\* _build_ladder_orders: over the trend targets, when two of them can be afforded.
BuildLadderOrders(card) ==
    LET legs == PlanScaleOut(card.lot, card.trend)
    IN  IF Tradeable(card) /\ Len(card.trend) >= 2 /\ Len(legs) >= 2
          THEN [i \in DOMAIN legs |-> LegOf(card, <<"ladder">>, legs[i].lot, {legs[i].tp})]
          ELSE BuildOrder(card)

\* The deepest target, or the deepest node beyond it.
Furthest(side, prices) == IF side = "long" THEN Max(prices) ELSE Min(prices)
FinalTp(card, hvn) ==
    LET last   == Furthest(card.side, ToSet(card.targets))
        beyond == {h \in hvn : Sign(card.side) * (h - last) >= 0}
    IN  IF beyond = {} THEN last ELSE Furthest(card.side, beyond)

\* plan_partial_exit: the partials that can be afforded and a runner that trails.
PlanPartialExit(card, hvn) ==
    LET lots == LotFractions(card.lot)
        n    == Len(lots)
        tp(i) == SnapToHvn(card.entry, Partials[i], card.side, hvn)
    IN  IF ~Tradeable(card) THEN <<>>
        ELSE IF card.targets = <<>> \/ n < 2 THEN BuildLadderOrders(card)
        ELSE [i \in 1..n |-> IF i < n THEN LegOf(card, <<"p", i>>, lots[i], {tp(i)})
                                      ELSE LegOf(card, <<"runner">>, lots[i], {FinalTp(card, hvn)})]

\* build_orders, the preview.
BuildOrders(card) ==
    LET legs == PlanPartialExit(card, {})
    IN  IF card.partial /\ Len(legs) >= 2 THEN legs ELSE BuildLadderOrders(card)

\* build_fleet_orders: a copy for each account.
BuildFleetOrders(card, accounts) ==
    LET fan == CopyFanout(card.entry, card.stop, accounts)
    IN  IF ~Tradeable(card) THEN <<>>
        ELSE [i \in DOMAIN fan |->
                [LegOf(card, <<"single">>, fan[i].lot, FirstTp(card)) EXCEPT !.account = fan[i].account]]

\* maybe_enqueue: what is queued for a card once the risk gate has approved it.
LiveOrders(card, hvn, fleet, accounts) ==
    LET legs == PlanPartialExit(card, hvn)
    IN  IF fleet THEN BuildFleetOrders(card, accounts)
        ELSE IF card.partial /\ Len(legs) >= 2 THEN legs
        ELSE BuildOrder(card)

-----------------------------------------------------------------------------
(* Trade-type tiers.                                                        *)

\* TIERS: the reward multiples and the range whose extreme is the stop.
TierOf(type) ==
    CASE type = "swing"        -> [type |-> type, rr |-> <<5, 6, 7, 8>>, range |-> "weekly"]
      [] type = "intraday"     -> [type |-> type, rr |-> <<2, 3>>, range |-> "day"]
      [] type = "intrasession" -> [type |-> type, rr |-> <<3, 4, 5>>, range |-> "session"]

\* classify_tier: reversals swing, continuations trade New York and Asia only.
ClassifyTier(profile, quarter) ==
    LET reversal == profile.id \in {1, 2, 5, 6, 11, 12}
        trends   == profile.id \in {3, 4, 7, 8}
    IN  CASE profile.bias \notin {"long", "short"} -> {}
          [] profile.bias \in {"long", "short"} /\ reversal -> {TierOf("swing")}
          [] profile.bias \in {"long", "short"} /\ trends /\ quarter = 3 -> {TierOf("intraday")}
          [] profile.bias \in {"long", "short"} /\ trends /\ quarter = 1 -> {TierOf("intrasession")}
          [] OTHER -> {}

\* tier_stop: beyond the extreme of the tier's range.
TierStop(range, bias, buffer) ==
    IF range.high <= range.low THEN {}
    ELSE {IF bias = "long" THEN range.low - buffer ELSE range.high + buffer}

\* seek_destroy_plan: fades three ranges outside a range, on the side of the higher
\* time frame, on both when it has none.
SeekDestroyPlan(range, htf, sd, buffer) ==
    LET width == range.high - range.low
        mid   == (range.high + range.low) \div 2
        fade(side) ==
            LET entry == IF side = "long" THEN range.low - sd * width ELSE range.high + sd * width
            IN  [side |-> side, entry |-> entry,
                 stop |-> entry - Sign(side) * (width \div 2 + buffer),
                 targets |-> IF side = "long" THEN <<range.low, mid, range.high>>
                                              ELSE <<range.high, mid, range.low>>]
    IN  IF width <= 0 THEN {}
        ELSE {fade(side) : side \in IF htf \in {"long", "short"} THEN {htf} ELSE {"long", "short"}}

\* session_breakout_plan: a confirmed breakout that does not oppose the week.
SessionBreakoutPlan(orr, confirmed, bias, session) ==
    IF orr.side = "none" \/ ~confirmed
         \/ (bias \in {"long", "short"} /\ orr.side # bias) THEN {}
    ELSE {[side |-> orr.side, entry |-> orr.entry, stop |-> orr.stop,
           type |-> CASE session \in {"asia", "tokyo"} -> "intrasession"
                      [] session = "composite" -> "swing"
                      [] OTHER -> "intraday"]}

-----------------------------------------------------------------------------
(* reconcile.                                                               *)

\* Filled orders whose source and side no open position has, orders that hang.
OrphanFills(orders, positions) ==
    LET keys == {<<p.source, p.side>> : p \in {q \in positions : q.status = "OPEN"}}
    IN  {o \in orders : o.status = "filled" /\ <<o.source, o.side>> \notin keys}
Stuck(orders, minutes) ==
    {o \in orders : o.status \in {"pending", "sent"} /\ o.age > minutes}
InSync(orders, positions, minutes) ==
    OrphanFills(orders, positions) = {} /\ Stuck(orders, minutes) = {}
=============================================================================
