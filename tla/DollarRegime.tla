---------------------------- MODULE DollarRegime ----------------------------
(***************************************************************************)
(* What the dollar says about gold: the drawn map of the dollar index and  *)
(* the lock on gold longs (gold/dxy.py), the option walls                  *)
(* (gold/options_flow.py), the macro regime and its gate                   *)
(* (gold/macro_cycle.py, gold/macro.py, gold/purchases_audit.py,           *)
(* gold/location.py) and the board that fuses them (gold/recon.py).  Pure  *)
(* operators.                                                              *)
(*                                                                         *)
(* A dollar level is in thousandths of a point.  A reading that may be     *)
(* missing is a set with at most one element.                              *)
(***************************************************************************)
EXTENDS Integers, Sequences, FiniteSets, FiniteSetsExt

OppositeSide(side) == IF side = "long" THEN "short" ELSE "long"

-----------------------------------------------------------------------------
(* gold/dxy.py.                                                             *)

Pivot        == 102500
SellBand     == 105172
CycleTop     == 114539
DemandShelf  == 92987
LastDiscount == [low |-> 93308, high |-> 96265]
DollarCeiling == [low |-> 104589, high |-> 107103]
ExtremeMin   == 110000

\* dollar_regime: without a level, the anticipated decline.
DollarPhase(level) ==
    CASE \E p \in level : p >= CycleTop     -> "cycle_high"
      [] \E p \in level : p \in SellBand..(CycleTop - 1) -> "bounce"
      [] \E p \in level : p \in Pivot..(SellBand - 1)    -> "pivot"
      [] \E p \in level : p <= DemandShelf  -> "demand_shelf"
      [] OTHER -> "primary_decline"

DollarTrend(level) ==
    LET phase == DollarPhase(level)
    IN  CASE phase = "cycle_high" -> "bms"
          [] phase \in {"bounce", "pivot"} -> "range"
          [] OTHER -> "sms"

\* gold_from_dollar: the inverse, and a bouncing dollar is a dip to buy.
GoldFromDollar(level) == IF DollarTrend(level) = "bms" THEN "short" ELSE "long"

DollarConfluence(side, level) ==
    IF GoldFromDollar(level) = side THEN "confirms" ELSE "diverges"

\* gold_structure_trigger.
StructureTrigger(level) ==
    LET read(name, side, strength) == [name |-> name, side |-> side, strength |-> strength]
    IN  CASE \E p \in level : p <= LastDiscount.high ->
                read("gold_last_discount", "long", "max")
          [] \E p \in level : p \in DollarCeiling.low..DollarCeiling.high ->
                read("gold_ceiling", "short", "cap")
          [] \E p \in level : p > DollarCeiling.high ->
                read("dollar_premium", "short", "structural")
          [] OTHER -> read("none", "long", IF level = {} THEN "structural" ELSE "neutral")

\* mutant: the ceiling of gold is taken for the top of the dollar
AtExtremeOfCeiling(level) == \E p \in level : p >= DollarCeiling.low

AtExtreme(level) == \E p \in level : p >= ExtremeMin

\* dxy_flip_status: the operator's override, else at the extreme and falling now.
Unlocked(level, heading, override) ==
    IF override # {} THEN TRUE \in override
    ELSE AtExtreme(level) /\ heading = {"falling"}

\* RBUSBIS against the mean of its earlier values (fred_service).
Heading(values) ==
    LET prior == MapThenSumSet(LAMBDA i : values[i], 1..(Len(values) - 1))
        diff  == (Len(values) - 1) * values[Len(values)] - prior
    IN  IF Len(values) < 2 \/ diff = 0 THEN "flat"
        ELSE IF diff > 0 THEN "rising" ELSE "falling"

-----------------------------------------------------------------------------
(* gold/macro.py and gold/purchases_audit.py; gold is in dollars.           *)

MacroBias == "long"
AccumulationZone == 3900..4200
MacroInvalidation == 3900

\* macro_confluence.
MacroConfluence(side, price) ==
    [status |-> IF side = MacroBias THEN "confirms" ELSE "diverges",
     inAccumulation |-> price \in AccumulationZone,
     invalidated |-> price < MacroInvalidation]

\* positioning_state, of the speculators' net contracts.
PositioningZone(net) ==
    CASE net < 0 -> "net_short"
      [] net \in 0..149999 -> "moderate"
      [] net \in 150000..200000 -> "neutral"
      [] OTHER -> "stretched"

\* liquidity_state: more than a fifth below the peak of the open interest.
LiquidityState(interest, peak) == IF 10 * interest < 8 * peak THEN "impaired" ELSE "normal"

-----------------------------------------------------------------------------
(* gold/macro_cycle.py.  The inputs are [bias, heading, rates, net]: the    *)
(* live dollar reading, missing until a refresh, the real rate, the COT.    *)

\* dollar_gold_bias: the live reading, else the anticipated structure.
DollarGoldBias(inputs) ==
    IF inputs.bias = {} THEN GoldFromDollar({}) ELSE CHOOSE b \in inputs.bias : TRUE

LiveConfluence(side, inputs) ==
    LET gold == DollarGoldBias(inputs)
    IN  CASE gold = side -> "confirms" [] gold = "neutral" -> "neutral" [] OTHER -> "diverges"

\* _htf: the dollar, the real rate, the central banks and the Fed.
HtfVotes(inputs) ==
    <<DollarGoldBias(inputs), IF inputs.rates = "rising" THEN "short" ELSE "long", "long", "neutral">>

\* _ltf: the positioning, the ETFs and the funding.
LtfVotes(inputs) ==
    LET zone == PositioningZone(inputs.net)
    IN  <<CASE zone = "stretched" -> "short" [] zone = "net_short" -> "long" [] OTHER -> "neutral",
          "neutral", "long">>

\* regime_read.
RegimeScore(inputs) ==
    LET votes == HtfVotes(inputs) \o LtfVotes(inputs)
        count(side) == Cardinality({i \in DOMAIN votes : votes[i] = side})
    IN  count("long") - count("short")

RegimeBias(inputs) ==
    LET score == RegimeScore(inputs)
    IN  IF score >= 2 THEN "long" ELSE IF score <= -2 THEN "short" ELSE "neutral"

\* regime_gate; "level" is the dollar's, when the caller gives one.
RegimeGate(side, level, inputs, override, strict) ==
    LET dollar   == IF inputs.bias # {} THEN LiveConfluence(side, inputs)
                                        ELSE DollarConfluence(side, level)
        zone     == PositioningZone(inputs.net)
        trigger  == StructureTrigger(level)
        unlocked == Unlocked(level, inputs.heading, override)
        flipped  == strict /\ side = "long" /\ unlocked
        opposed  == \/ strict /\ side = "long" /\ ~unlocked
                    \/ ~strict /\ dollar = "diverges"
                    \/ side = "long" /\ zone = "stretched"
                    \/ side = "short" /\ zone = "net_short"
                    \/ trigger.name # "none" /\ trigger.side # side /\ ~flipped
        confirmed == \/ dollar = "confirms" \/ flipped
                     \/ trigger.side = side /\ trigger.strength \in {"max", "cap"}
    IN  IF opposed THEN "diverges" ELSE IF confirmed THEN "confirms" ELSE "neutral"

-----------------------------------------------------------------------------
(* gold/location.py: the cheap part of the range for a long, the dear part  *)
(* for a short; "deep" is in percent.                                       *)

InDiscount(price, high, low, deep) == 100 * (price - low) <= deep * (high - low)

LocationGate(side, price, high, low, deep) ==
    \/ high <= low
    \/ side = "long" /\ InDiscount(price, high, low, deep)
    \/ side = "short" /\ 100 * (high - price) <= deep * (high - low)

-----------------------------------------------------------------------------
(* gold/regime_checklist.py: what the standing regime would break on.  Each *)
(* condition is a set: empty if nothing was read, else whether it holds.    *)

Conditions(bias, unlocked, rates, zone, liquidity, htf, price, invalidation) ==
    LET long == bias = "long"
    IN  [flip      |-> {long => u : u \in unlocked},
         rates     |-> {~(long /\ r = "rising") : r \in rates},
         cot       |-> {z # "stretched" : z \in zone},
         liquidity |-> {l # "impaired" : l \in liquidity},
         structure |-> IF bias = "neutral" THEN {} ELSE {h = bias : h \in htf},
         keyLevel  |-> {IF long THEN p > i ELSE p < i : p \in price, i \in invalidation}]

\* build_checklist's verdict.
ChecklistVerdict(conditions) ==
    LET broken == {c \in DOMAIN conditions : FALSE \in conditions[c]}
        read   == {c \in DOMAIN conditions : conditions[c] # {}}
    IN  CASE Cardinality(broken) >= 3 -> "RED"
          [] Cardinality(broken) \in 1..2 -> "AMBER"
          [] broken = {} /\ read # {} -> "GREEN"
          [] OTHER -> "INCONCLUSIVE"
=============================================================================
