----------------------------- MODULE BiasBoard -----------------------------
(***************************************************************************)
(* The VAULTUM gold-bias board: the free macro feeds                       *)
(* (services/free_macro_feeds.py) with their fallback, the scores that     *)
(* routes/vaultum.py gathers from them, and the blend of                   *)
(* gold/vaultum_scores.py.                                                 *)
(*                                                                         *)
(* Pure operators.  A score is [value, confidence]: the value in tenths of *)
(* a point, 500 for neutral, the confidence in hundredths.  A feed that    *)
(* may be down is a set with at most one element.  The feeds are [inputs,  *)
(* interest, peak, hmm, vol, venom, vix, spx, lead, fear, jpy, geo, rates, *)
(* location, poc]; the changes "spx" and "jpy" are in tenths of a percent, *)
(* "lead" in hundredths, the policy rates in hundredths of a point.        *)
(***************************************************************************)
EXTENDS DollarRegime, SequencesExt

Nearest(n, d) == (2 * n + d) \div (2 * d)     \* n / d rounded
Bounded(low, x, high) == IF x < low THEN low ELSE IF x > high THEN high ELSE x

\* _envelope and _neutral.
Envelope(value, confidence) ==
    [value |-> Bounded(0, value, 1000), confidence |-> Bounded(0, confidence, 100)]
Neutral == Envelope(500, 10)

\* A score of a feed that may be down.
Scored(reading, value, confidence) == IF reading = {} THEN Neutral ELSE Envelope(value, confidence)
Read(reading) == CHOOSE x \in reading : TRUE

-----------------------------------------------------------------------------
(* The feeds.                                                               *)

\* cb_divergence: the Fed against the mean of its peers.
CbDivergence(rates) ==
    LET peers == DOMAIN rates \ {"FED"}
        total == FoldFunctionOnSet(+, 0, rates, peers)
    IN  rates["FED"] - (IF peers = {} THEN 0 ELSE Nearest(total, Cardinality(peers)))

\* The risk state of free_macro: risk is off when any feed says so, on when the equities
\* rise and no feed that answers disagrees.
RiskState(f) ==
    LET off == \/ \E x \in f.spx : x <= -8
               \/ \E x \in f.vix : x >= 22
               \/ \E x \in f.lead : x < -100
               \/ \E x \in f.fear : x < 40
        on  == /\ \E x \in f.spx : x >= 6
               /\ \A x \in f.vix : x < 18
               /\ \A x \in f.fear : x > 55
    IN  IF f.spx \cup f.vix \cup f.lead \cup f.fear = {} THEN {}
        ELSE {IF off THEN "off" ELSE IF on THEN "on" ELSE "neutral"}

\* The fallback of _gather_scores: setdefault fills a key that is absent, and a feed that
\* came back empty is a key with None, so the paid feeds replace nothing.
WithFallback(free, paid) == free @@ paid

-----------------------------------------------------------------------------
(* The scores.                                                              *)

DollarStrength(regime) ==
    Envelope(CASE regime = "strong" -> 250 [] regime = "weak" -> 750 [] OTHER -> 500, 55)

RiskAppetite(state, spx) ==
    LET base == CASE state = {"off"} -> 620 [] state = {"on"} -> 420 [] OTHER -> 500
        nudge == IF spx = {} THEN 0 ELSE Bounded(-120, -2 * Read(spx), 120)
    IN  IF state = {} /\ spx = {} THEN Neutral
        ELSE Envelope(base + nudge, IF state = {} THEN 45 ELSE 65)

LiquidityScore(direction) ==
    Scored(direction, IF direction = {"expanding"} THEN 650 ELSE 350, 50)

InflationPressure(realRates) ==
    Scored(realRates, IF realRates = {"falling"} THEN 680 ELSE 320, 75)

\* A violent dollar competes with gold for the haven.
MarketStress(vix, strongDollar) ==
    IF vix = {} THEN Neutral
    ELSE LET v == Read(vix)
         IN  Envelope(450 + 16 * Bounded(0, v - 12, 1000)
                          - (IF strongDollar /\ v >= 25 THEN 80 ELSE 0), 60)

VolRegime(regime) == Scored(regime, 500, 50)

MacroCycle(bias, conviction) ==
    Envelope(CASE bias = "long" -> 680 [] bias = "short" -> 320 [] OTHER -> 500,
             CASE conviction = "high" -> 85 [] conviction = "medium" -> 60 [] OTHER -> 40)

VenomPhaseScore(conviction) ==
    Envelope(500, CASE conviction = "high" -> 80 [] conviction = "medium" -> 60 [] OTHER -> 40)

JpyLiquidity(roc) == IF roc = {} THEN Neutral ELSE Envelope(500 - 5 * Read(roc), 60)

Geopolitical(risk) ==
    IF risk = {} THEN Neutral ELSE Envelope(500 + 4 * (Bounded(0, Read(risk), 100) - 50), 50)

CbDivergenceScore(d) == Envelope(Nearest(50000 - 65 * d, 100), 55)

VolumeLocation(location, poc) ==
    CASE location = "none"                       -> Neutral
      [] location = "above" /\ poc = "above"     -> Envelope(660, 55)
      [] location = "below" /\ poc = "below"     -> Envelope(340, 55)
      [] OTHER                                   -> Envelope(500, 35)

\* The HMM's regime folded into the macro cycle's score.
WithHmm(env, hmm) ==
    IF hmm = {} THEN env
    ELSE LET v == CASE hmm = {"long"} -> 680 [] hmm = {"short"} -> 320 [] OTHER -> 500
             agree == (v - 500) * (env.value - 500) >= 0
         IN  [value |-> Nearest(6 * env.value + 4 * v, 10),
              confidence |-> Bounded(0, Nearest(env.confidence * (IF agree THEN 115 ELSE 90), 100), 100)]

\* _gather_scores.  The dollar's regime is asked without a price, and a real rate that is
\* not rising counts as falling.
GatherScores(free, paid) ==
    LET f      == WithFallback(free, paid)
        score  == RegimeScore(f.inputs)
        size   == IF score < 0 THEN -score ELSE score
        dollar == DollarStrength(CASE DollarTrend({}) = "sms" -> "weak"
                                   [] DollarTrend({}) = "bms" -> "strong" [] OTHER -> "neutral")
    IN  [dollar_strength    |-> dollar,
         macro_cycle        |-> WithHmm(MacroCycle(RegimeBias(f.inputs),
                                    IF size >= 3 THEN "high" ELSE IF size = 2 THEN "medium" ELSE "low"), f.hmm),
         liquidity          |-> LiquidityScore({IF LiquidityState(f.interest, f.peak) = "impaired"
                                                  THEN "contracting" ELSE "expanding"}),
         inflation_pressure |-> InflationPressure({IF f.inputs.rates = "rising" THEN "rising" ELSE "falling"}),
         vol_regime         |-> VolRegime(f.vol),
         venom_phase        |-> VenomPhaseScore(f.venom),
         market_stress      |-> MarketStress(f.vix, dollar.value < 400),
         risk_appetite      |-> RiskAppetite(RiskState(free), f.spx),
         jpy_liquidity      |-> JpyLiquidity(f.jpy),
         geopolitical       |-> Geopolitical(f.geo),
         cb_divergence      |-> CbDivergenceScore(CbDivergence(f.rates)),
         volume_location    |-> VolumeLocation(f.location, f.poc)]

-----------------------------------------------------------------------------
(* The blend.                                                               *)

\* _DIRECTIONAL, in hundredths.
Directional == [dollar_strength |-> 20, macro_cycle |-> 18, inflation_pressure |-> 15,
                cb_divergence |-> 10, market_stress |-> 9, volume_location |-> 8,
                geopolitical |-> 7, jpy_liquidity |-> 5, risk_appetite |-> 5, liquidity |-> 3]
ConvictionOnly == {"vol_regime", "venom_phase"}

\* gold_bias_board: the direction is the mean weighted by the confidences, the conviction
\* the scores' distance from neutral, damped by the overlays.
GoldBiasBoard(scores) ==
    LET keys   == DOMAIN Directional
        weight == [k \in keys |-> Directional[k] * scores[k].confidence]
        far(v) == IF v < 500 THEN 500 - v ELSE v - 500
        num    == MapThenSumSet(LAMBDA k : scores[k].value * weight[k], keys)
        den    == MapThenSumSet(LAMBDA k : weight[k], keys)
        spread == MapThenSumSet(LAMBDA k : far(scores[k].value), keys)
        overlay == MapThenSumSet(LAMBDA k : scores[k].confidence, ConvictionOnly)
        n == Cardinality(keys)
        m == Cardinality(ConvictionOnly)
    IN  [direction |-> CASE num >= 560 * den -> "long"
                         [] num <= 440 * den -> "short"
                         [] OTHER -> "neutral",
         conviction |-> Bounded(0, Nearest(2 * spread * (600 * m + 4 * overlay), 10000 * n * m), 100)]
=============================================================================
