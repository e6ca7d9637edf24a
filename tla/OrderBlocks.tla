---------------------------- MODULE OrderBlocks ----------------------------
(***************************************************************************)
(* The order-block radar (gold/radar.py) and the swing structure it and    *)
(* the entry engines read (gold/entry.py, gold/warthog.py,                 *)
(* gold/level_finder.py).  Pure operators over bars [open, high, low,      *)
(* close], oldest first; prices are integers.                              *)
(***************************************************************************)
EXTENDS Integers, Sequences, FiniteSets, FiniteSetsExt, SequencesExt

CONSTANTS
    Lookahead,      \* bars in which a block must be confirmed
    RetestSlack,    \* tol: how near to a block a retest is
    StopBeyond      \* _STOP_BUFFER

ASSUME BlockAssumption == Lookahead \in Nat \ {0} /\ {RetestSlack, StopBeyond} \subseteq Nat

Gap(p, q)   == IF p < q THEN q - p ELSE p - q
LastOf(S)   == {i \in S : \A j \in S : j <= i}
FirstOf(S)  == {i \in S : \A j \in S : i <= j}
TopOf(bars, S)    == Max({bars[i].high : i \in S})
BottomOf(bars, S) == Min({bars[i].low : i \in S})

\* The bars after k that trade back into a band.
ReturnsTo(bars, k, low, high) ==
    {i \in (k + 1)..Len(bars) : bars[i].low <= high /\ bars[i].high >= low}

-----------------------------------------------------------------------------
(* The radar.                                                               *)

Bodied(b) == b.high > b.low /\ 10 * Gap(b.open, b.close) >= 3 * (b.high - b.low)

\* The first bar within the lookahead that closes through the other end of bar i.
Confirmation(bars, i) ==
    FirstOf({j \in (i + 1)..Min({i + Lookahead, Len(bars)}) :
        IF bars[i].close > bars[i].open THEN bars[j].close < bars[i].low
                                        ELSE bars[j].close > bars[i].high})

\* mutant: a block is fresh until the last bar returns to it
BlockFreshAgain(bars, i, conf) ==
    LET b == bars[i]
        bearish == b.close > b.open
        low  == IF bearish THEN b.open ELSE b.low
        high == IF bearish THEN b.high ELSE b.open
    IN  [type |-> IF bearish THEN "bearish" ELSE "bullish", at |-> i, conf |-> conf,
         low |-> low, high |-> high,
         fresh |-> ReturnsTo(bars, Max({conf, Len(bars) - 1}), low, high) = {}]

\* mutant: the band of a bearish block is copied from the bullish branch
BlockCopied(bars, i, conf) ==
    LET b == bars[i]
    IN  [type |-> IF b.close > b.open THEN "bearish" ELSE "bullish", at |-> i, conf |-> conf,
         low |-> b.low, high |-> b.open, fresh |-> ReturnsTo(bars, conf, b.low, b.open) = {}]

Block(bars, i, conf) ==
    LET b == bars[i]
        bearish == b.close > b.open
        low  == IF bearish THEN b.open ELSE b.low
        high == IF bearish THEN b.high ELSE b.open
    IN  [type |-> IF bearish THEN "bearish" ELSE "bullish", at |-> i, conf |-> conf,
         low |-> low, high |-> high, fresh |-> ReturnsTo(bars, conf, low, high) = {}]

OrderBlockSet(bars) ==
    UNION {{Block(bars, i, j) : j \in Confirmation(bars, i)} :
               i \in {n \in 1..Len(bars) : Bodied(bars[n])}}

Fresh(obs) == {b \in obs : b.fresh}

\* htf_bias: the side of the newest fresh block.
HtfBias(obs) ==
    LET newest == LastOf({b.at : b \in Fresh(obs)})
        type   == (CHOOSE b \in obs : b.at \in newest).type
    IN  IF newest = {} THEN "neutral" ELSE IF type = "bullish" THEN "long" ELSE "short"

\* derive_continuity: the nearest fresh edges beyond the slack, else the book's.
DeriveContinuity(obs, price, book) ==
    LET downs == {b.low : b \in {x \in Fresh(obs) : x.low < price - RetestSlack}}
        ups   == {b.high : b \in {x \in Fresh(obs) : x.high > price + RetestSlack}}
        nearest(S) == {p \in S : Cardinality({q \in S : Gap(q, price) < Gap(p, price)}) < 4}
    IN  [sell |-> IF downs # {} THEN nearest(downs)
                  ELSE {p \in book.sell : p < price - RetestSlack},
         buy  |-> IF ups # {} THEN nearest(ups)
                  ELSE {p \in book.buy : p > price + RetestSlack}]

\* active_retest: the nearest block the price is at, fresh ones if there are any;
\* the older of two as near.
ActiveRetest(price, obs) ==
    LET pool == IF Fresh(obs) # {} THEN Fresh(obs) ELSE obs
        away(b) == IF price < b.low THEN b.low - price
                   ELSE IF price > b.high THEN price - b.high ELSE 0
        near == {b \in pool : away(b) <= RetestSlack}
    IN  {b \in near : \A c \in near : \/ away(b) < away(c)
                                      \/ away(b) = away(c) /\ b.at <= c.at}

\* radar_scan's side: that of the block being retested, else the bias.
RadarBias(bars, price) ==
    LET obs == OrderBlockSet(bars)
        act == ActiveRetest(price, obs)
    IN  IF act = {} THEN HtfBias(obs)
        ELSE IF (CHOOSE b \in act : TRUE).type = "bearish" THEN "short" ELSE "long"

\* breaker_blocks: the block fails at the first bar, of all there are, that closes
\* beyond it - a bar before the block was formed included.
BrokenAt(bars, b) ==
    FirstOf({k \in DOMAIN bars : IF b.type = "bullish" THEN bars[k].close < b.low
                                                       ELSE bars[k].close > b.high})

BreakerBlocks(bars, obs) ==
    UNION {{[from |-> b, brokenAt |-> k,
             fresh |-> ReturnsTo(bars, k, b.low, b.high) = {}] : k \in BrokenAt(bars, b)} :
           b \in obs}

\* narrative_cycle: the phase, from the bias and the half of the box.
NarrativeCycle(bias, boxed, belowMid, swept) ==
    CASE bias = "long" /\ boxed /\ belowMid -> IF swept THEN "manipulation" ELSE "accumulation"
      [] bias = "long" /\ boxed /\ ~belowMid -> "distribution"
      [] bias = "short" /\ boxed /\ ~belowMid -> IF swept THEN "manipulation" ELSE "distribution"
      [] bias = "short" /\ boxed /\ belowMid -> "reaccumulation"
      [] bias \in {"long", "short"} /\ ~boxed -> "expansion"
      [] OTHER -> "rebalance"

\* combine_htf: months outweigh weeks, weeks outweigh days, and both a month.
Lean(bias) == CASE bias = "long" -> 1 [] bias = "short" -> -1 [] OTHER -> 0
CombineHtf(daily, weekly, monthly) ==
    LET score == 3 * Lean(HtfBias(monthly)) + 2 * Lean(HtfBias(weekly)) + Lean(HtfBias(daily))
    IN  IF score > 0 THEN "long" ELSE IF score < 0 THEN "short" ELSE "neutral"

FuseWithWeekly(bias, weekly) ==
    CASE bias = weekly /\ bias # "neutral" -> "high"
      [] bias = "neutral" \/ weekly = "neutral" -> "medium"
      [] OTHER -> "low"

-----------------------------------------------------------------------------
(* Swings and the entries off them.                                         *)

Neighbours(bars, i, k) == ((i - k)..(i + k)) \ {i}
Pivots(bars, k) == (k + 1)..(Len(bars) - k)

SwingHighs(bars, k) ==
    {i \in Pivots(bars, k) : \A j \in Neighbours(bars, i, k) : bars[j].high < bars[i].high}
SwingLows(bars, k) ==
    {i \in Pivots(bars, k) : \A j \in Neighbours(bars, i, k) : bars[j].low > bars[i].low}

\* swing_points of the level finder: a tie with an earlier bar is allowed.
FractalHighs(bars, k) ==
    {i \in Pivots(bars, k) : \A j \in Neighbours(bars, i, k) :
        bars[j].high < bars[i].high \/ (j < i /\ bars[j].high = bars[i].high)}
FractalLows(bars, k) ==
    {i \in Pivots(bars, k) : \A j \in Neighbours(bars, i, k) :
        bars[j].low > bars[i].low \/ (j < i /\ bars[j].low = bars[i].low)}

\* break_of_structure: a close through the newest swing, and the impulse's leg, from
\* the swing before it on the other side (or five bars back).
BreakOfStructure(bars, k) ==
    LET n == Len(bars)
        highs == SwingHighs(bars, k)  lows == SwingLows(bars, k)
        origin(s, others) == LET before == {i \in others : i < s}
                             IN  IF before = {} THEN Max({1, s - 5}) ELSE Max(before)
        up   == \E s \in LastOf(highs) : bars[n].close > bars[s].high
        down == \E s \in LastOf(lows) : bars[n].close < bars[s].low
    IN  CASE up -> LET s == Max(highs)  o == origin(s, lows)
                   IN  {[side |-> "long", low |-> BottomOf(bars, o..s),
                         high |-> TopOf(bars, o..n)]}
          [] ~up /\ down -> LET s == Max(lows)  o == origin(s, highs)
                            IN  {[side |-> "short", high |-> TopOf(bars, o..s),
                                  low |-> BottomOf(bars, o..n)]}
          [] OTHER -> {}

\* order_block of the entry engine: the last candle of the other colour.
LastOpposing(bars, side) ==
    {bars[i] : i \in LastOf({j \in DOMAIN bars :
        IF side = "long" THEN bars[j].close < bars[j].open ELSE bars[j].close > bars[j].open})}

\* fair_value_gap: the newest three bars whose first and last do not meet.
FairValueGap(bars, side) ==
    {IF side = "long" THEN [low |-> bars[i - 1].high, high |-> bars[i + 1].low]
                      ELSE [low |-> bars[i + 1].high, high |-> bars[i - 1].low] :
        i \in LastOf({j \in 3..(Len(bars) - 1) :
            IF side = "long" THEN bars[j - 1].high < bars[j + 1].low
                             ELSE bars[j - 1].low > bars[j + 1].high})}

\* refined_entry and warthog share this stop: beyond the leg and the opposing
\* candle; the entry is the 70.5% retracement, in thousandths.
StructureStop(bars, leg, side, pad) ==
    IF side = "long"
      THEN Min({leg.low} \cup {b.low : b \in LastOpposing(bars, side)}) - pad
      ELSE Max({leg.high} \cup {b.high : b \in LastOpposing(bars, side)}) + pad

Retraced(leg, side) == IF side = "long" THEN 1000 * leg.high - 705 * (leg.high - leg.low)
                                        ELSE 1000 * leg.low + 705 * (leg.high - leg.low)

RefinedEntry(bars, side, k) ==
    {[side |-> side, entry |-> Retraced(leg, side),
      stop |-> 1000 * StructureStop(bars, leg, side, 0)] :
        leg \in {l \in BreakOfStructure(bars, k) : l.side = side}}

\* _impulse_leg: down when the first lowest low comes after the first highest high.
ImpulseLeg(bars) ==
    LET high == TopOf(bars, DOMAIN bars)  low == BottomOf(bars, DOMAIN bars)
        hh == Min({i \in DOMAIN bars : bars[i].high = high})
        ll == Min({i \in DOMAIN bars : bars[i].low = low})
    IN  [low |-> low, high |-> high,
         side |-> IF ll > hh THEN "short" ELSE IF hh > ll THEN "long" ELSE "none"]

\* warthog's detect_sweep: each swing's first later bar through it; the latest such
\* bar wins, the lows and the newer swing on a tie.
DetectHtfSweep(bars, k) ==
    LET taken(i, j, high) == /\ j > i
                             /\ IF high THEN bars[j].high > bars[i].high
                                        ELSE bars[j].low < bars[i].low
        swings(high) == IF high THEN SwingHighs(bars, k) ELSE SwingLows(bars, k)
        first(i, h) == {[high |-> h, at |-> i, by |-> j] :
                           j \in FirstOf({x \in DOMAIN bars : taken(i, x, h)})}
        cands == UNION {UNION {first(i, h) : i \in swings(h)} : h \in BOOLEAN}
        later(c, d) == \/ c.by > d.by
                       \/ c.by = d.by /\ ~c.high /\ d.high
                       \/ c.by = d.by /\ c.high = d.high /\ c.at >= d.at
    IN  {[high |-> c.high, at |-> c.at, by |-> c.by,
          reclaim |-> IF c.high THEN bars[Len(bars)].close < bars[c.at].high
                                ELSE bars[Len(bars)].close > bars[c.at].low] :
            c \in {x \in cands : \A d \in cands : later(x, d)}}

\* _liquidity_targets: the nearest swings beyond the entry, two of them.
LiquidityTargets(bars, side, ref, k) ==
    LET pools == IF side = "short" THEN {bars[i].low : i \in SwingLows(bars, k)}
                                   ELSE {bars[i].high : i \in SwingHighs(bars, k)}
        ahead == {p \in pools : IF side = "short" THEN 1000 * p < ref ELSE 1000 * p > ref}
    IN  {p \in ahead : Cardinality({q \in ahead :
            IF side = "short" THEN q > p ELSE q < p}) < 2}

\* warthog: the plan of the impulse, or of the side that is forced on it; targets
\* at 2, 3 and 5 times the risk, loaded once 60% of the leg is given back.
Warthog(bars, forced, k) ==
    LET leg == ImpulseLeg(bars)
        side == IF forced = {} THEN leg.side ELSE CHOOSE s \in forced : TRUE
        last == bars[Len(bars)].close
        back == IF side = "short" THEN last - leg.low ELSE leg.high - last
        entry == Retraced(leg, side)
        stop == 1000 * StructureStop(bars, leg, side, StopBeyond)
    IN  IF side = "none" \/ leg.high <= leg.low THEN {}
        ELSE {[side |-> side, entry |-> entry, stop |-> stop,
               targets |-> {entry + r * (entry - stop) : r \in {2, 3, 5}},
               catapult |-> 10 * back >= 6 * (leg.high - leg.low),
               liquidity |-> LiquidityTargets(bars, side, entry, k),
               sweep |-> DetectHtfSweep(bars, k)]}
=============================================================================
