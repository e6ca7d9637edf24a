---------------------------- MODULE UsdJpyRules ----------------------------
(***************************************************************************)
(* The frozen rules of the USD/JPY forward test, usdjpy/engine.py: the     *)
(* z-score signal on a window of daily closes, the half-deviation stop and *)
(* the one-trade-per-stretch rule.  Pure operators.                        *)
(*                                                                         *)
(* Closes are integers.  A z-score is compared by its square, so that the  *)
(* mean and the sample deviation of a window stay whole numbers.           *)
(***************************************************************************)
EXTENDS Integers, Sequences, FiniteSets, Functions

CONSTANTS
    Lookback,       \* closes in the window, 20 in the code
    HoldDays,       \* trading days a trade is held, 3 in the code
    ZSquared        \* the square of the entry threshold, 4 in the code

ASSUME RulesAssumption ==
    Lookback \in Nat \ {0, 1} /\ HoldDays \in Nat \ {0} /\ ZSquared \in Nat \ {0}

Actions == {"BUY", "SELL"}

\* The last Lookback closes.
Window(closes) == [i \in 1 .. Lookback |-> closes[Len(closes) - Lookback + i]]

\* Lookback times the distance of the last close of a window from its mean.
Deviation(w) == Lookback * w[Lookback] - SumFunction(w)

\* Lookback * (Lookback - 1) times the sample variance of a window.
Spread(w) ==
    LET squares == [i \in DOMAIN w |-> w[i] * w[i]]
    IN  Lookback * SumFunction(squares) - SumFunction(w) * SumFunction(w)

\* |z| is at the threshold or over it.
Stretched(w) ==
    /\ Spread(w) # 0
    /\ (Lookback - 1) * Deviation(w) * Deviation(w) >= ZSquared * Lookback * Spread(w)

\* evaluate_close: the signal of the last close of a history.
Signal(closes) ==
    IF Len(closes) >= Lookback /\ Stretched(Window(closes))
      THEN IF Deviation(Window(closes)) < 0 THEN "BUY" ELSE "SELL"
      ELSE "NO TRADE"

\* mutant: the hold window is one day short
IsNewStretchShort(at, priors) == \A p \in priors : ~(p < at /\ at - p < HoldDays)

\* is_new_stretch: no earlier entry's hold window covers the position.
IsNewStretch(at, priors) == \A p \in priors : ~(p < at /\ at - p <= HoldDays)

\* stop_breached for one close: half a deviation or more against the entry.
Breaches(action, entry, spread, close) ==
    LET against == IF action = "BUY" THEN entry - close ELSE close - entry
    IN  against > 0 /\ 4 * Lookback * (Lookback - 1) * against * against >= spread
=============================================================================
