--------------------------- MODULE PositionRules ---------------------------
(***************************************************************************)
(* The decision core of a tracked gold position: gold/position.py, with    *)
(* the exposure cap of gold/exposure.py, the capture floor of gold/big5.py *)
(* and the box levels of cbdr/engine.py it uses.  Pure operators.          *)
(*                                                                         *)
(* Prices are integers; time is in hours, hour 0 a Monday 00:00 UTC.       *)
(***************************************************************************)
EXTENDS Integers, Sequences, FiniteSets, FiniteSetsExt

CONSTANTS
    MaxPositions,   \* DEFAULT_MAX_POSITIONS
    RiskCap,        \* DEFAULT_RISK_CAP_USD
    MinCapture      \* MIN_CAPTURE_PIPS, as a price distance

ASSUME CapsAssumption == MaxPositions \in Nat \ {0} /\ RiskCap \in Nat
ASSUME CaptureAssumption == MinCapture \in Nat

HoldTypes    == {"swing", "sniper", "prelondon", "crt"}
ScalpBeTiers == {"sd_fade"}
TradeTypes   == HoldTypes \cup ScalpBeTiers \cup {"intraday", "intrasession"}

\* What a signal card or a limit card carries; "end" is the session end hour.
Card == [born : {"market", "limit"}, side : {"long", "short"}, type : TradeTypes,
         entry : Int, stop : Int, targets : Seq(Int), risk : Nat, end : Nat]

\* A row of gold_positions; "until" is expires_at while PENDING, then deadline.
Row == [card : Card, status : {"PENDING", "OPEN", "CLOSED", "CANCELLED"},
        opened : Nat, until : Nat, be : BOOLEAN, tp : Nat, stop : Int,
        exit : Int, reason : {"", "TP", "SL", "BE", "TIME", "PRELONDON"}]

-----------------------------------------------------------------------------
(* Horizons.                                                                *)

\* The first time after t that is h hours into a period of that many hours.
NextAt(period, h, t) ==
    LET today == t - (t % period) + h
    IN  IF today > t THEN today ELSE today + period

SwingDeadline(t)        == NextAt(168, 22, t)
IntradayDeadline(t)     == NextAt(24, 21, t)
SessionDeadline(t, end) == NextAt(24, end, t)

DeadlineFor(type, t, end) ==
    CASE type = "swing"                   -> SwingDeadline(t)
      [] type = "intrasession" /\ end # 0 -> SessionDeadline(t, end)
      [] OTHER                            -> IntradayDeadline(t)

\* The expiry of an armed limit: Friday 21:00 for a Seek & Destroy fade, else
\* the New York close.
LimitExpiry(type, t) ==
    IF type = "sd_fade" THEN NextAt(168, 4 * 24 + 21, t) ELSE NextAt(24, 21, t)

-----------------------------------------------------------------------------
(* Prices as seen from one side of the market.                              *)

Gain(side, from, to) == IF side = "long" THEN to - from ELSE from - to

Risk(card) == Gain(card.side, card.stop, card.entry)

\* evaluate_pending's touch: the price is at the limit or through it.
Touched(card, price) == Gain(card.side, price, card.entry) >= 0

\* The number of the last target the price has reached, 0 if none.
TpHit(card, price) ==
    LET reached == {i \in DOMAIN card.targets :
                        Gain(card.side, card.targets[i], price) >= 0}
    IN  IF reached = {} THEN 0 ELSE Max(reached)

\* mutant: the trail is worked out from the price of the pass alone
TrailsNow(row, price) ==
    \/ TpHit(row.card, price) >= 1
    \/ /\ row.card.type \in ScalpBeTiers
       /\ Gain(row.card.side, row.card.entry, price) >= Risk(row.card)

\* The stop trails to the entry after a target, for a scalp after +1R, and stays.
Trails(row, price) ==
    \/ row.be
    \/ TpHit(row.card, price) >= 1
    \/ /\ row.card.type \in ScalpBeTiers
       /\ Gain(row.card.side, row.card.entry, price) >= Risk(row.card)

-----------------------------------------------------------------------------
(* What happens to a row.                                                   *)

\* mutant: expiry is not looked at
EvaluatePendingForever(row, price, now) ==
    IF Touched(row.card, price) THEN "fill" ELSE "wait"

\* evaluate_pending: touch comes before expiry.
EvaluatePending(row, price, now) ==
    CASE Touched(row.card, price) -> "fill"
      [] ~Touched(row.card, price) /\ now >= row.until -> "cancel"
      [] OTHER -> "wait"

Filled(row, now) ==
    [card |-> row.card, status |-> "OPEN", opened |-> now,
     until |-> DeadlineFor(row.card.type, now, 0), be |-> row.be, tp |-> row.tp,
     stop |-> row.stop, exit |-> row.exit, reason |-> row.reason]

Cancelled(row) ==
    [card |-> row.card, status |-> "CANCELLED", opened |-> row.opened,
     until |-> row.until, be |-> row.be, tp |-> row.tp, stop |-> row.stop,
     exit |-> row.exit, reason |-> row.reason]

\* mutant: the flag is set and the stop stays where it was
HeldInitialStop(row, price) ==
    [card |-> row.card, status |-> "OPEN", opened |-> row.opened,
     until |-> row.until, be |-> Trails(row, price), tp |-> TpHit(row.card, price),
     stop |-> row.card.stop, exit |-> row.exit, reason |-> row.reason]

\* An open row with its target, trail and stop brought up to date.
Held(row, price) ==
    [card |-> row.card, status |-> "OPEN", opened |-> row.opened,
     until |-> row.until, be |-> Trails(row, price), tp |-> TpHit(row.card, price),
     stop |-> IF Trails(row, price) THEN row.card.entry ELSE row.card.stop,
     exit |-> row.exit, reason |-> row.reason]

Closed(row, exit, reason) ==
    [card |-> row.card, status |-> "CLOSED", opened |-> row.opened,
     until |-> row.until, be |-> row.be, tp |-> row.tp, stop |-> row.stop,
     exit |-> exit, reason |-> reason]

\* mutant: the time-stop comes first
EvaluateTimeFirst(row, price, now) ==
    LET held == Held(row, price)
    IN  IF now >= row.until THEN Closed(held, price, "TIME")
        ELSE IF Gain(row.card.side, held.stop, price) <= 0
               THEN Closed(held, held.stop, IF held.be THEN "BE" ELSE "SL")
               ELSE held

\* mutant: there is no time-stop
EvaluateNoTimeStop(row, price, now) ==
    LET held == Held(row, price)
    IN  IF Gain(row.card.side, held.stop, price) <= 0
          THEN Closed(held, held.stop, IF held.be THEN "BE" ELSE "SL")
          ELSE held

\* evaluate: final target, then stop, then time-stop, else the row is held.
Evaluate(row, price, now) ==
    LET held   == Held(row, price)
        last   == Len(row.card.targets)
        final  == last > 0 /\ held.tp = last
        hit    == Gain(row.card.side, held.stop, price) <= 0
    IN  CASE final -> Closed(held, row.card.targets[last], "TP")
          [] ~final /\ hit -> Closed(held, held.stop, IF held.be THEN "BE" ELSE "SL")
          [] ~final /\ ~hit /\ now >= row.until -> Closed(held, price, "TIME")
          [] OTHER -> held

\* The favourable +-k SD level of a pre-London box, k in halves.
SdLevel(box, side, halves) ==
    LET range == box.high - box.low
    IN  IF side = "long" THEN box.high + (halves * range) \div 2
                         ELSE box.low  - (halves * range) \div 2

\* prelondon_exit: the deepest of +1SD and +1.5SD that the price has reached; the
\* captured distance from the entry is taken without its sign.
ReachedLevel(box, side, price) ==
    IF Gain(side, SdLevel(box, side, 3), price) >= 0 THEN SdLevel(box, side, 3)
                                                     ELSE SdLevel(box, side, 2)

Captured(card, level) ==
    IF level >= card.entry THEN level - card.entry ELSE card.entry - level

PrelondonExits(row, box, price) ==
    /\ row.card.type \in HoldTypes
    /\ Gain(row.card.side, SdLevel(box, row.card.side, 2), price) >= 0
    /\ Captured(row.card, ReachedLevel(box, row.card.side, price)) >= MinCapture

\* mutant: the count is let through at the limit
CanOpenAtLimit(count, openRisk, newRisk) ==
    count <= MaxPositions /\ newRisk <= RiskCap - openRisk

\* mutant: only the count is looked at
CanOpenByCount(count, openRisk, newRisk) == count < MaxPositions

\* can_open, given the number and the risk of the live positions.
CanOpen(count, openRisk, newRisk) ==
    count < MaxPositions /\ newRisk <= RiskCap - openRisk
=============================================================================
