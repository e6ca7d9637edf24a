--------------------------- MODULE SessionSweeps ---------------------------
(***************************************************************************)
(* The intra-session sweep reader (gold/bumblebee.py).  Pure operators     *)
(* over hour-tagged bars [hour, open, high, low, close], oldest first, in  *)
(* broker hours.  A bar feed may hold more than one day.                   *)
(***************************************************************************)
EXTENDS Arrangements, FiniteSetsExt, SequencesExt

Sessions ==
    [asian       |-> [anchor |-> 14, sweep |-> 15, continuity |-> 16],
     london      |-> [anchor |-> 22, sweep |-> 23, continuity |-> 0],
     newyork     |-> [anchor |-> 6,  sweep |-> 7,  continuity |-> 8],
     london_open |-> [anchor |-> 0,  sweep |-> 1,  continuity |-> 2],
     ny_open     |-> [anchor |-> 7,  sweep |-> 8,  continuity |-> 9]]

SessionOrder == <<"asian", "london", "newyork", "london_open", "ny_open">>
AsianCbdr    == 14..20
Prelondon    == 2..5
CrtStart     == 21

Tops(bars)    == {bars[i].high : i \in DOMAIN bars}
Bottoms(bars) == {bars[i].low  : i \in DOMAIN bars}
Opposes(bias, side) == bias # "none" /\ bias # "neutral" /\ bias # side

\* phase_for_hour: the first session in the table's order, then the day's stages.
PhaseForHour(hour) ==
    LET named(i) == LET s == Sessions[SessionOrder[i]]
                    IN  hour \in {s.anchor, s.sweep, s.continuity}
        first == {i \in 1..5 : named(i) /\ \A j \in 1..(i - 1) : ~named(j)}
        phase(s) == CASE hour = s.anchor -> "range"
                      [] hour # s.anchor /\ hour = s.sweep -> "sweep"
                      [] OTHER -> "continuity"
    IN  IF first # {}
          THEN LET name == SessionOrder[CHOOSE i \in first : TRUE]
               IN  [session |-> name, phase |-> phase(Sessions[name])]
        ELSE CASE hour \in AsianCbdr -> [session |-> "asian_cbdr", phase |-> "box_forming"]
               [] hour >= CrtStart \/ hour < 2 -> [session |-> "crt", phase |-> "trend_forming"]
               [] hour \in Prelondon -> [session |-> "prelondon", phase |-> "trigger"]
               [] OTHER -> [session |-> "none", phase |-> "off-session"]

\* anchor_range: the newest candle of the anchor hour, as the set of its range.
AnchorRange(bars, hour) ==
    LET at == {i \in DOMAIN bars : bars[i].hour = hour}
    IN  {[high |-> bars[i].high, low |-> bars[i].low] : i \in {j \in at : \A k \in at : k <= j}}

\* detect_sweep: the sides taken, and whether the last bar to take one closed back.
DetectSweep(range, bars) ==
    LET over  == {i \in DOMAIN bars : bars[i].high > range.high}
        under == {i \in DOMAIN bars : bars[i].low < range.low}
        side  == CASE over # {} /\ under = {} -> "high"
                   [] over = {} /\ under # {} -> "low"
                   [] over # {} /\ under # {} -> "both"
                   [] OTHER -> "none"
    IN  [side |-> side,
         reclaim |-> \/ side = "high" /\ bars[Max(over)].close < range.high
                     \/ side = "low" /\ bars[Max(under)].close > range.low]

\* range_outcome: the four outcomes, or both sides, or inside.  "tol" is 15% of
\* the range.
RangeOutcome(range, bars, tol) ==
    LET high == Max(Tops(bars))
        low  == Min(Bottoms(bars))
        nearHigh == range.high - high <= tol
        nearLow  == low - range.low <= tol
    IN  CASE bars = <<>> -> "inside"
          [] bars # <<>> /\ high > range.high /\ low < range.low -> "both"
          [] bars # <<>> /\ high > range.high /\ low >= range.low -> "sweep_high"
          [] bars # <<>> /\ high <= range.high /\ low < range.low -> "sweep_low"
          [] bars # <<>> /\ high <= range.high /\ low >= range.low ->
                IF nearHigh /\ ~nearLow THEN "failed_high"
                ELSE IF nearLow /\ ~nearHigh THEN "failed_low" ELSE "inside"

OutcomeSide == [sweep_high |-> "short", failed_high |-> "short",
                sweep_low |-> "long", failed_low |-> "long"]

\* mutant: an opposing bias holds nothing back
OutcomeCallUngated(outcome, bias, touched, manipulation, aligned) ==
    [signal |-> IF outcome \in DOMAIN OutcomeSide THEN OutcomeSide[outcome] ELSE "wait",
     conviction |-> "base"]

\* outcome_call: the setup of an outcome, held back by an opposing bias or by a
\* block that was not touched; "touched" is "yes", "no" or "unknown".
OutcomeCall(outcome, bias, touched, manipulation, aligned) ==
    IF outcome \notin DOMAIN OutcomeSide THEN [signal |-> "wait", conviction |-> "base"]
    ELSE LET side == OutcomeSide[outcome]
             sweep == outcome \in {"sweep_high", "sweep_low"}
         IN  [signal |-> IF Opposes(bias, side) \/ touched = "no" THEN "wait" ELSE side,
              conviction |-> CASE manipulation /\ sweep /\ aligned >= 3 -> "high"
                               [] manipulation /\ ~(sweep /\ aligned >= 3) -> "elevated"
                               [] OTHER -> "base"]

ContinuityCall(side, bias) ==
    CASE side = "high" /\ bias # "long"  -> "short"
      [] side = "low"  /\ bias # "short" -> "long"
      [] OTHER -> "wait"

\* cbdr_range over the box hours, and prelondon_daily_bias over the trigger hours.
BoxOf(bars) ==
    LET win == Filtered(bars, {i \in DOMAIN bars : bars[i].hour \in AsianCbdr})
    IN  IF win = <<>> THEN {} ELSE {[high |-> Max(Tops(win)), low |-> Min(Bottoms(win))]}

PrelondonBias(box, bars) ==
    LET width == box.high - box.low
        win   == Filtered(bars, {i \in DOMAIN bars : bars[i].hour \in Prelondon})
        sell  == \E t \in Tops(win) : t >= box.high + width
        buy   == \E b \in Bottoms(win) : b <= box.low - width
    IN  CASE sell /\ ~buy -> "short"
          [] buy /\ ~sell -> "long"
          [] OTHER -> "neutral"

AsianBias(bars) ==
    IF BoxOf(bars) = {} THEN "neutral"
    ELSE PrelondonBias(CHOOSE box \in BoxOf(bars) : TRUE, bars)

\* The bars the scan reads the sweep from: the sweep hour's, of every day in the
\* feed, or those between anchor and continuity.
SweepBars(bars, s) ==
    LET at      == {i \in DOMAIN bars : bars[i].hour = s.sweep}
        between == {i \in DOMAIN bars : s.anchor < bars[i].hour /\ bars[i].hour < s.continuity}
    IN  Filtered(bars, IF at # {} THEN at ELSE between)

\* bumblebee_scan of one session.
Scan(bars, session, htfBias, touched, manipulation, aligned) ==
    LET s     == Sessions[session]
        range == AnchorRange(bars, s.anchor)
        asian == AsianBias(bars)
        bias  == IF htfBias # "none" THEN htfBias
                 ELSE IF asian # "neutral" THEN asian ELSE "none"
        read(r) ==
            LET used == SweepBars(bars, s)
                call == OutcomeCall(RangeOutcome(r, used, (15 * (r.high - r.low)) \div 100),
                                    bias, touched, manipulation, aligned)
            IN  [sweep |-> DetectSweep(r, used),
                 continuity |-> ContinuityCall(DetectSweep(r, used).side, bias),
                 signal |-> call.signal, conviction |-> call.conviction]
    IN  {read(r) : r \in range}
=============================================================================
