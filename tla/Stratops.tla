------------------------------ MODULE Stratops ------------------------------
(***************************************************************************)
(* gold/stratops.py, gold/trade_budget.py and gold/conviction.py: how a    *)
(* candidate card is scored, which candidates are engaged under the        *)
(* exposure cap, and the weekly budget of a tier.  Pure operators.         *)
(*                                                                         *)
(* Points are in hundredths, tier factors in thousandths, a score in       *)
(* tenths of a point; risk is in dollars.                                  *)
(***************************************************************************)
EXTENDS PositionRules, SequencesExt, Arrangements

CONSTANTS
    WeeklyBudget,   \* WEEKLY_BUDGET
    TierFactors,    \* TIER_FACTORS, in thousandths
    MinScore        \* allocate's min_score, in tenths

ASSUME BudgetAssumption == WeeklyBudget \in [TradeTypes -> Nat]
ASSUME ScoreAssumption == TierFactors \in [TradeTypes -> Nat] /\ MinScore \in Nat

TrendTiers     == {"swing", "intraday"}
RangeFadeTiers == TradeTypes \ TrendTiers

Bonuses == {"b2b", "warthog", "options", "radar"}

\* A directional signal card with what score_candidate looks at; "rr" is that of
\* the best target, in hundredths.
Candidate ==
    [side : {"long", "short"}, type : TradeTypes, risk : Nat,
     gate : BOOLEAN, news : BOOLEAN,
     campaign : {"advances", "neutral", "retreats", "none"},
     htf : {"aligns", "neutral", "opposes"},
     regime : {"confirms", "neutral", "opposes", "none"},
     location : {"ok", "absent", "wrong"},
     protraction : {"long", "short", "none"}, liquidity : BOOLEAN, rr : Nat,
     bonuses : SUBSET Bonuses]

-----------------------------------------------------------------------------
(* Scores.                                                                  *)

Excluded(c) == ~c.gate \/ c.news

\* The weights: full marks, part marks for a neutral or missing reading, or none.
Weigh(full, part, reading, best, soft) ==
    CASE reading = best -> full
      [] reading \in soft -> part
      [] OTHER -> 0

Points(c) ==
    Weigh(3000, 1200, c.campaign, "advances", {"neutral"})
    + Weigh(1500, 600, c.htf, "aligns", {"neutral"})
    + Weigh(1500, 750, c.regime, "confirms", {"neutral"})
    + Weigh(1200, 600, c.location, "ok", {"absent"})
    + Weigh(1200, 0, c.protraction, c.side, {})
    + Weigh(800, 0, c.liquidity, TRUE, {})
    + Min({800, c.rr})
    + 1000 * Cardinality(c.bonuses)

\* score_candidate: scaled by the tier's factor, at most 100.0, rounded.
ScoreCandidate(c) ==
    IF Excluded(c) THEN 0
    ELSE Min({1000, (Points(c) * TierFactors[c.type] + 5000) \div 10000})

Continuation(c) == Cardinality(c.bonuses \cap {"b2b", "warthog"})

\* rank's sort key, best first; the sort is stable.
Outranks(cands, i, j) ==
    LET Key(k) == <<ScoreCandidate(cands[k]), Continuation(cands[k])>>
        a == Key(i)
        b == Key(j)
    IN  \/ a[1] > b[1]
        \/ a[1] = b[1] /\ a[2] > b[2]
        \/ a = b /\ i < j

\* rank: the indices of the candidates, best first.
Rank(cands) ==
    LET at == DOMAIN cands
    IN  Arranged(at, {p \in {<<i, j>> : i, j \in at} : Outranks(cands, p[1], p[2])})

Eligible(c) == ~Excluded(c) /\ ScoreCandidate(c) >= MinScore

\* allocate, on a book of count live positions with openRisk at stake: each
\* candidate in turn is taken if it fits with those taken before.  The indices.
Allocate(cands, count, openRisk) ==
    LET Engage(sim, i) ==
            IF Eligible(cands[i]) /\ CanOpen(sim.count, sim.risk, cands[i].risk)
              THEN [take |-> Append(sim.take, i), count |-> sim.count + 1,
                    risk |-> sim.risk + cands[i].risk]
              ELSE sim
    IN  FoldLeft(Engage, [take |-> <<>>, count |-> count, risk |-> openRisk],
                 Rank(cands)).take

-----------------------------------------------------------------------------
(* Conviction and budget.                                                   *)

\* conviction_multiplier and apply_conviction: a range-fade card that agrees with
\* the order-block bias risks 1.35 times as much; no other card is touched.
WithConviction(c, bias) ==
    IF c.type \in RangeFadeTiers /\ c.side = bias
      THEN [c EXCEPT !.risk = (135 * c.risk + 50) \div 100]
      ELSE c

\* mutant: the cap itself is let through
WithinBudgetAtCap(type, used) == used <= WeeklyBudget[type]

\* within_budget and budget_gate.
WithinBudget(type, used) == used < WeeklyBudget[type]

\* week_start, of a day counted from a Monday.
Week(day) == day \div 7
=============================================================================
