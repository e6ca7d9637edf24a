------------------------ MODULE GoldPositions_proofs ------------------------
(***************************************************************************)
(* What is proved of GoldPositions for every value of its constants: type  *)
(* correctness, that a trailed stop stays trailed, how often a side and a  *)
(* tier can be opened on a day and, while passes do not overlap, how far   *)
(* the caps on positions and on risk can be overrun, that results are      *)
(* final, and that no exit is worse or better than its plan.               *)
(***************************************************************************)
EXTENDS GoldPositions, CollectionTheorems

(* The rules of PositionRules map rows to rows.                             *)

\* Max of FiniteSetsExt is well defined on the targets reached.
LEMMA MaxOfReached ==
    ASSUME NEW n \in Nat, NEW S \in SUBSET (1 .. n), S # {}
    PROVE  Max(S) \in S
<1>1. IsFiniteSet(S) /\ S \in SUBSET Int
  <2>1. IsFiniteSet(1 .. n) /\ S \subseteq 1 .. n
    BY FS_Interval
  <2>2. IsFiniteSet(S)
    BY <2>1, FS_Subset
  <2> QED BY <2>1, <2>2
<1>2. PICK m \in S : \A x \in S : x <= m
  BY <1>1, FiniteMax
<1>3. \A x \in S : m >= x
  BY <1>1, <1>2
<1> QED BY <1>3 DEF Max

LEMMA TpHitType ==
    ASSUME NEW card \in Card, NEW price \in Int
    PROVE  TpHit(card, price) \in Nat
<1> DEFINE S == {i \in DOMAIN card.targets : Gain(card.side, card.targets[i], price) >= 0}
<1>1. S \in SUBSET (1 .. Len(card.targets)) /\ Len(card.targets) \in Nat
  BY DEF Card
<1>2. CASE S = {}
  BY <1>2 DEF TpHit
<1>3. CASE S # {}
  <2>1. Max(S) \in S
    BY <1>1, <1>3, MaxOfReached
  <2> QED BY <1>1, <1>3, <2>1 DEF TpHit
<1> QED BY <1>2, <1>3

LEMMA DeadlineType ==
    ASSUME NEW type, NEW t \in Nat, NEW end \in Nat
    PROVE  DeadlineFor(type, t, end) \in Nat /\ LimitExpiry(type, t) \in Nat
BY DEF DeadlineFor, LimitExpiry, SwingDeadline, IntradayDeadline, SessionDeadline, NextAt

LEMMA FilledType ==
    ASSUME NEW row \in Row, NEW t \in Nat
    PROVE  Filled(row, t) \in Row
BY DeadlineType DEF Filled, Row, Card

LEMMA CancelledType ==
    ASSUME NEW row \in Row
    PROVE  Cancelled(row) \in Row
BY DEF Cancelled, Row

LEMMA ClosedType ==
    ASSUME NEW row \in Row, NEW exit \in Int,
           NEW reason \in {"TP", "SL", "BE", "TIME", "PRELONDON"}
    PROVE  Closed(row, exit, reason) \in Row
BY DEF Closed, Row

LEMMA HeldType ==
    ASSUME NEW row \in Row, NEW price \in Int
    PROVE  Held(row, price) \in Row
<1>1. row.card \in Card
  BY DEF Row
<1>2. TpHit(row.card, price) \in Nat
  BY <1>1, TpHitType
<1>3. Trails(row, price) \in BOOLEAN
  BY DEF Trails, Row
<1>4. row.card.entry \in Int /\ row.card.stop \in Int
  BY <1>1 DEF Card
<1> QED BY <1>1, <1>2, <1>3, <1>4 DEF Held, Row

LEMMA EvaluateType ==
    ASSUME NEW row \in Row, NEW price \in Int, NEW t \in Nat
    PROVE  Evaluate(row, price, t) \in Row
<1> DEFINE held == Held(row, price)
           last == Len(row.card.targets)
<1>1. held \in Row /\ held.stop \in Int
  BY HeldType DEF Row
<1>2. last > 0 => row.card.targets[last] \in Int
  <2>1. row.card.targets \in Seq(Int)
    BY DEF Row, Card
  <2> QED BY <2>1
<1> HIDE DEF held
<1>3. last > 0 => Closed(held, row.card.targets[last], "TP") \in Row
  BY <1>1, <1>2, ClosedType
<1>4. /\ Closed(held, held.stop, "BE") \in Row
      /\ Closed(held, held.stop, "SL") \in Row
      /\ Closed(held, price, "TIME") \in Row
  BY <1>1, ClosedType
<1> QED BY <1>1, <1>3, <1>4 DEF Evaluate, held

\* What a pass makes of a row is a row.
LEMMA OutcomeType ==
    ASSUME NEW m \in Monitors, MonitorOK(monitor[m]), monitor[m] # Idle,
           NEW row \in Row
    PROVE  PendingOutcome(m, row) \in Row /\ OpenOutcome(m, row) \in Row
<1>1. monitor[m].price \in Int /\ monitor[m].at \in Nat
  BY ScheduleAssumption DEF MonitorOK
<1>2. PendingOutcome(m, row) \in Row
  BY <1>1, FilledType, CancelledType DEF PendingOutcome
<1>3. monitor[m].box \in [low : Int, high : Int]
  BY ScheduleAssumption DEF MonitorOK, NoBox
<1>4. ReachedLevel(monitor[m].box, row.card.side, monitor[m].price) \in Int
  BY <1>3 DEF ReachedLevel, SdLevel
<1>5. OpenOutcome(m, row) \in Row
  BY <1>1, <1>4, ClosedType, EvaluateType DEF OpenOutcome
<1> QED BY <1>2, <1>5

LEMMA FlushType ==
    ASSUME NEW row \in Row, NEW read \in Row, NEW new \in Row
    PROVE  Flush(row, read, new) \in Row
BY DEF Flush, Row

\* A flush over rows that were seen leaves a table of rows, of the same length.
LEMMA FlushedType ==
    ASSUME rows \in Seq(Row), NEW seen, NEW new,
           \A i \in DOMAIN seen : seen[i] \in Row /\ new[i] \in Row
    PROVE  Flushed(seen, new) \in Seq(Row) /\ DOMAIN Flushed(seen, new) = DOMAIN rows
<1>1. \A i \in DOMAIN rows : Flushed(seen, new)[i] \in Row
  BY FlushType DEF Flushed
<1>2. DOMAIN rows = 1 .. Len(rows) /\ Len(rows) \in Nat
  OBVIOUS
<1>3. Flushed(seen, new) \in [1 .. Len(rows) -> Row]
  BY <1>1, <1>2 DEF Flushed
<1> QED BY <1>2, <1>3, SeqDef

-----------------------------------------------------------------------------
(* Type correctness.                                                        *)

\* The rows a pass has seen are still rows of a table that did not shrink.
LEMMA MonitorsKept ==
    ASSUME TypeOK, DOMAIN rows \subseteq DOMAIN rows'
    PROVE  \A m \in Monitors : monitor'[m] = monitor[m] => MonitorOK(monitor[m])'
BY DEF TypeOK, MonitorOK

THEOREM TypeStep == TypeOK /\ [Next]_vars => TypeOK'
<1> SUFFICES ASSUME TypeOK, [Next]_vars
             PROVE  TypeOK'
  OBVIOUS
<1>0. now \in Nat
  BY ScheduleAssumption DEF TypeOK
<1>1. CASE Tick
  BY <1>1 DEF Tick, TypeOK, MonitorOK
<1>2. ASSUME NEW o \in Openers, NEW card \in Cards, CheckDuplicate(o, card)
      PROVE  TypeOK'
  <2>1. LimitExpiry(card.type, now) \in Nat
    BY <1>0, DeadlineType
  <2>2. opener' \in [Openers -> OpenerState]
    BY <1>2, <2>1 DEF CheckDuplicate, TypeOK, OpenerState
  <2> QED BY <1>2, <2>2 DEF CheckDuplicate, TypeOK, MonitorOK
<1>3. ASSUME NEW o \in Openers, CheckExposure(o)
      PROVE  TypeOK'
  <2>1. opener[o] # Idle /\ opener[o].card \in Cards /\ opener[o].until \in Nat
    BY <1>3 DEF CheckExposure, TypeOK, OpenerState, Idle
  <2>2. opener[o].card.end \in Nat
    BY <2>1, CardsAssumption DEF Card
  <2>3. DeadlineFor(opener[o].card.type, now, opener[o].card.end) \in Nat
    BY <1>0, <2>2, DeadlineType
  <2>4. opener' \in [Openers -> OpenerState]
    BY <1>3, <2>1, <2>3 DEF CheckExposure, TypeOK, OpenerState
  <2> QED BY <1>3, <2>4 DEF CheckExposure, TypeOK, MonitorOK
<1>4. ASSUME NEW o \in Openers, OpenPosition(o)
      PROVE  TypeOK'
  <2>1. opener[o].card \in Card /\ opener[o].until \in Nat
    BY <1>4, CardsAssumption DEF OpenPosition, TypeOK, OpenerState, Idle
  <2>2. NewRow(opener[o].card, opener[o].until) \in Row
    BY <1>0, <2>1 DEF NewRow, Row, Card
  <2>3. rows' \in Seq(Row) /\ DOMAIN rows \subseteq DOMAIN rows'
    BY <1>4, <2>2 DEF OpenPosition, TypeOK
  <2>4. opener' \in [Openers -> OpenerState]
    BY <1>4 DEF OpenPosition, TypeOK, OpenerState
  <2>5. \A m \in Monitors : MonitorOK(monitor[m])'
    BY <1>4, <2>3, MonitorsKept DEF OpenPosition
  <2> QED BY <1>4, <2>3, <2>4, <2>5 DEF OpenPosition, TypeOK
<1>5. ASSUME NEW m \in Monitors, NEW price \in Prices, NEW box \in Boxes \cup {NoBox},
             ReadPending(m, price, box)
      PROVE  TypeOK'
  BY <1>0, <1>5, MonitorsKept DEF ReadPending, TypeOK, MonitorOK, Snapshot
<1>6. ASSUME NEW m \in Monitors, CommitPending(m)
      PROVE  TypeOK'
  <2> DEFINE seen == monitor[m].seen
             new  == [i \in DOMAIN seen |-> PendingOutcome(m, seen[i])]
  <2>1. MonitorOK(monitor[m]) /\ monitor[m] # Idle
    BY <1>6 DEF CommitPending, TypeOK, Idle
  <2>2. \A i \in DOMAIN seen : seen[i] \in Row
    BY <2>1 DEF MonitorOK
  <2>3. \A i \in DOMAIN seen : new[i] \in Row
    BY <2>1, <2>2, OutcomeType
  <2>4. rows' = Flushed(seen, new)
    BY <1>6 DEF CommitPending
  <2>5. rows' \in Seq(Row) /\ DOMAIN rows' = DOMAIN rows
    BY <2>2, <2>3, <2>4, FlushedType DEF TypeOK
  <2>6. MonitorOK(monitor[m])'
    BY <1>6, <2>1 DEF CommitPending, MonitorOK, TypeOK
  <2>7. \A n \in Monitors : MonitorOK(monitor[n])'
    BY <1>6, <2>5, <2>6, MonitorsKept DEF CommitPending, TypeOK
  <2> QED BY <1>6, <2>5, <2>7 DEF CommitPending, TypeOK
<1>7. ASSUME NEW m \in Monitors, ReadOpen(m)
      PROVE  TypeOK'
  BY <1>7, MonitorsKept DEF ReadOpen, TypeOK, MonitorOK, Snapshot, Idle
<1>8. ASSUME NEW m \in Monitors, CommitOpen(m)
      PROVE  TypeOK'
  <2> DEFINE seen == monitor[m].seen
             new  == [i \in DOMAIN seen |-> OpenOutcome(m, seen[i])]
  <2>1. MonitorOK(monitor[m]) /\ monitor[m] # Idle
    BY <1>8 DEF CommitOpen, TypeOK, Idle
  <2>2. \A i \in DOMAIN seen : seen[i] \in Row
    BY <2>1 DEF MonitorOK
  <2>3. \A i \in DOMAIN seen : new[i] \in Row
    BY <2>1, <2>2, OutcomeType
  <2>4. rows' = Flushed(seen, new)
    BY <1>8 DEF CommitOpen
  <2>5. rows' \in Seq(Row) /\ DOMAIN rows' = DOMAIN rows
    BY <2>2, <2>3, <2>4, FlushedType DEF TypeOK
  <2>6. MonitorOK(monitor[m])'
    BY <1>8 DEF CommitOpen, MonitorOK, TypeOK
  <2>7. \A n \in Monitors : MonitorOK(monitor[n])'
    BY <1>8, <2>5, <2>6, MonitorsKept DEF CommitOpen, TypeOK
  <2> QED BY <1>8, <2>5, <2>7 DEF CommitOpen, TypeOK
<1>9. CASE RequestFails
  BY <1>9 DEF RequestFails, Fault, TypeOK, MonitorOK, OpenerState
<1>10. CASE AppRestarts
  BY <1>10 DEF AppRestarts, Fault, TypeOK, MonitorOK, OpenerState
<1>11. CASE UNCHANGED vars
  BY <1>11 DEF vars, TypeOK, MonitorOK
<1> QED
  BY <1>1, <1>2, <1>3, <1>4, <1>5, <1>6, <1>7, <1>8, <1>9, <1>10, <1>11
  DEF Next, OpenerStep, MonitorStep, StartMonitor

\* Every reachable state of the position book is well typed.
THEOREM TypeCorrect == Spec => []TypeOK
<1>1. Init => TypeOK
  BY ScheduleAssumption DEF Init, TypeOK, OpenerState, MonitorOK
<1> QED BY <1>1, TypeStep, PTL DEF Spec

-----------------------------------------------------------------------------
(* The trail.                                                               *)

\* No rule takes the trail back, so a flush that clears be can only be the work
\* of a pass that read it set, and there is none.
LEMMA OutcomeKeepsTrail ==
    ASSUME NEW m \in Monitors, NEW row \in Row, row.be
    PROVE  PendingOutcome(m, row).be /\ OpenOutcome(m, row).be
<1>1. \A price, t : Evaluate(row, price, t).be
  BY DEF Evaluate, Held, Closed, Trails
<1> QED BY <1>1 DEF PendingOutcome, OpenOutcome, Filled, Cancelled, Closed

LEMMA FlushKeepsTrail ==
    ASSUME rows \in Seq(Row), NEW seen, NEW new,
           \A i \in DOMAIN seen : /\ seen[i] \in Row /\ new[i] \in Row
                                  /\ seen[i].be => new[i].be
    PROVE  \A i \in DOMAIN rows : rows[i].be => Flushed(seen, new)[i].be
<1> SUFFICES ASSUME NEW i \in DOMAIN rows, rows[i].be
             PROVE  Flushed(seen, new)[i].be
  OBVIOUS
<1>1. CASE i \notin DOMAIN seen
  BY <1>1 DEF Flushed
<1>2. CASE i \in DOMAIN seen
  <2>1. Flushed(seen, new)[i] = Flush(rows[i], seen[i], new[i])
    BY <1>2 DEF Flushed
  <2>2. seen[i].be \in BOOLEAN /\ new[i].be \in BOOLEAN
    BY <1>2 DEF Row
  <2>3. Flush(rows[i], seen[i], new[i]).be
          = IF seen[i].be = new[i].be THEN rows[i].be ELSE new[i].be
    BY DEF Flush
  <2> QED BY <1>2, <2>1, <2>2, <2>3
<1> QED BY <1>1, <1>2

TrailKept == \A i \in DOMAIN rows : rows[i].be => rows'[i].be

LEMMA TrailStep == TypeOK /\ [Next]_vars => TrailKept
<1> SUFFICES ASSUME TypeOK, [Next]_vars
             PROVE  TrailKept
  OBVIOUS
<1>1. ASSUME UNCHANGED rows
      PROVE  TrailKept
  BY <1>1 DEF TrailKept
<1>2. ASSUME NEW o \in Openers, OpenPosition(o)
      PROVE  TrailKept
  BY <1>2 DEF OpenPosition, TypeOK, TrailKept
<1>3. ASSUME NEW m \in Monitors, CommitPending(m) \/ CommitOpen(m)
      PROVE  TrailKept
  <2> DEFINE seen == monitor[m].seen
             fill == [i \in DOMAIN seen |-> PendingOutcome(m, seen[i])]
             exit == [i \in DOMAIN seen |-> OpenOutcome(m, seen[i])]
  <2>1. MonitorOK(monitor[m]) /\ monitor[m] # Idle
    BY <1>3 DEF CommitPending, CommitOpen, TypeOK, Idle
  <2>2. \A i \in DOMAIN seen : seen[i] \in Row
    BY <2>1 DEF MonitorOK
  <2>3. \A i \in DOMAIN seen : /\ fill[i] \in Row /\ exit[i] \in Row
                               /\ seen[i].be => fill[i].be /\ exit[i].be
    BY <2>1, <2>2, OutcomeType, OutcomeKeepsTrail
  <2>4. rows' = Flushed(seen, fill) \/ rows' = Flushed(seen, exit)
    BY <1>3 DEF CommitPending, CommitOpen
  <2> HIDE DEF fill, exit
  <2> QED BY <2>2, <2>3, <2>4, FlushKeepsTrail DEF TypeOK, TrailKept
<1> QED
  BY <1>1, <1>2, <1>3
  DEF Next, OpenerStep, MonitorStep, StartMonitor, Tick, CheckDuplicate, CheckExposure,
      ReadPending, ReadOpen, RequestFails, AppRestarts, vars

\* evaluate: once the stop of a row is trailed to its entry it stays there, for any
\* number of overlapping passes, any cards and any prices.
THEOREM BreakEvenIsSticky == Spec => BreakEvenStays
<1>1. TypeOK /\ [Next]_vars => [TrailKept]_vars
  BY TrailStep
<1>2. Spec => [][TrailKept]_vars
  BY <1>1, TypeCorrect, PTL DEF Spec
<1> QED BY <1>2 DEF BreakEvenStays, TrailKept

-----------------------------------------------------------------------------
(* Passes that do not overlap.                                              *)

OneMonitor == \A m, n \in Monitors : m = n

\* Then what a pass has read is what the table holds until the pass commits.
SeenInv ==
    \A m \in Monitors :
        monitor[m] # Idle =>
            \A i \in DOMAIN monitor[m].seen :
                /\ monitor[m].seen[i] = rows[i]
                /\ rows[i].status \in {"PENDING", "OPEN"}

LEMMA SeenInit == Init => SeenInv
  BY DEF Init, SeenInv

LEMMA SeenStep ==
    ASSUME OneMonitor
    PROVE  TypeOK /\ SeenInv /\ [Next]_vars => SeenInv'
<1> SUFFICES ASSUME TypeOK, SeenInv, [Next]_vars
             PROVE  SeenInv'
  OBVIOUS
<1>1. ASSUME UNCHANGED <<rows, monitor>>
      PROVE  SeenInv'
  BY <1>1 DEF SeenInv
<1>2. ASSUME NEW o \in Openers, OpenPosition(o)
      PROVE  SeenInv'
  <2>1. \A i \in DOMAIN rows : rows'[i] = rows[i]
    BY <1>2 DEF OpenPosition, TypeOK
  <2>2. \A m \in Monitors :
            monitor[m] # Idle => DOMAIN monitor[m].seen \subseteq DOMAIN rows
    BY DEF TypeOK, MonitorOK
  <2> QED BY <1>2, <2>1, <2>2 DEF OpenPosition, SeenInv
<1>3. ASSUME NEW m \in Monitors, NEW price \in Prices, NEW box \in Boxes \cup {NoBox},
             ReadPending(m, price, box)
      PROVE  SeenInv'
  BY <1>3 DEF ReadPending, SeenInv, Snapshot, TypeOK
<1>4. ASSUME NEW m \in Monitors, CommitPending(m)
      PROVE  SeenInv'
  <2>1. \A n \in Monitors : monitor'[n].seen = <<>>
    BY <1>4, OneMonitor DEF OneMonitor, CommitPending, TypeOK
  <2> QED BY <2>1 DEF SeenInv
<1>5. ASSUME NEW m \in Monitors, ReadOpen(m)
      PROVE  SeenInv'
  BY <1>5 DEF ReadOpen, SeenInv, Snapshot, TypeOK
<1>6. ASSUME NEW m \in Monitors, CommitOpen(m)
      PROVE  SeenInv'
  <2>1. \A n \in Monitors : monitor'[n] = Idle
    BY <1>6, OneMonitor DEF OneMonitor, CommitOpen, TypeOK
  <2> QED BY <2>1 DEF SeenInv
<1>7. CASE RequestFails
  BY <1>7 DEF RequestFails, SeenInv, TypeOK
<1>8. CASE AppRestarts
  BY <1>8 DEF AppRestarts, SeenInv, TypeOK
<1> QED
  BY <1>1, <1>2, <1>3, <1>4, <1>5, <1>6, <1>7, <1>8
  DEF Next, OpenerStep, MonitorStep, StartMonitor, Tick, CheckDuplicate, CheckExposure,
      vars

LEMMA SeenAlways ==
    ASSUME OneMonitor
    PROVE  Spec => [](TypeOK /\ SeenInv)
<1>1. Init => SeenInv
  BY SeenInit
<1>2. TypeOK /\ SeenInv /\ [Next]_vars => SeenInv'
  BY OneMonitor, SeenStep
<1> QED BY <1>1, <1>2, TypeCorrect, PTL DEF Spec

Ended(i) == rows[i].status \in {"CLOSED", "CANCELLED"}

ResultsKept == \A i \in DOMAIN rows : Ended(i) => rows'[i] = rows[i]

LEMMA ResultsStep == TypeOK /\ SeenInv /\ [Next]_vars => ResultsKept
<1> SUFFICES ASSUME TypeOK, SeenInv, [Next]_vars
             PROVE  ResultsKept
  OBVIOUS
<1>1. ASSUME UNCHANGED rows
      PROVE  ResultsKept
  BY <1>1 DEF ResultsKept
<1>2. ASSUME NEW o \in Openers, OpenPosition(o)
      PROVE  ResultsKept
  BY <1>2 DEF OpenPosition, TypeOK, ResultsKept
<1>3. ASSUME NEW m \in Monitors, CommitPending(m) \/ CommitOpen(m)
      PROVE  ResultsKept
  <2>1. monitor[m] # Idle
    BY <1>3 DEF CommitPending, CommitOpen, Idle
  <2>2. \A i \in DOMAIN rows : Ended(i) => i \notin DOMAIN monitor[m].seen
    BY <2>1 DEF SeenInv, Ended
  <2> QED BY <1>3, <2>2 DEF CommitPending, CommitOpen, Flushed, ResultsKept
<1> QED
  BY <1>1, <1>2, <1>3
  DEF Next, OpenerStep, MonitorStep, StartMonitor, Tick, CheckDuplicate, CheckExposure,
      ReadPending, ReadOpen, RequestFails, AppRestarts, vars

\* monitor: while passes do not overlap, no step of any opener or pass touches a row
\* that is closed or cancelled.
THEOREM ResultsAreFinal ==
    ASSUME OneMonitor
    PROVE  Spec => ResultsFinal
<1>1. TypeOK /\ SeenInv /\ [Next]_vars => [ResultsKept]_vars
  BY ResultsStep
<1>2. Spec => [](TypeOK /\ SeenInv)
  BY OneMonitor, SeenAlways
<1>3. Spec => [][ResultsKept]_vars
  BY <1>1, <1>2, PTL DEF Spec
<1> QED BY <1>3 DEF ResultsFinal, ResultsKept, Ended

-----------------------------------------------------------------------------
(* The exposure cap.                                                        *)

\* The requests that are past can_open and have not committed.
Cleared == {o \in Openers : opener[o].phase = "cleared"}

\* Each of them may have looked before the others: the cap bounds the live rows
\* and the cleared requests together, so a commit uses up what its request added.
RoomInv ==
    Cardinality(Live) + Cardinality(Cleared) <= MaxPositions - 1 + Cardinality(Openers)

LEMMA SubsetSize ==
    ASSUME NEW S, IsFiniteSet(S), NEW T, T \subseteq S
    PROVE  /\ IsFiniteSet(T) /\ Cardinality(T) \in Nat
           /\ Cardinality(S) \in Nat /\ Cardinality(T) <= Cardinality(S)
BY FS_Subset, FS_CardinalityType

LEMMA LiveFinite ==
    ASSUME TypeOK
    PROVE  IsFiniteSet(Live)
<1>1. Live \subseteq 1 .. Len(rows) /\ Len(rows) \in Nat
  BY DEF Live, TypeOK
<1>2. IsFiniteSet(1 .. Len(rows))
  BY <1>1, FS_Interval
<1> QED BY <1>1, <1>2, FS_Subset

LEMMA RoomInit == Init => RoomInv
<1> SUFFICES ASSUME Init
             PROVE  RoomInv
  OBVIOUS
<1>1. Live = {}
  BY DEF Init, Live
<1>2. Cleared = {}
  BY DEF Init, Cleared, Idle
<1>3. Cardinality(Openers) \in Nat
  BY OpenersAssumption, FS_CardinalityType
<1> QED BY <1>1, <1>2, <1>3, FS_EmptySet, CapsAssumption DEF RoomInv

\* Only a commit of a new row makes one more row live.
LEMMA LiveStep ==
    ASSUME TypeOK, SeenInv, [Next]_vars
    PROVE  Live' \subseteq Live \cup (DOMAIN rows' \ DOMAIN rows)
<1>1. ResultsKept
  BY ResultsStep
<1>2. \A i \in DOMAIN rows : i \in Live' => ~Ended(i)
  BY <1>1 DEF ResultsKept, Live, Ended
<1>3. \A i \in DOMAIN rows : ~Ended(i) => i \in Live
  <2>1. \A i \in DOMAIN rows : rows[i] \in Row
    BY DEF TypeOK
  <2>2. \A row \in Row : row.status \in {"PENDING", "OPEN", "CLOSED", "CANCELLED"}
    BY DEF Row
  <2> QED BY <2>1, <2>2 DEF Ended, Live
<1> QED BY <1>2, <1>3 DEF Live

LEMMA RoomStep ==
    ASSUME TypeOK, SeenInv, RoomInv, [Next]_vars
    PROVE  RoomInv'
<1> USE CapsAssumption
<1>1. /\ IsFiniteSet(Live) /\ Cardinality(Live) \in Nat
      /\ IsFiniteSet(Cleared) /\ Cardinality(Cleared) \in Nat
      /\ Cardinality(Openers) \in Nat
  <2>1. Cleared \subseteq Openers
    BY DEF Cleared
  <2> QED BY <2>1, LiveFinite, OpenersAssumption, SubsetSize, FS_CardinalityType
<1>2. ASSUME Cleared' \subseteq Cleared, DOMAIN rows' = DOMAIN rows
      PROVE  RoomInv'
  <2>1. Live' \subseteq Live
    BY <1>2, LiveStep
  <2>2. Cardinality(Live') \in Nat /\ Cardinality(Live') <= Cardinality(Live)
    BY <1>1, <2>1, SubsetSize
  <2>3. Cardinality(Cleared') \in Nat /\ Cardinality(Cleared') <= Cardinality(Cleared)
    BY <1>1, <1>2, SubsetSize
  <2> QED BY <1>1, <2>2, <2>3 DEF RoomInv
<1>3. ASSUME NEW o \in Openers, CheckExposure(o)
      PROVE  RoomInv'
  <2>1. CASE CanOpen(Cardinality(Live), OpenRisk, opener[o].card.risk)
    <3>1. Cardinality(Live) <= MaxPositions - 1
      BY <1>1, <2>1 DEF CanOpen
    <3>2. Live' = Live
      BY <1>3 DEF CheckExposure, Live
    <3>3. Cardinality(Cleared') \in Nat /\ Cardinality(Cleared') <= Cardinality(Openers)
      <4>1. Cleared' \subseteq Openers
        BY DEF Cleared
      <4> QED BY <4>1, OpenersAssumption, SubsetSize
    <3> QED BY <1>1, <3>1, <3>2, <3>3 DEF RoomInv
  <2>2. CASE ~CanOpen(Cardinality(Live), OpenRisk, opener[o].card.risk)
    BY <1>2, <1>3, <2>2 DEF CheckExposure, Cleared, Idle, TypeOK
  <2> QED BY <2>1, <2>2
<1>4. ASSUME NEW o \in Openers, OpenPosition(o)
      PROVE  RoomInv'
  <2>1. o \in Cleared /\ Cleared' \subseteq Cleared \ {o}
    BY <1>4 DEF OpenPosition, Cleared, Idle, TypeOK
  <2>2. Cardinality(Cleared') \in Nat /\ Cardinality(Cleared') <= Cardinality(Cleared) - 1
    <3>1. /\ IsFiniteSet(Cleared \ {o})
          /\ Cardinality(Cleared \ {o}) = Cardinality(Cleared) - 1
      BY <1>1, <2>1, FS_RemoveElement
    <3> QED BY <2>1, <3>1, SubsetSize
  <2>3. Live' \subseteq Live \cup {Len(rows) + 1}
    <3>1. DOMAIN rows' \ DOMAIN rows \subseteq {Len(rows) + 1}
      BY <1>4 DEF OpenPosition, TypeOK
    <3> QED BY <3>1, LiveStep
  <2>4. Cardinality(Live') \in Nat /\ Cardinality(Live') <= Cardinality(Live) + 1
    <3>1. /\ IsFiniteSet(Live \cup {Len(rows) + 1})
          /\ Cardinality(Live \cup {Len(rows) + 1})
                 \in {Cardinality(Live), Cardinality(Live) + 1}
      BY <1>1, FS_AddElement
    <3>2. /\ Cardinality(Live') \in Nat
          /\ Cardinality(Live') <= Cardinality(Live \cup {Len(rows) + 1})
      BY <2>3, <3>1, SubsetSize
    <3> QED BY <1>1, <3>1, <3>2
  <2> QED BY <1>1, <2>2, <2>4 DEF RoomInv
<1>5. ASSUME NEW o \in Openers, NEW card \in Cards, CheckDuplicate(o, card)
      PROVE  RoomInv'
  BY <1>2, <1>5 DEF CheckDuplicate, Cleared, TypeOK
<1>6. ASSUME NEW m \in Monitors, MonitorStep(m) \/ StartMonitor(m)
      PROVE  RoomInv'
  <2>1. UNCHANGED opener /\ DOMAIN rows' = DOMAIN rows
    BY <1>6 DEF MonitorStep, StartMonitor, ReadPending, CommitPending, ReadOpen,
                CommitOpen, Flushed
  <2> QED BY <1>2, <2>1 DEF Cleared
<1>7. CASE Tick \/ UNCHANGED vars
  BY <1>2, <1>7 DEF Tick, vars, Cleared
<1>8. CASE RequestFails \/ AppRestarts
  BY <1>2, <1>8 DEF RequestFails, AppRestarts, Cleared, Idle, TypeOK
<1> QED
  BY <1>3, <1>4, <1>5, <1>6, <1>7, <1>8 DEF Next, OpenerStep

\* open_from_signal and open_limit: with N requests at a time the book holds at most
\* MaxPositions - 1 + N live positions, whatever the cards, the prices, the faults
\* and the order of the steps, as long as monitor passes do not overlap.
THEOREM LiveIsBounded ==
    ASSUME OneMonitor
    PROVE  Spec => []LiveBounded
<1>1. Spec => [](TypeOK /\ SeenInv)
  BY OneMonitor, SeenAlways
<1>2. TypeOK /\ SeenInv /\ RoomInv /\ [Next]_vars => RoomInv'
  BY RoomStep
<1>3. TypeOK /\ RoomInv => LiveBounded
  <2> SUFFICES ASSUME TypeOK, RoomInv
               PROVE  LiveBounded
    OBVIOUS
  <2>1. Cleared \subseteq Openers
    BY DEF Cleared
  <2>2. /\ Cardinality(Live) \in Nat /\ Cardinality(Cleared) \in Nat
        /\ Cardinality(Openers) \in Nat
    BY <2>1, LiveFinite, OpenersAssumption, SubsetSize, FS_CardinalityType
  <2> QED BY <2>2, CapsAssumption DEF RoomInv, LiveBounded
<1> QED BY <1>1, <1>2, <1>3, RoomInit, PTL DEF Spec

-----------------------------------------------------------------------------
(* The risk ceiling.                                                        *)

RowRisk    == [i \in DOMAIN rows |-> rows[i].card.risk]
OpenerRisk == [o \in Openers |-> opener[o].card.risk]

\* What the requests past can_open are about to put at stake.
ClearedRisk == SumFunctionOnSet(OpenerRisk, Cleared)

MaxRisk == Max({card.risk : card \in Cards})

\* The ceiling bounds what is at stake and about to be together: a request that is
\* cleared fits with the book, and each of the others adds a card at most.
RiskInv == OpenRisk + ClearedRisk <= RiskCap + (Cardinality(Openers) - 1) * MaxRisk

LEMMA MaxRiskBounds ==
    MaxRisk \in Nat /\ \A card \in Cards : card.risk \in Nat /\ card.risk <= MaxRisk
<1> DEFINE S == {card.risk : card \in Cards}
<1>1. \A card \in Cards : card.risk \in Nat
  BY CardsAssumption DEF Card
<1>2. S \in SUBSET Int /\ S # {} /\ IsFiniteSet(S) /\ S \subseteq Nat
  BY <1>1, RiskAssumption
<1>3. \E m \in S : \A x \in S : x <= m
  <2> HIDE DEF S
  <2> QED BY <1>2, FiniteMax
<1>4. Max(S) \in S /\ \A x \in S : x <= Max(S)
  <2>1. \E m \in S : \A x \in S : m >= x
    BY <1>2, <1>3
  <2> HIDE DEF S
  <2> QED BY <2>1, <1>2 DEF Max
<1>5. MaxRisk = Max(S)
  BY DEF MaxRisk
<1>6. \A card \in Cards : card.risk \in S
  OBVIOUS
<1> HIDE DEF S
<1> QED BY <1>1, <1>2, <1>4, <1>5, <1>6

\* The terms of both sums.
LEMMA RiskTerms ==
    ASSUME TypeOK
    PROVE  /\ IsFiniteSet(Live) /\ Live \subseteq DOMAIN rows
           /\ \A i \in DOMAIN rows : RowRisk[i] \in Nat
           /\ IsFiniteSet(Cleared) /\ Cleared \subseteq Openers
           /\ \A o \in Cleared : OpenerRisk[o] \in Nat /\ OpenerRisk[o] <= MaxRisk
<1>1. Cleared \subseteq Openers /\ IsFiniteSet(Cleared)
  BY OpenersAssumption, SubsetSize DEF Cleared
<1>2. \A i \in DOMAIN rows : RowRisk[i] \in Nat
  <2>1. \A i \in DOMAIN rows : rows[i] \in Row
    BY DEF TypeOK
  <2>2. \A row \in Row : row.card.risk \in Nat
    BY DEF Row, Card
  <2> QED BY <2>1, <2>2 DEF RowRisk
<1>3. \A o \in Cleared : opener[o].card \in Cards
  BY DEF TypeOK, OpenerState, Cleared, Idle
<1>4. \A o \in Cleared : OpenerRisk[o] \in Nat /\ OpenerRisk[o] <= MaxRisk
  BY <1>1, <1>3, MaxRiskBounds DEF OpenerRisk
<1> QED BY <1>1, <1>2, <1>4, LiveFinite DEF Live

LEMMA NextOpeners ==
    ASSUME TypeOK'
    PROVE  /\ IsFiniteSet(Cleared') /\ Cleared' \subseteq Openers
           /\ \A o \in Cleared' : OpenerRisk'[o] \in Nat /\ OpenerRisk'[o] <= MaxRisk
<1>1. Cleared' \subseteq Openers /\ IsFiniteSet(Cleared')
  BY OpenersAssumption, SubsetSize DEF Cleared
<1>2. \A o \in Cleared' : opener'[o].card \in Cards
  BY DEF TypeOK, OpenerState, Cleared, Idle
<1> QED BY <1>1, <1>2, MaxRiskBounds DEF OpenerRisk

\* A card never leaves its row.
LEMMA RisksKept ==
    ASSUME TypeOK, [Next]_vars
    PROVE  /\ DOMAIN rows \subseteq DOMAIN rows'
           /\ \A i \in DOMAIN rows : RowRisk'[i] = RowRisk[i]
<1>1. ASSUME DOMAIN rows \subseteq DOMAIN rows',
             \A i \in DOMAIN rows : rows'[i].card = rows[i].card
      PROVE  /\ DOMAIN rows \subseteq DOMAIN rows'
             /\ \A i \in DOMAIN rows : RowRisk'[i] = RowRisk[i]
  BY <1>1 DEF RowRisk
<1>2. CASE UNCHANGED rows
  BY <1>1, <1>2
<1>3. ASSUME NEW o \in Openers, OpenPosition(o)
      PROVE  /\ DOMAIN rows \subseteq DOMAIN rows'
             /\ \A i \in DOMAIN rows : rows'[i].card = rows[i].card
  BY <1>3 DEF OpenPosition, TypeOK
<1>4. ASSUME NEW m \in Monitors, CommitPending(m) \/ CommitOpen(m)
      PROVE  /\ DOMAIN rows \subseteq DOMAIN rows'
             /\ \A i \in DOMAIN rows : rows'[i].card = rows[i].card
  <2>1. PICK seen, new : rows' = Flushed(seen, new)
    BY <1>4 DEF CommitPending, CommitOpen
  <2>2. ASSUME NEW i \in DOMAIN rows
        PROVE  rows'[i] = rows[i] \/ rows'[i] = Flush(rows[i], seen[i], new[i])
    BY <2>1 DEF Flushed
  <2>3. \A row, read, result : Flush(row, read, result).card = row.card
    BY DEF Flush
  <2>4. DOMAIN rows' = DOMAIN rows
    BY <2>1 DEF Flushed
  <2> QED BY <2>2, <2>3, <2>4
<1>5. UNCHANGED rows \/ (\E o \in Openers : OpenPosition(o))
          \/ (\E m \in Monitors : CommitPending(m) \/ CommitOpen(m))
  BY DEF Next, OpenerStep, MonitorStep, StartMonitor, Tick, CheckDuplicate, CheckExposure,
         ReadPending, ReadOpen, RequestFails, AppRestarts, vars
<1> QED BY <1>1, <1>2, <1>3, <1>4, <1>5

LEMMA RiskInit == Init => RiskInv
<1> SUFFICES ASSUME Init PROVE RiskInv
  OBVIOUS
<1>1. Live = {} /\ Cleared = {}
  BY DEF Init, Live, Cleared, Idle
<1>2. OpenRisk = 0 /\ ClearedRisk = 0
  BY <1>1, SumEmpty DEF OpenRisk, ClearedRisk
<1>3. Cardinality(Openers) - 1 \in Nat
  BY OpenersAssumption, RiskAssumption, FS_EmptySet, FS_CardinalityType
<1>4. (Cardinality(Openers) - 1) * MaxRisk >= 0
  BY <1>3, MaxRiskBounds
<1> QED BY <1>2, <1>3, <1>4, MaxRiskBounds, CapsAssumption DEF RiskInv

LEMMA RiskStep ==
    ASSUME TypeOK, TypeOK', SeenInv, RiskInv, [Next]_vars
    PROVE  RiskInv'
<1> DEFINE Ceiling == RiskCap + (Cardinality(Openers) - 1) * MaxRisk
<1>1. /\ Cardinality(Openers) \in Nat /\ MaxRisk \in Nat /\ RiskCap \in Nat
      /\ Ceiling \in Int
  BY OpenersAssumption, FS_CardinalityType, MaxRiskBounds, CapsAssumption
<1>2. OpenRisk = SumFunctionOnSet(RowRisk, Live)
      /\ OpenRisk' = SumFunctionOnSet(RowRisk', Live')
  BY DEF OpenRisk, RowRisk
<1>3. OpenRisk \in Nat /\ ClearedRisk \in Nat /\ OpenRisk + ClearedRisk <= Ceiling
  BY <1>2, RiskTerms, SumNat DEF ClearedRisk, RiskInv
<1>4. ASSUME OpenRisk' \in Nat, ClearedRisk' \in Nat, OpenRisk' + ClearedRisk' <= Ceiling
      PROVE  RiskInv'
  BY <1>4 DEF RiskInv, MaxRisk
<1>5. ASSUME DOMAIN rows' = DOMAIN rows
      PROVE  OpenRisk' \in Nat /\ OpenRisk' <= OpenRisk
  <2>1. Live' \subseteq Live
    BY <1>5, LiveStep
  <2>2. \A i \in Live' : RowRisk'[i] = RowRisk[i]
    BY <2>1, RisksKept, RiskTerms
  <2>3. PICK S, R, f, e : S = Live /\ R = Live' /\ f = RowRisk /\ e = RowRisk'
    OBVIOUS
  <2>4. /\ IsFiniteSet(S) /\ \A x \in S : f[x] \in Nat
        /\ R \in SUBSET S /\ \A x \in R : e[x] = f[x]
    BY <2>1, <2>2, <2>3, RiskTerms
  <2>5. SumFunctionOnSet(e, R) \in Nat /\ SumFunctionOnSet(e, R) <= SumFunctionOnSet(f, S)
    BY <2>4, SumLess
  <2> QED BY <1>2, <2>3, <2>5
<1>6. ASSUME NEW C \in SUBSET Cleared, Cleared' \subseteq C,
             \A o \in Cleared' : opener'[o] = opener[o]
      PROVE  /\ ClearedRisk' \in Nat /\ SumFunctionOnSet(OpenerRisk, C) \in Nat
             /\ ClearedRisk' <= SumFunctionOnSet(OpenerRisk, C)
  <2>1. \A o \in Cleared' : OpenerRisk'[o] = OpenerRisk[o]
    BY <1>6, RiskTerms DEF OpenerRisk
  <2>2. PICK R, f, e : R = Cleared' /\ f = OpenerRisk /\ e = OpenerRisk'
    OBVIOUS
  <2>3. /\ IsFiniteSet(C) /\ \A x \in C : f[x] \in Nat
        /\ R \in SUBSET C /\ \A x \in R : e[x] = f[x]
    BY <1>6, <2>1, <2>2, RiskTerms, SubsetSize
  <2>4. /\ SumFunctionOnSet(e, R) \in Nat /\ SumFunctionOnSet(f, C) \in Nat
        /\ SumFunctionOnSet(e, R) <= SumFunctionOnSet(f, C)
    BY <2>3, SumLess
  <2> QED BY <2>2, <2>4 DEF ClearedRisk
<1>7. ASSUME Cleared' \subseteq Cleared, \A o \in Cleared' : opener'[o] = opener[o],
             DOMAIN rows' = DOMAIN rows
      PROVE  RiskInv'
  <2>1. ClearedRisk' \in Nat /\ ClearedRisk' <= ClearedRisk
    BY <1>6, <1>7 DEF ClearedRisk
  <2> HIDE DEF Ceiling
  <2> QED BY <1>1, <1>3, <1>4, <1>5, <1>7, <2>1
<1>8. ASSUME NEW o \in Openers, CheckExposure(o)
      PROVE  RiskInv'
  <2> DEFINE risk == opener[o].card.risk
  <2>0. opener[o].card \in Cards /\ risk \in Nat
    BY <1>8, MaxRiskBounds DEF CheckExposure, TypeOK, OpenerState, Idle
  <2>1. CASE ~CanOpen(Cardinality(Live), OpenRisk, risk)
    <3>1. opener' = [opener EXCEPT ![o] = Idle] /\ rows' = rows
      BY <1>8, <2>1 DEF CheckExposure
    <3> QED BY <1>7, <3>1 DEF Cleared, Idle, TypeOK
  <2>2. CASE CanOpen(Cardinality(Live), OpenRisk, risk)
    <3>1. OpenRisk <= RiskCap - risk
      BY <1>1, <1>3, <2>0, <2>2 DEF CanOpen
    <3>2. OpenRisk' = OpenRisk
      BY <1>8 DEF CheckExposure, OpenRisk, Live
    <3>3. o \in Cleared' /\ OpenerRisk'[o] = risk
      BY <1>8, <2>2 DEF CheckExposure, Cleared, OpenerRisk, TypeOK
    <3>4. PICK D, e : D = Cleared' /\ e = OpenerRisk'
      OBVIOUS
    <3>5. /\ IsFiniteSet(D) /\ D \subseteq Openers /\ o \in D /\ e[o] = risk
          /\ \A x \in D : e[x] \in Nat /\ e[x] <= MaxRisk
      BY <3>3, <3>4, NextOpeners
    <3>6. /\ IsFiniteSet(D \ {o}) /\ Cardinality(D \ {o}) \in Nat
          /\ Cardinality(D \ {o}) <= Cardinality(Openers) - 1
      <4>1. D \ {o} \subseteq Openers \ {o}
        BY <3>5
      <4>2. /\ IsFiniteSet(Openers \ {o})
            /\ Cardinality(Openers \ {o}) = Cardinality(Openers) - 1
        BY OpenersAssumption, FS_RemoveElement
      <4> QED BY <4>1, <4>2, SubsetSize
    <3>7. SumFunctionOnSet(e, D) = risk + SumFunctionOnSet(e, D \ {o})
      BY <3>5, SumRemove
    <3>8. /\ SumFunctionOnSet(e, D) \in Nat /\ SumFunctionOnSet(e, D \ {o}) \in Nat
          /\ SumFunctionOnSet(e, D \ {o}) <= MaxRisk * Cardinality(D \ {o})
      BY <1>1, <3>5, <3>6, SumNat, SumBound
    <3>9. MaxRisk * Cardinality(D \ {o}) <= MaxRisk * (Cardinality(Openers) - 1)
      BY <1>1, <3>6, TimesMonotone
    <3>10. MaxRisk * Cardinality(D \ {o}) \in Int
           /\ MaxRisk * (Cardinality(Openers) - 1) = Ceiling - RiskCap
      BY <1>1, <3>6
    <3>11. ClearedRisk' = SumFunctionOnSet(e, D)
      BY <3>4 DEF ClearedRisk
    <3> HIDE DEF Ceiling, risk
    <3> QED BY <1>1, <1>3, <1>4, <2>0, <3>1, <3>2, <3>7, <3>8, <3>9, <3>10, <3>11
  <2> QED BY <2>1, <2>2
<1>9. ASSUME NEW o \in Openers, OpenPosition(o)
      PROVE  RiskInv'
  <2> DEFINE risk == opener[o].card.risk
             n == Len(rows) + 1
  <2>1. o \in Cleared /\ Cleared' \subseteq Cleared \ {o}
        /\ \A p \in Cleared' : opener'[p] = opener[p]
    BY <1>9 DEF OpenPosition, Cleared, Idle, TypeOK
  <2>2. risk \in Nat /\ OpenerRisk[o] = risk
    BY <2>1, RiskTerms DEF OpenerRisk
  <2>3. ClearedRisk = risk + SumFunctionOnSet(OpenerRisk, Cleared \ {o})
    BY <2>1, <2>2, RiskTerms, SumRemove DEF ClearedRisk
  <2>4. /\ ClearedRisk' \in Nat /\ SumFunctionOnSet(OpenerRisk, Cleared \ {o}) \in Nat
        /\ ClearedRisk' <= SumFunctionOnSet(OpenerRisk, Cleared \ {o})
    BY <1>6, <2>1
  <2>5. /\ DOMAIN rows' = DOMAIN rows \cup {n} /\ n \notin DOMAIN rows
        /\ RowRisk'[n] = risk
    <3>0. NewRow(opener[o].card, opener[o].until).card = opener[o].card
      BY DEF NewRow
    <3>1. PICK row : rows' = Append(rows, row) /\ row.card = opener[o].card
      BY <1>9, <3>0 DEF OpenPosition
    <3>2. rows \in Seq(Row) /\ Len(rows) \in Nat /\ DOMAIN rows = 1 .. Len(rows)
      BY DEF TypeOK
    <3>3. Len(rows') = n /\ DOMAIN rows' = 1 .. Len(rows') /\ rows'[n] = row
      BY <3>1, <3>2, AppendProperties DEF TypeOK
    <3>4. DOMAIN rows' = DOMAIN rows \cup {n} /\ n \notin DOMAIN rows
      BY <3>2, <3>3
    <3> HIDE DEF n
    <3> QED BY <3>1, <3>3, <3>4 DEF RowRisk
  <2>6. Live' \subseteq Live \cup {n}
    BY <2>5, LiveStep
  <2>7. PICK S, R, f, e : S = Live /\ R = Live' /\ f = RowRisk /\ e = RowRisk'
    OBVIOUS
  <2>8. /\ IsFiniteSet(S) /\ n \notin S /\ R \subseteq S \cup {n} /\ e[n] = risk
        /\ \A x \in S : e[x] = f[x] /\ f[x] \in Nat
    BY <2>5, <2>6, <2>7, RiskTerms, RisksKept
  <2>9. SumFunctionOnSet(e, S) = OpenRisk
    BY <1>2, <2>7, <2>8, SumAlike
  <2>10. SumFunctionOnSet(e, S \cup {n}) = risk + OpenRisk
    <3> HIDE DEF n, risk
    <3>1. \A x \in S \cup {n} : e[x] \in Int
      BY <2>2, <2>8
    <3> QED BY <2>8, <2>9, <3>1, SumAdd
  <2>11. SumFunctionOnSet(e, R) \in Nat /\ SumFunctionOnSet(e, R) <= risk + OpenRisk
    <3>1. IsFiniteSet(S \cup {n}) /\ \A x \in S \cup {n} : e[x] \in Nat
      BY <2>2, <2>8, FS_AddElement
    <3>2. IsFiniteSet(R)
      BY <2>8, <3>1, SubsetSize
    <3>3. SumFunctionOnSet(e, R) \in Nat
      BY <2>8, <3>1, <3>2, SumNat
    <3>4. SumFunctionOnSet(e, R) <= SumFunctionOnSet(e, S \cup {n})
      BY <2>8, <3>1, SumOfPart
    <3> QED BY <2>10, <3>3, <3>4
  <2>12. OpenRisk' = SumFunctionOnSet(e, R)
    BY <1>2, <2>7
  <2> HIDE DEF Ceiling, risk, n
  <2> QED BY <1>1, <1>3, <1>4, <2>2, <2>3, <2>4, <2>11, <2>12
<1>10. ASSUME NEW o \in Openers, NEW card \in Cards, CheckDuplicate(o, card)
       PROVE  RiskInv'
  BY <1>7, <1>10 DEF CheckDuplicate, Cleared, TypeOK
<1>11. ASSUME NEW m \in Monitors, MonitorStep(m) \/ StartMonitor(m)
       PROVE  RiskInv'
  <2>1. UNCHANGED opener /\ DOMAIN rows' = DOMAIN rows
    BY <1>11 DEF MonitorStep, StartMonitor, ReadPending, CommitPending, ReadOpen,
                 CommitOpen, Flushed
  <2> QED BY <1>7, <2>1 DEF Cleared
<1>12. CASE Tick \/ UNCHANGED vars
  BY <1>7, <1>12 DEF Tick, vars, Cleared
<1>13. CASE RequestFails \/ AppRestarts
  BY <1>7, <1>13 DEF RequestFails, AppRestarts, Cleared, Idle, TypeOK
<1> QED
  BY <1>8, <1>9, <1>10, <1>11, <1>12, <1>13 DEF Next, OpenerStep

\* can_open's risk ceiling: with N requests at a time what is at stake exceeds the cap by
\* the risk of N - 1 cards at most, as long as monitor passes do not overlap.
THEOREM RiskIsBounded ==
    ASSUME OneMonitor
    PROVE  Spec => []RiskBounded
<1>1. Spec => [](TypeOK /\ SeenInv)
  BY OneMonitor, SeenAlways
<1>2. TypeOK /\ TypeOK' /\ SeenInv /\ RiskInv /\ [Next]_vars => RiskInv'
  BY RiskStep
<1>3. TypeOK /\ RiskInv => RiskBounded
  <2> SUFFICES ASSUME TypeOK, RiskInv
               PROVE  RiskBounded
    OBVIOUS
  <2>1. OpenRisk \in Nat
    BY RiskTerms, SumNat DEF OpenRisk, RowRisk
  <2>2. ClearedRisk \in Nat
    BY RiskTerms, SumNat DEF ClearedRisk
  <2>3. Cardinality(Openers) \in Nat /\ MaxRisk \in Nat /\ RiskCap \in Nat
    BY OpenersAssumption, FS_CardinalityType, MaxRiskBounds, CapsAssumption
  <2>4. RiskCap + (Cardinality(Openers) - 1) * MaxRisk \in Int
    BY <2>3
  <2>5. OpenRisk <= RiskCap + (Cardinality(Openers) - 1) * MaxRisk
    BY <2>1, <2>2, <2>4 DEF RiskInv
  <2> QED BY <2>5 DEF RiskBounded, MaxRisk
<1> QED BY <1>1, <1>2, <1>3, RiskInit, PTL DEF Spec

-----------------------------------------------------------------------------
(* Exits.                                                                   *)

\* A card whose stop is on the losing side of its entry and whose last target is on
\* the winning side: what the planners make (PlansProtected of BarFeed), and what
\* neither request checks.
Protected(card) ==
    /\ Gain(card.side, card.stop, card.entry) >= 0
    /\ card.targets # <<>> =>
          Gain(card.side, card.entry, card.targets[Len(card.targets)]) >= 0

\* An ordinary exit is between the stop and the last target, and at no loss when the
\* stop was trailed.
WithinPlan(row) ==
    LET card == row.card
    IN  row.status = "CLOSED" /\ row.reason # "PRELONDON" =>
            /\ row.be => Gain(card.side, card.entry, row.exit) >= 0
            /\ Gain(card.side, card.stop, row.exit) >= 0
            /\ card.targets # <<>> =>
                  Gain(card.side, row.exit, card.targets[Len(card.targets)]) >= 0

PlanInv == \A i \in DOMAIN rows : rows[i].card \in Cards /\ WithinPlan(rows[i])

\* The last target counts even when the price has skipped the others.
LEMMA LastReached ==
    ASSUME NEW card \in Card, NEW price \in Int, card.targets # <<>>,
           Gain(card.side, card.targets[Len(card.targets)], price) >= 0
    PROVE  TpHit(card, price) = Len(card.targets)
<1> DEFINE n == Len(card.targets)
           S == {i \in DOMAIN card.targets : Gain(card.side, card.targets[i], price) >= 0}
<1>1. card.targets \in Seq(Int)
  BY DEF Card
<1>2. n \in Nat /\ n \in S /\ S \in SUBSET (1 .. n)
  BY <1>1
<1>3. \A i \in S : n >= i /\ i \in Nat
  BY <1>2
<1>4. Max(S) \in S /\ Max(S) >= n
  BY <1>2, <1>3 DEF Max
<1>5. Max(S) = n
  BY <1>2, <1>3, <1>4
<1>6. S # {} /\ TpHit(card, price) = Max(S)
  BY <1>2 DEF TpHit
<1> QED BY <1>5, <1>6

LEMMA EvaluateWithinPlan ==
    ASSUME NEW row \in Row, Protected(row.card), NEW price \in Int, NEW t \in Nat
    PROVE  WithinPlan(Evaluate(row, price, t))
<1> DEFINE card == row.card
           side == card.side
           held == Held(row, price)
           last == Len(card.targets)
           goal == card.targets[last]
<1>1. /\ card \in Card /\ side \in {"long", "short"} /\ card.entry \in Int
      /\ card.stop \in Int /\ card.targets \in Seq(Int) /\ last \in Nat
  <2>1. row.card \in Card
    BY DEF Row
  <2>2. /\ card.side \in {"long", "short"} /\ card.entry \in Int
        /\ card.stop \in Int /\ card.targets \in Seq(Int)
    BY <2>1 DEF Card
  <2> QED BY <2>1, <2>2
<1>2. card.targets # <<>> => last > 0 /\ goal \in Int
  BY <1>1
<1>3. /\ held.status = "OPEN" /\ held.card = card
      /\ held.stop = IF held.be THEN card.entry ELSE card.stop
      /\ held.tp = TpHit(card, price)
  BY DEF Held
<1>4. /\ Gain(side, card.stop, card.entry) >= 0
      /\ card.targets # <<>> => Gain(side, card.entry, goal) >= 0
  BY DEF Protected
<1> HIDE DEF held
<1>5. CASE last > 0 /\ held.tp = last
  <2>1. Evaluate(row, price, t) = Closed(held, goal, "TP")
    BY <1>5 DEF Evaluate, held
  <2>2. /\ Gain(side, card.entry, goal) >= 0 /\ Gain(side, card.stop, goal) >= 0
        /\ Gain(side, goal, goal) >= 0
    BY <1>1, <1>2, <1>4, <1>5, SMTT(40) DEF Gain
  <2> HIDE DEF goal
  <2> QED BY <1>3, <2>1, <2>2 DEF WithinPlan, Closed, goal
<1>6. CASE ~(last > 0 /\ held.tp = last) /\ Gain(side, held.stop, price) <= 0
  <2>1. \/ Evaluate(row, price, t) = Closed(held, held.stop, "BE")
        \/ Evaluate(row, price, t) = Closed(held, held.stop, "SL")
    BY <1>6 DEF Evaluate, held
  <2>2. /\ held.be => Gain(side, card.entry, held.stop) >= 0
        /\ Gain(side, card.stop, held.stop) >= 0
        /\ card.targets # <<>> => Gain(side, held.stop, goal) >= 0
    <3>1. CASE held.be
      <4>1. held.stop = card.entry
        BY <1>3, <3>1
      <4>2. /\ Gain(side, card.entry, card.entry) >= 0
            /\ Gain(side, card.stop, card.entry) >= 0
        BY <1>1, <1>4 DEF Gain
      <4> QED BY <1>4, <4>1, <4>2
    <3>2. CASE ~held.be
      <4>1. held.stop = card.stop
        BY <1>3, <3>2
      <4>2. /\ Gain(side, card.stop, card.stop) >= 0
            /\ card.targets # <<>> => Gain(side, card.stop, goal) >= 0
        BY <1>1, <1>2, <1>4 DEF Gain
      <4> QED BY <3>2, <4>1, <4>2
    <3> QED BY <3>1, <3>2
  <2> HIDE DEF goal
  <2> QED BY <1>3, <2>1, <2>2 DEF WithinPlan, Closed, goal
<1>7. CASE ~(last > 0 /\ held.tp = last) /\ ~(Gain(side, held.stop, price) <= 0)
  <2>1. Evaluate(row, price, t) \in {Closed(held, price, "TIME"), held}
    BY <1>7 DEF Evaluate, held
  <2>2. card.targets # <<>> => ~(Gain(side, goal, price) >= 0)
    BY <1>1, <1>2, <1>3, <1>7, LastReached
  <2>3. /\ held.be => Gain(side, card.entry, price) >= 0
        /\ Gain(side, card.stop, price) >= 0
        /\ card.targets # <<>> => Gain(side, price, goal) >= 0
    BY <1>1, <1>2, <1>3, <1>4, <1>7, <2>2 DEF Gain
  <2> HIDE DEF goal
  <2> QED BY <1>3, <2>1, <2>3 DEF WithinPlan, Closed, goal
<1> QED BY <1>5, <1>6, <1>7

LEMMA OutcomeWithinPlan ==
    ASSUME NEW m \in Monitors, MonitorOK(monitor[m]), monitor[m] # Idle,
           NEW row \in Row, Protected(row.card), row.status \in {"PENDING", "OPEN"}
    PROVE  /\ WithinPlan(PendingOutcome(m, row)) /\ PendingOutcome(m, row).card = row.card
           /\ WithinPlan(OpenOutcome(m, row)) /\ OpenOutcome(m, row).card = row.card
<1>1. monitor[m].price \in Int /\ monitor[m].at \in Nat
  BY ScheduleAssumption DEF MonitorOK
<1>2. WithinPlan(PendingOutcome(m, row)) /\ PendingOutcome(m, row).card = row.card
  BY DEF PendingOutcome, Filled, Cancelled, WithinPlan
<1>3. \A exit : WithinPlan(Closed(row, exit, "PRELONDON"))
  BY DEF Closed, WithinPlan
<1>4. WithinPlan(Evaluate(row, monitor[m].price, monitor[m].at))
  BY <1>1, EvaluateWithinPlan
<1>5. \A price, t : Evaluate(row, price, t).card = row.card
  BY DEF Evaluate, Held, Closed
<1>6. WithinPlan(OpenOutcome(m, row)) /\ OpenOutcome(m, row).card = row.card
  <2>1. \/ OpenOutcome(m, row) = Evaluate(row, monitor[m].price, monitor[m].at)
        \/ \E exit : OpenOutcome(m, row) = Closed(row, exit, "PRELONDON")
    BY DEF OpenOutcome
  <2>2. \A exit : Closed(row, exit, "PRELONDON").card = row.card
    BY DEF Closed
  <2> QED BY <1>3, <1>4, <1>5, <2>1, <2>2
<1> QED BY <1>2, <1>6

\* A flush of a row that was read as it stands leaves the row the pass made of it.
LEMMA FlushWrites ==
    ASSUME NEW row \in Row, NEW new \in Row, new.card = row.card
    PROVE  Flush(row, row, new) = new
BY DEF Flush, Row

\* So, while passes do not overlap, every row a commit leaves is a row the rules made.
LEMMA CommitWrites ==
    ASSUME TypeOK, SeenInv, NEW m \in Monitors, monitor[m] # Idle, NEW new,
           \A i \in DOMAIN monitor[m].seen :
               new[i] \in Row /\ new[i].card = monitor[m].seen[i].card
    PROVE  \A i \in DOMAIN rows :
               Flushed(monitor[m].seen, new)[i]
                   = IF i \in DOMAIN monitor[m].seen THEN new[i] ELSE rows[i]
<1> SUFFICES ASSUME NEW i \in DOMAIN rows
             PROVE  Flushed(monitor[m].seen, new)[i]
                        = IF i \in DOMAIN monitor[m].seen THEN new[i] ELSE rows[i]
  OBVIOUS
<1>1. CASE i \notin DOMAIN monitor[m].seen
  BY <1>1 DEF Flushed
<1>2. CASE i \in DOMAIN monitor[m].seen
  <2>1. monitor[m].seen[i] = rows[i] /\ rows[i] \in Row
    BY <1>2 DEF SeenInv, TypeOK
  <2>2. Flush(rows[i], rows[i], new[i]) = new[i]
    BY <1>2, <2>1, FlushWrites
  <2> QED BY <1>2, <2>1, <2>2 DEF Flushed
<1> QED BY <1>1, <1>2

LEMMA PlanStep ==
    ASSUME \A card \in Cards : Protected(card), TypeOK, SeenInv, PlanInv, [Next]_vars
    PROVE  PlanInv'
<1>1. ASSUME UNCHANGED rows
      PROVE  PlanInv'
  BY <1>1 DEF PlanInv
<1>2. ASSUME NEW o \in Openers, OpenPosition(o)
      PROVE  PlanInv'
  <2>1. opener[o].card \in Cards
    BY <1>2 DEF OpenPosition, TypeOK, OpenerState, Idle
  <2> DEFINE row == NewRow(opener[o].card, opener[o].until)
  <2>2. row.card \in Cards /\ WithinPlan(row)
    BY <2>1 DEF NewRow, WithinPlan
  <2> HIDE DEF row
  <2>3. rows' = Append(rows, row)
    BY <1>2 DEF OpenPosition, row
  <2>4. \A i \in DOMAIN rows' : rows'[i] = row \/ (i \in DOMAIN rows /\ rows'[i] = rows[i])
    BY <2>3 DEF TypeOK
  <2>5. \A i \in DOMAIN rows' : rows'[i].card \in Cards /\ WithinPlan(rows'[i])
    BY <2>2, <2>4 DEF PlanInv
  <2> QED BY <2>5 DEF PlanInv
<1>3. ASSUME NEW m \in Monitors, CommitPending(m) \/ CommitOpen(m)
      PROVE  PlanInv'
  <2> DEFINE seen == monitor[m].seen
             fill == [i \in DOMAIN seen |-> PendingOutcome(m, seen[i])]
             exit == [i \in DOMAIN seen |-> OpenOutcome(m, seen[i])]
  <2>1. MonitorOK(monitor[m]) /\ monitor[m] # Idle
    BY <1>3 DEF CommitPending, CommitOpen, TypeOK, Idle
  <2>2. \A i \in DOMAIN seen : /\ seen[i] \in Row /\ seen[i].card \in Cards
                               /\ seen[i].status \in {"PENDING", "OPEN"}
    BY <2>1 DEF MonitorOK, SeenInv, PlanInv
  <2>3. \A i \in DOMAIN seen :
            /\ fill[i] \in Row /\ fill[i].card = seen[i].card /\ WithinPlan(fill[i])
            /\ exit[i] \in Row /\ exit[i].card = seen[i].card /\ WithinPlan(exit[i])
    BY <2>1, <2>2, OutcomeType, OutcomeWithinPlan
  <2>4. \/ rows' = Flushed(seen, fill)
        \/ rows' = Flushed(seen, exit)
    BY <1>3 DEF CommitPending, CommitOpen
  <2> HIDE DEF fill, exit
  <2>5. \A i \in DOMAIN rows :
            /\ Flushed(seen, fill)[i] = IF i \in DOMAIN seen THEN fill[i] ELSE rows[i]
            /\ Flushed(seen, exit)[i] = IF i \in DOMAIN seen THEN exit[i] ELSE rows[i]
    BY <2>1, <2>3, CommitWrites
  <2>6. DOMAIN rows' = DOMAIN rows
    BY <2>4 DEF Flushed
  <2>7. \A i \in DOMAIN rows' : rows'[i].card \in Cards /\ WithinPlan(rows'[i])
    BY <2>2, <2>3, <2>4, <2>5, <2>6 DEF PlanInv
  <2> QED BY <2>7 DEF PlanInv
<1> QED
  BY <1>1, <1>2, <1>3
  DEF Next, OpenerStep, MonitorStep, StartMonitor, Tick, CheckDuplicate, CheckExposure,
      ReadPending, ReadOpen, RequestFails, AppRestarts, vars

LEMMA PlanAlways ==
    ASSUME OneMonitor, \A card \in Cards : Protected(card)
    PROVE  Spec => []PlanInv
<1>1. Spec => [](TypeOK /\ SeenInv)
  BY OneMonitor, SeenAlways
<1>2. TypeOK /\ SeenInv /\ PlanInv /\ [Next]_vars => PlanInv'
  BY PlanStep
<1>3. Init => PlanInv
  BY DEF Init, PlanInv
<1> QED BY <1>1, <1>2, <1>3, PTL DEF Spec

\* evaluate: with cards that are protected, no ordinary exit of any row loses more
\* than the initial risk or books more than the last target, at any price and for any
\* delay between the passes.
THEOREM ExitsStayWithinPlan ==
    ASSUME OneMonitor, \A card \in Cards : Protected(card)
    PROVE  Spec => []ExitWithinPlan
<1>1. Spec => []PlanInv
  BY PlanAlways
<1>2. PlanInv => ExitWithinPlan
  BY DEF PlanInv, WithinPlan, ExitWithinPlan
<1> QED BY <1>1, <1>2, PTL

\* evaluate: with the same cards, a row whose stop was trailed ends at no loss.
THEOREM TrailedRowsNeverLose ==
    ASSUME OneMonitor, \A card \in Cards : Protected(card)
    PROVE  Spec => []TrailedNeverLoses
<1>1. Spec => []PlanInv
  BY PlanAlways
<1>2. PlanInv => TrailedNeverLoses
  BY DEF PlanInv, WithinPlan, TrailedNeverLoses
<1> QED BY <1>1, <1>2, PTL

-----------------------------------------------------------------------------
(* One side and tier a day.                                                 *)

\* A market position is never armed, and what any pass has read, however long ago,
\* had the status it looked for and the card the row still has.
MarketInv ==
    /\ \A i \in DOMAIN rows :
           rows[i].card.born = "market" => rows[i].status # "PENDING"
    /\ \A m \in Monitors : monitor[m] # Idle =>
           \A i \in DOMAIN monitor[m].seen :
               /\ monitor[m].seen[i].card = rows[i].card
               /\ monitor[m].phase \in {"pending", "open"}
               /\ monitor[m].phase = "pending" =>
                     monitor[m].seen[i].card.born # "market"
               /\ monitor[m].phase = "open" => monitor[m].seen[i].status = "OPEN"

\* The requests for a market position of this side and tier that are past the
\* duplicate check.
InFlight(card) ==
    {o \in Openers : /\ opener[o] # Idle
                     /\ opener[o].card.born = "market"
                     /\ opener[o].card.side = card.side
                     /\ opener[o].card.type = card.type}

\* Of today the requests on their way count as rows; what was opened on an earlier
\* day is settled, and nothing is opened in the future.
DayInv ==
    /\ \A i \in DOMAIN rows : rows[i].card.born = "market" => rows[i].opened <= now
    /\ DuplicatesBounded
    /\ \A card \in Cards :
          Cardinality(OpenToday(card, Day(now))) + Cardinality(InFlight(card))
              <= Cardinality(Openers)

LEMMA MarketInit == Init => MarketInv
  BY DEF Init, MarketInv

\* No rule changes a card, a day of opening or arms an open row.
LEMMA OpenOutcomeKeeps ==
    ASSUME NEW m \in Monitors, NEW row \in Row
    PROVE  /\ OpenOutcome(m, row).card = row.card
           /\ OpenOutcome(m, row).opened = row.opened
           /\ OpenOutcome(m, row).status \in {"OPEN", "CLOSED"}
<1>1. \A price, t : /\ Evaluate(row, price, t).card = row.card
                    /\ Evaluate(row, price, t).opened = row.opened
                    /\ Evaluate(row, price, t).status \in {"OPEN", "CLOSED"}
  BY DEF Evaluate, Held, Closed
<1>2. \A exit : /\ Closed(row, exit, "PRELONDON").card = row.card
                /\ Closed(row, exit, "PRELONDON").opened = row.opened
                /\ Closed(row, exit, "PRELONDON").status = "CLOSED"
  BY DEF Closed
<1> QED BY <1>1, <1>2 DEF OpenOutcome

\* What a step may do to the rows there are, whatever passes overlap.
MarketKept ==
    \A i \in DOMAIN rows :
        /\ i \in DOMAIN rows' /\ rows'[i].card = rows[i].card
        /\ rows[i].card.born = "market" =>
              /\ rows'[i].opened = rows[i].opened
              /\ rows'[i].status \in {rows[i].status, "CLOSED"}

LEMMA MarketKeptStep == TypeOK /\ MarketInv /\ [Next]_vars => MarketKept
<1> SUFFICES ASSUME TypeOK, MarketInv, [Next]_vars
             PROVE  MarketKept
  OBVIOUS
<1>1. ASSUME UNCHANGED rows
      PROVE  MarketKept
  BY <1>1 DEF MarketKept
<1>2. ASSUME NEW o \in Openers, OpenPosition(o)
      PROVE  MarketKept
  BY <1>2 DEF OpenPosition, TypeOK, MarketKept
<1>3. ASSUME NEW m \in Monitors, CommitPending(m)
      PROVE  MarketKept
  <2>1. monitor[m] # Idle /\ monitor[m].phase = "pending"
    BY <1>3 DEF CommitPending, Idle
  <2>2. \A i \in DOMAIN monitor[m].seen :
            i \in DOMAIN rows => rows[i].card.born # "market"
    BY <2>1 DEF MarketInv
  <2>3. \A row, read, new : Flush(row, read, new).card = row.card
    BY DEF Flush
  <2> QED BY <1>3, <2>2, <2>3 DEF CommitPending, Flushed, MarketKept
<1>4. ASSUME NEW m \in Monitors, CommitOpen(m)
      PROVE  MarketKept
  <2> DEFINE seen == monitor[m].seen
             new  == [i \in DOMAIN seen |-> OpenOutcome(m, seen[i])]
  <2>1. MonitorOK(monitor[m]) /\ monitor[m] # Idle /\ monitor[m].phase = "open"
    BY <1>4 DEF CommitOpen, TypeOK, Idle
  <2>2. \A i \in DOMAIN seen : seen[i] \in Row /\ seen[i].status = "OPEN"
    BY <2>1 DEF MonitorOK, MarketInv
  <2>3. \A i \in DOMAIN seen : /\ new[i].opened = seen[i].opened
                               /\ new[i].status \in {"OPEN", "CLOSED"}
    BY <2>2, OpenOutcomeKeeps
  <2>4. rows' = Flushed(seen, new)
    BY <1>4 DEF CommitOpen
  <2> HIDE DEF new
  <2> SUFFICES ASSUME NEW i \in DOMAIN rows
               PROVE  /\ i \in DOMAIN rows' /\ rows'[i].card = rows[i].card
                      /\ rows'[i].opened = rows[i].opened
                      /\ rows'[i].status \in {rows[i].status, "CLOSED"}
    BY DEF MarketKept
  <2>5. CASE i \notin DOMAIN seen
    BY <2>4, <2>5 DEF Flushed
  <2>6. CASE i \in DOMAIN seen
    <3>1. i \in DOMAIN rows' /\ rows'[i] = Flush(rows[i], seen[i], new[i])
      BY <2>4, <2>6 DEF Flushed
    <3> QED BY <2>2, <2>3, <2>6, <3>1 DEF Flush
  <2> QED BY <2>5, <2>6
<1> QED
  BY <1>1, <1>2, <1>3, <1>4
  DEF Next, OpenerStep, MonitorStep, StartMonitor, Tick, CheckDuplicate, CheckExposure,
      ReadPending, ReadOpen, RequestFails, AppRestarts, vars

\* What the passes hold is about rows, and the rows keep what it says.
LEMMA MarketHeld ==
    ASSUME TypeOK, MarketInv, MarketKept, NEW m \in Monitors, monitor[m] # Idle,
           monitor'[m] = monitor[m]
    PROVE  \A i \in DOMAIN monitor'[m].seen :
               /\ monitor'[m].seen[i].card = rows'[i].card
               /\ monitor'[m].phase \in {"pending", "open"}
               /\ monitor'[m].phase = "pending" =>
                     monitor'[m].seen[i].card.born # "market"
               /\ monitor'[m].phase = "open" => monitor'[m].seen[i].status = "OPEN"
<1>1. DOMAIN monitor[m].seen \subseteq DOMAIN rows
  BY DEF TypeOK, MonitorOK
<1> QED BY <1>1 DEF MarketInv, MarketKept

LEMMA MarketStep == TypeOK /\ MarketInv /\ [Next]_vars => MarketInv'
<1> SUFFICES ASSUME TypeOK, MarketInv, [Next]_vars
             PROVE  MarketInv'
  OBVIOUS
<1>0. MarketKept
  BY MarketKeptStep
<1>a. ASSUME DOMAIN rows' = DOMAIN rows,
             \A m \in Monitors : \/ monitor'[m] = monitor[m] \/ monitor'[m] = Idle
                                 \/ DOMAIN monitor'[m].seen = {}
      PROVE  MarketInv'
  <2>1. \A i \in DOMAIN rows' :
            rows'[i].card.born = "market" => rows'[i].status # "PENDING"
    BY <1>0, <1>a DEF MarketInv, MarketKept
  <2>2. ASSUME NEW m \in Monitors, monitor'[m] # Idle
        PROVE  \A i \in DOMAIN monitor'[m].seen :
                   /\ monitor'[m].seen[i].card = rows'[i].card
                   /\ monitor'[m].phase \in {"pending", "open"}
                   /\ monitor'[m].phase = "pending" =>
                         monitor'[m].seen[i].card.born # "market"
                   /\ monitor'[m].phase = "open" => monitor'[m].seen[i].status = "OPEN"
    BY <1>0, <1>a, <2>2, MarketHeld
  <2> QED BY <2>1, <2>2 DEF MarketInv
<1>1. ASSUME NEW o \in Openers, OpenPosition(o)
      PROVE  MarketInv'
  <2>1. monitor' = monitor
    BY <1>1 DEF OpenPosition
  <2> DEFINE row == NewRow(opener[o].card, opener[o].until)
  <2>2. row.card.born = "market" => row.status # "PENDING"
    <3>1. opener[o].card \in Card
      BY <1>1, CardsAssumption DEF OpenPosition, TypeOK, OpenerState, Idle
    <3> QED BY <3>1 DEF NewRow, Card
  <2> HIDE DEF row
  <2>3. rows' = Append(rows, row)
    BY <1>1 DEF OpenPosition, row
  <2>4. \A i \in DOMAIN rows' : rows'[i] = row \/ (i \in DOMAIN rows /\ rows'[i] = rows[i])
    BY <2>3 DEF TypeOK
  <2>5. \A i \in DOMAIN rows' :
            rows'[i].card.born = "market" => rows'[i].status # "PENDING"
    BY <2>2, <2>4 DEF MarketInv
  <2>6. ASSUME NEW m \in Monitors, monitor'[m] # Idle
        PROVE  \A i \in DOMAIN monitor'[m].seen :
                   /\ monitor'[m].seen[i].card = rows'[i].card
                   /\ monitor'[m].phase \in {"pending", "open"}
                   /\ monitor'[m].phase = "pending" =>
                         monitor'[m].seen[i].card.born # "market"
                   /\ monitor'[m].phase = "open" => monitor'[m].seen[i].status = "OPEN"
    BY <1>0, <2>1, <2>6, MarketHeld
  <2> QED BY <2>5, <2>6 DEF MarketInv
<1>2. ASSUME NEW m \in Monitors, NEW price \in Prices, NEW box \in Boxes \cup {NoBox},
             ReadPending(m, price, box)
      PROVE  MarketInv'
  <2>1. \A n \in Monitors : n # m => monitor'[n] = monitor[n]
    BY <1>2 DEF ReadPending, TypeOK
  <2>2. /\ monitor'[m].seen = Snapshot("PENDING") /\ monitor'[m].phase = "pending"
        /\ rows' = rows
    BY <1>2 DEF ReadPending, TypeOK
  <2> QED BY <2>1, <2>2 DEF MarketInv, Snapshot
<1>3. ASSUME NEW m \in Monitors, CommitPending(m)
      PROVE  MarketInv'
  <2>1. \A n \in Monitors : n # m => monitor'[n] = monitor[n]
    BY <1>3 DEF CommitPending, TypeOK
  <2>2. monitor'[m].seen = <<>> /\ DOMAIN rows' = DOMAIN rows
    BY <1>3 DEF CommitPending, TypeOK, Flushed
  <2> QED BY <1>a, <2>1, <2>2
<1>4. ASSUME NEW m \in Monitors, ReadOpen(m)
      PROVE  MarketInv'
  <2>1. \A n \in Monitors : n # m => monitor'[n] = monitor[n]
    BY <1>4 DEF ReadOpen, TypeOK
  <2>2. /\ monitor'[m].seen = Snapshot("OPEN") /\ monitor'[m].phase = "open"
        /\ rows' = rows
    BY <1>4 DEF ReadOpen, TypeOK
  <2> QED BY <2>1, <2>2 DEF MarketInv, Snapshot
<1>5. ASSUME NEW m \in Monitors, CommitOpen(m)
      PROVE  MarketInv'
  <2>1. \A n \in Monitors : monitor'[n] = monitor[n] \/ monitor'[n] = Idle
    BY <1>5 DEF CommitOpen, TypeOK
  <2>2. DOMAIN rows' = DOMAIN rows
    BY <1>5 DEF CommitOpen, Flushed
  <2> QED BY <1>a, <2>1, <2>2
<1>6. CASE RequestFails \/ AppRestarts
  BY <1>a, <1>6 DEF RequestFails, AppRestarts, TypeOK
<1>7. ASSUME UNCHANGED <<rows, monitor>>
      PROVE  MarketInv'
  BY <1>a, <1>7
<1> QED
  BY <1>1, <1>2, <1>3, <1>4, <1>5, <1>6, <1>7
  DEF Next, OpenerStep, MonitorStep, StartMonitor, Tick, CheckDuplicate, CheckExposure,
      vars

LEMMA DayOrder ==
    ASSUME NEW t \in Nat, NEW u \in Nat, t <= u
    PROVE  Day(t) \in Nat /\ Day(u) \in Nat /\ Day(t) <= Day(u)
BY DEF Day

LEMMA DaySets ==
    ASSUME TypeOK, NEW card, NEW day
    PROVE  /\ IsFiniteSet(OpenToday(card, day)) /\ IsFiniteSet(InFlight(card))
           /\ Cardinality(OpenToday(card, day)) \in Nat
           /\ Cardinality(InFlight(card)) \in Nat
           /\ Cardinality(InFlight(card)) <= Cardinality(Openers)
           /\ Cardinality(Openers) \in Nat
<1>1. OpenToday(card, day) \subseteq 1 .. Len(rows) /\ Len(rows) \in Nat
  BY DEF OpenToday, TypeOK
<1>2. IsFiniteSet(1 .. Len(rows))
  BY <1>1, FS_Interval
<1>3. InFlight(card) \subseteq Openers
  BY DEF InFlight
<1> QED BY <1>1, <1>2, <1>3, OpenersAssumption, SubsetSize

LEMMA DayInit == Init => DayInv
<1> SUFFICES ASSUME Init
             PROVE  DayInv
  OBVIOUS
<1>1. \A card, day : OpenToday(card, day) = {}
  BY DEF Init, OpenToday
<1>2. \A card : InFlight(card) = {}
  BY DEF Init, InFlight
<1>3. Cardinality({}) = 0 /\ Cardinality(Openers) \in Nat
  BY OpenersAssumption, FS_CardinalityType, FS_EmptySet
<1>4. \A card, day : Cardinality(OpenToday(card, day)) = 0
  BY <1>1, <1>3
<1>5. \A card : Cardinality(InFlight(card)) = 0
  BY <1>2, <1>3
<1> QED BY <1>3, <1>4, <1>5 DEF Init, DayInv, DuplicatesBounded

\* A day's open positions are those there were and the row that is new.
LEMMA OpenTodayStep ==
    ASSUME MarketKept, NEW card, NEW day
    PROVE  OpenToday(card, day)' \subseteq OpenToday(card, day) \cup (DOMAIN rows' \ DOMAIN rows)
<1> SUFFICES ASSUME NEW i, i \in OpenToday(card, day)', i \in DOMAIN rows
             PROVE  i \in OpenToday(card, day)
  BY DEF OpenToday
<1>1. /\ rows'[i].status = "OPEN" /\ rows'[i].card.born = "market"
      /\ rows'[i].card.side = card.side /\ rows'[i].card.type = card.type
      /\ Day(rows'[i].opened) = day
  BY DEF OpenToday, Day
<1>2. rows[i].card = rows'[i].card /\ rows[i].opened = rows'[i].opened
      /\ rows[i].status = "OPEN"
  BY <1>1 DEF MarketKept
<1> QED BY <1>1, <1>2 DEF OpenToday

\* Without a new row or request, and without the clock, nothing can go wrong.
LEMMA DayQuiet ==
    ASSUME TypeOK, TypeOK', DayInv, MarketKept, now' = now, DOMAIN rows' = DOMAIN rows,
           \A card \in Cards : InFlight(card)' \subseteq InFlight(card)
    PROVE  DayInv'
<1>1. \A i \in DOMAIN rows' : rows'[i].card.born = "market" => rows'[i].opened <= now'
  BY DEF DayInv, MarketKept
<1>2. ASSUME NEW card, NEW day
      PROVE  /\ Cardinality(OpenToday(card, day)') \in Nat
             /\ Cardinality(OpenToday(card, day)') <= Cardinality(OpenToday(card, day))
  <2>1. OpenToday(card, day)' \subseteq OpenToday(card, day)
    BY OpenTodayStep
  <2> QED BY <2>1, DaySets, SubsetSize
<1>3. ASSUME NEW card \in Cards, NEW t \in Times
      PROVE  Cardinality(OpenToday(card, Day(t))') <= Cardinality(Openers)
  <2>1. Cardinality(OpenToday(card, Day(t))) <= Cardinality(Openers)
    BY DEF DayInv, DuplicatesBounded
  <2>2. Cardinality(OpenToday(card, Day(t))) \in Nat /\ Cardinality(Openers) \in Nat
    BY DaySets
  <2> QED BY <1>2, <2>1, <2>2
<1>4. ASSUME NEW card \in Cards
      PROVE  Cardinality(OpenToday(card, Day(now))') + Cardinality(InFlight(card)')
                 <= Cardinality(Openers)
  <2>1. PICK day : day = Day(now)
    OBVIOUS
  <2>2. Cardinality(OpenToday(card, day)) + Cardinality(InFlight(card))
            <= Cardinality(Openers)
    BY <2>1 DEF DayInv
  <2>3. /\ Cardinality(InFlight(card)') \in Nat
        /\ Cardinality(InFlight(card)') <= Cardinality(InFlight(card))
    BY DaySets, SubsetSize
  <2>4. /\ Cardinality(OpenToday(card, day)) \in Nat
        /\ Cardinality(InFlight(card)) \in Nat /\ Cardinality(Openers) \in Nat
    BY DaySets
  <2>5. OpenToday(card, Day(now))' = OpenToday(card, day)'
    BY <2>1 DEF OpenToday, Day
  <2>6. Cardinality(OpenToday(card, day)') + Cardinality(InFlight(card)')
            <= Cardinality(Openers)
    BY <1>2, <2>2, <2>3, <2>4
  <2> QED BY <2>5, <2>6
<1> QED BY <1>1, <1>3, <1>4 DEF DayInv, DuplicatesBounded

\* At midnight the new day has no position yet.
LEMMA DayTick ==
    ASSUME TypeOK, DayInv, Tick
    PROVE  DayInv'
<1>1. now \in Nat /\ now' \in Nat /\ now < now' /\ rows' = rows /\ opener' = opener
  BY ScheduleAssumption DEF Tick, TypeOK
<1>2. \A i \in DOMAIN rows' : rows'[i].card.born = "market" => rows'[i].opened <= now'
  <2>1. \A i \in DOMAIN rows : rows[i].opened \in Nat
    <3>1. \A i \in DOMAIN rows : rows[i] \in Row
      BY DEF TypeOK
    <3> QED BY <3>1 DEF Row
  <2> QED BY <1>1, <2>1 DEF DayInv
<1>3. ASSUME NEW card \in Cards
      PROVE  Cardinality(OpenToday(card, Day(now))') + Cardinality(InFlight(card)')
                 <= Cardinality(Openers)
  <2>1. PICK day : day = Day(now')
    OBVIOUS
  <2>2. InFlight(card)' = InFlight(card) /\ OpenToday(card, Day(now))' = OpenToday(card, day)
    BY <1>1, <2>1 DEF InFlight, OpenToday, Day
  <2>3. CASE day = Day(now)
    BY <2>2, <2>3 DEF DayInv
  <2>4. CASE day # Day(now)
    <3>1. \A i \in DOMAIN rows : i \notin OpenToday(card, day)
      <4> SUFFICES ASSUME NEW i \in DOMAIN rows, i \in OpenToday(card, day)
                   PROVE  FALSE
        OBVIOUS
      <4>1. rows[i] \in Row /\ rows[i].card.born = "market" /\ Day(rows[i].opened) = day
        BY DEF OpenToday, TypeOK
      <4>2. rows[i].opened \in Nat /\ rows[i].opened <= now
        BY <4>1 DEF DayInv, Row
      <4>3. Day(rows[i].opened) <= Day(now) /\ Day(now) <= Day(now')
            /\ Day(now) \in Nat /\ Day(now') \in Nat
        BY <1>1, <4>2, DayOrder
      <4> QED BY <2>1, <2>4, <4>1, <4>3
    <3>2. OpenToday(card, day) = {}
      BY <3>1 DEF OpenToday
    <3>3. Cardinality(OpenToday(card, day)) = 0
      BY <3>2, FS_EmptySet
    <3> QED BY <2>2, <3>3, DaySets
  <2> QED BY <2>3, <2>4
<1>4. DuplicatesBounded'
  BY <1>1 DEF DayInv, DuplicatesBounded, OpenToday
<1> QED BY <1>2, <1>3, <1>4 DEF DayInv

\* A request passes the duplicate check only when the day holds no such position.
LEMMA DayChecked ==
    ASSUME TypeOK, DayInv, NEW o \in Openers, NEW card \in Cards, CheckDuplicate(o, card)
    PROVE  DayInv'
<1>1. rows' = rows /\ now' = now
  BY DEF CheckDuplicate
<1>2. ASSUME NEW c \in Cards
      PROVE  Cardinality(OpenToday(c, Day(now))') + Cardinality(InFlight(c)')
                 <= Cardinality(Openers)
  <2>1. OpenToday(c, Day(now))' = OpenToday(c, Day(now))
    BY <1>1 DEF OpenToday, Day
  <2>2. \A p \in Openers : p # o => opener'[p] = opener[p]
    BY DEF CheckDuplicate, TypeOK
  <2>3. opener'[o].card = card
    BY DEF CheckDuplicate, TypeOK
  <2>4. CASE o \notin InFlight(c)'
    <3>1. InFlight(c)' \subseteq InFlight(c)
      BY <2>2, <2>4 DEF InFlight
    <3>2. /\ Cardinality(InFlight(c)') \in Nat
          /\ Cardinality(InFlight(c)') <= Cardinality(InFlight(c))
      BY <3>1, DaySets, SubsetSize
    <3>3. Cardinality(OpenToday(c, Day(now))) + Cardinality(InFlight(c))
              <= Cardinality(Openers)
      BY DEF DayInv
    <3> QED BY <2>1, <3>2, <3>3, DaySets
  <2>5. CASE o \in InFlight(c)'
    <3>1. c.side = card.side /\ c.type = card.type
      BY <2>3, <2>5 DEF InFlight
    <3>2. ~OpenSameSideToday(card)
      BY DEF CheckDuplicate
    <3>3. OpenToday(c, Day(now)) = {}
      BY <3>1, <3>2 DEF OpenToday, OpenSameSideToday
    <3>4. Cardinality(OpenToday(c, Day(now))) = 0
      BY <3>3, FS_EmptySet
    <3>5. /\ Cardinality(InFlight(c)') \in Nat
          /\ Cardinality(InFlight(c)') <= Cardinality(Openers)
          /\ Cardinality(Openers) \in Nat
      <4>1. InFlight(c)' \subseteq Openers
        BY DEF InFlight
      <4> QED BY <4>1, OpenersAssumption, SubsetSize
    <3> QED BY <2>1, <3>4, <3>5
  <2> QED BY <2>4, <2>5
<1>3. \A i \in DOMAIN rows' : rows'[i].card.born = "market" => rows'[i].opened <= now'
  BY <1>1 DEF DayInv
<1>4. DuplicatesBounded'
  BY <1>1 DEF DayInv, DuplicatesBounded, OpenToday
<1> QED BY <1>2, <1>3, <1>4 DEF DayInv

\* A commit makes the request it was for a row of the day.
LEMMA DayOpened ==
    ASSUME TypeOK, TypeOK', DayInv, MarketKept, NEW o \in Openers, OpenPosition(o)
    PROVE  DayInv'
<1> DEFINE k   == opener[o].card
           row == NewRow(k, opener[o].until)
<1>1. PICK n : n = Len(rows) + 1
  OBVIOUS
<1>2. /\ rows' = Append(rows, row) /\ now' = now /\ opener[o] # Idle
      /\ opener'[o] = Idle /\ \A p \in Openers : p # o => opener'[p] = opener[p]
  BY DEF OpenPosition, TypeOK, Idle
<1>3. row.card = k /\ row.opened = now
  BY DEF NewRow
<1>4. now \in Nat
  BY ScheduleAssumption DEF TypeOK
<1> HIDE DEF k, row
<1>5. /\ DOMAIN rows' = DOMAIN rows \cup {n} /\ rows'[n] = row
      /\ DOMAIN rows' \ DOMAIN rows = {n}
  BY <1>1, <1>2 DEF TypeOK
<1>6. \A i \in DOMAIN rows' : rows'[i].card.born = "market" => rows'[i].opened <= now'
  BY <1>2, <1>3, <1>4, <1>5 DEF DayInv, MarketKept
<1>7. ASSUME NEW c \in Cards, NEW day, n \notin OpenToday(c, day)'
      PROVE  /\ Cardinality(OpenToday(c, day)') \in Nat
             /\ Cardinality(OpenToday(c, day)') <= Cardinality(OpenToday(c, day))
  <2>1. OpenToday(c, day)' \subseteq OpenToday(c, day)
    BY <1>5, <1>7, OpenTodayStep
  <2> QED BY <2>1, DaySets, SubsetSize
<1>8. ASSUME NEW c \in Cards
      PROVE  Cardinality(OpenToday(c, Day(now))') + Cardinality(InFlight(c)')
                 <= Cardinality(Openers)
  <2>1. PICK day : day = Day(now)
    OBVIOUS
  <2>2. OpenToday(c, Day(now))' = OpenToday(c, day)'
    BY <1>2, <2>1 DEF OpenToday, Day
  <2>3. InFlight(c)' \subseteq InFlight(c) \ {o}
    BY <1>2 DEF InFlight
  <2>4. Cardinality(OpenToday(c, day)) + Cardinality(InFlight(c)) <= Cardinality(Openers)
    BY <2>1 DEF DayInv
  <2>5. /\ IsFiniteSet(OpenToday(c, day)) /\ Cardinality(OpenToday(c, day)) \in Nat
        /\ IsFiniteSet(InFlight(c)) /\ Cardinality(InFlight(c)) \in Nat
        /\ Cardinality(Openers) \in Nat
    BY DaySets
  <2>6. CASE n \notin OpenToday(c, day)'
    <3>1. /\ Cardinality(InFlight(c)') \in Nat
          /\ Cardinality(InFlight(c)') <= Cardinality(InFlight(c))
      <4>1. InFlight(c)' \subseteq InFlight(c)
        BY <2>3
      <4> QED BY <2>5, <4>1, SubsetSize
    <3>2. Cardinality(OpenToday(c, day)') + Cardinality(InFlight(c)')
              <= Cardinality(Openers)
      BY <1>7, <2>4, <2>5, <2>6, <3>1
    <3> QED BY <2>2, <3>2
  <2>7. CASE n \in OpenToday(c, day)'
    <3>1. k.born = "market" /\ k.side = c.side /\ k.type = c.type
      BY <1>3, <1>5, <2>7 DEF OpenToday
    <3>2. o \in InFlight(c)
      BY <1>2, <3>1 DEF InFlight, k
    <3>3. /\ IsFiniteSet(InFlight(c) \ {o})
          /\ Cardinality(InFlight(c) \ {o}) = Cardinality(InFlight(c)) - 1
      BY <2>5, <3>2, FS_RemoveElement
    <3>4. /\ Cardinality(InFlight(c)') \in Nat
          /\ Cardinality(InFlight(c)') <= Cardinality(InFlight(c)) - 1
      BY <2>3, <3>3, SubsetSize
    <3>5. OpenToday(c, day)' \subseteq OpenToday(c, day) \cup {n}
      BY <1>5, OpenTodayStep
    <3>6. /\ IsFiniteSet(OpenToday(c, day) \cup {n})
          /\ Cardinality(OpenToday(c, day) \cup {n})
                 \in {Cardinality(OpenToday(c, day)), Cardinality(OpenToday(c, day)) + 1}
      BY <2>5, FS_AddElement
    <3>7. /\ Cardinality(OpenToday(c, day)') \in Nat
          /\ Cardinality(OpenToday(c, day)') <= Cardinality(OpenToday(c, day) \cup {n})
      BY <3>5, <3>6, SubsetSize
    <3>8. Cardinality(OpenToday(c, day)') + Cardinality(InFlight(c)')
              <= Cardinality(Openers)
      BY <2>4, <2>5, <3>4, <3>6, <3>7
    <3> QED BY <2>2, <3>8
  <2> QED BY <2>6, <2>7
<1>9. ASSUME NEW c \in Cards, NEW t \in Times
      PROVE  Cardinality(OpenToday(c, Day(t))') <= Cardinality(Openers)
  <2>1. PICK day : day = Day(t)
    OBVIOUS
  <2>2. CASE n \in OpenToday(c, day)'
    <3>1. day = Day(now)
      BY <1>3, <1>5, <2>2 DEF OpenToday, Day
    <3>2. OpenToday(c, Day(t))' = OpenToday(c, Day(now))'
      BY <1>2, <2>1, <3>1 DEF OpenToday, Day
    <3>3. Cardinality(OpenToday(c, day)') \in Nat
      <4>1. OpenToday(c, day)' \subseteq OpenToday(c, day) \cup {n}
        BY <1>5, OpenTodayStep
      <4>2. IsFiniteSet(OpenToday(c, day) \cup {n})
        BY DaySets, FS_AddElement
      <4> QED BY <4>1, <4>2, SubsetSize
    <3>4. Cardinality(InFlight(c)') \in Nat
      <4>1. InFlight(c)' \subseteq Openers
        BY DEF InFlight
      <4> QED BY <4>1, OpenersAssumption, SubsetSize
    <3>5. Cardinality(OpenToday(c, Day(t))') \in Nat
      BY <2>1, <3>3
    <3> QED BY <1>8, <3>2, <3>4, <3>5, DaySets
  <2>3. CASE n \notin OpenToday(c, day)'
    <3>1. Cardinality(OpenToday(c, day)) <= Cardinality(Openers)
      BY <2>1 DEF DayInv, DuplicatesBounded
    <3>2. Cardinality(OpenToday(c, day)') <= Cardinality(Openers)
      BY <1>7, <2>3, <3>1, DaySets
    <3> QED BY <2>1, <3>2
  <2> QED BY <2>2, <2>3
<1> QED BY <1>6, <1>8, <1>9 DEF DayInv, DuplicatesBounded

LEMMA DayStep ==
    ASSUME TypeOK, MarketInv, DayInv, [Next]_vars
    PROVE  DayInv'
<1>1. TypeOK' /\ MarketKept
  BY TypeStep, MarketKeptStep
<1>2. ASSUME NEW o \in Openers, CheckExposure(o)
      PROVE  DayInv'
  <2>1. \A card \in Cards : InFlight(card)' \subseteq InFlight(card)
    BY <1>2 DEF CheckExposure, InFlight, Idle, TypeOK
  <2> QED BY <1>1, <1>2, <2>1, DayQuiet DEF CheckExposure
<1>3. ASSUME NEW m \in Monitors, MonitorStep(m) \/ StartMonitor(m)
      PROVE  DayInv'
  <2>1. UNCHANGED opener /\ DOMAIN rows' = DOMAIN rows /\ now' = now
    BY <1>3 DEF MonitorStep, StartMonitor, ReadPending, CommitPending, ReadOpen,
                CommitOpen, Flushed
  <2>2. \A card \in Cards : InFlight(card)' \subseteq InFlight(card)
    BY <2>1 DEF InFlight
  <2> QED BY <1>1, <2>1, <2>2, DayQuiet
<1>4. CASE RequestFails \/ AppRestarts \/ UNCHANGED vars
  <2>1. \A card \in Cards : InFlight(card)' \subseteq InFlight(card)
    BY <1>4 DEF RequestFails, AppRestarts, vars, InFlight, Idle, TypeOK
  <2>2. DOMAIN rows' = DOMAIN rows /\ now' = now
    BY <1>4 DEF RequestFails, AppRestarts, vars
  <2> QED BY <1>1, <2>1, <2>2, DayQuiet
<1> QED
  BY <1>1, <1>2, <1>3, <1>4, DayTick, DayChecked, DayOpened DEF Next, OpenerStep

\* open_from_signal: with N requests at a time a side and a tier never hold more than N
\* open market positions of a day, for any number of overlapping passes.
THEOREM DuplicatesAreBounded == Spec => []DuplicatesBounded
<1>1. TypeOK /\ MarketInv /\ [Next]_vars => MarketInv'
  BY MarketStep
<1>2. Spec => []MarketInv
  BY <1>1, MarketInit, TypeCorrect, PTL DEF Spec
<1>3. TypeOK /\ MarketInv /\ DayInv /\ [Next]_vars => DayInv'
  BY DayStep
<1>4. DayInv => DuplicatesBounded
  BY DEF DayInv
<1> QED BY <1>2, <1>3, <1>4, DayInit, TypeCorrect, PTL DEF Spec
=============================================================================
