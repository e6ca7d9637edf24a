--------------------------- MODULE GoldPositions ---------------------------
(***************************************************************************)
(* services/gold_positions.py: the table gold_positions, the requests that *)
(* open a position from a signal or arm a limit, and the monitor passes    *)
(* that fill, cancel, trail and close them.                                *)
(*                                                                         *)
(* The handlers run in one event loop and give way at every await on the   *)
(* database, so what a handler read may be stale when it writes.  A flush  *)
(* writes the columns a handler changed and no other.                      *)
(***************************************************************************)
EXTENDS PositionRules, Functions

CONSTANTS
    Openers,        \* requests inside open_from_signal / open_limit at a time
    Monitors,       \* requests inside monitor() at a time
    Cards,          \* the cards that pass the prop gate
    Prices,         \* prices a monitor pass can be called with
    Boxes,          \* pre-London boxes, [low, high]
    Times,          \* the hours at which anything happens
    MaxRows,        \* bound: rows in the table
    MaxFaults       \* bound: exceptions and restarts

ASSUME CardsAssumption == Cards \subseteq Card
ASSUME OpenersAssumption == IsFiniteSet(Openers)
ASSUME RiskAssumption ==
    /\ Openers # {} /\ Cards # {}
    /\ IsFiniteSet({card.risk : card \in Cards})
ASSUME ScheduleAssumption ==
    /\ Prices \subseteq Int /\ Times \subseteq Nat
    /\ Boxes \subseteq [low : Int, high : Int]
    /\ MaxRows \in Nat /\ MaxFaults \in Nat

VARIABLES
    now,        \* the time
    rows,       \* the table; the id is the index
    opener,     \* [Openers -> [phase, card, until]]
    monitor,    \* [Monitors -> [phase, price, box, at, seen]]
    faults      \* faults so far

vars == <<now, rows, opener, monitor, faults>>

NoBox == [low |-> 0, high |-> -1]     \* no level dictionary
Idle  == [phase |-> "idle"]

Init ==
    /\ now \in Times
    /\ rows = <<>>
    /\ opener = [o \in Openers |-> Idle]
    /\ monitor = [m \in Monitors |-> Idle]
    /\ faults = 0

Fault == faults < MaxFaults /\ faults' = faults + 1

Tick ==
    /\ now' \in Times /\ now' > now
    /\ UNCHANGED <<rows, opener, monitor, faults>>

-----------------------------------------------------------------------------
(* Opening.                                                                 *)

Live == {i \in DOMAIN rows : rows[i].status \in {"OPEN", "PENDING"}}

\* open_risk
OpenRisk == SumFunctionOnSet([i \in DOMAIN rows |-> rows[i].card.risk], Live)

Day(t) == t \div 24

\* mutant: the armed limits are looked at instead
PendingSameSideToday(card) ==
    \E i \in DOMAIN rows : /\ rows[i].status = "PENDING"
                           /\ rows[i].card.side = card.side
                           /\ rows[i].card.type = card.type
                           /\ Day(rows[i].opened) = Day(now)

\* _open_same_side_today: only OPEN rows are looked at.
OpenSameSideToday(card) ==
    \E i \in DOMAIN rows : /\ rows[i].status = "OPEN"
                           /\ rows[i].card.side = card.side
                           /\ rows[i].card.type = card.type
                           /\ Day(rows[i].opened) = Day(now)

\* The bound on the table counts the rows that are on their way.
RoomForRow == Len(rows) + Cardinality({o \in Openers : opener[o] # Idle}) < MaxRows

\* The caller fixes a limit's expiry; the duplicate check is the first read.
CheckDuplicate(o, card) ==
    /\ opener[o] = Idle
    /\ RoomForRow
    /\ ~OpenSameSideToday(card)
    /\ opener' = [opener EXCEPT ![o] =
           [phase |-> "unique", card |-> card, until |-> LimitExpiry(card.type, now)]]
    /\ UNCHANGED <<now, rows, monitor, faults>>

\* The second read is the exposure cap; a card with no room is skipped.  The
\* deadline of a market position is fixed here.
CheckExposure(o) ==
    /\ opener[o].phase = "unique"
    /\ LET card == opener[o].card
       IN  opener' = [opener EXCEPT ![o] =
               IF CanOpen(Cardinality(Live), OpenRisk, card.risk)
                 THEN [phase |-> "cleared", card |-> card,
                       until |-> IF card.born = "limit" THEN opener[o].until
                                 ELSE DeadlineFor(card.type, now, card.end)]
                 ELSE Idle]
    /\ UNCHANGED <<now, rows, monitor, faults>>

\* mutant: an armed limit gets a status nobody reads
NewRowArmed(card, until) ==
    [card |-> card, status |-> IF card.born = "limit" THEN "ARMED" ELSE "OPEN",
     opened |-> now, until |-> until, be |-> FALSE, tp |-> 0, stop |-> card.stop,
     exit |-> 0, reason |-> ""]

NewRow(card, until) ==
    [card |-> card, status |-> IF card.born = "limit" THEN "PENDING" ELSE "OPEN",
     opened |-> now, until |-> until, be |-> FALSE, tp |-> 0, stop |-> card.stop,
     exit |-> 0, reason |-> ""]

\* The row is committed.
OpenPosition(o) ==
    /\ opener[o].phase = "cleared"
    /\ rows' = Append(rows, NewRow(opener[o].card, opener[o].until))
    /\ opener' = [opener EXCEPT ![o] = Idle]
    /\ UNCHANGED <<now, monitor, faults>>

-----------------------------------------------------------------------------
(* A monitor pass: two reads, each followed by a commit.                    *)

\* mutant: the rows that have ended are read too
SnapshotAll(status) == [i \in DOMAIN rows |-> rows[i]]

Snapshot(status) ==
    [i \in {j \in DOMAIN rows : rows[j].status = status} |-> rows[i]]

\* The pass is called with a price and reads the clock; it selects the limits.
ReadPending(m, price, box) ==
    /\ monitor[m] = Idle
    /\ monitor' = [monitor EXCEPT ![m] =
           [phase |-> "pending", price |-> price, box |-> box, at |-> now,
            seen |-> Snapshot("PENDING")]]
    /\ UNCHANGED <<now, rows, opener, faults>>

\* The columns that differ between what a pass read and what it leaves.
Flush(row, read, new) ==
    LET Keep(old, was, is) == IF was = is THEN old ELSE is
    IN  [card   |-> row.card,
         status |-> Keep(row.status, read.status, new.status),
         opened |-> Keep(row.opened, read.opened, new.opened),
         until  |-> Keep(row.until, read.until, new.until),
         be     |-> Keep(row.be, read.be, new.be),
         tp     |-> Keep(row.tp, read.tp, new.tp),
         stop   |-> Keep(row.stop, read.stop, new.stop),
         exit   |-> Keep(row.exit, read.exit, new.exit),
         reason |-> Keep(row.reason, read.reason, new.reason)]

\* The table after the rows a pass has seen are left as in new.
Flushed(seen, new) ==
    [i \in DOMAIN rows |->
        IF i \in DOMAIN seen THEN Flush(rows[i], seen[i], new[i]) ELSE rows[i]]

PendingOutcome(m, row) ==
    LET action == EvaluatePending(row, monitor[m].price, monitor[m].at)
    IN  CASE action = "fill"   -> Filled(row, monitor[m].at)
          [] action = "cancel" -> Cancelled(row)
          [] OTHER             -> row

\* Fills and cancellations are committed; the pass goes on.
CommitPending(m) ==
    /\ monitor[m].phase = "pending"
    /\ LET seen == monitor[m].seen
       IN  rows' = Flushed(seen, [i \in DOMAIN seen |-> PendingOutcome(m, seen[i])])
    /\ monitor' = [monitor EXCEPT ![m] =
           [phase |-> "fills", price |-> monitor[m].price, box |-> monitor[m].box,
            at |-> monitor[m].at, seen |-> <<>>]]
    /\ UNCHANGED <<now, opener, faults>>

ReadOpen(m) ==
    /\ monitor[m].phase = "fills"
    /\ monitor' = [monitor EXCEPT ![m] =
           [phase |-> "open", price |-> monitor[m].price, box |-> monitor[m].box,
            at |-> monitor[m].at, seen |-> Snapshot("OPEN")]]
    /\ UNCHANGED <<now, rows, opener, faults>>

\* The session hold is looked at before the ordinary exits.
OpenOutcome(m, row) ==
    LET box   == monitor[m].box
        price == monitor[m].price
    IN  IF box # NoBox /\ PrelondonExits(row, box, price)
          THEN Closed(row, ReachedLevel(box, row.card.side, price), "PRELONDON")
          ELSE Evaluate(row, price, monitor[m].at)

CommitOpen(m) ==
    /\ monitor[m].phase = "open"
    /\ LET seen == monitor[m].seen
       IN  rows' = Flushed(seen, [i \in DOMAIN seen |-> OpenOutcome(m, seen[i])])
    /\ monitor' = [monitor EXCEPT ![m] = Idle]
    /\ UNCHANGED <<now, opener, faults>>

-----------------------------------------------------------------------------
(* Failures.                                                                *)

\* An exception, or the client gives up: what was not committed is gone.
RequestFails ==
    /\ Fault
    /\ \/ \E o \in Openers : /\ opener[o] # Idle
                             /\ opener' = [opener EXCEPT ![o] = Idle]
                             /\ UNCHANGED monitor
       \/ \E m \in Monitors : /\ monitor[m] # Idle
                              /\ monitor' = [monitor EXCEPT ![m] = Idle]
                              /\ UNCHANGED opener
    /\ UNCHANGED <<now, rows>>

AppRestarts ==
    /\ Fault
    /\ opener' = [o \in Openers |-> Idle]
    /\ monitor' = [m \in Monitors |-> Idle]
    /\ UNCHANGED <<now, rows>>

-----------------------------------------------------------------------------
OpenerStep(o) ==
    \/ \E card \in Cards : CheckDuplicate(o, card)
    \/ CheckExposure(o)
    \/ OpenPosition(o)

MonitorStep(m) ==
    \/ CommitPending(m)
    \/ ReadOpen(m)
    \/ CommitOpen(m)

StartMonitor(m) ==
    \E price \in Prices, box \in Boxes \cup {NoBox} : ReadPending(m, price, box)

Next ==
    \/ Tick
    \/ \E o \in Openers : OpenerStep(o)
    \/ \E m \in Monitors : StartMonitor(m) \/ MonitorStep(m)
    \/ RequestFails
    \/ AppRestarts

Spec == Init /\ [][Next]_vars

\* A pass that has begun goes on, and the cron begins another every hour.
FairSpec ==
    /\ Spec
    /\ \A m \in Monitors : WF_vars(MonitorStep(m)) /\ WF_vars(StartMonitor(m))

-----------------------------------------------------------------------------
(* Properties.                                                              *)

OpenerState ==
    {Idle} \cup [phase : {"unique", "cleared"}, card : Cards, until : Nat]

\* What a pass holds; the rows it has seen are a function on their ids.
MonitorOK(pass) ==
    \/ pass = Idle
    \/ /\ DOMAIN pass = {"phase", "price", "box", "at", "seen"}
       /\ pass.phase \in {"pending", "fills", "open"}
       /\ pass.price \in Prices /\ pass.box \in Boxes \cup {NoBox} /\ pass.at \in Nat
       /\ DOMAIN pass.seen \subseteq DOMAIN rows
       /\ \A i \in DOMAIN pass.seen : pass.seen[i] \in Row

TypeOK ==
    /\ now \in Times
    /\ rows \in Seq(Row)
    /\ opener \in [Openers -> OpenerState]
    /\ DOMAIN monitor = Monitors /\ \A m \in Monitors : MonitorOK(monitor[m])
    /\ faults \in Nat

\* open_from_signal and open_limit check the cap and commit later: each other
\* request that is past its check can push the book one position over, no more.
LiveBounded == Cardinality(Live) <= MaxPositions - 1 + Cardinality(Openers)

\* can_open's risk ceiling under the same race: over by the risk of the other
\* requests' cards at most.
RiskBounded ==
    OpenRisk <= RiskCap + (Cardinality(Openers) - 1) * Max({card.risk : card \in Cards})

\* _open_same_side_today: a side and a tier hold at most one open market position
\* a day for each request that can be past the check at the same time.
OpenToday(card, day) ==
    {i \in DOMAIN rows : /\ rows[i].status = "OPEN" /\ rows[i].card.born = "market"
                         /\ rows[i].card.side = card.side
                         /\ rows[i].card.type = card.type
                         /\ Day(rows[i].opened) = day}

DuplicatesBounded ==
    \A card \in Cards, t \in Times :
        Cardinality(OpenToday(card, Day(t))) <= Cardinality(Openers)

\* evaluate: a position whose stop was trailed to the entry ends at no loss, by
\* its stop, its target or the clock, however many passes later.
TrailedNeverLoses ==
    \A i \in DOMAIN rows :
        rows[i].status = "CLOSED" /\ rows[i].be /\ rows[i].reason # "PRELONDON" =>
            Gain(rows[i].card.side, rows[i].card.entry, rows[i].exit) >= 0

\* evaluate: no ordinary exit loses more than the initial risk or books more than
\* the last target, whatever price the pass came with.
ExitWithinPlan ==
    \A i \in DOMAIN rows :
        LET card == rows[i].card
        IN  rows[i].status = "CLOSED" /\ rows[i].reason # "PRELONDON" =>
                /\ Gain(card.side, card.stop, rows[i].exit) >= 0
                /\ card.targets # <<>> =>
                      Gain(card.side, rows[i].exit, card.targets[Len(card.targets)]) >= 0

\* monitor: while passes do not overlap, a closed or cancelled row keeps its
\* result: a pass that is past its read does not write it again.
ResultsFinal ==
    [][\A i \in DOMAIN rows :
          rows[i].status \in {"CLOSED", "CANCELLED"} => rows'[i] = rows[i]]_vars

\* evaluate: "the stop moves to entry and stays there", also when two passes with
\* different prices write the same row.
BreakEvenStays ==
    [][\A i \in DOMAIN rows : rows[i].be => rows'[i].be]_vars

Overdue(i, status) ==
    i \in DOMAIN rows /\ rows[i].status = status /\ now >= rows[i].until

\* evaluate_pending: no limit stays armed after its expiry.
LimitsResolve ==
    \A i \in 1 .. MaxRows : Overdue(i, "PENDING") ~> ~Overdue(i, "PENDING")

\* evaluate: no position stays open past its deadline.
PositionsEnd ==
    \A i \in 1 .. MaxRows : Overdue(i, "OPEN") ~> ~Overdue(i, "OPEN")

\* prelondon_exit: "close a held trade at the next pre-London CBDR deviation level
\* in its favour".
HoldExitsInFavour ==
    \A i \in DOMAIN rows :
        rows[i].reason = "PRELONDON" =>
            Gain(rows[i].card.side, rows[i].card.entry, rows[i].exit) >= 0

=============================================================================
