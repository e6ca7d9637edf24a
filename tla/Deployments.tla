---------------------------- MODULE Deployments ----------------------------
(***************************************************************************)
(* The requests that open paper positions by themselves:                   *)
(* services/retracement_service.py (a poll of the retracement state),      *)
(* services/confirm_service.py (a sweep-and-reject) and                    *)
(* services/stratops_service.py (a muster with deploy=True).               *)
(*                                                                         *)
(* A poll and a confirmation remember what they last saw in a marker file, *)
(* whose write may fail unnoticed; a muster and a confirmation respect the *)
(* weekly budget of a tier.  All                                           *)
(* three end in open_from_signal, whose rows GoldPositions follows to      *)
(* their end; here a row is only closed.  A day is counted from a Monday.  *)
(***************************************************************************)
EXTENDS Stratops

CONSTANTS
    Polls, Confirms, Musters,   \* requests of each kind at a time
    Deploying,      \* the polls called with deploy=true
    Readings,       \* the states of the retracement that occur
    Boards,         \* the candidates a muster can gather, in order
    Biases,         \* the order-block biases a muster can read
    SellCard,       \* the card of a SELL_OTE reading
    Rejections,     \* the sized cards a sweep-and-reject can give
    Days,           \* the days on which anything happens
    MaxRows,        \* bound: rows in the table
    MaxRunning,     \* bound: requests running at a time
    MaxFaults       \* bound: markers that are lost

Ticket   == [side : {"long", "short"}, type : TradeTypes, risk : Nat]

ASSUME DeployingAssumption == Deploying \subseteq Polls
ASSUME RequestsAssumption ==
    /\ Polls \cap Confirms = {} /\ Polls \cap Musters = {}
    /\ Confirms \cap Musters = {}
    /\ IsFiniteSet(Polls) /\ IsFiniteSet(Confirms) /\ IsFiniteSet(Musters)
ASSUME CardsAssumption ==
    /\ Readings \subseteq {"SELL_OTE", "SCALP_BOUNCE", "LEAVE"} /\ "LEAVE" \in Readings
    /\ Boards \subseteq Seq(Candidate)
    /\ Biases \subseteq {"long", "short", "none"}
    /\ SellCard \in Ticket /\ Rejections \subseteq Ticket
    /\ Days \subseteq Nat /\ MaxRows \in Nat /\ MaxRunning \in Nat /\ MaxFaults \in Nat

VARIABLES
    day,        \* the day
    marks,      \* the marker files: [retracement, confirm]
    rows,       \* the table gold_positions, by id
    task,       \* what each request has got to
    flip,       \* history: the state last written to the retracement marker
    fed,        \* history: poll rows since flip changed
    lost,       \* history: retracement markers lost since flip changed
    printed,    \* history: the rejection last written to the confirm marker
    taken,      \* history: confirm rows since printed changed
    missed,     \* history: confirm markers lost since printed changed
    faults      \* markers lost so far

flips   == <<flip, fed, lost>>
prints  == <<printed, taken, missed>>
history == <<flips, prints>>
vars    == <<day, marks, rows, task, history, faults>>

Tasks    == Polls \cup Confirms \cup Musters
Budgeted == Confirms \cup Musters
None     == "none"
Idle     == [phase |-> "idle"]
NoRejection == [side |-> None]
NoMarks  == [retracement |-> None, confirm |-> NoRejection]

Init ==
    /\ day \in Days
    /\ marks = NoMarks
    /\ rows = <<>>
    /\ task = [t \in Tasks |-> Idle]
    /\ flip = None /\ fed = 0 /\ lost = 0
    /\ printed = NoRejection /\ taken = 0 /\ missed = 0
    /\ faults = 0

\* The bound on the requests that run at a time.
Room == Cardinality({t \in Tasks : task[t] # Idle}) < MaxRunning

Fault == faults < MaxFaults /\ faults' = faults + 1

\* A write that works costs no fault.
Works(ok) == IF ok THEN UNCHANGED faults ELSE Fault

\* What the requests do not decide: the clock, and the monitor, which closes a position.
DayPasses ==
    /\ day' \in Days /\ day' > day
    /\ UNCHANGED <<marks, rows, task, history, faults>>

PositionCloses ==
    /\ \E i \in DOMAIN rows : /\ rows[i].open
                              /\ rows' = [rows EXCEPT ![i].open = FALSE]
    /\ UNCHANGED <<day, marks, task, history, faults>>

-----------------------------------------------------------------------------
(* Opening what a request has queued, shared by the three.                  *)

Live     == {i \in DOMAIN rows : rows[i].open}
OpenRisk == SumFunctionOnSet([i \in DOMAIN rows |-> rows[i].card.risk], Live)

\* count_by_tier over the rows of this week.
UsedThisWeek ==
    [type \in TradeTypes |->
        Cardinality({i \in DOMAIN rows : /\ rows[i].card.type = type
                                         /\ Week(rows[i].day) = Week(day)})]

SameSideToday(card) ==
    \E i \in Live : /\ rows[i].card.side = card.side
                    /\ rows[i].card.type = card.type
                    /\ rows[i].day = day

\* mutant: the loop is entered with nothing to open
DeployAlways(queue, used) ==
    [phase |-> "deploying", queue |-> queue, used |-> used]

\* A request with these cards to open, having counted used of each tier.
Deploy(queue, used) ==
    IF queue = <<>> THEN Idle
    ELSE [phase |-> "deploying", queue |-> queue, used |-> used]

\* A request that is done with the first of its cards; spent is what it adds to
\* its own count of the tier.
AfterHead(t, spent) ==
    Deploy(Tail(task[t].queue),
           [task[t].used EXCEPT ![Head(task[t].queue).type] = @ + spent])

\* A poll's card goes past the budget.
HasBudget(t) ==
    LET type == Head(task[t].queue).type
    IN  t \in Polls \/ WithinBudget(type, task[t].used[type])

SkipOverBudget(t) ==
    /\ task[t].phase = "deploying"
    /\ ~HasBudget(t)
    /\ task' = [task EXCEPT ![t] = AfterHead(t, 0)]
    /\ UNCHANGED <<day, marks, rows, history, faults>>

\* A duplicate comes back with the id of the row it duplicates, so the request
\* counts it against the budget.
SkipDuplicate(t) ==
    /\ task[t].phase = "deploying"
    /\ HasBudget(t) /\ SameSideToday(Head(task[t].queue))
    /\ task' = [task EXCEPT ![t] = AfterHead(t, 1)]
    /\ UNCHANGED <<day, marks, rows, history, faults>>

PassDuplicate(t) ==
    /\ task[t].phase = "deploying"
    /\ HasBudget(t) /\ ~SameSideToday(Head(task[t].queue))
    /\ task' = [task EXCEPT ![t].phase = "unique"]
    /\ UNCHANGED <<day, marks, rows, history, faults>>

CheckExposure(t) ==
    /\ task[t].phase = "unique"
    /\ task' = [task EXCEPT ![t] =
           IF CanOpen(Cardinality(Live), OpenRisk, Head(task[t].queue).risk)
             THEN [@ EXCEPT !.phase = "cleared"]
             ELSE AfterHead(t, 0)]
    /\ UNCHANGED <<day, marks, rows, history, faults>>

NewRow(t) ==
    [card |-> Head(task[t].queue), day |-> day, open |-> TRUE,
     budgeted |-> t \in Budgeted]

OpenPosition(t) ==
    /\ task[t].phase = "cleared"
    /\ Len(rows) < MaxRows
    /\ rows' = Append(rows, NewRow(t))
    /\ task' = [task EXCEPT ![t] = AfterHead(t, 1)]
    /\ fed' = IF t \in Polls THEN fed + 1 ELSE fed
    /\ taken' = IF t \in Confirms THEN taken + 1 ELSE taken
    /\ UNCHANGED <<day, marks, flip, lost, printed, missed, faults>>

DeployStep(t) ==
    \/ SkipOverBudget(t)
    \/ SkipDuplicate(t)
    \/ PassDuplicate(t)
    \/ CheckExposure(t)
    \/ OpenPosition(t)

-----------------------------------------------------------------------------
(* A poll of the retracement state: state_alert.                            *)

NothingUsed == [type \in TradeTypes |-> 0]

\* live_read: the state the market is in, or LEAVE from a feed without bars.
FetchReading(p) ==
    /\ task[p] = Idle
    /\ Room
    /\ \E seen \in Readings, notify \in BOOLEAN :
         task' = [task EXCEPT ![p] = [phase |-> "read", seen |-> seen, notify |-> notify]]
    /\ UNCHANGED <<day, marks, rows, history, faults>>

\* mutant: only the first reading counts as a change
FirstReading(p) == marks.retracement = None

Flipped(p) == marks.retracement # None /\ marks.retracement # task[p].seen

\* Flipped, or the first reading.
Fresh(p) == Flipped(p) \/ marks.retracement = None

\* mutant: the card is fed on every poll
FeedsEveryPoll(p, fresh) == p \in Deploying /\ task[p].seen = "SELL_OTE"

FeedsPaper(p, fresh) ==
    p \in Deploying /\ task[p].seen = "SELL_OTE" /\ fresh

\* _write_last swallows what goes wrong: the marker stays as it was, or is left empty
\* when the file was opened and not written.
WriteState(state) ==
    \E ok \in BOOLEAN :
        /\ Works(ok)
        /\ marks' \in IF ok THEN {[marks EXCEPT !.retracement = state]}
                     ELSE {marks, [marks EXCEPT !.retracement = None]}
        /\ flip' = IF ok THEN state ELSE flip
        /\ fed' = IF ok /\ state # flip THEN 0 ELSE fed
        /\ lost' = IF ~ok THEN lost + 1 ELSE IF state # flip THEN 0 ELSE lost

\* The marker is written, then auto_feed, whatever became of the marker.
Mark(p, fresh) ==
    /\ WriteState(task[p].seen)
    /\ task' = [task EXCEPT ![p] =
           Deploy(IF FeedsPaper(p, fresh) THEN <<SellCard>> ELSE <<>>, NothingUsed)]

\* A message is sent of a flip, and of any reading when the call forces it.
Alerts(p, force) == task[p].notify /\ (force \/ Flipped(p))

\* A reading that alerts nobody is marked at once: no flip and not forced, or the
\* call asked for no message, and then a flip is marked too.
CompareQuiet(p) ==
    /\ task[p].phase = "read"
    /\ \E force \in BOOLEAN : ~Alerts(p, force)
    /\ Mark(p, Fresh(p))
    /\ UNCHANGED <<day, rows, prints>>

\* The alert goes out and is awaited; the poll goes on whether it arrived or not.
Alert(p) ==
    /\ task[p].phase = "read"
    /\ \E force \in BOOLEAN : Alerts(p, force)
    /\ task' = [task EXCEPT ![p] =
           [phase |-> "alerted", seen |-> task[p].seen, fresh |-> Fresh(p)]]
    /\ UNCHANGED <<day, marks, rows, history, faults>>

MarkAlerted(p) ==
    /\ task[p].phase = "alerted"
    /\ Mark(p, task[p].fresh)
    /\ UNCHANGED <<day, rows, prints>>

PollStep(p) ==
    \/ CompareQuiet(p)
    \/ Alert(p)
    \/ MarkAlerted(p)
    \/ DeployStep(p)

-----------------------------------------------------------------------------
(* A confirmation with deploy=True: confirm.                                *)

\* mutant: a rejection that was seen before is new
AnyRejection(card) == TRUE

NewRejection(card) == marks.confirm # card

\* _write_last, which fails as that of the polls does.
WriteRejection(card) ==
    \E ok \in BOOLEAN :
        /\ Works(ok)
        /\ marks' \in IF ok THEN {[marks EXCEPT !.confirm = card]}
                     ELSE {marks, [marks EXCEPT !.confirm = NoRejection]}
        /\ printed' = IF ok THEN card ELSE printed
        /\ taken' = IF ok /\ card # printed THEN 0 ELSE taken
        /\ missed' = IF ~ok THEN missed + 1 ELSE IF card # printed THEN 0 ELSE missed

\* The M15 shows a sweep-and-reject of some level.  One that was seen before is
\* marked again and dropped.
DropRejection(c) ==
    /\ task[c] = Idle
    /\ \E card \in Rejections : ~NewRejection(card) /\ WriteRejection(card)
    /\ UNCHANGED <<day, rows, task, flips>>

\* A new one is announced, and the message awaited.
AnnounceRejection(c) ==
    /\ task[c] = Idle
    /\ Room
    /\ \E card \in Rejections :
         /\ NewRejection(card)
         /\ task' = [task EXCEPT ![c] = [phase |-> "announced", card |-> card]]
    /\ UNCHANGED <<day, marks, rows, history, faults>>

\* The marker is written before anything is opened, and what became of it is not asked.
\* The week's rows are read next; no other kind of request looks at this marker.
Take(c, card) ==
    /\ WriteRejection(card)
    /\ task' = [task EXCEPT ![c] = Deploy(<<card>>, UsedThisWeek)]
    /\ UNCHANGED <<day, rows, flips>>

MarkRejection(c) ==
    /\ task[c].phase = "announced"
    /\ Take(c, task[c].card)

\* With notify=false a new one is marked at once.
MarkQuietly(c) ==
    /\ task[c] = Idle
    /\ Room
    /\ \E card \in Rejections : NewRejection(card) /\ Take(c, card)

ConfirmStep(c) ==
    \/ DropRejection(c)
    \/ AnnounceRejection(c)
    \/ MarkRejection(c)
    \/ MarkQuietly(c)
    \/ DeployStep(c)

-----------------------------------------------------------------------------
(* A muster with deploy=True.                                               *)

\* Trend longs are left out while the dollar has not flipped.
Unlocked(board, locked) ==
    Filtered(board, {i \in DOMAIN board :
        ~(locked /\ board[i].side = "long" /\ board[i].type \in TrendTiers)})

\* The scans' cards, scaled by conviction; the book is read last.
Muster(m) ==
    /\ task[m] = Idle
    /\ Room
    /\ \E board \in Boards, locked \in BOOLEAN, bias \in Biases :
         LET found == Unlocked(board, locked)
         IN  task' = [task EXCEPT ![m] =
                 [phase |-> "mustered",
                  cands |-> [i \in DOMAIN found |-> WithConviction(found[i], bias)],
                  count |-> Cardinality(Live), risk |-> OpenRisk]]
    /\ UNCHANGED <<day, marks, rows, history, faults>>

TicketOf(c) == [side |-> c.side, type |-> c.type, risk |-> c.risk]

Takes(m) ==
    LET take == Allocate(task[m].cands, task[m].count, task[m].risk)
    IN  [k \in DOMAIN take |-> TicketOf(task[m].cands[take[k]])]

\* A SELL_OTE reading is fed after the takes, but only if there is one.
Engagement(m, sell) ==
    LET takes == Takes(m)
    IN  IF takes # <<>> /\ sell THEN Append(takes, SellCard) ELSE takes

\* The retracement may read SELL_OTE, and does not when its read fails.  The week's rows
\* are read once, then the allocation is worked out.
Engage(m) ==
    /\ task[m].phase = "mustered"
    /\ \E sell \in BOOLEAN :
         task' = [task EXCEPT ![m] = Deploy(Engagement(m, sell), UsedThisWeek)]
    /\ UNCHANGED <<day, marks, rows, history, faults>>

MusterStep(m) ==
    \/ Engage(m)
    \/ DeployStep(m)

-----------------------------------------------------------------------------
(* Failures.                                                                *)

\* A request ends in an exception or its client gives up.
RequestFails ==
    /\ \E t \in Tasks : /\ task[t] # Idle
                        /\ task' = [task EXCEPT ![t] = Idle]
    /\ UNCHANGED <<day, marks, rows, history, faults>>

\* A deployment starts with an empty state directory.  A restart that keeps it does to
\* the running requests what RequestFails does.
AppRestarts ==
    /\ Fault
    /\ task' = [t \in Tasks |-> Idle]
    /\ marks' = NoMarks
    /\ lost' = lost + 1 /\ missed' = missed + 1
    /\ UNCHANGED <<day, rows, flip, fed, printed, taken>>

-----------------------------------------------------------------------------
Next ==
    \/ DayPasses
    \/ PositionCloses
    \/ \E p \in Polls : FetchReading(p) \/ PollStep(p)
    \/ \E c \in Confirms : ConfirmStep(c)
    \/ \E m \in Musters : Muster(m) \/ MusterStep(m)
    \/ RequestFails
    \/ AppRestarts

Spec == Init /\ [][Next]_vars

-----------------------------------------------------------------------------
(* Properties.                                                              *)

TaskState ==
    {Idle}
    \cup [phase : {"deploying", "unique", "cleared"}, queue : Seq(Ticket) \ {<<>>},
          used : [TradeTypes -> Nat]]
    \cup [phase : {"read"}, seen : Readings, notify : BOOLEAN]
    \cup [phase : {"alerted"}, seen : Readings, fresh : BOOLEAN]
    \cup [phase : {"announced"}, card : Rejections]
    \cup [phase : {"mustered"}, cands : Seq(Candidate),
          count : Nat, risk : Nat]

TypeOK ==
    /\ day \in Days
    /\ marks \in [retracement : Readings \cup {None},
                  confirm : Rejections \cup {NoRejection}]
    /\ rows \in Seq([card : Ticket, day : Nat, open : BOOLEAN, budgeted : BOOLEAN])
    /\ task \in [Tasks -> TaskState]
    /\ flip \in Readings \cup {None} /\ printed \in Rejections \cup {NoRejection}
    /\ {fed, lost, taken, missed, faults} \subseteq Nat

\* trade_budget: the counts are read once and spent over several awaits, so each
\* request can overrun a tier's week by its own cap, and all together no further.
BudgetedThisWeek(type, d) ==
    {i \in DOMAIN rows : /\ rows[i].budgeted /\ rows[i].card.type = type
                         /\ Week(rows[i].day) = Week(d)}

WeeklyBudgetBounded ==
    \A type \in TradeTypes, d \in Days :
        Cardinality(BudgetedThisWeek(type, d))
            <= WeeklyBudget[type] * Cardinality(Budgeted)

\* state_alert, "fire ONE Telegram when the state TRANSITIONS": however the polls
\* overlap, whatever moves the marker from one state to another is a poll that has sent
\* the message of the new state first, or one that was called with notify=false and
\* tells nobody.  Whether a message that was sent arrives is not asked.
FlipAnnounced ==
    [][LET old == marks.retracement
           new == marks'.retracement
       IN  old # None /\ new # None /\ new # old =>
               \E p \in Polls :
                   /\ task'[p] # task[p]
                   /\ \/ task[p].phase = "alerted"
                      \/ task[p].phase = "read" /\ ~task[p].notify
                   /\ task[p].seen = new]_vars

\* state_alert: "only auto-feed on a genuine transition INTO SELL_OTE (not every
\* poll)": between two changes of the marker each deploying poll opens at most one,
\* and at most one more for each time the marker was lost: its write failed unnoticed,
\* or a restart emptied the directory.
FedOncePerFlip == fed <= Cardinality(Deploying) * (1 + lost)

\* confirm: "stays quiet until a NEW rejection prints": between two changes of the
\* marker each confirmation opens the rejection at most once.  A lost marker makes it
\* new to each of them again, besides the rejection whose own write was lost.
RejectionTakenOnce ==
    taken <= Cardinality(Confirms) + (Cardinality(Confirms) + 1) * missed

=============================================================================
