--------------------------- MODULE ExecutionQueue ---------------------------
(***************************************************************************)
(* The live-execution path: services/trade_executor.py queues broker       *)
(* orders in the table execution_orders, one mt5_bridge/connector.py       *)
(* process per account polls them, places them at MetaTrader 5 and posts   *)
(* an acknowledgement back.  A leg group (the 250/500 scale-out plan) has  *)
(* its runner's stop moved to break-even by breakeven_sweep, which runs    *)
(* after an acknowledgement and as an endpoint of its own.                 *)
(*                                                                         *)
(* The app is one event loop: a handler runs alone between two awaits, so  *)
(* an action is what a handler does from one commit or read to the next.   *)
(* Prices, volumes and comments are left out; an order is its kind, its    *)
(* account, its place in a leg group and what the bridge reported of it.   *)
(***************************************************************************)
EXTENDS Integers, Sequences, FiniteSets

CONSTANTS
    Connectors,     \* the bridge processes, one per MT5 terminal
    Accounts,       \* the accounts an order can be stamped with ("" if none)
    AccountOf,      \* [Connectors -> Accounts \cup {AllAccounts}]: MT5_ACCOUNT
    AllAccounts,    \* MT5_ACCOUNT unset: the poll has no account filter
    Callers,        \* the requests that can be queueing legs at a time
    Handlers,       \* the ack / breakeven requests in the app at a time
    Plans,          \* leg lists the order builders return, see Leg
    PendingLimit,   \* the limit of pending(), 20 in the code
    RecentLimit,    \* the limit of the sweep's recent(), 400 in the code
    MaxSignals,     \* bound: calls that queue a plan
    MaxFaults,      \* bound: lost or late acks, unclear results, exceptions, restarts
    NoMsg           \* no acknowledgement

Kind   == {"market", "limit", "modify"}
Role   == {"single", "p1", "p2", "runner", "modify"}
Status == {"pending", "sent", "filled", "rejected"}

\* What an order builder decides of one leg; the legs of a group have roles.
Leg == [kind : {"market", "limit"}, role : Role \ {"modify"}, account : Accounts]

Order == [kind : Kind, role : Role, account : Accounts, gid : Nat,
          status : Status, ticket : Nat, beDone : BOOLEAN]

\* A broker-side order or position; its ticket number is its index.
Ticket == [order : Nat, state : {"resting", "open", "closed"},
           stop : {"initial", "breakeven"}]

\* An acknowledgement POST; "attempt" tells two POSTs for one order apart.
Message == [from : Connectors, id : Nat, status : Status \ {"pending"},
            ticket : Nat, attempt : Nat]

\* A break-even move computed by a sweep from the rows it has read.
Move == [runner : Nat, gid : Nat, ticket : Nat, account : Accounts]

ASSUME ConnectorsAssumption ==
    /\ AccountOf \in [Connectors -> Accounts \cup {AllAccounts}]
    /\ \A c, d \in Connectors :
          (c # d) => /\ AccountOf[c] # AllAccounts
                     /\ AccountOf[c] # AccountOf[d]
\* plan_partial_exit: one leg of a group, the last, is its runner; the first is
\* the partial that arms it.
ASSUME PlansAssumption ==
    /\ Plans \subseteq Seq(Leg)
    /\ \A plan \in Plans : \A i, j \in DOMAIN plan :
          plan[i].role = "runner" /\ plan[j].role = "runner" => i = j
    /\ \A plan \in Plans : \A j \in DOMAIN plan :
          plan[j].role = "runner" => \E i \in DOMAIN plan : i < j /\ plan[i].role = "p1"
ASSUME LimitsAssumption ==
    /\ PendingLimit \in Nat \ {0} /\ RecentLimit \in Nat \ {0}
    /\ MaxSignals \in Nat /\ MaxFaults \in Nat
ASSUME HandlersAssumption == IsFiniteSet(Handlers)
ASSUME NoMsgAssumption == NoMsg \notin Message

VARIABLES
    enabled,    \* EXECUTION_ENABLED, read once at import
    signals,    \* plans taken so far; numbers the leg groups
    plans,      \* [Callers -> Seq(Order)]: legs a caller has yet to commit
    orders,     \* the table execution_orders; the id is the index
    conn,       \* [Connectors -> [phase, batch, msg]]
    wire,       \* ack POSTs the app has not begun to serve
    hand,       \* [Handlers -> [phase, todo, runner, reply]]
    tickets,    \* the broker's orders and positions
    faults      \* faults so far

vars == <<enabled, signals, plans, orders, conn, wire, hand, tickets, faults>>

Ready(batch) == [phase |-> "ready", batch |-> batch, msg |-> NoMsg]
IdleHand     == [phase |-> "idle", todo |-> {}, runner |-> 0, reply |-> NoMsg]

Init ==
    /\ enabled \in BOOLEAN
    /\ signals = 0
    /\ plans = [t \in Callers |-> <<>>]
    /\ orders = <<>>
    /\ conn = [c \in Connectors |-> Ready({})]
    /\ wire = {}
    /\ hand = [h \in Handlers |-> IdleHand]
    /\ tickets = <<>>
    /\ faults = 0

\* A fault spends one unit of the budget MaxFaults.
Fault == faults < MaxFaults /\ faults' = faults + 1

-----------------------------------------------------------------------------
(* The producer: maybe_enqueue commits the legs of a plan one at a time.    *)

\* mutant: the column default of status is lost
LegRowsNoStatus(plan, gid) ==
    [i \in DOMAIN plan |->
        [kind |-> plan[i].kind, role |-> plan[i].role, account |-> plan[i].account,
         gid |-> IF plan[i].role = "single" THEN 0 ELSE gid,
         status |-> "", ticket |-> 0, beDone |-> FALSE]]

\* The rows enqueue() writes for a plan: pending, no ticket, not trailed.
LegRows(plan, gid) ==
    [i \in DOMAIN plan |->
        [kind |-> plan[i].kind, role |-> plan[i].role, account |-> plan[i].account,
         gid |-> IF plan[i].role = "single" THEN 0 ELSE gid,
         status |-> "pending", ticket |-> 0, beDone |-> FALSE]]

TakePlan(t, plan) ==
    /\ plans[t] = <<>>
    /\ signals < MaxSignals
    /\ signals' = signals + 1
    /\ plans' = [plans EXCEPT ![t] = LegRows(plan, signals + 1)]
    /\ UNCHANGED <<enabled, orders, conn, wire, hand, tickets, faults>>

\* maybe_enqueue past its switch and its VaR gate (a blocked call does nothing).
MaybeEnqueue(t, plan) == enabled /\ TakePlan(t, plan)

\* A scan called with execute=true queues one order and asks no switch.
EnqueueDirect(t, plan) == Len(plan) = 1 /\ TakePlan(t, plan)

\* enqueue(): one leg is committed; the caller resumes after the commit.
Enqueue(t) ==
    /\ plans[t] # <<>>
    /\ orders' = Append(orders, Head(plans[t]))
    /\ plans' = [plans EXCEPT ![t] = Tail(plans[t])]
    /\ UNCHANGED <<enabled, signals, conn, wire, hand, tickets, faults>>

\* mutant: the leg that cannot be stored is skipped and the next one is tried
EnqueueSkips(t) ==
    /\ plans[t] # <<>>
    /\ Fault
    /\ plans' = [plans EXCEPT ![t] = Tail(plans[t])]
    /\ UNCHANGED <<enabled, signals, orders, conn, wire, hand, tickets>>

\* An exception while a leg is stored: maybe_enqueue returns None, the legs
\* already committed stay in the queue.
EnqueueFails(t) ==
    /\ plans[t] # <<>>
    /\ Fault
    /\ plans' = [plans EXCEPT ![t] = <<>>]
    /\ UNCHANGED <<enabled, signals, orders, conn, wire, hand, tickets>>

-----------------------------------------------------------------------------
(* The connector: poll, place or modify each order, acknowledge it.         *)

Pulls(c, i) == AccountOf[c] \in {AllAccounts, orders[i].account}

PendingFor(c) ==
    {i \in DOMAIN orders : orders[i].status = "pending" /\ Pulls(c, i)}

\* pending(): the oldest rows first, PendingLimit of them at most.
PendingRows(c) ==
    {i \in PendingFor(c) : Cardinality({j \in PendingFor(c) : j < i}) < PendingLimit}

Poll(c) ==
    /\ conn[c].phase = "ready" /\ conn[c].batch = {}
    /\ PendingRows(c) # {}
    /\ conn' = [conn EXCEPT ![c] = Ready(PendingRows(c))]
    /\ UNCHANGED <<enabled, signals, plans, orders, wire, hand, tickets, faults>>

\* The order of the batch the loop is at.
AtHead(c, i) ==
    /\ conn[c].phase = "ready"
    /\ i \in conn[c].batch
    /\ \A j \in conn[c].batch : i <= j

\* The connector has an outcome to report for order i and leaves i behind.
Outcome(c, i, status, ticket) ==
    conn' = [conn EXCEPT ![c] =
        [phase |-> "placed", batch |-> conn[c].batch \ {i},
         msg |-> [from |-> c, id |-> i, status |-> status, ticket |-> ticket,
                  attempt |-> faults]]]

\* Order i takes effect at the broker: a market order is a position at once, a
\* limit order rests.
PlacedAtBroker(c, i) ==
    /\ AtHead(c, i)
    /\ orders[i].kind # "modify"
    /\ tickets' = Append(tickets,
          [order |-> i, state |-> IF orders[i].kind = "market" THEN "open" ELSE "resting",
           stop |-> "initial"])

\* place(): the broker answers DONE or PLACED and names the ticket.
Place(c, i) ==
    /\ PlacedAtBroker(c, i)
    /\ Outcome(c, i, IF orders[i].kind = "market" THEN "filled" ELSE "sent",
               Len(tickets) + 1)
    /\ UNCHANGED <<enabled, signals, plans, orders, wire, hand, faults>>

\* place() takes every other answer for a rejection: a partial fill
\* (DONE_PARTIAL), or none at all (order_send returns None) for an order that
\* was executed.
PlaceUnclear(c, i) ==
    /\ PlacedAtBroker(c, i)
    /\ Fault
    /\ Outcome(c, i, "rejected", 0)
    /\ UNCHANGED <<enabled, signals, plans, orders, wire, hand>>

\* The stop of the position with the order's ticket moves.
MovedAtBroker(c, i) ==
    /\ AtHead(c, i)
    /\ orders[i].kind = "modify"
    /\ orders[i].ticket \in DOMAIN tickets
    /\ tickets[orders[i].ticket].state = "open"
    /\ tickets' = [tickets EXCEPT ![orders[i].ticket] =
           [order |-> tickets[orders[i].ticket].order, state |-> "open",
            stop |-> "breakeven"]]

\* modify()
Modify(c, i) ==
    /\ MovedAtBroker(c, i)
    /\ Outcome(c, i, "filled", orders[i].ticket)
    /\ UNCHANGED <<enabled, signals, plans, orders, wire, hand, faults>>

\* modify() takes no answer for a rejection too, although the stop has moved.
ModifyUnclear(c, i) ==
    /\ MovedAtBroker(c, i)
    /\ Fault
    /\ Outcome(c, i, "rejected", 0)
    /\ UNCHANGED <<enabled, signals, plans, orders, wire, hand>>

\* The broker refuses the order or the modification, no position has the
\* ticket, or the volume is under a cent lot: nothing changes at the broker.
Refuse(c, i) ==
    /\ AtHead(c, i)
    /\ Outcome(c, i, "rejected", 0)
    /\ UNCHANGED <<enabled, signals, plans, orders, wire, hand, tickets, faults>>

\* An exception in place() or modify() ends the pass over the batch.
BatchFails(c) ==
    /\ conn[c].phase = "ready" /\ conn[c].batch # {}
    /\ Fault
    /\ conn' = [conn EXCEPT ![c] = Ready({})]
    /\ UNCHANGED <<enabled, signals, plans, orders, wire, hand, tickets>>

\* ack(): the outcome is posted; the connector waits for the answer.
SendAck(c) ==
    /\ conn[c].phase = "placed"
    /\ conn' = [conn EXCEPT ![c] =
           [phase |-> "acking", batch |-> conn[c].batch, msg |-> conn[c].msg]]
    /\ wire' = wire \cup {conn[c].msg}
    /\ UNCHANGED <<enabled, signals, plans, orders, hand, tickets, faults>>

\* The connectors for which the POST of message m is over.
Released(m) ==
    [c \in Connectors |->
        IF conn[c].phase = "acking" /\ conn[c].msg = m
          THEN Ready(conn[c].batch)
          ELSE conn[c]]

\* mutant: the POST has no timeout, a lost one is waited for
AckLostForever(m) ==
    /\ m \in wire
    /\ Fault
    /\ wire' = wire \ {m}
    /\ UNCHANGED <<enabled, signals, plans, orders, conn, hand, tickets>>

\* The POST never takes effect (network, or an error response): the
\* connector's ack() swallows that and goes on.
AckLost(m) ==
    /\ m \in wire
    /\ Fault
    /\ wire' = wire \ {m}
    /\ conn' = Released(m)
    /\ UNCHANGED <<enabled, signals, plans, orders, hand, tickets>>

\* The POST times out at the connector while the request lives on.
AckTimesOut(c) ==
    /\ conn[c].phase = "acking"
    /\ Fault
    /\ conn' = Released(conn[c].msg)
    /\ UNCHANGED <<enabled, signals, plans, orders, wire, hand, tickets>>

\* The connector process stops and is started again: its batch is gone.
ConnectorRestarts(c) ==
    /\ conn[c] # Ready({})
    /\ Fault
    /\ conn' = [conn EXCEPT ![c] = Ready({})]
    /\ UNCHANGED <<enabled, signals, plans, orders, wire, hand, tickets>>

-----------------------------------------------------------------------------
(* The app: the ack handler and the break-even sweep.                       *)

\* mutant: the handler answers without committing the row
ServeAckNoCommit(h, m) ==
    /\ hand[h].phase = "idle"
    /\ m \in wire
    /\ wire' = wire \ {m}
    /\ hand' = [hand EXCEPT ![h] = [phase |-> "loop", todo |-> {}, runner |-> 0, reply |-> m]]
    /\ UNCHANGED <<enabled, signals, plans, orders, conn, tickets, faults>>

\* mutant: the ticket of an order that rests is not stored
ReportedFilled(o, m) ==
    [kind |-> o.kind, role |-> o.role, account |-> o.account, gid |-> o.gid,
     status |-> m.status, ticket |-> IF m.status = "filled" THEN m.ticket ELSE o.ticket,
     beDone |-> o.beDone]

\* A row with the outcome of message m on it.
Reported(o, m) ==
    [kind |-> o.kind, role |-> o.role, account |-> o.account, gid |-> o.gid,
     status |-> m.status, ticket |-> IF m.ticket # 0 THEN m.ticket ELSE o.ticket,
     beDone |-> o.beDone]

\* mutant: only the arming partial's report is followed by a sweep
ServeAckSweepsP1(h, m) ==
    /\ hand[h].phase = "idle"
    /\ m \in wire
    /\ wire' = wire \ {m}
    /\ orders' = [orders EXCEPT ![m.id] = Reported(orders[m.id], m)]
    /\ hand' = [hand EXCEPT ![h] =
           [phase |-> IF m.status = "filled" /\ orders[m.id].role = "p1"
                        THEN "sweep" ELSE "loop",
            todo |-> {}, runner |-> 0, reply |-> m]]
    /\ UNCHANGED <<enabled, signals, plans, conn, tickets, faults>>

\* ack(): the row takes the status, and the ticket if there is one, whatever
\* it held; a filled leg of a group makes the handler go on with a sweep.
ServeAck(h, m) ==
    /\ hand[h].phase = "idle"
    /\ m \in wire
    /\ wire' = wire \ {m}
    /\ orders' = [orders EXCEPT ![m.id] = Reported(orders[m.id], m)]
    /\ hand' = [hand EXCEPT ![h] =
           [phase |-> IF m.status = "filled" /\ orders[m.id].gid # 0
                        THEN "sweep" ELSE "loop",
            todo |-> {}, runner |-> 0, reply |-> m]]
    /\ UNCHANGED <<enabled, signals, plans, conn, tickets, faults>>

\* POST /execution/breakeven.
CallSweep(h) ==
    /\ hand[h].phase = "idle"
    /\ hand' = [hand EXCEPT ![h] =
           [phase |-> "sweep", todo |-> {}, runner |-> 0, reply |-> NoMsg]]
    /\ UNCHANGED <<enabled, signals, plans, orders, conn, wire, tickets, faults>>

\* recent(db, 400): the newest rows.
RecentRows == {i \in DOMAIN orders : i > Len(orders) - RecentLimit}

Moves(R) ==
    {[runner |-> i, gid |-> orders[i].gid, ticket |-> orders[i].ticket,
      account |-> orders[i].account] : i \in R}

\* mutant: the arming partial is not looked at
MovesUnarmed ==
    Moves({r \in RecentRows : /\ orders[r].role = "runner" /\ orders[r].gid # 0
                              /\ ~orders[r].beDone /\ orders[r].ticket # 0
                              /\ orders[r].status \in {"sent", "filled"}})

\* mutant: be_done is not looked at
MovesAgain ==
    Moves({r \in RecentRows : /\ orders[r].role = "runner" /\ orders[r].gid # 0
                              /\ orders[r].ticket # 0
                              /\ orders[r].status \in {"sent", "filled"}
                              /\ \E p \in RecentRows : /\ orders[p].gid = orders[r].gid
                                                       /\ orders[p].role = "p1"
                                                       /\ orders[p].status = "filled"})

\* breakeven_modifications over the groups among the rows read: the runners
\* with a ticket, not yet trailed, whose arming partial p1 is filled.
BreakevenModifications ==
    Moves({r \in RecentRows : /\ orders[r].role = "runner" /\ orders[r].gid # 0
                              /\ ~orders[r].beDone
                              /\ orders[r].ticket # 0
                              /\ orders[r].status \in {"sent", "filled"}
                              /\ \E p \in RecentRows : /\ orders[p].gid = orders[r].gid
                                                       /\ orders[p].role = "p1"
                                                       /\ orders[p].status = "filled"})

\* breakeven_sweep reads the rows; nothing is read again before it enqueues.
SweepRead(h) ==
    /\ hand[h].phase = "sweep"
    /\ hand' = [hand EXCEPT ![h] =
           [phase |-> "loop", todo |-> IF enabled THEN BreakevenModifications ELSE {},
            runner |-> 0, reply |-> hand[h].reply]]
    /\ UNCHANGED <<enabled, signals, plans, orders, conn, wire, tickets, faults>>

\* mutant: the modify carries the runner's order id in place of its ticket
ModifyRowById(m) ==
    [kind |-> "modify", role |-> "modify", account |-> m.account, gid |-> m.gid,
     status |-> "pending", ticket |-> m.runner, beDone |-> FALSE]

ModifyRow(m) ==
    [kind |-> "modify", role |-> "modify", account |-> m.account, gid |-> m.gid,
     status |-> "pending", ticket |-> m.ticket, beDone |-> FALSE]

\* The modify order is committed ...
SweepEnqueue(h, m) ==
    /\ hand[h].phase = "loop"
    /\ m \in hand[h].todo
    /\ orders' = Append(orders, ModifyRow(m))
    /\ hand' = [hand EXCEPT ![h] =
           [phase |-> "mark", todo |-> hand[h].todo \ {m}, runner |-> m.runner,
            reply |-> hand[h].reply]]
    /\ UNCHANGED <<enabled, signals, plans, conn, wire, tickets, faults>>

Trailed(o) ==
    [kind |-> o.kind, role |-> o.role, account |-> o.account, gid |-> o.gid,
     status |-> o.status, ticket |-> o.ticket, beDone |-> TRUE]

\* ... and in a second transaction the runner is flagged be_done.
SweepMark(h) ==
    /\ hand[h].phase = "mark"
    /\ orders' = [orders EXCEPT ![hand[h].runner] = Trailed(orders[hand[h].runner])]
    /\ hand' = [hand EXCEPT ![h] =
           [phase |-> "loop", todo |-> hand[h].todo, runner |-> 0,
            reply |-> hand[h].reply]]
    /\ UNCHANGED <<enabled, signals, plans, conn, wire, tickets, faults>>

\* The handler answers; a connector still waiting for it goes on.
Respond(h) ==
    /\ hand[h].phase = "loop"
    /\ hand[h].todo = {}
    /\ hand' = [hand EXCEPT ![h] = IdleHand]
    /\ conn' = Released(hand[h].reply)
    /\ UNCHANGED <<enabled, signals, plans, orders, wire, tickets, faults>>

\* An exception inside the sweep: the ack handler swallows it and answers.
SweepFails(h) ==
    /\ hand[h].phase \in {"sweep", "loop", "mark"}
    /\ Fault
    /\ hand' = [hand EXCEPT ![h] = IdleHand]
    /\ conn' = Released(hand[h].reply)
    /\ UNCHANGED <<enabled, signals, plans, orders, wire, tickets>>

\* The app process is redeployed: its requests are gone, the table stays, and
\* the switch is read again.  Connectors waiting on a request get an error.
AppRestarts ==
    /\ Fault
    /\ enabled' \in BOOLEAN
    /\ plans' = [t \in Callers |-> <<>>]
    /\ hand' = [h \in Handlers |-> IdleHand]
    /\ conn' = [c \in Connectors |->
           IF conn[c].phase = "acking" /\ conn[c].msg \notin wire
             THEN Ready(conn[c].batch)
             ELSE conn[c]]
    /\ UNCHANGED <<signals, orders, wire, tickets>>

-----------------------------------------------------------------------------
(* The broker on its own.                                                   *)

LimitFills(k) ==
    /\ tickets[k].state = "resting"
    /\ tickets' = [tickets EXCEPT ![k] =
           [order |-> tickets[k].order, state |-> "open", stop |-> tickets[k].stop]]
    /\ UNCHANGED <<enabled, signals, plans, orders, conn, wire, hand, faults>>

PositionCloses(k) ==
    /\ tickets[k].state = "open"
    /\ tickets' = [tickets EXCEPT ![k] =
           [order |-> tickets[k].order, state |-> "closed", stop |-> tickets[k].stop]]
    /\ UNCHANGED <<enabled, signals, plans, orders, conn, wire, hand, faults>>

-----------------------------------------------------------------------------
CallerStep(t) ==
    \/ \E plan \in Plans : MaybeEnqueue(t, plan) \/ EnqueueDirect(t, plan)
    \/ Enqueue(t)
    \/ EnqueueFails(t)

HandleOrder(c) ==
    \E i \in conn[c].batch : \/ Place(c, i) \/ PlaceUnclear(c, i)
                             \/ Modify(c, i) \/ ModifyUnclear(c, i)
                             \/ Refuse(c, i)

ConnectorStep(c) ==
    \/ Poll(c)
    \/ HandleOrder(c)
    \/ SendAck(c)
    \/ BatchFails(c)
    \/ AckTimesOut(c)
    \/ ConnectorRestarts(c)

SweepStep(h) ==
    \/ SweepRead(h)
    \/ \E m \in hand[h].todo : SweepEnqueue(h, m)
    \/ SweepMark(h)
    \/ Respond(h)

HandlerStep(h) ==
    \/ \E m \in wire : ServeAck(h, m)
    \/ CallSweep(h)
    \/ SweepStep(h)
    \/ SweepFails(h)

BrokerStep == \E k \in DOMAIN tickets : LimitFills(k) \/ PositionCloses(k)

Next ==
    \/ \E t \in Callers : CallerStep(t)
    \/ \E c \in Connectors : ConnectorStep(c)
    \/ \E m \in wire : AckLost(m)
    \/ \E h \in Handlers : HandlerStep(h)
    \/ AppRestarts
    \/ BrokerStep

Spec == Init /\ [][Next]_vars

-----------------------------------------------------------------------------
(* Fairness: the event loop of the app and the loop of the connector go on, *)
(* every request is served in the end although others come in (strong       *)
(* fairness: Handlers bounds the requests at a time, the code does not).    *)
(* Nothing is assumed of new signals, faults or the broker, nor of the      *)
(* endpoint of the sweep: no schedule of the repository calls it.           *)

Fairness ==
    /\ \A t \in Callers : WF_vars(Enqueue(t))
    /\ \A c \in Connectors : /\ WF_vars(Poll(c))
                             /\ WF_vars(HandleOrder(c))
                             /\ WF_vars(SendAck(c))
    /\ \A h \in Handlers : /\ WF_vars(SweepStep(h))
                           /\ SF_vars(\E m \in wire : ServeAck(h, m))

FairSpec == Spec /\ Fairness

-----------------------------------------------------------------------------
(* Properties.                                                              *)

TypeOK ==
    /\ enabled \in BOOLEAN
    /\ signals \in Nat
    /\ plans \in [Callers -> Seq(Order)]
    /\ orders \in Seq(Order)
    /\ conn \in [Connectors -> [phase : {"ready", "placed", "acking"},
                                batch : SUBSET Nat, msg : Message \cup {NoMsg}]]
    /\ wire \subseteq Message
    /\ hand \in [Handlers -> [phase : {"idle", "sweep", "loop", "mark"},
                              todo : SUBSET Move, runner : Nat,
                              reply : Message \cup {NoMsg}]]
    /\ tickets \in Seq(Ticket)
    /\ faults \in Nat

\* The broker's orders and positions that came of order i.
Copies(i) == {k \in DOMAIN tickets : tickets[k].order = i}

\* The modify orders queued for the runner's group.
ModifiesOf(r) == {i \in DOMAIN orders : /\ orders[i].kind = "modify"
                                        /\ orders[i].gid = orders[r].gid}

\* connector.loop: an order is placed once, and once more at most for every
\* acknowledgement that was lost, came late or was cut off by a restart; a
\* stale batch, two connectors or an unguarded ack() add no other copy.
CopiesBounded ==
    \A i \in DOMAIN orders : Cardinality(Copies(i)) <= 1 + faults

\* ack() and _to_dict: the ticket stored on an order is a ticket the broker gave
\* for that very order; that on a modify order is a ticket of its group's runner.
TicketsAreReal ==
    \A i \in DOMAIN orders :
        orders[i].ticket # 0 =>
            /\ orders[i].ticket \in DOMAIN tickets
            /\ LET o == tickets[orders[i].ticket].order
               IN  IF orders[i].kind = "modify"
                     THEN orders[o].role = "runner" /\ orders[o].gid = orders[i].gid
                     ELSE o = i

\* breakeven_modifications: a stop at break-even belongs to the runner of a group
\* whose first partial had been placed at the broker, never to another leg.
BreakEvenOnlyArmed ==
    \A k \in DOMAIN tickets :
        tickets[k].stop = "breakeven" =>
            LET r == tickets[k].order
            IN  /\ orders[r].role = "runner"
                /\ \E p \in DOMAIN tickets :
                      /\ orders[tickets[p].order].role = "p1"
                      /\ orders[tickets[p].order].gid = orders[r].gid

\* breakeven_sweep: the modifies queued for one runner are bounded by the
\* sweeps that can be between their read and their be_done at the same time;
\* with one sweep at a time and no fault it is one.
ModifiesBounded ==
    \A r \in DOMAIN orders :
        orders[r].role = "runner" =>
            Cardinality(ModifiesOf(r)) <= Cardinality(Handlers) * (1 + faults)

\* maybe_enqueue: whatever fails between two legs and whoever else is queueing,
\* a runner is in the queue only behind the first partial of its own group, on
\* which its move to break-even waits; a group may end before its runner.
RunnersFollowTheirPartial ==
    \A r \in DOMAIN orders :
        orders[r].role = "runner" =>
            \E p \in DOMAIN orders : /\ p < r
                                    /\ orders[p].role = "p1"
                                    /\ orders[p].gid = orders[r].gid

\* A ticket of order i that the app has not been told yet is still to be
\* reported: by its connector, or in a POST that has not been served.
Reporting(i) ==
    \/ \E c \in Connectors : /\ conn[c].phase = "placed"
                             /\ conn[c].msg.id = i /\ conn[c].msg.ticket # 0
    \/ \E m \in wire : m.id = i /\ m.ticket # 0

\* place(), ack(): what the broker holds of an order the books know of, but for
\* one position or resting order for each fault: a row without a ticket, and
\* none under way to it, has no more at the broker than there were unclear
\* results and reports that were lost, late or cut off; without one it has
\* nothing there.
BooksMatchBroker ==
    \A i \in DOMAIN orders :
        orders[i].ticket = 0 /\ ~Reporting(i) => Cardinality(Copies(i)) <= faults

\* Every order a connector pulls is reported on: the polled queue runs empty.
QueueDrains == []<>(\A c \in Connectors : PendingFor(c) = {})

\* The runners whose first partial is booked as filled and whose position, open
\* at the broker, has its stop where it was, no move of it having been refused.
Unmoved ==
    {r \in DOMAIN orders :
        /\ orders[r].role = "runner"
        /\ orders[r].ticket # 0
        /\ tickets[orders[r].ticket].state = "open"
        /\ tickets[orders[r].ticket].stop = "initial"
        /\ \E p \in DOMAIN orders : /\ orders[p].gid = orders[r].gid
                                    /\ orders[p].role = "p1"
                                    /\ orders[p].status = "filled"
        /\ \A i \in ModifiesOf(r) : orders[i].status # "rejected"}

\* ack() and breakeven_sweep: while nothing fails, the sweeps that follow the
\* reports are enough for a runner whose first partial has filled to have its
\* stop at break-even at the broker, in whatever order the two are reported and
\* however the sweeps overlap, unless it is closed or the move refused.
ArmedRunnersAreMoved == []<>(faults > 0 \/ ~enabled \/ Unmoved = {})
=============================================================================
