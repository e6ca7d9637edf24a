------------------------ MODULE ExecutionQueue_proofs ------------------------
(***************************************************************************)
(* Theorems about ExecutionQueue for all sets of connectors, callers and   *)
(* handlers, all plans and all bounds: types and copies; what the rows,    *)
(* the broker and the bridge know of each other; and how often the sweeps  *)
(* that read a runner before it is flagged be_done can move it.            *)
(***************************************************************************)
EXTENDS ExecutionQueue, FiniteSetTheorems, SequenceTheorems, TLAPS

\* Every order id held outside the table is the id of a row, and what a
\* connector holds is its own: rows its filter lets through, its own message.
RefsOK ==
    /\ \A k \in DOMAIN tickets : tickets[k].order \in DOMAIN orders
    /\ \A c \in Connectors :
         /\ \A i \in conn[c].batch : i \in DOMAIN orders /\ Pulls(c, i)
         /\ conn[c].phase = "ready" <=> conn[c].msg = NoMsg
         /\ conn[c].phase # "ready" =>
               /\ conn[c].msg.id \in DOMAIN orders
               /\ Pulls(c, conn[c].msg.id)
    /\ \A m \in wire : m.id \in DOMAIN orders
    /\ \A h \in Handlers :
         /\ hand[h].phase = "mark" => hand[h].runner \in DOMAIN orders
         /\ \A m \in hand[h].todo : m.runner \in DOMAIN orders
         /\ hand[h].reply # NoMsg =>
               /\ hand[h].reply.id \in DOMAIN orders
               /\ orders[hand[h].reply.id].status # "pending"

\* Connector c has handled order i and is still reporting it.
Carries(c, i) == conn[c].phase # "ready" /\ conn[c].msg.id = i

\* Order i may yet be placed (again): it is in a batch, or it is pending and no
\* connector is about to report it.
Placeable(i) ==
    \/ \E c \in Connectors : i \in conn[c].batch
    \/ orders[i].status = "pending" /\ \A c \in Connectors : ~Carries(c, i)

\* Each copy of such an order was paid for with a fault.
UnplacedPaid ==
    \A i \in DOMAIN orders : Placeable(i) => Cardinality(Copies(i)) <= faults

IInv == TypeOK /\ RefsOK /\ CopiesBounded /\ UnplacedPaid

LEMMA LegRowsType ==
  ASSUME NEW plan \in Seq(Leg), NEW gid \in Nat
  PROVE  LegRows(plan, gid) \in Seq(Order)
<1>1. \A i \in 1..Len(plan) : plan[i] \in Leg
  OBVIOUS
<1>2. LegRows(plan, gid) \in [1..Len(plan) -> Order]
  BY <1>1 DEF LegRows, Leg, Order, Kind, Role, Status
<1> QED BY <1>2, SeqDef

LEMMA TypeInit == Init => TypeOK
  BY DEF Init, TypeOK, Ready, IdleHand

ConnType == [Connectors -> [phase : {"ready", "placed", "acking"},
                            batch : SUBSET Nat, msg : Message \cup {NoMsg}]]

LEMMA OutcomeType ==
  ASSUME conn \in ConnType, faults \in Nat,
         NEW c \in Connectors, NEW i \in conn[c].batch,
         NEW status \in Status \ {"pending"}, NEW ticket \in Nat,
         Outcome(c, i, status, ticket)
  PROVE  conn' \in ConnType
<1>1. i \in Nat
  BY DEF ConnType
<1>2. [from |-> c, id |-> i, status |-> status, ticket |-> ticket, attempt |-> faults]
        \in Message
  BY <1>1 DEF Message
<1> QED BY <1>2 DEF Outcome, ConnType

LEMMA BatchRow ==
  ASSUME TypeOK, RefsOK, NEW c \in Connectors, NEW i \in conn[c].batch
  PROVE  /\ i \in DOMAIN orders /\ i \in 1..Len(orders)
         /\ orders[i] \in Order /\ orders[i].ticket \in Nat
<1>1. i \in DOMAIN orders /\ orders \in Seq(Order)
  BY DEF TypeOK, RefsOK
<1>2. i \in 1..Len(orders) /\ orders[i] \in Order
  BY <1>1
<1> QED BY <1>1, <1>2 DEF Order

\* What the broker has after an order has taken effect ...
LEMMA PlacedTickets ==
  ASSUME TypeOK, NEW c \in Connectors, NEW i \in conn[c].batch, PlacedAtBroker(c, i)
  PROVE  /\ tickets' \in Seq(Ticket) /\ Len(tickets) + 1 \notin DOMAIN tickets
         /\ DOMAIN tickets' = DOMAIN tickets \cup {Len(tickets) + 1}
         /\ \A k \in DOMAIN tickets : tickets'[k] = tickets[k]
         /\ tickets'[Len(tickets) + 1].order = i
         /\ tickets'[Len(tickets) + 1].stop = "initial"
<1> DEFINE e == [order |-> i,
                 state |-> IF orders[i].kind = "market" THEN "open" ELSE "resting",
                 stop |-> "initial"]
<1>1. i \in Nat /\ tickets \in Seq(Ticket)
  BY DEF TypeOK
<1>2. e \in Ticket
  BY <1>1 DEF Ticket
<1>3. tickets' = Append(tickets, e) /\ e.order = i /\ e.stop = "initial"
  BY DEF PlacedAtBroker
<1> HIDE DEF e
<1> QED BY <1>1, <1>2, <1>3

\* ... and after a stop has moved.
LEMMA MovedTickets ==
  ASSUME TypeOK, RefsOK, NEW c \in Connectors, NEW i \in conn[c].batch, MovedAtBroker(c, i)
  PROVE  /\ tickets' \in Seq(Ticket) /\ DOMAIN tickets' = DOMAIN tickets
         /\ orders[i].ticket \in DOMAIN tickets
         /\ \A k \in DOMAIN tickets : tickets'[k].order = tickets[k].order
         /\ \A k \in DOMAIN tickets \ {orders[i].ticket} : tickets'[k] = tickets[k]
<1>1. PICK n \in DOMAIN tickets : n = orders[i].ticket
  BY DEF MovedAtBroker
<1>2. n \in 1..Len(tickets) /\ tickets[n] \in Ticket /\ tickets \in Seq(Ticket)
  BY DEF TypeOK
<1> DEFINE e == [order |-> tickets[n].order, state |-> "open", stop |-> "breakeven"]
<1>3. e \in Ticket /\ e.order = tickets[n].order
  BY <1>2 DEF Ticket
<1>4. tickets' = [tickets EXCEPT ![n] = e]
  BY <1>1 DEF MovedAtBroker
<1> HIDE DEF e
<1>5. tickets' \in Seq(Ticket)
  BY <1>2, <1>3, <1>4, ExceptSeq
<1> QED BY <1>1, <1>2, <1>3, <1>4, <1>5

\* The broker has done what it was asked, and the connector takes it for refused.
Unclear(c, i) == PlaceUnclear(c, i) \/ ModifyUnclear(c, i)

LEMMA UnclearStep ==
  ASSUME TypeOK, NEW c \in Connectors, NEW i \in conn[c].batch, Unclear(c, i)
  PROVE  /\ Outcome(c, i, "rejected", 0) /\ "rejected" \in Status \ {"pending"} /\ 0 \in Nat
         /\ UNCHANGED <<enabled, signals, plans, orders, wire, hand>>
         /\ faults' = faults + 1 /\ faults' \in Nat
         /\ PlacedAtBroker(c, i) \/ MovedAtBroker(c, i)
BY DEF Unclear, PlaceUnclear, ModifyUnclear, Fault, Status, TypeOK

LEMMA TypeNext == TypeOK /\ RefsOK /\ [Next]_vars => TypeOK'
<1> SUFFICES ASSUME TypeOK, RefsOK, [Next]_vars
             PROVE  TypeOK'
  OBVIOUS
<1> USE LimitsAssumption DEF TypeOK
<1>1. ASSUME NEW t \in Callers, NEW plan \in Plans, TakePlan(t, plan)
      PROVE  TypeOK'
  <2>1. plan \in Seq(Leg)
    BY PlansAssumption
  <2>2. LegRows(plan, signals + 1) \in Seq(Order)
    BY <2>1, LegRowsType
  <2> QED BY <1>1, <2>2 DEF TakePlan
<1>2. ASSUME NEW t \in Callers, Enqueue(t)
      PROVE  TypeOK'
  BY <1>2 DEF Enqueue, RefsOK
<1>3. ASSUME NEW t \in Callers, EnqueueFails(t)
      PROVE  TypeOK'
  BY <1>3 DEF EnqueueFails, Fault, RefsOK
<1>4. ASSUME NEW c \in Connectors, Poll(c)
      PROVE  TypeOK'
  BY <1>4 DEF Poll, Ready, PendingRows, PendingFor, RefsOK
<1>5. ASSUME NEW c \in Connectors, NEW i \in conn[c].batch, Place(c, i)
      PROVE  TypeOK'
  <2>1. conn' \in ConnType
    <3> DEFINE market == orders[i].kind = "market"
    <3>1. (IF market THEN "filled" ELSE "sent") \in Status \ {"pending"}
      BY DEF Status
    <3>2. Len(tickets) + 1 \in Nat /\ conn \in ConnType
      BY DEF ConnType
    <3>3. Outcome(c, i, IF market THEN "filled" ELSE "sent", Len(tickets) + 1)
      BY <1>5 DEF Place
    <3> HIDE DEF market
    <3> QED BY <3>1, <3>2, <3>3, OutcomeType DEF ConnType
  <2>2. tickets' \in Seq(Ticket)
    BY <1>5, PlacedTickets DEF Place
  <2>3. UNCHANGED <<enabled, signals, plans, orders, wire, hand, faults>>
    BY <1>5 DEF Place
  <2> QED BY <2>1, <2>2, <2>3 DEF ConnType
<1>6. ASSUME NEW c \in Connectors, NEW i \in conn[c].batch, Modify(c, i)
      PROVE  TypeOK'
  <2>1. i \in DOMAIN orders /\ orders[i].ticket \in Nat
    BY BatchRow
  <2>2. conn' \in ConnType
    <3>1. "filled" \in Status \ {"pending"} /\ conn \in ConnType
      BY DEF Status, ConnType
    <3>2. Outcome(c, i, "filled", orders[i].ticket)
      BY <1>6 DEF Modify
    <3> QED BY <2>1, <3>1, <3>2, OutcomeType
  <2>3. tickets' \in Seq(Ticket)
    BY <1>6, MovedTickets DEF Modify
  <2> QED BY <1>6, <2>2, <2>3 DEF Modify, ConnType
<1>7. ASSUME NEW c \in Connectors, NEW i \in conn[c].batch, Refuse(c, i)
      PROVE  TypeOK'
  <2>1. conn' \in ConnType
    BY <1>7, OutcomeType DEF Refuse, ConnType, Status
  <2> QED BY <1>7, <2>1 DEF Refuse, ConnType
<1>24. ASSUME NEW c \in Connectors, NEW i \in conn[c].batch, Unclear(c, i)
       PROVE  TypeOK'
  <2>1. conn' \in ConnType
    BY <1>24, UnclearStep, OutcomeType DEF ConnType
  <2>2. tickets' \in Seq(Ticket)
    BY <1>24, UnclearStep, PlacedTickets, MovedTickets
  <2> QED BY <1>24, <2>1, <2>2, UnclearStep DEF ConnType
<1>8. ASSUME NEW c \in Connectors, SendAck(c)
      PROVE  TypeOK'
  BY <1>8 DEF SendAck, RefsOK
<1>9. ASSUME NEW c \in Connectors, BatchFails(c)
      PROVE  TypeOK'
  BY <1>9 DEF BatchFails, Fault, Ready, RefsOK
<1>10. ASSUME NEW c \in Connectors, AckTimesOut(c)
      PROVE  TypeOK'
  BY <1>10 DEF AckTimesOut, Fault, Released, Ready, RefsOK
<1>11. ASSUME NEW c \in Connectors, ConnectorRestarts(c)
      PROVE  TypeOK'
  BY <1>11 DEF ConnectorRestarts, Fault, Ready, RefsOK
<1>12. ASSUME NEW m \in wire, AckLost(m)
      PROVE  TypeOK'
  BY <1>12 DEF AckLost, Fault, Released, Ready, RefsOK
<1>13. ASSUME NEW h \in Handlers, NEW m \in wire, ServeAck(h, m)
      PROVE  TypeOK'
  <2>1. m \in Message /\ m.id \in 1..Len(orders) /\ orders[m.id] \in Order
    BY DEF RefsOK
  <2>2. Reported(orders[m.id], m) \in Order
    BY <2>1 DEF Reported, Order, Message
  <2>3. orders' \in Seq(Order)
    BY <1>13, <2>1, <2>2, ExceptSeq DEF ServeAck
  <2> QED BY <1>13, <2>1, <2>3 DEF ServeAck
<1>14. ASSUME NEW h \in Handlers, CallSweep(h)
      PROVE  TypeOK'
  BY <1>14 DEF CallSweep, RefsOK
<1>15. ASSUME NEW h \in Handlers, SweepRead(h)
      PROVE  TypeOK'
  <2>1. BreakevenModifications \subseteq Move
    <3>1. \A r \in RecentRows : r \in Nat /\ orders[r] \in Order
      BY DEF RecentRows
    <3>2. \A R \in SUBSET RecentRows : Moves(R) \subseteq Move
      BY <3>1 DEF Moves, Move, Order
    <3> QED BY <3>2 DEF BreakevenModifications
  <2> QED BY <1>15, <2>1 DEF SweepRead
<1>16. ASSUME NEW h \in Handlers, NEW m \in hand[h].todo, SweepEnqueue(h, m)
      PROVE  TypeOK'
  <2>1. m \in Move
    OBVIOUS
  <2>2. ModifyRow(m) \in Order
    BY <2>1 DEF ModifyRow, Move, Order, Kind, Role, Status
  <2>3. m.runner \in Nat
    BY <2>1 DEF Move
  <2> QED BY <1>16, <2>2, <2>3 DEF SweepEnqueue
<1>17. ASSUME NEW h \in Handlers, SweepMark(h)
      PROVE  TypeOK'
  <2> DEFINE r == hand[h].runner
  <2>1. r \in 1..Len(orders) /\ orders[r] \in Order
    BY <1>17 DEF SweepMark, RefsOK
  <2>2. Trailed(orders[r]) \in Order
    BY <2>1 DEF Trailed, Order
  <2>3. orders' \in Seq(Order)
    BY <1>17, <2>1, <2>2, ExceptSeq DEF SweepMark
  <2> QED BY <1>17, <2>3 DEF SweepMark
<1>18. ASSUME NEW h \in Handlers, Respond(h)
      PROVE  TypeOK'
  BY <1>18 DEF Respond, Released, Ready, IdleHand, RefsOK
<1>19. ASSUME NEW h \in Handlers, SweepFails(h)
      PROVE  TypeOK'
  BY <1>19 DEF SweepFails, Fault, Released, Ready, IdleHand, RefsOK
<1>20. ASSUME AppRestarts
      PROVE  TypeOK'
  BY <1>20 DEF AppRestarts, Fault, Ready, IdleHand, RefsOK
<1>21. ASSUME NEW k \in DOMAIN tickets, LimitFills(k)
      PROVE  TypeOK'
  <2>1. k \in 1..Len(tickets) /\ tickets[k] \in Ticket
    OBVIOUS
  <2>2. [order |-> tickets[k].order, state |-> "open", stop |-> tickets[k].stop] \in Ticket
    BY <2>1 DEF Ticket
  <2>3. tickets' \in Seq(Ticket)
    BY <1>21, <2>1, <2>2, ExceptSeq DEF LimitFills
  <2> QED BY <1>21, <2>3 DEF LimitFills
<1>22. ASSUME NEW k \in DOMAIN tickets, PositionCloses(k)
      PROVE  TypeOK'
  <2>1. k \in 1..Len(tickets) /\ tickets[k] \in Ticket
    OBVIOUS
  <2>2. [order |-> tickets[k].order, state |-> "closed", stop |-> tickets[k].stop] \in Ticket
    BY <2>1 DEF Ticket
  <2>3. tickets' \in Seq(Ticket)
    BY <1>22, <2>1, <2>2, ExceptSeq DEF PositionCloses
  <2> QED BY <1>22, <2>3 DEF PositionCloses
<1>23. CASE UNCHANGED vars
  BY <1>23 DEF vars
<1> QED
  BY <1>1, <1>2, <1>3, <1>4, <1>5, <1>6, <1>7, <1>8, <1>9, <1>10, <1>11, <1>12,
     <1>13, <1>14, <1>15, <1>16, <1>17, <1>18, <1>19, <1>20, <1>21, <1>22, <1>23,
     <1>24
  DEF Next, CallerStep, MaybeEnqueue, EnqueueDirect, ConnectorStep, HandleOrder, Unclear,
      HandlerStep, SweepStep, BrokerStep

LEMMA RefsInit == Init => RefsOK
  BY DEF Init, RefsOK, Ready, IdleHand

\* The part of RefsOK about connector c.
ConnRefs(c) ==
    /\ \A i \in conn[c].batch : i \in DOMAIN orders /\ Pulls(c, i)
    /\ conn[c].phase = "ready" <=> conn[c].msg = NoMsg
    /\ conn[c].phase # "ready" =>
          /\ conn[c].msg.id \in DOMAIN orders
          /\ Pulls(c, conn[c].msg.id)

LEMMA OutcomeRefs ==
  ASSUME TypeOK, RefsOK, UNCHANGED orders,
         NEW c \in Connectors, NEW i \in conn[c].batch,
         NEW status \in Status \ {"pending"}, NEW ticket \in Nat,
         Outcome(c, i, status, ticket)
  PROVE  \A d \in Connectors : ConnRefs(d)'
<1> DEFINE msg == [from |-> c, id |-> i, status |-> status, ticket |-> ticket,
                   attempt |-> faults]
<1>1. i \in Nat /\ i \in DOMAIN orders /\ Pulls(c, i)
  BY DEF TypeOK, RefsOK
<1>2. msg \in Message /\ msg # NoMsg /\ msg.id = i
  BY <1>1, NoMsgAssumption DEF TypeOK, Message
<1>3. conn' = [conn EXCEPT ![c] =
                 [phase |-> "placed", batch |-> conn[c].batch \ {i}, msg |-> msg]]
  BY DEF Outcome
<1> HIDE DEF msg
<1>4. ConnRefs(c)'
  BY <1>1, <1>2, <1>3 DEF TypeOK, RefsOK, ConnRefs, Pulls
<1>5. \A d \in Connectors \ {c} : ConnRefs(d)'
  BY <1>3 DEF TypeOK, RefsOK, ConnRefs, Pulls
<1> QED BY <1>4, <1>5

LEMMA RefsNext == TypeOK /\ RefsOK /\ [Next]_vars => RefsOK'
<1> SUFFICES ASSUME TypeOK, RefsOK, [Next]_vars
             PROVE  RefsOK'
  OBVIOUS
<1>1. ASSUME NEW t \in Callers, NEW plan \in Plans, TakePlan(t, plan)
      PROVE  RefsOK'
  BY <1>1 DEF TakePlan, TypeOK, RefsOK, Pulls
<1>2. ASSUME NEW t \in Callers, Enqueue(t)
      PROVE  RefsOK'
  BY <1>2 DEF Enqueue, TypeOK, RefsOK, Pulls
<1>3. ASSUME NEW t \in Callers, EnqueueFails(t)
      PROVE  RefsOK'
  BY <1>3 DEF EnqueueFails, Fault, TypeOK, RefsOK, Pulls
<1>4. ASSUME NEW c \in Connectors, Poll(c)
      PROVE  RefsOK'
  BY <1>4 DEF Poll, Ready, PendingRows, PendingFor, TypeOK, RefsOK, Pulls
<1>5. ASSUME NEW c \in Connectors, NEW i \in conn[c].batch, Place(c, i)
      PROVE  RefsOK'
  <2> DEFINE status == IF orders[i].kind = "market" THEN "filled" ELSE "sent"
  <2>1. status \in Status \ {"pending"} /\ Len(tickets) + 1 \in Nat
    BY DEF TypeOK, Status
  <2>2. Outcome(c, i, status, Len(tickets) + 1) /\ UNCHANGED <<orders, wire, hand>>
    BY <1>5 DEF Place
  <2>3. \A k \in DOMAIN tickets' : tickets'[k].order \in DOMAIN orders
    BY <1>5, PlacedTickets DEF Place, RefsOK
  <2> HIDE DEF status
  <2>4. \A d \in Connectors : ConnRefs(d)'
    BY <2>1, <2>2, OutcomeRefs
  <2> QED BY <2>2, <2>3, <2>4 DEF RefsOK, ConnRefs
<1>6. ASSUME NEW c \in Connectors, NEW i \in conn[c].batch, Modify(c, i)
      PROVE  RefsOK'
  <2>1. "filled" \in Status \ {"pending"} /\ orders[i].ticket \in Nat
    BY BatchRow DEF Status
  <2>2. /\ Outcome(c, i, "filled", orders[i].ticket)
        /\ UNCHANGED <<orders, wire, hand>>
    BY <1>6 DEF Modify
  <2>3. \A k \in DOMAIN tickets' : tickets'[k].order \in DOMAIN orders
    BY <1>6, MovedTickets DEF Modify, RefsOK
  <2>4. \A d \in Connectors : ConnRefs(d)'
    BY <2>1, <2>2, OutcomeRefs
  <2> QED BY <2>2, <2>3, <2>4 DEF RefsOK, ConnRefs
<1>7. ASSUME NEW c \in Connectors, NEW i \in conn[c].batch, Refuse(c, i)
      PROVE  RefsOK'
  <2>1. "rejected" \in Status \ {"pending"} /\ 0 \in Nat
    BY DEF Status
  <2>2. Outcome(c, i, "rejected", 0) /\ UNCHANGED <<orders, wire, hand, tickets>>
    BY <1>7 DEF Refuse
  <2>4. \A d \in Connectors : ConnRefs(d)'
    BY <2>1, <2>2, OutcomeRefs
  <2> QED BY <2>2, <2>4 DEF RefsOK, ConnRefs
<1>24. ASSUME NEW c \in Connectors, NEW i \in conn[c].batch, Unclear(c, i)
       PROVE  RefsOK'
  <2>1. UNCHANGED <<orders, wire, hand>> /\ \A d \in Connectors : ConnRefs(d)'
    BY <1>24, UnclearStep, OutcomeRefs
  <2>2. \A k \in DOMAIN tickets' : tickets'[k].order \in DOMAIN orders
    BY <1>24, UnclearStep, PlacedTickets, MovedTickets DEF RefsOK
  <2> QED BY <2>1, <2>2 DEF RefsOK, ConnRefs
<1>8. ASSUME NEW c \in Connectors, SendAck(c)
      PROVE  RefsOK'
  BY <1>8 DEF SendAck, TypeOK, RefsOK, Pulls
<1>9. ASSUME NEW c \in Connectors, BatchFails(c)
      PROVE  RefsOK'
  BY <1>9 DEF BatchFails, Fault, Ready, TypeOK, RefsOK, Pulls
<1>10. ASSUME NEW c \in Connectors, AckTimesOut(c)
      PROVE  RefsOK'
  BY <1>10 DEF AckTimesOut, Fault, Released, Ready, TypeOK, RefsOK, Pulls
<1>11. ASSUME NEW c \in Connectors, ConnectorRestarts(c)
      PROVE  RefsOK'
  BY <1>11 DEF ConnectorRestarts, Fault, Ready, TypeOK, RefsOK, Pulls
<1>12. ASSUME NEW m \in wire, AckLost(m)
      PROVE  RefsOK'
  BY <1>12 DEF AckLost, Fault, Released, Ready, TypeOK, RefsOK, Pulls
<1>13. ASSUME NEW h \in Handlers, NEW m \in wire, ServeAck(h, m)
      PROVE  RefsOK'
  <2>1. m \in Message /\ m.id \in DOMAIN orders /\ orders \in Seq(Order)
    BY DEF TypeOK, RefsOK
  <2>2. m.status # "pending" /\ m # NoMsg
    BY <2>1, NoMsgAssumption DEF Message
  <2>3. /\ DOMAIN orders' = DOMAIN orders
        /\ \A j \in DOMAIN orders : orders'[j].account = orders[j].account
        /\ \A j \in DOMAIN orders :
              orders'[j].status = IF j = m.id THEN m.status ELSE orders[j].status
    BY <1>13, <2>1 DEF ServeAck, Reported, Order
  <2>4. \A g \in Handlers :
           /\ hand'[g].phase = "mark" => hand'[g].runner \in DOMAIN orders
           /\ \A v \in hand'[g].todo : v.runner \in DOMAIN orders
           /\ hand'[g].reply # NoMsg =>
                 /\ hand'[g].reply.id \in DOMAIN orders
                 /\ orders'[hand'[g].reply.id].status # "pending"
    <3>1. hand'[h].phase # "mark" /\ hand'[h].todo = {} /\ hand'[h].reply = m
      BY <1>13 DEF ServeAck, TypeOK
    <3>2. \A g \in Handlers \ {h} : hand'[g] = hand[g]
      BY <1>13 DEF ServeAck, TypeOK
    <3> QED BY <2>1, <2>2, <2>3, <3>1, <3>2 DEF RefsOK
  <2>5. conn' = conn /\ tickets' = tickets /\ wire' = wire \ {m}
    BY <1>13 DEF ServeAck
  <2> QED BY <2>3, <2>4, <2>5 DEF RefsOK, Pulls
<1>14. ASSUME NEW h \in Handlers, CallSweep(h)
      PROVE  RefsOK'
  BY <1>14 DEF CallSweep, TypeOK, RefsOK, Pulls
<1>15. ASSUME NEW h \in Handlers, SweepRead(h)
      PROVE  RefsOK'
  BY <1>15 DEF SweepRead, BreakevenModifications, Moves, RecentRows, TypeOK, RefsOK, Pulls
<1>16. ASSUME NEW h \in Handlers, NEW m \in hand[h].todo, SweepEnqueue(h, m)
      PROVE  RefsOK'
  BY <1>16 DEF SweepEnqueue, ModifyRow, TypeOK, RefsOK, Pulls
<1>17. ASSUME NEW h \in Handlers, SweepMark(h)
      PROVE  RefsOK'
  BY <1>17 DEF SweepMark, Trailed, TypeOK, RefsOK, Pulls
<1>18. ASSUME NEW h \in Handlers, Respond(h)
      PROVE  RefsOK'
  BY <1>18 DEF Respond, Released, Ready, IdleHand, TypeOK, RefsOK, Pulls
<1>19. ASSUME NEW h \in Handlers, SweepFails(h)
      PROVE  RefsOK'
  BY <1>19 DEF SweepFails, Fault, Released, Ready, IdleHand, TypeOK, RefsOK, Pulls
<1>20. ASSUME AppRestarts
      PROVE  RefsOK'
  BY <1>20 DEF AppRestarts, Fault, Ready, IdleHand, TypeOK, RefsOK, Pulls
<1>21. ASSUME NEW k \in DOMAIN tickets, LimitFills(k)
      PROVE  RefsOK'
  BY <1>21 DEF LimitFills, TypeOK, RefsOK, Pulls
<1>22. ASSUME NEW k \in DOMAIN tickets, PositionCloses(k)
      PROVE  RefsOK'
  BY <1>22 DEF PositionCloses, TypeOK, RefsOK, Pulls
<1>23. CASE UNCHANGED vars
  BY <1>23 DEF vars, RefsOK, Pulls
<1> QED
  BY <1>1, <1>2, <1>3, <1>4, <1>5, <1>6, <1>7, <1>8, <1>9, <1>10, <1>11, <1>12,
     <1>13, <1>14, <1>15, <1>16, <1>17, <1>18, <1>19, <1>20, <1>21, <1>22, <1>23,
     <1>24
  DEF Next, CallerStep, MaybeEnqueue, EnqueueDirect, ConnectorStep, HandleOrder, Unclear,
      HandlerStep, SweepStep, BrokerStep

\* Type correctness, with the validity of every order id held outside the table.
THEOREM TypeRefsInvariant == Spec => [](TypeOK /\ RefsOK)
<1>1. Init => TypeOK /\ RefsOK
  BY TypeInit, RefsInit
<1>2. TypeOK /\ RefsOK /\ [Next]_vars => (TypeOK /\ RefsOK)'
  BY TypeNext, RefsNext
<1> QED BY <1>1, <1>2, PTL DEF Spec

\* Every field of every row, connector, handler and ticket keeps its type.
THEOREM TypeCorrect == Spec => []TypeOK
<1>1. TypeOK /\ RefsOK => TypeOK
  OBVIOUS
<1> QED BY <1>1, TypeRefsInvariant, PTL

-----------------------------------------------------------------------------
(* CopiesBounded.  A step without a fault makes no order placeable that was *)
(* not, except a new one, and places only an order that is; a fault pays    *)
(* for whatever becomes placeable.                                          *)

LEMMA CopiesFinite ==
  ASSUME TypeOK, NEW i
  PROVE  IsFiniteSet(Copies(i)) /\ Cardinality(Copies(i)) \in Nat
<1>1. Copies(i) \subseteq 1..Len(tickets) /\ Len(tickets) \in Nat
  BY DEF Copies, TypeOK
<1>2. IsFiniteSet(1..Len(tickets))
  BY <1>1, FS_Interval
<1> QED BY <1>1, <1>2, FS_Subset, FS_CardinalityType

LEMMA NewRowHasNoCopy ==
  ASSUME TypeOK, RefsOK, NEW i, i \notin DOMAIN orders
  PROVE  Cardinality(Copies(i)) = 0
<1>1. Copies(i) = {}
  BY DEF Copies, RefsOK
<1> QED BY <1>1, FS_EmptySet

LEMMA FaultStep ==
  ASSUME TypeOK, CopiesBounded, faults' = faults + 1, orders' = orders,
         \A i : Copies(i)' = Copies(i)
  PROVE  CopiesBounded' /\ UnplacedPaid' /\ BooksMatchBroker'
<1>1. \A i : Copies(i)' = Copies(i)
  OBVIOUS
<1>2. \A i \in DOMAIN orders : Cardinality(Copies(i)) <= 1 + faults
  BY DEF CopiesBounded
<1>3. faults \in Nat
  BY DEF TypeOK
<1>4. \A i \in DOMAIN orders' : Cardinality(Copies(i)') <= faults'
  BY <1>1, <1>2, <1>3
<1>5. \A i : Cardinality(Copies(i)) \in Nat
  BY CopiesFinite
<1>6. \A i \in DOMAIN orders' : Cardinality(Copies(i)') <= 1 + faults'
  BY <1>1, <1>3, <1>4, <1>5
<1> QED BY <1>4, <1>6 DEF CopiesBounded, UnplacedPaid, BooksMatchBroker

LEMMA QuietStep ==
  ASSUME IInv, faults' = faults, \A i : Copies(i)' = Copies(i),
         \A i \in DOMAIN orders : Placeable(i)' => Placeable(i)
  PROVE  CopiesBounded' /\ UnplacedPaid'
<1>1. faults \in Nat
  BY DEF IInv, TypeOK
<1>2. ASSUME NEW i \in DOMAIN orders'
      PROVE  /\ Cardinality(Copies(i)') <= 1 + faults'
             /\ Placeable(i)' => Cardinality(Copies(i)') <= faults'
  <2>1. CASE i \in DOMAIN orders
    BY <2>1 DEF IInv, CopiesBounded, UnplacedPaid
  <2>2. CASE i \notin DOMAIN orders
    BY <1>1, <2>2, NewRowHasNoCopy DEF IInv
  <2> QED BY <2>1, <2>2
<1> QED BY <1>2 DEF CopiesBounded, UnplacedPaid

\* The order whose outcome a connector takes up is not placeable afterwards
\* because of it, and no other becomes so.
LEMMA OutcomeNotPlaceable ==
  ASSUME TypeOK, RefsOK, UNCHANGED orders,
         NEW c \in Connectors, NEW i \in conn[c].batch, AtHead(c, i),
         NEW status, NEW ticket, Outcome(c, i, status, ticket)
  PROVE  /\ \A j : Placeable(j)' => Placeable(j)
         /\ ~Placeable(i)'
<1>1. /\ conn'[c].phase = "placed" /\ conn'[c].batch = conn[c].batch \ {i}
      /\ conn'[c].msg.id = i
      /\ \A d \in Connectors \ {c} : conn'[d] = conn[d]
  BY DEF TypeOK, Outcome
<1>2. conn[c].phase = "ready"
  BY DEF AtHead
<1>3. \A d \in Connectors \ {c} : i \notin conn[d].batch
  BY ConnectorsAssumption DEF RefsOK, Pulls
<1>4. \A j : Placeable(j)' => Placeable(j)
  BY <1>1, <1>2 DEF Placeable, Carries
<1>5. ~Placeable(i)'
  BY <1>1, <1>3 DEF Placeable, Carries
<1> QED BY <1>4, <1>5

\* The order placed has a copy more, and every other as many as before.
LEMMA PlacedCopies ==
  ASSUME IInv, NEW c \in Connectors, NEW i \in conn[c].batch, PlacedAtBroker(c, i)
  PROVE  /\ i \in DOMAIN orders /\ Cardinality(Copies(i)') <= 1 + faults
         /\ Cardinality(Copies(i)') \in Nat
         /\ \A j : j # i => Copies(j)' = Copies(j)
<1>1. TypeOK /\ RefsOK /\ i \in DOMAIN orders /\ faults \in Nat
  BY BatchRow DEF IInv, TypeOK
<1>2. Placeable(i)
  BY DEF Placeable
<1>3. PICK n : n = Len(tickets) + 1
  OBVIOUS
<1>4. /\ DOMAIN tickets' = DOMAIN tickets \cup {n} /\ tickets'[n].order = i
      /\ \A k \in DOMAIN tickets : tickets'[k] = tickets[k]
  BY <1>1, <1>3, PlacedTickets
<1>5. /\ n \notin DOMAIN tickets
      /\ Copies(i)' = Copies(i) \cup {n} /\ \A j : j # i => Copies(j)' = Copies(j)
  <2>1. n \notin DOMAIN tickets
    BY <1>1, <1>3, PlacedTickets
  <2> QED BY <1>4, <2>1 DEF Copies
<1>6. Cardinality(Copies(i)) <= faults
  BY <1>1, <1>2 DEF IInv, UnplacedPaid
<1>7. IsFiniteSet(Copies(i)) /\ Cardinality(Copies(i)) \in Nat
  BY <1>1, CopiesFinite
<1>8. Cardinality(Copies(i) \cup {n}) \in {Cardinality(Copies(i)), Cardinality(Copies(i)) + 1}
  BY <1>7, FS_AddElement
<1>9. Cardinality(Copies(i)') \in {Cardinality(Copies(i)), Cardinality(Copies(i)) + 1}
  BY <1>5, <1>8
<1> QED BY <1>1, <1>5, <1>6, <1>7, <1>9

LEMMA PlaceStep ==
  ASSUME IInv, NEW c \in Connectors, NEW i \in conn[c].batch, Place(c, i)
  PROVE  CopiesBounded' /\ UnplacedPaid'
<1>1. TypeOK /\ RefsOK /\ PlacedAtBroker(c, i) /\ AtHead(c, i)
  BY DEF IInv, Place, PlacedAtBroker
<1>2. UNCHANGED <<orders, faults>>
  BY DEF Place
<1>3. (\A j : Placeable(j)' => Placeable(j)) /\ ~Placeable(i)'
  BY <1>1, <1>2, OutcomeNotPlaceable DEF Place
<1>4. ASSUME NEW j \in DOMAIN orders'
      PROVE  /\ Cardinality(Copies(j)') <= 1 + faults'
             /\ Placeable(j)' => Cardinality(Copies(j)') <= faults'
  BY <1>1, <1>2, <1>3, PlacedCopies DEF IInv, CopiesBounded, UnplacedPaid
<1> QED BY <1>4 DEF CopiesBounded, UnplacedPaid

\* A copy that nobody will report is paid for at once.
LEMMA UnclearPaid ==
  ASSUME IInv, NEW c \in Connectors, NEW i \in conn[c].batch, Unclear(c, i)
  PROVE  CopiesBounded' /\ UnplacedPaid' /\ BooksMatchBroker'
<1>1. /\ TypeOK /\ RefsOK /\ CopiesBounded /\ faults \in Nat
      /\ orders' = orders /\ faults' = faults + 1
  BY UnclearStep DEF IInv, TypeOK
<1>2. CASE MovedAtBroker(c, i)
  <2>1. \A j : Copies(j)' = Copies(j)
    BY <1>1, <1>2, MovedTickets DEF Copies
  <2> QED BY <1>1, <2>1, FaultStep
<1>3. CASE PlacedAtBroker(c, i)
  <2>1. ASSUME NEW j \in DOMAIN orders
        PROVE  Cardinality(Copies(j)') <= 1 + faults /\ Cardinality(Copies(j)') \in Nat
    BY <1>1, <1>3, PlacedCopies, CopiesFinite DEF CopiesBounded
  <2>2. \A j \in DOMAIN orders' : /\ Cardinality(Copies(j)') <= faults'
                                 /\ Cardinality(Copies(j)') <= 1 + faults'
    BY <1>1, <2>1
  <2> QED BY <2>2 DEF CopiesBounded, UnplacedPaid, BooksMatchBroker
<1> QED BY <1>1, <1>2, <1>3, UnclearStep

LEMMA PaidNext == IInv /\ [Next]_vars => CopiesBounded' /\ UnplacedPaid'
<1> SUFFICES ASSUME IInv, [Next]_vars
             PROVE  CopiesBounded' /\ UnplacedPaid'
  OBVIOUS
<1>0. TypeOK /\ RefsOK /\ CopiesBounded
  BY DEF IInv
<1>1. ASSUME NEW t \in Callers, NEW plan \in Plans, TakePlan(t, plan)
      PROVE  CopiesBounded' /\ UnplacedPaid'
  <2>1. faults' = faults /\ \A j : Copies(j)' = Copies(j)
    BY <1>0, <1>1 DEF TakePlan, Copies, TypeOK
  <2>2. \A j \in DOMAIN orders : Placeable(j)' => Placeable(j)
    BY <1>0, <1>1 DEF TakePlan, Placeable, Carries, TypeOK, RefsOK
  <2> QED BY <2>1, <2>2, QuietStep
<1>2. ASSUME NEW t \in Callers, Enqueue(t)
      PROVE  CopiesBounded' /\ UnplacedPaid'
  <2>1. faults' = faults /\ \A j : Copies(j)' = Copies(j)
    BY <1>0, <1>2 DEF Enqueue, Copies, TypeOK
  <2>2. \A j \in DOMAIN orders : Placeable(j)' => Placeable(j)
    BY <1>0, <1>2 DEF Enqueue, Placeable, Carries, TypeOK, RefsOK
  <2> QED BY <2>1, <2>2, QuietStep
<1>3. ASSUME NEW t \in Callers, EnqueueFails(t)
      PROVE  CopiesBounded' /\ UnplacedPaid'
  BY <1>0, <1>3, FaultStep DEF EnqueueFails, Fault, Copies
<1>4. ASSUME NEW c \in Connectors, Poll(c)
      PROVE  CopiesBounded' /\ UnplacedPaid'
  <2>1. faults' = faults /\ \A j : Copies(j)' = Copies(j)
    BY <1>0, <1>4 DEF Poll, Copies, TypeOK
  <2>2. \A j \in DOMAIN orders : Placeable(j)' => Placeable(j)
    <3>1. /\ conn'[c].batch = PendingRows(c) /\ conn'[c].phase = "ready"
          /\ conn[c].phase = "ready" /\ orders' = orders
          /\ \A d \in Connectors \ {c} : conn'[d] = conn[d]
      BY <1>0, <1>4 DEF Poll, Ready, TypeOK
    <3>2. \A j \in PendingRows(c) : orders[j].status = "pending" /\ Pulls(c, j)
      BY DEF PendingRows, PendingFor
    <3>3. \A j \in PendingRows(c), d \in Connectors : ~Carries(d, j)
      BY <1>0, <3>1, <3>2, ConnectorsAssumption DEF Carries, RefsOK, Pulls
    <3>4. \A j \in PendingRows(c) : Placeable(j)
      BY <3>2, <3>3 DEF Placeable
    <3> HIDE DEF PendingRows
    <3> QED BY <3>1, <3>4 DEF Placeable, Carries
  <2> QED BY <2>1, <2>2, QuietStep
<1>5. ASSUME NEW c \in Connectors, NEW i \in conn[c].batch, Place(c, i)
      PROVE  CopiesBounded' /\ UnplacedPaid'
  BY <1>5, PlaceStep
<1>6. ASSUME NEW c \in Connectors, NEW i \in conn[c].batch, Modify(c, i)
      PROVE  CopiesBounded' /\ UnplacedPaid'
  <2>1. /\ faults' = faults /\ UNCHANGED orders /\ MovedAtBroker(c, i)
        /\ AtHead(c, i) /\ Outcome(c, i, "filled", orders[i].ticket)
    BY <1>6 DEF Modify, MovedAtBroker
  <2>2. \A j : Copies(j)' = Copies(j)
    BY <1>0, <2>1, MovedTickets DEF Copies
  <2>3. \A j \in DOMAIN orders : Placeable(j)' => Placeable(j)
    BY <1>0, <2>1, OutcomeNotPlaceable
  <2> QED BY <2>1, <2>2, <2>3, QuietStep
<1>24. ASSUME NEW c \in Connectors, NEW i \in conn[c].batch, Unclear(c, i)
       PROVE  CopiesBounded' /\ UnplacedPaid'
  BY <1>24, UnclearPaid
<1>7. ASSUME NEW c \in Connectors, NEW i \in conn[c].batch, Refuse(c, i)
      PROVE  CopiesBounded' /\ UnplacedPaid'
  <2>1. faults' = faults /\ UNCHANGED orders /\ \A j : Copies(j)' = Copies(j)
    BY <1>0, <1>7 DEF Refuse, Copies, TypeOK
  <2>2. \A j \in DOMAIN orders : Placeable(j)' => Placeable(j)
    BY <1>0, <1>7, <2>1, OutcomeNotPlaceable DEF Refuse
  <2> QED BY <2>1, <2>2, QuietStep
<1>8. ASSUME NEW c \in Connectors, SendAck(c)
      PROVE  CopiesBounded' /\ UnplacedPaid'
  <2>1. faults' = faults /\ \A j : Copies(j)' = Copies(j)
    BY <1>0, <1>8 DEF SendAck, Copies, TypeOK
  <2>2. \A j \in DOMAIN orders : Placeable(j)' => Placeable(j)
    BY <1>0, <1>8 DEF SendAck, Placeable, Carries, TypeOK, RefsOK
  <2> QED BY <2>1, <2>2, QuietStep
<1>9. ASSUME NEW c \in Connectors, BatchFails(c)
      PROVE  CopiesBounded' /\ UnplacedPaid'
  BY <1>0, <1>9, FaultStep DEF BatchFails, Fault, Copies
<1>10. ASSUME NEW c \in Connectors, AckTimesOut(c)
      PROVE  CopiesBounded' /\ UnplacedPaid'
  BY <1>0, <1>10, FaultStep DEF AckTimesOut, Fault, Copies
<1>11. ASSUME NEW c \in Connectors, ConnectorRestarts(c)
      PROVE  CopiesBounded' /\ UnplacedPaid'
  BY <1>0, <1>11, FaultStep DEF ConnectorRestarts, Fault, Copies
<1>12. ASSUME NEW m \in wire, AckLost(m)
      PROVE  CopiesBounded' /\ UnplacedPaid'
  BY <1>0, <1>12, FaultStep DEF AckLost, Fault, Copies
<1>13. ASSUME NEW h \in Handlers, NEW m \in wire, ServeAck(h, m)
      PROVE  CopiesBounded' /\ UnplacedPaid'
  <2>1. faults' = faults /\ \A j : Copies(j)' = Copies(j)
    BY <1>0, <1>13 DEF ServeAck, Copies, TypeOK
  <2>2. \A j \in DOMAIN orders : Placeable(j)' => Placeable(j)
    <3>1. m \in Message /\ m.status # "pending" /\ orders \in Seq(Order)
      BY <1>0 DEF TypeOK, Message
    <3>2. \A j \in DOMAIN orders :
              orders'[j].status = IF j = m.id THEN m.status ELSE orders[j].status
      BY <1>13, <3>1 DEF ServeAck, Reported
    <3>3. conn' = conn
      BY <1>13 DEF ServeAck
    <3> QED BY <3>1, <3>2, <3>3 DEF Placeable, Carries
  <2> QED BY <2>1, <2>2, QuietStep
<1>14. ASSUME NEW h \in Handlers, CallSweep(h)
      PROVE  CopiesBounded' /\ UnplacedPaid'
  <2>1. faults' = faults /\ \A j : Copies(j)' = Copies(j)
    BY <1>0, <1>14 DEF CallSweep, Copies, TypeOK
  <2>2. \A j \in DOMAIN orders : Placeable(j)' => Placeable(j)
    BY <1>0, <1>14 DEF CallSweep, Placeable, Carries, TypeOK, RefsOK
  <2> QED BY <2>1, <2>2, QuietStep
<1>15. ASSUME NEW h \in Handlers, SweepRead(h)
      PROVE  CopiesBounded' /\ UnplacedPaid'
  <2>1. faults' = faults /\ \A j : Copies(j)' = Copies(j)
    BY <1>0, <1>15 DEF SweepRead, Copies, TypeOK
  <2>2. \A j \in DOMAIN orders : Placeable(j)' => Placeable(j)
    BY <1>0, <1>15 DEF SweepRead, Placeable, Carries, TypeOK, RefsOK
  <2> QED BY <2>1, <2>2, QuietStep
<1>16. ASSUME NEW h \in Handlers, NEW m \in hand[h].todo, SweepEnqueue(h, m)
      PROVE  CopiesBounded' /\ UnplacedPaid'
  <2>1. faults' = faults /\ \A j : Copies(j)' = Copies(j)
    BY <1>0, <1>16 DEF SweepEnqueue, Copies, TypeOK
  <2>2. \A j \in DOMAIN orders : Placeable(j)' => Placeable(j)
    BY <1>0, <1>16 DEF SweepEnqueue, Placeable, Carries, TypeOK, RefsOK
  <2> QED BY <2>1, <2>2, QuietStep
<1>17. ASSUME NEW h \in Handlers, SweepMark(h)
      PROVE  CopiesBounded' /\ UnplacedPaid'
  <2>1. faults' = faults /\ \A j : Copies(j)' = Copies(j)
    BY <1>0, <1>17 DEF SweepMark, Copies, TypeOK
  <2>2. \A j \in DOMAIN orders : Placeable(j)' => Placeable(j)
    <3>1. \A j \in DOMAIN orders : orders'[j].status = orders[j].status
      BY <1>0, <1>17 DEF SweepMark, Trailed, TypeOK
    <3>2. conn' = conn
      BY <1>17 DEF SweepMark
    <3> QED BY <3>1, <3>2 DEF Placeable, Carries
  <2> QED BY <2>1, <2>2, QuietStep
<1>18. ASSUME NEW h \in Handlers, Respond(h)
      PROVE  CopiesBounded' /\ UnplacedPaid'
  <2>1. faults' = faults /\ \A j : Copies(j)' = Copies(j)
    BY <1>0, <1>18 DEF Respond, Copies, TypeOK
  <2>2. \A j \in DOMAIN orders : Placeable(j)' => Placeable(j)
    BY <1>0, <1>18 DEF Respond, Released, Ready, Placeable, Carries, TypeOK, RefsOK
  <2> QED BY <2>1, <2>2, QuietStep
<1>19. ASSUME NEW h \in Handlers, SweepFails(h)
      PROVE  CopiesBounded' /\ UnplacedPaid'
  BY <1>0, <1>19, FaultStep DEF SweepFails, Fault, Copies
<1>20. ASSUME AppRestarts
      PROVE  CopiesBounded' /\ UnplacedPaid'
  BY <1>0, <1>20, FaultStep DEF AppRestarts, Fault, Copies
<1>21. ASSUME NEW k \in DOMAIN tickets, LimitFills(k)
      PROVE  CopiesBounded' /\ UnplacedPaid'
  <2>1. faults' = faults /\ \A j : Copies(j)' = Copies(j)
    BY <1>0, <1>21 DEF LimitFills, Copies, TypeOK
  <2>2. \A j \in DOMAIN orders : Placeable(j)' => Placeable(j)
    BY <1>0, <1>21 DEF LimitFills, Placeable, Carries, TypeOK, RefsOK
  <2> QED BY <2>1, <2>2, QuietStep
<1>22. ASSUME NEW k \in DOMAIN tickets, PositionCloses(k)
      PROVE  CopiesBounded' /\ UnplacedPaid'
  <2>1. faults' = faults /\ \A j : Copies(j)' = Copies(j)
    BY <1>0, <1>22 DEF PositionCloses, Copies, TypeOK
  <2>2. \A j \in DOMAIN orders : Placeable(j)' => Placeable(j)
    BY <1>0, <1>22 DEF PositionCloses, Placeable, Carries, TypeOK, RefsOK
  <2> QED BY <2>1, <2>2, QuietStep
<1>23. CASE UNCHANGED vars
  <2>1. faults' = faults /\ \A j : Copies(j)' = Copies(j)
    BY <1>23 DEF vars, Copies
  <2>2. \A j \in DOMAIN orders : Placeable(j)' => Placeable(j)
    BY <1>23 DEF vars, Placeable, Carries
  <2> QED BY <2>1, <2>2, QuietStep
<1> QED
  BY <1>1, <1>2, <1>3, <1>4, <1>5, <1>6, <1>7, <1>8, <1>9, <1>10, <1>11, <1>12,
     <1>13, <1>14, <1>15, <1>16, <1>17, <1>18, <1>19, <1>20, <1>21, <1>22, <1>23,
     <1>24
  DEF Next, CallerStep, MaybeEnqueue, EnqueueDirect, ConnectorStep, HandleOrder, Unclear,
      HandlerStep, SweepStep, BrokerStep

\* connector.loop: the broker holds at most one order or position more for an
\* order than there were lost, late or cut-off acknowledgements, whatever the
\* number of connectors, requests, orders and interleavings.
THEOREM CopiesAreBounded == Spec => []CopiesBounded
<1>1. Init => IInv
  <2>1. Init => TypeOK /\ RefsOK
    BY TypeInit, RefsInit
  <2>2. Init => CopiesBounded /\ UnplacedPaid
    BY DEF Init, CopiesBounded, UnplacedPaid
  <2> QED BY <2>1, <2>2 DEF IInv
<1>2. IInv /\ [Next]_vars => IInv'
  BY TypeNext, RefsNext, PaidNext DEF IInv
<1>3. IInv => CopiesBounded
  BY DEF IInv
<1> QED BY <1>1, <1>2, <1>3, PTL DEF Spec

-----------------------------------------------------------------------------
(* Tickets, books and modifies: the inductive invariants.                   *)

\* Ticket k is an order or position of the runner of group g.
RunnerTicket(k, g) ==
    /\ k \in DOMAIN tickets
    /\ orders[tickets[k].order].role = "runner"
    /\ orders[tickets[k].order].gid = g

\* The first partial of group g has been placed at the broker.
Armed(g) ==
    \E p \in DOMAIN tickets : /\ orders[tickets[p].order].role = "p1"
                              /\ orders[tickets[p].order].gid = g

\* Ticket k may be written on row i.
RealTicket(k, i) ==
    IF orders[i].kind = "modify"
      THEN RunnerTicket(k, orders[i].gid)
      ELSE k \in DOMAIN tickets /\ tickets[k].order = i

\* A row or message that is past the broker names its ticket, and a real one.
Sound(status, ticket, i) ==
    /\ status \in {"sent", "filled"} => ticket # 0
    /\ ticket # 0 => RealTicket(ticket, i)

\* The legs still to be committed.
LegsOK ==
    \A t \in Callers : \A i \in DOMAIN plans[t] :
        /\ plans[t][i].kind # "modify" /\ plans[t][i].role # "modify"
        /\ plans[t][i].status = "pending" /\ plans[t][i].ticket = 0
        /\ ~plans[t][i].beDone

RowOK(i) ==
    /\ orders[i].kind = "modify" <=> orders[i].role = "modify"
    /\ orders[i].kind = "modify" => Armed(orders[i].gid)
    /\ Sound(orders[i].status, orders[i].ticket, i)

RowsOK == \A i \in DOMAIN orders : RowOK(i)

\* A connector, the wire or a handler holds the acknowledgement m.
Held(m) ==
    /\ m # NoMsg
    /\ \/ m \in wire
       \/ \E c \in Connectors : conn[c].msg = m
       \/ \E h \in Handlers : hand[h].reply = m

MessagesOK == \A m \in Message : Held(m) => Sound(m.status, m.ticket, m.id)

\* A handler has computed the break-even move m and not queued it yet.
InTodo(m) == \E h \in Handlers : m \in hand[h].todo

MovesOK ==
    \A m \in Move : InTodo(m) =>
        m.ticket # 0 /\ RunnerTicket(m.ticket, m.gid) /\ Armed(m.gid)

\* Only orders proper have copies at the broker.
CopiesOK == \A k \in DOMAIN tickets : orders[tickets[k].order].kind # "modify"

SourceInv == LegsOK /\ RowsOK /\ MessagesOK /\ MovesOK /\ CopiesOK /\ BreakEvenOnlyArmed

-----------------------------------------------------------------------------
(* Who writes what.                                                         *)

LEMMA WritersOfOrders ==
  ASSUME [Next]_vars
  PROVE  \/ UNCHANGED orders
         \/ \E t \in Callers : Enqueue(t)
         \/ \E h \in Handlers : \E m \in wire : ServeAck(h, m)
         \/ \E h \in Handlers : \E m \in hand[h].todo : SweepEnqueue(h, m)
         \/ \E h \in Handlers : SweepMark(h)
BY DEF vars, Next, CallerStep, MaybeEnqueue, EnqueueDirect, TakePlan, EnqueueFails,
       ConnectorStep, Poll, HandleOrder, Place, PlaceUnclear, Modify, ModifyUnclear,
       Refuse, SendAck, BatchFails,
       AckTimesOut, ConnectorRestarts, AckLost, HandlerStep, CallSweep, SweepStep,
       SweepRead, Respond, SweepFails, AppRestarts, BrokerStep, LimitFills,
       PositionCloses

LEMMA WritersOfTickets ==
  ASSUME [Next]_vars
  PROVE  \/ UNCHANGED tickets
         \/ \E c \in Connectors : \E i \in conn[c].batch :
               PlacedAtBroker(c, i) \/ MovedAtBroker(c, i)
         \/ \E k \in DOMAIN tickets : LimitFills(k) \/ PositionCloses(k)
BY DEF vars, Next, CallerStep, MaybeEnqueue, EnqueueDirect, TakePlan, Enqueue,
       EnqueueFails, ConnectorStep, Poll, HandleOrder, Place, PlaceUnclear, Modify,
       ModifyUnclear, Refuse, SendAck, BatchFails,
       AckTimesOut, ConnectorRestarts, AckLost, HandlerStep, ServeAck, CallSweep,
       SweepStep, SweepRead, SweepEnqueue, SweepMark, Respond, SweepFails,
       AppRestarts, BrokerStep

LEMMA WritersOfPlans ==
  ASSUME [Next]_vars
  PROVE  \/ UNCHANGED plans
         \/ \E t \in Callers : \E plan \in Plans : TakePlan(t, plan)
         \/ \E t \in Callers : Enqueue(t) \/ EnqueueFails(t)
         \/ AppRestarts
BY DEF vars, Next, CallerStep, MaybeEnqueue, EnqueueDirect, ConnectorStep, Poll,
       HandleOrder, Place, PlaceUnclear, Modify, ModifyUnclear,
       Refuse, SendAck, BatchFails, AckTimesOut,
       ConnectorRestarts, AckLost, HandlerStep, ServeAck, CallSweep, SweepStep,
       SweepRead, SweepEnqueue, SweepMark, Respond, SweepFails, BrokerStep,
       LimitFills, PositionCloses

\* A report that was not there is the outcome of an order handled just now.
LEMMA WritersOfMsgs ==
  ASSUME TypeOK, RefsOK, [Next]_vars
  PROVE  \/ \A m : Held(m)' => Held(m)
         \/ \E c \in Connectors : \E i \in conn[c].batch :
               Place(c, i) \/ Modify(c, i) \/ Refuse(c, i) \/ Unclear(c, i)
<1> USE NoMsgAssumption DEF Held, TypeOK
<1>1. CASE UNCHANGED <<conn, wire, hand>>
  BY <1>1
<1>2. ASSUME NEW c \in Connectors,
             Poll(c) \/ SendAck(c) \/ BatchFails(c) \/ ConnectorRestarts(c)
      PROVE  \A m : Held(m)' => Held(m)
  <2>1. /\ hand' = hand /\ wire' \subseteq wire \cup {conn[c].msg}
        /\ \A d \in Connectors \ {c} : conn'[d] = conn[d]
        /\ conn'[c].msg \in {conn[c].msg, NoMsg}
    BY <1>2 DEF Poll, SendAck, BatchFails, ConnectorRestarts, Ready
  <2> QED BY <2>1
<1>3. CASE \E c \in Connectors : AckTimesOut(c)
  BY <1>3 DEF AckTimesOut, Released, Ready
<1>4. CASE \E m \in wire : AckLost(m)
  BY <1>4 DEF AckLost, Released, Ready
<1>5. CASE \E h \in Handlers : \E m \in wire : ServeAck(h, m)
  BY <1>5 DEF ServeAck
<1>6. ASSUME NEW h \in Handlers, CallSweep(h) \/ SweepRead(h) \/ SweepMark(h)
      PROVE  \A m : Held(m)' => Held(m)
  <2>1. hand'[h].reply \in {hand[h].reply, NoMsg} /\ UNCHANGED <<conn, wire>>
    BY <1>6 DEF CallSweep, SweepRead, SweepMark
  <2>2. \A g \in Handlers \ {h} : hand'[g] = hand[g]
    BY <1>6 DEF CallSweep, SweepRead, SweepMark
  <2> QED BY <2>1, <2>2
<1>7. CASE \E h \in Handlers : \E m \in hand[h].todo : SweepEnqueue(h, m)
  BY <1>7 DEF SweepEnqueue
<1>8. ASSUME NEW h \in Handlers, Respond(h) \/ SweepFails(h)
      PROVE  \A m : Held(m)' => Held(m)
  <2>1. /\ hand' = [hand EXCEPT ![h] = IdleHand]
        /\ conn' = Released(hand[h].reply)
        /\ wire' = wire
    BY <1>8 DEF Respond, SweepFails
  <2>2. \A g \in Handlers : hand'[g].reply \in {hand[g].reply, NoMsg}
    BY <2>1 DEF IdleHand
  <2>3. \A c \in Connectors : conn'[c].msg \in {conn[c].msg, NoMsg}
    BY <2>1 DEF Released, Ready
  <2> QED BY <2>1, <2>2, <2>3
<1>9. CASE AppRestarts
  BY <1>9 DEF AppRestarts, Ready, IdleHand
<1> QED
  BY <1>1, <1>2, <1>3, <1>4, <1>5, <1>6, <1>7, <1>8, <1>9
  DEF vars, Next, CallerStep, MaybeEnqueue, EnqueueDirect, TakePlan, Enqueue,
      EnqueueFails, ConnectorStep, HandleOrder, Unclear, HandlerStep, SweepStep,
      BrokerStep, LimitFills, PositionCloses

LEMMA WritersOfMoves ==
  ASSUME TypeOK, [Next]_vars
  PROVE  \/ \A m : InTodo(m)' => InTodo(m)
         \/ \E h \in Handlers : SweepRead(h)
<1> USE DEF InTodo, TypeOK
<1>1. CASE UNCHANGED hand
  BY <1>1
<1>2. CASE \E h \in Handlers : \E m \in wire : ServeAck(h, m)
  BY <1>2 DEF ServeAck
<1>3. CASE \E h \in Handlers : CallSweep(h) \/ SweepMark(h)
  BY <1>3 DEF CallSweep, SweepMark
<1>4. CASE \E h \in Handlers : \E m \in hand[h].todo : SweepEnqueue(h, m)
  BY <1>4 DEF SweepEnqueue
<1>5. ASSUME NEW h \in Handlers, Respond(h) \/ SweepFails(h)
      PROVE  \A m : InTodo(m)' => InTodo(m)
  <2>1. hand' = [hand EXCEPT ![h] = IdleHand]
    BY <1>5 DEF Respond, SweepFails
  <2>2. \A g \in Handlers : hand'[g].todo \subseteq hand[g].todo
    BY <2>1 DEF IdleHand
  <2> QED BY <2>2
<1>6. CASE AppRestarts
  BY <1>6 DEF AppRestarts, IdleHand
<1> QED
  BY <1>1, <1>2, <1>3, <1>4, <1>5, <1>6
  DEF vars, Next, CallerStep, MaybeEnqueue, EnqueueDirect, TakePlan, Enqueue,
      EnqueueFails, ConnectorStep, Poll, HandleOrder, Place, PlaceUnclear, Modify, ModifyUnclear,
       Refuse, SendAck,
      BatchFails, AckTimesOut, ConnectorRestarts, AckLost, HandlerStep, SweepStep,
      BrokerStep, LimitFills, PositionCloses

-----------------------------------------------------------------------------
(* Nothing is deleted: a row keeps its kind, role and group, a ticket keeps *)
(* its order, so that what is once true of them stays true.                 *)

Kept ==
    /\ \A i \in DOMAIN orders : /\ i \in DOMAIN orders'
                                /\ orders'[i].kind = orders[i].kind
                                /\ orders'[i].role = orders[i].role
                                /\ orders'[i].gid = orders[i].gid
    /\ \A k \in DOMAIN tickets : /\ k \in DOMAIN tickets'
                                 /\ tickets'[k].order = tickets[k].order

LEMMA KeptNext ==
  ASSUME TypeOK, RefsOK, [Next]_vars
  PROVE  Kept
<1>1. \A i \in DOMAIN orders : /\ i \in DOMAIN orders'
                               /\ orders'[i].kind = orders[i].kind
                               /\ orders'[i].role = orders[i].role
                               /\ orders'[i].gid = orders[i].gid
  <2> USE DEF TypeOK
  <2>1. CASE UNCHANGED orders
    BY <2>1
  <2>2. CASE \E t \in Callers : Enqueue(t)
    BY <2>2 DEF Enqueue
  <2>3. CASE \E h \in Handlers : \E m \in wire : ServeAck(h, m)
    BY <2>3 DEF ServeAck, Reported
  <2>4. CASE \E h \in Handlers : \E m \in hand[h].todo : SweepEnqueue(h, m)
    BY <2>4 DEF SweepEnqueue
  <2>5. CASE \E h \in Handlers : SweepMark(h)
    BY <2>5 DEF SweepMark, Trailed
  <2> QED BY <2>1, <2>2, <2>3, <2>4, <2>5, WritersOfOrders
<1>2. \A k \in DOMAIN tickets : /\ k \in DOMAIN tickets'
                                /\ tickets'[k].order = tickets[k].order
  <2> USE DEF TypeOK
  <2>1. CASE UNCHANGED tickets
    BY <2>1
  <2>2. CASE \E c \in Connectors : \E i \in conn[c].batch : PlacedAtBroker(c, i)
    BY <2>2, PlacedTickets
  <2>3. CASE \E c \in Connectors : \E i \in conn[c].batch : MovedAtBroker(c, i)
    BY <2>3, MovedTickets
  <2>4. CASE \E k \in DOMAIN tickets : LimitFills(k) \/ PositionCloses(k)
    BY <2>4, SMTT(40) DEF LimitFills, PositionCloses
  <2> QED BY <2>1, <2>2, <2>3, <2>4, WritersOfTickets
<1> QED BY <1>1, <1>2 DEF Kept

LEMMA KeptFacts ==
  ASSUME RefsOK, Kept
  PROVE  /\ \A k, g : RunnerTicket(k, g) => RunnerTicket(k, g)'
         /\ \A g : Armed(g) => Armed(g)'
         /\ \A k : \A i \in DOMAIN orders : RealTicket(k, i) => RealTicket(k, i)'
         /\ \A status, k : \A i \in DOMAIN orders :
               Sound(status, k, i) => Sound(status, k, i)'
<1>1. \A k, g : RunnerTicket(k, g) => RunnerTicket(k, g)'
  BY DEF RefsOK, Kept, RunnerTicket
<1>2. \A g : Armed(g) => Armed(g)'
  BY DEF RefsOK, Kept, Armed
<1>3. \A k : \A i \in DOMAIN orders : RealTicket(k, i) => RealTicket(k, i)'
  BY <1>1 DEF Kept, RealTicket
<1> QED BY <1>1, <1>2, <1>3 DEF Sound

LEMMA HeldRefs ==
  ASSUME RefsOK, NEW m, Held(m)
  PROVE  m.id \in DOMAIN orders
BY DEF RefsOK, Held

-----------------------------------------------------------------------------
(* The conjuncts of SourceInv, each under every step that can disturb it.   *)

LEMMA LegsNext ==
  ASSUME TypeOK, LegsOK, [Next]_vars
  PROVE  LegsOK'
<1> USE DEF TypeOK, LegsOK
<1>1. CASE UNCHANGED plans
  BY <1>1
<1>2. ASSUME NEW t \in Callers, NEW plan \in Plans, TakePlan(t, plan)
      PROVE  LegsOK'
  <2>1. \A i \in DOMAIN plan : plan[i] \in Leg
    BY PlansAssumption
  <2>2. \A i \in DOMAIN plan : plan[i].kind # "modify" /\ plan[i].role # "modify"
    BY <2>1 DEF Leg
  <2>3. plans' = [plans EXCEPT ![t] = LegRows(plan, signals + 1)]
    BY <1>2 DEF TakePlan
  <2> QED BY <2>2, <2>3 DEF LegRows
<1>3. ASSUME NEW t \in Callers, Enqueue(t)
      PROVE  LegsOK'
  BY <1>3 DEF Enqueue
<1>4. CASE \E t \in Callers : EnqueueFails(t)
  BY <1>4 DEF EnqueueFails
<1>5. CASE AppRestarts
  BY <1>5 DEF AppRestarts
<1> QED BY <1>1, <1>2, <1>3, <1>4, <1>5, WritersOfPlans

\* A row that keeps its status and ticket, whatever becomes of be_done.
LEMMA RowKept ==
  ASSUME RefsOK, Kept, NEW i \in DOMAIN orders, RowOK(i),
         orders'[i].status = orders[i].status, orders'[i].ticket = orders[i].ticket
  PROVE  RowOK(i)'
<1>1. Armed(orders[i].gid) => Armed(orders[i].gid)'
  BY DEF RefsOK, Kept, Armed
<1>2. RealTicket(orders[i].ticket, i) => RealTicket(orders[i].ticket, i)'
  BY DEF RefsOK, Kept, RealTicket, RunnerTicket
<1> QED BY <1>1, <1>2 DEF RowOK, Sound, Kept

LEMMA RowsNext ==
  ASSUME TypeOK, RefsOK, SourceInv, [Next]_vars
  PROVE  RowsOK'
<1>0. Kept /\ orders \in Seq(Order) /\ \A i \in DOMAIN orders : RowOK(i)
  BY KeptNext DEF TypeOK, SourceInv, RowsOK
<1>2. CASE UNCHANGED orders
  BY <1>0, <1>2, RowKept DEF RowsOK
<1>3. ASSUME NEW t \in Callers, Enqueue(t)
      PROVE  RowsOK'
  <2>1. /\ orders' = Append(orders, Head(plans[t]))
        /\ plans[t] \in Seq(Order) /\ plans[t] # <<>>
    BY <1>3 DEF Enqueue, TypeOK
  <2>2. /\ Head(plans[t]).kind # "modify" /\ Head(plans[t]).role # "modify"
        /\ Head(plans[t]).status = "pending" /\ Head(plans[t]).ticket = 0
    BY <2>1 DEF SourceInv, LegsOK
  <2>3. PICK n : n = Len(orders) + 1
    OBVIOUS
  <2>4. /\ \A i \in DOMAIN orders : orders'[i] = orders[i]
        /\ DOMAIN orders' = DOMAIN orders \cup {n}
        /\ orders'[n] = Head(plans[t])
    BY <1>0, <2>1, <2>3
  <2>5. ASSUME NEW i \in DOMAIN orders
        PROVE  RowOK(i)'
    BY <1>0, <2>4, RowKept
  <2>6. RowOK(n)'
    BY <2>2, <2>4 DEF RowOK, Sound
  <2> QED BY <2>4, <2>5, <2>6 DEF RowsOK
<1>4. ASSUME NEW h \in Handlers, NEW m \in wire, ServeAck(h, m)
      PROVE  RowsOK'
  <2>1. /\ m \in Message /\ m.id \in DOMAIN orders
        /\ orders' = [orders EXCEPT ![m.id] = Reported(orders[m.id], m)]
    BY <1>4 DEF TypeOK, RefsOK, ServeAck
  <2>2. Sound(m.status, m.ticket, m.id)
    BY <2>1, NoMsgAssumption DEF SourceInv, MessagesOK, Held
  <2>3. Sound(m.status, m.ticket, m.id)'
    BY <1>0, <2>1, <2>2, KeptFacts
  <2>4. /\ DOMAIN orders' = DOMAIN orders
        /\ \A i \in DOMAIN orders \ {m.id} : orders'[i] = orders[i]
        /\ orders'[m.id].status = m.status
        /\ orders'[m.id].ticket = IF m.ticket # 0 THEN m.ticket ELSE orders[m.id].ticket
    BY <1>0, <2>1 DEF Reported
  <2>5. \A i \in DOMAIN orders \ {m.id} : RowOK(i)'
    BY <1>0, <2>4, RowKept
  <2>6. RowOK(m.id)'
    <3>1. CASE m.ticket # 0
      <4>1. Armed(orders[m.id].gid) => Armed(orders[m.id].gid)'
        BY <1>0, <2>1 DEF RefsOK, Kept, Armed
      <4> QED BY <1>0, <2>1, <2>3, <2>4, <3>1, <4>1 DEF RowOK, Sound, Kept
    <3>2. CASE m.ticket = 0
      <4>1. Armed(orders[m.id].gid) => Armed(orders[m.id].gid)'
        BY <1>0, <2>1 DEF RefsOK, Kept, Armed
      <4>2. RealTicket(orders[m.id].ticket, m.id) => RealTicket(orders[m.id].ticket, m.id)'
        BY <1>0, <2>1, <2>4, <3>2 DEF RefsOK, Kept, RealTicket, RunnerTicket
      <4>3. m.status \notin {"sent", "filled"}
        BY <2>2, <3>2 DEF Sound
      <4> QED BY <1>0, <2>1, <2>4, <3>2, <4>1, <4>2, <4>3 DEF RowOK, Sound, Kept
    <3> QED BY <3>1, <3>2
  <2> QED BY <2>4, <2>5, <2>6 DEF RowsOK
<1>5. ASSUME NEW h \in Handlers, NEW m \in hand[h].todo, SweepEnqueue(h, m)
      PROVE  RowsOK'
  <2>1. m \in Move /\ InTodo(m)
    BY DEF TypeOK, InTodo
  <2>2. m.ticket # 0 /\ RunnerTicket(m.ticket, m.gid) /\ Armed(m.gid)
    BY <2>1 DEF SourceInv, MovesOK
  <2>3. RunnerTicket(m.ticket, m.gid)' /\ Armed(m.gid)'
    BY <1>0, <2>2, KeptFacts
  <2>4. PICK n : n = Len(orders) + 1
    OBVIOUS
  <2>5. /\ \A i \in DOMAIN orders : orders'[i] = orders[i]
        /\ DOMAIN orders' = DOMAIN orders \cup {n}
        /\ orders'[n] = ModifyRow(m)
    BY <1>0, <1>5, <2>4 DEF SweepEnqueue
  <2>6. ASSUME NEW i \in DOMAIN orders
        PROVE  RowOK(i)'
    BY <1>0, <2>5, RowKept
  <2>7. RowOK(n)'
    <3>1. RealTicket(m.ticket, n)'
      BY <2>3, <2>5 DEF RealTicket, ModifyRow
    <3> QED BY <2>2, <2>3, <2>5, <3>1 DEF RowOK, Sound, ModifyRow
  <2> QED BY <2>5, <2>6, <2>7 DEF RowsOK
<1>6. ASSUME NEW h \in Handlers, SweepMark(h)
      PROVE  RowsOK'
  <2>1. /\ DOMAIN orders' = DOMAIN orders
        /\ \A i \in DOMAIN orders : /\ orders'[i].status = orders[i].status
                                    /\ orders'[i].ticket = orders[i].ticket
    BY <1>0, <1>6 DEF SweepMark, Trailed
  <2> QED BY <1>0, <2>1, RowKept DEF RowsOK
<1> QED BY <1>2, <1>3, <1>4, <1>5, <1>6, WritersOfOrders

\* The report of an order handled just now is the only new message.
LEMMA OutcomeMessages ==
  ASSUME TypeOK, RefsOK, SourceInv, Kept, UNCHANGED <<wire, hand>>,
         NEW c \in Connectors, NEW i \in conn[c].batch,
         NEW status, NEW ticket, Outcome(c, i, status, ticket),
         Sound(status, ticket, i)'
  PROVE  MessagesOK'
<1> DEFINE msg == [from |-> c, id |-> i, status |-> status, ticket |-> ticket,
                   attempt |-> faults]
<1>1. /\ conn'[c].msg = msg /\ msg.id = i /\ msg.status = status /\ msg.ticket = ticket
      /\ \A d \in Connectors \ {c} : conn'[d] = conn[d]
  BY DEF TypeOK, Outcome
<1> HIDE DEF msg
<1>2. ASSUME NEW m \in Message, Held(m)'
      PROVE  Sound(m.status, m.ticket, m.id)'
  <2>1. CASE Held(m)
    BY <2>1, HeldRefs, KeptFacts DEF SourceInv, MessagesOK
  <2>2. CASE ~Held(m)
    <3>1. m = conn'[c].msg
      BY <1>1, <1>2, <2>2 DEF Held
    <3> QED BY <1>1, <3>1
  <2> QED BY <2>1, <2>2
<1> QED BY <1>2 DEF MessagesOK

LEMMA MessagesNext ==
  ASSUME TypeOK, RefsOK, SourceInv, [Next]_vars
  PROVE  MessagesOK'
<1>0. Kept
  BY KeptNext
<1>1. CASE \A m : Held(m)' => Held(m)
  <2>1. ASSUME NEW m \in Message, Held(m)'
        PROVE  Sound(m.status, m.ticket, m.id)'
    BY <1>0, <1>1, <2>1, HeldRefs, KeptFacts DEF SourceInv, MessagesOK
  <2> QED BY <2>1 DEF MessagesOK
<1>2. ASSUME NEW c \in Connectors, NEW i \in conn[c].batch, Place(c, i)
      PROVE  MessagesOK'
  <2> DEFINE status == IF orders[i].kind = "market" THEN "filled" ELSE "sent"
  <2>1. PICK k : k = Len(tickets) + 1
    OBVIOUS
  <2>2. PICK s : s = status
    OBVIOUS
  <2>3. Outcome(c, i, s, k) /\ UNCHANGED <<orders, wire, hand>> /\ orders[i].kind # "modify"
    BY <1>2, <2>1, <2>2 DEF Place, PlacedAtBroker
  <2>4. k # 0 /\ k \in DOMAIN tickets' /\ tickets'[k].order = i
    BY <1>2, <2>1, PlacedTickets DEF Place, TypeOK
  <2>5. Sound(s, k, i)'
    BY <2>3, <2>4 DEF Sound, RealTicket
  <2> QED BY <1>0, <2>3, <2>5, OutcomeMessages
<1>3. ASSUME NEW c \in Connectors, NEW i \in conn[c].batch, Modify(c, i)
      PROVE  MessagesOK'
  <2>1. PICK k : k = orders[i].ticket
    OBVIOUS
  <2>2. /\ Outcome(c, i, "filled", k) /\ UNCHANGED <<orders, wire, hand>>
        /\ k \in DOMAIN tickets
    BY <1>3, <2>1 DEF Modify, MovedAtBroker
  <2>3. k # 0 /\ i \in DOMAIN orders
    BY <2>2, BatchRow DEF TypeOK
  <2>4. RealTicket(k, i)'
    BY <1>0, <2>1, <2>3, KeptFacts DEF SourceInv, RowsOK, RowOK, Sound
  <2>5. Sound("filled", k, i)'
    BY <2>3, <2>4 DEF Sound
  <2> QED BY <1>0, <2>2, <2>5, OutcomeMessages
<1>4. ASSUME NEW c \in Connectors, NEW i \in conn[c].batch, Refuse(c, i) \/ Unclear(c, i)
      PROVE  MessagesOK'
  <2>1. Outcome(c, i, "rejected", 0) /\ UNCHANGED <<orders, wire, hand>>
    BY <1>4, UnclearStep DEF Refuse
  <2>2. Sound("rejected", 0, i)'
    BY DEF Sound
  <2> QED BY <1>0, <2>1, <2>2, OutcomeMessages
<1> QED BY <1>1, <1>2, <1>3, <1>4, WritersOfMsgs

LEMMA MovesNext ==
  ASSUME TypeOK, RefsOK, SourceInv, [Next]_vars
  PROVE  MovesOK'
<1>0. Kept
  BY KeptNext
<1>1. CASE \A m : InTodo(m)' => InTodo(m)
  <2>1. ASSUME NEW m \in Move, InTodo(m)'
        PROVE  m.ticket # 0 /\ RunnerTicket(m.ticket, m.gid)' /\ Armed(m.gid)'
    BY <1>0, <1>1, <2>1, KeptFacts DEF SourceInv, MovesOK
  <2> QED BY <2>1 DEF MovesOK
<1>2. ASSUME NEW h \in Handlers, SweepRead(h)
      PROVE  MovesOK'
  \* A runner with a ticket, whose first partial is filled and so has one too.
  <2>1. ASSUME NEW m \in BreakevenModifications
        PROVE  m.ticket # 0 /\ RunnerTicket(m.ticket, m.gid) /\ Armed(m.gid)
    <3>1. PICK r \in DOMAIN orders, p \in DOMAIN orders :
             /\ m.gid = orders[r].gid /\ m.ticket = orders[r].ticket
             /\ orders[r].role = "runner" /\ orders[r].ticket # 0
             /\ orders[p].gid = orders[r].gid /\ orders[p].role = "p1"
             /\ orders[p].status = "filled"
      BY DEF BreakevenModifications, Moves, RecentRows
    <3>2. RowOK(r) /\ RowOK(p)
      BY DEF SourceInv, RowsOK
    <3>3. orders[r].kind # "modify" /\ orders[p].kind # "modify"
      BY <3>1, <3>2 DEF RowOK
    <3>4. RealTicket(orders[r].ticket, r)
      BY <3>1, <3>2 DEF RowOK, Sound
    <3>5. RunnerTicket(m.ticket, m.gid)
      BY <3>1, <3>3, <3>4 DEF RealTicket, RunnerTicket
    <3>6. RealTicket(orders[p].ticket, p)
      BY <3>1, <3>2 DEF RowOK, Sound
    <3>7. Armed(m.gid)
      BY <3>1, <3>3, <3>6 DEF RealTicket, Armed
    <3> QED BY <3>1, <3>5, <3>7
  <2>2. ASSUME NEW m \in Move, InTodo(m)'
        PROVE  m.ticket # 0 /\ RunnerTicket(m.ticket, m.gid) /\ Armed(m.gid)
    <3>1. InTodo(m) \/ m \in BreakevenModifications
      <4>1. hand'[h].todo \subseteq BreakevenModifications
        BY <1>2 DEF SweepRead, TypeOK
      <4>2. \A g \in Handlers \ {h} : hand'[g] = hand[g]
        BY <1>2 DEF SweepRead, TypeOK
      <4> QED BY <2>2, <4>1, <4>2 DEF InTodo
    <3> QED BY <2>1, <3>1 DEF SourceInv, MovesOK
  <2>3. ASSUME NEW m \in Move, InTodo(m)'
        PROVE  m.ticket # 0 /\ RunnerTicket(m.ticket, m.gid)' /\ Armed(m.gid)'
    BY <1>0, <2>2, <2>3, KeptFacts
  <2> QED BY <2>3 DEF MovesOK
<1> QED BY <1>1, <1>2, WritersOfMoves

LEMMA CopiesNext ==
  ASSUME TypeOK, RefsOK, SourceInv, [Next]_vars
  PROVE  CopiesOK'
<1>0. Kept
  BY KeptNext
<1>1. \A k \in DOMAIN tickets : orders'[tickets'[k].order].kind # "modify"
  BY <1>0 DEF RefsOK, Kept, SourceInv, CopiesOK
<1>2. CASE DOMAIN tickets' = DOMAIN tickets
  BY <1>1, <1>2 DEF CopiesOK
<1>3. ASSUME NEW c \in Connectors, NEW i \in conn[c].batch, PlacedAtBroker(c, i)
      PROVE  CopiesOK'
  <2>1. /\ DOMAIN tickets' = DOMAIN tickets \cup {Len(tickets) + 1}
        /\ tickets'[Len(tickets) + 1].order = i
    BY <1>3, PlacedTickets
  <2>2. orders'[i].kind # "modify"
    BY <1>0, <1>3 DEF PlacedAtBroker, RefsOK, Kept
  <2> QED BY <1>1, <2>1, <2>2 DEF CopiesOK
<1>4. CASE \E c \in Connectors : \E i \in conn[c].batch : MovedAtBroker(c, i)
  BY <1>2, <1>4, MovedTickets
<1>5. CASE \E k \in DOMAIN tickets : LimitFills(k) \/ PositionCloses(k)
  BY <1>2, <1>5 DEF LimitFills, PositionCloses, TypeOK
<1> QED BY <1>2, <1>3, <1>4, <1>5, WritersOfTickets

\* The stop of ticket k is at break-even only if its group is armed.
StopOK(k) ==
    tickets[k].stop = "breakeven" =>
        \E g \in Nat : RunnerTicket(k, g) /\ Armed(g)

LEMMA StopsAsRunners ==
  ASSUME TypeOK, RefsOK
  PROVE  BreakEvenOnlyArmed <=> \A k \in DOMAIN tickets : StopOK(k)
<1>1. \A i \in DOMAIN orders : orders[i] \in Order
  BY DEF TypeOK
<1>2. \A k \in DOMAIN tickets : orders[tickets[k].order].gid \in Nat
  BY <1>1 DEF RefsOK, Order
<1> QED BY <1>2 DEF BreakEvenOnlyArmed, StopOK, RunnerTicket, Armed

LEMMA StopsNext ==
  ASSUME TypeOK, RefsOK, SourceInv, [Next]_vars
  PROVE  BreakEvenOnlyArmed'
<1>0. Kept /\ TypeOK' /\ RefsOK'
  BY KeptNext, TypeNext, RefsNext
<1>1. \A k \in DOMAIN tickets : StopOK(k)
  BY StopsAsRunners DEF SourceInv
<1>2. ASSUME NEW k \in DOMAIN tickets, tickets'[k].stop = tickets[k].stop
      PROVE  StopOK(k)'
  <2>1. ASSUME NEW g \in Nat, RunnerTicket(k, g) /\ Armed(g)
        PROVE  RunnerTicket(k, g)' /\ Armed(g)'
    BY <1>0, <2>1, KeptFacts
  <2> QED BY <1>1, <1>2, <2>1 DEF StopOK
<1>3. \A k \in DOMAIN tickets' : StopOK(k)'
  <2>1. CASE UNCHANGED tickets
    BY <1>2, <2>1
  <2>2. ASSUME NEW c \in Connectors, NEW i \in conn[c].batch, PlacedAtBroker(c, i)
        PROVE  \A k \in DOMAIN tickets' : StopOK(k)'
    <3>1. PICK n : n = Len(tickets) + 1
      OBVIOUS
    <3>2. /\ DOMAIN tickets' = DOMAIN tickets \cup {n} /\ tickets'[n].stop = "initial"
          /\ \A k \in DOMAIN tickets : tickets'[k].stop = tickets[k].stop
      BY <2>2, <3>1, PlacedTickets
    <3> QED BY <1>2, <3>2 DEF StopOK
  <2>3. ASSUME NEW c \in Connectors, NEW i \in conn[c].batch, MovedAtBroker(c, i)
        PROVE  \A k \in DOMAIN tickets' : StopOK(k)'
    <3>1. PICK n, g : n = orders[i].ticket /\ g = orders[i].gid
      OBVIOUS
    <3>2. /\ DOMAIN tickets' = DOMAIN tickets /\ n \in DOMAIN tickets
          /\ \A k \in DOMAIN tickets \ {n} : tickets'[k].stop = tickets[k].stop
      BY <2>3, <3>1, MovedTickets
    <3>3. /\ i \in DOMAIN orders /\ orders[i] \in Order /\ orders[i].kind = "modify"
          /\ n # 0
      BY <2>3, <3>1, <3>2, BatchRow DEF MovedAtBroker, TypeOK
    <3>4. RowOK(i) /\ g \in Nat
      BY <3>1, <3>3 DEF SourceInv, RowsOK, Order
    <3>5. RunnerTicket(n, g) /\ Armed(g)
      BY <3>1, <3>3, <3>4 DEF RowOK, Sound, RealTicket
    <3>6. RunnerTicket(n, g)' /\ Armed(g)'
      BY <1>0, <3>5, KeptFacts
    <3>7. StopOK(n)'
      BY <3>6, <3>4 DEF StopOK
    <3> QED BY <1>2, <3>2, <3>7
  <2>4. CASE \E j \in DOMAIN tickets : LimitFills(j) \/ PositionCloses(j)
    <3>1. /\ DOMAIN tickets' = DOMAIN tickets
          /\ \A k \in DOMAIN tickets : tickets'[k].stop = tickets[k].stop
      BY <2>4 DEF LimitFills, PositionCloses, TypeOK
    <3> QED BY <1>2, <3>1
  <2> QED BY <2>1, <2>2, <2>3, <2>4, WritersOfTickets
<1>4. (TypeOK /\ RefsOK => (BreakEvenOnlyArmed <=> \A k \in DOMAIN tickets : StopOK(k)))'
  BY StopsAsRunners, PTL
<1> QED BY <1>0, <1>3, <1>4

-----------------------------------------------------------------------------
(* The tickets.                                                             *)

LEMMA SourceInit == Init => SourceInv
BY NoMsgAssumption DEF Init, SourceInv, LegsOK, RowsOK, MessagesOK, Held, Message,
   MovesOK, InTodo, CopiesOK, BreakEvenOnlyArmed, Ready, IdleHand

\* What every ticket number in the rows, the reports and the sweeps stands for.
THEOREM SourceInvariant == Spec => []SourceInv
<1>1. Init => SourceInv
  BY SourceInit
<1>2. TypeOK /\ RefsOK /\ SourceInv /\ [Next]_vars => SourceInv'
  BY LegsNext, RowsNext, MessagesNext, MovesNext, CopiesNext, StopsNext DEF SourceInv
<1> QED BY <1>1, <1>2, TypeRefsInvariant, PTL DEF Spec

\* ack() and breakeven_modifications: whatever acknowledgements come twice, late or
\* for an order placed again, a ticket stored on a row is one the broker gave for
\* that order, and on a modify order one of the runner of its group.
THEOREM StoredTicketsAreReal == Spec => []TicketsAreReal
<1>1. SourceInv => TicketsAreReal
  BY DEF SourceInv, RowsOK, RowOK, Sound, RealTicket, RunnerTicket, TicketsAreReal
<1> QED BY <1>1, SourceInvariant, PTL

\* breakeven_modifications: no leg but a runner is ever moved to break-even, and
\* none before the first partial of its group was placed at the broker.
THEOREM OnlyArmedRunnersMove == Spec => []BreakEvenOnlyArmed
<1>1. SourceInv => BreakEvenOnlyArmed
  BY DEF SourceInv
<1> QED BY <1>1, SourceInvariant, PTL

-----------------------------------------------------------------------------
(* BooksMatchBroker.  A placement is reported before it leaves its          *)
(* connector, a report is on its way until a row takes its ticket, and no   *)
(* row gives one back; whatever breaks that chain is a fault, which pays    *)
(* for the copy.                                                            *)

\* Order i has a ticket, or one is under way to it.
Booked(i) == orders[i].ticket # 0 \/ Reporting(i)

LEMMA BooksQuiet ==
  ASSUME IInv, BooksMatchBroker, faults' = faults, \A i : Copies(i)' = Copies(i),
         \A i \in DOMAIN orders : Booked(i) => Booked(i)'
  PROVE  BooksMatchBroker'
<1>1. ASSUME NEW i \in DOMAIN orders', ~Booked(i)'
      PROVE  Cardinality(Copies(i)') <= faults'
  <2>1. CASE i \in DOMAIN orders
    BY <1>1, <2>1 DEF BooksMatchBroker, Booked
  <2>2. CASE i \notin DOMAIN orders
    BY <2>2, NewRowHasNoCopy DEF IInv, TypeOK
  <2> QED BY <2>1, <2>2
<1> QED BY <1>1 DEF BooksMatchBroker, Booked

LEMMA BooksNext ==
  ASSUME IInv, Kept, BooksMatchBroker, [Next]_vars
  PROVE  BooksMatchBroker'
<1>0. TypeOK /\ RefsOK /\ CopiesBounded
  BY DEF IInv
<1>1. CASE Fault /\ UNCHANGED <<orders, tickets>>
  <2>1. faults' = faults + 1 /\ \A j : Copies(j)' = Copies(j)
    BY <1>1 DEF Fault, Copies
  <2> QED BY <1>0, <1>1, <2>1, FaultStep
<1>2. ASSUME NEW c \in Connectors, NEW i \in conn[c].batch, Unclear(c, i)
      PROVE  BooksMatchBroker'
  BY <1>2, UnclearPaid
<1>3. CASE UNCHANGED <<orders, conn, wire, faults>> /\ \A j : Copies(j)' = Copies(j)
  <2>1. \A i \in DOMAIN orders : Booked(i) => Booked(i)'
    BY <1>3 DEF Booked, Reporting
  <2> QED BY <1>3, <2>1, BooksQuiet
<1>4. ASSUME NEW t \in Callers, Enqueue(t)
      PROVE  BooksMatchBroker'
  <2>1. UNCHANGED <<conn, wire, tickets, faults>>
    BY <1>4 DEF Enqueue
  <2>2. \A i \in DOMAIN orders : orders'[i].ticket = orders[i].ticket
    BY <1>0, <1>4 DEF Enqueue, TypeOK
  <2>3. \A i \in DOMAIN orders : Booked(i) => Booked(i)'
    BY <2>1, <2>2 DEF Booked, Reporting
  <2> QED BY <2>1, <2>3, BooksQuiet DEF Copies
<1>5. ASSUME NEW c \in Connectors, Poll(c)
      PROVE  BooksMatchBroker'
  <2>1. /\ UNCHANGED <<orders, wire, tickets, faults>> /\ conn[c].phase = "ready"
        /\ \A d \in Connectors \ {c} : conn'[d] = conn[d]
    BY <1>0, <1>5 DEF Poll, TypeOK
  <2>2. \A i \in DOMAIN orders : Booked(i) => Booked(i)'
    BY <2>1 DEF Booked, Reporting
  <2> QED BY <2>1, <2>2, BooksQuiet DEF Copies
<1>6. ASSUME NEW c \in Connectors, NEW i \in conn[c].batch, Place(c, i)
      PROVE  BooksMatchBroker'
  <2>1. PICK k : k = Len(tickets) + 1
    OBVIOUS
  <2>2. /\ UNCHANGED <<orders, wire, faults>> /\ conn[c].phase = "ready"
        /\ PlacedAtBroker(c, i) /\ k # 0
        /\ \A d \in Connectors \ {c} : conn'[d] = conn[d]
        /\ conn'[c].phase = "placed" /\ conn'[c].msg.id = i /\ conn'[c].msg.ticket = k
    BY <1>0, <1>6, <2>1 DEF Place, PlacedAtBroker, AtHead, Outcome, TypeOK
  <2>3. Booked(i)'
    BY <2>2 DEF Booked, Reporting
  <2>4. \A j \in DOMAIN orders : Booked(j) => Booked(j)'
    BY <2>2 DEF Booked, Reporting
  <2>5. \A j : j # i => Copies(j)' = Copies(j)
    BY <2>2, PlacedCopies
  <2>6. ASSUME NEW j \in DOMAIN orders', ~Booked(j)'
        PROVE  Cardinality(Copies(j)') <= faults'
    BY <2>2, <2>3, <2>4, <2>5, <2>6 DEF BooksMatchBroker, Booked
  <2> QED BY <2>6 DEF BooksMatchBroker, Booked
<1>7. ASSUME NEW c \in Connectors, NEW i \in conn[c].batch, Modify(c, i) \/ Refuse(c, i)
      PROVE  BooksMatchBroker'
  <2>1. /\ UNCHANGED <<orders, wire, faults>> /\ conn[c].phase = "ready"
        /\ \A d \in Connectors \ {c} : conn'[d] = conn[d]
    BY <1>0, <1>7 DEF Modify, MovedAtBroker, Refuse, AtHead, Outcome, TypeOK
  <2>2. \A j : Copies(j)' = Copies(j)
    BY <1>0, <1>7, MovedTickets DEF Modify, Refuse, Copies
  <2>3. \A j \in DOMAIN orders : Booked(j) => Booked(j)'
    BY <2>1 DEF Booked, Reporting
  <2> QED BY <2>1, <2>2, <2>3, BooksQuiet
<1>8. ASSUME NEW c \in Connectors, SendAck(c)
      PROVE  BooksMatchBroker'
  <2>1. /\ UNCHANGED <<orders, tickets, faults>> /\ wire' = wire \cup {conn[c].msg}
        /\ \A d \in Connectors \ {c} : conn'[d] = conn[d]
    BY <1>0, <1>8 DEF SendAck, TypeOK
  <2>2. \A j : Reporting(j) => Reporting(j)'
    BY <2>1 DEF Reporting
  <2> QED BY <2>1, <2>2, BooksQuiet DEF Booked, Copies
<1>9. ASSUME NEW h \in Handlers, NEW m \in wire, ServeAck(h, m)
      PROVE  BooksMatchBroker'
  <2>1. /\ m.id \in DOMAIN orders /\ orders \in Seq(Order)
        /\ UNCHANGED <<conn, tickets, faults>> /\ wire' = wire \ {m}
        /\ orders' = [orders EXCEPT ![m.id] = Reported(orders[m.id], m)]
    BY <1>0, <1>9 DEF ServeAck, TypeOK, RefsOK
  <2>2. /\ \A j \in DOMAIN orders \ {m.id} : orders'[j] = orders[j]
        /\ orders'[m.id].ticket = IF m.ticket # 0 THEN m.ticket ELSE orders[m.id].ticket
    BY <2>1 DEF Reported
  <2>3. ASSUME NEW j \in DOMAIN orders, Booked(j)
        PROVE  Booked(j)'
    <3>1. CASE orders[j].ticket # 0
      BY <2>2, <3>1 DEF Booked
    <3>2. CASE m.id = j /\ m.ticket # 0
      BY <2>2, <3>2 DEF Booked
    <3>3. CASE Reporting(j) /\ ~(m.id = j /\ m.ticket # 0)
      BY <2>1, <3>3 DEF Booked, Reporting
    <3> QED BY <2>3, <3>1, <3>2, <3>3 DEF Booked
  <2> QED BY <2>1, <2>3, BooksQuiet DEF Copies
<1>10. ASSUME NEW h \in Handlers, NEW m \in hand[h].todo, SweepEnqueue(h, m)
       PROVE  BooksMatchBroker'
  <2>1. UNCHANGED <<conn, wire, tickets, faults>>
    BY <1>10 DEF SweepEnqueue
  <2>2. \A i \in DOMAIN orders : orders'[i].ticket = orders[i].ticket
    BY <1>0, <1>10 DEF SweepEnqueue, TypeOK
  <2>3. \A i \in DOMAIN orders : Booked(i) => Booked(i)'
    BY <2>1, <2>2 DEF Booked, Reporting
  <2> QED BY <2>1, <2>3, BooksQuiet DEF Copies
<1>11. ASSUME NEW h \in Handlers, SweepMark(h)
       PROVE  BooksMatchBroker'
  <2>1. UNCHANGED <<conn, wire, tickets, faults>>
    BY <1>11 DEF SweepMark
  <2>2. \A i \in DOMAIN orders : orders'[i].ticket = orders[i].ticket
    BY <1>0, <1>11 DEF SweepMark, Trailed, TypeOK
  <2>3. \A i \in DOMAIN orders : Booked(i) => Booked(i)'
    BY <2>1, <2>2 DEF Booked, Reporting
  <2> QED BY <2>1, <2>3, BooksQuiet DEF Copies
<1>12. ASSUME NEW h \in Handlers, Respond(h)
       PROVE  BooksMatchBroker'
  <2>1. UNCHANGED <<orders, wire, tickets, faults>> /\ conn' = Released(hand[h].reply)
    BY <1>12 DEF Respond
  <2>2. \A c \in Connectors : conn[c].phase = "placed" => conn'[c] = conn[c]
    BY <2>1 DEF Released
  <2>3. \A j : Reporting(j) => Reporting(j)'
    BY <2>1, <2>2 DEF Reporting
  <2> QED BY <2>1, <2>3, BooksQuiet DEF Booked, Copies
<1>13. CASE \E k \in DOMAIN tickets : LimitFills(k) \/ PositionCloses(k)
  <2>1. /\ UNCHANGED <<orders, conn, wire, faults>> /\ DOMAIN tickets' = DOMAIN tickets
    BY <1>0, <1>13 DEF LimitFills, PositionCloses, TypeOK
  <2>2. \A k \in DOMAIN tickets : tickets'[k].order = tickets[k].order
    BY DEF Kept
  <2> QED BY <1>3, <2>1, <2>2 DEF Copies
<1>14. CASE UNCHANGED <<orders, conn, wire, tickets, faults>>
  BY <1>3, <1>14 DEF Copies
<1> QED
  BY <1>1, <1>2, <1>4, <1>5, <1>6, <1>7, <1>8, <1>9, <1>10, <1>11, <1>12, <1>13,
     <1>14
  DEF vars, Next, CallerStep, MaybeEnqueue, EnqueueDirect, TakePlan, EnqueueFails,
      ConnectorStep, HandleOrder, Unclear, BatchFails, AckTimesOut, ConnectorRestarts,
      AckLost, HandlerStep, CallSweep, SweepStep, SweepRead, SweepFails, AppRestarts,
      BrokerStep

\* place(), ack(): what the broker holds of an order whose row has no ticket, and
\* none under way to it, was paid for with unclear results, lost, late or cut-off
\* reports and restarts.
THEOREM BooksAgree == Spec => []BooksMatchBroker
<1>1. Init => IInv /\ BooksMatchBroker
  BY TypeInit, RefsInit
  DEF Init, IInv, CopiesBounded, UnplacedPaid, BooksMatchBroker
<1>2. IInv /\ BooksMatchBroker /\ [Next]_vars => IInv' /\ BooksMatchBroker'
  <2> SUFFICES ASSUME IInv, BooksMatchBroker, [Next]_vars
               PROVE  IInv' /\ BooksMatchBroker'
    OBVIOUS
  <2>1. TypeOK /\ RefsOK
    BY DEF IInv
  <2>2. Kept
    BY <2>1, KeptNext
  <2>3. IInv'
    BY <2>1, TypeNext, RefsNext, PaidNext DEF IInv
  <2> QED BY <2>2, <2>3, BooksNext
<1> QED BY <1>1, <1>2, PTL DEF Spec

-----------------------------------------------------------------------------
(* RunnersFollowTheirPartial: the legs of a group leave its plan in order.  *)

\* The first partial of group g is among the rows.
Led(rows, g) == \E p \in DOMAIN rows : rows[p].role = "p1" /\ rows[p].gid = g

\* Before a runner still to be committed comes its first partial, unless that is
\* in the table already.
LegsFollow ==
    \A t \in Callers : \A j \in DOMAIN plans[t] :
        plans[t][j].role = "runner" =>
            \/ \E i \in DOMAIN plans[t] : /\ i < j
                                          /\ plans[t][i].role = "p1"
                                          /\ plans[t][i].gid = plans[t][j].gid
            \/ Led(orders, plans[t][j].gid)

FollowInv == LegsFollow /\ RunnersFollowTheirPartial

LEMMA LedKept ==
  ASSUME Kept, NEW g, Led(orders, g)
  PROVE  Led(orders', g)
BY DEF Kept, Led

LEMMA FollowKept ==
  ASSUME Kept, FollowInv, DOMAIN orders' = DOMAIN orders,
         \A t \in Callers : plans'[t] \in {plans[t], <<>>}
  PROVE  FollowInv'
<1>1. LegsFollow'
  BY LedKept DEF FollowInv, LegsFollow
<1>2. RunnersFollowTheirPartial'
  BY DEF FollowInv, RunnersFollowTheirPartial, Kept
<1> QED BY <1>1, <1>2 DEF FollowInv

LEMMA FollowNext ==
  ASSUME TypeOK, RefsOK, FollowInv, [Next]_vars
  PROVE  FollowInv'
<1>0. Kept /\ orders \in Seq(Order) /\ plans \in [Callers -> Seq(Order)]
  BY KeptNext DEF TypeOK
<1>1. ASSUME NEW t \in Callers, NEW plan \in Plans, TakePlan(t, plan)
      PROVE  FollowInv'
  <2>1. /\ orders' = orders /\ \A u \in Callers \ {t} : plans'[u] = plans[u]
        /\ plans'[t] = LegRows(plan, signals + 1)
    BY <1>0, <1>1 DEF TakePlan
  <2>2. ASSUME NEW j \in DOMAIN plans'[t], plans'[t][j].role = "runner"
        PROVE  \E i \in DOMAIN plans'[t] : /\ i < j /\ plans'[t][i].role = "p1"
                                           /\ plans'[t][i].gid = plans'[t][j].gid
    <3>1. j \in DOMAIN plan /\ plan[j].role = "runner" /\ plans'[t][j].gid = signals + 1
      BY <2>1, <2>2 DEF LegRows
    <3>2. PICK i \in DOMAIN plan : i < j /\ plan[i].role = "p1"
      BY <3>1, PlansAssumption
    <3>3. /\ i \in DOMAIN plans'[t] /\ plans'[t][i].role = "p1"
          /\ plans'[t][i].gid = signals + 1
      BY <2>1, <3>2 DEF LegRows
    <3> QED BY <3>1, <3>2, <3>3
  <2>3. LegsFollow'
    BY <2>1, <2>2 DEF FollowInv, LegsFollow, Led
  <2> QED BY <2>1, <2>3 DEF FollowInv, RunnersFollowTheirPartial
<1>2. ASSUME NEW t \in Callers, Enqueue(t)
      PROVE  FollowInv'
  <2>1. /\ plans[t] \in Seq(Order) /\ plans[t] # <<>>
        /\ orders' = Append(orders, Head(plans[t]))
        /\ plans' = [plans EXCEPT ![t] = Tail(plans[t])]
    BY <1>0, <1>2 DEF Enqueue
  <2>2. PICK n : n = Len(orders) + 1
    OBVIOUS
  <2>3. /\ n \notin DOMAIN orders /\ DOMAIN orders' = DOMAIN orders \cup {n}
        /\ \A i \in DOMAIN orders : i < n
        /\ orders'[n] = plans[t][1] /\ 1 \in DOMAIN plans[t]
        /\ \A i \in DOMAIN orders : orders'[i] = orders[i]
    BY <1>0, <2>1, <2>2
  <2>4. /\ \A u \in Callers \ {t} : plans'[u] = plans[u]
        /\ \A i \in DOMAIN plans'[t] :
              i + 1 \in DOMAIN plans[t] /\ i \in Nat /\ plans'[t][i] = plans[t][i + 1]
        /\ \A i \in DOMAIN plans[t] : i \in Nat /\ i >= 1 /\ (i > 1 => i - 1 \in DOMAIN plans'[t])
    BY <1>0, <2>1
  <2>5. ASSUME NEW j \in DOMAIN plans'[t], plans'[t][j].role = "runner"
        PROVE  \/ \E i \in DOMAIN plans'[t] : /\ i < j /\ plans'[t][i].role = "p1"
                                              /\ plans'[t][i].gid = plans'[t][j].gid
               \/ Led(orders', plans'[t][j].gid)
    <3>1. /\ j + 1 \in DOMAIN plans[t] /\ plans'[t][j] = plans[t][j + 1]
          /\ plans[t][j + 1].role = "runner" /\ j \in Nat
      BY <2>4, <2>5
    <3>2. CASE Led(orders, plans[t][j + 1].gid)
      BY <1>0, <3>1, <3>2, LedKept
    <3>3. ASSUME NEW i \in DOMAIN plans[t], i < j + 1, plans[t][i].role = "p1",
                 plans[t][i].gid = plans[t][j + 1].gid
          PROVE  \/ \E k \in DOMAIN plans'[t] : /\ k < j /\ plans'[t][k].role = "p1"
                                                /\ plans'[t][k].gid = plans'[t][j].gid
                 \/ Led(orders', plans'[t][j].gid)
      <4>1. CASE i = 1
        BY <2>3, <3>1, <3>3, <4>1 DEF Led
      <4>2. CASE i # 1
        <5>1. i - 1 \in DOMAIN plans'[t] /\ i - 1 < j /\ (i - 1) + 1 = i
          BY <2>4, <3>1, <3>3, <4>2
        <5>2. plans'[t][i - 1] = plans[t][i]
          BY <2>4, <5>1
        <5> QED BY <3>1, <3>3, <5>1, <5>2
      <4> QED BY <4>1, <4>2
    <3> QED BY <3>1, <3>2, <3>3 DEF FollowInv, LegsFollow
  <2>6. LegsFollow'
    <3>1. \A u \in Callers \ {t} : \A j \in DOMAIN plans'[u] :
              plans'[u][j].role = "runner" =>
                 \/ \E i \in DOMAIN plans'[u] : /\ i < j /\ plans'[u][i].role = "p1"
                                                /\ plans'[u][i].gid = plans'[u][j].gid
                 \/ Led(orders', plans'[u][j].gid)
      BY <1>0, <2>4, LedKept DEF FollowInv, LegsFollow
    <3> QED BY <2>5, <3>1 DEF LegsFollow
  <2>7. ASSUME orders'[n].role = "runner"
        PROVE  Led(orders, orders'[n].gid)
    BY <2>3, <2>4, <2>7 DEF FollowInv, LegsFollow
  <2>8. ASSUME NEW r \in DOMAIN orders', orders'[r].role = "runner"
        PROVE  \E p \in DOMAIN orders' : /\ p < r /\ orders'[p].role = "p1"
                                         /\ orders'[p].gid = orders'[r].gid
    <3>1. CASE r = n
      BY <2>3, <2>7, <2>8, <3>1 DEF Led
    <3>2. CASE r \in DOMAIN orders
      BY <2>3, <2>8, <3>2 DEF FollowInv, RunnersFollowTheirPartial
    <3> QED BY <2>3, <3>1, <3>2
  <2> QED BY <2>6, <2>8 DEF FollowInv, RunnersFollowTheirPartial
<1>3. CASE \E t \in Callers : EnqueueFails(t)
  BY <1>0, <1>3, FollowKept DEF EnqueueFails
<1>4. CASE AppRestarts
  BY <1>0, <1>4, FollowKept DEF AppRestarts
<1>5. CASE \E h \in Handlers : \E m \in wire : ServeAck(h, m)
  BY <1>0, <1>5, FollowKept DEF ServeAck
<1>6. ASSUME NEW h \in Handlers, NEW m \in hand[h].todo, SweepEnqueue(h, m)
      PROVE  FollowInv'
  <2>1. orders' = Append(orders, ModifyRow(m)) /\ plans' = plans
    BY <1>6 DEF SweepEnqueue
  <2>2. PICK n : n = Len(orders) + 1
    OBVIOUS
  <2>3. /\ DOMAIN orders' = DOMAIN orders \cup {n} /\ orders'[n].role = "modify"
        /\ \A i \in DOMAIN orders : orders'[i] = orders[i]
    BY <1>0, <2>1, <2>2 DEF ModifyRow
  <2>4. LegsFollow'
    BY <1>0, <2>1, LedKept DEF FollowInv, LegsFollow
  <2>5. RunnersFollowTheirPartial'
    BY <2>3 DEF FollowInv, RunnersFollowTheirPartial
  <2> QED BY <2>4, <2>5 DEF FollowInv
<1>7. CASE \E h \in Handlers : SweepMark(h)
  BY <1>0, <1>7, FollowKept DEF SweepMark
<1>8. CASE UNCHANGED <<orders, plans>>
  BY <1>0, <1>8, FollowKept
<1> QED
  BY <1>1, <1>2, <1>3, <1>4, <1>5, <1>6, <1>7, <1>8
  DEF vars, Next, CallerStep, MaybeEnqueue, EnqueueDirect, ConnectorStep, Poll,
      HandleOrder, Place, PlaceUnclear, Modify, ModifyUnclear, Refuse, SendAck,
      BatchFails, AckTimesOut, ConnectorRestarts, AckLost, HandlerStep, CallSweep,
      SweepStep, SweepRead, Respond, SweepFails, BrokerStep, LimitFills,
      PositionCloses

\* maybe_enqueue: whatever legs fail, callers overlap and restarts cut plans
\* short, no runner is in the queue without its first partial before it.
THEOREM RunnersAreArmable == Spec => []RunnersFollowTheirPartial
<1>1. Init => FollowInv
  BY DEF Init, FollowInv, LegsFollow, RunnersFollowTheirPartial
<1>2. TypeOK /\ RefsOK /\ FollowInv /\ [Next]_vars => FollowInv'
  BY FollowNext
<1>3. FollowInv => RunnersFollowTheirPartial
  BY DEF FollowInv
<1> QED BY <1>1, <1>2, <1>3, TypeRefsInvariant, PTL DEF Spec

-----------------------------------------------------------------------------
(* The modifies of a group.                                                *)

IsRunner(o) == o.role = "runner"

\* A group has one runner, in the table or among the legs still to be committed.
GroupsOK ==
    /\ \A i \in DOMAIN orders : orders[i].gid <= signals
    /\ \A i, j \in DOMAIN orders :
          IsRunner(orders[i]) /\ IsRunner(orders[j]) /\ orders[i].gid = orders[j].gid => i = j
    /\ \A t \in Callers :
          /\ \A i \in DOMAIN plans[t] : plans[t][i].gid <= signals
          /\ \A i, j \in DOMAIN plans[t] :
                IsRunner(plans[t][i]) /\ IsRunner(plans[t][j]) => i = j
          /\ \A i \in DOMAIN orders, j \in DOMAIN plans[t] :
                IsRunner(orders[i]) /\ IsRunner(plans[t][j]) => orders[i].gid # plans[t][j].gid
          /\ \A u \in Callers \ {t} : \A i \in DOMAIN plans[t], j \in DOMAIN plans[u] :
                IsRunner(plans[t][i]) /\ IsRunner(plans[u][j]) => plans[t][i].gid # plans[u][j].gid

\* Row r is the runner of group g.
RunnerOf(r, g) == r \in DOMAIN orders /\ IsRunner(orders[r]) /\ orders[r].gid = g

\* The modify order i is for a runner.
ModifyOwned(i) ==
    orders[i].kind = "modify" => \E r \in DOMAIN orders : RunnerOf(r, orders[i].gid)

\* So are the moves of handler h; it has one at most for a runner, and none for
\* the one it is about to flag.
OwnsTodo(h) ==
    /\ \A m \in hand[h].todo : RunnerOf(m.runner, m.gid)
    /\ \A m, n \in hand[h].todo : m.runner = n.runner => m = n
    /\ hand[h].phase = "mark" => \A m \in hand[h].todo : m.runner # hand[h].runner

OwnersOK ==
    /\ \A i \in DOMAIN orders : ModifyOwned(i)
    /\ \A h \in Handlers : OwnsTodo(h)

\* The handlers that will queue a modify for runner r ...
Moving(r) == {h \in Handlers : \E m \in hand[h].todo : m.runner = r}

\* ... and those that have queued one and not flagged r yet.
Marking(r) == {h \in Handlers : hand[h].phase = "mark" /\ hand[h].runner = r}

\* Until runner r is flagged, a modify queued for it is of a sweep that is about
\* to flag it or was cut off by a fault; afterwards no sweep reads it again.
RunnerPaid(r) ==
    IF orders[r].beDone
      THEN Cardinality(ModifiesOf(r)) + Cardinality(Moving(r))
             <= Cardinality(Handlers) * (1 + faults)
      ELSE Cardinality(ModifiesOf(r))
             <= Cardinality(Handlers) * faults + Cardinality(Marking(r))

RunnersPaid == \A r \in DOMAIN orders : IsRunner(orders[r]) => RunnerPaid(r)

-----------------------------------------------------------------------------
(* One runner to a group.                                                   *)

LEMMA GroupsKept ==
  ASSUME GroupsOK, Kept, DOMAIN orders' = DOMAIN orders, UNCHANGED <<plans, signals>>
  PROVE  GroupsOK'
BY DEF GroupsOK, IsRunner, Kept

LEMMA GroupsDropped ==
  ASSUME GroupsOK, UNCHANGED <<orders, signals>>,
         \A t \in Callers : plans'[t] \in {plans[t], <<>>}
  PROVE  GroupsOK'
BY DEF GroupsOK, IsRunner

LEMMA GroupsNext ==
  ASSUME TypeOK, RefsOK, SourceInv, GroupsOK, OwnersOK, [Next]_vars
  PROVE  GroupsOK'
<1>0. /\ Kept /\ orders \in Seq(Order) /\ signals \in Nat /\ plans \in [Callers -> Seq(Order)]
      /\ hand \in [Handlers -> [phase : {"idle", "sweep", "loop", "mark"}, todo : SUBSET Move,
                                runner : Nat, reply : Message \cup {NoMsg}]]
  BY KeptNext DEF TypeOK
<1>1. ASSUME NEW t \in Callers, NEW plan \in Plans, TakePlan(t, plan)
      PROVE  GroupsOK'
  <2>1. /\ orders' = orders /\ signals' = signals + 1
        /\ \A u \in Callers \ {t} : plans'[u] = plans[u]
        /\ plans'[t] = LegRows(plan, signals + 1)
    BY <1>0, <1>1 DEF TakePlan
  <2>2. /\ \A i, j \in DOMAIN plan : IsRunner(plan[i]) /\ IsRunner(plan[j]) => i = j
        /\ \A i \in DOMAIN plan : plan[i] \in Leg
    BY PlansAssumption DEF IsRunner
  <2>3. ASSUME NEW i \in DOMAIN orders
        PROVE  orders[i].gid \in Nat /\ orders[i].gid <= signals
    <3>1. orders[i] \in Order
      BY <1>0
    <3> QED BY <3>1 DEF Order, GroupsOK
  <2>4. ASSUME NEW u \in Callers, NEW i \in DOMAIN plans[u]
        PROVE  plans[u][i].gid \in Nat /\ plans[u][i].gid <= signals
    <3>1. plans[u][i] \in Order
      BY <1>0
    <3> QED BY <3>1 DEF Order, GroupsOK
  <2>5. /\ DOMAIN plans'[t] = DOMAIN plan
        /\ \A i \in DOMAIN plan :
             /\ plans'[t][i].gid \in {0, signals + 1}
             /\ IsRunner(plans'[t][i]) => IsRunner(plan[i]) /\ plans'[t][i].gid = signals + 1
    <3>1. DOMAIN plans'[t] = DOMAIN plan
      BY <2>1 DEF LegRows
    <3>2. ASSUME NEW i \in DOMAIN plan
          PROVE  /\ plans'[t][i].gid = IF plan[i].role = "single" THEN 0 ELSE signals + 1
                 /\ plans'[t][i].role = plan[i].role
      BY <2>1 DEF LegRows
    <3> QED BY <3>1, <3>2 DEF IsRunner
  <2>6. ASSUME NEW u \in Callers, NEW i \in DOMAIN plans'[u]
        PROVE  plans'[u][i].gid <= signals + 1
    <3>1. CASE u = t
      <4>1. plans'[u][i].gid \in {0, signals + 1}
        BY <2>5, <3>1
      <4> QED BY <1>0, <4>1
    <3>2. CASE u # t
      <4>1. i \in DOMAIN plans[u] /\ plans'[u][i] = plans[u][i]
        BY <2>1, <3>2
      <4> QED BY <1>0, <2>4, <4>1
    <3> QED BY <3>1, <3>2
  <2>7. ASSUME NEW u \in Callers
        PROVE  /\ \A i, j \in DOMAIN plans'[u] :
                     IsRunner(plans'[u][i]) /\ IsRunner(plans'[u][j]) => i = j
               /\ \A i \in DOMAIN orders, j \in DOMAIN plans'[u] :
                     IsRunner(orders[i]) /\ IsRunner(plans'[u][j])
                       => orders[i].gid # plans'[u][j].gid
    <3>1. CASE u = t
      BY <1>0, <2>2, <2>3, <2>5, <3>1
    <3>2. CASE u # t
      BY <2>1, <3>2 DEF GroupsOK
    <3> QED BY <3>1, <3>2
  <2>8. ASSUME NEW u \in Callers, NEW v \in Callers \ {u},
               NEW i \in DOMAIN plans'[u], NEW j \in DOMAIN plans'[v],
               IsRunner(plans'[u][i]), IsRunner(plans'[v][j])
        PROVE  plans'[u][i].gid # plans'[v][j].gid
    <3>1. CASE u = t
      <4>1. j \in DOMAIN plans[v] /\ plans'[v][j] = plans[v][j] /\ plans'[u][i].gid = signals + 1
        BY <2>1, <2>5, <2>8, <3>1
      <4> QED BY <1>0, <2>4, <4>1
    <3>2. CASE v = t
      <4>1. i \in DOMAIN plans[u] /\ plans'[u][i] = plans[u][i] /\ plans'[v][j].gid = signals + 1
        BY <2>1, <2>5, <2>8, <3>2
      <4> QED BY <1>0, <2>4, <4>1
    <3>3. CASE u # t /\ v # t
      BY <2>1, <2>8, <3>3 DEF GroupsOK
    <3> QED BY <3>1, <3>2, <3>3
  <2>9. \A i \in DOMAIN orders' : orders'[i].gid <= signals'
    BY <1>0, <2>1, <2>3
  <2>10. \A i, j \in DOMAIN orders' :
            IsRunner(orders'[i]) /\ IsRunner(orders'[j]) /\ orders'[i].gid = orders'[j].gid => i = j
    BY <2>1 DEF GroupsOK
  <2> QED BY <2>1, <2>6, <2>7, <2>8, <2>9, <2>10 DEF GroupsOK
<1>2. ASSUME NEW t \in Callers, Enqueue(t)
      PROVE  GroupsOK'
  <2>1. /\ plans[t] \in Seq(Order) /\ plans[t] # <<>> /\ signals' = signals
        /\ orders' = Append(orders, Head(plans[t]))
        /\ plans' = [plans EXCEPT ![t] = Tail(plans[t])]
    BY <1>0, <1>2 DEF Enqueue
  <2>2. PICK n : n = Len(orders) + 1
    OBVIOUS
  <2>3. /\ n \notin DOMAIN orders /\ DOMAIN orders' = DOMAIN orders \cup {n}
        /\ orders'[n] = plans[t][1] /\ 1 \in DOMAIN plans[t]
        /\ \A i \in DOMAIN orders : orders'[i] = orders[i]
    BY <1>0, <2>1, <2>2
  <2>4. /\ \A u \in Callers \ {t} : plans'[u] = plans[u]
        /\ \A i \in DOMAIN plans'[t] :
              i + 1 \in DOMAIN plans[t] /\ i + 1 # 1 /\ i \in Int /\ plans'[t][i] = plans[t][i + 1]
    BY <1>0, <2>1
  <2>5. \A i \in DOMAIN orders' : orders'[i].gid <= signals
    BY <2>3 DEF GroupsOK
  <2>6. \A i, j \in DOMAIN orders' :
           IsRunner(orders'[i]) /\ IsRunner(orders'[j]) /\ orders'[i].gid = orders'[j].gid => i = j
    BY <2>3 DEF GroupsOK
  <2>7. ASSUME NEW u \in Callers
        PROVE  /\ \A i \in DOMAIN plans'[u] : plans'[u][i].gid <= signals
               /\ \A i, j \in DOMAIN plans'[u] :
                     IsRunner(plans'[u][i]) /\ IsRunner(plans'[u][j]) => i = j
               /\ \A i \in DOMAIN orders', j \in DOMAIN plans'[u] :
                     IsRunner(orders'[i]) /\ IsRunner(plans'[u][j])
                       => orders'[i].gid # plans'[u][j].gid
    <3>1. CASE u = t
      <4>1. \A i \in DOMAIN plans'[u] : plans'[u][i].gid <= signals
        BY <2>4, <3>1 DEF GroupsOK
      <4>2. ASSUME NEW i \in DOMAIN plans'[u], NEW j \in DOMAIN plans'[u],
                   IsRunner(plans'[u][i]), IsRunner(plans'[u][j])
            PROVE  i = j
        <5>1. i + 1 = j + 1 /\ i \in Int /\ j \in Int
          BY <2>4, <3>1, <4>2 DEF GroupsOK
        <5> QED BY <5>1
      <4>3. ASSUME NEW i \in DOMAIN orders', NEW j \in DOMAIN plans'[u],
                   IsRunner(orders'[i]), IsRunner(plans'[u][j])
            PROVE  orders'[i].gid # plans'[u][j].gid
        <5>1. j + 1 \in DOMAIN plans[t] /\ j + 1 # 1 /\ plans'[u][j] = plans[t][j + 1]
          BY <2>4, <3>1
        <5>2. CASE i \in DOMAIN orders
          BY <2>3, <4>3, <5>1, <5>2 DEF GroupsOK
        <5>3. CASE i = n
          <6>1. IsRunner(plans[t][1]) /\ IsRunner(plans[t][j + 1])
            BY <2>3, <4>3, <5>1, <5>3
          <6> QED BY <2>3, <5>1, <6>1 DEF GroupsOK
        <5> QED BY <2>3, <5>2, <5>3
      <4> QED BY <4>1, <4>2, <4>3
    <3>2. CASE u # t
      BY <2>3, <2>4, <3>2 DEF GroupsOK
    <3> QED BY <3>1, <3>2
  <2>8. ASSUME NEW u \in Callers, NEW v \in Callers \ {u},
               NEW i \in DOMAIN plans'[u], NEW j \in DOMAIN plans'[v],
               IsRunner(plans'[u][i]), IsRunner(plans'[v][j])
        PROVE  plans'[u][i].gid # plans'[v][j].gid
    BY <2>4, <2>8 DEF GroupsOK
  <2>9. signals' = signals
    BY <2>1
  <2> QED BY <2>5, <2>6, <2>7, <2>8, <2>9 DEF GroupsOK
<1>3. CASE \E t \in Callers : EnqueueFails(t)
  BY <1>0, <1>3, GroupsDropped DEF EnqueueFails
<1>4. CASE AppRestarts
  BY <1>0, <1>4, GroupsDropped DEF AppRestarts
<1>5. CASE \E h \in Handlers : \E m \in wire : ServeAck(h, m)
  BY <1>0, <1>5, GroupsKept DEF ServeAck
<1>6. ASSUME NEW h \in Handlers, NEW m \in hand[h].todo, SweepEnqueue(h, m)
      PROVE  GroupsOK'
  <2>1. /\ orders' = Append(orders, ModifyRow(m)) /\ UNCHANGED <<plans, signals>>
        /\ RunnerOf(m.runner, m.gid)
    BY <1>6 DEF SweepEnqueue, OwnersOK, OwnsTodo
  <2>2. PICK n : n = Len(orders) + 1
    OBVIOUS
  <2>3. /\ DOMAIN orders' = DOMAIN orders \cup {n} /\ orders'[n] = ModifyRow(m)
        /\ \A i \in DOMAIN orders : orders'[i] = orders[i]
    BY <1>0, <2>1, <2>2
  <2>4. ~IsRunner(ModifyRow(m)) /\ ModifyRow(m).gid <= signals
    BY <2>1 DEF ModifyRow, IsRunner, GroupsOK, RunnerOf
  <2> QED BY <2>1, <2>3, <2>4 DEF GroupsOK
<1>7. CASE \E h \in Handlers : SweepMark(h)
  BY <1>0, <1>7, GroupsKept DEF SweepMark
<1>8. CASE UNCHANGED <<orders, plans, signals>>
  BY <1>0, <1>8, GroupsKept
<1> QED
  BY <1>1, <1>2, <1>3, <1>4, <1>5, <1>6, <1>7, <1>8
  DEF vars, Next, CallerStep, MaybeEnqueue, EnqueueDirect, ConnectorStep, Poll,
      HandleOrder, Place, PlaceUnclear, Modify, ModifyUnclear,
       Refuse, SendAck, BatchFails, AckTimesOut,
      ConnectorRestarts, AckLost, HandlerStep, CallSweep, SweepStep, SweepRead,
      Respond, SweepFails, BrokerStep, LimitFills, PositionCloses

-----------------------------------------------------------------------------
(* Whose the modifies are.                                                  *)

LEMMA RunnerOfKept ==
  ASSUME Kept, NEW r, NEW g, RunnerOf(r, g)
  PROVE  RunnerOf(r, g)'
BY DEF Kept, RunnerOf, IsRunner

LEMMA OwnsTodoKept ==
  ASSUME Kept, NEW h, OwnsTodo(h), hand'[h].todo \subseteq hand[h].todo,
         hand'[h].phase = "mark" => hand[h].phase = "mark" /\ hand'[h].runner = hand[h].runner
  PROVE  OwnsTodo(h)'
<1>1. ASSUME NEW m \in hand[h].todo
      PROVE  RunnerOf(m.runner, m.gid)'
  BY RunnerOfKept DEF OwnsTodo
<1> QED BY <1>1 DEF OwnsTodo

LEMMA ModifyOwnedKept ==
  ASSUME Kept, NEW i \in DOMAIN orders, ModifyOwned(i)
  PROVE  ModifyOwned(i)'
BY DEF Kept, ModifyOwned, RunnerOf, IsRunner

LEMMA ModifiesOwnedNext ==
  ASSUME TypeOK, RefsOK, SourceInv, OwnersOK, [Next]_vars
  PROVE  \A i \in DOMAIN orders' : ModifyOwned(i)'
<1>0. Kept /\ orders \in Seq(Order) /\ \A i \in DOMAIN orders : ModifyOwned(i)'
  <2>1. Kept
    BY KeptNext
  <2>2. ASSUME NEW i \in DOMAIN orders
        PROVE  ModifyOwned(i)'
    BY <2>1, ModifyOwnedKept DEF OwnersOK
  <2> QED BY <2>1, <2>2 DEF TypeOK
<1>1. CASE DOMAIN orders' = DOMAIN orders
  BY <1>0, <1>1
<1>2. ASSUME NEW t \in Callers, Enqueue(t)
      PROVE  \A i \in DOMAIN orders' : ModifyOwned(i)'
  <2>1. /\ plans[t] \in Seq(Order) /\ plans[t] # <<>>
        /\ orders' = Append(orders, Head(plans[t])) /\ Head(plans[t]) = plans[t][1]
    BY <1>2 DEF Enqueue, TypeOK
  <2>2. PICK n : n = Len(orders) + 1
    OBVIOUS
  <2>3. DOMAIN orders' = DOMAIN orders \cup {n} /\ orders'[n] = plans[t][1]
    BY <1>0, <2>1, <2>2
  <2>4. plans[t][1].kind # "modify"
    BY <2>1 DEF SourceInv, LegsOK
  <2> QED BY <1>0, <2>3, <2>4 DEF ModifyOwned
<1>3. ASSUME NEW h \in Handlers, NEW m \in hand[h].todo, SweepEnqueue(h, m)
      PROVE  \A i \in DOMAIN orders' : ModifyOwned(i)'
  <2>1. orders' = Append(orders, ModifyRow(m)) /\ RunnerOf(m.runner, m.gid)
    BY <1>3 DEF SweepEnqueue, OwnersOK, OwnsTodo
  <2>2. PICK n : n = Len(orders) + 1
    OBVIOUS
  <2>3. DOMAIN orders' = DOMAIN orders \cup {n} /\ orders'[n].gid = m.gid
    BY <1>0, <2>1, <2>2 DEF ModifyRow
  <2>4. RunnerOf(m.runner, m.gid)'
    BY <1>0, <2>1, RunnerOfKept
  <2> QED BY <1>0, <2>3, <2>4 DEF ModifyOwned, RunnerOf
<1>4. CASE \E h \in Handlers : \E m \in wire : ServeAck(h, m)
  BY <1>0, <1>1, <1>4 DEF ServeAck
<1>5. CASE \E h \in Handlers : SweepMark(h)
  BY <1>0, <1>1, <1>5 DEF SweepMark
<1> QED BY <1>1, <1>2, <1>3, <1>4, <1>5, WritersOfOrders

\* Each row read gives one move.
LEMMA MovesOwned ==
  ASSUME NEW R, NEW m \in Moves(R), NEW n \in Moves(R)
  PROVE  /\ m.runner \in R /\ m.gid = orders[m.runner].gid
         /\ m.runner = n.runner => m = n
BY DEF Moves

LEMMA TodosOwnedNext ==
  ASSUME TypeOK, RefsOK, SourceInv, OwnersOK, [Next]_vars
  PROVE  \A h \in Handlers : OwnsTodo(h)'
<1>0. /\ Kept
      /\ hand \in [Handlers -> [phase : {"idle", "sweep", "loop", "mark"}, todo : SUBSET Move,
                                runner : Nat, reply : Message \cup {NoMsg}]]
      /\ \A h \in Handlers : OwnsTodo(h)
  BY KeptNext DEF TypeOK, OwnersOK
<1>1. SUFFICES ASSUME NEW g \in Handlers
               PROVE  OwnsTodo(g)'
  OBVIOUS
<1>2. CASE hand'[g] = hand[g]
  BY <1>0, <1>2, OwnsTodoKept
<1>3. CASE hand'[g].todo = {}
  BY <1>3 DEF OwnsTodo
<1>4. ASSUME NEW h \in Handlers, NEW m \in wire, ServeAck(h, m)
      PROVE  OwnsTodo(g)'
  BY <1>0, <1>2, <1>3, <1>4 DEF ServeAck
<1>5. ASSUME NEW h \in Handlers, CallSweep(h)
      PROVE  OwnsTodo(g)'
  BY <1>0, <1>2, <1>3, <1>5 DEF CallSweep
<1>6. ASSUME NEW h \in Handlers, SweepRead(h)
      PROVE  OwnsTodo(g)'
  <2>1. CASE g = h
    <3>1. /\ hand'[g].todo \subseteq BreakevenModifications /\ hand'[g].phase = "loop"
          /\ orders' = orders
      BY <1>0, <1>6, <2>1 DEF SweepRead
    <3>2. ASSUME NEW m \in BreakevenModifications, NEW n \in BreakevenModifications
          PROVE  RunnerOf(m.runner, m.gid) /\ (m.runner = n.runner => m = n)
      BY MovesOwned DEF BreakevenModifications, RecentRows, RunnerOf, IsRunner
    <3>3. \A m \in BreakevenModifications : RunnerOf(m.runner, m.gid)'
      BY <1>0, <3>2, RunnerOfKept
    <3> QED BY <3>1, <3>2, <3>3 DEF OwnsTodo
  <2>2. CASE g # h
    BY <1>0, <1>2, <1>6, <2>2 DEF SweepRead
  <2> QED BY <2>1, <2>2
<1>7. ASSUME NEW h \in Handlers, NEW m \in hand[h].todo, SweepEnqueue(h, m)
      PROVE  OwnsTodo(g)'
  <2>1. CASE g = h
    <3>1. /\ hand'[g].todo = hand[g].todo \ {m} /\ hand'[g].runner = m.runner
          /\ OwnsTodo(g)
      BY <1>0, <1>7, <2>1 DEF SweepEnqueue
    <3>2. \A n \in hand[g].todo : RunnerOf(n.runner, n.gid)'
      BY <1>0, <3>1, RunnerOfKept DEF OwnsTodo
    <3> QED BY <2>1, <3>1, <3>2 DEF OwnsTodo
  <2>2. CASE g # h
    BY <1>0, <1>2, <1>7, <2>2 DEF SweepEnqueue
  <2> QED BY <2>1, <2>2
<1>8. ASSUME NEW h \in Handlers, SweepMark(h)
      PROVE  OwnsTodo(g)'
  <2>1. hand'[g].todo = hand[g].todo /\ (hand'[g].phase = "mark" => hand'[g] = hand[g])
    BY <1>0, <1>8 DEF SweepMark
  <2> QED BY <1>0, <2>1, OwnsTodoKept
<1>9. ASSUME NEW h \in Handlers, Respond(h) \/ SweepFails(h)
      PROVE  OwnsTodo(g)'
  <2>1. hand' = [hand EXCEPT ![h] = IdleHand]
    BY <1>9 DEF Respond, SweepFails
  <2> QED BY <1>0, <1>2, <1>3, <2>1 DEF IdleHand
<1>10. CASE AppRestarts
  BY <1>3, <1>10 DEF AppRestarts, IdleHand
<1>11. CASE UNCHANGED hand
  BY <1>2, <1>11
<1> QED
  BY <1>4, <1>5, <1>6, <1>7, <1>8, <1>9, <1>10, <1>11
  DEF vars, Next, CallerStep, MaybeEnqueue, EnqueueDirect, TakePlan, Enqueue,
      EnqueueFails, ConnectorStep, Poll, HandleOrder, Place, PlaceUnclear, Modify, ModifyUnclear,
       Refuse, SendAck,
      BatchFails, AckTimesOut, ConnectorRestarts, AckLost, HandlerStep, SweepStep,
      BrokerStep, LimitFills, PositionCloses

-----------------------------------------------------------------------------
(* The count.                                                               *)

LEMMA CountTypes ==
  ASSUME TypeOK, NEW r
  PROVE  /\ Cardinality(Handlers) \in Nat /\ faults \in Nat
         /\ IsFiniteSet(ModifiesOf(r)) /\ Cardinality(ModifiesOf(r)) \in Nat
         /\ IsFiniteSet(Moving(r)) /\ Cardinality(Moving(r)) \in Nat
         /\ IsFiniteSet(Marking(r)) /\ Cardinality(Marking(r)) \in Nat
         /\ Cardinality(Marking(r)) <= Cardinality(Handlers)
<1>1. IsFiniteSet(Handlers) /\ Moving(r) \subseteq Handlers /\ Marking(r) \subseteq Handlers
  BY HandlersAssumption DEF Moving, Marking
<1>2. /\ IsFiniteSet(Moving(r)) /\ IsFiniteSet(Marking(r))
      /\ Cardinality(Marking(r)) <= Cardinality(Handlers)
  BY <1>1, FS_Subset
<1>3. IsFiniteSet(ModifiesOf(r))
  <2>1. ModifiesOf(r) \subseteq 1..Len(orders) /\ Len(orders) \in Nat
    BY DEF ModifiesOf, TypeOK
  <2>2. IsFiniteSet(1..Len(orders))
    BY <2>1, FS_Interval
  <2> QED BY <2>1, <2>2, FS_Subset
<1> QED BY <1>1, <1>2, <1>3, FS_CardinalityType DEF TypeOK

LEMMA Budget ==
  ASSUME NEW H \in Nat, NEW f \in Nat
  PROVE  H * f \in Nat /\ H * (1 + f) = H * f + H /\ H * (1 + f) \in Nat
OBVIOUS

\* A handler that is about to flag r has no other move for r.
LEMMA MarkingNotMoving ==
  ASSUME TypeOK, OwnersOK, NEW r
  PROVE  Cardinality(Marking(r)) + Cardinality(Moving(r)) <= Cardinality(Handlers)
<1>1. Marking(r) \cap Moving(r) = {}
  BY DEF OwnersOK, OwnsTodo, Marking, Moving
<1>2. Marking(r) \cup Moving(r) \subseteq Handlers
  BY DEF Marking, Moving
<1>3. Cardinality(Marking(r) \cup Moving(r)) = Cardinality(Marking(r)) + Cardinality(Moving(r))
  BY <1>1, CountTypes, FS_Union, FS_EmptySet
<1>4. Cardinality(Marking(r) \cup Moving(r)) <= Cardinality(Handlers)
  BY <1>2, HandlersAssumption, FS_Subset
<1> QED BY <1>3, <1>4

\* Sets that only shrink count for less.
LEMMA MovingShrinks ==
  ASSUME TypeOK, NEW r, Moving(r)' \subseteq Moving(r)
  PROVE  Cardinality(Moving(r)') <= Cardinality(Moving(r)) /\ Cardinality(Moving(r)') \in Nat
BY CountTypes, FS_Subset, FS_CardinalityType

LEMMA PaidQuiet ==
  ASSUME TypeOK, NEW r, RunnerPaid(r), faults' = faults,
         orders'[r].beDone = orders[r].beDone, ModifiesOf(r)' = ModifiesOf(r),
         orders[r].beDone => Moving(r)' \subseteq Moving(r),
         ~orders[r].beDone => Marking(r)' = Marking(r)
  PROVE  RunnerPaid(r)'
<1>1. CASE orders[r].beDone
  <2>1. /\ Cardinality(Moving(r)') <= Cardinality(Moving(r))
        /\ Cardinality(Moving(r)') \in Nat
    BY <1>1, MovingShrinks
  <2>2. /\ Cardinality(ModifiesOf(r)) \in Nat /\ Cardinality(Moving(r)) \in Nat
        /\ Cardinality(Handlers) * (1 + faults) \in Nat
    BY CountTypes, Budget
  <2>3. Cardinality(ModifiesOf(r)) + Cardinality(Moving(r)) <= Cardinality(Handlers) * (1 + faults)
    BY <1>1 DEF RunnerPaid
  <2>4. Cardinality(ModifiesOf(r)') + Cardinality(Moving(r)') <= Cardinality(Handlers) * (1 + faults)
    BY <2>1, <2>2, <2>3
  <2> QED BY <1>1, <2>4 DEF RunnerPaid
<1>2. CASE ~orders[r].beDone
  BY <1>2 DEF RunnerPaid
<1> QED BY <1>1, <1>2

LEMMA PaidByFault ==
  ASSUME TypeOK, NEW r, RunnerPaid(r), faults' = faults + 1,
         orders' = orders, Moving(r)' \subseteq Moving(r)
  PROVE  RunnerPaid(r)'
<1> DEFINE H == Cardinality(Handlers)
           n == Cardinality(ModifiesOf(r))
<1>1. /\ H \in Nat /\ faults \in Nat /\ n \in Nat /\ Cardinality(Moving(r)) \in Nat
      /\ Cardinality(Marking(r)) \in Nat /\ Cardinality(Marking(r)) <= H
      /\ Cardinality(Marking(r)') \in Nat
  <2>1. Marking(r)' \subseteq Handlers
    BY DEF Marking
  <2>2. Cardinality(Marking(r)') \in Nat
    BY <2>1, HandlersAssumption, FS_Subset, FS_CardinalityType
  <2> QED BY <2>2, CountTypes
<1>2. /\ H * faults \in Nat /\ H * faults' = H * faults + H
      /\ H * (1 + faults) = H * faults + H /\ H * (1 + faults') = H * faults + H + H
  <2>1. faults' \in Nat /\ faults' = 1 + faults
    BY <1>1
  <2> QED BY <1>1, <2>1, Budget
<1>3. Cardinality(ModifiesOf(r)') = n
  BY DEF ModifiesOf
<1>4. Cardinality(Moving(r)') <= Cardinality(Moving(r)) /\ Cardinality(Moving(r)') \in Nat
  BY MovingShrinks
<1> HIDE DEF H, n
<1>5. CASE orders[r].beDone
  <2>1. n + Cardinality(Moving(r)) <= H * faults + H
    BY <1>2, <1>5 DEF RunnerPaid, H, n
  <2>2. n + Cardinality(Moving(r)') <= H * (1 + faults')
    BY <1>1, <1>2, <1>4, <2>1
  <2> QED BY <1>3, <1>5, <2>2 DEF RunnerPaid, H
<1>6. CASE ~orders[r].beDone
  <2>1. n <= H * faults + Cardinality(Marking(r))
    BY <1>6 DEF RunnerPaid, H, n
  <2>2. n <= H * faults' + Cardinality(Marking(r)')
    BY <1>1, <1>2, <2>1
  <2> QED BY <1>3, <1>6, <2>2 DEF RunnerPaid, H
<1> QED BY <1>5, <1>6

LEMMA NewRunnerPaid ==
  ASSUME TypeOK', NEW r, ModifiesOf(r)' = {}, ~orders'[r].beDone
  PROVE  RunnerPaid(r)'
<1>1. Cardinality(ModifiesOf(r)') = 0
  BY FS_EmptySet
<1>2. Cardinality(Handlers) * faults' \in Nat
  BY HandlersAssumption, FS_CardinalityType, Budget DEF TypeOK
<1>3. Cardinality(Marking(r)') \in Nat
  <2>1. Marking(r)' \subseteq Handlers
    BY DEF Marking
  <2> QED BY <2>1, HandlersAssumption, FS_Subset, FS_CardinalityType
<1>4. Cardinality(ModifiesOf(r)') <= Cardinality(Handlers) * faults' + Cardinality(Marking(r)')
  BY <1>1, <1>2, <1>3
<1> QED BY <1>4 DEF RunnerPaid

LEMMA EnqueuePaid ==
  ASSUME TypeOK, TypeOK', SourceInv, GroupsOK, GroupsOK', OwnersOK, RunnersPaid,
         NEW t \in Callers, Enqueue(t)
  PROVE  RunnersPaid'
<1>1. /\ plans[t] \in Seq(Order) /\ plans[t] # <<>> /\ UNCHANGED <<hand, faults>>
      /\ orders' = Append(orders, Head(plans[t])) /\ Head(plans[t]) = plans[t][1]
      /\ orders \in Seq(Order)
  BY DEF Enqueue, TypeOK
<1>2. PICK n : n = Len(orders) + 1
  OBVIOUS
<1>3. /\ DOMAIN orders' = DOMAIN orders \cup {n} /\ n \notin DOMAIN orders
      /\ orders'[n] = plans[t][1] /\ \A i \in DOMAIN orders : orders'[i] = orders[i]
  BY <1>1, <1>2
<1>4. orders'[n].kind # "modify"
  BY <1>1, <1>3 DEF SourceInv, LegsOK
<1>5. ASSUME NEW r \in DOMAIN orders, IsRunner(orders[r])
      PROVE  RunnerPaid(r)'
  <2>1. ModifiesOf(r)' = ModifiesOf(r)
    BY <1>3, <1>4 DEF ModifiesOf
  <2>2. Moving(r)' = Moving(r) /\ Marking(r)' = Marking(r)
    BY <1>1 DEF Moving, Marking
  <2> QED BY <1>1, <1>3, <1>5, <2>1, <2>2, PaidQuiet DEF RunnersPaid
<1>6. ASSUME IsRunner(orders'[n])
      PROVE  RunnerPaid(n)'
  \* The group is new to the table, and a modify order belongs to a runner in it.
  <2>1. ASSUME NEW i \in ModifiesOf(n)'
        PROVE  FALSE
    <3>1. i \in DOMAIN orders /\ orders[i].kind = "modify" /\ orders[i].gid = orders'[n].gid
      BY <1>3, <1>4 DEF ModifiesOf
    <3>2. PICK r \in DOMAIN orders : IsRunner(orders[r]) /\ orders[r].gid = orders[i].gid
      BY <3>1 DEF OwnersOK, ModifyOwned, RunnerOf
    <3>3. r \in DOMAIN orders' /\ n \in DOMAIN orders' /\ r # n /\ orders'[r] = orders[r]
      BY <1>3
    <3> QED BY <1>6, <3>1, <3>2, <3>3 DEF GroupsOK
  <2>2. ModifiesOf(n)' = {}
    BY <2>1
  <2>3. ~orders'[n].beDone
    BY <1>1, <1>3 DEF SourceInv, LegsOK
  <2> QED BY <2>2, <2>3, NewRunnerPaid
<1> QED BY <1>3, <1>5, <1>6 DEF RunnersPaid

LEMMA SweepEnqueuePaid ==
  ASSUME TypeOK, TypeOK', GroupsOK, OwnersOK, RunnersPaid,
         NEW h \in Handlers, NEW m \in hand[h].todo, SweepEnqueue(h, m)
  PROVE  RunnersPaid'
<1>1. /\ orders' = Append(orders, ModifyRow(m)) /\ orders \in Seq(Order)
      /\ hand[h].phase = "loop" /\ faults' = faults /\ faults \in Nat
      /\ hand'[h].phase = "mark" /\ hand'[h].runner = m.runner
      /\ hand'[h].todo = hand[h].todo \ {m}
      /\ \A g \in Handlers \ {h} : hand'[g] = hand[g]
  BY DEF SweepEnqueue, TypeOK
<1>2. PICK n : n = Len(orders) + 1
  OBVIOUS
<1>3. /\ DOMAIN orders' = DOMAIN orders \cup {n} /\ n \notin DOMAIN orders
      /\ orders'[n] = ModifyRow(m) /\ \A i \in DOMAIN orders : orders'[i] = orders[i]
  BY <1>1, <1>2
<1>4. OwnsTodo(h) /\ RunnerOf(m.runner, m.gid)
  BY DEF OwnersOK, OwnsTodo
<1>5. ~IsRunner(orders'[n])
  BY <1>3 DEF ModifyRow, IsRunner
<1>6. ASSUME NEW r \in DOMAIN orders, IsRunner(orders[r]), r # m.runner
      PROVE  RunnerPaid(r)'
  <2>1. orders[r].gid # m.gid
    BY <1>4, <1>6 DEF GroupsOK, RunnerOf
  <2>2. ModifiesOf(r)' = ModifiesOf(r)
    BY <1>3, <2>1 DEF ModifiesOf, ModifyRow
  <2>3. Moving(r)' \subseteq Moving(r) /\ Marking(r)' = Marking(r)
    BY <1>1, <1>6 DEF Moving, Marking
  <2> QED BY <1>1, <1>3, <1>6, <2>2, <2>3, PaidQuiet DEF RunnersPaid
<1>7. RunnerPaid(m.runner)'
  <2> DEFINE r == m.runner
             H == Cardinality(Handlers)
  <2>1. r \in DOMAIN orders /\ RunnerPaid(r) /\ orders'[r] = orders[r] /\ orders[r].gid = m.gid
    BY <1>3, <1>4 DEF RunnersPaid, RunnerOf
  <2>2. ModifiesOf(r)' = ModifiesOf(r) \cup {n} /\ n \notin ModifiesOf(r)
    BY <1>3, <2>1 DEF ModifiesOf, ModifyRow
  <2>3. Cardinality(ModifiesOf(r)') = Cardinality(ModifiesOf(r)) + 1
    BY <2>2, CountTypes, FS_AddElement
  <2>4. Moving(r)' = Moving(r) \ {h} /\ h \in Moving(r)
    BY <1>1, <1>4 DEF Moving, OwnsTodo
  <2>5. Marking(r)' = Marking(r) \cup {h} /\ h \notin Marking(r)
    BY <1>1 DEF Marking
  <2>6. Cardinality(Moving(r)') = Cardinality(Moving(r)) - 1
    BY <2>4, CountTypes, FS_RemoveElement
  <2>7. Cardinality(Marking(r)') = Cardinality(Marking(r)) + 1
    BY <2>5, CountTypes, FS_AddElement
  <2>8. /\ Cardinality(ModifiesOf(r)) \in Nat /\ Cardinality(Moving(r)) \in Nat
        /\ Cardinality(Marking(r)) \in Nat /\ H * faults \in Nat /\ H * (1 + faults) \in Nat
    BY CountTypes, Budget
  <2> HIDE DEF r, H
  <2>9. CASE orders[r].beDone
    <3>1. Cardinality(ModifiesOf(r)) + Cardinality(Moving(r)) <= H * (1 + faults)
      BY <2>1, <2>9 DEF RunnerPaid, H
    <3>2. Cardinality(ModifiesOf(r)') + Cardinality(Moving(r)') <= H * (1 + faults)
      BY <2>3, <2>6, <2>8, <3>1
    <3> QED BY <1>1, <2>1, <2>9, <3>2 DEF RunnerPaid, H, r
  <2>10. CASE ~orders[r].beDone
    <3>1. Cardinality(ModifiesOf(r)) <= H * faults + Cardinality(Marking(r))
      BY <2>1, <2>10 DEF RunnerPaid, H
    <3>2. Cardinality(ModifiesOf(r)') <= H * faults + Cardinality(Marking(r)')
      BY <2>3, <2>7, <2>8, <3>1
    <3> QED BY <1>1, <2>1, <2>10, <3>2 DEF RunnerPaid, H, r
  <2> QED BY <2>9, <2>10 DEF r
<1>8. ASSUME NEW r \in DOMAIN orders', IsRunner(orders'[r])
      PROVE  RunnerPaid(r)'
  BY <1>3, <1>5, <1>6, <1>7, <1>8
<1> QED BY <1>8 DEF RunnersPaid

LEMMA SweepMarkPaid ==
  ASSUME TypeOK, RefsOK, OwnersOK, RunnersPaid, NEW h \in Handlers, SweepMark(h)
  PROVE  RunnersPaid'
<1>0. PICK x : x = hand[h].runner
  OBVIOUS
<1>1. /\ orders' = [orders EXCEPT ![x] = Trailed(orders[x])] /\ orders \in Seq(Order)
      /\ x \in DOMAIN orders /\ faults' = faults /\ faults \in Nat
      /\ hand[h].phase = "mark" /\ hand'[h].phase = "loop" /\ hand'[h].todo = hand[h].todo
      /\ \A g \in Handlers \ {h} : hand'[g] = hand[g]
  BY <1>0 DEF SweepMark, TypeOK, RefsOK
<1>2. /\ DOMAIN orders' = DOMAIN orders /\ orders'[x].beDone
      /\ \A i \in DOMAIN orders \ {x} : orders'[i] = orders[i]
      /\ orders'[x].kind = orders[x].kind /\ orders'[x].role = orders[x].role
      /\ orders'[x].gid = orders[x].gid
  BY <1>1 DEF Trailed
<1>3. ASSUME NEW r \in DOMAIN orders
      PROVE  ModifiesOf(r)' = ModifiesOf(r) /\ Moving(r)' = Moving(r)
  BY <1>1, <1>2 DEF ModifiesOf, Moving
<1>4. ASSUME NEW r \in DOMAIN orders, IsRunner(orders[r]), r # x
      PROVE  RunnerPaid(r)'
  <2>1. Marking(r)' = Marking(r)
    BY <1>0, <1>1, <1>4 DEF Marking
  <2> QED BY <1>1, <1>2, <1>3, <1>4, <2>1, PaidQuiet DEF RunnersPaid
<1>5. ASSUME IsRunner(orders[x])
      PROVE  RunnerPaid(x)'
  <2> DEFINE H == Cardinality(Handlers)
  <2>1. RunnerPaid(x)
    BY <1>1, <1>5 DEF RunnersPaid
  <2>2. /\ Cardinality(ModifiesOf(x)) \in Nat /\ Cardinality(Moving(x)) \in Nat
        /\ Cardinality(Marking(x)) \in Nat /\ H \in Nat
        /\ H * faults \in Nat /\ H * (1 + faults) = H * faults + H
    BY CountTypes, Budget
  <2>3. Cardinality(Marking(x)) + Cardinality(Moving(x)) <= H
    BY MarkingNotMoving
  <2> HIDE DEF H
  <2>4. Cardinality(ModifiesOf(x)) + Cardinality(Moving(x)) <= H * (1 + faults)
    <3>1. CASE orders[x].beDone
      BY <2>1, <3>1 DEF RunnerPaid, H
    <3>2. CASE ~orders[x].beDone
      <4>1. Cardinality(ModifiesOf(x)) <= H * faults + Cardinality(Marking(x))
        BY <2>1, <3>2 DEF RunnerPaid, H
      <4> QED BY <2>2, <2>3, <4>1
    <3> QED BY <3>1, <3>2
  <2>5. ModifiesOf(x)' = ModifiesOf(x) /\ Moving(x)' = Moving(x)
    BY <1>1, <1>3
  <2> QED BY <1>1, <1>2, <2>4, <2>5 DEF RunnerPaid, H
<1> QED BY <1>2, <1>4, <1>5 DEF RunnersPaid, IsRunner

\* Steps that take no new runner into the count, or pay for it.
LEMMA PaidHeld ==
  ASSUME TypeOK, OwnersOK, RunnersPaid, DOMAIN orders' = DOMAIN orders,
         \A i \in DOMAIN orders : /\ orders'[i].kind = orders[i].kind
                                  /\ orders'[i].role = orders[i].role
                                  /\ orders'[i].gid = orders[i].gid
                                  /\ orders'[i].beDone = orders[i].beDone,
         \/ /\ faults' = faults
            /\ \A r \in DOMAIN orders :
                  /\ orders[r].beDone => Moving(r)' \subseteq Moving(r)
                  /\ ~orders[r].beDone => Marking(r)' = Marking(r)
         \/ /\ faults' = faults + 1 /\ orders' = orders
            /\ \A r \in DOMAIN orders : Moving(r)' \subseteq Moving(r)
  PROVE  RunnersPaid'
<1>1. ASSUME NEW r \in DOMAIN orders, IsRunner(orders[r])
      PROVE  RunnerPaid(r)'
  <2>1. RunnerPaid(r) /\ ModifiesOf(r)' = ModifiesOf(r)
    BY <1>1 DEF RunnersPaid, ModifiesOf
  <2>2. CASE faults' = faults
    <3>1. /\ orders[r].beDone => Moving(r)' \subseteq Moving(r)
          /\ ~orders[r].beDone => Marking(r)' = Marking(r)
      BY <2>2 DEF TypeOK
    <3> QED BY <2>1, <2>2, <3>1, PaidQuiet
  <2>3. CASE faults' = faults + 1
    <3>1. orders' = orders /\ Moving(r)' \subseteq Moving(r)
      BY <2>3 DEF TypeOK
    <3> QED BY <2>1, <2>3, <3>1, PaidByFault
  <2> QED BY <2>2, <2>3
<1> QED BY <1>1 DEF RunnersPaid, IsRunner

LEMMA RunnersPaidNext ==
  ASSUME TypeOK, TypeOK', RefsOK, SourceInv, GroupsOK, GroupsOK', OwnersOK, RunnersPaid,
         [Next]_vars
  PROVE  RunnersPaid'
<1>0. /\ orders \in Seq(Order) /\ faults \in Nat
      /\ hand \in [Handlers -> [phase : {"idle", "sweep", "loop", "mark"}, todo : SUBSET Move,
                                runner : Nat, reply : Message \cup {NoMsg}]]
  BY DEF TypeOK
<1>1. CASE UNCHANGED <<orders, hand, faults>>
  BY <1>1, PaidHeld DEF Moving, Marking
<1>2. CASE UNCHANGED <<orders, hand>> /\ Fault
  BY <1>2, PaidHeld DEF Moving, Fault
<1>3. CASE \E t \in Callers : Enqueue(t)
  BY <1>3, EnqueuePaid
<1>4. CASE \E h \in Handlers : \E m \in hand[h].todo : SweepEnqueue(h, m)
  BY <1>4, SweepEnqueuePaid
<1>5. CASE \E h \in Handlers : SweepMark(h)
  BY <1>5, SweepMarkPaid
<1>6. ASSUME NEW h \in Handlers, NEW m \in wire, ServeAck(h, m)
      PROVE  RunnersPaid'
  <2>1. m.id \in DOMAIN orders /\ faults' = faults
    BY <1>6 DEF RefsOK, ServeAck
  <2>2. /\ DOMAIN orders' = DOMAIN orders
        /\ \A i \in DOMAIN orders : /\ orders'[i].kind = orders[i].kind
                                    /\ orders'[i].role = orders[i].role
                                    /\ orders'[i].gid = orders[i].gid
                                    /\ orders'[i].beDone = orders[i].beDone
    BY <1>0, <1>6, <2>1 DEF ServeAck, Reported
  <2>3. /\ hand[h].phase # "mark" /\ hand'[h].phase # "mark" /\ hand'[h].todo = {}
        /\ \A g \in Handlers \ {h} : hand'[g] = hand[g]
    BY <1>0, <1>6 DEF ServeAck
  <2>4. \A r : Moving(r)' \subseteq Moving(r) /\ Marking(r)' = Marking(r)
    BY <2>3 DEF Moving, Marking
  <2> QED BY <2>1, <2>2, <2>4, PaidHeld
<1>7. ASSUME NEW h \in Handlers, CallSweep(h) \/ Respond(h)
      PROVE  RunnersPaid'
  <2>1. /\ UNCHANGED <<orders, faults>>
        /\ hand[h].phase # "mark" /\ hand'[h].phase # "mark" /\ hand'[h].todo = {}
        /\ \A g \in Handlers \ {h} : hand'[g] = hand[g]
    BY <1>0, <1>7 DEF CallSweep, Respond, IdleHand
  <2>2. \A r : Moving(r)' \subseteq Moving(r) /\ Marking(r)' = Marking(r)
    BY <2>1 DEF Moving, Marking
  <2> QED BY <2>1, <2>2, PaidHeld
<1>8. ASSUME NEW h \in Handlers, SweepRead(h)
      PROVE  RunnersPaid'
  <2>1. /\ UNCHANGED <<orders, faults>>
        /\ hand[h].phase # "mark" /\ hand'[h].phase # "mark"
        /\ hand'[h].todo \subseteq BreakevenModifications
        /\ \A g \in Handlers \ {h} : hand'[g] = hand[g]
    BY <1>0, <1>8 DEF SweepRead
  \* A runner that is flagged is not read again.
  <2>2. \A m \in BreakevenModifications : ~orders[m.runner].beDone
    BY MovesOwned DEF BreakevenModifications
  <2>3. ASSUME NEW r \in DOMAIN orders
        PROVE  /\ orders[r].beDone => Moving(r)' \subseteq Moving(r)
               /\ Marking(r)' = Marking(r)
    BY <2>1, <2>2 DEF Moving, Marking
  <2> QED BY <2>1, <2>3, PaidHeld
<1>9. ASSUME NEW h \in Handlers, SweepFails(h)
      PROVE  RunnersPaid'
  <2>1. /\ orders' = orders /\ faults' = faults + 1 /\ hand'[h].todo = {}
        /\ \A g \in Handlers \ {h} : hand'[g] = hand[g]
    BY <1>0, <1>9 DEF SweepFails, Fault, IdleHand
  <2>2. \A r : Moving(r)' \subseteq Moving(r)
    BY <2>1 DEF Moving
  <2> QED BY <2>1, <2>2, PaidHeld
<1>10. CASE AppRestarts
  <2>1. orders' = orders /\ faults' = faults + 1 /\ \A g \in Handlers : hand'[g].todo = {}
    BY <1>10 DEF AppRestarts, Fault, IdleHand
  <2>2. \A r : Moving(r)' \subseteq Moving(r)
    BY <2>1 DEF Moving
  <2> QED BY <2>1, <2>2, PaidHeld
<1> QED
  BY <1>1, <1>2, <1>3, <1>4, <1>5, <1>6, <1>7, <1>8, <1>9, <1>10
  DEF vars, Next, CallerStep, MaybeEnqueue, EnqueueDirect, TakePlan, EnqueueFails,
      ConnectorStep, Poll, HandleOrder, Place, PlaceUnclear, Modify, ModifyUnclear,
       Refuse, SendAck, BatchFails,
      AckTimesOut, ConnectorRestarts, AckLost, HandlerStep, SweepStep, BrokerStep,
      LimitFills, PositionCloses

\* breakeven_sweep: the handlers that read a runner before one of them flags it
\* queue one modify each, and so do those a fault cut off before they flagged it;
\* no other modify is ever queued for a runner, so their number is bounded.
THEOREM ModifiesAreBounded == Spec => []ModifiesBounded
<1>1. Init => GroupsOK /\ OwnersOK /\ RunnersPaid
  BY DEF Init, GroupsOK, OwnersOK, OwnsTodo, RunnersPaid, IdleHand
<1>2. /\ TypeOK /\ TypeOK' /\ RefsOK /\ SourceInv /\ GroupsOK /\ OwnersOK /\ RunnersPaid
      /\ [Next]_vars
      => GroupsOK' /\ OwnersOK' /\ RunnersPaid'
  <2> SUFFICES ASSUME TypeOK, TypeOK', RefsOK, SourceInv, GroupsOK, OwnersOK, RunnersPaid,
                      [Next]_vars
               PROVE  GroupsOK' /\ OwnersOK' /\ RunnersPaid'
    OBVIOUS
  <2>1. GroupsOK'
    BY GroupsNext
  <2>2. OwnersOK'
    BY ModifiesOwnedNext, TodosOwnedNext DEF OwnersOK
  <2>3. RunnersPaid'
    BY <2>1, RunnersPaidNext
  <2> QED BY <2>1, <2>2, <2>3
<1>3. TypeOK /\ RunnersPaid => ModifiesBounded
  <2> SUFFICES ASSUME TypeOK, RunnersPaid, NEW r \in DOMAIN orders, IsRunner(orders[r])
               PROVE  Cardinality(ModifiesOf(r)) <= Cardinality(Handlers) * (1 + faults)
    BY DEF ModifiesBounded, IsRunner
  <2> DEFINE H == Cardinality(Handlers)
  <2>1. /\ Cardinality(ModifiesOf(r)) \in Nat /\ Cardinality(Moving(r)) \in Nat
        /\ Cardinality(Marking(r)) \in Nat /\ Cardinality(Marking(r)) <= H /\ H \in Nat
        /\ H * faults \in Nat /\ H * (1 + faults) = H * faults + H
    BY CountTypes, Budget
  <2>2. RunnerPaid(r)
    BY DEF RunnersPaid
  <2> QED BY <2>1, <2>2 DEF RunnerPaid
<1> QED BY <1>1, <1>2, <1>3, TypeRefsInvariant, SourceInvariant, PTL DEF Spec
=============================================================================
