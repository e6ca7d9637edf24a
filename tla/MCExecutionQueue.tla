-------------------------- MODULE MCExecutionQueue --------------------------
(* Small instances of ExecutionQueue for TLC. *)
EXTENDS ExecutionQueue

\* one connector for each account of the fleet, its name is the account
FleetConnectors == [c \in Connectors |-> c]

LegOf(kind, role, account) == [kind |-> kind, role |-> role, account |-> account]

\* 250/500 plans of a lot of 0.02, which affords two legs
Group(kind, account) == <<LegOf(kind, "p1", account), LegOf(kind, "runner", account)>>

\* the fleet copies one signal to each account
FleetPlan(kind) == <<LegOf(kind, "single", "acc1"), LegOf(kind, "single", "acc2")>>

\* a scan queues one order by itself
FleetPlans == {Group("market", "acc1"), FleetPlan("limit"), <<LegOf("market", "single", "acc1")>>}
=============================================================================
