--------------------------- MODULE UsdJpyBacktest ---------------------------
(***************************************************************************)
(* What the forward test promises: the workbook.  A log of daily closes    *)
(* that only grows at its end, and a journal that is at every moment what  *)
(* the non-overlapping backtest makes of the log: the scan goes day by day *)
(* and resumes the day after a trade's exit (is_new_stretch's docstring).  *)
(***************************************************************************)
EXTENDS UsdJpyRules

CONSTANT Closes     \* the closes a day can have

VARIABLES log, journal

\* The days on which the scan of a series of closes enters, from day 1 on.
Entries(closes) ==
    LET Scan[day \in Nat] ==
            IF day > Len(closes) THEN <<>>
            ELSE IF Signal(SubSeq(closes, 1, day)) \in Actions
                   THEN <<day>> \o Scan[day + HoldDays + 1]
                   ELSE Scan[day + 1]
    IN  Scan[1]

\* A line of the journal: the exit is the close HoldDays later, once it is there.
Trade(closes, day) ==
    LET history == SubSeq(closes, 1, day)
        action  == Signal(history)
        ended   == day + HoldDays <= Len(closes)
        Breached(d) == Breaches(action, closes[day], Spread(Window(history)), closes[d])
    IN  [day |-> day, action |-> action, entry |-> closes[day],
         ended |-> ended, exit |-> IF ended THEN closes[day + HoldDays] ELSE 0,
         breached |-> ended /\ \E d \in day + 1 .. day + HoldDays : Breached(d)]

Journal(closes) ==
    LET days == Entries(closes)
    IN  [k \in DOMAIN days |-> Trade(closes, days[k])]

Init == log = <<>> /\ journal = <<>>

AddClose(close) == log' = Append(log, close) /\ journal' = Journal(log')

Next == \E close \in Closes : AddClose(close)

Spec == Init /\ [][Next]_<<log, journal>>
=============================================================================
