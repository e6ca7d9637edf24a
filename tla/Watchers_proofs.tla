--------------------------- MODULE Watchers_proofs ---------------------------
(***************************************************************************)
(* What is proved of Watchers for every set of requests, levels, series,   *)
(* anchors and prices: a gold long is let through only once the dollar has *)
(* been at its extreme or an operator has unlocked longs, and the chat has *)
(* what the markers have unless it is known to have lost it.               *)
(***************************************************************************)
EXTENDS Watchers, TLAPS

\* What a call holds, as far as what it does next depends on it.
CallOK(c) ==
    \/ calls[c].pc = "idle"
    \/ /\ calls[c].pc \in {"heading", "flip"} /\ watched = "flip"
       /\ calls[c].request \in Requests /\ calls[c].request.kind = "flip"
    \/ /\ calls[c].pc \in {"level", "board"} /\ watched = "board"
       /\ calls[c].request \in Requests /\ calls[c].request.kind = "board"
    \/ /\ Sending(c) /\ watched \in {"flip", "board"} /\ calls[c].alone \in BOOLEAN
       /\ calls[c] = [pc |-> calls[c].pc, reading |-> calls[c].reading,
                      alone |-> calls[c].alone]

CallsOK ==
    /\ DOMAIN calls = Calls
    /\ \A c \in Calls : CallOK(c)

-----------------------------------------------------------------------------
(* The lock on gold longs.                                                  *)

\* A reading that lets no long through.
Locked(reading) ==
    /\ ~reading.unlocked
    /\ \A s \in reading.board : s.armed => s.anchor.side = "short"

\* Until the dollar has been at its extreme, or an operator has unlocked longs, every
\* reading on its way is one of a dollar below it.
CallLocked(c) ==
    /\ calls[c].pc = "board" => ~AtExtreme(calls[c].level)
    /\ Sending(c) => Locked(calls[c].reading)

Held ==
    /\ TRUE \notin unlock /\ ~(dollar.level >= ExtremeMin) /\ ~said
    /\ \A told \in chat : Locked(told)
    /\ \A c \in Calls : CallLocked(c)

LockInv == topped \/ Held

LEMMA LockedReading ==
    ASSUME NEW anchors
    PROVE  Locked(Reading(FALSE, anchors))
<1>1. /\ Reading(FALSE, anchors).unlocked = FALSE
      /\ Reading(FALSE, anchors).board = ReconSweep(anchors, FALSE)
  BY DEF Reading
<1>2. ASSUME NEW s \in ReconSweep(anchors, FALSE), s.armed
      PROVE  s.anchor.side = "short"
  <2>1. PICK a \in anchors : s = [anchor |-> a, armed |-> a.side = "short" \/ FALSE]
    BY DEF ReconSweep
  <2> QED BY <1>2, <2>1
<1> QED BY <1>1, <1>2 DEF Locked

LEMMA LockedStays ==
    ASSUME NEW level, ~AtExtreme(level), NEW heading, NEW override, TRUE \notin override
    PROVE  Unlocked(level, heading, override) = FALSE
<1>1. CASE override = {}
  <2>1. Unlocked(level, heading, override) <=> (AtExtreme(level) /\ heading = {"falling"})
    BY <1>1 DEF Unlocked
  <2>2. Unlocked(level, heading, override) \in BOOLEAN
    BY <1>1 DEF Unlocked
  <2> QED BY <2>1, <2>2
<1>2. CASE override # {}
  <2>1. Unlocked(level, heading, override) <=> TRUE \in override
    BY <1>2 DEF Unlocked
  <2>2. Unlocked(level, heading, override) \in BOOLEAN
    BY <1>2 DEF Unlocked
  <2> QED BY <2>1, <2>2
<1> QED BY <1>1, <1>2

\* The scan's gate is strict: a long needs the lock to be open.
LEMMA ScanWaits ==
    ASSUME TRUE \notin unlock, NEW price, NEW low, NEW net, NEW days, NEW verdict
    PROVE  ~ScanPasses("long", price, low, net, days, verdict)
<1>1. \A heading : Unlocked({}, heading, unlock) = FALSE
  BY LockedStays DEF AtExtreme
<1>2. \A inputsFed : RegimeGate("long", {}, inputsFed, unlock, TRUE) = "diverges"
  BY <1>1 DEF RegimeGate
<1> QED BY <1>2 DEF ScanPasses

\* And the report's checklist breaks on the lock.
LEMMA ChecklistWaits ==
    ASSUME TRUE \notin unlock, NEW rates, NEW net, NEW liquidity, NEW htf, NEW price, NEW edge
    PROVE  Checklist("long", rates, net, liquidity, htf, price, edge) # "GREEN"
<1> DEFINE conditions == Conditions("long", {Unlocked({}, {}, unlock)}, {rates},
                                    {PositioningZone(net)}, {liquidity}, htf, {price}, edge)
           broken == {c \in DOMAIN conditions : FALSE \in conditions[c]}
<1>1. Unlocked({}, {}, unlock) = FALSE
  BY LockedStays DEF AtExtreme
<1>2. "flip" \in broken
  <2>1. /\ "flip" \in DOMAIN conditions
        /\ conditions["flip"] = {"long" = "long" => u : u \in {Unlocked({}, {}, unlock)}}
    BY DEF Conditions
  <2>2. FALSE \in {"long" = "long" => u : u \in {Unlocked({}, {}, unlock)}}
    <3>1. ("long" = "long" => FALSE) = FALSE
      OBVIOUS
    <3>2. FALSE \in {"long" = "long" => u : u \in {FALSE}}
      BY <3>1
    <3> QED BY <1>1, <3>2
  <2> QED BY <2>1, <2>2
<1>3. broken # {}
  BY <1>2
<1>4. ChecklistVerdict(conditions) # "GREEN"
  <2> HIDE DEF conditions
  <2> QED BY <1>3 DEF ChecklistVerdict
<1> QED BY <1>4 DEF Checklist

LEMMA CallsNext ==
    ASSUME CallsOK, watched \in {"flip", "board", "callers"}, [Next]_vars
    PROVE  CallsOK' /\ watched' = watched
<1>1. DOMAIN calls = Calls /\ \A c \in Calls : CallOK(c)
  BY DEF CallsOK
<1>2. watched' = watched
  <2>1. ASSUME NEW c \in Calls, Begin(c) \/ ReadHeading(c) \/ ReadLevel(c) \/ Deliver(c)
                                  \/ Lose(c) \/ Finish(c)
        PROVE  watched' = watched
    BY <2>1 DEF Begin, ReadHeading, ReadLevel, Deliver, Lose, Finish, world
  <2>2. ASSUME NEW c \in Calls, NEW reading, Decide(c, reading)
        PROVE  watched' = watched
    BY <2>2 DEF Decide, world
  <2>3. ASSUME NEW c \in Calls, CompareLock(c) \/ CompareBoard(c)
        PROVE  watched' = watched
    BY <2>2, <2>3 DEF CompareLock, CompareBoard
  <2>4. CASE \/ DollarMoves \/ GoldMoves \/ Restart \/ UNCHANGED vars
    BY <2>4 DEF DollarMoves, GoldMoves, Restart, world, vars
  <2>5. CASE RefreshRegime \/ GoldScan \/ MusterTrend \/ KingdomReport
    BY <2>5 DEF RefreshRegime, GoldScan, MusterTrend, KingdomReport, world
  <2> QED BY <2>1, <2>3, <2>4, <2>5 DEF Next
<1>3. ASSUME NEW c \in Calls, calls' = [calls EXCEPT ![c] = Idle]
      PROVE  CallsOK'
  BY <1>1, <1>2, <1>3 DEF CallsOK, CallOK, Idle, Sending
<1>4. ASSUME NEW c \in Calls, Begin(c)
      PROVE  CallsOK'
  BY <1>1, <1>2, <1>4 DEF Begin, CallsOK, CallOK, Sending, Requests
<1>5. ASSUME NEW c \in Calls, ReadHeading(c) \/ ReadLevel(c)
      PROVE  CallsOK'
  BY <1>1, <1>2, <1>5 DEF ReadHeading, ReadLevel, CallsOK, CallOK, Sending
<1>6. ASSUME NEW c \in Calls, NEW reading, DecideToTell(c, reading), calls[c].pc \in {"flip", "board"}
      PROVE  CallsOK'
  <2>1. watched \in {"flip", "board"}
    BY <1>1, <1>6 DEF CallOK, Sending
  <2> DEFINE others == {d \in Calls \ {c} : Sending(d)}
  <2>2. /\ DOMAIN calls' = Calls
        /\ calls'[c] = [pc |-> "telling", reading |-> reading, alone |-> others = {}]
        /\ \A d \in others : calls'[d] = [calls[d] EXCEPT !.alone = FALSE]
        /\ \A d \in Calls \ {c} : d \notin others => calls'[d] = calls[d]
    BY <1>6 DEF DecideToTell
  <2>3. CallOK(c)'
    BY <1>2, <2>1, <2>2 DEF CallOK, Sending
  <2>4. ASSUME NEW d \in others
        PROVE  CallOK(d)'
    <3>1. /\ calls[d].pc \in {"telling", "told"}
          /\ calls[d] = [pc |-> calls[d].pc, reading |-> calls[d].reading,
                         alone |-> calls[d].alone]
      BY <1>1 DEF CallOK, Sending
    <3>2. calls'[d] = [calls[d] EXCEPT !.alone = FALSE]
      BY <2>2
    <3> QED BY <1>2, <2>1, <3>1, <3>2 DEF CallOK, Sending
  <2>5. ASSUME NEW d \in Calls \ {c}, d \notin others
        PROVE  CallOK(d)'
    BY <1>1, <1>2, <2>2, <2>5 DEF CallOK, Sending
  <2> QED BY <2>2, <2>3, <2>4, <2>5 DEF CallsOK
<1>7. ASSUME NEW c \in Calls, CompareLock(c) \/ CompareBoard(c)
      PROVE  CallsOK'
  <2>1. calls[c].pc \in {"flip", "board"} /\ \E reading : Decide(c, reading)
    BY <1>7 DEF CompareLock, CompareBoard
  <2>2. \E reading : DecideToTell(c, reading) \/ calls' = [calls EXCEPT ![c] = Idle]
    BY <2>1 DEF Decide, WriteLast
  <2> QED BY <1>3, <1>6, <2>1, <2>2
<1>8. ASSUME NEW c \in Calls, Deliver(c)
      PROVE  CallsOK'
  <2>1. /\ Sending(c) /\ calls[c] = [pc |-> calls[c].pc, reading |-> calls[c].reading,
                                     alone |-> calls[c].alone]
        /\ calls[c].alone \in BOOLEAN /\ watched \in {"flip", "board"}
    BY <1>1, <1>8 DEF Deliver, CallOK, Sending
  <2>2. /\ calls'[c] = [calls[c] EXCEPT !.pc = "told"] /\ DOMAIN calls' = Calls
        /\ \A d \in Calls \ {c} : calls'[d] = calls[d]
    BY <1>1, <1>8 DEF Deliver
  <2>3. CallOK(c)'
    BY <1>2, <2>1, <2>2 DEF CallOK, Sending
  <2>4. \A d \in Calls \ {c} : CallOK(d)'
    BY <1>1, <1>2, <2>2 DEF CallOK, Sending
  <2> QED BY <2>2, <2>3, <2>4 DEF CallsOK
<1>9. ASSUME NEW c \in Calls, Lose(c) \/ Finish(c)
      PROVE  CallsOK'
  BY <1>3, <1>9 DEF Lose, Finish, WriteLast
<1>10. CASE Restart
  BY <1>10 DEF Restart, CallsOK, CallOK, Idle
<1>11. CASE \/ RefreshRegime \/ GoldScan \/ MusterTrend \/ KingdomReport
            \/ DollarMoves \/ GoldMoves \/ UNCHANGED vars
  <2>1. calls' = calls
    BY <1>11 DEF RefreshRegime, GoldScan, MusterTrend, KingdomReport, DollarMoves, GoldMoves, vars
  <2> QED BY <1>1, <1>2, <2>1 DEF CallsOK, CallOK, Sending
<1> QED BY <1>2, <1>4, <1>5, <1>7, <1>8, <1>9, <1>10, <1>11 DEF Next

\* A call's decision, on a reading that lets no long through.
LEMMA DecideHolds ==
    ASSUME CallsOK, Held, NEW c \in Calls, calls[c].pc \in {"flip", "board"},
           NEW reading, Locked(reading), Decide(c, reading)
    PROVE  Held'
<1>1. DOMAIN calls = Calls /\ \A d \in Calls : CallOK(d)
  BY DEF CallsOK
<1>2. /\ unlock' = unlock /\ dollar' = dollar /\ said' = said /\ chat' = chat
  BY DEF Decide, world, reads
<1>3. DecideToTell(c, reading) \/ calls' = [calls EXCEPT ![c] = Idle]
  BY DEF Decide, WriteLast
<1>4. CASE calls' = [calls EXCEPT ![c] = Idle]
  <2>1. \A d \in Calls : CallLocked(d)'
    BY <1>1, <1>4 DEF Held, CallLocked, Sending, Idle
  <2> QED BY <1>2, <2>1 DEF Held
<1>5. CASE DecideToTell(c, reading)
  <2> DEFINE others == {d \in Calls \ {c} : Sending(d)}
  <2>1. /\ calls'[c] = [pc |-> "telling", reading |-> reading, alone |-> others = {}]
        /\ \A d \in others : calls'[d] = [calls[d] EXCEPT !.alone = FALSE]
        /\ \A d \in Calls \ {c} : d \notin others => calls'[d] = calls[d]
    BY <1>5 DEF DecideToTell
  <2>2. CallLocked(c)'
    BY <2>1 DEF CallLocked
  <2>3. ASSUME NEW d \in others
        PROVE  CallLocked(d)'
    <3>1. /\ calls[d].pc \in {"telling", "told"} /\ Locked(calls[d].reading)
          /\ calls[d] = [pc |-> calls[d].pc, reading |-> calls[d].reading,
                         alone |-> calls[d].alone]
      BY <1>1 DEF CallOK, Sending, Held, CallLocked
    <3>2. calls'[d].pc = calls[d].pc /\ calls'[d].reading = calls[d].reading
      BY <2>1, <3>1
    <3> QED BY <3>1, <3>2 DEF CallLocked
  <2>4. ASSUME NEW d \in Calls \ {c}, d \notin others
        PROVE  CallLocked(d)'
    BY <2>1, <2>4 DEF Held, CallLocked, Sending
  <2> QED BY <1>2, <2>2, <2>3, <2>4 DEF Held
<1> QED BY <1>3, <1>4, <1>5

LEMMA LockStep ==
    ASSUME CallsOK, LockInv, [Next]_vars
    PROVE  LockInv'
<1>0. DOMAIN calls = Calls /\ \A d \in Calls : CallOK(d)
  BY DEF CallsOK
<1> SUFFICES ASSUME ~topped'
             PROVE  Held'
  BY DEF LockInv
<1>1. CASE \E c \in Calls : Begin(c) \/ ReadHeading(c)
  <2>1. /\ Held /\ unlock' = unlock /\ dollar' = dollar /\ said' = said /\ chat' = chat
    BY <1>1 DEF Begin, ReadHeading, LockInv, world, reads
  <2>2. \A d \in Calls : calls'[d] = calls[d] \/ calls'[d].pc \in {"heading", "level", "flip"}
    BY <1>0, <1>1 DEF Begin, ReadHeading
  <2> QED BY <2>1, <2>2 DEF Held, CallLocked, Sending
<1>2. ASSUME NEW c \in Calls, ReadLevel(c)
      PROVE  Held'
  <2>1. /\ Held /\ unlock' = unlock /\ dollar' = dollar /\ said' = said /\ chat' = chat
    BY <1>2 DEF ReadLevel, LockInv, world, reads
  <2>2. \A d \in Calls \ {c} : calls'[d] = calls[d]
    BY <1>0, <1>2 DEF ReadLevel
  <2>3. PICK l \in LatestDxy : calls'[c].pc = "board" /\ calls'[c].level = l
    BY <1>0, <1>2 DEF ReadLevel
  <2>4. ~AtExtreme(l)
    BY <2>1, <2>3 DEF LatestDxy, AtExtreme, Held
  <2> QED BY <2>1, <2>2, <2>3, <2>4 DEF Held, CallLocked, Sending
<1>3. ASSUME NEW c \in Calls, CompareLock(c) \/ CompareBoard(c)
      PROVE  Held'
  <2>1. PICK l, h, anchors :
            /\ Decide(c, Reading(Unlocked(l, h, unlock), anchors))
            /\ \/ l \in LatestDxy
               \/ calls[c].pc = "board" /\ l = calls[c].level
    <3>1. CASE CompareLock(c)
      BY <3>1 DEF CompareLock
    <3>2. CASE CompareBoard(c)
      BY <3>2 DEF CompareBoard
    <3> QED BY <1>3, <3>1, <3>2
  <2>2. topped' = topped
    BY <2>1 DEF Decide, world
  <2>3. Held
    BY <2>2 DEF LockInv
  <2>4. ~AtExtreme(l)
    BY <2>1, <2>3 DEF LatestDxy, AtExtreme, Held, CallLocked
  <2>5. Unlocked(l, h, unlock) = FALSE
    BY <2>3, <2>4, LockedStays DEF Held
  <2>6. PICK reading : reading = Reading(FALSE, anchors)
    OBVIOUS
  <2>7. Locked(reading) /\ Decide(c, reading)
    BY <2>1, <2>5, <2>6, LockedReading
  <2>8. calls[c].pc \in {"flip", "board"}
    BY <1>3 DEF CompareLock, CompareBoard
  <2> QED BY <2>3, <2>7, <2>8, DecideHolds
<1>4. ASSUME NEW c \in Calls, Deliver(c)
      PROVE  Held'
  <2>1. /\ Held /\ unlock' = unlock /\ dollar' = dollar /\ said' = said
        /\ chat' = {calls[c].reading} /\ calls[c].pc = "telling"
    BY <1>4 DEF Deliver, LockInv, world, reads
  <2>2. /\ calls'[c] = [calls[c] EXCEPT !.pc = "told"]
        /\ \A d \in Calls \ {c} : calls'[d] = calls[d]
    BY <1>0, <1>4 DEF Deliver
  <2>3. /\ Sending(c) /\ calls[c] = [pc |-> calls[c].pc, reading |-> calls[c].reading,
                                     alone |-> calls[c].alone]
    BY <1>0, <2>1 DEF CallOK, Sending
  <2>4. calls'[c].pc = "told" /\ calls'[c].reading = calls[c].reading
    BY <2>2, <2>3
  <2>5. Locked(calls[c].reading)
    BY <2>1, <2>3 DEF Held, CallLocked
  <2> QED BY <2>1, <2>2, <2>4, <2>5 DEF Held, CallLocked, Sending
<1>5. ASSUME NEW c \in Calls, Lose(c) \/ Finish(c)
      PROVE  Held'
  <2>1. /\ Held /\ unlock' = unlock /\ dollar' = dollar /\ said' = said /\ chat' = chat
        /\ calls' = [calls EXCEPT ![c] = Idle]
    BY <1>5 DEF Lose, Finish, WriteLast, LockInv, world, reads
  <2> QED BY <1>0, <2>1 DEF Held, CallLocked, Sending, Idle
<1>6. ASSUME RefreshRegime \/ GoldScan \/ MusterTrend \/ KingdomReport
      PROVE  Held'
  <2>1. /\ Held /\ unlock' = unlock /\ dollar' = dollar /\ chat' = chat /\ calls' = calls
    BY <1>6 DEF RefreshRegime, GoldScan, MusterTrend, KingdomReport, LockInv, world
  <2>2. ~said'
    <3>1. CASE RefreshRegime
      BY <2>1, <3>1 DEF RefreshRegime, Held
    <3>2. CASE GoldScan
      <4>1. PICK side, price, low, net, days, verdict :
                said' = (side = "long" /\ ScanPasses(side, price, low, net, days, verdict))
        BY <3>2 DEF GoldScan
      <4>2. ~ScanPasses("long", price, low, net, days, verdict)
        BY <2>1, ScanWaits DEF Held
      <4> QED BY <4>1, <4>2
    <3>3. CASE MusterTrend
      <4>1. Unlocked({}, inputs.heading, unlock) = FALSE
        BY <2>1, LockedStays DEF Held, AtExtreme
      <4> QED BY <3>3, <4>1 DEF MusterTrend
    <3>4. CASE KingdomReport
      <4>1. PICK bias, rates, net, liquidity, htf, price, edge :
                said' = (bias = "long"
                         /\ Checklist(bias, rates, net, liquidity, htf, price, edge) = "GREEN")
        BY <3>4 DEF KingdomReport
      <4>2. Checklist("long", rates, net, liquidity, htf, price, edge) # "GREEN"
        BY <2>1, ChecklistWaits DEF Held
      <4> QED BY <4>1, <4>2
    <3> QED BY <1>6, <3>1, <3>2, <3>3, <3>4
  <2> QED BY <2>1, <2>2 DEF Held, CallLocked, Sending
<1>7. ASSUME DollarMoves \/ GoldMoves \/ UNCHANGED vars
      PROVE  Held'
  <2>1. /\ Held /\ unlock' = unlock /\ said' = said /\ chat' = chat /\ calls' = calls
    BY <1>7 DEF DollarMoves, GoldMoves, vars, LockInv, world, reads
  <2>2. ~(dollar'.level >= ExtremeMin)
    BY <1>7, <2>1 DEF DollarMoves, GoldMoves, vars, world, Held
  <2> QED BY <2>1, <2>2 DEF Held, CallLocked, Sending
<1>8. ASSUME Restart
      PROVE  Held'
  <2>1. /\ Held /\ dollar' = dollar /\ said' = said /\ chat' = chat
        /\ calls' = [c \in Calls |-> Idle]
    BY <1>8 DEF Restart, LockInv
  <2>2. TRUE \notin unlock'
    <3>1. PICK o \in Overrides : unlock' = o /\ topped' = (topped \/ o = {TRUE})
      BY <1>8 DEF Restart
    <3>2. o # {TRUE}
      BY <3>1
    <3>3. o = {} \/ o = {FALSE}
      BY <3>2, WatchAssumption
    <3>4. TRUE \notin {FALSE}
      OBVIOUS
    <3> QED BY <3>1, <3>3, <3>4
  <2> QED BY <2>1, <2>2 DEF Held, CallLocked, Sending, Idle
<1> QED BY <1>1, <1>2, <1>3, <1>4, <1>5, <1>6, <1>7, <1>8 DEF Next

CallsAlways == CallsOK /\ watched \in {"flip", "board", "callers"}

LEMMA CallsHold == Spec => []CallsAlways
<1>1. Init => CallsAlways
  BY DEF Init, CallsAlways, CallsOK, CallOK, Idle
<1>2. CallsAlways /\ [Next]_vars => CallsAlways'
  BY CallsNext DEF CallsAlways
<1> QED BY <1>1, <1>2, PTL DEF Spec

\* dxy_flip_status: whoever is asked lets a gold long through only once the dollar has
\* been at its extreme or an operator has unlocked longs, whatever overlaps or fails.
THEOREM LongsWait == Spec => []LongsWaitForTheTop
<1>1. Init => LockInv
  <2> SUFFICES ASSUME Init, ~topped
               PROVE  Held
    BY DEF LockInv
  <2>1. unlock = {} /\ ~(dollar.level >= ExtremeMin) /\ ~said /\ chat = {}
    BY DEF Init
  <2>2. \A c \in Calls : CallLocked(c)
    BY DEF Init, CallLocked, Sending, Idle
  <2> QED BY <2>1, <2>2 DEF Held
<1>2. CallsAlways /\ LockInv /\ [Next]_vars => LockInv'
  BY LockStep DEF CallsAlways
<1>3. LockInv => LongsWaitForTheTop
  <2> SUFFICES ASSUME Held
               PROVE  ~said /\ \A told \in chat : ~told.unlocked /\ \A s \in told.board :
                          s.armed => s.anchor.side = "short"
    BY DEF LockInv, LongsWaitForTheTop
  <2> QED BY DEF Held, Locked
<1> QED BY <1>1, <1>2, <1>3, CallsHold, PTL DEF Spec

-----------------------------------------------------------------------------
(* The chat and the markers.                                                *)

\* What a board looks like: the signature tells one from another.
Boards == {ReconSweep(anchors, FALSE) : anchors \in SUBSET Anchors}
             \cup {ReconSweep(anchors, TRUE) : anchors \in SUBSET Anchors}

\* The marker of the board is the signature of the sweep that wrote it.
MarkerOK ==
    watched = "board" =>
        \/ marker = {} /\ swept = {}
        \/ \E board \in Boards :
              swept = {board} /\ marker = {[unlocked |-> FALSE, board |-> Signature(board)]}

\* What a sweep has read is a board; a call that is alone in telling is, and the chat
\* has its card once it is delivered.
TellingOK ==
    \A c \in Calls :
        /\ calls[c].pc \in {"level", "board"} => calls[c].anchors \subseteq Anchors
        /\ Sending(c) /\ watched = "board" => calls[c].reading.board \in Boards
        /\ Sending(c) /\ calls[c].alone =>
              /\ \A d \in Calls \ {c} : ~Sending(d)
              /\ calls[c].pc = "told" => chat = {calls[c].reading}

\* While nobody is telling, the chat has what the marker has; where no marker was
\* written nothing was told.
Matches ==
    /\ watched = "flip" =>
          /\ marker = {} => chat = {}
          /\ \A told \in chat, m \in marker : told.unlocked = m.unlocked
    /\ watched = "board" =>
          \A board \in swept : Armed(board) => \E told \in chat : told.board = board

ChatInv ==
    /\ gold \subseteq Anchors
    /\ MarkerOK
    /\ TellingOK
    /\ upset \/ (\E c \in Calls : Sending(c)) \/ Matches

LEMMA BoardShape ==
    ASSUME NEW board \in Boards, NEW s \in board
    PROVE  s = [anchor |-> s.anchor, armed |-> s.armed]
<1>1. PICK anchors, unlocked : board = ReconSweep(anchors, unlocked)
  BY DEF Boards
<1>2. PICK a \in anchors : s = [anchor |-> a, armed |-> a.side = "short" \/ unlocked]
  BY <1>1 DEF ReconSweep
<1> QED BY <1>2

\* _signature tells two boards apart.
LEMMA SignatureTells ==
    ASSUME NEW one \in Boards, NEW other \in Boards, Signature(one) = Signature(other)
    PROVE  one = other
<1>1. ASSUME NEW b \in Boards, NEW d \in Boards, Signature(b) = Signature(d), NEW s \in b
      PROVE  s \in d
  <2>1. <<s.anchor, s.armed>> \in Signature(d)
    BY <1>1 DEF Signature
  <2>2. PICK r \in d : <<s.anchor, s.armed>> = <<r.anchor, r.armed>>
    BY <2>1 DEF Signature
  <2>3. s.anchor = r.anchor /\ s.armed = r.armed
    BY <2>2
  <2> QED BY <1>1, <2>3, BoardShape
<1>2. \A s : s \in one <=> s \in other
  BY <1>1
<1> QED BY <1>2

LEMMA UnlockedBoolean ==
    ASSUME NEW level, NEW heading, NEW override
    PROVE  Unlocked(level, heading, override) \in BOOLEAN
<1>1. CASE override = {}
  BY <1>1 DEF Unlocked
<1>2. CASE override # {}
  BY <1>2 DEF Unlocked
<1> QED BY <1>1, <1>2

LEMMA ReadingBoard ==
    ASSUME NEW unlocked \in BOOLEAN, NEW anchors, anchors \subseteq Anchors
    PROVE  Reading(unlocked, anchors).board \in Boards
<1>1. Reading(unlocked, anchors).board = ReconSweep(anchors, unlocked)
  BY DEF Reading
<1>2. CASE unlocked = TRUE
  BY <1>1, <1>2 DEF Boards
<1>3. CASE unlocked = FALSE
  BY <1>1, <1>3 DEF Boards
<1> QED BY <1>2, <1>3

\* A sweep's marker is the signature of its board.
LEMMA BoardMarker ==
    ASSUME watched = "board", NEW reading
    PROVE  MarkerOf(reading) = [unlocked |-> FALSE, board |-> Signature(reading.board)]
BY DEF MarkerOf

LEMMA FlipMarker ==
    ASSUME watched = "flip", NEW reading
    PROVE  /\ MarkerOf(reading) = [unlocked |-> reading.unlocked, board |-> {}]
           /\ MarkerOf(reading).unlocked = reading.unlocked
BY DEF MarkerOf

\* A call that ends and writes what it has read.
LEMMA WritesMarker ==
    ASSUME CallsAlways, ChatInv, NEW c \in Calls, NEW reading, NEW parts \in BOOLEAN,
           watched = "board" => reading.board \in Boards,
           watched \in {"flip", "board"}, watched' = watched, gold' = gold, chat' = chat,
           WriteLast(c, reading, parts),
           parts \/ (\E d \in Calls \ {c} : Sending(d)) \/ Matches'
    PROVE  ChatInv'
<1>0. DOMAIN calls = Calls /\ \A d \in Calls : CallOK(d)
  BY DEF CallsAlways, CallsOK
<1>1. /\ marker' = {MarkerOf(reading)} /\ upset' = parts
      /\ swept' = IF watched = "board" THEN {reading.board} ELSE {}
      /\ calls' = [calls EXCEPT ![c] = Idle]
  BY DEF WriteLast
<1>2. calls'[c] = Idle /\ \A d \in Calls \ {c} : calls'[d] = calls[d]
  BY <1>0, <1>1
<1>3. MarkerOK'
  BY <1>1, BoardMarker DEF MarkerOK
<1>4. TellingOK'
  BY <1>2 DEF ChatInv, TellingOK, Sending, Idle
<1>5. (\E d \in Calls \ {c} : Sending(d)) => \E d \in Calls : Sending(d)'
  BY <1>2 DEF Sending
<1> QED BY <1>1, <1>3, <1>4, <1>5 DEF ChatInv

\* A call that decides to tell is alone only if nobody else is telling.
LEMMA StartsTelling ==
    ASSUME CallsAlways, ChatInv, NEW c \in Calls, NEW reading,
           watched = "board" => reading.board \in Boards,
           watched' = watched, gold' = gold, chat' = chat,
           DecideToTell(c, reading)
    PROVE  ChatInv'
<1>0. DOMAIN calls = Calls /\ \A d \in Calls : CallOK(d)
  BY DEF CallsAlways, CallsOK
<1> DEFINE others == {d \in Calls \ {c} : Sending(d)}
<1>1. /\ calls'[c] = [pc |-> "telling", reading |-> reading, alone |-> others = {}]
      /\ \A d \in others : calls'[d] = [calls[d] EXCEPT !.alone = FALSE]
      /\ \A d \in Calls \ {c} : d \notin others => calls'[d] = calls[d]
      /\ marker' = marker /\ swept' = swept /\ upset' = upset
  BY DEF DecideToTell
<1>2. ASSUME NEW d \in others
      PROVE  /\ ~calls'[d].alone /\ calls'[d].reading = calls[d].reading
             /\ calls'[d].pc = calls[d].pc
  <2>1. calls[d] = [pc |-> calls[d].pc, reading |-> calls[d].reading, alone |-> calls[d].alone]
    BY <1>0 DEF CallOK, Sending
  <2>2. calls'[d] = [calls[d] EXCEPT !.alone = FALSE]
    BY <1>1
  <2> QED BY <2>1, <2>2
<1>3. Sending(c)'
  BY <1>1 DEF Sending
<1>4. ASSUME NEW d \in Calls
      PROVE  (/\ calls[d].pc \in {"level", "board"} => calls[d].anchors \subseteq Anchors
              /\ Sending(d) /\ watched = "board" => calls[d].reading.board \in Boards
              /\ Sending(d) /\ calls[d].alone =>
                    /\ \A e \in Calls \ {d} : ~Sending(e)
                    /\ calls[d].pc = "told" => chat = {calls[d].reading})'
  <2>1. CASE d = c
    <3>1. ASSUME calls'[c].alone, NEW e \in Calls \ {c}
          PROVE  ~Sending(e)'
      <4>1. others = {}
        <5>1. PICK empty \in BOOLEAN : empty = (others = {})
          OBVIOUS
        <5>2. calls'[c].alone = empty
          BY <1>1, <5>1
        <5>3. empty
          BY <3>1, <5>2
        <5> QED BY <5>1, <5>3
      <4> QED BY <1>1, <4>1 DEF Sending
    <3> QED BY <1>1, <2>1, <3>1
  <2>2. CASE d \in others
    BY <1>2, <2>2 DEF Sending, ChatInv, TellingOK
  <2>3. CASE d # c /\ d \notin others
    BY <1>1, <2>3 DEF Sending, ChatInv, TellingOK
  <2> QED BY <2>1, <2>2, <2>3
<1>5. TellingOK'
  BY <1>4 DEF TellingOK
<1>6. MarkerOK'
  BY <1>1 DEF ChatInv, MarkerOK
<1> QED BY <1>3, <1>5, <1>6 DEF ChatInv

\* A call that does not tell: what it writes is what the chat has.
LEMMA StaysQuiet ==
    ASSUME ChatInv, watched' = watched, chat' = chat, NEW request \in Requests, request.kind = watched,
           NEW reading, watched = "board" => reading.board \in Boards,
           NEW joined \in BOOLEAN, ~Tells(request, reading, joined), ~upset,
           ~(~request.notify /\ Armed(reading.board) /\ swept # {reading.board}),
           Matches,
           marker' = {MarkerOf(reading)},
           swept' = IF watched = "board" THEN {reading.board} ELSE {}
    PROVE  Matches'
<1>1. CASE watched = "flip"
  <2>1. request.notify
    BY <1>1 DEF Requests
  <2>2. marker = {} \/ marker = {MarkerOf(reading)}
    BY <1>1, <2>1 DEF Tells
  <2>3. CASE marker = {}
    BY <1>1, <2>3 DEF Matches
  <2>4. CASE marker = {MarkerOf(reading)}
    BY <1>1, <2>4 DEF Matches
  <2> QED BY <2>2, <2>3, <2>4
<1>2. CASE watched = "board"
  <2> SUFFICES ASSUME Armed(reading.board)
               PROVE  \E told \in chat : told.board = reading.board
    BY <1>2 DEF Matches
  <2>1. CASE ~request.notify
    BY <1>2, <2>1 DEF Matches
  <2>2. CASE request.notify
    <3>1. marker = {MarkerOf(reading)}
      BY <1>2, <2>2 DEF Tells
    <3>2. PICK board \in Boards :
              swept = {board} /\ marker = {[unlocked |-> FALSE, board |-> Signature(board)]}
      BY <1>2, <3>1 DEF ChatInv, MarkerOK
    <3>3. Signature(board) = Signature(reading.board)
      <4>1. [unlocked |-> FALSE, board |-> Signature(board)]
              = [unlocked |-> FALSE, board |-> Signature(reading.board)]
        BY <1>2, <3>1, <3>2, BoardMarker
      <4> QED BY <4>1
    <3>4. board = reading.board
      BY <1>2, <3>3, SignatureTells
    <3> QED BY <1>2, <3>2, <3>4 DEF Matches
  <2> QED BY <2>1, <2>2
<1>3. CASE watched \notin {"flip", "board"}
  BY <1>3 DEF Matches
<1> QED BY <1>1, <1>2, <1>3

LEMMA DecideMatches ==
    ASSUME CallsAlways, ChatInv, NEW c \in Calls, NEW reading,
           calls[c].pc \in {"flip", "board"},
           watched = "board" => reading.board \in Boards,
           Decide(c, reading)
    PROVE  ChatInv'
<1>0. DOMAIN calls = Calls /\ \A d \in Calls : CallOK(d)
  BY DEF CallsAlways, CallsOK
<1>1. watched' = watched /\ gold' = gold /\ chat' = chat
  BY DEF Decide, world
<1>2. PICK request : request = calls[c].request
  OBVIOUS
<1>3. watched \in {"flip", "board"} /\ request \in Requests /\ request.kind = watched
  BY <1>0, <1>2 DEF CallOK, Sending
<1>5. PICK joined \in BOOLEAN :
          \/ Tells(request, reading, joined) /\ DecideToTell(c, reading)
          \/ /\ ~Tells(request, reading, joined)
             /\ WriteLast(c, reading,
                    upset \/ (~request.notify /\ Armed(reading.board) /\ swept # {reading.board}))
  BY <1>2 DEF Decide
<1>6. CASE DecideToTell(c, reading)
  BY <1>1, <1>6, StartsTelling
<1>7. CASE /\ ~Tells(request, reading, joined)
           /\ WriteLast(c, reading,
                  upset \/ (~request.notify /\ Armed(reading.board) /\ swept # {reading.board}))
  <2>1. PICK parts \in BOOLEAN :
            parts = (upset \/ (~request.notify /\ Armed(reading.board) /\ swept # {reading.board}))
    <3>1. (upset \/ (~request.notify /\ Armed(reading.board) /\ swept # {reading.board})) \in BOOLEAN
      OBVIOUS
    <3> QED BY <3>1
  <2>2. WriteLast(c, reading, parts)
    BY <1>7, <2>1
  <2>3. parts \/ (\E d \in Calls \ {c} : Sending(d)) \/ Matches'
    <3> SUFFICES ASSUME ~parts, ~(\E d \in Calls \ {c} : Sending(d))
                 PROVE  Matches'
      OBVIOUS
    <3>1. ~upset /\ ~(~request.notify /\ Armed(reading.board) /\ swept # {reading.board})
      BY <2>1
    <3>2. ~(\E d \in Calls : Sending(d))
      BY DEF Sending
    <3>3. Matches
      BY <3>1, <3>2 DEF ChatInv
    <3> QED BY <1>1, <1>3, <1>7, <2>2, <3>1, <3>3, StaysQuiet DEF WriteLast
  <2> QED BY <1>1, <1>3, <2>2, <2>3, WritesMarker
<1> QED BY <1>5, <1>6, <1>7

LEMMA ChatStep ==
    ASSUME CallsAlways, ChatInv, [Next]_vars
    PROVE  ChatInv'
<1>0. /\ DOMAIN calls = Calls /\ \A d \in Calls : CallOK(d)
      /\ watched \in {"flip", "board", "callers"} /\ watched' = watched
  BY CallsNext DEF CallsAlways, CallsOK
<1>1. ASSUME NEW c \in Calls, Begin(c) \/ ReadHeading(c) \/ ReadLevel(c)
      PROVE  ChatInv'
  <2>1. /\ gold' = gold /\ marker' = marker /\ swept' = swept /\ chat' = chat /\ upset' = upset
        /\ \A d \in Calls \ {c} : calls'[d] = calls[d]
    BY <1>0, <1>1 DEF Begin, ReadHeading, ReadLevel, world
  <2>2. ~Sending(c) /\ ~Sending(c)'
    BY <1>0, <1>1 DEF Begin, ReadHeading, ReadLevel, Sending
  <2>3. calls'[c].pc \in {"level", "board"} => calls'[c].anchors \subseteq Anchors
    <3>1. CASE Begin(c)
      BY <1>0, <3>1 DEF Begin, ChatInv
    <3>2. CASE ReadHeading(c) \/ ReadLevel(c)
      BY <1>0, <3>2 DEF ReadHeading, ReadLevel, ChatInv, TellingOK
    <3> QED BY <1>1, <3>1, <3>2
  <2>4. TellingOK'
    BY <1>0, <2>1, <2>2, <2>3 DEF ChatInv, TellingOK, Sending
  <2>5. (\E d \in Calls : Sending(d)) => (\E d \in Calls : Sending(d)')
    BY <2>1, <2>2 DEF Sending
  <2>6. MarkerOK' /\ (Matches => Matches')
    BY <1>0, <2>1 DEF ChatInv, MarkerOK, Matches
  <2> QED BY <2>1, <2>4, <2>5, <2>6 DEF ChatInv
<1>2. ASSUME NEW c \in Calls, CompareLock(c)
      PROVE  ChatInv'
  <2>1. PICK reading : Decide(c, reading)
    BY <1>2 DEF CompareLock
  <2>2. calls[c].pc = "flip" /\ watched = "flip"
    BY <1>0, <1>2 DEF CompareLock, CallOK, Sending
  <2> QED BY <2>1, <2>2, DecideMatches
<1>3. ASSUME NEW c \in Calls, CompareBoard(c)
      PROVE  ChatInv'
  <2>1. PICK unlocked \in BOOLEAN : Decide(c, Reading(unlocked, calls[c].anchors))
    BY <1>3, UnlockedBoolean DEF CompareBoard
  <2>2. calls[c].pc = "board" /\ calls[c].anchors \subseteq Anchors
    BY <1>3 DEF CompareBoard, ChatInv, TellingOK
  <2>3. PICK reading : reading = Reading(unlocked, calls[c].anchors)
    OBVIOUS
  <2>4. reading.board \in Boards
    BY <2>2, <2>3, ReadingBoard
  <2> QED BY <2>1, <2>2, <2>3, <2>4, DecideMatches
<1>4. ASSUME NEW c \in Calls, Deliver(c)
      PROVE  ChatInv'
  <2>1. /\ gold' = gold /\ marker' = marker /\ swept' = swept /\ upset' = upset
        /\ chat' = {calls[c].reading} /\ calls[c].pc = "telling"
        /\ \A d \in Calls \ {c} : calls'[d] = calls[d]
        /\ calls'[c] = [calls[c] EXCEPT !.pc = "told"]
    BY <1>0, <1>4 DEF Deliver, world
  <2>2. Sending(c) /\ calls[c] = [pc |-> calls[c].pc, reading |-> calls[c].reading,
                                  alone |-> calls[c].alone]
    BY <1>0, <2>1 DEF CallOK, Sending
  <2>3. /\ calls'[c].pc = "told" /\ calls'[c].reading = calls[c].reading
        /\ calls'[c].alone = calls[c].alone
    BY <2>1, <2>2
  <2>4. Sending(c)'
    BY <2>3 DEF Sending
  <2>5. ASSUME NEW d \in Calls
        PROVE  (/\ calls[d].pc \in {"level", "board"} => calls[d].anchors \subseteq Anchors
                /\ Sending(d) /\ watched = "board" => calls[d].reading.board \in Boards
                /\ Sending(d) /\ calls[d].alone =>
                      /\ \A e \in Calls \ {d} : ~Sending(e)
                      /\ calls[d].pc = "told" => chat = {calls[d].reading})'
    <3>1. CASE d = c
      BY <1>0, <2>1, <2>2, <2>3, <3>1 DEF ChatInv, TellingOK, Sending
    <3>2. CASE d # c
      <4>1. calls'[d] = calls[d] /\ (Sending(d) => ~calls[d].alone)
        BY <2>1, <2>2, <3>2 DEF ChatInv, TellingOK
      <4> QED BY <1>0, <4>1 DEF ChatInv, TellingOK, Sending
    <3> QED BY <3>1, <3>2
  <2>6. TellingOK'
    BY <2>5 DEF TellingOK
  <2>7. MarkerOK'
    BY <1>0, <2>1 DEF ChatInv, MarkerOK
  <2> QED BY <2>1, <2>4, <2>6, <2>7 DEF ChatInv
<1>5. ASSUME NEW c \in Calls, Lose(c)
      PROVE  ChatInv'
  <2>1. /\ Sending(c) /\ WriteLast(c, calls[c].reading, TRUE)
        /\ gold' = gold /\ chat' = chat
    BY <1>5 DEF Lose, Sending, world
  <2>2. watched \in {"flip", "board"}
    BY <1>0, <2>1 DEF CallOK, Sending
  <2>3. watched = "board" => calls[c].reading.board \in Boards
    BY <2>1 DEF ChatInv, TellingOK
  <2> QED BY <1>0, <2>1, <2>2, <2>3, WritesMarker
<1>6. ASSUME NEW c \in Calls, Finish(c)
      PROVE  ChatInv'
  <2>1. /\ Sending(c) /\ calls[c].pc = "told" /\ gold' = gold /\ chat' = chat
        /\ WriteLast(c, calls[c].reading, ~calls[c].alone)
    BY <1>6 DEF Finish, Sending, world
  <2>2. watched \in {"flip", "board"} /\ calls[c].alone \in BOOLEAN
    BY <1>0, <2>1 DEF CallOK, Sending
  <2>3. watched = "board" => calls[c].reading.board \in Boards
    BY <2>1 DEF ChatInv, TellingOK
  <2>4. ASSUME calls[c].alone
        PROVE  Matches'
    <3>1. chat' = {calls[c].reading}
      BY <2>1, <2>4 DEF ChatInv, TellingOK
    <3>2. /\ marker' = {MarkerOf(calls[c].reading)}
          /\ swept' = IF watched = "board" THEN {calls[c].reading.board} ELSE {}
      BY <2>1 DEF WriteLast
    <3>3. CASE watched = "flip"
      BY <1>0, <3>1, <3>2, <3>3, FlipMarker DEF Matches
    <3>4. CASE watched = "board"
      BY <1>0, <3>1, <3>2, <3>4 DEF Matches
    <3> QED BY <2>2, <3>3, <3>4
  <2>5. PICK parts \in BOOLEAN : parts = ~calls[c].alone
    BY <2>2
  <2>6. WriteLast(c, calls[c].reading, parts) /\ (parts \/ Matches')
    BY <2>1, <2>2, <2>4, <2>5
  <2> QED BY <1>0, <2>1, <2>2, <2>3, <2>6, WritesMarker
<1>7. CASE Restart
  <2>1. /\ gold' = gold /\ chat' = chat /\ \A d \in Calls : calls'[d] = Idle
    BY <1>7 DEF Restart
  <2>2. PICK kept \in BOOLEAN :
            /\ marker' = IF kept THEN marker ELSE {}
            /\ swept' = IF kept THEN swept ELSE {}
            /\ upset' = (upset \/ (watched = "flip" /\ ~kept) \/ \E c \in Calls : Sending(c))
    BY <1>7 DEF Restart
  <2>3. TellingOK'
    BY <2>1 DEF TellingOK, Sending, Idle
  <2>4. MarkerOK'
    BY <1>0, <2>2 DEF ChatInv, MarkerOK
  <2>5. ASSUME ~upset'
        PROVE  Matches'
    <3>1. ~upset /\ ~(watched = "flip" /\ ~kept) /\ ~(\E c \in Calls : Sending(c))
      BY <2>2, <2>5
    <3>2. Matches
      BY <3>1 DEF ChatInv
    <3> QED BY <1>0, <2>1, <2>2, <3>1, <3>2 DEF Matches
  <2> QED BY <2>1, <2>3, <2>4, <2>5 DEF ChatInv
<1>8. CASE \/ RefreshRegime \/ GoldScan \/ MusterTrend \/ KingdomReport
           \/ DollarMoves \/ GoldMoves \/ UNCHANGED vars
  <2>1. /\ marker' = marker /\ swept' = swept /\ chat' = chat /\ upset' = upset
        /\ calls' = calls
    BY <1>8 DEF RefreshRegime, GoldScan, MusterTrend, KingdomReport, DollarMoves, GoldMoves, vars
  <2>2. gold' = gold \/ (GoldMoves /\ gold' \subseteq Anchors)
    BY <1>8 DEF RefreshRegime, GoldScan, MusterTrend, KingdomReport, DollarMoves, GoldMoves,
                vars, world
  <2>3. gold' \subseteq Anchors
    BY <2>2 DEF ChatInv
  <2>4. MarkerOK' /\ TellingOK' /\ (Matches => Matches')
    BY <1>0, <2>1 DEF ChatInv, MarkerOK, TellingOK, Matches, Sending
  <2>5. (\E d \in Calls : Sending(d)) => (\E d \in Calls : Sending(d)')
    BY <2>1 DEF Sending
  <2> QED BY <2>1, <2>3, <2>4, <2>5 DEF ChatInv
<1> QED BY <1>1, <1>2, <1>3, <1>4, <1>5, <1>6, <1>7, <1>8 DEF Next

\* flip_alert and recon: while no message was lost and nothing cut or hushed a telling,
\* the chat has what the markers have, for any number of requests.
THEOREM ChatIsTold == Spec => []ChatMatchesMarkers
<1>1. Init => ChatInv
  <2> SUFFICES ASSUME Init
               PROVE  ChatInv
    OBVIOUS
  <2>1. gold = {} /\ marker = {} /\ swept = {} /\ chat = {} /\ \A c \in Calls : calls[c] = Idle
    BY DEF Init
  <2>2. MarkerOK /\ Matches /\ TellingOK
    BY <2>1 DEF MarkerOK, Matches, TellingOK, Sending, Idle
  <2> QED BY <2>1, <2>2 DEF ChatInv
<1>2. CallsAlways /\ ChatInv /\ [Next]_vars => ChatInv'
  BY ChatStep
<1>3. CallsAlways /\ ChatInv => ChatMatchesMarkers
  <2> SUFFICES ASSUME CallsAlways, ChatInv, ~upset, ~(\E c \in Calls : Sending(c))
               PROVE  CASE watched = "flip"  -> \A told \in chat, m \in marker :
                                                    told.unlocked = m.unlocked
                        [] watched = "board" -> \A board \in swept : Armed(board) =>
                                                    \E told \in chat : told.board = board
                        [] OTHER -> TRUE
    BY DEF ChatMatchesMarkers
  <2>1. Matches
    BY DEF ChatInv
  <2>2. CASE watched = "flip"
    BY <2>1, <2>2 DEF Matches
  <2>3. CASE watched = "board"
    BY <2>1, <2>3 DEF Matches
  <2>4. CASE watched \notin {"flip", "board"}
    BY <2>4
  <2> QED BY <2>2, <2>3, <2>4
<1> QED BY <1>1, <1>2, <1>3, CallsHold, PTL DEF Spec
=============================================================================
