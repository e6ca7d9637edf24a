------------------------------ MODULE Watchers ------------------------------
(***************************************************************************)
(* The watchers of the dollar: the flip alert (services/dxy_flip_service), *)
(* the recon sweep of the whole board (services/recon_service,             *)
(* gold/recon.py), and the callers who ask the same lock on gold longs:    *)
(* the gold scan (services/gold_scan), the muster and the kingdom report   *)
(* (services/kingdom_service).                                             *)
(*                                                                         *)
(* A call reads FRED and the dollar index in two awaits, compares with a   *)
(* marker file, awaits Telegram and then writes the marker: two calls      *)
(* interleave wherever they await, and a restart ends them where they are. *)
(* The chat is what Telegram has delivered.                                *)
(*                                                                         *)
(* The flip alert, the board and the other callers share nothing but the   *)
(* dollar and the process, so a behaviour follows one of them.             *)
(***************************************************************************)
EXTENDS DollarRegime

CONSTANTS
    Calls,      \* requests in flight
    Levels,     \* levels of the dollar index
    Histories,  \* RBUSBIS series FRED may answer with
    Anchors,    \* the anchored entries of gold, [side, zone, at]
    Nets,       \* the speculators' net contracts
    Overrides,  \* what GOLD_LONG_UNLOCK may be set to, {} when unset
    GoldPrices, \* prices a scan may find
    MaxFaults   \* bound on restarts and on messages that are lost

ASSUME WatchAssumption ==
    /\ Overrides \subseteq {{}, {TRUE}, {FALSE}}
    /\ Levels \subseteq Nat /\ Nets \subseteq Int /\ MaxFaults \in Nat
    /\ \A a \in Anchors : a.side \in {"long", "short"}

VARIABLES
    watched,    \* which of them this behaviour follows
    dollar,     \* [level, history]: the index and RBUSBIS
    topped,     \* ghost: the index has been at its extreme, or an operator unlocked
    gold,       \* the anchored entries at the price of the day
    unlock,     \* GOLD_LONG_UNLOCK of the running process
    inputs,     \* the live dollar reading in INPUTS, [bias, heading]
    marker,     \* the marker file of the watcher, empty or with one state
    swept,      \* ghost: the board of the sweep that wrote the marker
    calls,      \* each request's progress
    chat,       \* what the chat was last told, if anything
    upset,      \* ghost: the marker and the chat parted for a known reason
    said,       \* whether the last scan, muster or report let a long through
    faults


world  == <<watched, dollar, topped, gold, unlock>>
reads  == <<inputs, said>>
vars   == <<world, reads, marker, swept, calls, chat, upset, faults>>

Idle     == [pc |-> "idle"]
BootInputs == [bias |-> {}, heading |-> {}]

-----------------------------------------------------------------------------
(* The board.                                                               *)

\* recon_sweep's set-ups: a sell is armed where gold is anchored, a buy once the
\* longs are unlocked.
ReconSweep(anchors, unlocked) ==
    {[anchor |-> a, armed |-> a.side = "short" \/ unlocked] : a \in anchors}

Armed(board) == \E s \in board : s.armed

\* mutant: a staged set-up and an armed one look alike
SignatureUnarmed(board) == {s.anchor : s \in board}

\* _signature.
Signature(board) == {<<s.anchor, s.armed>> : s \in board}

-----------------------------------------------------------------------------
(* The requests.                                                            *)

\* The cron's requests, its forced ones, and GET /gold/recon.
Requests ==
    {[kind |-> "flip",  notify |-> TRUE,  force |-> FALSE, armedOnly |-> FALSE],
     [kind |-> "flip",  notify |-> TRUE,  force |-> TRUE,  armedOnly |-> FALSE],
     [kind |-> "board", notify |-> TRUE,  force |-> FALSE, armedOnly |-> TRUE],
     [kind |-> "board", notify |-> TRUE,  force |-> TRUE,  armedOnly |-> TRUE],
     [kind |-> "board", notify |-> FALSE, force |-> FALSE, armedOnly |-> FALSE]}

\* A flip check asks FRED first and then for the index; a sweep asks for the price of
\* gold, for the index and then FRED.
Begin(c) ==
    /\ calls[c].pc = "idle"
    /\ \E r \in Requests :
          /\ r.kind = watched
          /\ calls' = [calls EXCEPT ![c] =
                         IF r.kind = "flip" THEN [pc |-> "heading", request |-> r]
                                            ELSE [pc |-> "level", request |-> r, anchors |-> gold]]
    /\ UNCHANGED <<world, reads, marker, swept, chat, upset, faults>>

\* dollar_read: RBUSBIS, or nothing without a key or an answer; and latest_dxy: the
\* index, or nothing when only the EUR/USD proxy answers.
DollarRead == {{}, {Heading(dollar.history)}}
LatestDxy  == {{}, {dollar.level}}

\* A flip check reads, waits, and reads again what it compares at once.
ReadHeading(c) ==
    /\ calls[c].pc = "heading"
    /\ \E h \in DollarRead :
          calls' = [calls EXCEPT ![c] = [pc |-> "flip", request |-> @.request, heading |-> h]]
    /\ UNCHANGED <<world, reads, marker, swept, chat, upset, faults>>

\* A sweep does so the other way round.
ReadLevel(c) ==
    /\ calls[c].pc = "level"
    /\ \E l \in LatestDxy :
          calls' = [calls EXCEPT ![c] = [pc |-> "board", request |-> @.request,
                                         anchors |-> @.anchors, level |-> l]]
    /\ UNCHANGED <<world, reads, marker, swept, chat, upset, faults>>

\* What a call reads: the state of the lock, and the board if it is a sweep.
Reading(unlocked, anchors) == [unlocked |-> unlocked, board |-> ReconSweep(anchors, unlocked)]

\* What it writes down of it.
MarkerOf(reading) ==
    IF watched = "flip" THEN [unlocked |-> reading.unlocked, board |-> {}]
                        ELSE [unlocked |-> FALSE, board |-> Signature(reading.board)]

\* Whether it tells: the lock when it is not the one that was written, a sweep when the
\* board is new and armed, or an armed precision zone or a session call joins it.
Tells(request, reading, joined) ==
    LET mark == MarkerOf(reading)
    IN  /\ request.notify
        /\ \/ request.force
           \/ request.kind = "flip" /\ marker \notin {{}, {mark}}
           \/ /\ request.kind = "board" /\ marker # {mark}
              /\ Armed(reading.board) \/ joined \/ ~request.armedOnly

Sending(c) == calls[c].pc \in {"telling", "told"}

\* A call decides to tell: it waits for Telegram.  The ghost "alone": no other call was
\* telling meanwhile.
DecideToTell(c, reading) ==
    LET others == {d \in Calls \ {c} : Sending(d)}
    IN  /\ calls' = [d \in Calls |->
                       CASE d = c -> [pc |-> "telling", reading |-> reading, alone |-> others = {}]
                         [] d \in others -> [calls[d] EXCEPT !.alone = FALSE]
                         [] OTHER -> calls[d]]
        /\ UNCHANGED <<marker, swept, upset>>

\* _write_last, which ends the call whatever was told; "parts" is whether the chat is
\* known not to have what the marker has.
WriteLast(c, reading, parts) ==
    /\ marker' = {MarkerOf(reading)}
    /\ swept' = IF watched = "board" THEN {reading.board} ELSE {}
    /\ upset' = parts
    /\ calls' = [calls EXCEPT ![c] = Idle]

\* flip_alert and recon from the last reading on.  A sweep that is not to notify, of a
\* board that is armed and new, parts the chat from the marker.
Decide(c, reading) ==
    LET request == calls[c].request
        hushed  == ~request.notify /\ Armed(reading.board) /\ swept # {reading.board}
    IN  /\ \E joined \in BOOLEAN :
             IF Tells(request, reading, joined) THEN DecideToTell(c, reading)
                                                ELSE WriteLast(c, reading, upset \/ hushed)
        /\ UNCHANGED <<world, reads, chat, faults>>

CompareLock(c) ==
    /\ calls[c].pc = "flip"
    /\ \E l \in LatestDxy : Decide(c, Reading(Unlocked(l, calls[c].heading, unlock), {}))

CompareBoard(c) ==
    /\ calls[c].pc = "board"
    /\ \E h \in DollarRead :
          Decide(c, Reading(Unlocked(calls[c].level, h, unlock), calls[c].anchors))

\* _tg: Telegram delivers the card, and later the call hears of it.
Deliver(c) ==
    /\ calls[c].pc = "telling"
    /\ chat' = {calls[c].reading}
    /\ calls' = [calls EXCEPT ![c].pc = "told"]
    /\ UNCHANGED <<world, reads, marker, swept, upset, faults>>

\* Or the message is lost; the call goes on as if it had been told.
Lose(c) ==
    /\ calls[c].pc = "telling"
    /\ faults < MaxFaults
    /\ faults' = faults + 1
    /\ WriteLast(c, calls[c].reading, TRUE)
    /\ UNCHANGED <<world, reads, chat>>

Finish(c) ==
    /\ calls[c].pc = "told"
    /\ WriteLast(c, calls[c].reading, ~calls[c].alone)
    /\ UNCHANGED <<world, reads, chat, faults>>

-----------------------------------------------------------------------------
(* The other callers of the lock.  What the operator feeds and what gold    *)
(* does are choices; none of them hands the lock a dollar level.            *)

Fed(rates, net) ==
    [bias |-> inputs.bias, heading |-> inputs.heading, rates |-> rates, net |-> net]

\* refresh_inputs: FRED and the COT each apply or degrade alone.
RefreshRegime ==
    /\ watched = "callers"
    /\ LET heading == Heading(dollar.history)
       IN  inputs' = [heading |-> {heading},
                      bias |-> {CASE heading = "falling" -> "long"
                                  [] heading = "rising" -> "short" [] OTHER -> "neutral"}]
    /\ UNCHANGED <<world, said, marker, swept, calls, chat, upset, faults>>

\* news_flag: a release of the pair's currencies today or within the window.
NewsFlag(days, window) == \E d \in days : d \in 0..window

\* scan: the profile's side goes through the macro anchor, the location, the strict
\* regime gate, today's news and, when asked for, the wildchance verdict.
ScanPasses(side, price, low, net, days, verdict) ==
    LET macro == MacroConfluence(side, price)
    IN  /\ ~macro.invalidated /\ macro.status # "diverges"
        /\ LocationGate(side, price, low + 100, low, 50)
        /\ RegimeGate(side, {}, Fed("rising", net), unlock, TRUE) # "diverges"
        /\ ~NewsFlag(days, 0)
        /\ verdict \in {"none", side}

GoldScan ==
    /\ watched = "callers"
    /\ \E side \in {"long", "short"}, price \in GoldPrices, low \in GoldPrices,
          net \in Nets, days \in {{0}, {1}}, verdict \in {"none", "long"} :
          said' = (side = "long" /\ ScanPasses(side, price, low, net, days, verdict))
    /\ UNCHANGED <<world, inputs, marker, swept, calls, chat, upset, faults>>

\* muster's lock on the trend candidates.
MusterTrend ==
    /\ watched = "callers"
    /\ said' = Unlocked({}, inputs.heading, unlock)
    /\ UNCHANGED <<world, inputs, marker, swept, calls, chat, upset, faults>>

\* kingdom_report: the checklist of the standing regime.
Checklist(bias, rates, net, liquidity, htf, price, edge) ==
    ChecklistVerdict(Conditions(bias, {Unlocked({}, {}, unlock)}, {rates}, {PositioningZone(net)},
                                {liquidity}, htf, {price}, edge))

KingdomReport ==
    /\ watched = "callers"
    /\ \E rates \in {"rising", "falling"}, net \in Nets, liquidity \in {"normal", "impaired"},
          htf \in {{}, {"long"}}, price \in GoldPrices, edge \in {{}, {3900}} :
          LET bias == RegimeBias(Fed(rates, net))
          IN  said' = (bias = "long"
                       /\ Checklist(bias, rates, net, liquidity, htf, price, edge) = "GREEN")
    /\ UNCHANGED <<world, inputs, marker, swept, calls, chat, upset, faults>>

-----------------------------------------------------------------------------
(* The world, and the process.                                              *)

DollarMoves ==
    /\ \E l \in Levels, h \in Histories : dollar' = [level |-> l, history |-> h]
    /\ topped' = (topped \/ dollar'.level >= ExtremeMin)
    /\ UNCHANGED <<watched, gold, unlock, reads, marker, swept, calls, chat, upset, faults>>

GoldMoves ==
    /\ \E a \in {{}} \cup {{b} : b \in Anchors} : gold' = a
    /\ UNCHANGED <<watched, dollar, topped, unlock, reads, marker, swept, calls, chat, upset, faults>>

\* A restart ends the calls and empties the globals; the marker files may be lost with
\* the disk, and the environment may be another.
Restart ==
    /\ faults < MaxFaults
    /\ faults' = faults + 1
    /\ inputs' = BootInputs
    /\ calls' = [c \in Calls |-> Idle]
    /\ \E kept \in BOOLEAN, o \in Overrides :
          /\ unlock' = o
          /\ topped' = (topped \/ o = {TRUE})
          /\ marker' = IF kept THEN marker ELSE {}
          /\ swept' = IF kept THEN swept ELSE {}
          /\ upset' = (upset \/ (watched = "flip" /\ ~kept) \/ \E c \in Calls : Sending(c))
    /\ UNCHANGED <<watched, dollar, gold, said, chat>>

Init ==
    /\ watched \in {"flip", "board", "callers"}
    /\ dollar \in [level : Levels, history : Histories]
    /\ topped = (dollar.level >= ExtremeMin)
    /\ gold = {}
    /\ unlock = {}
    /\ inputs = BootInputs
    /\ marker = {} /\ swept = {} /\ chat = {}
    /\ calls = [c \in Calls |-> Idle]
    /\ upset = FALSE
    /\ said = FALSE
    /\ faults = 0

Next ==
    \/ \E c \in Calls : \/ Begin(c) \/ ReadHeading(c) \/ ReadLevel(c)
                        \/ CompareLock(c) \/ CompareBoard(c) \/ Deliver(c) \/ Lose(c) \/ Finish(c)
    \/ RefreshRegime \/ GoldScan \/ MusterTrend \/ KingdomReport
    \/ DollarMoves \/ GoldMoves \/ Restart

Spec == Init /\ [][Next]_vars

-----------------------------------------------------------------------------
(* Properties.                                                              *)

\* Whoever is asked (the flip alert, the board, the scan, the muster or the report's
\* checklist), a gold long is let through only once the dollar has been at its extreme
\* or the operator has unlocked longs.
LongsWaitForTheTop ==
    \/ topped
    \/ /\ ~said
       /\ \A told \in chat : ~told.unlocked /\ \A s \in told.board : s.armed => s.anchor.side = "short"

\* While no message was lost, no two calls of a kind told at once and no telling was
\* hushed or cut by a restart, the chat has what the markers have: the lock it was told
\* last is the lock that was read last, and an armed board that was swept was told.
ChatMatchesMarkers ==
    upset \/ (\E c \in Calls : Sending(c))
    \/ CASE watched = "flip"  -> \A told \in chat, m \in marker : told.unlocked = m.unlocked
         [] watched = "board" -> \A board \in swept : Armed(board) => \E told \in chat : told.board = board
         [] OTHER -> TRUE

\* What POST /gold/recon promises, "push the board when a setup is armed": where one
\* sweep runs at a time and no message is lost, a sweep to notify that finds the board
\* armed ends with the chat having it, whatever GET /gold/recon, which calls itself
\* read-only, has looked at before.
ArmedBoardIsPushed ==
    [][\A c \in Calls :
          calls[c].pc = "board" /\ calls[c].request.notify /\ calls'[c].pc = "idle" =>
              \A board \in swept' : Armed(board) => \E told \in chat' : told.board = board]_vars
=============================================================================
