---------------------------- MODULE OptimusDesk ----------------------------
(***************************************************************************)
(* The live reaction map and the set-up alerter: candles fetched by        *)
(* services/ohlc_service.py, the map that services/gold_levels.py loads    *)
(* from them into the globals of gold/optimus.py (or that the operator     *)
(* posts), and services/gold_alerter.py, whose scans read both, wait for   *)
(* the VAULTUM bias and for Telegram, and mute what they have sent.        *)
(*                                                                         *)
(* A scan is a request: two may run at once, and they interleave wherever  *)
(* they await.  Time is that a mute expires.                               *)
(***************************************************************************)
EXTENDS CandleFeed, GoldMaps, SwingSetups, OrderBlocks

CONSTANTS
    PerDay,         \* candles in a day
    ScanMin,        \* 8: the bars a scan asks for
    RefreshMin,     \* 20: the bars a refresh asks for
    BootMap,        \* the map the module is loaded with
    PostedMaps,     \* the maps the operator may post
    Scans,          \* requests of POST /gold/alerter/scan
    Previews,       \* those of them with notify=false
    Feeds,          \* what the macro feeds may say
    PaidFeeds,      \* and the paid ones that stand in for them
    MaxFaults,      \* bound on posts, failed sends, expiries and restarts
    MaxCards        \* bound on the cards of one key that are counted

ASSUME DeskAssumption ==
    /\ PerDay \in Nat \ {0}
    /\ {ScanMin, RefreshMin, MaxFaults, MaxCards} \subseteq Nat
    /\ Previews \subseteq Scans /\ IsFiniteSet(Scans)
    /\ \A m \in PostedMaps \cup {BootMap} :
          /\ m.sells \subseteq Int /\ IsFiniteSet(m.sells)
          /\ m.floors \subseteq Int /\ IsFiniteSet(m.floors)
          /\ m.tp \in Int

VARIABLES
    map,        \* LIVE_ZONES, PATH_SELLS, PATH_FLOORS and PATH_TP
    scan,       \* each request's progress
    sent,       \* _SENT: the keys that are muted
    cards,      \* how many cards of a key were sent since it was last unmuted
    faults

vars == <<feed, map, scan, sent, cards, faults>>

Vaultum == INSTANCE BiasBoard

\* The direction of the board, "none" when it cannot be read.
Biases == {"none"} \cup
    {Vaultum!GoldBiasBoard(Vaultum!GatherScores(f, PaidFeeds)).direction : f \in Feeds}

Idle == [pc |-> "idle", plans |-> {}, card |-> {}]

-----------------------------------------------------------------------------
(* The fetch.                                                               *)

Day(i) == (i - 1) \div PerDay

\* fetch_ohlc: newest first from the provider, then sorted by date alone, and the
\* sort is stable: the days ascend, the candles of one day descend.
FetchOhlc(bars) ==
    [n \in DOMAIN bars |->
        LET first == PerDay * Day(n) + 1
            last  == Min({Len(bars), first + PerDay - 1})
        IN  bars[first + last - n]]

-----------------------------------------------------------------------------
(* The map.                                                                 *)

\* What refresh loads; a side without zones, or an empty staircase, stays as it was.
Loaded(m, levels) ==
    LET sells  == Range(levels.sellLevels)
        floors == Range(levels.floors)
        kept(side, zones) == IF zones # {} THEN zones ELSE {z \in m.zones : z.side = side}
        both   == sells # {} /\ floors # {}
    IN  [zones  |-> kept("short", levels.sellZones) \cup kept("long", levels.buyZones),
         sells  |-> IF both THEN sells ELSE m.sells,
         floors |-> IF both THEN floors ELSE m.floors,
         tp     |-> IF both THEN Min(floors) ELSE m.tp]

Refresh ==
    /\ Len(feed) >= RefreshMin
    /\ LET bars == FetchOhlc(feed)
           levels == BuildLevels(bars,
                        {bars[i].high : i \in FractalHighs(bars, SwingReach)},
                        {bars[i].low : i \in FractalLows(bars, SwingReach)},
                        bars[Len(bars)].close, 14, 5)
       IN  map' = Loaded(map, levels)
    /\ UNCHANGED <<feed, scan, sent, cards, faults>>

\* POST /gold/optimus/zones and /gold/optimus/path.
PostMap ==
    /\ faults < MaxFaults
    /\ \E m \in PostedMaps : map' = m
    /\ faults' = faults + 1
    /\ UNCHANGED <<feed, scan, sent, cards>>

-----------------------------------------------------------------------------
(* The alerter.                                                             *)

Key(plan) == <<plan.zone, plan.side, plan.entry>>

\* scan_setups: what is armed and has a target.
ScanSetups(bars, zones) == {p \in OptimusArmed(bars, zones) : p.target # {}}

StartScan(s) ==
    /\ scan[s].pc = "idle"
    /\ Len(feed) >= ScanMin
    /\ scan' = [scan EXCEPT ![s] = [pc |-> "bias", card |-> {},
                                    plans |-> ScanSetups(FetchOhlc(feed), map.zones)]]
    /\ UNCHANGED <<feed, map, sent, cards, faults>>

\* The loop over the plans, up to where it waits or ends; a muted plan is skipped.  A
\* preview broadcasts nothing and mutes what it lists.
Proceeds(s, plans, muted) ==
    LET fresh == {p \in plans : Key(p) \notin muted}
        mutes(keys) == sent' = muted \cup keys
    IN  \/ /\ fresh = {} \/ s \in Previews
           /\ mutes({Key(p) : p \in fresh})
           /\ scan' = [scan EXCEPT ![s] = Idle]
        \/ /\ s \notin Previews
           /\ mutes({})
           /\ \E p \in fresh :
                 scan' = [scan EXCEPT ![s] = [pc |-> "sending", card |-> {Key(p)},
                                              plans |-> plans \ {p}]]

\* mutant: a board that fails gates everything
GotBiasStrict(s) ==
    /\ scan[s].pc = "bias"
    /\ \E b \in Biases :
          Proceeds(s, {p \in scan[s].plans : b \in {p.side, "neutral"}}, sent)
    /\ UNCHANGED <<feed, map, cards, faults>>

\* The board answers, or fails and gates nothing.
GotBias(s) ==
    /\ scan[s].pc = "bias"
    /\ \E b \in Biases :
          Proceeds(s, {p \in scan[s].plans : b \in {p.side, "none", "neutral"}}, sent)
    /\ UNCHANGED <<feed, map, cards, faults>>

Counted(keys) ==
    cards' = [k \in DOMAIN cards \cup keys |->
                 Min({MaxCards, (IF k \in DOMAIN cards THEN cards[k] ELSE 0)
                                    + (IF k \in keys THEN 1 ELSE 0)})]

\* mutant: a card that was broadcast mutes nothing
SentUnmuted(s) ==
    /\ scan[s].pc = "sending"
    /\ Counted(scan[s].card)
    /\ Proceeds(s, scan[s].plans, sent)
    /\ UNCHANGED <<feed, map, faults>>

\* Telegram took the card; only now is its key muted.
Sent(s) ==
    /\ scan[s].pc = "sending"
    /\ Counted(scan[s].card)
    /\ Proceeds(s, scan[s].plans, sent \cup scan[s].card)
    /\ UNCHANGED <<feed, map, faults>>

\* Telegram fails: the card is lost, and muted all the same.
SendFails(s) ==
    /\ scan[s].pc = "sending"
    /\ faults < MaxFaults /\ faults' = faults + 1
    /\ Proceeds(s, scan[s].plans, sent \cup scan[s].card)
    /\ UNCHANGED <<feed, map, cards>>

-----------------------------------------------------------------------------
(* The environment.                                                         *)

CandlePrints ==
    /\ CandleOpens
    /\ UNCHANGED <<map, scan, sent, cards, faults>>

MuteExpires ==
    /\ faults < MaxFaults
    /\ \E k \in sent :
          /\ sent' = sent \ {k}
          /\ cards' = [c \in DOMAIN cards \ {k} |-> cards[c]]
    /\ faults' = faults + 1
    /\ UNCHANGED <<feed, map, scan>>

\* A restart loads the module's own map again and forgets what was sent.
AppRestarts ==
    /\ faults < MaxFaults
    /\ map' = BootMap /\ sent' = {} /\ cards' = <<>>
    /\ scan' = [s \in Scans |-> Idle]
    /\ faults' = faults + 1
    /\ UNCHANGED feed

Init ==
    /\ FeedInit /\ map = BootMap
    /\ scan = [s \in Scans |-> Idle]
    /\ sent = {} /\ cards = <<>> /\ faults = 0

ScanSteps(s) == GotBias(s) \/ Sent(s) \/ SendFails(s)

Next == \/ CandlePrints \/ Refresh \/ PostMap \/ MuteExpires \/ AppRestarts
        \/ \E s \in Scans : StartScan(s) \/ ScanSteps(s)

\* The cron asks for a broadcasting scan every hour, and carries it on.
Spec == /\ Init /\ [][Next]_vars
        /\ \A s \in Scans \ Previews : WF_vars(StartScan(s) \/ ScanSteps(s))
-----------------------------------------------------------------------------
(* Properties.                                                              *)

\* While a key is muted its card was sent at most once by each request that
\* broadcasts: the dedup is read before the broadcast and written after it, so two
\* requests may send the same card, and no third one does.
CardsBounded == \A k \in DOMAIN cards : cards[k] <= Cardinality(Scans \ Previews)

\* Whatever was refreshed, posted or half loaded, and wherever the price has gone
\* since, each leg of the staircase starts where the one before it ended, the last ends at
\* the target, and each retrace ends at least a dollar under the one before it.  Where the
\* stops on the way down are a dollar apart and the first fall is a dollar, an impulse falls
\* and a retrace does not.  Elsewhere the legs may turn around: at a first block under the
\* first floor, which the slack lets in below the price, and at levels less than a dollar
\* apart, where the lower high may be under its floor (optimus.py:422).
StaircaseDescends ==
    feed # <<>> /\ feed[Len(feed)].close > map.tp =>
        LET legs == SellPath(map.sells, map.floors, feed[Len(feed)].close, map.tp)
            ups  == {i \in DOMAIN legs : legs[i].kind = "up"}
            stops == {f \in map.floors : f < feed[Len(feed)].close /\ f > map.tp} \cup {map.tp}
            fall  == IF legs[1].kind = "down" THEN legs[1].from - legs[1].to
                                              ELSE legs[1].to - legs[2].to
        IN  /\ legs[Len(legs)].to = map.tp
            /\ \A i \in 2..Len(legs) : legs[i].from = legs[i - 1].to
            /\ \A i, j \in ups : i < j => legs[j].to <= legs[i].to - PerDollar
            /\ fall >= PerDollar /\ (\A f, g \in stops : f < g => f <= g - PerDollar)
               => \A i \in 2..Len(legs) : (legs[i].kind = "down") = (legs[i].to < legs[i].from)

\* The plans a scan started now would arm, with the sides every bias lets through.
Armed == IF Len(feed) >= ScanMin THEN ScanSetups(FetchOhlc(feed), map.zones) ELSE {}
AlwaysAligned == {side \in {"long", "short"} : Biases \subseteq {side, "none", "neutral"}}

\* A set-up that arms and agrees with the board does not stay unnoticed: its key is
\* muted in the end, by a card or by a preview, unless the set-up goes away.
Unnoticed == \E p \in Armed : p.side \in AlwaysAligned /\ Key(p) \notin sent
ArmedIsAnswered == Unnoticed ~> ~Unnoticed

\* rejection.py: an entry is armed by a sweep and reject among the newest three
\* candles, at whose close it is.
ArmedByRecentReject ==
    \A s \in Scans : scan[s].pc = "bias" =>
        \A p \in scan[s].plans :
            \E i \in DOMAIN feed : i > Len(feed) - 3 /\ feed[i].close = p.entry
=============================================================================
