----------------------------- MODULE CandleFeed -----------------------------
(***************************************************************************)
(* The candles of services/ohlc_service.py, oldest first, as they print:   *)
(* the last one is still forming.  The engines of BarFeed and the alerter  *)
(* of OptimusDesk read them.                                               *)
(***************************************************************************)
EXTENDS Integers, Sequences

CONSTANTS
    Candles,        \* the candles that may print
    MaxBars,        \* bound on the feed
    SwingReach      \* the candles on either side of a swing

ASSUME CandleAssumption ==
    /\ {MaxBars, SwingReach} \subseteq Nat \ {0}
    /\ Candles \subseteq [open : Int, high : Int, low : Int, close : Int]

VARIABLE feed

FeedInit == feed = <<>>

\* The forming candle closes and the next one opens.
CandleOpens ==
    /\ Len(feed) < MaxBars
    /\ \E c \in Candles : feed' = Append(feed, c)

\* A fetch sees the forming candle further on: its range only widens.
CandleMoves ==
    /\ feed # <<>>
    /\ \E c \in Candles :
          LET now == feed[Len(feed)]
          IN  /\ c # now /\ c.open = now.open
              /\ c.high >= now.high /\ c.low <= now.low
              /\ feed' = [feed EXCEPT ![Len(feed)] = c]

FeedNext == CandleOpens \/ CandleMoves

FeedSpec == FeedInit /\ [][FeedNext]_feed
=============================================================================
