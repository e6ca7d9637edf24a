------------------------- MODULE OptimusDesk_proofs -------------------------
(***************************************************************************)
(* What is proved of OptimusDesk for any candles, maps, plans and feeds,   *)
(* and any number of requests: while a key is muted, its card was sent at  *)
(* most once by each request that broadcasts; and the staircase read off   *)
(* the map falls to its target, whatever levels were loaded.               *)
(*                                                                         *)
(* For the cards nothing is used of how the plans are found: a plan is its *)
(* key.  For the staircase it matters only that levels are prices.         *)
(*                                                                         *)
(* And of BarFeed, whose engines read the same candles: as the feed grows, *)
(* what closed candles drew stays; the two reads of one session never      *)
(* point opposite ways; and the replays of a history agree with each       *)
(* other, with the live book and with their plans.                         *)
(***************************************************************************)
EXTENDS OptimusDesk, BarFeed, CollectionTheorems

Broadcasts == Scans \ Previews

\* The requests that wait for Telegram with the card of a key.
Senders(k) == {s \in Scans : scan[s].pc = "sending" /\ k \in scan[s].card}

\* A key that has a card is muted, and the requests that may still send one are among
\* those that read the mutes before it was.
CardsInv ==
    /\ DOMAIN scan = Scans
    /\ \A s \in Scans : scan[s].pc = "sending" => s \in Broadcasts
    /\ DOMAIN cards \subseteq sent
    /\ \A k \in DOMAIN cards :
          cards[k] \in Nat /\ cards[k] + Cardinality(Senders(k)) <= Cardinality(Broadcasts)

\* The requests that may still send a card are finitely many.
LEMMA FewSenders ==
    ASSUME CardsInv, NEW k
    PROVE  /\ IsFiniteSet(Senders(k)) /\ IsFiniteSet(Broadcasts)
           /\ Cardinality(Senders(k)) \in Nat /\ Cardinality(Broadcasts) \in Nat
           /\ Cardinality(Senders(k)) <= Cardinality(Broadcasts)
<1>1. Senders(k) \subseteq Broadcasts /\ Broadcasts \subseteq Scans
  BY DEF Senders, CardsInv, Broadcasts
<1>2. IsFiniteSet(Broadcasts)
  BY <1>1, DeskAssumption, FS_Subset
<1> QED BY <1>1, <1>2, FS_Subset, FS_CardinalityType

\* Fewer of them, once one is done.
LEMMA FewerSenders ==
    ASSUME CardsInv, NEW S, NEW k, S \subseteq Senders(k)
    PROVE  /\ Cardinality(S) \in Nat /\ Cardinality(S) <= Cardinality(Senders(k))
           /\ \A s \in Senders(k) : s \notin S =>
                 Cardinality(S) + 1 <= Cardinality(Senders(k))
<1>1. /\ IsFiniteSet(Senders(k)) /\ Cardinality(Senders(k)) \in Nat
      /\ IsFiniteSet(S) /\ Cardinality(S) \in Nat /\ Cardinality(S) <= Cardinality(Senders(k))
  BY FewSenders, FS_Subset, FS_CardinalityType
<1>2. ASSUME NEW s \in Senders(k), s \notin S
      PROVE  Cardinality(S) + 1 <= Cardinality(Senders(k))
  <2>1. S \cup {s} \subseteq Senders(k)
    BY <1>2
  <2>2. Cardinality(S \cup {s}) = Cardinality(S) + 1
    BY <1>1, <1>2, FS_AddElement
  <2>3. Cardinality(S \cup {s}) <= Cardinality(Senders(k))
    BY <1>1, <2>1, FS_Subset
  <2> QED BY <2>2, <2>3
<1> QED BY <1>1, <1>2

\* A request that goes on over its plans never waits with the card of a muted key.
LEMMA ProceedsUnmuted ==
    ASSUME CardsInv, NEW s \in Scans, NEW plans, NEW muted, Proceeds(s, plans, muted)
    PROVE  /\ muted \subseteq sent' /\ DOMAIN scan' = Scans
           /\ \A t \in Scans : scan'[t].pc = "sending" => t \in Broadcasts
           /\ \A k \in muted : Senders(k)' \subseteq Senders(k) \ {s}
<1>1. DOMAIN scan = Scans
  BY DEF CardsInv
<1>2. CASE scan' = [scan EXCEPT ![s] = Idle] /\ muted \subseteq sent'
  <2>1. scan'[s] = Idle /\ \A t \in Scans \ {s} : scan'[t] = scan[t]
    BY <1>1, <1>2
  <2> QED BY <1>1, <1>2, <2>1 DEF CardsInv, Senders, Idle
<1>3. ASSUME NEW p \in plans, Key(p) \notin muted, s \notin Previews, muted \subseteq sent',
             scan' = [scan EXCEPT ![s] = [pc |-> "sending", card |-> {Key(p)},
                                          plans |-> plans \ {p}]]
      PROVE  /\ muted \subseteq sent' /\ DOMAIN scan' = Scans
             /\ \A t \in Scans : scan'[t].pc = "sending" => t \in Broadcasts
             /\ \A k \in muted : Senders(k)' \subseteq Senders(k) \ {s}
  <2>1. /\ scan'[s] = [pc |-> "sending", card |-> {Key(p)}, plans |-> plans \ {p}]
        /\ \A t \in Scans \ {s} : scan'[t] = scan[t]
    BY <1>1, <1>3
  <2>2. \A k \in muted : k \notin scan'[s].card
    BY <1>3, <2>1
  <2>3. \A t \in Scans : scan'[t].pc = "sending" => t \in Broadcasts
    BY <1>3, <2>1 DEF CardsInv, Broadcasts
  <2> QED BY <1>1, <1>3, <2>1, <2>2, <2>3 DEF Senders
<1> QED BY <1>2, <1>3 DEF Proceeds

\* A step that sends no card.
LEMMA UncountedStep ==
    ASSUME CardsInv, cards' = cards, sent \subseteq sent', DOMAIN scan' = Scans,
           \A t \in Scans : scan'[t].pc = "sending" => t \in Broadcasts,
           \A k \in sent : Senders(k)' \subseteq Senders(k)
    PROVE  CardsInv'
<1>1. ASSUME NEW k \in DOMAIN cards
      PROVE  (cards[k] \in Nat /\ cards[k] + Cardinality(Senders(k)) <= Cardinality(Broadcasts))'
  <2>1. k \in sent /\ cards'[k] = cards[k] /\ cards[k] \in Nat
        /\ cards[k] + Cardinality(Senders(k)) <= Cardinality(Broadcasts)
    BY DEF CardsInv
  <2>2. Cardinality(Senders(k)') \in Nat /\ Cardinality(Senders(k)') <= Cardinality(Senders(k))
    BY <2>1, FewerSenders
  <2>3. Cardinality(Senders(k)) \in Nat /\ Cardinality(Broadcasts) \in Nat
    BY FewSenders
  <2> QED BY <2>1, <2>2, <2>3
<1> QED BY <1>1 DEF CardsInv

\* Telegram takes a card: the request that sent it no longer waits with it.
LEMMA CountedStep ==
    ASSUME CardsInv, NEW s \in Scans, Sent(s)
    PROVE  CardsInv'
<1> DEFINE C == scan[s].card
           Old(k) == IF k \in DOMAIN cards THEN cards[k] ELSE 0
           New(k) == Old(k) + (IF k \in C THEN 1 ELSE 0)
<1>1. /\ sent \cup C \subseteq sent' /\ DOMAIN scan' = Scans
      /\ \A t \in Scans : scan'[t].pc = "sending" => t \in Broadcasts
      /\ \A k \in sent \cup C : Senders(k)' \subseteq Senders(k) \ {s}
  BY ProceedsUnmuted DEF Sent
<1>2. cards' = [k \in DOMAIN cards \cup C |-> Min({MaxCards, New(k)})]
  BY DEF Sent, Counted
<1>3. DOMAIN cards' \subseteq sent'
  BY <1>1, <1>2 DEF CardsInv
<1>4. ASSUME NEW k \in DOMAIN cards'
      PROVE  (cards[k] \in Nat /\ cards[k] + Cardinality(Senders(k)) <= Cardinality(Broadcasts))'
  <2>1. k \in DOMAIN cards \cup C /\ k \in sent \cup C
    BY <1>2, <1>4 DEF CardsInv
  <2>2. Senders(k)' \subseteq Senders(k) /\ s \notin Senders(k)'
    BY <1>1, <2>1
  <2>3. k \in C => s \in Senders(k)
    BY DEF Sent, Senders
  <2>4. /\ Cardinality(Senders(k)') \in Nat
        /\ Cardinality(Senders(k)') <= Cardinality(Senders(k))
        /\ k \in C => Cardinality(Senders(k)') + 1 <= Cardinality(Senders(k))
    BY <2>2, <2>3, FewerSenders
  <2>5. /\ Cardinality(Senders(k)) \in Nat /\ Cardinality(Broadcasts) \in Nat
        /\ Cardinality(Senders(k)) <= Cardinality(Broadcasts)
    BY FewSenders
  <2>6. Old(k) \in Nat /\ Old(k) + Cardinality(Senders(k)) <= Cardinality(Broadcasts)
    BY <2>5 DEF CardsInv
  <2>7. New(k) \in Nat /\ New(k) + Cardinality(Senders(k)') <= Cardinality(Broadcasts)
    BY <2>4, <2>5, <2>6
  <2>8. cards'[k] = Min({MaxCards, New(k)})
    BY <1>2, <2>1
  <2>9. cards'[k] \in Nat /\ cards'[k] <= New(k)
    <3> HIDE DEF New
    <3> QED BY <2>7, <2>8, LeastOfTwo, DeskAssumption
  <2> HIDE DEF New
  <2> QED BY <2>4, <2>5, <2>7, <2>9
<1> QED BY <1>1, <1>3, <1>4 DEF CardsInv

LEMMA CardsInvStep ==
    ASSUME CardsInv, [Next]_vars
    PROVE  CardsInv'
<1>1. ASSUME scan' = scan, sent' = sent, cards' = cards
      PROVE  CardsInv'
  BY <1>1 DEF CardsInv, Senders, Broadcasts
<1>2. ASSUME CandlePrints \/ Refresh \/ PostMap
      PROVE  CardsInv'
  BY <1>1, <1>2 DEF CandlePrints, Refresh, PostMap
<1>3. ASSUME MuteExpires PROVE CardsInv'
  <2>1. PICK k \in sent : /\ sent' = sent \ {k}
                          /\ cards' = [c \in DOMAIN cards \ {k} |-> cards[c]]
    BY <1>3 DEF MuteExpires
  <2>2. scan' = scan
    BY <1>3 DEF MuteExpires
  <2> QED BY <2>1, <2>2 DEF CardsInv, Senders, Broadcasts
<1>4. ASSUME AppRestarts PROVE CardsInv'
  <2>1. cards' = <<>> /\ scan' = [s \in Scans |-> Idle]
    BY <1>4 DEF AppRestarts
  <2>2. DOMAIN cards' = {}
    BY <2>1
  <2> QED BY <2>1, <2>2 DEF CardsInv, Idle
<1>5. ASSUME NEW s \in Scans, StartScan(s) PROVE CardsInv'
  <2>1. DOMAIN scan = Scans
    BY DEF CardsInv
  <2>2. /\ DOMAIN scan' = Scans /\ scan'[s].pc = "bias"
        /\ \A t \in Scans \ {s} : scan'[t] = scan[t]
    BY <1>5, <2>1 DEF StartScan
  <2>3. cards' = cards /\ sent' = sent
    BY <1>5 DEF StartScan
  <2>4. \A t \in Scans : scan'[t].pc = "sending" => t \in Broadcasts
    BY <2>2 DEF CardsInv
  <2>5. \A k \in sent : Senders(k)' \subseteq Senders(k)
    BY <2>2 DEF Senders
  <2> QED BY <2>2, <2>3, <2>4, <2>5, UncountedStep
<1>6. ASSUME NEW s \in Scans, GotBias(s) PROVE CardsInv'
  <2>1. PICK plans : Proceeds(s, plans, sent)
    BY <1>6 DEF GotBias
  <2>2. cards' = cards
    BY <1>6 DEF GotBias
  <2> QED BY <2>1, <2>2, ProceedsUnmuted, UncountedStep
<1>7. ASSUME NEW s \in Scans, SendFails(s) PROVE CardsInv'
  <2>1. Proceeds(s, scan[s].plans, sent \cup scan[s].card) /\ cards' = cards
    BY <1>7 DEF SendFails
  <2>2. /\ sent \cup scan[s].card \subseteq sent' /\ DOMAIN scan' = Scans
        /\ \A t \in Scans : scan'[t].pc = "sending" => t \in Broadcasts
        /\ \A k \in sent \cup scan[s].card : Senders(k)' \subseteq Senders(k) \ {s}
    BY <2>1, ProceedsUnmuted
  <2> QED BY <2>1, <2>2, UncountedStep
<1> QED BY <1>1, <1>2, <1>3, <1>4, <1>5, <1>6, <1>7, CountedStep
        DEF Next, ScanSteps, vars

\* A key is muted only after its card was broadcast, so requests that overlap may send
\* the same card; but while it is muted no request sends it twice, and none that started
\* its wait afterwards sends it at all, however many requests, plans and expiries.
THEOREM CardsAreBounded == Spec => []CardsBounded
<1>1. Init => CardsInv
  <2> SUFFICES ASSUME Init PROVE CardsInv
    OBVIOUS
  <2>1. DOMAIN cards = {} /\ scan = [s \in Scans |-> Idle]
    BY DEF Init
  <2> QED BY <2>1 DEF CardsInv, Idle
<1>2. CardsInv => CardsBounded
  <2> SUFFICES ASSUME CardsInv, NEW k \in DOMAIN cards
               PROVE  cards[k] <= Cardinality(Scans \ Previews)
    BY DEF CardsBounded
  <2>1. Cardinality(Senders(k)) \in Nat /\ Cardinality(Broadcasts) \in Nat
    BY FewSenders
  <2>2. cards[k] \in Nat /\ cards[k] + Cardinality(Senders(k)) <= Cardinality(Broadcasts)
    BY DEF CardsInv
  <2> QED BY <2>1, <2>2 DEF Broadcasts
<1> QED BY <1>1, <1>2, CardsInvStep, PTL DEF Spec

-----------------------------------------------------------------------------
(* The staircase.                                                           *)

PathLeg == [kind : {"up", "down"}, from : Int, to : Int]

Ups(legs) == {i \in DOMAIN legs : legs[i].kind = "up"}

Runs(leg) == (leg.kind = "down") = (leg.to < leg.from)

\* The legs walked so far: they stand at "cur", no retrace ended below "high", and, when
\* the staircase is right, every leg after the first runs the way it says.
Good(legs, cur, high, right) ==
    /\ legs \in Seq(PathLeg) /\ cur \in Int /\ high \in Int
    /\ legs # <<>> => legs[Len(legs)].to = cur
    /\ \A i \in 2 .. Len(legs) : legs[i].from = legs[i - 1].to
    /\ \A i, j \in Ups(legs) : i < j => legs[j].to <= legs[i].to - PerDollar
    /\ \A i \in Ups(legs) : high <= legs[i].to
    /\ right => \A i \in 2 .. Len(legs) : Runs(legs[i])

LEMMA NoLegs ==
    ASSUME NEW cur \in Int, NEW high \in Int, NEW right
    PROVE  Good(<<>>, cur, high, right)
<1>1. <<>> \in Seq(PathLeg) /\ Len(<<>>) = 0 /\ DOMAIN <<>> = {}
  BY EmptySeq
<1>2. 2 .. Len(<<>>) = {} /\ Ups(<<>>) = {}
  BY <1>1 DEF Ups
<1> QED BY <1>1, <1>2 DEF Good

LEMMA NextLeg ==
    ASSUME NEW legs, NEW cur, NEW high, NEW right, Good(legs, cur, high, right),
           NEW leg \in PathLeg, leg.from = cur, NEW top \in Int,
           leg.kind = "down" => top = high,
           leg.kind = "up" => leg.to <= high - PerDollar /\ top = leg.to,
           right /\ legs # <<>> => Runs(leg)
    PROVE  Good(Append(legs, leg), leg.to, top, right)
<1> DEFINE n == Len(legs)
           more == Append(legs, leg)
<1>1. legs \in Seq(PathLeg) /\ cur \in Int /\ high \in Int /\ n \in Nat
      /\ DOMAIN legs = 1 .. n /\ PerDollar \in Nat
  BY LenProperties, MapAssumption DEF Good
<1>2. /\ more \in Seq(PathLeg) /\ Len(more) = n + 1 /\ DOMAIN more = 1 .. n + 1
      /\ \A i \in 1 .. n : more[i] = legs[i]
      /\ more[n + 1] = leg
  <2>1. more \in Seq(PathLeg) /\ Len(more) = n + 1
        /\ (\A i \in 1 .. n : more[i] = legs[i]) /\ more[n + 1] = leg
    BY <1>1, AppendProperties
  <2>2. DOMAIN more = 1 .. n + 1
    BY <2>1, LenProperties
  <2> QED BY <2>1, <2>2
<1>3. legs # <<>> <=> n # 0
  BY <1>1, EmptySeq
<1> HIDE DEF more, n
<1>4. ASSUME NEW i \in 2 .. n + 1
      PROVE  more[i].from = more[i - 1].to /\ (right => Runs(more[i]))
  <2>1. CASE i = n + 1
    <3>1. n # 0 /\ i - 1 = n /\ n \in 1 .. n
      BY <1>1, <1>4, <2>1
    <3>2. more[i] = leg /\ more[i - 1] = legs[n]
      BY <1>2, <2>1, <3>1
    <3>3. legs[n].to = cur
      BY <1>3, <3>1 DEF Good, n
    <3> QED BY <1>3, <3>1, <3>2, <3>3
  <2>2. CASE i # n + 1
    <3>1. i \in 2 .. n /\ i \in 1 .. n /\ i - 1 \in 1 .. n
      BY <1>1, <1>4, <2>2
    <3>2. more[i] = legs[i] /\ more[i - 1] = legs[i - 1]
      BY <1>2, <3>1
    <3>3. legs[i].from = legs[i - 1].to /\ (right => Runs(legs[i]))
      BY <3>1 DEF Good, n
    <3> QED BY <3>2, <3>3
  <2> QED BY <2>1, <2>2
<1>5. ASSUME NEW i \in Ups(more)
      PROVE  /\ i \in 1 .. n + 1 /\ top <= more[i].to
             /\ i # n + 1 => i \in Ups(legs) /\ more[i] = legs[i]
             /\ i = n + 1 => leg.kind = "up" /\ more[i] = leg
  <2>1. i \in 1 .. n + 1 /\ more[i].kind = "up"
    BY <1>2 DEF Ups
  <2>2. CASE i = n + 1
    <3>1. more[i] = leg /\ leg.kind = "up"
      BY <1>2, <2>1, <2>2
    <3>2. leg.to \in Int
      BY DEF PathLeg
    <3> QED BY <2>1, <2>2, <3>1, <3>2
  <2>3. CASE i # n + 1
    <3>1. i \in 1 .. n
      BY <1>1, <2>1, <2>3
    <3>2. more[i] = legs[i] /\ i \in Ups(legs)
      BY <1>1, <1>2, <2>1, <3>1 DEF Ups
    <3>3. high <= legs[i].to
      BY <3>2 DEF Good
    <3>4. legs[i] \in PathLeg
      BY <1>1, <3>1, ElementOfSeq DEF n
    <3>5. legs[i].to \in Int /\ leg.to \in Int /\ leg.kind \in {"up", "down"}
      BY <3>4 DEF PathLeg
    <3>6. top <= high
      BY <1>1, <3>5
    <3>7. top <= legs[i].to
      BY <1>1, <3>3, <3>5, <3>6
    <3> QED BY <2>1, <2>3, <3>2, <3>7
  <2> QED BY <2>2, <2>3
<1>6. ASSUME NEW i \in Ups(more), NEW j \in Ups(more), i < j
      PROVE  more[j].to <= more[i].to - PerDollar
  <2>1. i \in 1 .. n + 1 /\ j \in 1 .. n + 1 /\ i # n + 1
    BY <1>1, <1>5, <1>6
  <2>2. i \in Ups(legs) /\ more[i] = legs[i] /\ i \in 1 .. n
    BY <1>1, <1>5, <2>1
  <2>3. CASE j = n + 1
    <3>1. more[j] = leg /\ leg.kind = "up"
      BY <1>5, <2>3
    <3>2. legs[i] \in PathLeg /\ high <= legs[i].to
      BY <1>1, <2>2, ElementOfSeq DEF Good, n
    <3>3. legs[i].to \in Int /\ leg.to \in Int
      BY <3>2 DEF PathLeg
    <3> QED BY <1>1, <2>2, <3>1, <3>2, <3>3
  <2>4. CASE j # n + 1
    <3>1. j \in Ups(legs) /\ more[j] = legs[j]
      BY <1>5, <2>4
    <3> QED BY <1>6, <2>2, <3>1 DEF Good
  <2> QED BY <2>3, <2>4
<1>7. leg.to \in Int
  BY DEF PathLeg
<1>8. \A i \in Ups(more) : top <= more[i].to
  BY <1>5
<1> QED BY <1>2, <1>4, <1>6, <1>7, <1>8 DEF Good, more

\* The bounce stays a dollar under the last high, and ends under the floor it starts from
\* only where the two are less than a dollar apart.
LEMMA BounceBetween ==
    ASSUME NEW sells \in SUBSET Int, IsFiniteSet(sells),
           NEW floors \in SUBSET Int, IsFiniteSet(floors),
           NEW floor \in Int, NEW lastHigh \in Int
    PROVE  /\ BounceHigh(sells, floors, floor, lastHigh) \in Int
           /\ BounceHigh(sells, floors, floor, lastHigh) <= lastHigh - PerDollar
           /\ lastHigh >= floor + PerDollar => BounceHigh(sells, floors, floor, lastHigh) >= floor
<1> DEFINE between == {l \in sells \cup floors : floor < l /\ l < lastHigh}
           level == IF between = {} THEN (floor + lastHigh) \div 2 ELSE Max(between)
<1>0. PerDollar \in Nat \ {0}
  BY MapAssumption
<1>1. BounceHigh(sells, floors, floor, lastHigh) = Min({level, lastHigh - PerDollar})
  BY DEF BounceHigh
<1>2. level \in Int /\ (lastHigh > floor => level >= floor)
  <2>1. CASE between = {}
    <3>1. level = (floor + lastHigh) \div 2
      BY <2>1
    <3> HIDE DEF level
    <3> QED BY <3>1
  <2>2. CASE between # {}
    <3>1. between \in SUBSET Int /\ IsFiniteSet(between)
      <4>1. between \in SUBSET (sells \cup floors) /\ IsFiniteSet(sells \cup floors)
        BY FS_Union
      <4>2. between \in SUBSET Int
        OBVIOUS
      <4> HIDE DEF between
      <4> QED BY <4>1, <4>2, FS_Subset
    <3>2. Top(between) \in between
      <4> HIDE DEF between
      <4> QED BY <2>2, <3>1, TopIn
    <3>3. level = Top(between)
      BY <2>2 DEF Top
    <3>4. Top(between) \in Int /\ floor < Top(between)
      BY <3>2
    <3> HIDE DEF level
    <3> QED BY <3>3, <3>4
  <2> QED BY <2>1, <2>2
<1> HIDE DEF level
<1>3. PICK low \in Int : low = lastHigh - PerDollar
  BY <1>0
<1>4. Min({level, low}) = IF level <= low THEN level ELSE low
  BY <1>2, LeastOfTwo
<1> QED BY <1>0, <1>1, <1>2, <1>3, <1>4

\* The floors ahead and the target, from the top.
LEMMA StepsDown ==
    ASSUME NEW floors \in SUBSET Int, IsFiniteSet(floors), NEW price \in Int, NEW tp \in Int,
           tp < price,
           NEW ahead, ahead = {f \in floors : f < price /\ f > tp} \cup {tp},
           NEW n, n = Cardinality(ahead), NEW steps, steps = Descending(ahead)
    PROVE  /\ n \in Nat \ {0} /\ steps \in [1 .. n -> Int]
           /\ \A k \in 1 .. n : tp <= steps[k] /\ steps[k] < price /\ (steps[k] = tp <=> k = n)
           /\ \A j, k \in 1 .. n : j < k => steps[j] > steps[k]
<1>1. ahead \in SUBSET Int /\ IsFiniteSet(ahead)
  <2> DEFINE between == {f \in floors : f < price /\ f > tp}
  <2>1. IsFiniteSet(between) /\ IsFiniteSet({tp}) /\ between \in SUBSET Int
    <3>1. between \in SUBSET floors
      OBVIOUS
    <3> HIDE DEF between
    <3> QED BY <3>1, FS_Subset, FS_Singleton
  <2>2. ahead = between \cup {tp}
    OBVIOUS
  <2> HIDE DEF between
  <2> QED BY <2>1, <2>2, FS_Union
<1>2. /\ n \in Nat /\ steps \in [1 .. n -> ahead]
      /\ \A x \in ahead : \E k \in 1 .. n : steps[k] = x
      /\ \A j, k \in 1 .. n : j < k <=> steps[j] > steps[k]
  BY <1>1, DescendingFalls
<1>3. \A x \in ahead : x \in Int /\ tp <= x /\ x < price
  OBVIOUS
<1>4. tp \in ahead
  OBVIOUS
<1>5. PICK last \in 1 .. n : steps[last] = tp
  BY <1>2, <1>4
<1>6. \A k \in 1 .. n : steps[k] \in Int /\ tp <= steps[k] /\ steps[k] < price
  BY <1>2, <1>3
<1>7. n \in 1 .. n /\ n # 0
  BY <1>2, <1>5
<1>8. last = n
  <2>1. ~(last < n)
    <3>1. ~(steps[last] > steps[n])
      BY <1>5, <1>6, <1>7
    <3> QED BY <1>2, <1>7, <3>1
  <2> QED BY <1>2, <2>1
<1>9. ASSUME NEW k \in 1 .. n, steps[k] = tp PROVE k = n
  <2>1. ~(k < n)
    <3>1. ~(steps[k] > steps[n])
      BY <1>5, <1>6, <1>8, <1>9
    <3> QED BY <1>2, <1>7, <3>1
  <2> QED BY <1>2, <2>1
<1>10. steps \in [1 .. n -> Int]
  BY <1>2, <1>6
<1> QED BY <1>2, <1>5, <1>6, <1>7, <1>8, <1>9, <1>10

\* Where the walk stands after k floors of n.
Walked(k, n, s, steps, tp, price, start, right) ==
    /\ Good(s.legs, s.cur, s.high, right)
    /\ k < n => s.cur = s.high /\ (right => s.high >= steps[k + 1] + PerDollar)
    /\ k = n => s.cur = tp /\ s.legs # <<>>
    /\ k = 0 => s = start
    /\ k # 0 => \/ start.legs = <<>> /\ s.legs # <<>> /\ s.legs[1] = Leg("down", start.high, steps[1])
                \/ start.legs # <<>> /\ Len(s.legs) >= 2
                   /\ s.legs[1].kind = "up" /\ s.legs[1].to = start.high
                   /\ s.legs[2].to = steps[1]

PathState == [cur : Int, high : Int, legs : Seq(PathLeg)]

PathStart(sells, price, start) ==
    \/ start = [cur |-> price, high |-> price, legs |-> <<>>]
    \/ \E lh \in sells : start = [cur |-> lh, high |-> lh, legs |-> <<Leg("up", price, lh)>>]

PathWalk(sells, floors, tp, s, f) ==
    LET down == Append(s.legs, Leg("down", s.cur, f))
        high == BounceHigh(sells, floors, f, s.high)
    IN  IF f <= tp THEN [s EXCEPT !.cur = f, !.legs = down]
        ELSE [cur |-> high, high |-> high, legs |-> Append(down, Leg("up", f, high))]

\* The first two legs stay what they are.
LEMMA Opens ==
    ASSUME NEW legs \in Seq(PathLeg), NEW leg \in PathLeg
    PROVE  /\ Append(legs, leg) \in Seq(PathLeg) /\ Append(legs, leg) # <<>>
           /\ Len(Append(legs, leg)) = Len(legs) + 1 /\ Len(legs) \in Nat
           /\ legs = <<>> => Append(legs, leg)[1] = leg
           /\ legs # <<>> => Len(legs) >= 1 /\ Append(legs, leg)[1] = legs[1]
           /\ Len(legs) = 1 => Append(legs, leg)[2] = leg
           /\ Len(legs) >= 2 => Append(legs, leg)[2] = legs[2]
<1>1. /\ Append(legs, leg) \in Seq(PathLeg) /\ Len(Append(legs, leg)) = Len(legs) + 1
      /\ \A i \in 1 .. Len(legs) : Append(legs, leg)[i] = legs[i]
      /\ Append(legs, leg)[Len(legs) + 1] = leg
  BY AppendProperties
<1>2. Len(legs) \in Nat /\ (legs = <<>> <=> Len(legs) = 0)
  BY LenProperties, EmptySeq
<1>3. Append(legs, leg) # <<>>
  BY <1>1, <1>2, EmptySeq
<1>4. PICK n \in Nat : n = Len(legs)
  BY <1>2
<1>5. PICK new : new = Append(legs, leg)
  OBVIOUS
<1>6. /\ n = 0 => new[1] = leg
      /\ n # 0 => n >= 1 /\ new[1] = legs[1]
      /\ n = 1 => new[2] = leg
      /\ n >= 2 => new[2] = legs[2]
  <2>1. new[n + 1] = leg /\ \A i \in 1 .. n : new[i] = legs[i]
    BY <1>1, <1>4, <1>5
  <2> QED BY <2>1
<1> QED BY <1>1, <1>2, <1>3, <1>4, <1>5, <1>6

Falls(steps, n, tp) ==
    /\ steps \in [1 .. n -> Int]
    /\ \A k \in 1 .. n : tp <= steps[k] /\ (steps[k] = tp <=> k = n)
    /\ \A j, k \in 1 .. n : j < k => steps[j] > steps[k]

\* The stops are a dollar apart.
Spaced(steps, n) == \A j, k \in 1 .. n : j < k => steps[k] <= steps[j] - PerDollar

LEMMA WalkStep ==
    ASSUME NEW sells \in SUBSET Int, IsFiniteSet(sells),
           NEW floors \in SUBSET Int, IsFiniteSet(floors),
           NEW price \in Int, NEW tp \in Int, NEW n \in Nat \ {0}, NEW steps, Falls(steps, n, tp),
           NEW start, PathStart(sells, price, start),
           NEW right \in BOOLEAN, right => Spaced(steps, n),
           NEW k \in 1 .. n, NEW s \in PathState,
           Walked(k - 1, n, s, steps, tp, price, start, right)
    PROVE  Walked(k, n, PathWalk(sells, floors, tp, s, steps[k]), steps, tp, price, start, right)
<1> DEFINE f    == steps[k]
           leg1 == Leg("down", s.cur, f)
           down == Append(s.legs, leg1)
           high == BounceHigh(sells, floors, f, s.high)
           leg2 == Leg("up", f, high)
           w    == PathWalk(sells, floors, tp, s, f)
<1>0. PerDollar \in Nat \ {0}
  BY MapAssumption
<1>1. s.legs \in Seq(PathLeg) /\ s.cur \in Int /\ s.high \in Int /\ f \in Int
  BY DEF PathState, Falls
<1>2. s.cur = s.high /\ (right => s.high >= f + PerDollar) /\ Good(s.legs, s.cur, s.high, right)
  <2>1. k - 1 < n /\ (k - 1) + 1 = k
    OBVIOUS
  <2> QED BY <2>1 DEF Walked
<1>3. /\ leg1 \in PathLeg /\ leg1.kind = "down" /\ leg1.from = s.cur /\ leg1.to = f
      /\ (right => Runs(leg1))
  <2> HIDE DEF f
  <2> QED BY <1>0, <1>1, <1>2 DEF Leg, PathLeg, Runs
<1>4. Good(down, f, s.high, right)
  <2> HIDE DEF leg1, f
  <2> QED BY <1>1, <1>2, <1>3, NextLeg
<1>5. high \in Int /\ high <= s.high - PerDollar /\ (s.high >= f + PerDollar => high >= f)
  <2> HIDE DEF f
  <2> QED BY <1>1, BounceBetween
<1>6. /\ leg2 \in PathLeg /\ leg2.kind = "up" /\ leg2.from = f /\ leg2.to = high
      /\ (right => Runs(leg2))
  <2> HIDE DEF f, high
  <2> QED BY <1>1, <1>2, <1>5 DEF Leg, PathLeg, Runs
<1>7. Good(Append(down, leg2), high, high, right)
  <2> HIDE DEF leg2, f, down, high
  <2> QED BY <1>1, <1>4, <1>5, <1>6, NextLeg
<1>8. /\ down \in Seq(PathLeg) /\ down # <<>> /\ Len(down) = Len(s.legs) + 1
      /\ Len(s.legs) \in Nat
      /\ s.legs = <<>> => down[1] = leg1
      /\ s.legs # <<>> => Len(s.legs) >= 1 /\ down[1] = s.legs[1]
      /\ Len(s.legs) = 1 => down[2] = leg1
      /\ Len(s.legs) >= 2 => down[2] = s.legs[2]
  <2> HIDE DEF leg1
  <2> QED BY <1>1, <1>3, Opens
<1> DEFINE Opening(legs) == \/ start.legs = <<>> /\ legs # <<>> /\ legs[1] = Leg("down", start.high, steps[1])
                            \/ start.legs # <<>> /\ Len(legs) >= 2
                               /\ legs[1].kind = "up" /\ legs[1].to = start.high
                               /\ legs[2].to = steps[1]
<1>9. Opening(down)
  <2>1. CASE k = 1
    <3>1. s = start /\ f = steps[1]
      BY <2>1 DEF Walked
    <3> HIDE DEF leg1, down, f
    <3>2. CASE start = [cur |-> price, high |-> price, legs |-> <<>>]
      <4>1. s.legs = <<>> /\ start.legs = <<>>
        BY <3>1, <3>2
      <4>2. leg1 = Leg("down", start.high, steps[1])
        BY <1>2, <3>1 DEF leg1, f
      <4> QED BY <1>8, <4>1, <4>2
    <3>3. ASSUME NEW lh \in sells,
                 start = [cur |-> lh, high |-> lh, legs |-> <<Leg("up", price, lh)>>]
          PROVE  Opening(down)
      <4>1. s.legs = <<Leg("up", price, lh)>> /\ start.high = lh /\ start.legs = s.legs
        BY <3>1, <3>3
      <4>2. Len(s.legs) = 1 /\ s.legs[1].kind = "up" /\ s.legs[1].to = lh
        BY <4>1 DEF Leg
      <4>3. s.legs # <<>>
        BY <4>2
      <4> QED BY <1>3, <1>8, <3>1, <4>1, <4>2, <4>3
    <3> QED BY <3>2, <3>3 DEF PathStart
  <2>2. CASE k # 1
    <3>1. Opening(s.legs)
      BY <2>2 DEF Walked
    <3>2. CASE start.legs = <<>> /\ s.legs # <<>> /\ s.legs[1] = Leg("down", start.high, steps[1])
      <4> HIDE DEF leg1, down
      <4> QED BY <1>8, <3>2
    <3>3. CASE start.legs # <<>> /\ Len(s.legs) >= 2
               /\ s.legs[1].kind = "up" /\ s.legs[1].to = start.high
               /\ s.legs[2].to = steps[1]
      <4>1. s.legs # <<>>
        BY <3>3, EmptySeq
      <4> HIDE DEF leg1, down
      <4> QED BY <1>8, <3>3, <4>1
    <3> QED BY <3>1, <3>2, <3>3
  <2> QED BY <2>1, <2>2
<1>10. k # 0 /\ k \in Int /\ n \in Int
  OBVIOUS
<1>11. CASE k = n
  <2>1. f = tp
    BY <1>11 DEF Falls
  <2>2. w = [s EXCEPT !.cur = f, !.legs = down]
    BY <1>1, <2>1 DEF PathWalk
  <2>3. w.cur = f /\ w.legs = down /\ w.high = s.high
    BY <2>2 DEF PathState
  <2>4. Walked(k, n, w, steps, tp, price, start, right)
    <3> HIDE DEF w, down, f
    <3> QED BY <1>4, <1>8, <1>9, <1>10, <1>11, <2>1, <2>3 DEF Walked
  <2> QED BY <2>4
<1>12. CASE k # n
  <2>1. k + 1 \in 1 .. n /\ k < k + 1 /\ k < n
    BY <1>12
  <2>2. ~(f <= tp) /\ f > steps[k + 1] /\ steps[k + 1] \in Int
    BY <1>1, <1>12, <2>1 DEF Falls
  <2>3. w = [cur |-> high, high |-> high, legs |-> Append(down, leg2)]
    BY <2>2 DEF PathWalk
  <2>4. w.cur = high /\ w.high = high /\ w.legs = Append(down, leg2)
    BY <2>3
  <2>5. right => high >= steps[k + 1] + PerDollar
    <3>1. right => steps[k + 1] <= f - PerDollar
      BY <2>1 DEF Spaced
    <3> HIDE DEF f, high
    <3> QED BY <1>0, <1>1, <1>2, <1>5, <2>2, <3>1
  <2>6. Opening(Append(down, leg2))
    <3> HIDE DEF leg2, down
    <3>1. /\ Append(down, leg2) # <<>> /\ Len(Append(down, leg2)) = Len(down) + 1
          /\ Len(down) \in Nat
          /\ Append(down, leg2)[1] = down[1]
          /\ Len(down) >= 2 => Append(down, leg2)[2] = down[2]
      BY <1>6, <1>8, Opens
    <3> QED BY <1>9, <3>1
  <2>7. Append(down, leg2) # <<>>
    <3> HIDE DEF leg2, down
    <3> QED BY <1>6, <1>8, Opens
  <2>8. Walked(k, n, w, steps, tp, price, start, right)
    <3> HIDE DEF w, down, leg2, high, f
    <3> QED BY <1>7, <1>10, <1>12, <2>1, <2>4, <2>5, <2>6, <2>7 DEF Walked
  <2> QED BY <2>8
<1> QED BY <1>11, <1>12

LEMMA WalkTyped ==
    ASSUME NEW sells \in SUBSET Int, IsFiniteSet(sells),
           NEW floors \in SUBSET Int, IsFiniteSet(floors),
           NEW tp \in Int, NEW f \in Int, NEW s \in PathState
    PROVE  PathWalk(sells, floors, tp, s, f) \in PathState
<1> DEFINE leg1 == Leg("down", s.cur, f)
           down == Append(s.legs, leg1)
           high == BounceHigh(sells, floors, f, s.high)
           leg2 == Leg("up", f, high)
<1>1. s.legs \in Seq(PathLeg) /\ s.cur \in Int /\ s.high \in Int
  BY DEF PathState
<1>2. high \in Int
  BY <1>1, BounceBetween
<1> HIDE DEF high
<1>3. leg1 \in PathLeg /\ leg2 \in PathLeg
  BY <1>1, <1>2 DEF Leg, PathLeg
<1>4. down \in Seq(PathLeg) /\ Append(down, leg2) \in Seq(PathLeg)
  <2> HIDE DEF leg1, leg2
  <2>1. down \in Seq(PathLeg)
    BY <1>1, <1>3, AppendProperties
  <2> HIDE DEF down
  <2> QED BY <1>3, <2>1, AppendProperties
<1>5. CASE f <= tp
  <2>1. PathWalk(sells, floors, tp, s, f) = [s EXCEPT !.cur = f, !.legs = down]
    BY <1>5 DEF PathWalk
  <2> HIDE DEF down
  <2> QED BY <1>4, <2>1 DEF PathState
<1>6. CASE ~(f <= tp)
  <2>1. PathWalk(sells, floors, tp, s, f)
           = [cur |-> high, high |-> high, legs |-> Append(down, leg2)]
    BY <1>6 DEF PathWalk, high
  <2> HIDE DEF down, leg2
  <2> QED BY <1>2, <1>4, <2>1 DEF PathState
<1> QED BY <1>5, <1>6

\* The staircase as it is read off the map.
FirstFall(legs) == IF legs[1].kind = "down" THEN legs[1].from - legs[1].to
                                            ELSE legs[1].to - legs[2].to
StopsAhead(floors, price, tp) == {f \in floors : f < price /\ f > tp} \cup {tp}
Staircase(legs, stops, tp) ==
    /\ legs[Len(legs)].to = tp
    /\ \A i \in 2 .. Len(legs) : legs[i].from = legs[i - 1].to
    /\ \A i, j \in Ups(legs) : i < j => legs[j].to <= legs[i].to - PerDollar
    /\ FirstFall(legs) >= PerDollar /\ (\A f, g \in stops : f < g => f <= g - PerDollar)
       => \A i \in 2 .. Len(legs) : Runs(legs[i])

LEMMA PathDescends ==
    ASSUME NEW sells \in SUBSET Int, IsFiniteSet(sells),
           NEW floors \in SUBSET Int, IsFiniteSet(floors),
           NEW price \in Int, NEW tp \in Int, tp < price
    PROVE  Staircase(SellPath(sells, floors, price, tp), StopsAhead(floors, price, tp), tp)
<1> DEFINE ahead == {f \in floors : f < price /\ f > tp} \cup {tp}
           n     == Cardinality(ahead)
           steps == Descending(ahead)
           block == Lowest({l \in sells : l >= price - PathSlack})
           start == IF block = {} THEN [cur |-> price, high |-> price, legs |-> <<>>]
                    ELSE LET lh == CHOOSE l \in block : TRUE
                         IN  [cur |-> lh, high |-> lh, legs |-> <<Leg("up", price, lh)>>]
           right == (start.high >= steps[1] + PerDollar /\ Spaced(steps, n))
           T     == PathState
           Walk(s, f) == PathWalk(sells, floors, tp, s, f)
           step  == [p \in (1 .. n) \X T |-> Walk(p[2], steps[p[1]])]
           iter  == CHOOSE h : h = [s \in SUBSET DOMAIN steps |->
                       IF s = {} THEN start ELSE Walk(h[s \ {Max(s)}], steps[Max(s)])]
           J(k)  == Walked(k, n, iter[1 .. k], steps, tp, price, start, right)
<1>1. SellPath(sells, floors, price, tp) = iter[DOMAIN steps].legs
  BY DEF SellPath, FoldLeft, MapThenFoldSet, PathWalk
<1>2. /\ n \in Nat \ {0} /\ steps \in [1 .. n -> Int]
      /\ \A k \in 1 .. n : tp <= steps[k] /\ steps[k] < price /\ (steps[k] = tp <=> k = n)
      /\ \A j, k \in 1 .. n : j < k => steps[j] > steps[k]
  BY StepsDown
<1>3. PathStart(sells, price, start) /\ start \in T
  <2>1. CASE block = {}
    <3>1. start = [cur |-> price, high |-> price, legs |-> <<>>]
      BY <2>1
    <3>2. <<>> \in Seq(PathLeg)
      BY EmptySeq
    <3> HIDE DEF start
    <3> QED BY <3>1, <3>2 DEF PathStart, PathState
  <2>2. CASE block # {}
    <3>1. PICK lh : lh = CHOOSE l \in block : TRUE
      OBVIOUS
    <3>2. lh \in sells /\ lh \in Int
      <4>1. lh \in block
        BY <2>2, <3>1
      <4> QED BY <4>1 DEF Lowest
    <3>3. start = [cur |-> lh, high |-> lh, legs |-> <<Leg("up", price, lh)>>]
      BY <2>2, <3>1
    <3>4. <<Leg("up", price, lh)>> \in Seq(PathLeg)
      BY <3>2 DEF Leg, PathLeg
    <3> HIDE DEF start
    <3> QED BY <3>2, <3>3, <3>4 DEF PathStart, PathState
  <2> QED BY <2>1, <2>2
<1>21. \A k \in 1 .. n : steps[k] \in ahead
  <2>1. ahead \in SUBSET Int /\ IsFiniteSet(ahead)
    <3> DEFINE between == {f \in floors : f < price /\ f > tp}
    <3>1. between \in SUBSET floors
      OBVIOUS
    <3>2. IsFiniteSet(between) /\ IsFiniteSet({tp})
      <4> HIDE DEF between
      <4> QED BY <3>1, FS_Subset, FS_Singleton
    <3>3. ahead = between \cup {tp} /\ ahead \in SUBSET Int
      OBVIOUS
    <3> HIDE DEF between, ahead
    <3> QED BY <3>2, <3>3, FS_Union
  <2> HIDE DEF ahead
  <2> QED BY <2>1, DescendingFalls
<1> HIDE DEF ahead, n, steps, block, start
<1>4. right \in BOOLEAN
  OBVIOUS
<1>5. Walked(0, n, start, steps, tp, price, start, right)
  <2>1. Good(start.legs, start.cur, start.high, right)
    <3>1. CASE start = [cur |-> price, high |-> price, legs |-> <<>>]
      BY <1>4, <3>1, NoLegs
    <3>2. ASSUME NEW lh \in sells,
                 start = [cur |-> lh, high |-> lh, legs |-> <<Leg("up", price, lh)>>]
          PROVE  Good(start.legs, start.cur, start.high, right)
      <4> DEFINE leg == Leg("up", price, lh)
      <4>1. leg \in PathLeg /\ leg.kind = "up" /\ leg.from = price /\ leg.to = lh
        BY DEF Leg, PathLeg
      <4> HIDE DEF leg, right
      <4>6. lh + PerDollar \in Int /\ lh <= (lh + PerDollar) - PerDollar
        BY MapAssumption
      <4>2. Good(<<>>, price, lh + PerDollar, right)
        BY <4>6, NoLegs
      <4>3. Good(Append(<<>>, leg), lh, lh, right)
        BY <4>1, <4>2, <4>6, NextLeg
      <4>4. Append(<<>>, leg) = <<leg>>
        OBVIOUS
      <4>5. start.legs = <<leg>> /\ start.cur = lh /\ start.high = lh
        BY <3>2 DEF leg
      <4> QED BY <4>3, <4>4, <4>5
    <3> QED BY <1>3, <3>1, <3>2 DEF PathStart
  <2>2. start.cur = start.high
    BY <1>3 DEF PathStart
  <2>3. 0 # n /\ 0 + 1 = 1 /\ (right => start.high >= steps[1] + PerDollar)
    BY <1>2
  <2> HIDE DEF right
  <2> QED BY <2>1, <2>2, <2>3 DEF Walked
<1> HIDE DEF iter, T, Walk
<1>6. ASSUME NEW s \in T, NEW k \in 1 .. n PROVE Walk(s, steps[k]) \in T
  BY <1>2, <1>6, WalkTyped DEF T, Walk
<1>7. step \in [(1 .. n) \X T -> T]
  BY <1>6
<1>8. \A k \in 1 .. n : \A t \in T : step[<<k, t>>] = Walk(t, steps[k])
  OBVIOUS
<1> HIDE DEF step
<1>9. PICK g \in [SUBSET (1 .. n) -> T] : Steps(g, step, start, SUBSET (1 .. n))
  BY <1>2, <1>3, <1>7, StepsExist
<1>10. \A s \in SUBSET (1 .. n) :
         (IF s = {} THEN start ELSE step[<<Top(s), g[s \ {Top(s)}]>>])
         = IF s = {} THEN start ELSE Walk(g[s \ {Max(s)}], steps[Max(s)])
  <2>1. ASSUME NEW s \in SUBSET (1 .. n), s # {}
        PROVE  Top(s) \in 1 .. n /\ g[s \ {Top(s)}] \in T
    <3>1. Top(s) \in s /\ s \ {Top(s)} \in SUBSET (1 .. n)
      BY <1>2, <2>1, TopLast
    <3> QED BY <3>1
  <2>2. ASSUME NEW s \in SUBSET (1 .. n), s # {}
        PROVE  step[<<Top(s), g[s \ {Top(s)}]>>] = Walk(g[s \ {Max(s)}], steps[Max(s)])
    BY <1>8, <2>1, <2>2 DEF Top
  <2> QED BY <2>2
<1>11. DOMAIN steps = 1 .. n
  BY <1>2
<1>12. g = [s \in SUBSET DOMAIN steps |->
             IF s = {} THEN start ELSE Walk(g[s \ {Max(s)}], steps[Max(s)])]
  <2>1. g = [s \in SUBSET (1 .. n) |-> IF s = {} THEN start ELSE step[<<Top(s), g[s \ {Top(s)}]>>]]
    BY <1>9 DEF Steps
  <2> QED BY <1>10, <1>11, <2>1
<1>13. iter = [s \in SUBSET DOMAIN steps |->
             IF s = {} THEN start ELSE Walk(iter[s \ {Max(s)}], steps[Max(s)])]
  BY <1>12 DEF iter
<1>14. \A s \in SUBSET (1 .. n) :
          iter[s] = IF s = {} THEN start ELSE Walk(iter[s \ {Max(s)}], steps[Max(s)])
  BY <1>11, <1>13
<1> HIDE DEF right
<1> DEFINE B == {k \in 0 .. n : iter[1 .. k] \in T /\ J(k)}
<1>15. 0 \in B
  <2>1. 1 .. 0 = {} /\ {} \in SUBSET (1 .. n)
    OBVIOUS
  <2>2. iter[1 .. 0] = start
    BY <1>14, <2>1
  <2>3. 0 \in 0 .. n
    BY <1>2
  <2> QED BY <1>3, <1>5, <2>2, <2>3
<1>16. \A k \in 1 .. n : k - 1 \in B => k \in B
  <2> SUFFICES ASSUME NEW k \in 1 .. n, k - 1 \in B PROVE k \in B
    OBVIOUS
  <2>1. iter[1 .. k] = Walk(iter[1 .. k - 1], steps[k])
    BY <1>2, <1>14, TopOfPrefix
  <2>2. PICK s \in T : s = iter[1 .. k - 1]
    OBVIOUS
  <2>3. Walked(k - 1, n, s, steps, tp, price, start, right)
    BY <2>2
  <2>4. Walked(k, n, Walk(s, steps[k]), steps, tp, price, start, right)
    <3>1. Falls(steps, n, tp) /\ n \in Nat \ {0} /\ (right => Spaced(steps, n))
      BY <1>2 DEF Falls, right
    <3>2. s \in PathState
      BY DEF T
    <3>3. Walked(k, n, PathWalk(sells, floors, tp, s, steps[k]), steps, tp, price, start, right)
      <4> HIDE DEF B
      <4> QED BY <1>3, <1>4, <2>3, <3>1, <3>2, WalkStep
    <3> QED BY <3>3 DEF Walk
  <2>5. Walk(s, steps[k]) \in T
    BY <1>6
  <2>6. iter[1 .. k] = Walk(s, steps[k])
    BY <2>1, <2>2
  <2> QED BY <2>4, <2>5, <2>6
<1>17. iter[1 .. n] \in T /\ J(n)
  <2>1. 0 .. n \subseteq B
    <3> HIDE DEF B
    <3> QED BY <1>2, <1>15, <1>16, Upwards
  <2> QED BY <1>2, <2>1
<1> DEFINE legs == SellPath(sells, floors, price, tp)
           s    == iter[1 .. n]
<1>18. legs = s.legs /\ n # 0 /\ ~(n < n) /\ Walked(n, n, s, steps, tp, price, start, right)
  BY <1>1, <1>2, <1>11, <1>17
<1> HIDE DEF legs, s
<1>19. legs # <<>> /\ Good(legs, tp, s.high, right)
  BY <1>18 DEF Walked
<1>20. FirstFall(legs) >= PerDollar /\ (\A lo, hi \in ahead : lo < hi => lo <= hi - PerDollar) => right
  <2> SUFFICES ASSUME FirstFall(legs) >= PerDollar, \A lo, hi \in ahead : lo < hi => lo <= hi - PerDollar
               PROVE  right
    OBVIOUS
  <2>0. Spaced(steps, n) /\ PerDollar \in Nat /\ steps[1] \in Int
    <3>1. \A k \in 1 .. n : steps[k] \in ahead
      BY <1>21
    <3> QED BY <1>2, <3>1, MapAssumption DEF Spaced
  <2>1. CASE start = [cur |-> price, high |-> price, legs |-> <<>>]
    <3>1. start.high = price /\ start.legs = <<>>
      BY <2>1
    <3>2. legs[1] = Leg("down", price, steps[1])
      BY <1>18, <3>1 DEF Walked
    <3>3. FirstFall(legs) = price - steps[1]
      BY <3>2 DEF FirstFall, Leg
    <3> QED BY <2>0, <3>1, <3>3 DEF right
  <2>2. ASSUME NEW lh \in sells,
               start = [cur |-> lh, high |-> lh, legs |-> <<Leg("up", price, lh)>>]
        PROVE  right
    <3>1. start.legs # <<>> /\ start.high = lh
      BY <2>2
    <3>2. legs[1].kind = "up" /\ legs[1].to = start.high /\ legs[2].to = steps[1]
      BY <1>18, <3>1 DEF Walked
    <3>3. FirstFall(legs) = lh - steps[1]
      BY <3>1, <3>2 DEF FirstFall
    <3>4. lh \in Int
      OBVIOUS
    <3> QED BY <2>0, <3>1, <3>3, <3>4 DEF right
  <2> QED BY <1>3, <2>1, <2>2 DEF PathStart
<1> QED BY <1>19, <1>20 DEF Good, Staircase, StopsAhead, legs, ahead

-----------------------------------------------------------------------------
(* The map.                                                                 *)

Levels(S) == S \in SUBSET Int /\ IsFiniteSet(S)

MapOK(m) == Levels(m.sells) /\ Levels(m.floors) /\ m.tp \in Int

MapInv == feed \in Seq(Candles) /\ MapOK(map)

LEMMA DivBounds ==
    ASSUME NEW a \in Nat, NEW p \in Nat \ {0}
    PROVE  /\ a \div p \in Nat /\ p * (a \div p) \in Nat
           /\ p * (a \div p) <= a /\ a < p * (a \div p) + p
OBVIOUS

\* However the days were turned around, what is fetched are candles that printed.
LEMMA FetchType ==
    ASSUME NEW bars \in Seq(Candles)
    PROVE  FetchOhlc(bars) \in Seq(Candles) /\ Len(FetchOhlc(bars)) = Len(bars)
<1>1. Len(bars) \in Nat /\ DOMAIN bars = 1 .. Len(bars)
  BY LenProperties
<1> DEFINE first(n) == PerDay * Day(n) + 1
           last(n)  == Min({Len(bars), first(n) + PerDay - 1})
           out      == FetchOhlc(bars)
<1>2. ASSUME NEW n \in 1 .. Len(bars)
      PROVE  first(n) + last(n) - n \in 1 .. Len(bars)
  <2>1. PICK q : q = PerDay * Day(n)
    OBVIOUS
  <2>2. q \in Nat /\ q <= n - 1 /\ n - 1 < q + PerDay
    <3>1. n - 1 \in Nat /\ PerDay \in Nat \ {0}
      BY DeskAssumption
    <3> QED BY <2>1, <3>1, DivBounds DEF Day
  <2>3. first(n) = q + 1 /\ PerDay \in Nat
    BY <2>1, DeskAssumption
  <2>4. last(n) = IF Len(bars) <= q + PerDay THEN Len(bars) ELSE q + PerDay
    <3>1. first(n) + PerDay - 1 = q + PerDay /\ q + PerDay \in Int
      BY <2>2, <2>3
    <3> HIDE DEF first
    <3> QED BY <1>1, <3>1, LeastOfTwo
  <2> HIDE DEF first, last
  <2>5. n \in Int /\ 1 <= n /\ n <= Len(bars) /\ q + 1 <= n /\ n <= q + PerDay
    BY <1>1, <2>2, <2>3
  <2>6. CASE Len(bars) <= q + PerDay
    <3>1. first(n) + last(n) - n = (q + 1) + Len(bars) - n
      BY <2>3, <2>4, <2>6
    <3> QED BY <1>1, <2>2, <2>5, <3>1
  <2>7. CASE ~(Len(bars) <= q + PerDay)
    <3>1. first(n) + last(n) - n = (q + 1) + (q + PerDay) - n
      BY <2>3, <2>4, <2>7
    <3> QED BY <1>1, <2>2, <2>3, <2>5, <2>7, <3>1
  <2> QED BY <2>6, <2>7
<1>3. out = [n \in 1 .. Len(bars) |-> bars[first(n) + last(n) - n]]
  BY <1>1 DEF FetchOhlc
<1>4. \A n \in 1 .. Len(bars) : bars[first(n) + last(n) - n] \in Candles
  <2> HIDE DEF first, last
  <2> QED BY <1>1, <1>2, ElementOfSeq
<1> HIDE DEF first, last, out
<1>5. out \in Seq(Candles) /\ Len(out) = Len(bars)
  BY <1>1, <1>3, <1>4
<1> QED BY <1>5 DEF out

\* The prices read off some of the bars.
LEMMA Prices ==
    ASSUME NEW n \in Nat, NEW I \in SUBSET (1 .. n), NEW f, \A i \in 1 .. n : f[i] \in Int
    PROVE  Levels({f[i] : i \in I})
<1>1. IsFiniteSet(I)
  <2>1. IsFiniteSet(1 .. n)
    BY FS_Interval
  <2> QED BY <2>1, FS_Subset
<1> DEFINE P == {f[i] : i \in I}
           g == [i \in I |-> f[i]]
<1>2. g \in Surjection(I, P)
  BY DEF Surjection
<1>3. P \in SUBSET Int
  OBVIOUS
<1> HIDE DEF P, g
<1>4. IsFiniteSet(P)
  BY <1>1, <1>2, FS_Surjection
<1>5. Levels(P)
  BY <1>3, <1>4 DEF Levels
<1> QED BY <1>5 DEF P

LEMMA DedupeType ==
    ASSUME NEW levels \in Seq(Int), NEW tol
    PROVE  Dedupe(levels, tol) \in Seq(Int)
<1> DEFINE n == Len(levels)
           T == Seq(Int)
           Keep(kept, l) == IF \A i \in DOMAIN kept : Apart(kept[i], l) > tol
                              THEN Append(kept, l) ELSE kept
           step == [p \in (1 .. n) \X T |-> Keep(p[2], levels[p[1]])]
           iter == CHOOSE h : h = [s \in SUBSET DOMAIN levels |->
                      IF s = {} THEN <<>> ELSE Keep(h[s \ {Max(s)}], levels[Max(s)])]
<1>1. Dedupe(levels, tol) = iter[DOMAIN levels]
  BY DEF Dedupe, FoldLeft, MapThenFoldSet
<1>2. n \in Nat /\ DOMAIN levels = 1 .. n /\ \A k \in 1 .. n : levels[k] \in Int
  BY LenProperties, ElementOfSeq
<1>3. <<>> \in T
  BY EmptySeq
<1> HIDE DEF n, iter
<1>4. ASSUME NEW s \in T, NEW l \in Int PROVE Keep(s, l) \in T
  BY AppendProperties
<1> HIDE DEF T, Keep
<1>5. step \in [(1 .. n) \X T -> T]
  BY <1>2, <1>4
<1>6. \A k \in 1 .. n : \A t \in T : step[<<k, t>>] = Keep(t, levels[k])
  OBVIOUS
<1> HIDE DEF step
<1>7. PICK g \in [SUBSET (1 .. n) -> T] : Steps(g, step, <<>>, SUBSET (1 .. n))
  BY <1>2, <1>3, <1>5, StepsExist
<1>8. \A s \in SUBSET (1 .. n) :
         (IF s = {} THEN <<>> ELSE step[<<Top(s), g[s \ {Top(s)}]>>])
         = IF s = {} THEN <<>> ELSE Keep(g[s \ {Max(s)}], levels[Max(s)])
  <2>1. ASSUME NEW s \in SUBSET (1 .. n), s # {}
        PROVE  Top(s) \in 1 .. n /\ g[s \ {Top(s)}] \in T
    <3>1. Top(s) \in s /\ s \ {Top(s)} \in SUBSET (1 .. n)
      BY <1>2, <2>1, TopLast
    <3> QED BY <3>1
  <2>2. ASSUME NEW s \in SUBSET (1 .. n), s # {}
        PROVE  step[<<Top(s), g[s \ {Top(s)}]>>] = Keep(g[s \ {Max(s)}], levels[Max(s)])
    BY <1>6, <2>1, <2>2 DEF Top
  <2> QED BY <2>2
<1>9. g = [s \in SUBSET DOMAIN levels |->
             IF s = {} THEN <<>> ELSE Keep(g[s \ {Max(s)}], levels[Max(s)])]
  <2>1. g = [s \in SUBSET (1 .. n) |-> IF s = {} THEN <<>> ELSE step[<<Top(s), g[s \ {Top(s)}]>>]]
    BY <1>7 DEF Steps
  <2> QED BY <1>2, <1>8, <2>1
<1>10. iter = [s \in SUBSET DOMAIN levels |->
             IF s = {} THEN <<>> ELSE Keep(iter[s \ {Max(s)}], levels[Max(s)])]
  BY <1>9 DEF iter
<1>11. \A s \in SUBSET (1 .. n) :
          iter[s] = IF s = {} THEN <<>> ELSE Keep(iter[s \ {Max(s)}], levels[Max(s)])
  BY <1>2, <1>10
<1> DEFINE B == {k \in 0 .. n : iter[1 .. k] \in T}
<1>12. 0 \in B
  <2>1. 1 .. 0 = {} /\ {} \in SUBSET (1 .. n)
    OBVIOUS
  <2>2. iter[1 .. 0] = <<>>
    BY <1>11, <2>1
  <2>3. 0 \in 0 .. n
    BY <1>2
  <2> QED BY <1>3, <2>2, <2>3
<1>13. \A k \in 1 .. n : k - 1 \in B => k \in B
  <2> SUFFICES ASSUME NEW k \in 1 .. n, k - 1 \in B PROVE k \in B
    OBVIOUS
  <2>1. iter[1 .. k] = Keep(iter[1 .. k - 1], levels[k])
    BY <1>2, <1>11, TopOfPrefix
  <2>2. iter[1 .. k - 1] \in T /\ levels[k] \in Int
    BY <1>2
  <2> QED BY <1>4, <2>1, <2>2
<1>14. iter[1 .. n] \in T
  <2>1. 0 .. n \subseteq B
    <3> HIDE DEF B
    <3> QED BY <1>2, <1>12, <1>13, Upwards
  <2> QED BY <1>2, <2>1
<1> QED BY <1>1, <1>2, <1>14 DEF T

\* The nearest of the levels that are kept.
LEMMA NearestType ==
    ASSUME NEW s \in Seq(Int), NEW most \in Nat
    PROVE  SubSeq(s, 1, Min({most, Len(s)})) \in Seq(Int)
<1>1. Len(s) \in Nat
  BY LenProperties
<1>2. Min({most, Len(s)}) = IF most <= Len(s) THEN most ELSE Len(s)
  BY <1>1, LeastOfTwo
<1>3. PICK m \in Nat : m = Min({most, Len(s)}) /\ m <= Len(s)
  BY <1>1, <1>2
<1>4. \A i \in 1 .. m : s[i] \in Int
  BY <1>1, <1>3, ElementOfSeq
<1>5. 1 \in Int /\ m \in Int
  OBVIOUS
<1>6. SubSeq(s, 1, m) \in Seq(Int)
  BY <1>4, <1>5, SubSeqProperties, Zenon
<1> QED BY <1>3, <1>6

LEMMA RangeLevels ==
    ASSUME NEW s \in Seq(Int)
    PROVE  Levels(Range(s))
<1>1. Len(s) \in Nat /\ DOMAIN s = 1 .. Len(s) /\ \A i \in 1 .. Len(s) : s[i] \in Int
  BY LenProperties, ElementOfSeq
<1>2. PICK n \in Nat : n = Len(s)
  BY <1>1
<1>3. PICK I \in SUBSET (1 .. n) : I = DOMAIN s
  BY <1>1, <1>2
<1>4. \A i \in 1 .. n : s[i] \in Int
  BY <1>1, <1>2
<1>5. Levels({s[i] : i \in I})
  BY <1>4, Prices
<1> QED BY <1>3, <1>5 DEF Range

LEMMA SortedType ==
    ASSUME NEW S, Levels(S)
    PROVE  Ascending(S) \in Seq(Int) /\ Descending(S) \in Seq(Int)
<1>1. PICK n \in Nat : Ascending(S) \in [1 .. n -> S] /\ Descending(S) \in [1 .. n -> S]
  BY AscendingRises, DescendingFalls DEF Levels
<1>2. S \subseteq Int
  BY DEF Levels
<1>3. Ascending(S) \in [1 .. n -> Int] /\ Descending(S) \in [1 .. n -> Int]
  BY <1>1, <1>2
<1> QED BY <1>3

LEMMA BlocksType ==
    ASSUME NEW bars \in Seq(Candles), NEW period
    PROVE  \E n \in Nat : \E U, V \in SUBSET (1 .. n) :
              /\ \A j \in 1 .. n : bars[j] \in Candles
              /\ DisplacementBlocks(bars, period)
                    = {[side |-> "short", low |-> bars[j].low, high |-> bars[j].high,
                        mid |-> (bars[j].open + bars[j].high) \div 2] : j \in U}
                      \cup
                      {[side |-> "long", low |-> bars[j].low, high |-> bars[j].high,
                        mid |-> (bars[j].low + bars[j].open) \div 2] : j \in V}
<1> DEFINE n == Len(bars)
           a == Atr(bars, period)
           strong(move) == 10 * move * a.count > 11 * a.sum
           back(i) == Max({1, i - Window + 1})..(i - 1)
           last(S) == {j \in S : \A k \in S : k <= j}
           sell(i) == IF ~strong(bars[i].open - bars[i].close) THEN {}
                      ELSE last({j \in back(i) : bars[j].close > bars[j].open})
           buy(i)  == IF ~strong(bars[i].close - bars[i].open) THEN {}
                      ELSE last({j \in back(i) : bars[j].close < bars[j].open})
           U == UNION {sell(i) : i \in 2 .. n}
           V == UNION {buy(i) : i \in 2 .. n}
<1>1. n \in Nat /\ \A j \in 1 .. n : bars[j] \in Candles
  BY LenProperties, ElementOfSeq
<1>2. ASSUME NEW i \in 2 .. n PROVE back(i) \in SUBSET (1 .. n)
  <2>1. PICK m : m = i - Window + 1
    OBVIOUS
  <2>2. m \in Int
    BY <2>1, SwingAssumption
  <2>3. Min({0 - 1, 0 - m}) \in Int
    BY <2>2, LeastOfTwo
  <2>4. \E x \in {1, m} : \A y \in {1, m} : x >= y
    BY <2>2
  <2>5. Max({1, m}) \in {1, m} /\ \A y \in {1, m} : Max({1, m}) >= y
    BY <2>4 DEF Max
  <2>6. Max({1, m}) \in Int /\ Max({1, m}) >= 1
    BY <2>2, <2>5
  <2> QED BY <1>1, <2>1, <2>6
<1>3. \A i \in 2 .. n : sell(i) \in SUBSET (1 .. n) /\ buy(i) \in SUBSET (1 .. n)
  <2> HIDE DEF n, strong, back
  <2> QED BY <1>2
<1>4. U \in SUBSET (1 .. n) /\ V \in SUBSET (1 .. n)
  <2> HIDE DEF n, sell, buy
  <2> QED BY <1>3
<1>5. DisplacementBlocks(bars, period)
         = {[side |-> "short", low |-> bars[j].low, high |-> bars[j].high,
             mid |-> (bars[j].open + bars[j].high) \div 2] : j \in U}
           \cup
           {[side |-> "long", low |-> bars[j].low, high |-> bars[j].high,
             mid |-> (bars[j].low + bars[j].open) \div 2] : j \in V}
  BY DEF DisplacementBlocks
<1> HIDE DEF U, V, n
<1> QED BY <1>1, <1>4, <1>5

LEMMA MidsType ==
    ASSUME NEW bars \in Seq(Candles), NEW period, NEW Z \in SUBSET DisplacementBlocks(bars, period)
    PROVE  Levels({z.mid : z \in Z})
<1> DEFINE S(j) == [side |-> "short", low |-> bars[j].low, high |-> bars[j].high,
                    mid |-> (bars[j].open + bars[j].high) \div 2]
           L(j) == [side |-> "long", low |-> bars[j].low, high |-> bars[j].high,
                    mid |-> (bars[j].low + bars[j].open) \div 2]
<1>0. PICK n \in Nat : \E U, V \in SUBSET (1 .. n) :
         /\ \A j \in 1 .. n : bars[j] \in Candles
         /\ DisplacementBlocks(bars, period) = {S(j) : j \in U} \cup {L(j) : j \in V}
  BY BlocksType
<1>1. PICK U \in SUBSET (1 .. n), V \in SUBSET (1 .. n) :
         /\ \A j \in 1 .. n : bars[j] \in Candles
         /\ DisplacementBlocks(bars, period) = {S(j) : j \in U} \cup {L(j) : j \in V}
  BY <1>0
<1> DEFINE f == [j \in 1 .. n |-> (bars[j].open + bars[j].high) \div 2]
           g == [j \in 1 .. n |-> (bars[j].low + bars[j].open) \div 2]
           F == {f[j] : j \in U}
           G == {g[j] : j \in V}
           M == {z.mid : z \in Z}
<1>2. \A j \in 1 .. n : f[j] \in Int /\ g[j] \in Int
  <2> SUFFICES ASSUME NEW j \in 1 .. n PROVE f[j] \in Int /\ g[j] \in Int
    OBVIOUS
  <2>1. bars[j].open \in Int /\ bars[j].high \in Int /\ bars[j].low \in Int
    BY <1>1, CandleAssumption
  <2> QED BY <2>1
<1>3. Levels(F) /\ Levels(G)
  <2> HIDE DEF f, g
  <2> QED BY <1>2, Prices
<1>4. M \in SUBSET (F \cup G)
  <2> SUFFICES ASSUME NEW z \in Z PROVE z.mid \in F \cup G
    OBVIOUS
  <2>1. z \in {S(j) : j \in U} \cup {L(j) : j \in V}
    BY <1>1
  <2>2. CASE \E j \in U : z = S(j)
    <3>1. PICK j \in U : z = S(j)
      BY <2>2
    <3>2. z.mid = f[j]
      BY <3>1
    <3> HIDE DEF f
    <3> QED BY <3>2
  <2>3. CASE \E j \in V : z = L(j)
    <3>1. PICK j \in V : z = L(j)
      BY <2>3
    <3>2. z.mid = g[j]
      BY <3>1
    <3> HIDE DEF g
    <3> QED BY <3>2
  <2> QED BY <2>1, <2>2, <2>3
<1> HIDE DEF F, G, M
<1>5. IsFiniteSet(F \cup G) /\ F \cup G \subseteq Int
  BY <1>3, FS_Union DEF Levels
<1>6. Levels(M)
  <2>1. IsFiniteSet(M)
    BY <1>4, <1>5, FS_Subset
  <2> QED BY <1>4, <1>5, <2>1 DEF Levels
<1> QED BY <1>6 DEF M

LEMMA SwingsType ==
    ASSUME NEW bars \in Seq(Candles)
    PROVE  /\ Levels({bars[i].high : i \in FractalHighs(bars, SwingReach)})
           /\ Levels({bars[i].low : i \in FractalLows(bars, SwingReach)})
<1> DEFINE n == Len(bars)
           H == FractalHighs(bars, SwingReach)
           L == FractalLows(bars, SwingReach)
           f == [i \in 1 .. n |-> bars[i].high]
           g == [i \in 1 .. n |-> bars[i].low]
<1>1. n \in Nat /\ \A j \in 1 .. n : bars[j] \in Candles
  BY LenProperties, ElementOfSeq
<1>2. H \in SUBSET (1 .. n) /\ L \in SUBSET (1 .. n)
  <2>1. SwingReach \in Nat
    BY CandleAssumption
  <2>2. Pivots(bars, SwingReach) \in SUBSET (1 .. n)
    BY <1>1, <2>1 DEF Pivots
  <2> QED BY <2>2 DEF FractalHighs, FractalLows
<1> HIDE DEF n, H, L
<1>3. \A i \in 1 .. n : f[i] \in Int /\ g[i] \in Int
  BY <1>1, CandleAssumption
<1>4. Levels({f[i] : i \in H}) /\ Levels({g[i] : i \in L})
  <2> HIDE DEF f, g
  <2> QED BY <1>1, <1>2, <1>3, Prices
<1>5. {f[i] : i \in H} = {bars[i].high : i \in H} /\ {g[i] : i \in L} = {bars[i].low : i \in L}
  BY <1>2
<1> QED BY <1>4, <1>5 DEF H, L

LEMMA LevelsType ==
    ASSUME NEW bars \in Seq(Candles), NEW highs, Levels(highs), NEW lows, Levels(lows),
           NEW price, NEW period, NEW most \in Nat
    PROVE  /\ Levels(Range(BuildLevels(bars, highs, lows, price, period, most).sellLevels))
           /\ Levels(Range(BuildLevels(bars, highs, lows, price, period, most).floors))
<1> DEFINE a     == Atr(bars, period)
           tol   == Max({DedupeFloor, (4 * a.sum) \div (10 * a.count)})
           obs   == DisplacementBlocks(bars, period)
           sells == {z \in obs : z.side = "short" /\ z.high > price}
           buys  == {z \in obs : z.side = "long" /\ z.low < price}
           hs    == {h \in highs : h > price}
           ls    == {l \in lows : l < price}
           ms    == {z.mid : z \in sells}
           mb    == {z.mid : z \in buys}
           up    == Ascending(hs \cup ms)
           down  == Descending(ls \cup mb)
           first(s) == SubSeq(s, 1, Min({most, Len(s)}))
<1>1. /\ BuildLevels(bars, highs, lows, price, period, most).sellLevels = first(Dedupe(up, tol))
      /\ BuildLevels(bars, highs, lows, price, period, most).floors = first(Dedupe(down, tol))
  BY DEF BuildLevels
<1>2. Levels(ms) /\ Levels(mb)
  <2>1. sells \in SUBSET obs /\ buys \in SUBSET obs
    OBVIOUS
  <2> HIDE DEF sells, buys
  <2> QED BY <2>1, MidsType
<1>3. Levels(hs) /\ Levels(ls)
  <2>1. hs \in SUBSET highs /\ ls \in SUBSET lows
    OBVIOUS
  <2> HIDE DEF hs, ls
  <2>2. IsFiniteSet(hs) /\ IsFiniteSet(ls)
    BY <2>1, FS_Subset DEF Levels
  <2> QED BY <2>1, <2>2 DEF Levels
<1> HIDE DEF tol, hs, ls, ms, mb
<1>4. Levels(hs \cup ms) /\ Levels(ls \cup mb)
  BY <1>2, <1>3, FS_Union DEF Levels
<1>5. up \in Seq(Int) /\ down \in Seq(Int)
  BY <1>4, SortedType
<1> HIDE DEF up, down
<1>6. Dedupe(up, tol) \in Seq(Int) /\ Dedupe(down, tol) \in Seq(Int)
  BY <1>5, DedupeType
<1>7. first(Dedupe(up, tol)) \in Seq(Int) /\ first(Dedupe(down, tol)) \in Seq(Int)
  BY <1>6, NearestType
<1> HIDE DEF first
<1> QED BY <1>1, <1>7, RangeLevels

LEMMA LoadedType ==
    ASSUME NEW m, MapOK(m), NEW levels, Levels(Range(levels.sellLevels)), Levels(Range(levels.floors))
    PROVE  MapOK(Loaded(m, levels))
<1> DEFINE sells  == Range(levels.sellLevels)
           floors == Range(levels.floors)
           both   == sells # {} /\ floors # {}
<1>1. /\ Loaded(m, levels).sells = IF both THEN sells ELSE m.sells
      /\ Loaded(m, levels).floors = IF both THEN floors ELSE m.floors
      /\ Loaded(m, levels).tp = IF both THEN Min(floors) ELSE m.tp
  BY DEF Loaded
<1> HIDE DEF sells, floors
<1>2. CASE both
  <2>1. Levels(floors) /\ Levels(sells)
    BY DEF floors, sells
  <2>2. floors \in SUBSET Int /\ IsFiniteSet(floors) /\ floors # {}
    BY <1>2, <2>1 DEF Levels
  <2>3. \E x \in floors : \A y \in floors : x <= y
    <3> DEFINE neg == Ascending(floors)
    <3>1. PICK n \in Nat : /\ n = Cardinality(floors) /\ neg \in [1 .. n -> floors]
                           /\ \A x \in floors : \E k \in 1 .. n : neg[k] = x
                           /\ \A j, k \in 1 .. n : j < k <=> neg[j] < neg[k]
      BY <2>2, AscendingRises
    <3> HIDE DEF neg
    <3>2. n # 0
      <4>1. PICK x \in floors : TRUE
        BY <2>2
      <4>2. PICK k \in 1 .. n : neg[k] = x
        BY <3>1
      <4> QED BY <4>2
    <3>3. 1 \in 1 .. n /\ neg[1] \in floors
      BY <3>1, <3>2
    <3>4. \A y \in floors : neg[1] <= y
      <4> SUFFICES ASSUME NEW k \in 1 .. n PROVE neg[1] <= neg[k]
        BY <3>1
      <4>1. neg[1] \in Int /\ neg[k] \in Int
        BY <2>2, <3>1, <3>3
      <4>2. ~(k < 1)
        OBVIOUS
      <4> QED BY <3>1, <3>3, <4>1, <4>2
    <3> QED BY <3>3, <3>4
  <2>4. Min(floors) \in floors
    BY <2>3 DEF Min
  <2> QED BY <1>1, <1>2, <2>1, <2>2, <2>4 DEF MapOK
<1>3. CASE ~both
  BY <1>1, <1>3 DEF MapOK
<1> QED BY <1>2, <1>3

LEMMA MapInvStep ==
    ASSUME MapInv, [Next]_vars
    PROVE  MapInv'
<1>1. CASE feed' = feed /\ map' = map
  BY <1>1 DEF MapInv
<1>2. ASSUME CandlePrints PROVE MapInv'
  <2>1. PICK c \in Candles : feed' = Append(feed, c)
    BY <1>2 DEF CandlePrints, CandleOpens
  <2>2. map' = map
    BY <1>2 DEF CandlePrints, CandleOpens
  <2>3. feed' \in Seq(Candles)
    BY <2>1, AppendProperties DEF MapInv
  <2> QED BY <2>2, <2>3 DEF MapInv
<1>3. ASSUME Refresh PROVE MapInv'
  <2> DEFINE bars   == FetchOhlc(feed)
             highs  == {bars[i].high : i \in FractalHighs(bars, SwingReach)}
             lows   == {bars[i].low : i \in FractalLows(bars, SwingReach)}
             levels == BuildLevels(bars, highs, lows, bars[Len(bars)].close, 14, 5)
  <2>1. map' = Loaded(map, levels) /\ feed' = feed
    BY <1>3 DEF Refresh
  <2>2. bars \in Seq(Candles)
    BY FetchType DEF MapInv
  <2> HIDE DEF bars
  <2>3. Levels(highs) /\ Levels(lows)
    BY <2>2, SwingsType
  <2> HIDE DEF highs, lows
  <2>4. Levels(Range(levels.sellLevels)) /\ Levels(Range(levels.floors))
    BY <2>2, <2>3, LevelsType
  <2> HIDE DEF levels
  <2>5. MapOK(Loaded(map, levels))
    BY <2>4, LoadedType DEF MapInv
  <2> QED BY <2>1, <2>5 DEF MapInv
<1>4. ASSUME PostMap \/ AppRestarts PROVE MapInv'
  <2>1. PICK m \in PostedMaps \cup {BootMap} : map' = m
    BY <1>4 DEF PostMap, AppRestarts
  <2>2. feed' = feed
    BY <1>4 DEF PostMap, AppRestarts
  <2>3. MapOK(m)
    BY DeskAssumption DEF MapOK, Levels
  <2> QED BY <2>1, <2>2, <2>3 DEF MapInv
<1>5. ASSUME MuteExpires \/ \E s \in Scans : StartScan(s) \/ ScanSteps(s)
      PROVE  feed' = feed /\ map' = map
  BY <1>5 DEF MuteExpires, StartScan, ScanSteps, GotBias, Sent, SendFails
<1> QED BY <1>1, <1>2, <1>3, <1>4, <1>5 DEF Next, vars

\* Whatever levels were found, posted or kept, and wherever the price has gone since, the
\* staircase ends at the target over retraces that are a dollar lower each, and, where its
\* stops and its first fall are a dollar apart, falls on every impulse and on no retrace:
\* for any number of levels, however near to each other.
THEOREM StaircaseFalls == Spec => []StaircaseDescends
<1>1. Init => MapInv
  <2> SUFFICES ASSUME Init PROVE MapInv
    OBVIOUS
  <2>1. MapOK(BootMap)
    BY DeskAssumption DEF MapOK, Levels
  <2>2. <<>> \in Seq(Candles)
    BY EmptySeq
  <2> QED BY <2>1, <2>2 DEF Init, FeedInit, MapInv
<1>2. MapInv => StaircaseDescends
  <2> SUFFICES ASSUME MapInv, feed # <<>>, feed[Len(feed)].close > map.tp
               PROVE  Staircase(SellPath(map.sells, map.floors, feed[Len(feed)].close, map.tp),
                                StopsAhead(map.floors, feed[Len(feed)].close, map.tp), map.tp)
    BY DEF StaircaseDescends, Staircase, StopsAhead, FirstFall, Ups, Runs
  <2>1. Len(feed) \in 1 .. Len(feed)
    BY LenProperties, EmptySeq DEF MapInv
  <2>2. feed[Len(feed)] \in Candles
    BY <2>1, ElementOfSeq DEF MapInv
  <2>3. feed[Len(feed)].close \in Int
    BY <2>2, CandleAssumption
  <2> QED BY <2>3, PathDescends DEF MapInv, MapOK, Levels
<1> QED BY <1>1, <1>2, MapInvStep, PTL DEF Spec

-----------------------------------------------------------------------------
(* The engines that re-read the feed.  Of a candle nothing is used but that *)
(* its four values are prices and, for the replays, between its extremes.   *)

FeedTyped == feed \in Seq(Candles)
\* What a later read of the feed makes of an earlier one: closed candles stay, the range of
\* the forming one only widens, and candles are added.
Widened(old, new) ==
    /\ old \in Seq(Candles) /\ new \in Seq(Candles)
    /\ Len(old) <= Len(new)
    /\ \A i \in 1 .. Len(old) : /\ i < Len(old) => new[i] = old[i]
                                /\ new[i].low <= old[i].low /\ old[i].high <= new[i].high

\* The candles of a feed are prices.
LEMMA CandlePrices ==
    ASSUME NEW bars \in Seq(Candles)
    PROVE  /\ Len(bars) \in Nat /\ DOMAIN bars = 1 .. Len(bars)
           /\ \A i \in 1 .. Len(bars) :
                 /\ bars[i].open \in Int /\ bars[i].close \in Int
                 /\ bars[i].high \in Int /\ bars[i].low \in Int
<1>1. \A i \in 1 .. Len(bars) : bars[i] \in [open : Int, high : Int, low : Int, close : Int]
  BY ElementOfSeq, CandleAssumption
<1> QED BY <1>1, LenProperties

\* A step of the feed widens it.
LEMMA FeedWidens ==
    ASSUME FeedTyped, [FeedNext]_feed
    PROVE  Widened(feed, feed')
<1>1. feed \in Seq(Candles) /\ Len(feed) \in Nat
  BY LenProperties DEF FeedTyped
<1>2. \A i \in 1 .. Len(feed) : feed[i].high \in Int /\ feed[i].low \in Int
  BY <1>1, CandlePrices
<1>3. CASE CandleOpens
  <2>1. PICK c \in Candles : feed' = Append(feed, c)
    BY <1>3 DEF CandleOpens
  <2>2. /\ feed' \in Seq(Candles) /\ Len(feed') = Len(feed) + 1
        /\ \A i \in 1 .. Len(feed) : feed'[i] = feed[i]
    BY <1>1, <2>1, AppendProperties
  <2> QED BY <1>1, <1>2, <2>2 DEF Widened
<1>4. CASE CandleMoves
  <2>1. PICK c \in Candles : /\ c.high >= feed[Len(feed)].high /\ c.low <= feed[Len(feed)].low
                             /\ feed' = [feed EXCEPT ![Len(feed)] = c]
    BY <1>4 DEF CandleMoves
  <2>2. Len(feed) \in 1 .. Len(feed)
    BY <1>1, <1>4, EmptySeq DEF CandleMoves
  <2>3. /\ feed' \in Seq(Candles) /\ Len(feed') = Len(feed)
        /\ \A i \in 1 .. Len(feed) : feed'[i] = IF i = Len(feed) THEN c ELSE feed[i]
    BY <1>1, <2>1, <2>2, ExceptSeq
  <2>4. \A i \in 1 .. Len(feed) : i < Len(feed) => feed'[i] = feed[i]
    BY <2>3
  <2>5. \A i \in 1 .. Len(feed) : feed'[i].low <= feed[i].low /\ feed[i].high <= feed'[i].high
    <3> SUFFICES ASSUME NEW i \in 1 .. Len(feed)
                 PROVE  feed'[i].low <= feed[i].low /\ feed[i].high <= feed'[i].high
      OBVIOUS
    <3>1. CASE i = Len(feed)
      BY <3>1, <2>1, <2>3, CandlePrices, CandleAssumption
    <3>2. CASE i # Len(feed)
      BY <3>2, <1>2, <2>3
    <3> QED BY <3>1, <3>2
  <2> QED BY <1>1, <2>3, <2>4, <2>5 DEF Widened
<1>5. CASE UNCHANGED feed
  <2>1. feed' = feed
    BY <1>5
  <2> QED BY <1>1, <1>2, <2>1 DEF Widened
<1> QED BY <1>3, <1>4, <1>5 DEF FeedNext

\* The feed is one of candles, and every step widens it.
LEMMA AlwaysWidens == FeedSpec => []FeedTyped /\ [][Widened(feed, feed')]_feed
<1>1. FeedInit => FeedTyped
  BY EmptySeq DEF FeedInit, FeedTyped
<1>2. FeedTyped /\ [FeedNext]_feed => Widened(feed, feed')
  BY FeedWidens
<1>3. Widened(feed, feed') => FeedTyped'
  BY DEF Widened, FeedTyped
<1> QED BY <1>1, <1>2, <1>3, PTL DEF FeedSpec

-----------------------------------------------------------------------------
(* What closed candles drew.                                                *)

\* The bars that may confirm the block of a candle.
Confirms(bars, i, j) ==
    /\ j \in (i + 1) .. Len(bars) /\ j <= i + Lookahead
    /\ IF bars[i].close > bars[i].open THEN bars[j].close < bars[i].low
                                       ELSE bars[j].close > bars[i].high

\* A block is confirmed by the first bar that may confirm it.
LEMMA ConfirmedBy ==
    ASSUME NEW bars \in Seq(Candles), NEW i \in 1 .. Len(bars), NEW j
    PROVE  j \in Confirmation(bars, i)
           <=> Confirms(bars, i, j) /\ \A k \in 1 .. Len(bars) : Confirms(bars, i, k) => j <= k
<1>1. Len(bars) \in Nat /\ Lookahead \in Nat
  BY LenProperties, BlockAssumption
<1>2. Min({i + Lookahead, Len(bars)}) = IF i + Lookahead <= Len(bars) THEN i + Lookahead ELSE Len(bars)
  <2>1. Min({i + Lookahead, Len(bars)}) = Min({i + Lookahead, Len(bars)})
    BY DEF Min
  <2> QED BY <1>1, <2>1, LeastOfTwo
<1> DEFINE C == {k \in (i + 1) .. Min({i + Lookahead, Len(bars)}) :
                    IF bars[i].close > bars[i].open THEN bars[k].close < bars[i].low
                                                    ELSE bars[k].close > bars[i].high}
<1>3. \A k : k \in C <=> Confirms(bars, i, k)
  BY <1>1, <1>2 DEF Confirms
<1>4. Confirmation(bars, i) = {k \in C : \A m \in C : k <= m}
  BY DEF Confirmation, FirstOf
<1>5. \A k : Confirms(bars, i, k) => k \in 1 .. Len(bars)
  BY <1>1 DEF Confirms
<1> HIDE DEF C
<1> QED BY <1>3, <1>4, <1>5

\* Whether a bar comes back to a band.
LEMMA ReturnsStay ==
    ASSUME NEW old, NEW new, Widened(old, new), NEW k \in Nat, NEW low \in Int, NEW high \in Int,
           ReturnsTo(new, k, low, high) = {}
    PROVE  ReturnsTo(old, k, low, high) = {}
<1> SUFFICES ASSUME NEW i \in ReturnsTo(old, k, low, high)
             PROVE  i \in ReturnsTo(new, k, low, high)
  OBVIOUS
<1>1. i \in (k + 1) .. Len(old) /\ old[i].low <= high /\ old[i].high >= low
  BY DEF ReturnsTo
<1>2. /\ Len(old) \in Nat /\ Len(new) \in Nat /\ Len(old) <= Len(new)
      /\ old \in Seq(Candles) /\ new \in Seq(Candles)
  BY LenProperties DEF Widened
<1>3. i \in 1 .. Len(old) /\ i \in 1 .. Len(new) /\ i \in (k + 1) .. Len(new)
  BY <1>1, <1>2
<1>4. /\ old[i].low \in Int /\ old[i].high \in Int /\ new[i].low \in Int /\ new[i].high \in Int
  BY <1>2, <1>3, CandlePrices
<1>5. new[i].low <= old[i].low /\ old[i].high <= new[i].high
  BY <1>3 DEF Widened
<1>6. new[i].low <= high /\ new[i].high >= low
  BY <1>1, <1>4, <1>5
<1> QED BY <1>3, <1>6 DEF ReturnsTo

\* What becomes of a block that closed candles confirmed.
KeptAs(b, c) == c = [b EXCEPT !.fresh = c.fresh] /\ (c.fresh => b.fresh)

\* A block that closed candles confirmed is found again, with its band, and no fresher.
LEMMA BlockKept ==
    ASSUME NEW old, NEW new, Widened(old, new), NEW b \in ClosedBlocks(old)
    PROVE  \E c \in OrderBlockSet(new) : KeptAs(b, c)
<1>1. /\ Len(old) \in Nat /\ Len(new) \in Nat /\ Len(old) <= Len(new)
      /\ old \in Seq(Candles) /\ new \in Seq(Candles)
  BY LenProperties DEF Widened
<1> DEFINE From(i, j) == b = Block(old, i, j) /\ Bodied(old[i])
<1>0. PICK i \in 1 .. Len(old) : \E j \in Confirmation(old, i) : From(i, j)
  BY DEF ClosedBlocks, OrderBlockSet
<1>2. PICK j \in Confirmation(old, i) : From(i, j)
  BY <1>0
<1>3. j < Len(old)
  <2>1. b.conf < Len(old)
    BY DEF ClosedBlocks
  <2>2. b.conf = j
    BY <1>2 DEF Block
  <2> QED BY <2>1, <2>2
<1>4. Confirms(old, i, j) /\ \A k \in 1 .. Len(old) : Confirms(old, i, k) => j <= k
  BY <1>1, <1>2, ConfirmedBy
<1>5. j \in Nat /\ i \in Nat /\ i < j /\ i < Len(old) /\ i \in 1 .. Len(new) /\ j \in 1 .. Len(old)
  BY <1>1, <1>3, <1>4 DEF Confirms
<1>6. \A k \in 1 .. (Len(old) - 1) : new[k] = old[k]
  BY <1>1 DEF Widened
<1>7. \A k : k < Len(old) => (Confirms(new, i, k) <=> Confirms(old, i, k))
  BY <1>1, <1>5, <1>6 DEF Confirms
<1>8. j \in Confirmation(new, i)
  <2>1. Confirms(new, i, j)
    BY <1>3, <1>4, <1>7
  <2>2. ASSUME NEW k \in 1 .. Len(new), Confirms(new, i, k)
        PROVE  j <= k
    <3>1. CASE k < Len(old)
      BY <1>1, <1>4, <1>7, <2>2, <3>1
    <3>2. CASE ~(k < Len(old))
      BY <1>1, <1>3, <1>5, <3>2
    <3> QED BY <3>1, <3>2
  <2> QED BY <1>1, <1>5, <2>1, <2>2, ConfirmedBy
<1>9. new[i] = old[i]
  BY <1>1, <1>5, <1>6
<1> DEFINE c == Block(new, i, j)
           bearish == old[i].close > old[i].open
           low  == IF bearish THEN old[i].open ELSE old[i].low
           high == IF bearish THEN old[i].high ELSE old[i].open
           kind == IF bearish THEN "bearish" ELSE "bullish"
<1>10. c \in OrderBlockSet(new)
  BY <1>2, <1>5, <1>8, <1>9 DEF OrderBlockSet
<1>11. low \in Int /\ high \in Int
  BY <1>1, CandlePrices
<1>12. /\ b = [type |-> kind, at |-> i, conf |-> j, low |-> low, high |-> high,
               fresh |-> ReturnsTo(old, j, low, high) = {}]
       /\ c = [type |-> kind, at |-> i, conf |-> j, low |-> low, high |-> high,
               fresh |-> ReturnsTo(new, j, low, high) = {}]
  BY <1>2, <1>9 DEF Block
<1> HIDE DEF c, low, high, kind, bearish
<1>13. c = [b EXCEPT !.fresh = c.fresh]
  BY <1>12
<1>14. c.fresh => b.fresh
  <2>1. ReturnsTo(new, j, low, high) = {} => ReturnsTo(old, j, low, high) = {}
    BY <1>5, <1>11, ReturnsStay
  <2> QED BY <1>12, <2>1
<1> QED BY <1>10, <1>13, <1>14 DEF KeptAs

\* What the two backtests decide: the swing tier at the close of each day that another
\* follows, the triad at the close of its third hour.
Swung(bars, d) ==
    \E i \in 2 .. (Len(bars) - 1) : d \in SwingDecisions(SubSeq(Daily(bars), 1, i))
Faded(bars, d) ==
    \E i \in 1 .. (Len(bars) - 2) :
        d \in TriadDecisions(Hourly(bars), {13, 14}, 1, i) /\ d.entry # d.stop

\* The trades of the swing tier are its decisions.
LEMMA SwungDecisions ==
    ASSUME NEW bars \in Seq(Candles), NEW d
    PROVE  (\E t \in Swings(bars) : d = t.decision) <=> Swung(bars, d)
<1>1. /\ Len(bars) \in Nat /\ DOMAIN bars = 1 .. Len(bars)
      /\ Len(Daily(bars)) = Len(bars)
  BY LenProperties DEF Daily
<1> DEFINE days == Daily(bars)
           Made(e) == SimulateForward(e.entry, e.stop, e.targets, e.side,
                         SubSeq(days, e.at + 1, Min({Len(days), e.at + 7})))
           D == UNION {SwingDecisions(SubSeq(days, 1, i)) : i \in (1 + 1) .. (Len(days) - 1)}
           Trade(e) == [decision |-> e, result |-> Made(e)]
<1>2. Swings(bars) = {Trade(e) : e \in D}
  BY DEF Swings, SwingTrades
<1>3. \A e : Trade(e).decision = e
  OBVIOUS
<1> HIDE DEF Made, days, Trade
<1>4. d \in D <=> Swung(bars, d)
  BY <1>1 DEF Swung, days
<1> HIDE DEF D
<1> QED BY <1>2, <1>3, <1>4

\* The trades of the triads are the decisions that risk something.
LEMMA FadedDecisions ==
    ASSUME NEW bars \in Seq(Candles), NEW d
    PROVE  (\E t \in Triads(Hourly(bars), {13, 14}, 1, 12) : d = t.decision)
           <=> Faded(bars, d)
<1>1. /\ Len(bars) \in Nat /\ DOMAIN bars = 1 .. Len(bars)
      /\ Len(Hourly(bars)) = Len(bars)
  BY LenProperties DEF Hourly
<1> DEFINE hours == Hourly(bars)
           Ahead(e) == SubSeq(hours, e.at + 1, Min({Len(hours), e.at + 12}))
           D == UNION {TriadDecisions(hours, {13, 14}, 1, i) : i \in 1 .. (Len(hours) - 2)}
           Made(e) == SimulateTriad(e, Ahead(e))
           Trade(e) == [decision |-> e, result |-> Made(e)]
<1>2. Triads(hours, {13, 14}, 1, 12) = {t \in {Trade(e) : e \in D} : t.result.how # "skip"}
  BY DEF Triads
<1>3. ASSUME NEW e
      PROVE  Made(e).how # "skip" <=> e.entry # e.stop
  BY DEF SimulateTriad, Ended
<1>4. \A e : Trade(e).decision = e /\ (Trade(e).result.how # "skip" <=> e.entry # e.stop)
  BY <1>3
<1> HIDE DEF Made, Ahead, hours, Trade
<1>5. d \in D /\ d.entry # d.stop <=> Faded(bars, d)
  BY <1>1 DEF Faded, hours
<1> HIDE DEF D
<1> QED BY <1>2, <1>4, <1>5 DEF hours

\* The days of a feed are as many as its candles,
LEMMA DailyBars ==
    ASSUME NEW bars \in Seq(Candles)
    PROVE  \E T : /\ Daily(bars) \in Seq(T)
                  /\ Len(Daily(bars)) = Len(bars)
<1>1. Len(bars) \in Nat /\ DOMAIN bars = 1 .. Len(bars)
  BY LenProperties
<1> DEFINE days == Daily(bars)
           T == {days[k] : k \in 1 .. Len(bars)}
<1>2. days = [k \in 1 .. Len(bars) |-> days[k]]
  BY <1>1 DEF Daily
<1> HIDE DEF days
<1>3. \A k \in 1 .. Len(bars) : days[k] \in T
  OBVIOUS
<1> HIDE DEF T
<1>4. days \in Seq(T) /\ Len(days) = Len(bars)
  BY <1>1, <1>2, <1>3
<1> QED BY <1>4 DEF days

\* its first days are as many as they are,
LEMMA FirstDays ==
    ASSUME NEW bars \in Seq(Candles), NEW i \in 1 .. Len(bars)
    PROVE  /\ SubSeq(Daily(bars), 1, i) = [k \in 1 .. i |-> Daily(bars)[k]]
           /\ Len(SubSeq(Daily(bars), 1, i)) = i
<1>1. Len(bars) \in Nat
  BY LenProperties
<1>2. PICK T : Daily(bars) \in Seq(T) /\ Len(Daily(bars)) = Len(bars)
  BY DailyBars
<1> QED BY <1>1, <1>2

\* and those before the newest candle stay.
LEMMA SameDays ==
    ASSUME NEW old, NEW new, Widened(old, new), NEW i \in 1 .. (Len(old) - 1)
    PROVE  SubSeq(Daily(new), 1, i) = SubSeq(Daily(old), 1, i)
<1>1. /\ Len(old) \in Nat /\ Len(new) \in Nat /\ Len(old) <= Len(new)
      /\ old \in Seq(Candles) /\ new \in Seq(Candles)
      /\ DOMAIN old = 1 .. Len(old) /\ DOMAIN new = 1 .. Len(new)
  BY LenProperties DEF Widened
<1>2. \A k \in 1 .. i : new[k] = old[k]
  BY <1>1 DEF Widened
<1>3. \A k \in 1 .. i : Daily(new)[k] = Daily(old)[k]
  BY <1>1, <1>2 DEF Daily
<1>4. /\ SubSeq(Daily(new), 1, i) = [k \in 1 .. i |-> Daily(new)[k]]
      /\ SubSeq(Daily(old), 1, i) = [k \in 1 .. i |-> Daily(old)[k]]
  BY <1>1, FirstDays
<1> QED BY <1>3, <1>4

\* A swing is decided at the newest of the days it is given.
LEMMA SwingAt ==
    ASSUME NEW hist, NEW d \in SwingDecisions(hist)
    PROVE  d.at = Len(hist)
<1> DEFINE Plan(side, stop, targets) == [at |-> Len(hist), side |-> side, entry |-> hist[Len(hist)].close,
                                         stop |-> stop, targets |-> targets]
<1>1. \A side, stop, targets : Plan(side, stop, targets).at = Len(hist)
  OBVIOUS
<1>2. \E side, stop, targets : d = Plan(side, stop, targets)
  <2> HIDE DEF Plan
  <2> QED BY ZenonT(60) DEF SwingDecisions, Plan
<1> HIDE DEF Plan
<1> QED BY <1>1, <1>2

\* So a swing of an earlier day stays a decision, and none is added,
LEMMA SwingKept ==
    ASSUME NEW old, NEW new, Widened(old, new), NEW d, d.at <= Len(old) - 1
    PROVE  Swung(new, d) <=> Swung(old, d)
<1>1. /\ Len(old) \in Nat /\ Len(new) \in Nat /\ Len(old) <= Len(new)
      /\ old \in Seq(Candles) /\ new \in Seq(Candles)
  BY LenProperties DEF Widened
<1> DEFINE In(bars, i) == d \in SwingDecisions(SubSeq(Daily(bars), 1, i))
<1>2. \A i \in 1 .. (Len(old) - 1) : In(new, i) <=> In(old, i)
  BY SameDays
<1>3. \A i \in 2 .. (Len(new) - 1) : In(new, i) => d.at = i
  <2> SUFFICES ASSUME NEW i \in 2 .. (Len(new) - 1), In(new, i) PROVE d.at = i
    OBVIOUS
  <2>1. d.at = Len(SubSeq(Daily(new), 1, i))
    BY SwingAt
  <2>2. i \in 1 .. Len(new)
    BY <1>1
  <2> QED BY <1>1, <2>1, <2>2, FirstDays
<1>4. /\ Swung(new, d) <=> \E i \in 2 .. (Len(new) - 1) : In(new, i)
      /\ Swung(old, d) <=> \E i \in 2 .. (Len(old) - 1) : In(old, i)
  BY DEF Swung
<1> HIDE DEF In
<1> QED BY <1>1, <1>2, <1>3, <1>4

\* and so does a triad whose third hour closed.
LEMMA FadedKept ==
    ASSUME NEW old, NEW new, Widened(old, new), NEW d, d.at <= Len(old) - 1
    PROVE  Faded(new, d) <=> Faded(old, d)
<1>1. /\ Len(old) \in Nat /\ Len(new) \in Nat /\ Len(old) <= Len(new)
      /\ DOMAIN old = 1 .. Len(old) /\ DOMAIN new = 1 .. Len(new)
  BY LenProperties DEF Widened
<1>2. \A k \in 1 .. (Len(old) - 1) : new[k] = old[k]
  BY <1>1 DEF Widened
<1>3. \A k \in 1 .. (Len(old) - 1) : Hourly(new)[k] = Hourly(old)[k]
  BY <1>1, <1>2 DEF Hourly
<1> DEFINE In(bars, i) == d \in TriadDecisions(Hourly(bars), {13, 14}, 1, i)
<1>4. \A i \in 1 .. (Len(old) - 3) : In(new, i) <=> In(old, i)
  <2> SUFFICES ASSUME NEW i \in 1 .. (Len(old) - 3) PROVE In(new, i) <=> In(old, i)
    OBVIOUS
  <2>1. i \in 1 .. (Len(old) - 1) /\ i + 1 \in 1 .. (Len(old) - 1) /\ i + 2 \in 1 .. (Len(old) - 1)
    BY <1>1
  <2>2. /\ Hourly(new)[i] = Hourly(old)[i]
        /\ Hourly(new)[i + 1] = Hourly(old)[i + 1]
        /\ Hourly(new)[i + 2] = Hourly(old)[i + 2]
    BY <1>3, <2>1
  <2> QED BY <2>2 DEF TriadDecisions
<1>5. \A i, bars : In(bars, i) => d.at = i + 2
  BY DEF TriadDecisions
<1>6. /\ Faded(new, d) <=> \E i \in 1 .. (Len(new) - 2) : In(new, i) /\ d.entry # d.stop
      /\ Faded(old, d) <=> \E i \in 1 .. (Len(old) - 2) : In(old, i) /\ d.entry # d.stop
  BY DEF Faded
<1> HIDE DEF In
<1> QED BY <1>1, <1>4, <1>5, <1>6

\* No decision is taken back or taken afterwards.
LEMMA DecisionsKept ==
    ASSUME NEW old, NEW new, Widened(old, new)
    PROVE  Decisions(new, Len(old) - 1) = Decisions(old, Len(old) - 1)
<1> DEFINE upto == Len(old) - 1
           Taken(bars) == Swings(bars) \cup Triads(Hourly(bars), {13, 14}, 1, 12)
<1>1. \A bars : Decisions(bars, upto) = {t.decision : t \in {t \in Taken(bars) : t.decision.at <= upto}}
  BY DEF Decisions
<1>2. ASSUME NEW bars \in Seq(Candles), NEW d
      PROVE  (\E t \in Taken(bars) : d = t.decision) <=> Swung(bars, d) \/ Faded(bars, d)
  BY <1>2, SwungDecisions, FadedDecisions
<1>3. old \in Seq(Candles) /\ new \in Seq(Candles)
  BY DEF Widened
<1> HIDE DEF Taken
<1>4. ASSUME NEW bars \in Seq(Candles), NEW d
      PROVE  d \in Decisions(bars, upto)
             <=> (Swung(bars, d) \/ Faded(bars, d)) /\ d.at <= upto
  BY <1>1, <1>2
<1>5. \A d : d.at <= upto => (Swung(new, d) <=> Swung(old, d)) /\ (Faded(new, d) <=> Faded(old, d))
  BY SwingKept, FadedKept
<1> QED BY <1>3, <1>4, <1>5

\* ClosedNeverRepaints: as the feed grows, a block that closed candles confirmed keeps its
\* candle and its band and only loses its freshness, and no backtest's decision is taken
\* back or taken afterwards.  The radar's confirmations, the swing tier's warm-up and the
\* triad's three hours look at nothing that is still to come.
THEOREM ClosedDoesNotRepaint == FeedSpec => ClosedNeverRepaints
<1>1. ASSUME Widened(feed, feed')
      PROVE  /\ \A b \in ClosedBlocks(feed) :
                   \E c \in OrderBlockSet(feed') : /\ c = [b EXCEPT !.fresh = c.fresh]
                                                   /\ c.fresh => b.fresh
             /\ Decisions(feed', Len(feed) - 1) = Decisions(feed, Len(feed) - 1)
  <2>1. PICK old, new : old = feed /\ new = feed'
    OBVIOUS
  <2>2. Widened(old, new)
    BY <1>1, <2>1
  <2>3. \A b \in ClosedBlocks(old) :
           \E c \in OrderBlockSet(new) : KeptAs(b, c)
    BY <2>2, BlockKept
  <2>4. Decisions(new, Len(old) - 1) = Decisions(old, Len(old) - 1)
    BY <2>2, DecisionsKept
  <2> QED BY <2>1, <2>3, <2>4 DEF KeptAs
<1> QED BY <1>1, AlwaysWidens, PTL DEF ClosedNeverRepaints

-----------------------------------------------------------------------------
(* The two reads of one session.                                            *)

HourBar == [hour : Int, open : Int, high : Int, low : Int, close : Int]

\* The prices of some bars have a greatest and a least one.
LEMMA Extremes ==
    ASSUME NEW bars \in Seq(HourBar), bars # <<>>,
           NEW high, high = Max(Tops(bars)),
           NEW low, low = Min(Bottoms(bars))
    PROVE  /\ high \in Int /\ low \in Int
           /\ \A i \in DOMAIN bars : bars[i].high <= high /\ low <= bars[i].low
           /\ \E i \in DOMAIN bars : bars[i].high = high
           /\ \E i \in DOMAIN bars : bars[i].low = low
<1>1. Len(bars) \in Nat /\ DOMAIN bars = 1 .. Len(bars) /\ Len(bars) >= 1
  BY LenProperties, EmptySeq
<1>2. \A i \in 1 .. Len(bars) : bars[i].high \in Int /\ bars[i].low \in Int
  <2>1. \A i \in 1 .. Len(bars) : bars[i] \in HourBar
    BY <1>1, ElementOfSeq
  <2> QED BY <2>1 DEF HourBar
<1> DEFINE top == [i \in 1 .. Len(bars) |-> bars[i].high]
           bottom == [i \in 1 .. Len(bars) |-> bars[i].low]
           H == {top[i] : i \in 1 .. Len(bars)}
           L == {bottom[i] : i \in 1 .. Len(bars)}
<1>3. Levels(H) /\ Levels(L)
  <2>1. \A i \in 1 .. Len(bars) : top[i] \in Int /\ bottom[i] \in Int
    BY <1>2
  <2> HIDE DEF top, bottom
  <2> QED BY <1>1, <2>1, Prices
<1>4. Tops(bars) = H /\ Bottoms(bars) = L
  BY <1>1 DEF Tops, Bottoms
<1>5. bars[1].high \in H /\ bars[1].low \in L
  BY <1>1
<1>6. high \in H /\ \A x \in H : x <= high
  <2>1. \E m \in H : \A x \in H : x <= m
    BY <1>3, <1>5, FiniteMax DEF Levels
  <2> HIDE DEF H
  <2> QED BY <1>4, <2>1 DEF Max
<1>7. low \in L /\ \A x \in L : low <= x
  <2>1. \E m \in L : \A x \in L : m <= x
    BY <1>3, <1>5, FiniteMin DEF Levels
  <2> HIDE DEF L
  <2> QED BY <1>4, <2>1 DEF Min
<1>8. \A i \in 1 .. Len(bars) : bars[i].high \in H /\ bars[i].low \in L
  OBVIOUS
<1>9. (\A x \in H : \E i \in 1 .. Len(bars) : x = bars[i].high) /\ \A x \in L : \E i \in 1 .. Len(bars) : x = bars[i].low
  OBVIOUS
<1> HIDE DEF H, L
<1> QED BY <1>1, <1>2, <1>6, <1>7, <1>8, <1>9

\* The continuity after a sweep does not point against its bias.
LEMMA ContinuityWay ==
    ASSUME NEW side, NEW bias
    PROVE  /\ ContinuityCall(side, bias) \in {"long", "short", "wait"}
           /\ ContinuityCall(side, bias) = "long" => side = "low" /\ bias # "short"
           /\ ContinuityCall(side, bias) = "short" => side = "high" /\ bias # "long"
<1>1. CASE side = "high" /\ bias # "long"
  <2>1. ContinuityCall(side, bias) = "short"
    BY <1>1 DEF ContinuityCall
  <2> QED BY <1>1, <2>1
<1>2. CASE side = "low" /\ bias # "short"
  <2>1. ContinuityCall(side, bias) = "long"
    BY <1>2 DEF ContinuityCall
  <2> QED BY <1>2, <2>1
<1>3. CASE ~(side = "high" /\ bias # "long") /\ ~(side = "low" /\ bias # "short")
  <2>1. ContinuityCall(side, bias) = "wait"
    BY <1>3 DEF ContinuityCall
  <2> QED BY <2>1
<1> QED BY <1>1, <1>2, <1>3

\* The call on an outcome is its side, unless the bias opposes it.
LEMMA CallWay ==
    ASSUME NEW outcome, NEW bias, NEW touched, NEW signal,
           signal = IF outcome \notin DOMAIN OutcomeSide THEN "wait"
                    ELSE IF Opposes(bias, OutcomeSide[outcome]) \/ touched = "no"
                           THEN "wait" ELSE OutcomeSide[outcome]
    PROVE  /\ signal \in {"long", "short", "wait"}
           /\ signal = "long" => outcome \in {"sweep_low", "failed_low"}
           /\ signal = "short" => outcome \in {"sweep_high", "failed_high"}
           /\ ~Opposes(bias, signal) \/ signal = "wait"
<1>1. DOMAIN OutcomeSide = {"sweep_high", "failed_high", "sweep_low", "failed_low"}
  BY DEF OutcomeSide
<1>2. CASE outcome \notin DOMAIN OutcomeSide
  BY <1>2
<1>3. CASE outcome \in DOMAIN OutcomeSide
  <2> DEFINE side == OutcomeSide[outcome]
  <2>1. signal = IF Opposes(bias, side) \/ touched = "no" THEN "wait" ELSE side
    BY <1>3
  <2>2. side = IF outcome \in {"sweep_high", "failed_high"} THEN "short" ELSE "long"
    BY <1>1, <1>3 DEF OutcomeSide
  <2> HIDE DEF side
  <2> QED BY <1>1, <1>3, <2>1, <2>2
<1> QED BY <1>2, <1>3

\* The outcome of a range and the sides that were swept are read off the same bars: a
\* high or a low is swept in both, and where an attempt failed no side was.
LEMMA OutcomeAgrees ==
    ASSUME NEW bars \in Seq(HourBar), NEW range \in [high : Int, low : Int], NEW tol,
           NEW outcome, outcome = RangeOutcome(range, bars, tol),
           NEW side, side = DetectSweep(range, bars).side
    PROVE  /\ outcome = "sweep_high" => side = "high"
           /\ outcome = "sweep_low" => side = "low"
           /\ outcome \in {"failed_high", "failed_low"} => side = "none"
<1> DEFINE over  == {i \in DOMAIN bars : bars[i].high > range.high}
           under == {i \in DOMAIN bars : bars[i].low < range.low}
           read  == CASE over # {} /\ under = {} -> "high"
                      [] over = {} /\ under # {} -> "low"
                      [] over # {} /\ under # {} -> "both"
                      [] OTHER -> "none"
<1>1. side = read
  BY DEF DetectSweep
<1>2. CASE bars = <<>>
  <2>1. outcome = "inside"
    BY <1>2 DEF RangeOutcome
  <2> QED BY <2>1
<1>3. CASE bars # <<>>
  <2> DEFINE high == Max(Tops(bars))
             low  == Min(Bottoms(bars))
             tried == IF range.high - high <= tol /\ ~(low - range.low <= tol) THEN "failed_high"
                      ELSE IF low - range.low <= tol /\ ~(range.high - high <= tol)
                             THEN "failed_low" ELSE "inside"
  <2>1. /\ high \in Int /\ low \in Int
        /\ \A i \in DOMAIN bars : bars[i].high <= high /\ low <= bars[i].low
        /\ \E i \in DOMAIN bars : bars[i].high = high
        /\ \E i \in DOMAIN bars : bars[i].low = low
    BY <1>3, Extremes
  <2>2. /\ high > range.high /\ low < range.low => outcome = "both"
        /\ high > range.high /\ low >= range.low => outcome = "sweep_high"
        /\ high <= range.high /\ low < range.low => outcome = "sweep_low"
        /\ high <= range.high /\ low >= range.low => outcome = tried
    <3> HIDE DEF high, low
    <3> QED BY <1>3, <2>1 DEF RangeOutcome, high, low
  <2>3. range.high \in Int /\ range.low \in Int
    OBVIOUS
  <2>4. \A i \in DOMAIN bars : bars[i].high \in Int /\ bars[i].low \in Int
    <3>1. \A i \in DOMAIN bars : bars[i] \in HourBar
      BY LenProperties, ElementOfSeq
    <3> QED BY <3>1 DEF HourBar
  <2>5. tried \in {"failed_high", "failed_low", "inside"}
    OBVIOUS
  <2> HIDE DEF high, low, tried
  <2>6. over # {} <=> high > range.high
    BY <2>1, <2>3, <2>4
  <2>7. under # {} <=> low < range.low
    BY <2>1, <2>3, <2>4
  <2> HIDE DEF over, under
  <2>8. /\ over # {} /\ under = {} => side = "high"
        /\ over = {} /\ under # {} => side = "low"
        /\ over = {} /\ under = {} => side = "none"
    BY <1>1
  <2> QED BY <2>1, <2>2, <2>3, <2>5, <2>6, <2>7, <2>8
<1> QED BY <1>2, <1>3

\* The bars of the sweep's hour are bars of the feed.
LEMMA SweepBarsType ==
    ASSUME NEW bars \in Seq(HourBar), NEW s
    PROVE  SweepBars(bars, s) \in Seq(HourBar)
<1> DEFINE at      == {i \in DOMAIN bars : bars[i].hour = s.sweep}
           between == {i \in DOMAIN bars : s.anchor < bars[i].hour /\ bars[i].hour < s.continuity}
           I == IF at # {} THEN at ELSE between
<1>1. I \in SUBSET (DOMAIN bars)
  OBVIOUS
<1>2. SweepBars(bars, s) = Filtered(bars, I)
  BY DEF SweepBars
<1> HIDE DEF I
<1>3. Filtered(bars, I) = Filtered(bars, I)
  <2>1. ASSUME NEW S, NEW order
        PROVE  Arranged(S, order) = Arranged(S, order)
    BY DEF Arranged, Before, Cardinality
  <2>2. Ascending(I) = Ascending(I)
    BY <2>1 DEF Ascending
  <2> QED BY <2>2 DEF Filtered
<1> QED BY <1>1, <1>2, <1>3, FilteredKeeps

\* A feed on the clock is one of hourly bars.
LEMMA TimedType ==
    ASSUME feed \in Seq(Candles)
    PROVE  Timed(feed) \in Seq(HourBar)
<1>1. Len(feed) \in Nat /\ DOMAIN feed = 1 .. Len(feed)
  BY LenProperties
<1>2. ASSUME NEW i \in 1 .. Len(feed)
      PROVE  AtHour(feed[i], Hours[((i - 1) % 3) + 1]) \in HourBar
  <2>1. feed[i] \in Candles
    BY <1>1, ElementOfSeq
  <2>2. feed[i].open \in Int /\ feed[i].high \in Int /\ feed[i].low \in Int /\ feed[i].close \in Int
    BY <2>1, CandleAssumption
  <2>3. (i - 1) % 3 \in 0 .. 2
    OBVIOUS
  <2>4. Hours[((i - 1) % 3) + 1] \in Int
    BY <2>3 DEF Hours
  <2> QED BY <2>2, <2>4 DEF AtHour, HourBar
<1>3. Timed(feed) = [i \in 1 .. Len(feed) |-> AtHour(feed[i], Hours[((i - 1) % 3) + 1])]
  BY <1>1 DEF Timed
<1> QED BY <1>1, <1>2, <1>3

Reading(bars, bias, touched, r) == r \in Scan(bars, "asian", bias, touched, TRUE, 3)

\* One reading of a session, whatever the range it is taken from.
LEMMA ReadingAgrees ==
    ASSUME NEW bars \in Seq(HourBar), NEW bias \in {"none", "neutral", "long", "short"},
           NEW touched, NEW r, Reading(bars, bias, touched, r)
    PROVE  /\ {r.signal, r.continuity} # {"long", "short"}
           /\ ~Opposes(bias, r.signal) \/ r.signal = "wait"
           /\ ~Opposes(bias, r.continuity) \/ r.continuity = "wait"
<1> DEFINE s      == Sessions["asian"]
           ranges == AnchorRange(bars, s.anchor)
           used   == SweepBars(bars, s)
           lean   == IF bias # "none" THEN bias
                     ELSE IF AsianBias(bars) # "neutral" THEN AsianBias(bars) ELSE "none"
<1>1. PICK range \in ranges :
         LET call == OutcomeCall(
                        RangeOutcome(range, used, (15 * (range.high - range.low)) \div 100),
                        lean, touched, TRUE, 3)
         IN  r = [sweep |-> DetectSweep(range, used),
                  continuity |-> ContinuityCall(DetectSweep(range, used).side, lean),
                  signal |-> call.signal, conviction |-> call.conviction]
  BY DEF Reading, Scan
<1>2. range \in [high : Int, low : Int]
  <2>1. \A i \in DOMAIN bars : bars[i] \in HourBar
    BY LenProperties, ElementOfSeq
  <2> HIDE DEF s
  <2>2. PICK i \in DOMAIN bars : range = [high |-> bars[i].high, low |-> bars[i].low]
    BY <1>1 DEF AnchorRange
  <2> QED BY <2>1, <2>2 DEF HourBar
<1>3. used \in Seq(HourBar)
  BY SweepBarsType
<1> HIDE DEF used, lean, s, ranges
<1> DEFINE outcome == RangeOutcome(range, used, (15 * (range.high - range.low)) \div 100)
           side    == DetectSweep(range, used).side
<1>4. /\ r.signal = OutcomeCall(outcome, lean, touched, TRUE, 3).signal
      /\ r.continuity = ContinuityCall(side, lean)
  BY <1>1
<1>5. /\ outcome = "sweep_high" => side = "high"
      /\ outcome = "sweep_low" => side = "low"
      /\ outcome \in {"failed_high", "failed_low"} => side = "none"
  BY <1>2, <1>3, OutcomeAgrees
<1> HIDE DEF outcome, side
<1>6. /\ r.signal \in {"long", "short", "wait"}
      /\ r.signal = "long" => outcome \in {"sweep_low", "failed_low"}
      /\ r.signal = "short" => outcome \in {"sweep_high", "failed_high"}
      /\ ~Opposes(lean, r.signal) \/ r.signal = "wait"
  <2>1. PICK signal : signal = r.signal
    OBVIOUS
  <2>2. signal = IF outcome \notin DOMAIN OutcomeSide THEN "wait"
                 ELSE IF Opposes(lean, OutcomeSide[outcome]) \/ touched = "no"
                        THEN "wait" ELSE OutcomeSide[outcome]
    BY <1>4, <2>1 DEF OutcomeCall
  <2>3. /\ signal \in {"long", "short", "wait"}
        /\ signal = "long" => outcome \in {"sweep_low", "failed_low"}
        /\ signal = "short" => outcome \in {"sweep_high", "failed_high"}
        /\ ~Opposes(lean, signal) \/ signal = "wait"
    BY <2>2, CallWay
  <2> QED BY <2>1, <2>3
<1>7. /\ r.continuity \in {"long", "short", "wait"}
      /\ r.continuity = "long" => side = "low" /\ lean # "short"
      /\ r.continuity = "short" => side = "high" /\ lean # "long"
  BY <1>4, ContinuityWay
<1>8. lean = bias \/ bias = "none"
  BY DEF lean
<1>9. /\ r.signal = "long" => r.continuity # "short"
      /\ r.signal = "short" => r.continuity # "long"
  BY <1>5, <1>6, <1>7
<1>10. ~Opposes(bias, r.signal) \/ r.signal = "wait"
  BY <1>6, <1>8 DEF Opposes
<1>11. ~Opposes(bias, r.continuity) \/ r.continuity = "wait"
  BY <1>7, <1>8 DEF Opposes
<1> QED BY <1>9, <1>10, <1>11

\* SessionCallsAgree: whatever the bias and the touch, the call on the outcome of a
\* session's range and the continuity after its sweep are never the two sides, and neither
\* is against the bias.
THEOREM SessionCallsDoAgree == FeedSpec => []SessionCallsAgree
<1>1. FeedTyped => SessionCallsAgree
  <2> SUFFICES ASSUME feed \in Seq(Candles)
               PROVE  SessionCallsAgree
    BY DEF FeedTyped
  <2>1. Timed(feed) \in Seq(HourBar)
    BY TimedType
  <2>2. ASSUME NEW bias \in {"none", "neutral", "long", "short"},
               NEW touched \in {"yes", "no", "unknown"},
               NEW r \in Scan(Timed(feed), "asian", bias, touched, TRUE, 3)
        PROVE  /\ {r.signal, r.continuity} # {"long", "short"}
               /\ ~Opposes(bias, r.signal) \/ r.signal = "wait"
               /\ ~Opposes(bias, r.continuity) \/ r.continuity = "wait"
    <3>1. Reading(Timed(feed), bias, touched, r)
      BY <2>2 DEF Reading
    <3> QED BY <2>1, <3>1, ReadingAgrees
  <2> QED BY <2>2 DEF SessionCallsAgree
<1> QED BY <1>1, AlwaysWidens, PTL

-----------------------------------------------------------------------------
(* Retracement signals and swings, replayed.                                *)

\* Bars whose close is between their extremes.
Shows(bars) ==
    /\ Len(bars) \in Nat /\ DOMAIN bars = 1 .. Len(bars) /\ (bars = <<>> <=> Len(bars) = 0)
    /\ \A i \in 1 .. Len(bars) :
          /\ bars[i].low \in Int /\ bars[i].close \in Int /\ bars[i].high \in Int
          /\ bars[i].low <= bars[i].close /\ bars[i].close <= bars[i].high

\* The first of some positions.
LEMMA FirstPosition ==
    ASSUME NEW n \in Nat, NEW S \in SUBSET (1 .. n), S # {}
    PROVE  Min(S) \in S /\ \A i \in S : Min(S) <= i
<1>1. \E m \in S : \A i \in S : m <= i
  <2>1. S \subseteq Nat
    OBVIOUS
  <2> QED BY <2>1, LeastOf
<1> QED BY <1>1 DEF Min

\* The replay of a signal is between its risk and its target.
LEMMA ReplayBounded ==
    ASSUME NEW s, s.entry \in Int, s.stop \in Int, NEW ahead, Shows(ahead),
           NEW risk, risk = Distance(s.entry, s.stop),
           NEW made, made = ReplayOutcome(s, ahead, 2)
    PROVE  -risk <= made /\ made <= 2 * risk
<1> DEFINE long       == s.side = "long"
           tp         == IF long THEN s.entry + 2 * risk ELSE s.entry - 2 * risk
           stopped(b) == IF long THEN 1000 * b.low <= s.stop ELSE 1000 * b.high >= s.stop
           paid(b)    == IF long THEN 1000 * b.high >= tp ELSE 1000 * b.low <= tp
           hit        == {i \in DOMAIN ahead : stopped(ahead[i]) \/ paid(ahead[i])}
           ends       == Lowest(hit)
           last       == IF ahead = <<>> THEN s.entry ELSE 1000 * ahead[Len(ahead)].close
<1>1. /\ risk \in Nat /\ s.entry - s.stop <= risk /\ s.stop - s.entry <= risk
  BY DEF Distance
<1>2. made = IF \E i \in ends : stopped(ahead[i]) THEN -risk
             ELSE IF ends # {} THEN 2 * risk
             ELSE IF long THEN last - s.entry ELSE s.entry - last
  BY DEF ReplayOutcome
<1>3. hit # {} => ends # {}
  <2>1. hit \subseteq Nat
    BY DEF Shows
  <2> HIDE DEF hit
  <2> QED BY <2>1, LeastOf DEF Lowest
<1>4. CASE hit # {}
  <2> HIDE DEF hit, ends, last, stopped
  <2> QED BY <1>1, <1>2, <1>3, <1>4
<1>5. CASE hit = {}
  <2>1. ends = {}
    BY <1>5 DEF Lowest
  <2>2. made = IF long THEN last - s.entry ELSE s.entry - last
    <3> HIDE DEF hit, ends, last, stopped, long
    <3> QED BY <1>2, <2>1
  <2>3. CASE ahead = <<>>
    BY <1>1, <2>2, <2>3
  <2>4. CASE ahead # <<>>
    <3> DEFINE b == ahead[Len(ahead)]
    <3>1. Len(ahead) \in DOMAIN ahead
      BY <2>4 DEF Shows
    <3>2. /\ b.low \in Int /\ b.close \in Int /\ b.high \in Int
          /\ b.low <= b.close /\ b.close <= b.high
      BY <3>1 DEF Shows
    <3>3. ~stopped(b) /\ ~paid(b)
      BY <1>5, <3>1
    <3>4. last = 1000 * b.close
      BY <2>4
    <3> HIDE DEF b, last, hit, ends
    <3> QED BY <1>1, <2>2, <3>2, <3>3, <3>4
  <2> QED BY <2>3, <2>4
<1> QED BY <1>4, <1>5

\* So is the forward walk of a trade whose stop and last target are on their sides.
LEMMA ForwardBounded ==
    ASSUME NEW entry \in Int, NEW stop \in Int, NEW side, NEW targets,
           Len(targets) \in Nat \ {0}, NEW target \in Int, target = targets[Len(targets)],
           Won(side, entry, stop) <= 0, Won(side, entry, target) >= 0,
           NEW ahead, Shows(ahead),
           NEW made, made = SimulateForward(entry, stop, targets, side, ahead).made
    PROVE  -Distance(entry, stop) <= made /\ made <= Won(side, entry, target)
<1> DEFINE last       == Len(targets)
           final(i)   == Reaches(side, ahead[i], targets[last])
           trailed(i) == \E k \in 1..i, t \in DOMAIN targets : Reaches(side, ahead[k], targets[t])
           held(i)    == IF trailed(i) THEN entry ELSE stop
           ends       == {i \in DOMAIN ahead : (last > 0 /\ final(i)) \/ Suffers(side, ahead[i], held(i))}
           n          == Min(ends)
           WonAt(to)    == Won(side, entry, to)
<1>1. made = IF entry = stop \/ ahead = <<>> THEN 0
             ELSE IF ends = {} THEN WonAt(ahead[Len(ahead)].close)
             ELSE IF last > 0 /\ final(n) THEN WonAt(targets[last])
             ELSE WonAt(held(n))
  BY DEF SimulateForward, Ended
<1>2. /\ WonAt(target) \in Int /\ WonAt(stop) \in Int /\ WonAt(entry) = 0
      /\ Distance(entry, stop) = -WonAt(stop)
      /\ WonAt(stop) <= 0 /\ WonAt(target) >= 0
  BY DEF Won, Distance
<1>3. \A i : held(i) = entry \/ held(i) = stop
  OBVIOUS
<1>4. CASE entry = stop \/ ahead = <<>>
  <2> HIDE DEF ends, n, final, held, WonAt
  <2> QED BY <1>1, <1>2, <1>4
<1>5. CASE ~(entry = stop \/ ahead = <<>>) /\ ends # {}
  <2>1. made = WonAt(target) \/ made = WonAt(held(n))
    <3> HIDE DEF ends, n, final, held, WonAt
    <3> QED BY <1>1, <1>5
  <2>2. WonAt(held(n)) = 0 \/ WonAt(held(n)) = WonAt(stop)
    <3> HIDE DEF held, n, ends, final
    <3> QED BY <1>2, <1>3
  <2> HIDE DEF ends, n, final, held
  <2> QED BY <1>2, <2>1, <2>2
<1>6. CASE ~(entry = stop \/ ahead = <<>>) /\ ends = {}
  <2> DEFINE m == Len(ahead)
             b == ahead[m]
  <2>1. m \in DOMAIN ahead
    BY <1>6 DEF Shows
  <2>2. /\ b.low \in Int /\ b.close \in Int /\ b.high \in Int
        /\ b.low <= b.close /\ b.close <= b.high
    BY <2>1 DEF Shows
  <2>3. ~Reaches(side, b, target) /\ ~Suffers(side, b, held(m))
    <3>1. m \notin ends
      BY <1>6
    <3> HIDE DEF held
    <3> QED BY <2>1, <3>1
  <2>4. made = WonAt(b.close)
    <3> HIDE DEF ends, n, final, held, WonAt
    <3> QED BY <1>1, <1>6
  <2>5. PICK h : h = held(m)
    OBVIOUS
  <2>6. h = entry \/ h = stop
    BY <1>3, <2>5
  <2>7. PICK close \in Int : close = b.close /\ close <= b.high /\ b.low <= close
    BY <2>2
  <2>8. /\ side = "long" => close < target /\ close > h
        /\ side # "long" => close > target /\ close < h
    <3> HIDE DEF held, m, ends, final
    <3> QED BY <2>2, <2>3, <2>5, <2>6, <2>7 DEF Reaches, Suffers
  <2>9. WonAt(close) > WonAt(h) /\ WonAt(close) < WonAt(target) /\ WonAt(close) \in Int
    BY <2>6, <2>7, <2>8, SMTT(60) DEF Won
  <2>10. WonAt(h) = 0 \/ WonAt(h) = WonAt(stop)
    BY <1>2, <2>6
  <2> HIDE DEF ends, n, final, held, b, m
  <2> QED BY <1>2, <2>4, <2>7, <2>9, <2>10
<1> QED BY <1>4, <1>5, <1>6

\* Candles of a feed show their low below their high.
LEMMA FeedShows ==
    ASSUME NEW bars \in Seq(Candles), \A c \in Candles : Shown(c)
    PROVE  Shows(bars)
<1>1. \A i \in 1 .. Len(bars) : bars[i] \in Candles
  BY ElementOfSeq
<1> QED BY <1>1, CandlePrices, EmptySeq DEF Shows, Shown

\* A part of a feed is a feed.
LEMMA PartOfFeed ==
    ASSUME NEW bars \in Seq(Candles), NEW m \in Nat \ {0}, NEW n \in Nat, n <= Len(bars)
    PROVE  /\ SubSeq(bars, m, n) \in Seq(Candles)
           /\ Len(SubSeq(bars, m, n)) = IF m <= n THEN n - m + 1 ELSE 0
           /\ \A i \in 1 .. (n - m + 1) : SubSeq(bars, m, n)[i] = bars[m + i - 1]
<1>1. Len(bars) \in Nat
  BY LenProperties
<1>2. \A i \in m .. n : bars[i] \in Candles
  BY <1>1, ElementOfSeq
<1> QED BY <1>2, SubSeqProperties

\* The extremes of some bars are levels.
LEMMA BarLevels ==
    ASSUME NEW bars, Shows(bars), NEW I \in SUBSET (DOMAIN bars)
    PROVE  Levels({bars[i].high : i \in I}) /\ Levels({bars[i].low : i \in I})
<1>1. PICK n \in Nat : n = Len(bars) /\ DOMAIN bars = 1 .. n
  BY DEF Shows
<1> DEFINE high == [i \in 1 .. n |-> bars[i].high]
           low  == [i \in 1 .. n |-> bars[i].low]
<1>2. \A i \in 1 .. n : high[i] \in Int /\ low[i] \in Int
  BY <1>1 DEF Shows
<1>3. (\A i \in I : high[i] = bars[i].high /\ low[i] = bars[i].low) /\ I \in SUBSET (1 .. n)
  BY <1>1
<1> HIDE DEF high, low
<1>4. Levels({high[i] : i \in I}) /\ Levels({low[i] : i \in I})
  BY <1>2, <1>3, Prices
<1>5. {high[i] : i \in I} = {bars[i].high : i \in I} /\ {low[i] : i \in I} = {bars[i].low : i \in I}
  BY <1>3
<1> QED BY <1>4, <1>5

\* A set of prices has a greatest and a least one.
LEMMA LevelEnds ==
    ASSUME NEW S, Levels(S), S # {}
    PROVE  /\ Max(S) \in S /\ Max(S) \in Int /\ \A x \in S : x <= Max(S)
           /\ Min(S) \in S /\ Min(S) \in Int /\ \A x \in S : Min(S) <= x
<1>1. S \in SUBSET Int /\ IsFiniteSet(S)
  BY DEF Levels
<1>2. \E m \in S : \A x \in S : x <= m
  BY <1>1, FiniteMax
<1>3. \E m \in S : \A x \in S : m >= x
  BY <1>1, <1>2
<1>4. \E m \in S : \A x \in S : m <= x
  BY <1>1, FiniteMin
<1>5. Max(S) \in S /\ \A x \in S : Max(S) >= x
  BY <1>3 DEF Max
<1>6. Min(S) \in S /\ \A x \in S : Min(S) <= x
  BY <1>4 DEF Min
<1> QED BY <1>1, <1>5, <1>6

\* One more price.
LEMMA OneMore ==
    ASSUME NEW S, Levels(S), NEW x \in Int
    PROVE  Levels({x} \cup S) /\ {x} \cup S # {}
<1>1. IsFiniteSet({x})
  BY FS_Singleton
<1> QED BY <1>1, FS_Union DEF Levels

\* The plan of an impulse has prices,
LEMMA WarthogType ==
    ASSUME NEW bars, Shows(bars), bars # <<>>, NEW forced, NEW k,
           NEW w \in Warthog(bars, forced, k)
    PROVE  w.entry \in Int /\ w.stop \in Int
<1> DEFINE leg  == ImpulseLeg(bars)
           side == IF forced = {} THEN leg.side ELSE CHOOSE s \in forced : TRUE
<1>1. w.entry = Retraced(leg, side) /\ w.stop = 1000 * StructureStop(bars, leg, side, StopBeyond)
  BY DEF Warthog
<1>2. leg.low \in Int /\ leg.high \in Int
  <2> DEFINE H == {bars[i].high : i \in DOMAIN bars}
             L == {bars[i].low : i \in DOMAIN bars}
  <2>1. Levels(H) /\ Levels(L)
    BY BarLevels
  <2>2. H # {} /\ L # {}
    <3>1. 1 \in DOMAIN bars
      BY DEF Shows
    <3> QED BY <3>1
  <2>3. leg.low = Min(L) /\ leg.high = Max(H)
    BY DEF ImpulseLeg, TopOf, BottomOf
  <2> HIDE DEF H, L, leg
  <2> QED BY <2>1, <2>2, <2>3, LevelEnds
<1> HIDE DEF leg, side
<1>3. Retraced(leg, side) \in Int
  BY <1>2 DEF Retraced
<1>4. StructureStop(bars, leg, side, StopBeyond) \in Int
  <2> DEFINE I == LastOf({j \in DOMAIN bars : IF side = "long" THEN bars[j].close < bars[j].open
                                                       ELSE bars[j].close > bars[j].open})
             H == {b.high : b \in LastOpposing(bars, side)}
             L == {b.low : b \in LastOpposing(bars, side)}
  <2>1. I \in SUBSET (DOMAIN bars)
    BY DEF LastOf
  <2>2. LastOpposing(bars, side) = {bars[i] : i \in I}
    BY DEF LastOpposing
  <2> HIDE DEF I
  <2>3. H = {bars[i].high : i \in I} /\ L = {bars[i].low : i \in I}
    BY <2>2
  <2>4. Levels(H) /\ Levels(L)
    BY <2>1, <2>3, BarLevels
  <2> HIDE DEF H, L
  <2>5. Min({leg.low} \cup L) \in Int /\ Max({leg.high} \cup H) \in Int
    BY <1>2, <2>4, OneMore, LevelEnds
  <2>6. StructureStop(bars, leg, side, StopBeyond) =
           IF side = "long" THEN Min({leg.low} \cup L) - StopBeyond
                            ELSE Max({leg.high} \cup H) + StopBeyond
    BY DEF StructureStop, H, L
  <2> QED BY <2>5, <2>6, BlockAssumption
<1> QED BY <1>1, <1>3, <1>4

\* a rejected sweep too,
LEMMA SweepType ==
    ASSUME NEW bars, Shows(bars), NEW level, NEW side, NEW lookback,
           NEW r \in SweepReject(bars, level, side, lookback)
    PROVE  r.entry \in Int /\ r.stop \in Int
<1>1. PICK i \in DOMAIN bars : r = [bar |-> i, entry |-> bars[i].close,
                                   stop |-> IF side = "short" THEN bars[i].high + StopBuffer
                                                              ELSE bars[i].low - StopBuffer]
  BY DEF SweepReject, Newest
<1>2. bars[i].close \in Int /\ bars[i].high \in Int /\ bars[i].low \in Int
  BY DEF Shows
<1> QED BY <1>1, <1>2, MapAssumption

\* and so has the signal that is made of the two.
LEMMA SignalType ==
    ASSUME NEW bars, Shows(bars), bars # <<>>, NEW s \in RetracementSignals(bars)
    PROVE  s.entry \in Int /\ s.stop \in Int
<1> DEFINE k         == SwingReach
           top(x)    == SweepReject(bars, bars[x.at].high, "short", 3)
           bottom(x) == SweepReject(bars, bars[x.at].low, "long", 3)
           Sale(x, w) == [state |-> "SELL_OTE", side |-> "short",
                          entry |-> IF top(x) = {} THEN w.entry ELSE 1000 * (CHOOSE r \in top(x) : TRUE).entry,
                          stop |-> IF top(x) = {} THEN w.stop ELSE 1000 * (CHOOSE r \in top(x) : TRUE).stop,
                          targets |-> w.targets]
           Bounce(r) == [state |-> "SCALP_BOUNCE", side |-> "long",
                         entry |-> 1000 * r.entry, stop |-> 1000 * r.stop, targets |-> {}]
           Sold(x, w) == s.entry = (IF top(x) = {} THEN w.entry ELSE 1000 * (CHOOSE r \in top(x) : TRUE).entry)
                         /\ s.stop = (IF top(x) = {} THEN w.stop ELSE 1000 * (CHOOSE r \in top(x) : TRUE).stop)
           Bought(r) == s.entry = 1000 * r.entry /\ s.stop = 1000 * r.stop
<1>1. \/ \E x : \E w \in Warthog(bars, {"short"}, k) : Sold(x, w)
      \/ \E x : \E r \in bottom(x) : Bought(r)
  <2> DEFINE price  == Price(bars)
             leg    == ImpulseLeg(bars)
             given  == GivenBack(leg, price)
             sweeps == {x \in DetectHtfSweep(bars, k) : x.reclaim}
             highs  == {x \in sweeps : x.high}
             lows   == {x \in sweeps : ~x.high}
             sells  == IF ~(leg.side = "short" /\ given \in 620..790 /\ ~FALSE) THEN {}
                       ELSE UNION {{Sale(x, w) : w \in Warthog(bars, {"short"}, k)} : x \in highs}
             buys   == IF ~\E d \in {price} : price <= d THEN {}
                       ELSE UNION {{Bounce(r) : r \in bottom(x)} : x \in lows}
  <2>1. RetracementSignals(bars) =
           (IF leg.high <= leg.low THEN {Leave}
            ELSE IF sells # {} THEN sells ELSE IF buys # {} THEN buys ELSE {Leave}) \ {Leave}
    BY DEF RetracementSignals, RetracementState
  <2>2. (\A x, w : Sale(x, w) = s => Sold(x, w)) /\ \A r : Bounce(r) = s => Bought(r)
    OBVIOUS
  <2> HIDE DEF Sale, Bounce, Sold, Bought, top, bottom, highs, lows, given, leg, price
  <2>3. s \in sells => \E x : \E w \in Warthog(bars, {"short"}, k) : Sale(x, w) = s
    OBVIOUS
  <2>4. s \in buys => \E x : \E r \in bottom(x) : Bounce(r) = s
    OBVIOUS
  <2> HIDE DEF sells, buys
  <2>5. s \in sells \/ s \in buys
    BY <2>1
  <2> QED BY <2>2, <2>3, <2>4, <2>5
<1> HIDE DEF Sale, Bounce
<1>2. ASSUME NEW x, NEW w \in Warthog(bars, {"short"}, k), Sold(x, w)
      PROVE  s.entry \in Int /\ s.stop \in Int
  <2>1. w.entry \in Int /\ w.stop \in Int
    BY WarthogType
  <2>2. CASE top(x) = {}
    <3> HIDE DEF top
    <3> QED BY <1>2, <2>1, <2>2
  <2>3. CASE top(x) # {}
    <3>1. PICK r : r = CHOOSE y \in top(x) : TRUE
      OBVIOUS
    <3>2. r \in top(x)
      <4> HIDE DEF top
      <4> QED BY <2>3, <3>1
    <3>3. r.entry \in Int /\ r.stop \in Int
      BY <3>2, SweepType
    <3> HIDE DEF top
    <3> QED BY <1>2, <2>3, <3>1, <3>3
  <2> QED BY <2>2, <2>3
<1>3. ASSUME NEW x, NEW r \in bottom(x), Bought(r)
      PROVE  s.entry \in Int /\ s.stop \in Int
  <2>1. r.entry \in Int /\ r.stop \in Int
    BY SweepType
  <2> QED BY <1>3, <2>1
<1> HIDE DEF Sold, Bought, top, bottom, k
<1> QED BY <1>1, <1>2, <1>3

\* A retracement signal loses its risk at most, and wins its last target at most.
LEMMA SignalsAreBounded ==
    ASSUME NEW bars \in Seq(Candles), \A c \in Candles : Shown(c), MinBars \in Nat \ {0}
    PROVE  SignalsBounded(bars)
<1> SUFFICES ASSUME NEW k \in MinBars .. Len(bars),
                    NEW s \in RetracementSignals(SubSeq(bars, 1, k))
             PROVE  LET risk == Distance(s.entry, s.stop)
                        made == ReplayOutcome(s, SubSeq(bars, k + 1, Len(bars)), 2)
                    IN  -risk <= made /\ made <= 2 * risk
  BY DEF SignalsBounded
<1>1. Len(bars) \in Nat /\ k \in Nat \ {0} /\ k <= Len(bars)
  BY LenProperties
<1> DEFINE past  == SubSeq(bars, 1, k)
           ahead == SubSeq(bars, k + 1, Len(bars))
<1>2. past \in Seq(Candles) /\ ahead \in Seq(Candles) /\ Len(past) = k
  BY <1>1, PartOfFeed
<1> HIDE DEF past, ahead
<1>3. Shows(past) /\ Shows(ahead)
  BY <1>2, FeedShows
<1>4. past # <<>>
  BY <1>1, <1>2, <1>3 DEF Shows
<1>5. s.entry \in Int /\ s.stop \in Int
  BY <1>3, <1>4, SignalType DEF past
<1> QED BY <1>3, <1>5, ReplayBounded DEF ahead

\* A swing is planned inside its week: its stop is beyond the week's extreme and its last
\* target ahead of the close.
SwingPlan(hist, d) ==
    /\ d.at = Len(hist) /\ d.entry \in Int /\ d.stop \in Int
    /\ Len(d.targets) = 4 /\ d.targets[4] \in Int
    /\ Won(d.side, d.entry, d.stop) <= 0
    /\ Won(d.side, d.entry, d.targets[4]) >= 0

\* A swing is planned with its stop behind its entry and its targets ahead.
LEMMA SwingPlanned ==
    ASSUME NEW hist, Shows(hist), hist # <<>>, NEW d \in SwingDecisions(hist)
    PROVE  SwingPlan(hist, d)
<1> DEFINE n     == Len(hist)
           now   == hist[n]
           pid   == ClassifyWeek(WeekRead(hist, 20))
           side  == WeeklyBias(pid)
           week  == {i \in DOMAIN hist : hist[i].week = now.week}
           range == [high |-> TopOf(hist, week), low |-> BottomOf(hist, week)]
           tiers == Tiers!ClassifyTier([id |-> pid, bias |-> side], 0)
           Plan(stop, t) == [at |-> n, side |-> side, entry |-> now.close, stop |-> stop,
                             targets |-> Tiers!Targets(now.close, stop, side, t.rr)]
<1>1. \E t \in tiers : t.type = "swing"
         /\ \E stop \in Tiers!TierStop(range, side, StopBeyond) : d = Plan(stop, t)
  <2> HIDE DEF Plan
  <2> QED BY ZenonT(60) DEF SwingDecisions, Plan
<1>2. PICK t \in tiers : t.type = "swing"
         /\ \E stop \in Tiers!TierStop(range, side, StopBeyond) : d = Plan(stop, t)
  BY <1>1
<1>3. PICK stop \in Tiers!TierStop(range, side, StopBeyond) : d = Plan(stop, t)
  BY <1>2
<1>4. side \in {"long", "short"} /\ t.rr = <<5, 6, 7, 8>>
  <2> HIDE DEF side, pid
  <2> QED BY <1>2 DEF Tiers!ClassifyTier, Tiers!TierOf
<1>5. stop = IF side = "long" THEN range.low - StopBeyond ELSE range.high + StopBeyond
  <2> HIDE DEF range, side
  <2> QED BY <1>3 DEF Tiers!TierStop
<1>6. n \in DOMAIN hist /\ now.close \in Int /\ now.low <= now.close /\ now.close <= now.high
  BY DEF Shows
<1>7. /\ range.low \in Int /\ range.high \in Int
      /\ range.low <= now.close /\ now.close <= range.high
  <2> DEFINE H == {hist[i].high : i \in week}
             L == {hist[i].low : i \in week}
  <2>1. Levels(H) /\ Levels(L)
    <3>1. week \in SUBSET (DOMAIN hist)
      OBVIOUS
    <3> HIDE DEF week
    <3> QED BY <3>1, BarLevels
  <2>2. now.high \in H /\ now.low \in L
    BY <1>6
  <2>3. range.high = Max(H) /\ range.low = Min(L)
    BY DEF TopOf, BottomOf
  <2>4. now.high \in Int /\ now.low \in Int
    BY <1>6 DEF Shows
  <2> HIDE DEF H, L, range, now, n, week
  <2>5. H # {} /\ L # {}
    BY <2>2
  <2>6. /\ Max(H) \in Int /\ \A x \in H : x <= Max(H)
        /\ Min(L) \in Int /\ \A x \in L : Min(L) <= x
    BY <2>1, <2>5, LevelEnds
  <2>7. now.high <= range.high /\ range.low <= now.low
    BY <2>2, <2>3, <2>6
  <2> QED BY <1>6, <2>3, <2>4, <2>6, <2>7
<1> DEFINE entry == now.close
           risk  == Tiers!Distance(entry, stop)
           goals == Tiers!Targets(entry, stop, side, t.rr)
<1>8. /\ d.at = n /\ d.side = side /\ d.entry = entry /\ d.stop = stop /\ d.targets = goals
  BY <1>3
<1> HIDE DEF range, side, pid, tiers, week, Plan
<1>9. entry \in Int /\ stop \in Int /\ risk \in Nat /\ Won(side, entry, stop) <= 0
  <2>1. PICK pad \in Nat : pad = StopBeyond
    BY BlockAssumption
  <2>2. PICK low \in Int, high \in Int : low = range.low /\ high = range.high
    BY <1>7
  <2>3. entry \in Int /\ low <= entry /\ entry <= high
    BY <1>6, <1>7, <2>2
  <2>4. stop = IF side = "long" THEN low - pad ELSE high + pad
    BY <1>5, <2>1, <2>2
  <2> HIDE DEF now, entry
  <2> QED BY <2>3, <2>4 DEF Won, Tiers!Distance
<1> HIDE DEF risk, now, n
<1>10. /\ Len(goals) = 4
       /\ goals[4] = entry + (IF side = "long" THEN 1 ELSE -1) * 8 * risk
  <2>1. goals = [i \in DOMAIN <<5, 6, 7, 8>> |-> entry + Tiers!Sign(side) * <<5, 6, 7, 8>>[i] * risk]
    BY <1>4 DEF Tiers!Targets, risk
  <2>2. DOMAIN <<5, 6, 7, 8>> = 1 .. 4
    OBVIOUS
  <2> HIDE DEF goals, entry
  <2> QED BY <2>1, <2>2 DEF Tiers!Sign
<1> HIDE DEF goals, entry
<1>11. goals[4] \in Int /\ Won(side, entry, goals[4]) >= 0
  BY <1>4, <1>9, <1>10 DEF Won
<1> QED BY <1>8, <1>9, <1>10, <1>11 DEF SwingPlan, n

\* And so is what a swing makes.
LEMMA SwingsAreBounded ==
    ASSUME NEW bars \in Seq(Candles), \A c \in Candles : Shown(c)
    PROVE  SwingsBounded(bars)
<1> DEFINE days == Daily(bars)
           D == UNION {SwingDecisions(SubSeq(days, 1, i)) : i \in (1 + 1) .. (Len(days) - 1)}
           Ahead(d) == SubSeq(days, d.at + 1, Min({Len(days), d.at + 7}))
           Made(d) == SimulateForward(d.entry, d.stop, d.targets, d.side, Ahead(d))
           Trade(d) == [decision |-> d, result |-> Made(d)]
<1> SUFFICES ASSUME NEW t \in Swings(bars)
             PROVE  /\ -Distance(t.decision.entry, t.decision.stop) <= t.result.made
                    /\ t.result.made <= Won(t.decision.side, t.decision.entry,
                                                    t.decision.targets[Len(t.decision.targets)])
  <2> HIDE DEF D, Trade, days
  <2> QED BY DEF SwingsBounded
<1>1. Swings(bars) = {Trade(d) : d \in D}
  BY DEF Swings, SwingTrades
<1>2. PICK d \in D : t = Trade(d)
  BY <1>1
<1>3. t.decision = d /\ t.result = Made(d)
  BY <1>2
<1>4. /\ Len(bars) \in Nat /\ DOMAIN bars = 1 .. Len(bars)
      /\ days = [i \in 1 .. Len(bars) |-> AtDay(bars[i], i - 1)] /\ Len(days) = Len(bars)
  BY LenProperties DEF Daily
<1> DEFINE T == {days[i] : i \in 1 .. Len(bars)}
<1>5. \A i \in 1 .. Len(bars) : /\ days[i].low \in Int /\ days[i].close \in Int /\ days[i].high \in Int
                                /\ days[i].low <= days[i].close /\ days[i].close <= days[i].high
  <2>1. Shows(bars)
    BY FeedShows
  <2> HIDE DEF days
  <2> QED BY <1>4, <2>1 DEF Shows, AtDay
<1> HIDE DEF days
<1>6. ASSUME NEW m \in Nat \ {0}, NEW n \in Nat, n <= Len(bars)
      PROVE  Shows(SubSeq(days, m, n)) /\ Len(SubSeq(days, m, n)) = IF m <= n THEN n - m + 1 ELSE 0
  <2> DEFINE part == SubSeq(days, m, n)
  <2>1. \A i \in m .. n : days[i] \in T
    BY <1>4, <1>6
  <2>2. /\ part \in Seq(T) /\ Len(part) = IF m <= n THEN n - m + 1 ELSE 0
        /\ \A i \in 1 .. (n - m + 1) : part[i] = days[m + i - 1]
    <3> HIDE DEF T
    <3> QED BY <2>1, SubSeqProperties
  <2> HIDE DEF part, T
  <2>3. Len(part) \in Nat /\ DOMAIN part = 1 .. Len(part) /\ (part = <<>> <=> Len(part) = 0)
    BY <2>2, LenProperties, EmptySeq
  <2>4. \A i \in 1 .. Len(part) : part[i] = days[m + i - 1] /\ m + i - 1 \in 1 .. Len(bars)
    BY <1>4, <1>6, <2>2, SMTT(60)
  <2>5. Shows(part)
    BY <1>5, <2>3, <2>4 DEF Shows
  <2> QED BY <2>2, <2>5 DEF part
<1>7. PICK i \in 2 .. (Len(bars) - 1) : d \in SwingDecisions(SubSeq(days, 1, i))
  BY <1>4
<1> HIDE DEF D, T, Trade
<1>8. /\ i \in Nat /\ i <= Len(bars) /\ i # 0
  BY <1>4, <1>7
<1>9. Shows(SubSeq(days, 1, i)) /\ Len(SubSeq(days, 1, i)) = i
  BY <1>6, <1>8
<1>10. SwingPlan(SubSeq(days, 1, i), d)
  <2>1. SubSeq(days, 1, i) # <<>>
    BY <1>8, <1>9 DEF Shows
  <2> QED BY <1>7, <1>9, <2>1, SwingPlanned
<1>11. Shows(Ahead(d))
  <2>1. d.at = i
    BY <1>9, <1>10 DEF SwingPlan
  <2>2. PICK L \in Nat, j \in Nat : L = Len(days) /\ L = Len(bars) /\ j = i /\ j # 0
    <3>1. Len(days) \in Nat /\ Len(days) = Len(bars)
      BY <1>4
    <3> QED BY <1>8, <3>1
  <2>3. PICK n : n = Min({L, j + 7})
    OBVIOUS
  <2>4. n = Min({L, j + 7})
    BY <2>3 DEF Min
  <2>5. n \in Nat /\ n <= Len(bars)
    BY <2>2, <2>4, LeastOfTwo
  <2>6. Ahead(d) = SubSeq(days, j + 1, n)
    BY <2>1, <2>2, <2>3
  <2>7. j + 1 \in Nat \ {0}
    OBVIOUS
  <2> HIDE DEF Ahead
  <2> QED BY <1>6, <2>5, <2>6, <2>7
<1> HIDE DEF Ahead
<1>12. /\ -Distance(d.entry, d.stop) <= Made(d).made
       /\ Made(d).made <= Won(d.side, d.entry, d.targets[Len(d.targets)])
  <2>1. Len(d.targets) = 4 /\ Len(d.targets) \in Nat \ {0}
    BY <1>10 DEF SwingPlan
  <2> QED BY <1>10, <1>11, <2>1, ForwardBounded DEF SwingPlan
<1>13. t.result.made = Made(d).made
  BY <1>3
<1> HIDE DEF Made
<1> QED BY <1>3, <1>12, <1>13

-----------------------------------------------------------------------------
(* The walkers of a history, from the fill on.                              *)

\* From the fill on the limit, the swing and the triad end at one bar.
LEMMA WalkersAlike ==
    ASSUME NEW bars \in Seq(Candles), NEW o, o.entry # o.stop
    PROVE  WalksAlike(o, bars)
<1> DEFINE side  == o.side
           goal  == o.targets[1]
           fills == {i \in DOMAIN bars : Suffers(side, bars[i], o.entry)}
           f     == Min(fills)
           held  == SubSeq(bars, f, Len(bars))
           limit == SimulateLimit(o, bars)
           swing == SimulateForward(o.entry, o.stop, <<goal>>, side, held)
           triad == SimulateTriad([side |-> side, entry |-> o.entry, stop |-> o.stop,
                                           target |-> goal], held)
           St(b) == Suffers(side, b, o.stop)
           Re(b) == Reaches(side, b, goal)
           lost  == Won(side, o.entry, o.stop)
           won   == Won(side, o.entry, goal)
           Agree == /\ limit.how = "open" => swing.how = "TIME" /\ swing.made = triad.made
                    /\ limit.how # "open" => limit = triad
                    /\ swing.made # triad.made => swing.how = "TP" /\ triad.made = lost
<1> SUFFICES ASSUME fills # {}
             PROVE  Agree
  BY DEF WalksAlike
<1>1. PICK L \in Nat : L = Len(bars) /\ DOMAIN bars = 1 .. L
  BY LenProperties
<1>2. f \in fills /\ \A i \in fills : f <= i
  <2>1. fills \in SUBSET (1 .. L)
    BY <1>1
  <2> HIDE DEF fills
  <2> QED BY <2>1, FirstPosition
<1>3. PICK g \in 1 .. L : g = f
  BY <1>1, <1>2
<1>4. PICK m \in Nat : /\ m = L - g + 1 /\ m > 0
                       /\ held \in Seq(Candles) /\ Len(held) = m /\ DOMAIN held = 1 .. m
                       /\ \A j \in 1 .. m : held[j] = bars[g + j - 1]
  <2>1. /\ SubSeq(bars, g, L) \in Seq(Candles) /\ Len(SubSeq(bars, g, L)) = L - g + 1
        /\ \A j \in 1 .. (L - g + 1) : SubSeq(bars, g, L)[j] = bars[g + j - 1]
    BY <1>1, PartOfFeed
  <2>2. held = SubSeq(bars, g, L) /\ L - g + 1 \in Nat /\ L - g + 1 > 0
    BY <1>1, <1>3
  <2> HIDE DEF held
  <2> QED BY <2>1, <2>2, LenProperties
<1>5. held # <<>>
  <2> HIDE DEF held
  <2> QED BY <1>4, EmptySeq
<1> DEFINE lends == {i \in DOMAIN bars : /\ fills # {} /\ i >= Min(fills)
                                         /\ (St(bars[i]) \/ Re(bars[i]))}
           tends == {j \in DOMAIN held : St(held[j]) \/ Re(held[j])}
           trailed(j) == \E k \in 1 .. j, t \in DOMAIN <<goal>> : Reaches(side, held[k], <<goal>>[t])
           final(j)   == Len(<<goal>>) > 0 /\ Reaches(side, held[j], <<goal>>[Len(<<goal>>)])
           kept(j)    == IF trailed(j) THEN o.entry ELSE o.stop
           sends == {j \in DOMAIN held : final(j) \/ Suffers(side, held[j], kept(j))}
           mark  == Won(side, o.entry, held[Len(held)].close)
<1>6. limit = IF lends = {} THEN Ended("open", 0)
              ELSE IF St(bars[Min(lends)]) THEN Ended("loss", lost)
              ELSE Ended("win", won)
  BY DEF SimulateLimit
<1>7. triad = IF tends = {} THEN Ended(IF mark > 0 THEN "win" ELSE "loss", mark)
              ELSE IF St(held[Min(tends)]) THEN Ended("loss", lost)
              ELSE Ended("win", won)
  <2> HIDE DEF held
  <2> QED BY <1>5 DEF SimulateTriad
<1>8. swing = IF sends = {} THEN Ended("TIME", mark)
              ELSE IF final(Min(sends))
                     THEN Ended("TP", Won(side, o.entry, <<goal>>[Len(<<goal>>)]))
              ELSE Ended(IF trailed(Min(sends)) THEN "BE" ELSE "SL",
                                 Won(side, o.entry, kept(Min(sends))))
  <2> HIDE DEF held
  <2> QED BY <1>5 DEF SimulateForward
<1>9. /\ \A j : final(j) <=> Re(held[j])
      /\ \A j : trailed(j) <=> \E k \in 1 .. j : Re(held[k])
      /\ <<goal>>[Len(<<goal>>)] = goal
  <2> DEFINE goals == <<goal>>
  <2>1. Len(goals) = 1 /\ DOMAIN goals = {1} /\ goals[1] = goal
    OBVIOUS
  <2> HIDE DEF goals, goal, side, held
  <2> QED BY <2>1 DEF goals
<1> DEFINE Both(h, x) == Ended(h, x)
<1>10. \A h, x : Ended(h, x).how = h /\ Ended(h, x).made = x
  BY DEF Ended
<1> HIDE DEF limit, triad, swing, trailed, final, mark, lost, won, St, Re, f, held, fills, side
<1>11. lends = {i \in 1 .. L : g <= i /\ (St(bars[i]) \/ Re(bars[i]))}
  BY <1>1, <1>2, <1>3 DEF f
<1>12. /\ tends \in SUBSET (1 .. m) /\ sends \in SUBSET (1 .. m)
       /\ \A j \in 1 .. m : j \in tends <=> St(held[j]) \/ Re(held[j])
       /\ \A j \in 1 .. m : j \in sends <=> final(j) \/ Suffers(side, held[j], kept(j))
  BY <1>4
<1>13. \A j : ~trailed(j) => kept(j) = o.stop
  OBVIOUS
<1>14. \A j \in 1 .. m : g + j - 1 \in 1 .. L /\ (j \in tends <=> g + j - 1 \in lends)
  <2> SUFFICES ASSUME NEW j \in 1 .. m
               PROVE  g + j - 1 \in 1 .. L /\ (j \in tends <=> g + j - 1 \in lends)
    OBVIOUS
  <2>1. PICK i \in 1 .. L : i = g + j - 1 /\ g <= i
    BY <1>3, <1>4
  <2>2. held[j] = bars[i]
    BY <1>4, <2>1
  <2>3. j \in tends <=> St(held[j]) \/ Re(held[j])
    BY <1>12
  <2>4. i \in lends <=> St(bars[i]) \/ Re(bars[i])
    BY <1>11, <2>1
  <2> HIDE DEF lends, tends
  <2> QED BY <2>1, <2>2, <2>3, <2>4
<1>15. \A i \in lends : i - g + 1 \in 1 .. m /\ i - g + 1 \in tends
  <2> SUFFICES ASSUME NEW i \in lends
               PROVE  i - g + 1 \in 1 .. m /\ i - g + 1 \in tends
    OBVIOUS
  <2>1. i \in 1 .. L /\ g <= i
    BY <1>11
  <2>2. PICK j \in 1 .. m : j = i - g + 1
    BY <1>4, <2>1
  <2>3. g + j - 1 = i
    BY <2>1, <2>2
  <2> QED BY <1>14, <2>2, <2>3
<1>16. CASE tends = {}
  <2>1. lends = {}
    BY <1>15, <1>16
  <2>2. \A j \in 1 .. m : ~Re(held[j]) /\ ~St(held[j])
    BY <1>12, <1>16
  <2>3. \A j \in 1 .. m : ~trailed(j)
    BY <1>9, <2>2
  <2>4. sends = {}
    BY <1>9, <1>12, <1>13, <2>2, <2>3 DEF St
  <2> HIDE DEF lends, tends, sends
  <2> QED BY <1>6, <1>7, <1>8, <1>10, <1>16, <2>1, <2>4
<1>17. CASE tends # {}
  <2> HIDE DEF lends, tends, sends, kept
  <2>1. PICK e \in 1 .. m : e = Min(tends) /\ e \in tends /\ \A j \in tends : e <= j
    BY <1>12, <1>17, FirstPosition
  <2>2. PICK i \in 1 .. L : i = g + e - 1 /\ i \in lends
    BY <1>14, <2>1
  <2>3. Min(lends) = i
    <3>1. lends \in SUBSET (1 .. L)
      BY <1>11
    <3>2. Min(lends) \in lends /\ \A j \in lends : Min(lends) <= j
      BY <2>2, <3>1, FirstPosition
    <3>3. PICK n \in 1 .. L : n = Min(lends)
      BY <3>1, <3>2
    <3>4. n <= i
      BY <2>2, <3>2, <3>3
    <3>5. e <= n - g + 1
      BY <1>15, <2>1, <3>2, <3>3
    <3> QED BY <2>2, <3>3, <3>4, <3>5
  <2>4. bars[i] = held[e]
    BY <1>4, <2>2
  <2>5. \A j \in 1 .. m : j < e => ~Re(held[j]) /\ ~St(held[j])
    BY <1>12, <2>1
  <2>6. \A j \in 1 .. m : j < e => j \notin sends
    <3>1. \A j \in 1 .. m : j < e => ~trailed(j)
      BY <1>9, <2>5
    <3> QED BY <1>9, <1>12, <1>13, <2>5, <3>1 DEF St
  <2>7. ~Re(held[e]) => ~trailed(e) /\ St(held[e])
    <3>1. ~Re(held[e]) => \A k \in 1 .. e : ~Re(held[k])
      BY <2>5
    <3> QED BY <1>9, <1>12, <2>1, <3>1
  <2>8. e \in sends
    <3>1. Re(held[e]) => final(e)
      BY <1>9
    <3> QED BY <1>12, <1>13, <2>7, <3>1 DEF St
  <2>9. Min(sends) = e
    <3>1. Min(sends) \in sends /\ \A j \in sends : Min(sends) <= j
      BY <1>12, <2>8, FirstPosition
    <3>2. PICK n \in 1 .. m : n = Min(sends)
      BY <1>12, <3>1
    <3> QED BY <2>6, <2>8, <3>1, <3>2
  <2>10. limit = triad /\ limit.how # "open"
    BY <1>6, <1>7, <1>10, <1>17, <2>1, <2>2, <2>3, <2>4
  <2>11. triad.made = IF St(held[e]) THEN lost ELSE won
    BY <1>7, <1>10, <1>17, <2>1
  <2>12. CASE Re(held[e])
    <3>1. swing.how = "TP" /\ swing.made = won
      BY <1>8, <1>9, <1>10, <2>8, <2>9, <2>12 DEF won
    <3> QED BY <2>10, <2>11, <3>1
  <2>13. CASE ~Re(held[e])
    <3>1. swing.made = lost
      BY <1>8, <1>9, <1>10, <1>13, <2>7, <2>8, <2>9, <2>13 DEF lost
    <3> QED BY <2>7, <2>10, <2>11, <2>13, <3>1
  <2> QED BY <2>12, <2>13
<1> QED BY <1>16, <1>17

-----------------------------------------------------------------------------
(* Orders of the engines over the first two candles.                        *)

\* An order whose prices are numbers and whose entry is not its stop.
PricedOrder(o) ==
    /\ o.entry \in Int /\ o.stop \in Int /\ o.entry # o.stop
    /\ o.targets \in Seq(Int) /\ Len(o.targets) \in Nat \ {0}

\* A few prices in a row.
LEMMA PricesInARow ==
    /\ \A a, b \in Int : <<a, b>> \in Seq(Int) /\ Len(<<a, b>>) \in Nat \ {0}
    /\ \A a, b, c \in Int : <<a, b, c>> \in Seq(Int) /\ Len(<<a, b, c>>) \in Nat \ {0}
    /\ \A a, b, c, d \in Int : <<a, b, c, d>> \in Seq(Int) /\ Len(<<a, b, c, d>>) \in Nat \ {0}
OBVIOUS

\* The levels of a box of prices, and its middle, are prices.
LEMMA BoxPrices ==
    ASSUME NEW box, box.high \in Int, box.low \in Int
    PROVE  /\ Width(box) = box.high - box.low /\ Mid(box) = (box.high + box.low) \div 2
           /\ Mid(box) \in Int
           /\ \A h \in Int : /\ Level(box, h) \in Int
                             /\ Level(box, h) =
                                   (IF h > 0 THEN box.high ELSE box.low) + (h * (box.high - box.low)) \div 2
BY DEF Width, Mid, Level

\* The orders of a box of two units at least are priced: 1.5 deviations are less than two,
LEMMA PrelondonPriced ==
    ASSUME NEW box, box.high \in Int, box.low \in Int, box.high - box.low > 1,
           NEW o \in PrelondonOrders(box)
    PROVE  PricedOrder(o)
<1> DEFINE lv(h) == Level(box, h)
           mid   == Mid(box)
           Fits(entry, stop, goals) == o.entry = entry /\ o.stop = stop /\ o.targets = goals
<1>1. PICK high \in Int, low \in Int, W \in Nat : high = box.high /\ low = box.low /\ W = high - low /\ W > 1
  OBVIOUS
<1>2. mid \in Int /\ mid = (high + low) \div 2 /\ \A h \in Int : lv(h) \in Int
  BY <1>1, BoxPrices
<1>3. /\ lv(2) = high + W /\ lv(4) = high + 2 * W /\ lv(6) = high + 3 * W /\ lv(8) = high + 4 * W
      /\ lv(3) = high + (3 * W) \div 2
      /\ lv(-2) = low - W /\ lv(-4) = low - 2 * W /\ lv(-3) = low + (-3 * W) \div 2
      /\ lv(-6) = low - 3 * W
  <2>1. \A h \in {2, 3, 4, 6, 8, -2, -3, -4, -6} :
           lv(h) = (IF h > 0 THEN high ELSE low) + (h * W) \div 2
    BY <1>1, BoxPrices
  <2> HIDE DEF lv
  <2> QED BY <2>1
<1>4. \/ Fits(lv(-2), lv(-4), <<mid, lv(2)>>)
      \/ Fits(lv(2), lv(4), <<mid, lv(-2)>>)
      \/ Fits(lv(6), lv(8), <<lv(2), mid>>)
      \/ Fits(lv(-3), lv(-4), <<mid, lv(2)>>)
      \/ Fits(lv(3), lv(4), <<mid, lv(-2)>>)
      \/ Fits(lv(2), mid, <<lv(4), lv(6)>>)
      \/ Fits(lv(-2), mid, <<lv(-4), lv(-6)>>)
  <2> DEFINE Made(side, kind, at, e, s, g) == Order(box, side, kind, at, e, s, g)
  <2>1. PrelondonOrders(box) =
           {Made("long",  "limit", -2, lv(-2), lv(-4), <<mid, lv(2)>>),
            Made("short", "limit",  2, lv(2), lv(4), <<mid, lv(-2)>>),
            Made("short", "limit",  6, lv(6), lv(8), <<lv(2), mid>>),
            Made("long",  "limit", -3, lv(-3), lv(-4), <<mid, lv(2)>>),
            Made("short", "limit",  3, lv(3), lv(4), <<mid, lv(-2)>>),
            Made("long",  "stop",  2, lv(2), mid, <<lv(4), lv(6)>>),
            Made("short", "stop", -2, lv(-2), mid, <<lv(-4), lv(-6)>>)}
    <3> HIDE DEF Made
    <3> QED BY DEF PrelondonOrders, Made
  <2>2. \A side, kind, at, e, s, g : o = Made(side, kind, at, e, s, g) => Fits(e, s, g)
    BY DEF Order
  <2> HIDE DEF Made, Fits, lv, mid
  <2> QED BY <2>1, <2>2
<1> HIDE DEF lv, mid
<1>5. /\ lv(-2) # lv(-4) /\ lv(2) # lv(4) /\ lv(6) # lv(8) /\ lv(-3) # lv(-4) /\ lv(3) # lv(4)
      /\ lv(2) # mid /\ lv(-2) # mid
  BY <1>1, <1>2, <1>3
<1>6. \A a, b, c, d \in Int : a # b /\ Fits(a, b, <<c, d>>) => PricedOrder(o)
  <2>1. \A c, d \in Int : <<c, d>> \in Seq(Int) /\ Len(<<c, d>>) \in Nat \ {0}
    BY PricesInARow
  <2> QED BY <2>1 DEF PricedOrder
<1> HIDE DEF Fits
<1>7. /\ lv(2) \in Int /\ lv(3) \in Int /\ lv(4) \in Int /\ lv(6) \in Int /\ lv(8) \in Int
      /\ lv(-2) \in Int /\ lv(-3) \in Int /\ lv(-4) \in Int /\ lv(-6) \in Int
  BY <1>2
<1> QED BY <1>2, <1>4, <1>5, <1>6, <1>7

\* and so are those that chain two boxes.
LEMMA CrossPriced ==
    ASSUME NEW asian, asian.high \in Int, asian.low \in Int, asian.high > asian.low,
           NEW london, \A b \in london : b.high \in Int /\ b.low \in Int /\ b.high > b.low,
           StopPad \in Nat, NEW weekly, NEW macro, NEW o \in CrossSession(asian, london, weekly, macro, 50, 4)
    PROVE  PricedOrder(o)
<1> DEFINE tgt   == IF london = {} THEN asian ELSE CHOOSE b \in london : TRUE
           lv(h) == Level(tgt, h)
           top   == Level(asian, 2)
           high  == asian.high + (4 * Width(asian)) \div 2 + StopPad
           low   == tgt.low - (4 * Width(tgt)) \div 2 - StopPad
           mid   == Mid(tgt)
           Fits(entry, stop, goals) == o.entry = entry /\ o.stop = stop /\ o.targets = goals
<1>1. tgt.high \in Int /\ tgt.low \in Int /\ tgt.high > tgt.low
  OBVIOUS
<1>2. \/ Fits(top, high, <<mid, lv(-2), lv(-4), lv(-6)>>)
      \/ Fits(lv(-2), low, <<mid, lv(2), lv(4)>>)
  <2> DEFINE Sold(score) == [side |-> "short", entry |-> top, stop |-> high,
                             targets |-> <<mid, lv(-2), lv(-4), lv(-6)>>, score |-> score]
             Bought(score) == [side |-> "long", entry |-> lv(-2), stop |-> low,
                               targets |-> <<mid, lv(2), lv(4)>>, score |-> score]
             geometry == Level(asian, 2) > lv(-2)
             sell == Sold(ConfluenceScore(-1, weekly, macro, geometry))
             buy  == Bought(ConfluenceScore(1, weekly, macro, TRUE))
  <2>1. CrossSession(asian, london, weekly, macro, 50, 4) =
           {r \in (IF weekly < 0 /\ macro < 0 /\ Level(asian, 2) # 0 /\ lv(-2) # 0
                     THEN {sell} ELSE {})
                   \cup (IF lv(-2) # 0 /\ lv(2) # 0 THEN {buy} ELSE {}) : r.score >= 50}
    BY DEF CrossSession
  <2>2. /\ \A x : o = Sold(x) => Fits(top, high, <<mid, lv(-2), lv(-4), lv(-6)>>)
        /\ \A x : o = Bought(x) => Fits(lv(-2), low, <<mid, lv(2), lv(4)>>)
    <3> HIDE DEF tgt, lv, top, high, low, mid
    <3> QED OBVIOUS
  <2> HIDE DEF tgt, lv, top, high, low, mid, Sold, Bought, Fits, geometry
  <2>3. o = sell \/ o = buy
    <3> HIDE DEF sell, buy
    <3> QED BY <2>1
  <2> QED BY <2>2, <2>3
<1>3. mid \in Int /\ \A h \in Int : lv(h) \in Int
  <2> HIDE DEF tgt
  <2> QED BY <1>1, BoxPrices
<1>4. top \in Int /\ high \in Int /\ top # high
  <2>1. Width(asian) = asian.high - asian.low /\ top = asian.high + (2 * (asian.high - asian.low)) \div 2
    BY BoxPrices
  <2> HIDE DEF top
  <2> QED BY <2>1
<1>5. lv(-2) \in Int /\ low \in Int /\ lv(-2) # low
  <2>1. Width(tgt) = tgt.high - tgt.low /\ lv(-2) = tgt.low + (-2 * (tgt.high - tgt.low)) \div 2
    <3> HIDE DEF tgt
    <3> QED BY <1>1, BoxPrices
  <2>2. PICK a \in Int, b \in Int : a = tgt.high /\ b = tgt.low /\ a > b
    BY <1>1
  <2> HIDE DEF lv, tgt
  <2> QED BY <2>1, <2>2
<1> HIDE DEF tgt, lv, top, high, low, mid
<1>6. /\ <<mid, lv(-2), lv(-4), lv(-6)>> \in Seq(Int) /\ Len(<<mid, lv(-2), lv(-4), lv(-6)>>) \in Nat \ {0}
      /\ <<mid, lv(2), lv(4)>> \in Seq(Int) /\ Len(<<mid, lv(2), lv(4)>>) \in Nat \ {0}
  <2>1. lv(-2) \in Int /\ lv(-4) \in Int /\ lv(-6) \in Int /\ lv(2) \in Int /\ lv(4) \in Int
    BY <1>3
  <2> QED BY <1>3, <2>1, PricesInARow
<1> QED BY <1>2, <1>4, <1>5, <1>6 DEF PricedOrder

\* The box of a session's hours, where there is one, is of prices and has a height.
LEMMA HoursBoxType ==
    ASSUME NEW bars, Shows(bars), NEW hours, NEW b \in HoursBox(bars, hours)
    PROVE  b.high \in Int /\ b.low \in Int /\ b.high > b.low
<1> DEFINE of == {i \in DOMAIN bars : bars[i].hour \in hours}
           H  == {bars[i].high : i \in of}
           L  == {bars[i].low : i \in of}
<1>1. /\ ~(Cardinality(of) < 2)
      /\ ~(TopOf(bars, of) <= BottomOf(bars, of))
      /\ b = [high |-> TopOf(bars, of), low |-> BottomOf(bars, of)]
  <2> HIDE DEF of
  <2> QED BY DEF HoursBox, of
<1>2. of # {}
  <2>1. Cardinality(of) = Cardinality(of)
    BY DEF Cardinality
  <2>2. Cardinality({}) = 0
    BY FS_EmptySet
  <2> HIDE DEF of
  <2> QED BY <1>1, <2>1, <2>2
<1>3. Levels(H) /\ Levels(L)
  <2>1. of \in SUBSET (DOMAIN bars)
    OBVIOUS
  <2> HIDE DEF of
  <2> QED BY <2>1, BarLevels
<1>4. b.high = Max(H) /\ b.low = Min(L)
  <2> HIDE DEF of
  <2> QED BY <1>1 DEF TopOf, BottomOf
<1>5. H # {} /\ L # {}
  BY <1>2
<1>6. ~(b.high <= b.low)
  <2> HIDE DEF of
  <2> QED BY <1>1
<1> HIDE DEF H, L
<1> QED BY <1>3, <1>4, <1>5, <1>6, LevelEnds

\* The orders of a feed.
LEMMA TradedPriced ==
    ASSUME NEW bars \in Seq(Candles), Len(bars) >= 2, \A c \in Candles : Shown(c),
           Halvable, StopPad \in Nat, NEW o \in Traded(bars)
    PROVE  PricedOrder(o)
<1> DEFINE pair  == SubSeq(bars, 1, 2)
           box   == CbdrBox(pair)
           night == Overnight(bars)
<1>1. \/ ~(Width(box) <= 0) /\ o \in PrelondonOrders(box)
      \/ \E t \in ConfluenceTrades(night, -1, -1) : o = t.decision
  BY DEF Traded
<1>2. CASE ~(Width(box) <= 0) /\ o \in PrelondonOrders(box)
  <2>1. /\ pair \in Seq(Candles) /\ Len(pair) = 2
        /\ pair[1] = bars[1] /\ pair[2] = bars[2] /\ bars[1] \in Candles /\ bars[2] \in Candles
    <3>1. Len(bars) \in Nat
      BY LenProperties
    <3>2. /\ pair \in Seq(Candles) /\ Len(pair) = IF 1 <= 2 THEN 2 - 1 + 1 ELSE 0
          /\ \A i \in 1 .. (2 - 1 + 1) : pair[i] = bars[1 + i - 1]
      <4> HIDE DEF pair
      <4> QED BY <3>1, PartOfFeed DEF pair
    <3>3. pair[1] = bars[1 + 1 - 1] /\ pair[2] = bars[1 + 2 - 1]
      <4> HIDE DEF pair
      <4> QED BY <3>2
    <3>4. bars[1] \in Candles /\ bars[2] \in Candles
      BY <3>1, ElementOfSeq
    <3> HIDE DEF pair
    <3> QED BY <3>2, <3>3, <3>4
  <2>2. PICK c \in Candles, d \in Candles : c = bars[1] /\ d = bars[2]
    BY <2>1
  <2> HIDE DEF pair
  <2>3. Shows(pair) /\ DOMAIN pair = 1 .. 2
    BY <2>1, FeedShows DEF Shows
  <2> DEFINE H == {pair[i].high : i \in DOMAIN pair}
             L == {pair[i].low : i \in DOMAIN pair}
  <2>4. Levels(H) /\ Levels(L)
    BY <2>3, BarLevels
  <2>5. H = {c.high, d.high} /\ L = {c.low, d.low}
    BY <2>1, <2>2, <2>3
  <2>6. box.high = Max(H) /\ box.low = Min(L)
    BY DEF CbdrBox
  <2>7. Max({c.high, d.high}) - Min({c.low, d.low}) # 1
    BY DEF Halvable
  <2> HIDE DEF H, L, box
  <2>8. H # {} /\ L # {}
    BY <2>5
  <2>9. PICK high \in Int, low \in Int : high = box.high /\ low = box.low
    BY <2>4, <2>6, <2>8, LevelEnds
  <2>10. high - low # 1 /\ ~(high - low <= 0)
    BY <1>2, <2>5, <2>6, <2>7, <2>9 DEF Width
  <2>11. box.high - box.low > 1
    BY <2>9, <2>10
  <2> QED BY <1>2, <2>9, <2>11, PrelondonPriced
<1>3. CASE \E t \in ConfluenceTrades(night, -1, -1) : o = t.decision
  <2>1. Shows(night)
    <3>1. Shows(bars)
      BY FeedShows
    <3>2. PICK n \in Nat : n = Len(bars) /\ DOMAIN bars = 1 .. n
      BY <3>1 DEF Shows
    <3>3. night = [i \in 1 .. n |-> AtHour(bars[i], 5 + i)]
      BY <3>2 DEF Overnight
    <3> HIDE DEF night
    <3>4. DOMAIN night = 1 .. n /\ Len(night) = n
      BY <3>3
    <3>5. \A i \in 1 .. n : /\ night[i].high = bars[i].high /\ night[i].low = bars[i].low
                            /\ night[i].close = bars[i].close
      BY <3>3 DEF AtHour
    <3>6. night = <<>> <=> n = 0
      BY <3>3, <3>4
    <3> QED BY <3>1, <3>2, <3>4, <3>5, <3>6 DEF Shows
  <2> HIDE DEF night
  <2> DEFINE ahead == SelectSeq(night, LAMBDA b : b.hour >= 8)
             london == HoursBox(night, 8 .. 12)
             Trade(x) == [decision |-> x, result |-> SimulateLimit(x, ahead)]
  <2>2. \E asian \in HoursBox(night, 0 .. 7) :
           \E x \in CrossSession(asian, london, -1, -1, 50, 4) : o = x
    <3>1. PICK t \in ConfluenceTrades(night, -1, -1) : o = t.decision
      BY <1>3
    <3>2. ConfluenceTrades(night, -1, -1) =
             UNION {{Trade(x) : x \in CrossSession(asian, london, -1, -1, 50, 4)} :
                       asian \in HoursBox(night, 0 .. 7)}
      BY DEF ConfluenceTrades
    <3>3. \A x : Trade(x).decision = x
      OBVIOUS
    <3> HIDE DEF Trade, london
    <3>4. \E asian \in HoursBox(night, 0 .. 7) :
             \E x \in CrossSession(asian, london, -1, -1, 50, 4) : t = Trade(x)
      BY <3>1, <3>2
    <3> QED BY <3>1, <3>3, <3>4
  <2>3. PICK asian \in HoursBox(night, 0 .. 7) : o \in CrossSession(asian, london, -1, -1, 50, 4)
    BY <2>2
  <2>4. asian.high \in Int /\ asian.low \in Int /\ asian.high > asian.low
    BY <2>1, HoursBoxType
  <2>5. \A b \in london : b.high \in Int /\ b.low \in Int /\ b.high > b.low
    BY <2>1, HoursBoxType
  <2> HIDE DEF london
  <2> QED BY <2>3, <2>4, <2>5, CrossPriced
<1> QED BY <1>1, <1>2, <1>3

-----------------------------------------------------------------------------
(* The live book over a history.                                            *)

\* The rows of the book that a card can become.
BookRows(card, until) ==
    [card : {card}, status : {"OPEN", "CLOSED"}, opened : {0}, until : {until}, be : BOOLEAN,
     tp : Int, stop : Int, exit : Int, reason : {"", "TP", "SL", "BE", "TIME"}]

\* A swing's card.
BookCard(card) ==
    /\ card.type = "swing" /\ card.entry \in Int /\ card.stop \in Int
    /\ card.targets \in Seq(Int) /\ Len(card.targets) \in Nat \ {0}

Met(card, t, price) == Book!Gain(card.side, card.targets[t], price) >= 0

\* The number of the last target met.
LEMMA LastMet ==
    ASSUME NEW card, BookCard(card), NEW price
    PROVE  LET tp == Book!TpHit(card, price)
           IN  /\ tp \in Int
               /\ tp >= 1 <=> \E t \in DOMAIN card.targets : Met(card, t, price)
               /\ tp = Len(card.targets) <=> Met(card, Len(card.targets), price)
<1> DEFINE tp  == Book!TpHit(card, price)
           met == {i \in DOMAIN card.targets : Met(card, i, price)}
<1>1. tp = IF met = {} THEN 0 ELSE Book!Max(met)
  BY DEF Book!TpHit, Met
<1>2. PICK n \in Nat \ {0} : n = Len(card.targets) /\ DOMAIN card.targets = 1 .. n
  BY LenProperties DEF BookCard
<1>3. \A t : t \in met <=> t \in 1 .. n /\ Met(card, t, price)
  BY <1>2
<1>4. met \in SUBSET (1 .. n) /\ met \in SUBSET Int
  BY <1>2
<1> HIDE DEF met, tp
<1>5. met # {} => Book!Max(met) \in met /\ \A x \in met : x <= Book!Max(met)
  <2> SUFFICES ASSUME met # {}
               PROVE  Book!Max(met) \in met /\ \A x \in met : x <= Book!Max(met)
    OBVIOUS
  <2>1. IsFiniteSet(met)
    <3>1. IsFiniteSet(1 .. n)
      BY FS_Interval
    <3> QED BY <1>4, <3>1, FS_Subset
  <2>2. Top(met) \in met /\ \A x \in met : x <= Top(met)
    BY <1>4, <2>1, TopIn
  <2>3. Book!Max(met) = Top(met)
    BY DEF Book!Max, Top, Max
  <2> QED BY <2>2, <2>3
<1>6. tp \in Int /\ (tp >= 1 <=> met # {}) /\ (tp = n <=> n \in met)
  <2>1. CASE met = {}
    BY <1>1, <1>2, <2>1
  <2>2. CASE met # {}
    <3>1. PICK m \in 1 .. n : m = tp /\ m \in met /\ \A x \in met : x <= m
      BY <1>1, <1>4, <1>5, <2>2
    <3>2. n \in met => n <= m
      BY <3>1
    <3> QED BY <2>2, <3>1, <3>2
  <2> QED BY <2>1, <2>2
<1> QED BY <1>2, <1>3, <1>6 DEF tp

\* One pass of the book over an open swing.
LEMMA BookPasses ==
    ASSUME NEW card, BookCard(card), NEW n \in Nat, NEW row \in BookRows(card, n), NEW price \in Int,
           NEW i \in Nat, NEW next, next = Book!Evaluate(row, price, i),
           NEW be \in BOOLEAN,
           be <=> (row.be \/ \E t \in DOMAIN card.targets : Met(card, t, price)),
           NEW held, held = (IF be THEN card.entry ELSE card.stop),
           NEW done \in BOOLEAN, done <=> Met(card, Len(card.targets), price),
           NEW hit \in BOOLEAN, hit <=> Book!Gain(card.side, held, price) <= 0
    PROVE  /\ next \in BookRows(card, n) /\ next.be = be
           /\ done => next.status = "CLOSED" /\ next.reason = "TP"
                       /\ next.exit = card.targets[Len(card.targets)]
           /\ ~done /\ hit => /\ next.status = "CLOSED" /\ next.reason = (IF be THEN "BE" ELSE "SL")
                              /\ next.exit = held
           /\ ~done /\ ~hit /\ i >= n =>
                 next.status = "CLOSED" /\ next.reason = "TIME" /\ next.exit = price
           /\ ~done /\ ~hit /\ i < n => next.status = "OPEN"
<1> DEFINE last == Len(card.targets)
           tp   == Book!TpHit(card, price)
           kept == Book!Held(row, price)
<1>1. /\ tp \in Int /\ (tp >= 1 <=> \E t \in DOMAIN card.targets : Met(card, t, price))
      /\ (tp = last <=> Met(card, last, price))
  BY LastMet
<1>2. last \in Nat \ {0} /\ card.targets[last] \in Int
  BY ElementOfSeq DEF BookCard
<1>3. row.card = card /\ row.until = n /\ row.be \in BOOLEAN /\ row.exit \in Int /\ row.opened = 0
      /\ row.reason \in {"", "TP", "SL", "BE", "TIME"}
  BY DEF BookRows
<1> HIDE DEF last, tp
<1>4. Book!Trails(row, price) <=> be
  <2>1. "swing" \notin Book!ScalpBeTiers
    BY DEF Book!ScalpBeTiers
  <2>2. Book!TpHit(row.card, price) = tp
    BY <1>3 DEF tp
  <2>3. Book!Trails(row, price) <=> row.be \/ tp >= 1
    BY <1>3, <2>1, <2>2 DEF Book!Trails, BookCard
  <2> QED BY <1>1, <2>3
<1>5. kept = [card |-> card, status |-> "OPEN", opened |-> 0, until |-> n, be |-> be, tp |-> tp,
              stop |-> held, exit |-> row.exit, reason |-> row.reason]
  <2>1. Book!Trails(row, price) = be
    <3>1. Book!Trails(row, price) \in BOOLEAN
      BY <1>3 DEF Book!Trails
    <3> QED BY <1>4, <3>1
  <2> QED BY <1>3, <2>1 DEF Book!Held, tp
<1>6. held \in Int
  BY DEF BookCard
<1> DEFINE final == last > 0 /\ kept.tp = last
           ends  == Book!Gain(card.side, kept.stop, price) <= 0
           Shut(exit, reason) == Book!Closed(kept, exit, reason)
<1>7. next = CASE final -> Shut(card.targets[last], "TP")
               [] ~final /\ ends -> Shut(kept.stop, IF kept.be THEN "BE" ELSE "SL")
               [] ~final /\ ~ends /\ i >= n -> Shut(price, "TIME")
               [] OTHER -> kept
  BY <1>3 DEF Book!Evaluate, last
<1>8. (final <=> done) /\ (ends <=> hit) /\ kept.stop = held /\ kept.be = be
  BY <1>1, <1>2, <1>5 DEF last
<1> DEFINE Line(status, exit, reason) ==
              [card |-> card, status |-> status, opened |-> 0, until |-> n, be |-> be, tp |-> tp,
               stop |-> held, exit |-> exit, reason |-> reason]
<1>9. \A status \in {"OPEN", "CLOSED"}, exit \in Int, reason \in {"", "TP", "SL", "BE", "TIME"} :
          Line(status, exit, reason) \in BookRows(card, n)
  <2>1. card \in {card} /\ 0 \in {0} /\ n \in {n}
    OBVIOUS
  <2> QED BY <1>1, <1>6, <2>1, ZenonT(60) DEF BookRows
<1>10. \A status, exit, reason :
          /\ Line(status, exit, reason).be = be /\ Line(status, exit, reason).status = status
          /\ Line(status, exit, reason).exit = exit /\ Line(status, exit, reason).reason = reason
  OBVIOUS
<1>11. \A exit, reason : Shut(exit, reason) = Line("CLOSED", exit, reason)
  BY <1>5 DEF Book!Closed
<1>12. kept = Line("OPEN", row.exit, row.reason)
  BY <1>5
<1> HIDE DEF Line, kept, Shut, final, ends
<1>13. kept \in BookRows(card, n) /\ kept.status = "OPEN"
  BY <1>3, <1>9, <1>10, <1>12, ZenonT(60)
<1>14. \A exit \in Int, reason \in {"TP", "SL", "BE", "TIME"} :
          /\ Shut(exit, reason) \in BookRows(card, n) /\ Shut(exit, reason).be = be
          /\ Shut(exit, reason).status = "CLOSED" /\ Shut(exit, reason).reason = reason
          /\ Shut(exit, reason).exit = exit
  <2> SUFFICES ASSUME NEW exit \in Int, NEW reason \in {"TP", "SL", "BE", "TIME"}
               PROVE  /\ Shut(exit, reason) \in BookRows(card, n) /\ Shut(exit, reason).be = be
                      /\ Shut(exit, reason).status = "CLOSED" /\ Shut(exit, reason).reason = reason
                      /\ Shut(exit, reason).exit = exit
    OBVIOUS
  <2>1. reason \in {"", "TP", "SL", "BE", "TIME"} /\ "CLOSED" \in {"OPEN", "CLOSED"}
    OBVIOUS
  <2>2. Line("CLOSED", exit, reason) \in BookRows(card, n)
    BY <1>9, <2>1
  <2> QED BY <1>10, <1>11, <2>2
<1>15. CASE done
  BY <1>2, <1>7, <1>8, <1>14, <1>15 DEF last
<1>16. CASE ~done /\ hit
  BY <1>6, <1>7, <1>8, <1>14, <1>16
<1>17. CASE ~done /\ ~hit /\ i >= n
  BY <1>7, <1>8, <1>14, <1>17
<1>18. CASE ~done /\ ~hit /\ i < n
  <2>1. next = kept
    BY <1>7, <1>8, <1>18
  <2> QED BY <1>8, <1>13, <1>18, <2>1
<1> QED BY <1>15, <1>16, <1>17, <1>18

\* On closes the forward walk and the book's passes end a trade at the same one.
LEMMA BooksAreAlike ==
    ASSUME NEW bars \in Seq(Candles), bars # <<>>, NEW o, PricedOrder(o)
    PROVE  BooksAlike(o, bars)
<1> DEFINE side  == o.side
           goals == o.targets
           last  == Len(goals)
           ns    == [i \in DOMAIN bars |-> i]
           start == Opened(o, Len(bars))
           card  == start.card
           Pass(row, i) == IF row.status = "OPEN" THEN Book!Evaluate(row, bars[i].close, i) ELSE row
           iter  == CHOOSE h : h = [s \in SUBSET DOMAIN ns |->
                       IF s = {} THEN start ELSE Pass(h[s \ {Max(s)}], ns[Max(s)])]
           WonAt(to) == Won(side, o.entry, to)
           price(i) == bars[i].close
           met(i)     == \E t \in DOMAIN goals : Met(card, t, price(i))
           trailed(i) == \E k \in 1 .. i : met(k)
           final(i)   == Met(card, last, price(i))
           held(i)    == IF trailed(i) THEN o.entry ELSE o.stop
           hit(i)     == Book!Gain(side, held(i), price(i)) <= 0
           ends       == {i \in DOMAIN bars : final(i) \/ hit(i)}
           R(e) == IF final(e) THEN "TP" ELSE IF trailed(e) THEN "BE" ELSE "SL"
           X(e) == IF final(e) THEN goals[last] ELSE held(e)
<1>1. PICK n \in Nat \ {0} : n = Len(bars) /\ DOMAIN bars = 1 .. n
  BY LenProperties, EmptySeq
<1>2. \A i \in 1 .. n : price(i) \in Int
  BY <1>1, CandlePrices
<1>3. /\ card = [born |-> "market", side |-> o.side, type |-> "swing", entry |-> o.entry,
                 stop |-> o.stop, targets |-> o.targets, risk |-> 0, end |-> 0]
      /\ start = [card |-> card, status |-> "OPEN", opened |-> 0, until |-> n, be |-> FALSE, tp |-> 0,
                  stop |-> o.stop, exit |-> 0, reason |-> ""]
  BY <1>1 DEF Opened
<1>4. last \in Nat \ {0} /\ goals \in Seq(Int) /\ DOMAIN goals = 1 .. last /\ \A t \in 1 .. last : goals[t] \in Int
  BY LenProperties, ElementOfSeq DEF PricedOrder
<1>5. /\ BookCard(card) /\ card.side = side /\ card.entry = o.entry /\ card.stop = o.stop
      /\ card.targets = goals /\ o.entry \in Int /\ o.stop \in Int /\ o.entry # o.stop
  <2> HIDE DEF card, start
  <2> QED BY <1>3 DEF BookCard, PricedOrder
<1>6. BookedBy(o, bars) = Ended(iter[DOMAIN ns].reason, WonAt(iter[DOMAIN ns].exit))
  BY DEF BookedBy, FoldLeft, MapThenFoldSet, Max
<1>7. DOMAIN ns = 1 .. n /\ \A i \in 1 .. n : ns[i] = i
  BY <1>1
<1> HIDE DEF iter, ns, goals, last, side, WonAt, start, card

  (* The walk. *)
<1>8. SimulateForward(o.entry, o.stop, o.targets, o.side, Closes(bars)) =
         IF ends = {} THEN Ended("TIME", WonAt(price(n)))
         ELSE Ended(R(Min(ends)), WonAt(X(Min(ends))))
  <2> DEFINE shown == Closes(bars)
             final0(i) == last > 0 /\ Reaches(side, shown[i], goals[last])
             trailed0(i) == \E k \in 1..i, t \in DOMAIN goals : Reaches(side, shown[k], goals[t])
             held0(i) == IF trailed0(i) THEN o.entry ELSE o.stop
             ends0 == {i \in DOMAIN shown : final0(i) \/ Suffers(side, shown[i], held0(i))}
             m == Min(ends0)
  <2>1. SimulateForward(o.entry, o.stop, o.targets, o.side, shown) =
           IF o.entry = o.stop \/ shown = <<>> THEN Ended("invalid", 0)
           ELSE IF ends0 = {} THEN Ended("TIME", WonAt(shown[Len(shown)].close))
           ELSE IF final0(m) THEN Ended("TP", WonAt(goals[last]))
           ELSE Ended(IF trailed0(m) THEN "BE" ELSE "SL", WonAt(held0(m)))
    <3> HIDE DEF shown
    <3> QED BY DEF SimulateForward, goals, last, side, WonAt
  <2>2. shown = [i \in 1 .. n |-> [open |-> bars[i].close, high |-> bars[i].close,
                                   low |-> bars[i].close, close |-> bars[i].close]]
    BY <1>1 DEF Closes
  <2>3. DOMAIN shown = 1 .. n /\ Len(shown) = n /\ shown # <<>>
    BY <2>2
  <2>4. \A i \in 1 .. n : /\ shown[i].high = price(i) /\ shown[i].low = price(i)
                          /\ shown[i].close = price(i)
    BY <2>2
  <2> HIDE DEF shown, price
  <2>5. \A i \in 1 .. n : \A t \in 1 .. last :
           Reaches(side, shown[i], goals[t]) <=> Met(card, t, price(i))
    <3> SUFFICES ASSUME NEW i \in 1 .. n, NEW t \in 1 .. last
                 PROVE  Reaches(side, shown[i], goals[t]) <=> Met(card, t, price(i))
      OBVIOUS
    <3>1. PICK p \in Int, g \in Int : p = price(i) /\ g = goals[t]
      BY <1>2, <1>4
    <3> QED BY <1>5, <2>4, <3>1 DEF Reaches, Met, Book!Gain
  <2>6. \A i \in 1 .. n : final0(i) <=> final(i)
    BY <1>4, <2>5
  <2>7. \A i \in 1 .. n : trailed0(i) <=> trailed(i)
    <3> SUFFICES ASSUME NEW i \in 1 .. n PROVE trailed0(i) <=> trailed(i)
      OBVIOUS
    <3>1. \A k \in 1 .. i : k \in 1 .. n
      OBVIOUS
    <3> QED BY <1>4, <2>5, <3>1
  <2>8. \A i \in 1 .. n : held0(i) = held(i)
    <3> HIDE DEF trailed0, trailed
    <3> QED BY <2>7
  <2>9. \A i \in 1 .. n : Suffers(side, shown[i], held0(i)) <=> hit(i)
    <3> SUFFICES ASSUME NEW i \in 1 .. n
                 PROVE  Suffers(side, shown[i], held0(i)) <=> hit(i)
      OBVIOUS
    <3>1. held0(i) = held(i) /\ (held(i) = o.entry \/ held(i) = o.stop)
      BY <2>8
    <3> HIDE DEF held0, held
    <3>2. PICK p \in Int, g \in Int : p = price(i) /\ g = held(i) /\ g = held0(i)
      BY <1>2, <1>5, <3>1
    <3> QED BY <2>4, <3>2 DEF Suffers, Book!Gain
  <2>10. ends0 = ends
    <3> HIDE DEF final0, final, hit, held0
    <3> QED BY <1>1, <2>3, <2>6, <2>9
  <2>11. ends # {} => Min(ends) \in 1 .. n
    <3>1. ends \in SUBSET (1 .. n)
      BY <1>1
    <3> HIDE DEF ends
    <3> QED BY <3>1, FirstPosition
  <2>12. shown[Len(shown)].close = price(n)
    BY <2>3, <2>4
  <2> HIDE DEF ends, ends0, final0, final, trailed0, trailed, held0, held
  <2>13. CASE ends = {}
    BY <1>5, <2>1, <2>3, <2>10, <2>12, <2>13 DEF shown
  <2>14. CASE ends # {}
    <3>1. PICK e \in 1 .. n : e = Min(ends)
      BY <2>11, <2>14
    <3>2. m = e
      BY <2>10, <3>1
    <3>3. (final0(e) <=> final(e)) /\ (trailed0(e) <=> trailed(e)) /\ held0(e) = held(e)
      BY <2>6, <2>7, <2>8
    <3> HIDE DEF m
    <3>4. SimulateForward(o.entry, o.stop, o.targets, o.side, shown) =
             IF final(e) THEN Ended("TP", WonAt(goals[last]))
             ELSE Ended(IF trailed(e) THEN "BE" ELSE "SL", WonAt(held(e)))
      BY <1>5, <2>1, <2>3, <2>10, <2>14, <3>2, <3>3
    <3>5. CASE final(e)
      BY <2>14, <3>1, <3>4, <3>5 DEF shown
    <3>6. CASE ~final(e)
      BY <2>14, <3>1, <3>4, <3>6 DEF shown
    <3> QED BY <3>5, <3>6
  <2> QED BY <2>13, <2>14
<1>9. ends \in SUBSET (1 .. n) /\ \A i \in 1 .. n : i \in ends <=> final(i) \/ hit(i)
  BY <1>1

  (* The passes. *)
<1> DEFINE T == BookRows(card, n)
           step == [p \in (1 .. n) \X T |-> Pass(p[2], p[1])]
<1>10. start \in T
  <2>1. FALSE \in BOOLEAN /\ 0 \in Int /\ card \in {card} /\ n \in {n} /\ 0 \in {0}
    OBVIOUS
  <2> QED BY <1>3, <1>5, <2>1, ZenonT(60) DEF BookRows
<1>11. \A row \in T : \A i \in 1 .. n : Pass(row, i) \in T
  <2> SUFFICES ASSUME NEW row \in T, NEW i \in 1 .. n, row.status = "OPEN"
               PROVE  Book!Evaluate(row, bars[i].close, i) \in T
    OBVIOUS
  <2>1. PICK p \in Int : p = bars[i].close
    BY <1>2
  <2>2. PICK be \in BOOLEAN : be <=> (row.be \/ \E t \in DOMAIN card.targets : Met(card, t, p))
    OBVIOUS
  <2>3. PICK h : h = IF be THEN card.entry ELSE card.stop
    OBVIOUS
  <2>4. PICK done \in BOOLEAN : done <=> Met(card, Len(card.targets), p)
    OBVIOUS
  <2>5. PICK ended \in BOOLEAN : ended <=> Book!Gain(card.side, h, p) <= 0
    OBVIOUS
  <2> QED BY <1>5, <2>1, <2>2, <2>3, <2>4, <2>5, BookPasses
<1> HIDE DEF T, Pass
<1>12. step \in [(1 .. n) \X T -> T]
  BY <1>11
<1>13. \A k \in 1 .. n : \A t \in T : step[<<k, t>>] = Pass(t, ns[k])
  BY <1>7
<1> HIDE DEF step
<1>14. PICK g \in [SUBSET (1 .. n) -> T] : Steps(g, step, start, SUBSET (1 .. n))
  BY <1>10, <1>12, StepsExist
<1>15. \A s \in SUBSET (1 .. n) :
         (IF s = {} THEN start ELSE step[<<Top(s), g[s \ {Top(s)}]>>])
         = IF s = {} THEN start ELSE Pass(g[s \ {Max(s)}], ns[Max(s)])
  <2>1. ASSUME NEW s \in SUBSET (1 .. n), s # {}
        PROVE  Top(s) \in 1 .. n /\ g[s \ {Top(s)}] \in T
    <3>1. Top(s) \in s /\ s \ {Top(s)} \in SUBSET (1 .. n)
      BY <2>1, TopLast
    <3> QED BY <3>1
  <2>2. ASSUME NEW s \in SUBSET (1 .. n), s # {}
        PROVE  step[<<Top(s), g[s \ {Top(s)}]>>] = Pass(g[s \ {Max(s)}], ns[Max(s)])
    BY <1>13, <2>1, <2>2 DEF Top
  <2> QED BY <2>2
<1>16. g = [s \in SUBSET DOMAIN ns |->
             IF s = {} THEN start ELSE Pass(g[s \ {Max(s)}], ns[Max(s)])]
  <2>1. g = [s \in SUBSET (1 .. n) |-> IF s = {} THEN start ELSE step[<<Top(s), g[s \ {Top(s)}]>>]]
    BY <1>14 DEF Steps
  <2> QED BY <1>7, <1>15, <2>1
<1>17. iter = [s \in SUBSET DOMAIN ns |->
             IF s = {} THEN start ELSE Pass(iter[s \ {Max(s)}], ns[Max(s)])]
  BY <1>16 DEF iter
<1>18. \A s \in SUBSET (1 .. n) :
          iter[s] = IF s = {} THEN start ELSE Pass(iter[s \ {Max(s)}], ns[Max(s)])
  BY <1>7, <1>17

  (* Together. *)
<1> DEFINE Open(k, row) == /\ row.status = "OPEN" /\ (row.be <=> trailed(k)) /\ k < n
                           /\ \A i \in 1 .. k : i \notin ends
           Shut(k, row) == /\ row.status = "CLOSED"
                           /\ \E e \in ends : /\ e <= k /\ \A i \in ends : e <= i
                                              /\ row.reason = R(e) /\ row.exit = X(e)
           Late(k, row) == /\ row.status = "CLOSED" /\ k = n /\ ends = {}
                           /\ row.reason = "TIME" /\ row.exit = price(n)
           J(k, row) == Open(k, row) \/ Shut(k, row) \/ Late(k, row)
           B == {k \in 0 .. n : iter[1 .. k] \in T /\ J(k, iter[1 .. k])}
<1>19. 0 \in B
  <2>1. 1 .. 0 = {} /\ {} \in SUBSET (1 .. n)
    OBVIOUS
  <2>2. iter[1 .. 0] = start
    BY <1>18, <2>1
  <2>3. ~trailed(0) /\ 0 < n /\ \A i \in 1 .. 0 : i \notin ends
    <3> HIDE DEF met, ends
    <3> QED BY <2>1
  <2>4. start.status = "OPEN" /\ ~start.be
    BY <1>3
  <2>5. Open(0, start)
    <3> HIDE DEF trailed, ends
    <3> QED BY <2>3, <2>4
  <2> QED BY <1>10, <2>2, <2>5
<1>20. ASSUME NEW k \in 1 .. n, NEW row \in T, J(k - 1, row)
       PROVE  J(k, Pass(row, k))
  <2>1. CASE Open(k - 1, row)
    <3>1. PICK p \in Int : p = price(k) /\ p = bars[k].close
      BY <1>2
    <3>2. PICK be \in BOOLEAN : be <=> trailed(k)
      OBVIOUS
    <3>3. be <=> (row.be \/ \E t \in DOMAIN card.targets : Met(card, t, p))
      <4>1. trailed(k) <=> trailed(k - 1) \/ met(k)
        <5>1. \A j : j \in 1 .. k <=> j \in 1 .. (k - 1) \/ j = k
          OBVIOUS
        <5> HIDE DEF met
        <5> QED BY <5>1
      <4>2. met(k) <=> \E t \in DOMAIN card.targets : Met(card, t, p)
        BY <1>5, <3>1
      <4> HIDE DEF trailed, met
      <4> QED BY <2>1, <3>2, <4>1, <4>2
    <3>4. PICK h : h = IF be THEN card.entry ELSE card.stop
      OBVIOUS
    <3>5. h = held(k)
      <4> HIDE DEF trailed
      <4> QED BY <1>5, <3>2, <3>4
    <3>6. PICK done \in BOOLEAN : done <=> Met(card, Len(card.targets), p)
      OBVIOUS
    <3>7. PICK ended \in BOOLEAN : ended <=> Book!Gain(card.side, h, p) <= 0
      OBVIOUS
    <3>8. PICK next : next = Book!Evaluate(row, p, k)
      OBVIOUS
    <3>9. /\ next.be = be
          /\ done => next.status = "CLOSED" /\ next.reason = "TP"
                      /\ next.exit = card.targets[Len(card.targets)]
          /\ ~done /\ ended => /\ next.status = "CLOSED" /\ next.reason = (IF be THEN "BE" ELSE "SL")
                               /\ next.exit = h
          /\ ~done /\ ~ended /\ k >= n =>
                next.status = "CLOSED" /\ next.reason = "TIME" /\ next.exit = p
          /\ ~done /\ ~ended /\ k < n => next.status = "OPEN"
      <4>1. k \in Nat /\ n \in Nat /\ row \in BookRows(card, n)
        BY DEF T
      <4> QED BY <1>5, <3>3, <3>4, <3>6, <3>7, <3>8, <4>1, BookPasses
    <3>10. Pass(row, k) = next
      BY <2>1, <3>1, <3>8 DEF Pass
    <3>11. (done <=> final(k)) /\ (ended <=> hit(k))
      BY <1>5, <3>1, <3>5, <3>6, <3>7 DEF last
    <3> HIDE DEF final, hit, held, trailed, met, price
    <3>12. \A i \in ends : k <= i
      <4> SUFFICES ASSUME NEW i \in ends, ~(k <= i) PROVE FALSE
        OBVIOUS
      <4>1. i \in 1 .. n
        BY <1>9
      <4>2. i \in 1 .. (k - 1)
        BY <4>1
      <4> QED BY <2>1, <4>2
    <3>13. CASE done \/ ended
      <4>1. k \in ends
        BY <1>9, <3>11, <3>13
      <4>2. next.status = "CLOSED" /\ next.reason = R(k) /\ next.exit = X(k)
        <5>1. CASE done
          BY <1>5, <3>9, <3>11, <5>1 DEF last
        <5>2. CASE ~done /\ ended
          BY <3>2, <3>5, <3>9, <3>11, <5>2
        <5> QED BY <3>13, <5>1, <5>2
      <4> HIDE DEF ends, R, X
      <4>3. Shut(k, next)
        BY <3>12, <4>1, <4>2
      <4> QED BY <3>10, <4>3
    <3>14. CASE ~done /\ ~ended
      <4>1. k \notin ends
        BY <3>11, <3>14
      <4>2. \A i \in 1 .. k : i \notin ends
        <5> HIDE DEF ends
        <5>1. \A i \in 1 .. k : i \in 1 .. (k - 1) \/ i = k
          OBVIOUS
        <5> QED BY <2>1, <4>1, <5>1
      <4> HIDE DEF ends
      <4>3. CASE k >= n
        <5>1. k = n
          BY <4>3
        <5>2. ends = {}
          BY <1>9, <4>2, <5>1
        <5>3. Late(k, next)
          BY <3>1, <3>9, <3>14, <4>3, <5>1, <5>2
        <5> QED BY <3>10, <5>3
      <4>4. CASE k < n
        <5>1. Open(k, next)
          BY <3>2, <3>9, <3>14, <4>2, <4>4
        <5> QED BY <3>10, <5>1
      <4> QED BY <4>3, <4>4
    <3> QED BY <3>13, <3>14
  <2>2. CASE Shut(k - 1, row)
    <3>1. Pass(row, k) = row
      BY <2>2 DEF Pass
    <3>2. Shut(k, row)
      <4> HIDE DEF ends, R, X
      <4>1. PICK e \in ends : /\ e <= k - 1 /\ \A i \in ends : e <= i
                              /\ row.reason = R(e) /\ row.exit = X(e)
        BY <2>2
      <4>2. e <= k
        BY <1>9, <4>1
      <4> QED BY <2>2, <4>1, <4>2
    <3> QED BY <3>1, <3>2
  <2>3. CASE Late(k - 1, row)
    BY <2>3
  <2> HIDE DEF Open, Shut, Late
  <2> QED BY <1>20, <2>1, <2>2, <2>3
<1> HIDE DEF J
<1>21. \A k \in 1 .. n : k - 1 \in B => k \in B
  <2> SUFFICES ASSUME NEW k \in 1 .. n, k - 1 \in B PROVE k \in B
    OBVIOUS
  <2>1. iter[1 .. k] = Pass(iter[1 .. k - 1], k)
    <3>1. iter[1 .. k] = Pass(iter[1 .. k - 1], ns[k])
      BY <1>18, TopOfPrefix
    <3> QED BY <1>7, <3>1
  <2>2. PICK row \in T : row = iter[1 .. k - 1] /\ J(k - 1, row)
    OBVIOUS
  <2>3. Pass(row, k) \in T /\ J(k, Pass(row, k))
    BY <1>11, <1>20, <2>2
  <2> QED BY <2>1, <2>2, <2>3
<1>22. J(n, iter[1 .. n])
  <2>1. 0 .. n \subseteq B
    <3> HIDE DEF B
    <3> QED BY <1>19, <1>21, Upwards
  <2> QED BY <2>1
<1> DEFINE row == iter[1 .. n]
<1>23. BookedBy(o, bars) = Ended(row.reason, WonAt(row.exit)) /\ J(n, row)
  BY <1>6, <1>7, <1>22
<1> HIDE DEF row, R, X, ends, B
<1>24. CASE Shut(n, row)
  <2>1. PICK e \in ends : (\A i \in ends : e <= i) /\ row.reason = R(e) /\ row.exit = X(e)
    BY <1>24
  <2>2. Min(ends) = e
    <3>1. Min(ends) \in ends /\ \A i \in ends : Min(ends) <= i
      BY <1>9, <2>1, FirstPosition
    <3>2. PICK m \in 1 .. n : m = Min(ends) /\ m <= e /\ e <= m /\ e \in 1 .. n
      BY <1>9, <2>1, <3>1
    <3> QED BY <3>2
  <2>3. ends # {}
    BY <2>1
  <2> QED BY <1>8, <1>23, <2>1, <2>2, <2>3 DEF BooksAlike
<1>25. CASE Late(n, row)
  BY <1>8, <1>23, <1>25 DEF BooksAlike
<1>26. ~Open(n, row)
  OBVIOUS
<1> HIDE DEF Open, Shut, Late
<1> QED BY <1>23, <1>24, <1>25, <1>26 DEF J

-----------------------------------------------------------------------------
(* Partials.                                                                *)

Banks == [made : Nat, left : Nat]
Shares == [distance : Nat, share : Nat]

\* What was taken was paid no more than a price.
PaidAtMost(b, M) == b.made <= (100 - b.left) * M

\* A partial is banked from what is left, at its distance.
LEMMA BankStep ==
    ASSUME NEW bank \in Banks, NEW p \in Shares, NEW take, take = Min({p.share, bank.left}),
           NEW next, next = [made |-> bank.made + take * p.distance, left |-> bank.left - take]
    PROVE  /\ next \in Banks /\ next.left <= bank.left /\ next.left >= bank.left - p.share
           /\ \A M \in Int : p.distance <= M /\ PaidAtMost(bank, M) => PaidAtMost(next, M)
<1>1. PICK made \in Nat, left \in Nat, d \in Nat, share \in Nat :
         made = bank.made /\ left = bank.left /\ d = p.distance /\ share = p.share
  BY DEF Banks, Shares
<1>2. take = Min({share, left})
  BY <1>1 DEF Min
<1>3. take = IF share <= left THEN share ELSE left
  BY <1>2, LeastOfTwo
<1>4. take \in Nat /\ take <= left /\ take <= share
  BY <1>3
<1>5. take * d \in Nat
  BY <1>4
<1>6. next.made = made + take * d /\ next.left = left - take
  BY <1>1
<1>7. made + take * d \in Nat /\ left - take \in Nat
  BY <1>4, <1>5
<1>8. next \in Banks
  BY <1>1, <1>7 DEF Banks
<1>9. ASSUME NEW M \in Int, d <= M, made <= (100 - left) * M
      PROVE  made + take * d <= (100 - (left - take)) * M
  <2>1. take * d <= take * M
    BY <1>4, <1>9, TimesMonotone
  <2>2. (100 - (left - take)) * M = (100 - left) * M + take * M
    BY <1>4
  <2>3. PICK x \in Int, y \in Int, z \in Int : x = take * d /\ y = take * M /\ z = (100 - left) * M
    BY <1>4
  <2> QED BY <1>9, <2>1, <2>2, <2>3
<1>10. ASSUME NEW M \in Int, p.distance <= M, PaidAtMost(bank, M)
       PROVE  PaidAtMost(next, M)
  <2>1. d <= M /\ made <= (100 - left) * M
    BY <1>1, <1>10 DEF PaidAtMost
  <2>2. made + take * d <= (100 - (left - take)) * M
    BY <1>9, <2>1
  <2> QED BY <1>6, <2>2 DEF PaidAtMost
<1>11. next.left <= bank.left /\ next.left >= bank.left - p.share
  <2>1. left - take <= left /\ left - take >= left - share
    BY <1>4
  <2> QED BY <1>1, <1>6, <2>1
<1> QED BY <1>8, <1>10, <1>11

\* What the partials bank: never all of the position, and no more of what they took than
\* the furthest of them pays.
LEMMA BankBounds ==
    ASSUME NEW partials \in Seq(Shares),
           SumFunction([i \in DOMAIN partials |-> partials[i].share]) < 100,
           NEW trade, NEW deep, NEW bank, bank = BankedShare(partials, trade, deep)
    PROVE  /\ bank.made \in Nat /\ bank.left \in 1 .. 100
           /\ \A M \in Int : (\A i \in DOMAIN partials : partials[i].distance <= M)
                                => PaidAtMost(bank, M)
<1> DEFINE start == [made |-> 0, left |-> 100]
           Paid(b, p) == [made |-> b.made + Min({p.share, b.left}) * p.distance,
                          left |-> b.left - Min({p.share, b.left})]
           Take(b, p) == IF deep > trade.level - p.distance THEN b ELSE Paid(b, p)
           iter == CHOOSE h : h = [s \in SUBSET DOMAIN partials |->
                      IF s = {} THEN start ELSE Take(h[s \ {Max(s)}], partials[Max(s)])]
           f == [i \in DOMAIN partials |-> partials[i].share]
           Sum(k) == SumFunctionOnSet(f, 1 .. k)
<1>1. bank = iter[DOMAIN partials]
  BY DEF BankedShare, FoldLeft, MapThenFoldSet, Max
<1>2. PICK n \in Nat : n = Len(partials) /\ DOMAIN partials = 1 .. n
  BY LenProperties
<1>3. \A k \in 1 .. n : partials[k] \in Shares
  BY <1>2, ElementOfSeq
<1>4. \A k \in 1 .. n : f[k] = partials[k].share /\ f[k] \in Nat
  BY <1>2, <1>3 DEF Shares
<1>5. Sum(n) < 100
  <2>1. SumFunction(f) = SumFunctionOnSet(f, DOMAIN f)
    <3> HIDE DEF f
    <3> QED BY DEF SumFunction, SumFunctionOnSet, FoldFunctionOnSet, MapThenFoldSet
  <2>2. DOMAIN f = 1 .. n /\ SumFunction(f) < 100
    BY <1>2
  <2> HIDE DEF f
  <2> QED BY <2>1, <2>2
<1> HIDE DEF f, iter
<1>6. \A k \in 0 .. n : Sum(k) \in Nat /\ Sum(k) <= Sum(n)
  <2> SUFFICES ASSUME NEW k \in 0 .. n PROVE Sum(k) \in Nat /\ Sum(k) <= Sum(n)
    OBVIOUS
  <2>1. IsFiniteSet(1 .. n) /\ 1 .. k \in SUBSET (1 .. n)
    <3>1. IsFiniteSet(1 .. n)
      BY FS_Interval
    <3>2. 1 .. k \in SUBSET (1 .. n)
      OBVIOUS
    <3> QED BY <3>1, <3>2
  <2>3. IsFiniteSet(1 .. k)
    BY <2>1, FS_Subset
  <2>2. \A x \in 1 .. k : f[x] \in Nat
    BY <1>4
  <2> QED BY <1>4, <2>1, <2>2, <2>3, SumNat, SumOfPart
<1>7. \A k \in 1 .. n : Sum(k) = Sum(k - 1) + f[k]
  <2> SUFFICES ASSUME NEW k \in 1 .. n PROVE Sum(k) = Sum(k - 1) + f[k]
    OBVIOUS
  <2>1. (1 .. k) \ {k} = 1 .. k - 1 /\ k \in 1 .. k /\ IsFiniteSet(1 .. k)
    <3>1. IsFiniteSet(1 .. k)
      BY FS_Interval
    <3> QED BY <3>1, TopOfPrefix
  <2>2. \A x \in 1 .. k : f[x] \in Int
    BY <1>4
  <2>3. SumFunctionOnSet(f, 1 .. k) = f[k] + SumFunctionOnSet(f, (1 .. k) \ {k})
    BY <2>1, <2>2, SumRemove
  <2>4. SumFunctionOnSet(f, (1 .. k) \ {k}) = Sum(k - 1)
    BY <2>1
  <2>5. PICK x \in Nat, y \in Nat : x = f[k] /\ y = Sum(k - 1)
    BY <1>4, <1>6, SMTT(60)
  <2> HIDE DEF Sum
  <2>6. Sum(k) = x + y
    BY <2>3, <2>4, <2>5 DEF Sum
  <2> QED BY <2>5, <2>6
<1> HIDE DEF Sum
<1> DEFINE step == [q \in (1 .. n) \X Banks |-> Take(q[2], partials[q[1]])]
<1>8. start \in Banks
  BY DEF Banks
<1>9. ASSUME NEW b \in Banks, NEW k \in 1 .. n
      PROVE  LET next == Take(b, partials[k])
             IN  /\ next \in Banks /\ next.left <= b.left /\ next.left >= b.left - f[k]
                 /\ \A M \in Int : partials[k].distance <= M /\ PaidAtMost(b, M) => PaidAtMost(next, M)
  <2>1. CASE deep > trade.level - partials[k].distance
    <3>1. Take(b, partials[k]) = b
      BY <2>1
    <3>2. b.left \in Nat /\ f[k] \in Nat
      BY <1>4 DEF Banks
    <3> HIDE DEF Take
    <3> QED BY <3>1, <3>2
  <2>2. CASE ~(deep > trade.level - partials[k].distance)
    <3>1. Take(b, partials[k]) = Paid(b, partials[k])
      BY <2>2
    <3>2. PICK take : take = Min({partials[k].share, b.left})
      OBVIOUS
    <3>3. PICK next : next = Paid(b, partials[k])
      OBVIOUS
    <3>4. PICK p \in Shares : p = partials[k]
      BY <1>3
    <3>5. next = [made |-> b.made + take * p.distance, left |-> b.left - take]
      BY <3>2, <3>3, <3>4
    <3>6. take = Min({p.share, b.left})
      BY <3>2, <3>4
    <3> HIDE DEF Take, Paid
    <3>7. /\ next \in Banks /\ next.left <= b.left /\ next.left >= b.left - p.share
          /\ \A M \in Int : p.distance <= M /\ PaidAtMost(b, M) => PaidAtMost(next, M)
      BY <3>5, <3>6, BankStep
    <3>8. p.share = f[k]
      BY <1>4, <3>4
    <3> QED BY <3>1, <3>3, <3>4, <3>7, <3>8
  <2> QED BY <2>1, <2>2
<1> HIDE DEF Take, start
<1>10. step \in [(1 .. n) \X Banks -> Banks]
  BY <1>9
<1>11. \A k \in 1 .. n : \A t \in Banks : step[<<k, t>>] = Take(t, partials[k])
  OBVIOUS
<1> HIDE DEF step
<1>12. PICK g \in [SUBSET (1 .. n) -> Banks] : Steps(g, step, start, SUBSET (1 .. n))
  BY <1>8, <1>10, StepsExist
<1>13. \A s \in SUBSET (1 .. n) :
         (IF s = {} THEN start ELSE step[<<Top(s), g[s \ {Top(s)}]>>])
         = IF s = {} THEN start ELSE Take(g[s \ {Max(s)}], partials[Max(s)])
  <2>1. ASSUME NEW s \in SUBSET (1 .. n), s # {}
        PROVE  Top(s) \in 1 .. n /\ g[s \ {Top(s)}] \in Banks
    <3>1. Top(s) \in s /\ s \ {Top(s)} \in SUBSET (1 .. n)
      BY <2>1, TopLast
    <3> QED BY <3>1
  <2>2. ASSUME NEW s \in SUBSET (1 .. n), s # {}
        PROVE  step[<<Top(s), g[s \ {Top(s)}]>>] = Take(g[s \ {Max(s)}], partials[Max(s)])
    BY <1>11, <2>1, <2>2 DEF Top
  <2> QED BY <2>2
<1>14. g = [s \in SUBSET DOMAIN partials |->
             IF s = {} THEN start ELSE Take(g[s \ {Max(s)}], partials[Max(s)])]
  <2>1. g = [s \in SUBSET (1 .. n) |-> IF s = {} THEN start ELSE step[<<Top(s), g[s \ {Top(s)}]>>]]
    BY <1>12 DEF Steps
  <2> QED BY <1>2, <1>13, <2>1
<1>15. iter = [s \in SUBSET DOMAIN partials |->
             IF s = {} THEN start ELSE Take(iter[s \ {Max(s)}], partials[Max(s)])]
  BY <1>14 DEF iter
<1>16. \A s \in SUBSET (1 .. n) :
          iter[s] = IF s = {} THEN start ELSE Take(iter[s \ {Max(s)}], partials[Max(s)])
  BY <1>2, <1>15
<1> DEFINE Bounded(b) == \A M \in Int : (\A i \in DOMAIN partials : partials[i].distance <= M)
                                           => PaidAtMost(b, M)
           J(k, b) == b \in Banks /\ b.left <= 100 /\ b.left >= 100 - Sum(k) /\ Bounded(b)
           B == {k \in 0 .. n : J(k, iter[1 .. k])}
<1>17. 0 \in B
  <2>1. 1 .. 0 = {} /\ {} \in SUBSET (1 .. n)
    OBVIOUS
  <2>2. iter[1 .. 0] = start
    BY <1>16, <2>1
  <2>3. start.made = 0 /\ start.left = 100
    BY DEF start
  <2>4. Bounded(start)
    BY <2>3 DEF PaidAtMost
  <2>5. Sum(0) \in Nat /\ 0 \in 0 .. n
    BY <1>6
  <2> HIDE DEF Bounded
  <2> QED BY <1>8, <2>2, <2>3, <2>4, <2>5
<1>18. \A k \in 1 .. n : k - 1 \in B => k \in B
  <2> SUFFICES ASSUME NEW k \in 1 .. n, k - 1 \in B PROVE k \in B
    OBVIOUS
  <2>1. iter[1 .. k] = Take(iter[1 .. k - 1], partials[k])
    BY <1>16, TopOfPrefix
  <2>2. PICK b \in Banks : b = iter[1 .. k - 1] /\ J(k - 1, b)
    OBVIOUS
  <2>3. PICK next : next = Take(b, partials[k])
    OBVIOUS
  <2>4. /\ next \in Banks /\ next.left <= b.left /\ next.left >= b.left - f[k]
        /\ \A M \in Int : partials[k].distance <= M /\ PaidAtMost(b, M) => PaidAtMost(next, M)
    BY <1>9, <2>3
  <2>5. Bounded(next)
    BY <1>2, <2>2, <2>4
  <2>6. next.left <= 100 /\ next.left >= 100 - Sum(k)
    <3>1. PICK x \in Nat, y \in Nat, u \in Nat, v \in Nat :
             x = Sum(k - 1) /\ y = f[k] /\ u = b.left /\ v = next.left
      BY <1>4, <1>6, <2>4 DEF Banks
    <3>2. Sum(k) = x + y
      BY <1>7, <3>1
    <3> HIDE DEF Bounded
    <3> QED BY <2>2, <2>4, <3>1, <3>2, SMTT(60)
  <2> HIDE DEF Bounded
  <2> QED BY <2>1, <2>2, <2>3, <2>4, <2>5, <2>6
<1>19. J(n, iter[1 .. n])
  <2>1. 0 .. n \subseteq B
    <3> HIDE DEF B
    <3> QED BY <1>17, <1>18, Upwards
  <2> QED BY <2>1
<1>20. bank \in Banks /\ bank.left <= 100 /\ bank.left >= 100 - Sum(n) /\ Bounded(bank)
  BY <1>1, <1>2, <1>19
<1>21. bank.left \in 1 .. 100
  <2>1. Sum(n) < 100 /\ Sum(n) \in Nat
    BY <1>5, <1>6 DEF Sum
  <2>2. PICK x \in Nat, u \in Nat : x = Sum(n) /\ u = bank.left
    BY <1>20, <2>1 DEF Banks
  <2>3. u <= 100 /\ u >= 100 - x /\ x < 100
    BY <1>20, <2>1, <2>2
  <2>4. u \in 1 .. 100
    BY <2>3
  <2> QED BY <2>2, <2>4
<1> QED BY <1>20, <1>21 DEF Banks

-----------------------------------------------------------------------------
(* Sells, whole and scaled out.                                             *)

\* A sell that runs, what is booked of one, and the state of a walk over sells.
Trades   == [level : Int, stop : Int, deep : Int, target : Int]
Outcomes == [level : Int, made : Int]
Walks    == [open : SUBSET Trades, done : Seq(Outcomes)]

\* A sell's stop is a buffer above its level and its target a floor below it.
Sold(t, buffer) == t \in Trades /\ t.stop = t.level + buffer /\ t.target < t.level

\* Either no sell begins on a bar or one does.
LEMMA SellBegins ==
    ASSUME Sellable, NEW buffer \in Nat, NEW bar, NEW S,
           S = SellAt(bar, SellLevels, SellFloors, buffer, 1)
    PROVE  S \in SUBSET Trades /\ (S = {} \/ \E t : S = {t} /\ Sold(t, buffer))
<1> DEFINE tagged == {v \in SellLevels : /\ bar.high >= v - 1 /\ bar.close < v
                                         /\ \E f \in SellFloors : f < v}
           level  == Max(tagged)
           below  == {f \in SellFloors : f < level}
           t      == [level |-> level, stop |-> level + buffer, deep |-> level, target |-> Max(below)]
<1>1. S = IF tagged = {} THEN {} ELSE {t}
  BY DEF SellAt
<1>2. tagged \in SUBSET SellLevels /\ \A v \in tagged : \E f \in SellFloors : f < v
  OBVIOUS
<1>3. Levels(SellLevels) /\ Levels(SellFloors)
  BY DEF Sellable, Levels, IsFiniteSet
<1>4. CASE tagged # {}
  <2> HIDE DEF tagged
  <2>1. Levels(tagged)
    BY <1>2, <1>3, FS_Subset DEF Levels
  <2>2. level \in tagged /\ level \in Int
    BY <1>4, <2>1, LevelEnds
  <2> HIDE DEF level
  <2>3. Levels(below) /\ below # {}
    <3>1. below \in SUBSET SellFloors
      OBVIOUS
    <3>2. below # {}
      BY <1>2, <2>2
    <3> HIDE DEF below
    <3> QED BY <1>3, <3>1, <3>2, FS_Subset DEF Levels
  <2>4. PICK target \in Int : target = Max(below) /\ target \in below
    <3> HIDE DEF below
    <3> QED BY <2>3, LevelEnds
  <2>5. target < level
    BY <2>4
  <2> HIDE DEF below
  <2>6. t = [level |-> level, stop |-> level + buffer, deep |-> level, target |-> target]
    BY <2>4
  <2>7. Sold(t, buffer)
    <3> HIDE DEF t
    <3> QED BY <2>2, <2>5, <2>6 DEF Sold, Trades
  <2>8. S = {t}
    BY <1>1, <1>4
  <2> HIDE DEF t
  <2> QED BY <2>7, <2>8 DEF Sold
<1>5. CASE tagged = {}
  BY <1>1, <1>5
<1> QED BY <1>4, <1>5

\* What a scaled sell makes at an exit: between all of it at the exit and the best of the
\* exit and the partials.
LEMMA ScaledBounds ==
    ASSUME NEW bank, bank.made \in Nat, bank.left \in 1 .. 100, NEW M \in Int, PaidAtMost(bank, M),
           NEW gain \in Int, gain <= M, NEW buffer \in Nat, -buffer <= gain,
           NEW total, total = bank.made + bank.left * gain
    PROVE  /\ total \in Int /\ total <= 100 * M /\ -100 * buffer <= total
           /\ gain > 0 => total > 0
<1>1. PICK made \in Nat, left \in 1 .. 100 : made = bank.made /\ left = bank.left
  OBVIOUS
<1>2. made <= (100 - left) * M
  BY <1>1 DEF PaidAtMost
<1>3. PICK x \in Int, y \in Int, z \in Int :
         x = left * gain /\ y = left * M /\ z = (100 - left) * M
  BY <1>1
<1>4. x <= y
  BY <1>1, <1>3, TimesMonotone
<1>5. y + z = 100 * M
  BY <1>1, <1>3
<1>6. -100 * buffer <= x
  <2>1. left * (-buffer) <= x
    BY <1>1, <1>3, TimesMonotone
  <2>2. left * buffer <= 100 * buffer
    <3>1. buffer * left <= buffer * 100
      BY <1>1, TimesMonotone
    <3> QED BY <3>1
  <2>3. left * (-buffer) = -(left * buffer)
    BY <1>1
  <2>4. PICK u \in Int, v \in Int : u = left * buffer /\ v = left * (-buffer)
    BY <1>1
  <2> QED BY <2>1, <2>2, <2>3, <2>4
<1>7. gain > 0 => x > 0
  <2>1. ASSUME gain > 0 PROVE x > 0
    <3>1. left * 1 <= left * gain
      BY <1>1, <2>1, TimesMonotone
    <3> QED BY <1>1, <1>3, <3>1
  <2> QED BY <2>1
<1>8. total = made + x
  BY <1>1, <1>3
<1> QED BY <1>2, <1>3, <1>4, <1>5, <1>6, <1>7, <1>8

Furthest(made) == Max({made} \cup {SellPartials[i].distance : i \in DOMAIN SellPartials})

\* A sell and the same sell scaled out, as they are booked.
Scaled(one, all, buffer) ==
    /\ all.level = one.level
    /\ -100 * buffer <= all.made /\ all.made <= 100 * Furthest(one.made)
    /\ one.made > 0 => all.made > 0

\* The walk and the walk that scales out after the same bars.
Abreast(s, c, buffer) ==
    /\ \/ s.open = {} /\ c.open = {}
       \/ \E t, u : /\ s.open = {t} /\ c.open = {u} /\ Sold(t, buffer) /\ Sold(u, buffer)
                    /\ u.level = t.level /\ u.target = t.target
    /\ Len(c.done) = Len(s.done)
    /\ \A i \in 1 .. Len(s.done) : Scaled(s.done[i], c.done[i], buffer)

\* The furthest of a gain and the partials.
LEMMA FurthestBounds ==
    ASSUME SellPartials \in Seq(Shares), NEW gain \in Int
    PROVE  /\ Furthest(gain) \in Int /\ gain <= Furthest(gain)
           /\ \A i \in DOMAIN SellPartials : SellPartials[i].distance <= Furthest(gain)
<1>1. PICK n \in Nat : n = Len(SellPartials) /\ DOMAIN SellPartials = 1 .. n
  BY LenProperties
<1> DEFINE far == [i \in 1 .. n |-> SellPartials[i].distance]
           D   == {SellPartials[i].distance : i \in DOMAIN SellPartials}
<1>2. \A i \in 1 .. n : SellPartials[i].distance \in Int
  <2>1. \A i \in 1 .. n : SellPartials[i] \in Shares
    BY <1>1, ElementOfSeq
  <2> QED BY <2>1 DEF Shares
<1>3. \A i \in 1 .. n : far[i] = SellPartials[i].distance /\ far[i] \in Int
  BY <1>2
<1> HIDE DEF far
<1>4. Levels({far[i] : i \in 1 .. n})
  <2>1. PICK I \in SUBSET (1 .. n) : I = 1 .. n
    OBVIOUS
  <2>2. Levels({far[i] : i \in I})
    BY <1>3, Prices
  <2> QED BY <2>1, <2>2
<1>5. D = {far[i] : i \in 1 .. n}
  BY <1>1, <1>3
<1>6. \A i \in DOMAIN SellPartials : SellPartials[i].distance \in {gain} \cup D
  OBVIOUS
<1>7. Furthest(gain) = Max({gain} \cup D)
  BY DEF Furthest
<1> HIDE DEF D
<1>8. Levels({gain} \cup D) /\ {gain} \cup D # {}
  BY <1>4, <1>5, OneMore
<1> DEFINE S == {gain} \cup D
<1>9. gain \in S
  OBVIOUS
<1> HIDE DEF S
<1>10. Max(S) \in Int /\ \A x \in S : x <= Max(S)
  BY <1>8, LevelEnds DEF S
<1> QED BY <1>6, <1>7, <1>9, <1>10 DEF S

\* A sell ends in both walks.
LEMMA EndsAbreast ==
    ASSUME Sellable, NEW buffer \in Nat, NEW s \in Walks, NEW c \in Walks, Abreast(s, c, buffer),
           NEW t, Sold(t, buffer), NEW u, Sold(u, buffer), u.level = t.level,
           NEW exit \in Int, exit <= t.level + buffer,
           NEW deep, NEW bank, bank = BankedShare(SellPartials, u, deep)
    PROVE  LET one == t.level - exit
               all == bank.made + bank.left * (u.level - exit)
               s2  == Booked(s, t, one)
               c2  == Booked(c, u, all)
           IN  s2 \in Walks /\ c2 \in Walks /\ Abreast(s2, c2, buffer)
<1> DEFINE one == t.level - exit
           all == bank.made + bank.left * (u.level - exit)
           a   == [level |-> t.level, made |-> one]
           b   == [level |-> u.level, made |-> all]
<1>1. SellPartials \in Seq(Shares)
         /\ SumFunction([i \in DOMAIN SellPartials |-> SellPartials[i].share]) < 100
  BY DEF Sellable, Shares
<1>2. /\ bank.made \in Nat /\ bank.left \in 1 .. 100
      /\ \A M \in Int : (\A i \in DOMAIN SellPartials : SellPartials[i].distance <= M) => PaidAtMost(bank, M)
  BY <1>1, BankBounds
<1>3. t.level \in Int /\ one \in Int /\ u.level - exit = one /\ -buffer <= one
  BY DEF Sold, Trades
<1>4. PICK gain \in Int : gain = one
  BY <1>3
<1>5. PICK M \in Int : /\ M = Furthest(gain) /\ gain <= M
                       /\ \A i \in DOMAIN SellPartials : SellPartials[i].distance <= M
  BY <1>1, FurthestBounds
<1>6. PaidAtMost(bank, M)
  BY <1>2, <1>5
<1>7. PICK total : total = bank.made + bank.left * gain
  OBVIOUS
<1>8. total \in Int /\ total <= 100 * M /\ -100 * buffer <= total /\ (gain > 0 => total > 0)
  <2>1. -buffer <= gain
    BY <1>3, <1>4
  <2> HIDE DEF one
  <2> QED BY <1>2, <1>5, <1>6, <1>7, <2>1, ScaledBounds
<1>9. all = total /\ u.level = t.level
  BY <1>3, <1>4, <1>7
<1> HIDE DEF all, one
<1>10. a \in Outcomes /\ b \in Outcomes /\ Scaled(a, b, buffer)
  BY <1>3, <1>4, <1>5, <1>8, <1>9 DEF Outcomes, Scaled
<1> HIDE DEF a, b
<1> DEFINE s2 == Booked(s, t, one)
           c2 == Booked(c, u, all)
<1>11. /\ s2 = [open |-> {}, done |-> Append(s.done, a)] /\ c2 = [open |-> {}, done |-> Append(c.done, b)]
  BY DEF Booked, a, b
<1>12. PICK n \in Nat : /\ n = Len(s.done) /\ n = Len(c.done)
                        /\ s.done \in Seq(Outcomes) /\ c.done \in Seq(Outcomes)
  BY LenProperties DEF Abreast, Walks
<1>13. /\ Append(s.done, a) \in Seq(Outcomes) /\ Append(c.done, b) \in Seq(Outcomes)
       /\ Len(Append(s.done, a)) = n + 1 /\ Len(Append(c.done, b)) = n + 1
       /\ \A i \in 1 .. n : Append(s.done, a)[i] = s.done[i] /\ Append(c.done, b)[i] = c.done[i]
       /\ Append(s.done, a)[n + 1] = a /\ Append(c.done, b)[n + 1] = b
  <2>1. PICK x \in Seq(Outcomes), y \in Seq(Outcomes), v \in Outcomes, w \in Outcomes :
           x = s.done /\ y = c.done /\ v = a /\ w = b /\ Len(x) = n /\ Len(y) = n
    BY <1>10, <1>12
  <2>2. /\ Append(x, v) \in Seq(Outcomes) /\ Len(Append(x, v)) = n + 1
        /\ (\A i \in 1 .. n : Append(x, v)[i] = x[i]) /\ Append(x, v)[n + 1] = v
    BY <2>1, AppendProperties
  <2>3. /\ Append(y, w) \in Seq(Outcomes) /\ Len(Append(y, w)) = n + 1
        /\ (\A i \in 1 .. n : Append(y, w)[i] = y[i]) /\ Append(y, w)[n + 1] = w
    BY <2>1, AppendProperties
  <2> QED BY <2>1, <2>2, <2>3
<1> HIDE DEF s2, c2
<1>14. s2 \in Walks /\ c2 \in Walks
  <2>1. {} \in SUBSET Trades
    OBVIOUS
  <2> QED BY <1>11, <1>13, <2>1 DEF Walks
<1>15. Abreast(s2, c2, buffer)
  <2>1. s2.open = {} /\ c2.open = {} /\ Len(s2.done) = n + 1 /\ Len(c2.done) = n + 1
    BY <1>11, <1>13
  <2>2. \A i \in 1 .. n : Scaled(s2.done[i], c2.done[i], buffer)
    <3>1. \A i \in 1 .. n : Scaled(s.done[i], c.done[i], buffer)
      BY <1>12 DEF Abreast
    <3> QED BY <1>11, <1>13, <3>1
  <2>3. Scaled(s2.done[n + 1], c2.done[n + 1], buffer)
    BY <1>10, <1>11, <1>13
  <2>4. \A i \in 1 .. (n + 1) : i \in 1 .. n \/ i = n + 1
    OBVIOUS
  <2> QED BY <2>1, <2>2, <2>3, <2>4 DEF Abreast
<1> QED BY <1>14, <1>15 DEF s2, c2, one, all

\* A pass of backtest_sells,
SellPass(s, bar, buffer) ==
    IF s.open = {} THEN [s EXCEPT !.open = SellAt(bar, SellLevels, SellFloors, buffer, 1)]
    ELSE LET t == CHOOSE x \in s.open : TRUE
         IN  IF bar.high >= t.stop THEN Booked(s, t, t.level - t.stop)
             ELSE IF bar.low <= t.target THEN Booked(s, t, t.level - t.target)
             ELSE s

\* and one of backtest_sells_partial.
ScaledPass(c, bar, buffer) ==
    IF c.open = {} THEN [c EXCEPT !.open = SellAt(bar, SellLevels, SellFloors, buffer, 1)]
    ELSE LET u    == CHOOSE x \in c.open : TRUE
             deep == Min({u.deep, bar.low})
             bank(low) == BankedShare(SellPartials, u, low)
             total(low, exit) == bank(low).made + bank(low).left * (u.level - exit)
         IN  IF bar.high >= u.stop THEN Booked(c, u, total(u.deep, u.stop))
             ELSE IF bar.low <= u.target /\ bank(deep).left > 0
                    THEN Booked(c, u, total(deep, u.target))
             ELSE [c EXCEPT !.open = {[u EXCEPT !.deep = deep]}]

\* A sell booked, begun, and walked by one bar.
LEMMA BookedType ==
    ASSUME NEW s \in Walks, NEW t \in Trades, NEW made \in Int
    PROVE  Booked(s, t, made) \in Walks
<1>1. PICK done \in Seq(Outcomes) : done = s.done
  BY DEF Walks
<1>2. PICK r \in Outcomes : r = [level |-> t.level, made |-> made]
  BY DEF Outcomes, Trades
<1>3. Append(done, r) \in Seq(Outcomes)
  BY AppendProperties
<1>4. Booked(s, t, made) = [open |-> {}, done |-> Append(done, r)]
  BY <1>1, <1>2 DEF Booked
<1> QED BY <1>3, <1>4 DEF Walks

\* A sell begins.
LEMMA OpenedType ==
    ASSUME NEW s \in Walks, NEW S \in SUBSET Trades
    PROVE  [s EXCEPT !.open = S] \in Walks /\ [s EXCEPT !.open = S] = [open |-> S, done |-> s.done]
BY DEF Walks

\* A bar passes.
LEMMA PassesType ==
    ASSUME Sellable, NEW buffer \in Nat, NEW s \in Walks, NEW bar, bar.low \in Int
    PROVE  SellPass(s, bar, buffer) \in Walks /\ ScaledPass(s, bar, buffer) \in Walks
<1>1. CASE s.open = {}
  <2>1. PICK S : S = SellAt(bar, SellLevels, SellFloors, buffer, 1)
    OBVIOUS
  <2>2. S \in SUBSET Trades
    BY <2>1, SellBegins
  <2>3. SellPass(s, bar, buffer) = [s EXCEPT !.open = S] /\ ScaledPass(s, bar, buffer) = [s EXCEPT !.open = S]
    BY <1>1, <2>1 DEF SellPass, ScaledPass
  <2> QED BY <2>2, <2>3, OpenedType
<1>2. CASE s.open # {}
  <2>1. PICK t : t = CHOOSE x \in s.open : TRUE
    OBVIOUS
  <2>2. t \in Trades
    BY <1>2, <2>1 DEF Walks
  <2>3. PICK level \in Int, stop \in Int, deepest \in Int, target \in Int :
           level = t.level /\ stop = t.stop /\ deepest = t.deep /\ target = t.target
    BY <2>2 DEF Trades
  <2>4. SellPass(s, bar, buffer) \in Walks
    <3>1. \/ SellPass(s, bar, buffer) = Booked(s, t, level - stop)
          \/ SellPass(s, bar, buffer) = Booked(s, t, level - target)
          \/ SellPass(s, bar, buffer) = s
      BY <1>2, <2>1, <2>3 DEF SellPass
    <3>2. level - stop \in Int /\ level - target \in Int
      OBVIOUS
    <3> QED BY <2>2, <3>1, <3>2, BookedType
  <2>5. ScaledPass(s, bar, buffer) \in Walks
    <3> DEFINE bank(low) == BankedShare(SellPartials, t, low)
               total(low, exit) == bank(low).made + bank(low).left * (level - exit)
    <3>1. PICK deep : deep = Min({deepest, bar.low})
      OBVIOUS
    <3>2. deep \in Int
      <4>1. deep = Min({deepest, bar.low})
        BY <3>1 DEF Min
      <4> QED BY <4>1, LeastOfTwo
    <3>3. \A low : bank(low).made \in Nat /\ bank(low).left \in 1 .. 100
      <4>1. SellPartials \in Seq(Shares)
               /\ SumFunction([i \in DOMAIN SellPartials |-> SellPartials[i].share]) < 100
        BY DEF Sellable, Shares
      <4> QED BY <4>1, BankBounds
    <3>4. \/ ScaledPass(s, bar, buffer) = Booked(s, t, total(deepest, stop))
          \/ ScaledPass(s, bar, buffer) = Booked(s, t, total(deep, target))
          \/ ScaledPass(s, bar, buffer) = [s EXCEPT !.open = {[t EXCEPT !.deep = deep]}]
      BY <1>2, <2>1, <2>3, <3>1 DEF ScaledPass
    <3> HIDE DEF bank
    <3>5. PICK x \in Int, y \in Int : x = total(deepest, stop) /\ y = total(deep, target)
      <4>1. PICK a \in Nat, b \in Nat, c \in Nat, d \in Nat :
               /\ a = bank(deepest).made /\ b = bank(deepest).left
               /\ c = bank(deep).made /\ d = bank(deep).left
        <5>1. \A k \in 1 .. 100 : k \in Nat
          OBVIOUS
        <5> QED BY <3>3, <5>1
      <4>2. total(deepest, stop) = a + b * (level - stop) /\ total(deep, target) = c + d * (level - target)
        BY <4>1
      <4> HIDE DEF total
      <4> QED BY <4>2
    <3> HIDE DEF total
    <3>6. PICK T \in SUBSET Trades : T = {[t EXCEPT !.deep = deep]}
      BY <2>2, <3>2 DEF Trades
    <3>7. Booked(s, t, x) \in Walks /\ Booked(s, t, y) \in Walks
      BY <2>2, BookedType
    <3>8. [s EXCEPT !.open = T] \in Walks
      BY OpenedType
    <3>9. PICK next : next = ScaledPass(s, bar, buffer)
      OBVIOUS
    <3>10. \/ next = Booked(s, t, x)
           \/ next = Booked(s, t, y)
           \/ next = [s EXCEPT !.open = T]
      BY <3>4, <3>5, <3>6, <3>9
    <3> QED BY <3>7, <3>8, <3>9, <3>10
  <2> QED BY <2>4, <2>5
<1> QED BY <1>1, <1>2

\* The two walks stay abreast.
LEMMA PassesAbreast ==
    ASSUME Sellable, NEW buffer \in Nat, NEW s \in Walks, NEW c \in Walks, Abreast(s, c, buffer),
           NEW bar, bar.low \in Int
    PROVE  Abreast(SellPass(s, bar, buffer), ScaledPass(c, bar, buffer), buffer)
<1>0. Len(c.done) = Len(s.done) /\ \A i \in 1 .. Len(s.done) : Scaled(s.done[i], c.done[i], buffer)
  BY DEF Abreast
<1>1. CASE s.open = {} /\ c.open = {}
  <2>1. PICK S : S = SellAt(bar, SellLevels, SellFloors, buffer, 1)
    OBVIOUS
  <2>2. S \in SUBSET Trades /\ (S = {} \/ \E t : S = {t} /\ Sold(t, buffer))
    BY <2>1, SellBegins
  <2>3. /\ SellPass(s, bar, buffer) = [open |-> S, done |-> s.done]
        /\ ScaledPass(c, bar, buffer) = [open |-> S, done |-> c.done]
    <3>1. /\ SellPass(s, bar, buffer) = [s EXCEPT !.open = S]
          /\ ScaledPass(c, bar, buffer) = [c EXCEPT !.open = S]
      BY <1>1, <2>1 DEF SellPass, ScaledPass
    <3> QED BY <2>2, <3>1, OpenedType
  <2>4. PICK s2, c2 : s2 = SellPass(s, bar, buffer) /\ c2 = ScaledPass(c, bar, buffer)
    OBVIOUS
  <2>5. s2.open = S /\ c2.open = S /\ s2.done = s.done /\ c2.done = c.done
    BY <2>3, <2>4
  <2>6. \/ s2.open = {} /\ c2.open = {}
        \/ \E t, u : /\ s2.open = {t} /\ c2.open = {u} /\ Sold(t, buffer) /\ Sold(u, buffer)
                     /\ u.level = t.level /\ u.target = t.target
    BY <2>2, <2>5
  <2> QED BY <1>0, <2>4, <2>5, <2>6 DEF Abreast
<1>2. ASSUME NEW t, NEW u, s.open = {t}, c.open = {u}, Sold(t, buffer), Sold(u, buffer),
             u.level = t.level, u.target = t.target
      PROVE  Abreast(SellPass(s, bar, buffer), ScaledPass(c, bar, buffer), buffer)
  <2>1. (CHOOSE x \in s.open : TRUE) = t /\ (CHOOSE x \in c.open : TRUE) = u /\ s.open # {} /\ c.open # {}
    BY <1>2
  <2>2. PICK level \in Int, stop \in Int, target \in Int :
           /\ level = t.level /\ stop = t.stop /\ target = t.target
           /\ level = u.level /\ stop = u.stop /\ target = u.target
           /\ stop = level + buffer /\ target < level /\ t \in Trades /\ u \in Trades
    BY <1>2 DEF Sold, Trades
  <2>3. PICK deep : deep = Min({u.deep, bar.low})
    OBVIOUS
  <2> DEFINE bank(low) == BankedShare(SellPartials, u, low)
             total(low, exit) == bank(low).made + bank(low).left * (level - exit)
  <2>4. SellPass(s, bar, buffer) =
           IF bar.high >= stop THEN Booked(s, t, level - stop)
           ELSE IF bar.low <= target THEN Booked(s, t, level - target)
           ELSE s
    BY <2>1, <2>2 DEF SellPass
  <2>5. ScaledPass(c, bar, buffer) =
           IF bar.high >= stop THEN Booked(c, u, total(u.deep, stop))
           ELSE IF bar.low <= target /\ bank(deep).left > 0 THEN Booked(c, u, total(deep, target))
           ELSE [c EXCEPT !.open = {[u EXCEPT !.deep = deep]}]
    BY <2>1, <2>2, <2>3 DEF ScaledPass
  <2>6. \A low : \A exit \in Int : exit <= level + buffer =>
           Abreast(Booked(s, t, level - exit), Booked(c, u, total(low, exit)), buffer)
    <3> SUFFICES ASSUME NEW low, NEW exit \in Int, exit <= level + buffer
                 PROVE  Abreast(Booked(s, t, level - exit), Booked(c, u, total(low, exit)), buffer)
      OBVIOUS
    <3>1. exit <= t.level + buffer
      BY <2>2
    <3>2. PICK got : got = BankedShare(SellPartials, u, low)
      OBVIOUS
    <3>3. Abreast(Booked(s, t, t.level - exit),
                  Booked(c, u, got.made + got.left * (u.level - exit)), buffer)
      BY <1>2, <3>1, <3>2, EndsAbreast
    <3> QED BY <2>2, <3>2, <3>3
  <2>7. bank(deep).left > 0
    <3>1. SellPartials \in Seq(Shares)
             /\ SumFunction([i \in DOMAIN SellPartials |-> SellPartials[i].share]) < 100
      BY DEF Sellable, Shares
    <3>2. PICK got : got = BankedShare(SellPartials, u, deep)
      OBVIOUS
    <3>3. got.left \in 1 .. 100
      BY <3>1, <3>2, BankBounds
    <3> QED BY <3>2, <3>3
  <2> HIDE DEF bank, total
  <2>8. CASE bar.high >= stop
    <3>1. stop <= level + buffer
      BY <2>2
    <3> QED BY <2>4, <2>5, <2>6, <2>8, <3>1
  <2>9. CASE ~(bar.high >= stop) /\ bar.low <= target
    <3>1. target <= level + buffer
      BY <2>2
    <3> QED BY <2>4, <2>5, <2>6, <2>7, <2>9, <3>1
  <2>10. CASE ~(bar.high >= stop) /\ ~(bar.low <= target)
    <3>1. SellPass(s, bar, buffer) = s
             /\ ScaledPass(c, bar, buffer) = [c EXCEPT !.open = {[u EXCEPT !.deep = deep]}]
      BY <2>4, <2>5, <2>10
    <3>2. deep \in Int
      <4>1. deep = Min({u.deep, bar.low}) /\ u.deep \in Int
        BY <2>2, <2>3 DEF Min, Trades
      <4> QED BY <4>1, LeastOfTwo
    <3>3. PICK v \in Trades : v = [u EXCEPT !.deep = deep]
      BY <2>2, <3>2 DEF Trades
    <3>4. v.level = level /\ v.target = target /\ v.stop = stop
      BY <2>2, <3>3 DEF Trades
    <3>5. PICK c2 : c2 = ScaledPass(c, bar, buffer)
      OBVIOUS
    <3>6. c2.open = {v} /\ c2.done = c.done
      <4>1. {v} \in SUBSET Trades
        OBVIOUS
      <4>2. c2 = [open |-> {v}, done |-> c.done]
        BY <3>1, <3>3, <3>5, <4>1, OpenedType
      <4> QED BY <4>2
    <3>7. Sold(v, buffer)
      BY <2>2, <3>4 DEF Sold
    <3>8. \E a, b : /\ s.open = {a} /\ c2.open = {b} /\ Sold(a, buffer) /\ Sold(b, buffer)
                    /\ b.level = a.level /\ b.target = a.target
      BY <1>2, <2>2, <3>4, <3>6, <3>7
    <3> QED BY <1>0, <3>1, <3>5, <3>6, <3>8 DEF Abreast
  <2> QED BY <2>8, <2>9, <2>10
<1> QED BY <1>1, <1>2 DEF Abreast

\* backtest_sells, bar by bar,
LEMMA SellsRow ==
    ASSUME Sellable, NEW bars \in Seq(Candles), NEW buffer \in Nat, NEW n \in Nat, n = Len(bars)
    PROVE  \E h \in [0 .. n -> Walks] :
              /\ h[0] = NoSells
              /\ \A k \in 1 .. n : h[k] = SellPass(h[k - 1], bars[k], buffer)
              /\ BacktestSells(bars, SellLevels, SellFloors, buffer, 1) = h[n]
<1> DEFINE start == NoSells
           Pass(state, bar) == SellPass(state, bar, buffer)
           iter == CHOOSE h : h = [s \in SUBSET DOMAIN bars |->
                      IF s = {} THEN start ELSE Pass(h[s \ {Max(s)}], bars[Max(s)])]
           h == [k \in 0 .. n |-> iter[1 .. k]]
           step == [p \in (1 .. n) \X Walks |-> Pass(p[2], bars[p[1]])]
<1>1. BacktestSells(bars, SellLevels, SellFloors, buffer, 1) = iter[DOMAIN bars]
  BY DEF BacktestSells, SellPass, FoldLeft, MapThenFoldSet, Max
<1>2. DOMAIN bars = 1 .. n /\ \A k \in 1 .. n : bars[k].low \in Int
  BY CandlePrices
<1> HIDE DEF iter
<1>3. start \in Walks
  <2>1. <<>> \in Seq(Outcomes) /\ {} \in SUBSET Trades
    BY EmptySeq
  <2> QED BY <2>1 DEF NoSells, Walks
<1>4. \A state \in Walks : \A k \in 1 .. n : Pass(state, bars[k]) \in Walks
  BY <1>2, PassesType
<1> HIDE DEF Pass
<1>5. step \in [(1 .. n) \X Walks -> Walks]
  BY <1>4
<1>6. \A k \in 1 .. n : \A t \in Walks : step[<<k, t>>] = Pass(t, bars[k])
  OBVIOUS
<1> HIDE DEF step, start
<1>7. PICK g \in [SUBSET (1 .. n) -> Walks] : Steps(g, step, start, SUBSET (1 .. n))
  BY <1>3, <1>5, StepsExist
<1>8. \A s \in SUBSET (1 .. n) :
         (IF s = {} THEN start ELSE step[<<Top(s), g[s \ {Top(s)}]>>])
         = IF s = {} THEN start ELSE Pass(g[s \ {Max(s)}], bars[Max(s)])
  <2>1. ASSUME NEW s \in SUBSET (1 .. n), s # {}
        PROVE  Top(s) \in 1 .. n /\ g[s \ {Top(s)}] \in Walks
    <3>1. Top(s) \in s /\ s \ {Top(s)} \in SUBSET (1 .. n)
      BY <2>1, TopLast
    <3> QED BY <3>1
  <2>2. ASSUME NEW s \in SUBSET (1 .. n), s # {}
        PROVE  step[<<Top(s), g[s \ {Top(s)}]>>] = Pass(g[s \ {Max(s)}], bars[Max(s)])
    BY <1>6, <2>1, <2>2 DEF Top
  <2> QED BY <2>2
<1>9. g = [s \in SUBSET DOMAIN bars |->
             IF s = {} THEN start ELSE Pass(g[s \ {Max(s)}], bars[Max(s)])]
  <2>1. g = [s \in SUBSET (1 .. n) |-> IF s = {} THEN start ELSE step[<<Top(s), g[s \ {Top(s)}]>>]]
    BY <1>7 DEF Steps
  <2> QED BY <1>2, <1>8, <2>1
<1>10. iter = [s \in SUBSET DOMAIN bars |->
             IF s = {} THEN start ELSE Pass(iter[s \ {Max(s)}], bars[Max(s)])]
  BY <1>9 DEF iter
<1>11. \A s \in SUBSET (1 .. n) :
          iter[s] = IF s = {} THEN start ELSE Pass(iter[s \ {Max(s)}], bars[Max(s)])
  BY <1>2, <1>10
<1>12. iter[1 .. 0] = start
  <2>1. 1 .. 0 = {} /\ {} \in SUBSET (1 .. n)
    OBVIOUS
  <2> QED BY <1>11, <2>1
<1>13. \A k \in 1 .. n : iter[1 .. k] = Pass(iter[1 .. k - 1], bars[k])
  BY <1>11, TopOfPrefix, ZenonT(60)
<1>14. \A k \in 0 .. n : iter[1 .. k] \in Walks
  <2> DEFINE B == {k \in 0 .. n : iter[1 .. k] \in Walks}
  <2>1. 0 \in B
    BY <1>3, <1>12
  <2>2. \A k \in 1 .. n : k - 1 \in B => k \in B
    BY <1>4, <1>13
  <2>3. 0 .. n \subseteq B
    <3> HIDE DEF B
    <3> QED BY <2>1, <2>2, Upwards
  <2> QED BY <2>3
<1>15. h \in [0 .. n -> Walks] /\ \A k \in 0 .. n : h[k] = iter[1 .. k]
  BY <1>14
<1> HIDE DEF h
<1>16. h[0] = start /\ h[n] = iter[1 .. n]
  BY <1>12, <1>15
<1>17. \A k \in 1 .. n : h[k] = Pass(h[k - 1], bars[k])
  <2>1. \A k \in 1 .. n : k \in 0 .. n /\ k - 1 \in 0 .. n
    OBVIOUS
  <2> QED BY <1>13, <1>15, <2>1
<1> QED BY <1>1, <1>2, <1>15, <1>16, <1>17 DEF start, Pass

\* and backtest_sells_partial.
LEMMA ScaledRow ==
    ASSUME Sellable, NEW bars \in Seq(Candles), NEW buffer \in Nat, NEW n \in Nat, n = Len(bars)
    PROVE  \E h \in [0 .. n -> Walks] :
              /\ h[0] = NoSells
              /\ \A k \in 1 .. n : h[k] = ScaledPass(h[k - 1], bars[k], buffer)
              /\ BacktestSellsPartial(bars, SellLevels, SellFloors, buffer, 1, SellPartials) = h[n]
<1> DEFINE start == NoSells
           Pass(state, bar) == ScaledPass(state, bar, buffer)
           iter == CHOOSE h : h = [s \in SUBSET DOMAIN bars |->
                      IF s = {} THEN start ELSE Pass(h[s \ {Max(s)}], bars[Max(s)])]
           h == [k \in 0 .. n |-> iter[1 .. k]]
           step == [p \in (1 .. n) \X Walks |-> Pass(p[2], bars[p[1]])]
<1>1. BacktestSellsPartial(bars, SellLevels, SellFloors, buffer, 1, SellPartials) = iter[DOMAIN bars]
  BY DEF BacktestSellsPartial, ScaledPass, FoldLeft, MapThenFoldSet, Max
<1>2. DOMAIN bars = 1 .. n /\ \A k \in 1 .. n : bars[k].low \in Int
  BY CandlePrices
<1> HIDE DEF iter
<1>3. start \in Walks
  <2>1. <<>> \in Seq(Outcomes) /\ {} \in SUBSET Trades
    BY EmptySeq
  <2> QED BY <2>1 DEF NoSells, Walks
<1>4. \A state \in Walks : \A k \in 1 .. n : Pass(state, bars[k]) \in Walks
  BY <1>2, PassesType
<1> HIDE DEF Pass
<1>5. step \in [(1 .. n) \X Walks -> Walks]
  BY <1>4
<1>6. \A k \in 1 .. n : \A t \in Walks : step[<<k, t>>] = Pass(t, bars[k])
  OBVIOUS
<1> HIDE DEF step, start
<1>7. PICK g \in [SUBSET (1 .. n) -> Walks] : Steps(g, step, start, SUBSET (1 .. n))
  BY <1>3, <1>5, StepsExist
<1>8. \A s \in SUBSET (1 .. n) :
         (IF s = {} THEN start ELSE step[<<Top(s), g[s \ {Top(s)}]>>])
         = IF s = {} THEN start ELSE Pass(g[s \ {Max(s)}], bars[Max(s)])
  <2>1. ASSUME NEW s \in SUBSET (1 .. n), s # {}
        PROVE  Top(s) \in 1 .. n /\ g[s \ {Top(s)}] \in Walks
    <3>1. Top(s) \in s /\ s \ {Top(s)} \in SUBSET (1 .. n)
      BY <2>1, TopLast
    <3> QED BY <3>1
  <2>2. ASSUME NEW s \in SUBSET (1 .. n), s # {}
        PROVE  step[<<Top(s), g[s \ {Top(s)}]>>] = Pass(g[s \ {Max(s)}], bars[Max(s)])
    BY <1>6, <2>1, <2>2 DEF Top
  <2> QED BY <2>2
<1>9. g = [s \in SUBSET DOMAIN bars |->
             IF s = {} THEN start ELSE Pass(g[s \ {Max(s)}], bars[Max(s)])]
  <2>1. g = [s \in SUBSET (1 .. n) |-> IF s = {} THEN start ELSE step[<<Top(s), g[s \ {Top(s)}]>>]]
    BY <1>7 DEF Steps
  <2> QED BY <1>2, <1>8, <2>1
<1>10. iter = [s \in SUBSET DOMAIN bars |->
             IF s = {} THEN start ELSE Pass(iter[s \ {Max(s)}], bars[Max(s)])]
  BY <1>9 DEF iter
<1>11. \A s \in SUBSET (1 .. n) :
          iter[s] = IF s = {} THEN start ELSE Pass(iter[s \ {Max(s)}], bars[Max(s)])
  BY <1>2, <1>10
<1>12. iter[1 .. 0] = start
  <2>1. 1 .. 0 = {} /\ {} \in SUBSET (1 .. n)
    OBVIOUS
  <2> QED BY <1>11, <2>1
<1>13. \A k \in 1 .. n : iter[1 .. k] = Pass(iter[1 .. k - 1], bars[k])
  BY <1>11, TopOfPrefix, ZenonT(60)
<1>14. \A k \in 0 .. n : iter[1 .. k] \in Walks
  <2> DEFINE B == {k \in 0 .. n : iter[1 .. k] \in Walks}
  <2>1. 0 \in B
    BY <1>3, <1>12
  <2>2. \A k \in 1 .. n : k - 1 \in B => k \in B
    BY <1>4, <1>13
  <2>3. 0 .. n \subseteq B
    <3> HIDE DEF B
    <3> QED BY <2>1, <2>2, Upwards
  <2> QED BY <2>3
<1>15. h \in [0 .. n -> Walks] /\ \A k \in 0 .. n : h[k] = iter[1 .. k]
  BY <1>14
<1> HIDE DEF h
<1>16. h[0] = start /\ h[n] = iter[1 .. n]
  BY <1>12, <1>15
<1>17. \A k \in 1 .. n : h[k] = Pass(h[k - 1], bars[k])
  <2>1. \A k \in 1 .. n : k \in 0 .. n /\ k - 1 \in 0 .. n
    OBVIOUS
  <2> QED BY <1>13, <1>15, <2>1
<1> QED BY <1>1, <1>2, <1>15, <1>16, <1>17 DEF start, Pass

\* The two walks over sells begin and end the same sells: scaling out ends between the loss
\* of the whole position at the stop and the best of its own end and the partials.
LEMMA SellsAreAlike ==
    ASSUME Sellable, NEW bars \in Seq(Candles), NEW buffer \in Nat
    PROVE  SellsAlike(bars, buffer)
<1>1. PICK n \in Nat : n = Len(bars)
  BY LenProperties
<1>2. \A k \in 1 .. n : bars[k].low \in Int
  BY <1>1, CandlePrices
<1>3. PICK one \in [0 .. n -> Walks] :
         /\ one[0] = NoSells
         /\ \A k \in 1 .. n : one[k] = SellPass(one[k - 1], bars[k], buffer)
         /\ BacktestSells(bars, SellLevels, SellFloors, buffer, 1) = one[n]
  BY <1>1, SellsRow
<1>4. PICK all \in [0 .. n -> Walks] :
         /\ all[0] = NoSells
         /\ \A k \in 1 .. n : all[k] = ScaledPass(all[k - 1], bars[k], buffer)
         /\ BacktestSellsPartial(bars, SellLevels, SellFloors, buffer, 1, SellPartials) = all[n]
  BY <1>1, ScaledRow
<1> DEFINE B == {k \in 0 .. n : Abreast(one[k], all[k], buffer)}
<1>5. 0 \in B
  <2>1. one[0].open = {} /\ all[0].open = {} /\ one[0].done = <<>> /\ all[0].done = <<>>
    BY <1>3, <1>4 DEF NoSells
  <2>2. Len(one[0].done) = 0 /\ Len(all[0].done) = 0
    BY <2>1, EmptySeq
  <2> QED BY <2>1, <2>2 DEF Abreast
<1>6. \A k \in 1 .. n : k - 1 \in B => k \in B
  <2> SUFFICES ASSUME NEW k \in 1 .. n, k - 1 \in B PROVE k \in B
    OBVIOUS
  <2>1. PICK s \in Walks, c \in Walks : s = one[k - 1] /\ c = all[k - 1]
    OBVIOUS
  <2> DEFINE bar == bars[k]

  <2>2. Abreast(s, c, buffer) /\ bar.low \in Int
    BY <1>2, <2>1
  <2> HIDE DEF bar
  <2>3. Abreast(SellPass(s, bar, buffer), ScaledPass(c, bar, buffer), buffer)
    BY <2>2, PassesAbreast
  <2> QED BY <1>3, <1>4, <2>1, <2>3 DEF bar
<1>7. Abreast(one[n], all[n], buffer)
  <2>1. 0 .. n \subseteq B
    <3> HIDE DEF B
    <3> QED BY <1>5, <1>6, Upwards
  <2> QED BY <2>1
<1>8. PICK s \in Walks, c \in Walks : s = one[n] /\ c = all[n]
  OBVIOUS
<1>9. DOMAIN s.done = 1 .. Len(s.done)
  <2>1. s.done \in Seq(Outcomes)
    BY DEF Walks
  <2> QED BY <2>1, LenProperties
<1>10. Len(c.done) = Len(s.done) /\ \A i \in DOMAIN s.done : Scaled(s.done[i], c.done[i], buffer)
  BY <1>7, <1>8, <1>9 DEF Abreast
<1> QED BY <1>3, <1>4, <1>8, <1>10 DEF SellsAlike, Scaled, Furthest

-----------------------------------------------------------------------------
(* Replays.                                                                 *)

\* The orders that the engines draw from the first two candles end alike after them, in the
\* walks and in the live book.
LEMMA WalkersDoAgree ==
    ASSUME NEW bars \in Seq(Candles), Len(bars) >= 3, \A c \in Candles : Shown(c),
           Halvable, StopPad \in Nat
    PROVE  WalkersAgree(bars)
<1>1. PICK n \in Nat : n = Len(bars) /\ n >= 3
  BY LenProperties
<1>2. PICK after \in Seq(Candles) : after = SubSeq(bars, 3, Len(bars)) /\ after # <<>>
  <2>1. SubSeq(bars, 3, n) \in Seq(Candles) /\ Len(SubSeq(bars, 3, n)) = n - 3 + 1
    BY <1>1, PartOfFeed
  <2>2. SubSeq(bars, 3, n) # <<>>
    <3>1. n - 3 + 1 # 0
      BY <1>1
    <3> QED BY <2>1, <3>1, EmptySeq
  <2> QED BY <1>1, <2>1, <2>2
<1>3. ASSUME NEW o \in Traded(bars)
      PROVE  BooksAlike(o, after) /\ WalksAlike(o, after)
  <2>1. Len(bars) >= 2
    BY <1>1
  <2>2. PricedOrder(o)
    BY <2>1, TradedPriced
  <2>3. o.entry # o.stop
    BY <2>2 DEF PricedOrder
  <2> QED BY <1>2, <2>2, <2>3, BooksAreAlike, WalkersAlike
<1> QED BY <1>2, <1>3 DEF WalkersAgree

\* ReplaysAgree: whatever was printed, a retracement signal and a swing lose their risk at most
\* and win their last target at most; the three walkers of a history and the live book end the
\* same order the same way; a sell scaled out ends where the whole one does, and no further.
THEOREM ReplaysDoAgree == FeedSpec => []ReplaysAgree
<1>1. FeedTyped => ReplaysAgree
  <2> SUFFICES ASSUME feed \in Seq(Candles), Len(feed) >= MinBars
               PROVE  /\ SignalsBounded(feed) /\ SwingsBounded(feed)
                      /\ WalkersAgree(feed)
                      /\ \A buffer \in {1, 3} : SellsAlike(feed, buffer)
    BY DEF FeedTyped, ReplaysAgree
  <2>0. /\ MinBars \in Nat /\ MinBars >= 3 /\ Halvable /\ Sellable /\ StopPad \in Nat
        /\ \A c \in Candles : Shown(c)
    BY FeedAssumption, BoxAssumption
  <2>1. MinBars \in Nat \ {0}
    BY <2>0
  <2>2. SignalsBounded(feed) /\ SwingsBounded(feed)
    BY <2>0, <2>1, SignalsAreBounded, SwingsAreBounded
  <2>3. WalkersAgree(feed)
    <3>1. Len(feed) >= 3
      BY <2>0, LenProperties
    <3> QED BY <2>0, <3>1, WalkersDoAgree
  <2>4. \A buffer \in {1, 3} : SellsAlike(feed, buffer)
    BY <2>0, SellsAreAlike
  <2> QED BY <2>2, <2>3, <2>4
<1> QED BY <1>1, AlwaysWidens, PTL
=============================================================================
