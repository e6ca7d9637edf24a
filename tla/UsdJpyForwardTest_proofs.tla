---------------------- MODULE UsdJpyForwardTest_proofs ----------------------
(***************************************************************************)
(* What is proved of UsdJpyForwardTest for every look-back, hold and       *)
(* threshold, any requests and any prices: the tables are well typed in    *)
(* whatever order days arrive and, when they arrive in order, each commit  *)
(* leaves the journal the workbook's backtest makes of the log.            *)
(***************************************************************************)
EXTENDS UsdJpyForwardTest, CollectionTheorems

(* Places.                                                                  *)

\* Each place up to the size of a table has its day.
LEMMA Placed ==
    ASSUME NEW S \in SUBSET Nat, IsFiniteSet(S), NEW p \in 1 .. Cardinality(S)
    PROVE  \E d \in S : Cardinality({e \in S : e <= d}) = p
<1> DEFINE At(s, d) == Cardinality({e \in s : e <= d})
           B == {s \in SUBSET S : \E n \in 1 .. Cardinality(s) : \A d \in s : At(s, d) # n}
<1> SUFFICES ASSUME S \in B PROVE FALSE
  BY FS_CardinalityType
<1>1. PICK s \in B : IsFiniteSet(s) /\ \A x \in s : s \ {x} \notin B
  <2> HIDE DEF B
  <2>1. B # {} /\ B \in SUBSET (SUBSET S)
    BY DEF B
  <2> QED BY <2>1, SmallestSet
<1>2. PICK n \in 1 .. Cardinality(s) : \A d \in s : At(s, d) # n
  OBVIOUS
<1>3. s \in SUBSET Int /\ s \in SUBSET S /\ Cardinality(s) \in Nat /\ n \in Nat \ {0}
  BY <1>1, FS_CardinalityType
<1>4. s # {}
  BY <1>1, <1>2, <1>3, FS_EmptySet
<1>5. PICK m \in s : \A x \in s : x <= m
  BY <1>1, <1>3, <1>4, FiniteMax
<1>6. CASE n = Cardinality(s)
  <2>1. {e \in s : e <= m} = s
    BY <1>5
  <2> QED BY <1>2, <1>5, <1>6, <2>1
<1>7. CASE n # Cardinality(s)
  <2> DEFINE t == s \ {m}
  <2>1. Cardinality(t) = Cardinality(s) - 1 /\ t \in SUBSET S
    BY <1>1, <1>3, <1>5, FS_RemoveElement
  <2>2. n \in 1 .. Cardinality(t)
    BY <1>2, <1>3, <1>7, <2>1
  <2>3. t \notin B
    BY <1>1, <1>5
  <2>4. PICK d \in t : At(t, d) = n
    <3> HIDE DEF t
    <3> QED BY <2>1, <2>2, <2>3
  <2>5. \A x \in s : x \in Int
    BY <1>3
  <2>6. {e \in t : e <= d} = {e \in s : e <= d}
    BY <1>5, <2>4, <2>5
  <2> QED BY <1>2, <2>4, <2>6
<1> QED BY <1>6, <1>7

\* A table of closes.
IsTable(table) ==
    /\ DOMAIN table \subseteq 1 .. LastDay
    /\ \A d \in DOMAIN table : table[d].close \in Prices

LEMMA TableFinite ==
    ASSUME NEW S \in SUBSET (1 .. LastDay)
    PROVE  /\ IsFiniteSet(S) /\ Cardinality(S) \in Nat
           /\ \A d : /\ IsFiniteSet({e \in S : e <= d})
                     /\ Cardinality({e \in S : e <= d}) \in Nat
                     /\ Cardinality({e \in S : e <= d}) <= Cardinality(S)
<1>1. LastDay \in Nat
  BY FeedAssumption
<1>2. IsFiniteSet(1 .. LastDay)
  BY <1>1, FS_Interval
<1>3. IsFiniteSet(S) /\ Cardinality(S) \in Nat
  BY <1>2, FS_Subset, FS_CardinalityType
<1>4. ASSUME NEW d
      PROVE  /\ IsFiniteSet({e \in S : e <= d})
             /\ Cardinality({e \in S : e <= d}) \in Nat
             /\ Cardinality({e \in S : e <= d}) <= Cardinality(S)
  BY <1>3, FS_Subset, FS_CardinalityType
<1> QED BY <1>3, <1>4

LEMMA DayPlaced ==
    ASSUME NEW table, IsTable(table), NEW p \in 1 .. Cardinality(DOMAIN table)
    PROVE  DayAt(table, p) \in DOMAIN table
<1>1. DOMAIN table \in SUBSET (1 .. LastDay) /\ DOMAIN table \in SUBSET Nat
  BY FeedAssumption DEF IsTable
<1>2. \E d \in DOMAIN table : Place(table, d) = p
  BY <1>1, TableFinite, Placed DEF Place
<1> QED BY <1>2 DEF DayAt

LEMMA PlaceNat ==
    ASSUME NEW table, IsTable(table), NEW d
    PROVE  /\ Place(table, d) \in 0 .. Cardinality(DOMAIN table)
           /\ Cardinality(DOMAIN table) \in Nat
<1>1. DOMAIN table \in SUBSET (1 .. LastDay)
  BY DEF IsTable
<1>2. /\ Cardinality(DOMAIN table) \in Nat
      /\ Cardinality({e \in DOMAIN table : e <= d}) \in Nat
      /\ Cardinality({e \in DOMAIN table : e <= d}) <= Cardinality(DOMAIN table)
  BY <1>1, TableFinite
<1> QED BY <1>2 DEF Place

LEMMA ClosesTyped ==
    ASSUME NEW table, IsTable(table), NEW p \in 0 .. Cardinality(DOMAIN table)
    PROVE  ClosesTo(table, p) \in [1 .. p -> Prices]
<1>1. \A i \in 1 .. p : i \in 1 .. Cardinality(DOMAIN table)
  BY PlaceNat
<1>2. \A i \in 1 .. p : table[DayAt(table, i)].close \in Prices
  BY <1>1, DayPlaced DEF IsTable
<1> QED BY <1>2 DEF ClosesTo

-----------------------------------------------------------------------------
(* Windows.                                                                 *)

\* Lookback times the spread is the sum of the squares of the distances from the mean.
LEMMA SpreadNat ==
    ASSUME NEW w \in [1 .. Lookback -> Int]
    PROVE  Spread(w) \in Nat
<1> DEFINE I  == 1 .. Lookback
           sq == [i \in I |-> w[i] * w[i]]
<1>1. PICK L \in Nat \ {0} : L = Lookback
  BY RulesAssumption
<1>2. IsFiniteSet(I) /\ Cardinality(I) = L
  BY <1>1, FS_Interval
<1>3. PICK S \in Int : S = SumFunctionOnSet(w, I)
  BY <1>2, SumInt
<1>4. \A i \in I : sq[i] \in Int
  OBVIOUS
<1>5. PICK Q \in Int : Q = SumFunctionOnSet(sq, I)
  <2> HIDE DEF sq, I
  <2> QED BY <1>2, <1>4, SumInt
<1>6. Spread(w) = L * Q - S * S
  <2>1. DOMAIN w = I /\ DOMAIN sq = I
    OBVIOUS
  <2>2. sq = [i \in DOMAIN w |-> w[i] * w[i]]
    BY <2>1
  <2> HIDE DEF sq, I
  <2> QED BY <1>1, <1>3, <1>5, <2>1, <2>2 DEF Spread, SumFunction
<1> DEFINE a == [i \in I |-> (L * L) * sq[i]]
           b == [i \in I |-> (-2 * L * S) * w[i]]
           c == [i \in I |-> S * S]
           ab == [i \in I |-> a[i] + b[i]]
           d == [i \in I |-> ab[i] + c[i]]
<1>7. \A i \in I : /\ w[i] \in Int /\ a[i] \in Int /\ b[i] \in Int /\ c[i] \in Int
                   /\ ab[i] \in Int /\ d[i] \in Int
  OBVIOUS
<1>8. \A i \in I : d[i] \in Nat
  <2> SUFFICES ASSUME NEW i \in I PROVE d[i] \in Nat
    OBVIOUS
  <2>1. PICK x \in Int : x = w[i]
    BY <1>7
  <2>2. d[i] = (L * L) * (x * x) + (-2 * L * S) * x + S * S
    BY <2>1
  <2>3. (L * L) * (x * x) + (-2 * L * S) * x + S * S = (L * x - S) * (L * x - S)
    <3>1. PICK p \in Int : p = L * x
      OBVIOUS
    <3>2. (L * L) * (x * x) = p * p
      BY <3>1
    <3>3. (-2 * L * S) * x = -2 * (p * S)
      BY <3>1
    <3>4. (p - S) * (p - S) = p * p + (-2 * (p * S)) + S * S
      OBVIOUS
    <3> QED BY <3>1, <3>2, <3>3, <3>4
  <2>4. PICK y \in Int : y = L * x - S
    OBVIOUS
  <2>5. y * y >= 0
    BY <2>4
  <2> QED BY <2>2, <2>3, <2>4, <2>5
<1>9. SumFunctionOnSet(a, I) = (L * L) * Q
  <2>1. L * L \in Int /\ \A i \in I : a[i] = (L * L) * sq[i]
    OBVIOUS
  <2> HIDE DEF a, sq, I
  <2> QED BY <1>2, <1>4, <1>5, <2>1, SumTimes
<1>10. SumFunctionOnSet(b, I) = (-2 * L * S) * S
  <2>1. PICK k \in Int : k = -2 * L * S
    OBVIOUS
  <2>2. \A i \in I : b[i] = k * w[i]
    BY <2>1
  <2>3. \A i \in I : w[i] \in Int
    OBVIOUS
  <2>4. SumFunctionOnSet(b, I) = k * SumFunctionOnSet(w, I)
    <3> HIDE DEF b, I
    <3> QED BY <1>2, <2>2, <2>3, SumTimes
  <2> HIDE DEF b, I
  <2> QED BY <1>3, <2>1, <2>4
<1>11. SumFunctionOnSet(c, I) = (S * S) * L
  <2>1. S * S \in Int /\ \A i \in I : c[i] = S * S
    OBVIOUS
  <2> HIDE DEF c, I
  <2> QED BY <1>2, <2>1, SumConst
<1>12. SumFunctionOnSet(ab, I) = SumFunctionOnSet(a, I) + SumFunctionOnSet(b, I)
  <2>1. \A i \in I : ab[i] = a[i] + b[i]
    OBVIOUS
  <2> HIDE DEF ab, a, b, I
  <2> QED BY <1>2, <1>7, <2>1, SumPlus
<1>13. SumFunctionOnSet(d, I) = SumFunctionOnSet(ab, I) + SumFunctionOnSet(c, I)
  <2>1. \A i \in I : d[i] = ab[i] + c[i]
    OBVIOUS
  <2> HIDE DEF d, ab, c, I
  <2> QED BY <1>2, <1>7, <2>1, SumPlus
<1>14. SumFunctionOnSet(d, I) \in Nat
  <2> HIDE DEF d, I
  <2> QED BY <1>2, <1>8, SumNat
<1> HIDE DEF a, b, c, ab, d, sq, I
<1>15. (L * L) * Q + (-2 * L * S) * S + (S * S) * L \in Nat
  BY <1>9, <1>10, <1>11, <1>12, <1>13, <1>14
<1>16. (L * L) * Q + (-2 * L * S) * S + (S * S) * L = L * (L * Q - S * S)
  OBVIOUS
<1>17. PICK z \in Int : z = L * Q - S * S
  OBVIOUS
<1>18. L * z >= 0
  BY <1>15, <1>16, <1>17
<1>19. z >= 0
  <2> SUFFICES ASSUME z <= -1 PROVE FALSE
    BY <1>17
  <2>1. L * z <= L * (-1)
    BY <1>17, TimesMonotone
  <2>2. L * (-1) < 0
    OBVIOUS
  <2>3. L * z \in Int
    BY <1>17
  <2> QED BY <1>18, <2>1, <2>2, <2>3
<1> QED BY <1>6, <1>17, <1>19

LEMMA WindowTyped ==
    ASSUME NEW n \in Nat, NEW closes \in [1 .. n -> Prices]
    PROVE  /\ Len(closes) = n /\ closes \in Seq(Prices)
           /\ Signal(closes) \in Actions \cup {"NO TRADE"}
           /\ Signal(closes) \in Actions => Spread(Window(closes)) \in Nat
<1>1. closes \in Seq(Prices) /\ DOMAIN closes = 1 .. n
  BY SeqDef
<1>2. Len(closes) = n
  BY <1>1, LenProperties
<1>3. Signal(closes) \in Actions \cup {"NO TRADE"}
  BY DEF Signal, Actions
<1>4. ASSUME Signal(closes) \in Actions
      PROVE  Spread(Window(closes)) \in Nat
  <2>1. n >= Lookback /\ Lookback \in Nat
    BY <1>2, <1>4, RulesAssumption DEF Signal, Actions
  <2>2. \A i \in 1 .. Lookback : n - Lookback + i \in 1 .. n
    BY <2>1
  <2>3. \A i \in 1 .. Lookback : closes[n - Lookback + i] \in Int
    BY <2>2, FeedAssumption
  <2>4. Window(closes) \in [1 .. Lookback -> Int]
    BY <1>2, <2>3 DEF Window
  <2> QED BY <2>4, SpreadNat
<1> QED BY <1>1, <1>2, <1>3, <1>4

-----------------------------------------------------------------------------
(* Types, in whatever order the days arrive.                                *)

\* RequestOK over a table of trades with these ids.
HeldOK(held, ids) ==
    \/ held = Idle
    \/ /\ held.phase \in {"next", "upsert", "trades", "exits", "commit"}
       /\ held.last \in 1 .. LastDay /\ held.day \in 1 .. held.last
       /\ held.phase # "next" => held.was \in RowType \cup {NoRow}
       /\ held.phase = "trades" => held.row.signal \in Actions
       /\ held.phase \in {"trades", "exits", "commit"} =>
             /\ held.row \in RowType /\ held.spread \in Nat
             /\ held.days \subseteq 1 .. LastDay
             /\ held.opened \in Seq(TradeType) /\ Len(held.opened) <= 1
             /\ DOMAIN held.exits \subseteq ids
             /\ \A t \in DOMAIN held.exits : held.exits[t] \in TradeType

LEMMA HeldIs == \A held : RequestOK(held) <=> HeldOK(held, DOMAIN trades)
BY DEF RequestOK, HeldOK

LEMMA HeldStays ==
    ASSUME NEW held, NEW ids, NEW more, ids \subseteq more, HeldOK(held, ids)
    PROVE  HeldOK(held, more)
BY DEF HeldOK

\* A step of one request that loses no trade.
LEMMA OthersHold ==
    ASSUME TypeOK, NEW r \in Requests, NEW h, HeldOK(h, DOMAIN trades'),
           request' = [request EXCEPT ![r] = h], DOMAIN trades \subseteq DOMAIN trades'
    PROVE  (DOMAIN request = Requests /\ \A q \in Requests : RequestOK(request[q]))'
<1>1. (\A held : RequestOK(held) <=> HeldOK(held, DOMAIN trades))'
  BY HeldIs, PTL
<1>2. \A q \in Requests : HeldOK(request[q], DOMAIN trades)
  BY HeldIs DEF TypeOK
<1>3. \A q \in Requests : HeldOK(request[q], DOMAIN trades')
  BY <1>2, HeldStays
<1>4. DOMAIN request' = Requests /\ \A q \in Requests : request'[q] = IF q = r THEN h ELSE request[q]
  BY DEF TypeOK
<1>5. \A q \in Requests : HeldOK(request'[q], DOMAIN trades')
  BY <1>3, <1>4
<1> QED BY <1>1, <1>4, <1>5

LEMMA LogIsTable ==
    ASSUME TypeOK, NEW day \in 1 .. LastDay, NEW row, row.close \in Prices
    PROVE  LET table == [d \in DOMAIN log \cup {day} |-> IF d = day THEN row ELSE log[d]]
           IN  IsTable(table) /\ DOMAIN table = DOMAIN log \cup {day}
BY DEF TypeOK, IsTable, RowType

LEMMA SettledTyped ==
    ASSUME NEW table, IsTable(table), NEW trade \in TradeType, Due(table, trade)
    PROVE  Settled(table, trade) \in TradeType
<1> DEFINE at == Place(table, trade.day)
           exitDay == DayAt(table, at + HoldDays)
<1>1. at \in Nat /\ Cardinality(DOMAIN table) \in Nat /\ HoldDays \in Nat \ {0}
  BY PlaceNat, RulesAssumption
<1>2. at + HoldDays \in 1 .. Cardinality(DOMAIN table)
  BY <1>1 DEF Due
<1>3. exitDay \in DOMAIN table
  BY <1>2, DayPlaced
<1>4. exitDay \in 0 .. LastDay /\ table[exitDay].close \in Prices
  BY <1>3, FeedAssumption DEF IsTable
<1>5. Settled(table, trade).breached \in BOOLEAN
  BY DEF Settled
<1>6. /\ Settled(table, trade).exitDay = exitDay
      /\ Settled(table, trade).exit = table[exitDay].close
  BY DEF Settled
<1>7. Settled(table, trade) =
        [day |-> trade.day, action |-> trade.action, entry |-> trade.entry,
         spread |-> trade.spread, status |-> "CLOSED", exitDay |-> exitDay,
         exit |-> table[exitDay].close, breached |-> Settled(table, trade).breached]
  BY DEF Settled
<1> HIDE DEF exitDay, at
<1> QED BY <1>4, <1>5, <1>7 DEF TradeType

LEMMA RowTyped ==
    ASSUME NEW close \in Prices, NEW signal \in Actions \cup {"NO TRADE"}
    PROVE  [close |-> close, signal |-> signal] \in RowType
BY DEF RowType

LEMMA MergedTyped ==
    ASSUME NEW row \in RowType, NEW new \in RowType, NEW was
    PROVE  Merged(row, was, new) \in RowType
<1>1. CASE was = NoRow
  BY <1>1 DEF Merged
<1>2. CASE was # NoRow
  <2>1. Merged(row, was, new) =
          [close  |-> IF was.close = new.close THEN row.close ELSE new.close,
           signal |-> IF was.signal = new.signal THEN row.signal ELSE new.signal]
    BY <1>2 DEF Merged
  <2>2. /\ row.close \in Prices /\ new.close \in Prices
        /\ row.signal \in Actions \cup {"NO TRADE"} /\ new.signal \in Actions \cup {"NO TRADE"}
    BY DEF RowType
  <2>3. PICK close \in Prices :
           close = IF was.close = new.close THEN row.close ELSE new.close
    BY <2>2
  <2>4. PICK signal \in Actions \cup {"NO TRADE"} :
           signal = IF was.signal = new.signal THEN row.signal ELSE new.signal
    BY <2>2
  <2>5. Merged(row, was, new) = [close |-> close, signal |-> signal]
    BY <2>1, <2>3, <2>4
  <2> QED BY <2>5, RowTyped
<1> QED BY <1>1, <1>2

LEMMA TypeCommit ==
    ASSUME TypeOK, NEW r \in Requests, Commit(r)
    PROVE  TypeOK'
<1> DEFINE held == request[r]
<1>1. /\ held.phase = "commit" /\ HeldOK(held, DOMAIN trades)
      /\ held # Idle
  BY HeldIs DEF Commit, TypeOK, Idle
<1>2. /\ held.last \in 1 .. LastDay /\ held.day \in 1 .. held.last
      /\ held.day \in 1 .. LastDay /\ held.was \in RowType \cup {NoRow} /\ held.row \in RowType
      /\ held.opened \in Seq(TradeType)
      /\ \A t \in DOMAIN held.exits : held.exits[t] \in TradeType
  BY <1>1, FeedAssumption DEF HeldOK
<1>3. DOMAIN log' = DOMAIN log \cup {held.day}
  BY DEF Commit
<1>4. ASSUME NEW d \in DOMAIN log' PROVE log'[d] \in RowType
  <2>1. CASE d # held.day
    BY <1>3, <1>4, <2>1 DEF Commit, TypeOK
  <2>2. CASE d = held.day /\ d \notin DOMAIN log
    BY <1>2, <1>3, <2>2 DEF Commit
  <2>3. CASE d = held.day /\ d \in DOMAIN log
    <3>1. log[d] \in RowType
      BY <2>3 DEF TypeOK
    <3>2. log'[d] = Merged(log[d], held.was, held.row)
      BY <1>3, <2>3 DEF Commit
    <3> HIDE DEF held
    <3> QED BY <1>2, <3>1, <3>2, MergedTyped
  <2> QED BY <2>1, <2>2, <2>3
<1> DEFINE kept == [t \in DOMAIN trades |->
                       IF t \in DOMAIN held.exits THEN held.exits[t] ELSE trades[t]]
<1>5. kept \in Seq(TradeType) /\ Len(kept) = Len(trades) /\ trades' = kept \o held.opened
  <2>1. trades \in Seq(TradeType) /\ DOMAIN trades = 1 .. Len(trades) /\ Len(trades) \in Nat
    BY LenProperties DEF TypeOK
  <2>2. kept \in [1 .. Len(trades) -> TradeType]
    BY <1>2, <2>1, ElementOfSeq
  <2>3. kept \in Seq(TradeType)
    BY <2>1, <2>2, SeqDef
  <2>4. Len(kept) = Len(trades)
    BY <2>1, <2>2, <2>3, LenProperties
  <2>5. trades' = kept \o held.opened
    BY DEF Commit
  <2> QED BY <2>3, <2>4, <2>5
<1>6. trades' \in Seq(TradeType) /\ DOMAIN trades \subseteq DOMAIN trades'
  <2> HIDE DEF kept, held
  <2>1. trades \in Seq(TradeType) /\ DOMAIN trades = 1 .. Len(trades) /\ Len(trades) \in Nat
    BY LenProperties DEF TypeOK
  <2>2. /\ trades' \in Seq(TradeType) /\ Len(trades') = Len(kept) + Len(held.opened)
        /\ Len(held.opened) \in Nat
    BY <1>2, <1>5, ConcatProperties, LenProperties
  <2>3. DOMAIN trades' = 1 .. Len(trades')
    BY <2>2, LenProperties
  <2> QED BY <1>5, <2>1, <2>2, <2>3
<1>7. PICK h : /\ request' = [request EXCEPT ![r] = h]
               /\ \/ h = Idle
                  \/ /\ held.day # held.last
                     /\ h = [phase |-> "next", day |-> held.day + 1, last |-> held.last]
  BY DEF Commit
<1>8. HeldOK(h, DOMAIN trades')
  <2>1. held.day # held.last => held.day + 1 \in 1 .. held.last
    BY <1>2, <1>7
  <2> HIDE DEF held
  <2> QED BY <1>2, <1>7, <2>1 DEF HeldOK
<1>9. (DOMAIN request = Requests /\ \A q \in Requests : RequestOK(request[q]))'
  BY <1>6, <1>7, <1>8, OthersHold
<1>10. feed' = feed /\ batches' = batches /\ faults' = faults
  BY DEF Commit
<1> QED BY <1>2, <1>3, <1>4, <1>6, <1>9, <1>10 DEF TypeOK

LEMMA TypeUpsert ==
    ASSUME TypeOK, NEW r \in Requests, Upsert(r)
    PROVE  TypeOK'
<1> DEFINE held == request[r]
           day  == held.day
<1>1. held.phase = "upsert" /\ HeldOK(held, DOMAIN trades) /\ held # Idle
  <2>1. held.phase = "upsert"
    BY DEF Upsert
  <2> QED BY <2>1, HeldIs DEF TypeOK, Idle
<1>2. /\ held.last \in 1 .. LastDay /\ day \in 1 .. held.last /\ day \in 1 .. LastDay
      /\ held.was \in RowType \cup {NoRow}
  BY <1>1, FeedAssumption DEF HeldOK
<1>3. feed[day] \in Prices
  BY <1>2 DEF TypeOK
<1> DEFINE row    == [close |-> feed[day], signal |-> ""]
           table  == [d \in DOMAIN log \cup {day} |-> IF d = day THEN row ELSE log[d]]
           place  == Place(table, day)
           closes == ClosesTo(table, place)
           signal == Signal(closes)
           spread == IF signal \in Actions THEN Spread(Window(closes)) ELSE 0
<1>4. IsTable(table) /\ DOMAIN table \subseteq 1 .. LastDay
  <2>1. row.close \in Prices
    BY <1>3
  <2>2. IsTable(table)
    <3> HIDE DEF row, held, day
    <3> QED BY <1>2, <2>1, LogIsTable DEF day
  <2> QED BY <2>2 DEF IsTable
<1>5. place \in Nat /\ closes \in [1 .. place -> Prices]
  <2> HIDE DEF table
  <2> QED BY <1>4, PlaceNat, ClosesTyped
<1>6. signal \in Actions \cup {"NO TRADE"} /\ spread \in Nat
  <2> HIDE DEF closes, place
  <2> QED BY <1>5, WindowTyped
<1> DEFINE h == [phase |-> IF signal \in Actions THEN "trades" ELSE "exits",
                 day |-> day, last |-> held.last, was |-> held.was,
                 row |-> [close |-> feed[day], signal |-> signal],
                 spread |-> spread,
                 days |-> DOMAIN table, opened |-> <<>>, exits |-> <<>>]
<1>7. request' = [request EXCEPT ![r] = h]
  BY DEF Upsert
<1>8. HeldOK(h, DOMAIN trades)
  <2>1. <<>> \in Seq(TradeType) /\ Len(<<>>) = 0 /\ DOMAIN <<>> = {}
    BY EmptySeq
  <2> HIDE DEF signal, spread, table, held, day
  <2>2. h.row \in RowType
    BY <1>3, <1>6 DEF RowType
  <2>3. h.phase \in {"trades", "exits"} /\ (h.phase = "trades" => h.row.signal \in Actions)
    OBVIOUS
  <2>4. /\ h.day = day /\ h.last = held.last /\ h.was = held.was /\ h.spread = spread
        /\ h.days = DOMAIN table /\ h.opened = <<>> /\ h.exits = <<>>
    OBVIOUS
  <2> HIDE DEF h
  <2>5. h.phase \in {"next", "upsert", "trades", "exits", "commit"} /\ h.phase # "next"
    BY <2>3
  <2>6. h.last \in 1 .. LastDay /\ h.day \in 1 .. h.last /\ h.was \in RowType \cup {NoRow}
    BY <1>2, <2>4
  <2>7. h.spread \in Nat /\ h.days \subseteq 1 .. LastDay
    BY <1>4, <1>6, <2>4
  <2>8. /\ h.opened \in Seq(TradeType) /\ Len(h.opened) <= 1
        /\ DOMAIN h.exits \subseteq DOMAIN trades
        /\ \A t \in DOMAIN h.exits : h.exits[t] \in TradeType
    BY <2>1, <2>4
  <2> QED BY <2>2, <2>3, <2>5, <2>6, <2>7, <2>8 DEF HeldOK
<1>9. UNCHANGED <<feed, log, trades, batches, faults>>
  BY DEF Upsert
<1>10. (DOMAIN request = Requests /\ \A q \in Requests : RequestOK(request[q]))'
  <2> HIDE DEF h
  <2> QED BY <1>7, <1>8, <1>9, OthersHold
<1> QED BY <1>9, <1>10 DEF TypeOK

LEMMA NewTradeTyped ==
    ASSUME NEW held, held.day \in 1 .. LastDay, held.row \in RowType,
           held.row.signal \in Actions, held.spread \in Nat
    PROVE  NewTrade(held) \in TradeType
<1>1. 0 \in 0 .. LastDay
  BY FeedAssumption
<1> QED BY <1>1 DEF NewTrade, TradeType, RowType

LEMMA TypeDecide ==
    ASSUME TypeOK, NEW r \in Requests, DecideTrade(r)
    PROVE  TypeOK'
<1> DEFINE held == request[r]
           h == [phase |-> "exits", day |-> held.day, last |-> held.last,
                 was |-> held.was, row |-> held.row, spread |-> held.spread,
                 days |-> held.days, exits |-> <<>>,
                 opened |-> IF Covered(r) THEN <<>> ELSE <<NewTrade(held)>>]
<1>1. held.phase = "trades" /\ HeldOK(held, DOMAIN trades) /\ held # Idle
  BY HeldIs DEF DecideTrade, TypeOK, Idle
<1>2. /\ held.last \in 1 .. LastDay /\ held.day \in 1 .. held.last /\ held.day \in 1 .. LastDay
      /\ held.was \in RowType \cup {NoRow} /\ held.row \in RowType /\ held.spread \in Nat
      /\ held.days \subseteq 1 .. LastDay /\ held.row.signal \in Actions
  BY <1>1, FeedAssumption DEF HeldOK
<1>3. request' = [request EXCEPT ![r] = h]
  BY DEF DecideTrade
<1>4. h.opened \in Seq(TradeType) /\ Len(h.opened) <= 1
  <2>1. NewTrade(held) \in TradeType
    <3> HIDE DEF held
    <3> QED BY <1>2, NewTradeTyped
  <2>2. <<>> \in Seq(TradeType) /\ Len(<<>>) = 0
    BY EmptySeq
  <2> QED BY <2>1, <2>2
<1>5. HeldOK(h, DOMAIN trades)
  <2>1. DOMAIN <<>> = {}
    OBVIOUS
  <2>2. /\ h.phase = "exits" /\ h.day = held.day /\ h.last = held.last /\ h.was = held.was
        /\ h.row = held.row /\ h.spread = held.spread /\ h.days = held.days /\ h.exits = <<>>
    OBVIOUS
  <2> HIDE DEF h, held
  <2> QED BY <1>2, <1>4, <2>1, <2>2 DEF HeldOK
<1>6. UNCHANGED <<feed, log, trades, batches, faults>>
  BY DEF DecideTrade
<1>7. (DOMAIN request = Requests /\ \A q \in Requests : RequestOK(request[q]))'
  <2> HIDE DEF h
  <2> QED BY <1>3, <1>5, <1>6, OthersHold
<1> QED BY <1>6, <1>7 DEF TypeOK

LEMMA TypeFill ==
    ASSUME TypeOK, NEW r \in Requests, FillDueExits(r)
    PROVE  TypeOK'
<1> DEFINE held  == request[r]
           table == Seen(r)
           own   == held.opened
           due   == {t \in DOMAIN trades : Due(table, trades[t])}
           opened == [k \in DOMAIN own |->
                         IF Due(table, own[k]) THEN Settled(table, own[k]) ELSE own[k]]
           exits  == [t \in due |-> Settled(table, trades[t])]
           h == [phase |-> "commit", day |-> held.day, last |-> held.last,
                 was |-> held.was, row |-> held.row, spread |-> held.spread,
                 days |-> held.days, opened |-> opened, exits |-> exits]
<1>1. held.phase = "exits" /\ HeldOK(held, DOMAIN trades) /\ held # Idle
  BY HeldIs DEF FillDueExits, TypeOK, Idle
<1>2. /\ held.last \in 1 .. LastDay /\ held.day \in 1 .. held.last /\ held.day \in 1 .. LastDay
      /\ held.was \in RowType \cup {NoRow} /\ held.row \in RowType /\ held.spread \in Nat
      /\ held.days \subseteq 1 .. LastDay /\ own \in Seq(TradeType) /\ Len(own) <= 1
  BY <1>1, FeedAssumption DEF HeldOK
<1>3. request' = [request EXCEPT ![r] = h]
  BY DEF FillDueExits
<1>4. IsTable(table)
  <2>1. held.row.close \in Prices
    BY <1>2 DEF RowType
  <2>2. table = [d \in DOMAIN log \cup {held.day} |-> IF d = held.day THEN held.row ELSE log[d]]
    BY DEF Seen
  <2> HIDE DEF table, held
  <2> QED BY <1>2, <2>1, <2>2, LogIsTable
<1>5. opened \in Seq(TradeType) /\ Len(opened) <= 1
  <2>1. DOMAIN own = 1 .. Len(own) /\ Len(own) \in Nat
    BY <1>2, LenProperties
  <2>2. \A k \in 1 .. Len(own) : own[k] \in TradeType
    BY <1>2, ElementOfSeq
  <2>3. ASSUME NEW k \in 1 .. Len(own) PROVE opened[k] \in TradeType
    <3> HIDE DEF table, own
    <3> QED BY <1>4, <2>1, <2>2, SettledTyped
  <2>4. opened \in [1 .. Len(own) -> TradeType]
    <3>1. opened = [k \in 1 .. Len(own) |-> opened[k]]
      BY <2>1
    <3> HIDE DEF opened, own
    <3> QED BY <2>3, <3>1
  <2> HIDE DEF opened, own
  <2>5. opened \in Seq(TradeType)
    BY <2>1, <2>4, SeqDef
  <2> QED BY <1>2, <2>1, <2>4, <2>5, LenProperties
<1>6. DOMAIN exits \subseteq DOMAIN trades /\ \A t \in DOMAIN exits : exits[t] \in TradeType
  <2>1. \A t \in DOMAIN trades : trades[t] \in TradeType
    BY ElementOfSeq, LenProperties DEF TypeOK
  <2> HIDE DEF table
  <2> QED BY <1>4, <2>1, SettledTyped
<1>7. HeldOK(h, DOMAIN trades)
  <2>1. /\ h.phase = "commit" /\ h.day = held.day /\ h.last = held.last /\ h.was = held.was
        /\ h.row = held.row /\ h.spread = held.spread /\ h.days = held.days
        /\ h.opened = opened /\ h.exits = exits
    OBVIOUS
  <2> HIDE DEF h, held, opened, exits
  <2> QED BY <1>2, <1>5, <1>6, <2>1 DEF HeldOK
<1>8. UNCHANGED <<feed, log, trades, batches, faults>>
  BY DEF FillDueExits
<1>9. (DOMAIN request = Requests /\ \A q \in Requests : RequestOK(request[q]))'
  <2> HIDE DEF h
  <2> QED BY <1>3, <1>7, <1>8, OthersHold
<1> QED BY <1>8, <1>9 DEF TypeOK

LEMMA TypeStep == TypeOK /\ [Next]_vars => TypeOK'
<1> SUFFICES ASSUME TypeOK, [Next]_vars
             PROVE  TypeOK'
  OBVIOUS
<1>1. ASSUME NEW r \in Requests, NEW h, HeldOK(h, DOMAIN trades),
             request' = [request EXCEPT ![r] = h], UNCHANGED <<feed, log, trades>>,
             batches' \in Nat, faults' \in Nat
      PROVE  TypeOK'
  <2>1. (DOMAIN request = Requests /\ \A q \in Requests : RequestOK(request[q]))'
    BY <1>1, OthersHold
  <2> QED BY <1>1, <2>1 DEF TypeOK
<1>2. HeldOK(Idle, DOMAIN trades) /\ batches \in Nat /\ faults \in Nat
  BY DEF HeldOK, TypeOK
<1>3. ASSUME NEW r \in Requests, NEW slice \in Slices, StartBatch(r, slice)
      PROVE  TypeOK'
  <2> DEFINE h == [phase |-> "next", day |-> slice[1], last |-> slice[2]]
  <2>1. slice[1] \in 1 .. LastDay /\ slice[2] \in 1 .. LastDay /\ slice[1] <= slice[2]
    BY <1>3, FeedAssumption DEF StartBatch
  <2>2. HeldOK(h, DOMAIN trades)
    BY <2>1, FeedAssumption DEF HeldOK
  <2>3. /\ request' = [request EXCEPT ![r] = h] /\ UNCHANGED <<feed, log, trades>>
        /\ batches' \in Nat /\ faults' \in Nat
    BY <1>2, <1>3 DEF StartBatch
  <2> HIDE DEF h
  <2> QED BY <1>1, <2>2, <2>3
<1>4. ASSUME NEW r \in Requests, FindRow(r) PROVE TypeOK'
  <2> DEFINE held == request[r]
             h == [phase |-> "upsert", day |-> held.day, last |-> held.last,
                   was |-> IF held.day \in DOMAIN log THEN log[held.day] ELSE NoRow]
  <2>1. HeldOK(held, DOMAIN trades) /\ held.phase = "next" /\ held # Idle
    BY <1>4, HeldIs DEF FindRow, TypeOK, Idle
  <2>2. HeldOK(h, DOMAIN trades)
    BY <2>1 DEF HeldOK, TypeOK
  <2>3. /\ request' = [request EXCEPT ![r] = h] /\ UNCHANGED <<feed, log, trades>>
        /\ batches' \in Nat /\ faults' \in Nat
    BY <1>2, <1>4 DEF FindRow
  <2> HIDE DEF h, held
  <2> QED BY <1>1, <2>2, <2>3
<1>5. ASSUME NEW r \in Requests, InsertRefused(r) PROVE TypeOK'
  BY <1>1, <1>2, <1>5 DEF InsertRefused
<1>6. ASSUME NEW r \in Requests, RequestFails(r) PROVE TypeOK'
  <2>1. /\ request' = [request EXCEPT ![r] = Idle] /\ UNCHANGED <<feed, log, trades>>
        /\ batches' \in Nat /\ faults' \in Nat
    BY <1>2, <1>6 DEF RequestFails, Fault
  <2> QED BY <1>1, <1>2, <2>1
<1>7. CASE AppRestarts
  <2>1. (DOMAIN request = Requests /\ \A q \in Requests : RequestOK(request[q]))'
    BY <1>7 DEF AppRestarts, RequestOK
  <2> QED BY <1>7, <2>1 DEF AppRestarts, Fault, TypeOK
<1>8. CASE UNCHANGED vars
  <2>1. (DOMAIN request = Requests /\ \A q \in Requests : RequestOK(request[q]))'
    BY <1>8 DEF vars, TypeOK, RequestOK
  <2> QED BY <1>8, <2>1 DEF vars, TypeOK
<1> QED BY <1>3, <1>4, <1>5, <1>6, <1>7, <1>8, TypeUpsert, TypeDecide, TypeFill, TypeCommit
        DEF Next, Ingest

\* ingest_close: closes and trades are rows of their types in whatever order the days
\* arrive, however requests overlap and wherever they fail.  The exit of a due trade is
\* a day of the log, and the spread of a window is never negative.
THEOREM TypeCorrect == Spec => []TypeOK
<1>1. Init => TypeOK
  <2>1. <<>> \in Seq(TradeType) /\ DOMAIN <<>> = {}
    BY EmptySeq
  <2> QED BY <2>1 DEF Init, TypeOK, RequestOK, Idle
<1>2. TypeOK /\ [Next]_vars => TypeOK'
  BY TypeStep
<1> QED BY <1>1, <1>2, PTL DEF Spec

-----------------------------------------------------------------------------
(* The scan of the workbook.                                                *)

\* The workbook and the service have the same rules.
LEMMA SameRules ==
    /\ \A c : Workbook!Signal(c) = Signal(c) /\ Workbook!Window(c) = Window(c)
    /\ \A w : Workbook!Spread(w) = Spread(w)
    /\ \A action, entry, spread, close :
          Workbook!Breaches(action, entry, spread, close) = Breaches(action, entry, spread, close)
    /\ Workbook!Actions = Actions
<1>1. \A w : Workbook!SumFunction(w) = SumFunction(w)
  BY DEF Workbook!SumFunction, Workbook!SumFunctionOnSet, Workbook!FoldFunctionOnSet,
         Workbook!MapThenFoldSet, SumFunction, SumFunctionOnSet, FoldFunctionOnSet,
         MapThenFoldSet
<1>2. \A w : Workbook!Spread(w) = Spread(w) /\ Workbook!Deviation(w) = Deviation(w)
  BY <1>1 DEF Workbook!Spread, Spread, Workbook!Deviation, Deviation
<1>3. \A c : Workbook!Window(c) = Window(c)
  BY DEF Workbook!Window, Window
<1>4. \A w : Workbook!Stretched(w) = Stretched(w)
  BY <1>2 DEF Workbook!Stretched, Stretched
<1>5. \A c : Workbook!Signal(c) = Signal(c)
  BY <1>2, <1>3, <1>4 DEF Workbook!Signal, Signal
<1>6. \A action, entry, spread, close :
         Workbook!Breaches(action, entry, spread, close) = Breaches(action, entry, spread, close)
  BY DEF Workbook!Breaches, Breaches
<1>7. Workbook!Actions = Actions
  BY DEF Workbook!Actions, Actions
<1> QED BY <1>2, <1>3, <1>5, <1>6, <1>7

\* What a scan of n closes makes of a day, given what it makes of later days; "fires" are
\* the days with a signal.
ScanDay(f, n, fires, day) ==
    IF day > n THEN <<>>
    ELSE IF day \in fires THEN <<day>> \o f[day + HoldDays + 1]
    ELSE f[day + 1]

Scans(f, n, fires) == f = [day \in Nat |-> ScanDay(f, n, fires, day)]

LEMMA ScanExists ==
    ASSUME NEW n \in Nat, NEW fires
    PROVE  \E f : Scans(f, n, fires)
<1> DEFINE From(k, f) == /\ f = [day \in Nat |-> f[day]]
                         /\ \A day \in Nat : day + k > n => f[day] = ScanDay(f, n, fires, day)
           T == {k \in Nat : ~ \E f : From(k, f)}
<1>1. 0 \notin T
  <2> DEFINE f == [day \in Nat |-> <<>>]
  <2>1. From(0, f)
    BY DEF ScanDay
  <2> QED BY <2>1
<1>2. ASSUME NEW k \in Nat, NEW f, From(k, f)
      PROVE  \E g : From(k + 1, g)
  <2>1. CASE k > n
    BY <1>2, <2>1
  <2>2. CASE k <= n
    <3> DEFINE d == n - k
               v == ScanDay(f, n, fires, d)
               g == [day \in Nat |-> IF day = d THEN v ELSE f[day]]
    <3>1. d \in Nat /\ HoldDays \in Nat
      BY <2>2, RulesAssumption
    <3>2. \A day \in Nat : day > d => g[day] = f[day]
      OBVIOUS
    <3>3. \A day \in Nat : day >= d => ScanDay(g, n, fires, day) = ScanDay(f, n, fires, day)
      <4> HIDE DEF g, d
      <4> QED BY <3>1, <3>2 DEF ScanDay
    <3>4. ASSUME NEW day \in Nat, day + (k + 1) > n
          PROVE  g[day] = ScanDay(g, n, fires, day)
      <4>1. day >= d
        BY <3>4
      <4>2. CASE day = d
        BY <3>1, <3>3, <4>2
      <4>3. CASE day # d
        <5>1. day + k > n /\ day > d
          BY <3>4, <4>3
        <5>2. f[day] = ScanDay(f, n, fires, day)
          BY <1>2, <5>1
        <5>3. g[day] = f[day]
          BY <3>2, <5>1
        <5>4. ScanDay(g, n, fires, day) = ScanDay(f, n, fires, day)
          BY <3>3, <4>1
        <5> QED BY <5>2, <5>3, <5>4
      <4> QED BY <4>2, <4>3
    <3>5. From(k + 1, g)
      <4>1. g = [day \in Nat |-> g[day]]
        OBVIOUS
      <4> HIDE DEF g
      <4> QED BY <3>4, <4>1
    <3> QED BY <3>5
  <2> QED BY <2>1, <2>2
<1>3. T = {}
  <2> SUFFICES ASSUME T # {} PROVE FALSE
    OBVIOUS
  <2>1. PICK k \in T : \A m \in T : k <= m
    <3>1. T \subseteq Nat
      OBVIOUS
    <3> HIDE DEF T
    <3> QED BY <3>1, LeastOf
  <2>2. k \in Nat \ {0}
    BY <1>1, <2>1
  <2>3. k - 1 \in Nat /\ k - 1 \notin T /\ (k - 1) + 1 = k
    <3> HIDE DEF T
    <3> QED BY <2>1, <2>2
  <2>4. PICK f : From(k - 1, f)
    <3> HIDE DEF From
    <3> QED BY <2>3
  <2>5. \E g : From(k, g)
    <3> HIDE DEF From
    <3> QED BY <1>2, <2>3, <2>4
  <2> QED BY <2>5
<1>4. PICK f : From(n + 1, f)
  <2> HIDE DEF From
  <2> QED BY <1>3
<1>5. \A day \in Nat : f[day] = ScanDay(f, n, fires, day)
  BY <1>4
<1>6. f = [day \in Nat |-> ScanDay(f, n, fires, day)]
  <2>1. f = [day \in Nat |-> f[day]]
    BY <1>4
  <2> QED BY <1>5, <2>1
<1> QED BY <1>6 DEF Scans

\* The last day of a set that fails: an induction from the end of the log.
LEMMA LastFailing ==
    ASSUME NEW n \in Nat, NEW B, B \subseteq 1 .. n, B # {}
    PROVE  \E d \in B : \A e \in (d + 1) .. n : e \notin B
<1>1. IsFiniteSet(B) /\ B \in SUBSET Int
  <2>1. IsFiniteSet(1 .. n) /\ B \in SUBSET (1 .. n)
    BY FS_Interval
  <2>2. IsFiniteSet(B)
    BY <2>1, FS_Subset
  <2>3. \A x \in B : x \in Int
    OBVIOUS
  <2> QED BY <2>2, <2>3
<1>2. PICK d \in B : \A x \in B : x <= d
  BY <1>1, FiniteMax
<1>3. d \in 1 .. n
  BY <1>2
<1> QED BY <1>2, <1>3

\* One day of a scan from another.
Unfolds(f, n, fires, d) ==
    /\ d > n => f[d] = <<>>
    /\ d <= n /\ d \in fires => f[d] = <<d>> \o f[d + HoldDays + 1]
    /\ d <= n /\ d \notin fires => f[d] = f[d + 1]

LEMMA ScanUnfolds ==
    ASSUME NEW n \in Nat, NEW fires, NEW f, Scans(f, n, fires), NEW d \in Nat \ {0}
    PROVE  Unfolds(f, n, fires, d)
<1>1. f[d] = ScanDay(f, n, fires, d)
  BY DEF Scans
<1> QED BY <1>1 DEF ScanDay, Unfolds

LEMMA Prepended ==
    ASSUME NEW m \in Int, NEW n \in Int, NEW d \in m .. n, NEW s \in Seq(m .. n)
    PROVE  /\ <<d>> \o s \in Seq(m .. n)
           /\ Range(<<d>> \o s) = {d} \cup Range(s)
           /\ \A x : <<d>> \o Append(s, x) = Append(<<d>> \o s, x)
<1>1. <<d>> \in Seq(m .. n) /\ Len(<<d>>) = 1 /\ Range(<<d>>) = {d}
  BY DEF Range
<1>2. <<d>> \o s \in Seq(m .. n) /\ Range(<<d>> \o s) = Range(<<d>>) \cup Range(s)
  <2>1. <<d>> \o s \in Seq(m .. n)
    BY <1>1, ConcatProperties
  <2>2. Range(<<d>> \o s) = Range(<<d>>) \cup Range(s)
    <3>1. PICK one, T : one = <<d>> /\ T = m .. n
      OBVIOUS
    <3>2. one \in Seq(T) /\ s \in Seq(T)
      BY <1>1, <3>1
    <3>3. Range(one \o s) = Range(one) \cup Range(s)
      BY <3>2, RangeConcatenation
    <3> QED BY <3>1, <3>3
  <2> QED BY <2>1, <2>2
<1>3. ASSUME NEW x PROVE <<d>> \o Append(s, x) = Append(<<d>> \o s, x)
  <2> DEFINE T == (m .. n) \cup {x}
  <2>1. <<d>> \in Seq(T) /\ s \in Seq(T) /\ <<x>> \in Seq(T)
    BY <1>1, SeqMonotonic
  <2>2. Append(s, x) = s \o <<x>> /\ <<d>> \o s \in Seq(T)
    <3> HIDE DEF T
    <3> QED BY <2>1, ConcatProperties, AppendIsConcat
  <2>3. Append(<<d>> \o s, x) = (<<d>> \o s) \o <<x>>
    <3> HIDE DEF T
    <3> QED BY <2>1, <2>2, AppendIsConcat
  <2>4. (<<d>> \o s) \o <<x>> = <<d>> \o (s \o <<x>>)
    <3> HIDE DEF T
    <3> QED BY <2>1, ConcatAssociative
  <2> QED BY <2>2, <2>3, <2>4
<1> QED BY <1>1, <1>2, <1>3

\* A scan from a day enters on days from then on.
LEMMA ScanTyped ==
    ASSUME NEW n \in Nat, NEW fires, NEW f, Scans(f, n, fires), NEW d \in Nat \ {0}
    PROVE  f[d] \in Seq(d .. n)
<1> DEFINE B == {k \in 1 .. n : f[k] \notin Seq(k .. n)}
<1>1. \A k \in Nat \ {0} : k > n => f[k] \in Seq(k .. n)
  <2>1. \A k \in Nat \ {0} : Unfolds(f, n, fires, k)
    BY ScanUnfolds
  <2> QED BY <2>1, EmptySeq DEF Unfolds
<1>2. ASSUME B # {} PROVE FALSE
  <2>1. PICK k \in B : \A e \in (k + 1) .. n : e \notin B
    <3> HIDE DEF B
    <3>1. B \subseteq 1 .. n
      BY DEF B
    <3> QED BY <1>2, <3>1, LastFailing
  <2>2. k \in 1 .. n /\ k \in Nat \ {0} /\ HoldDays \in Nat
    BY RulesAssumption
  <2>3. ASSUME NEW e \in Nat, e > k PROVE f[e] \in Seq(k .. n)
    <3>1. f[e] \in Seq(e .. n)
      BY <1>1, <2>1, <2>2, <2>3
    <3>2. e .. n \subseteq k .. n
      BY <2>2, <2>3
    <3> QED BY <3>1, <3>2, SeqMonotonic
  <2>4. f[k + 1] \in Seq(k .. n) /\ f[k + HoldDays + 1] \in Seq(k .. n)
    BY <2>2, <2>3
  <2>5. f[k] \in Seq(k .. n)
    <3>1. Unfolds(f, n, fires, k) /\ k <= n
      BY <2>2, ScanUnfolds
    <3>2. CASE k \notin fires
      BY <2>4, <3>1, <3>2 DEF Unfolds
    <3>3. CASE k \in fires
      <4>1. f[k] = <<k>> \o f[k + HoldDays + 1]
        BY <3>1, <3>3 DEF Unfolds
      <4>2. <<k>> \o f[k + HoldDays + 1] \in Seq(k .. n)
        BY <2>2, <2>4, Prepended
      <4> QED BY <4>1, <4>2
    <3> QED BY <3>2, <3>3
  <2> QED BY <2>1, <2>5
<1> QED BY <1>1, <1>2

\* A day that is entered comes before what follows its hold.
Fronts(f, d) ==
    LET rest == f[d + HoldDays + 1]
    IN  /\ f[d] = <<d>> \o rest
        /\ Range(f[d]) = {d} \cup Range(rest)
        /\ \A x : <<d>> \o Append(rest, x) = Append(f[d], x)

LEMMA ScanFront ==
    ASSUME NEW n \in Nat, NEW fires, NEW f, Scans(f, n, fires), NEW d \in (1 .. n) \cap fires
    PROVE  Fronts(f, d)
<1> DEFINE rest == f[d + HoldDays + 1]
<1>1. d \in Nat \ {0} /\ d + HoldDays + 1 \in Nat \ {0} /\ d <= n
  BY RulesAssumption
<1>2. f[d] = <<d>> \o rest
  BY <1>1, ScanUnfolds DEF Unfolds
<1>3. rest \in Seq(d .. n)
  <2>1. rest \in Seq((d + HoldDays + 1) .. n)
    BY <1>1, ScanTyped
  <2>2. (d + HoldDays + 1) .. n \subseteq d .. n
    BY <1>1, RulesAssumption
  <2> QED BY <2>1, <2>2, SeqMonotonic
<1>4. d \in d .. n /\ d \in Int /\ n \in Int
  BY <1>1
<1>5. /\ Range(<<d>> \o rest) = {d} \cup Range(rest)
      /\ \A x : <<d>> \o Append(rest, x) = Append(<<d>> \o rest, x)
  <2> HIDE DEF rest
  <2> QED BY <1>3, <1>4, Prepended, SMTT(40)
<1> QED BY <1>2, <1>5 DEF Fronts

\* One more day: the scan enters on it if it has a signal and no earlier entry holds.
LEMMA ScanGrows ==
    ASSUME NEW n \in Nat, NEW fires,
           NEW f, Scans(f, n, fires), NEW g, Scans(g, n + 1, fires), NEW d \in 1 .. n + 1
    PROVE  g[d] = IF n + 1 \in fires /\ \A e \in Range(f[d]) : n + 1 - e > HoldDays
                    THEN Append(f[d], n + 1) ELSE f[d]
<1> DEFINE Free(k) == n + 1 \in fires /\ \A e \in Range(f[k]) : n + 1 - e > HoldDays
           Grown(k) == g[k] = IF Free(k) THEN Append(f[k], n + 1) ELSE f[k]
           B == {k \in 1 .. n + 1 : ~Grown(k)}
<1> SUFFICES ASSUME B # {} PROVE FALSE
  OBVIOUS
<1>1. n + 1 \in Nat /\ HoldDays \in Nat \ {0}
  BY RulesAssumption
<1>2. PICK k \in B : \A e \in (k + 1) .. n + 1 : e \notin B
  <2> HIDE DEF B
  <2>1. B \subseteq 1 .. n + 1
    BY DEF B
  <2> QED BY <1>1, <2>1, LastFailing
<1>3. /\ k \in 1 .. n + 1 /\ k \in Nat \ {0} /\ ~Grown(k)
      /\ Unfolds(f, n, fires, k) /\ Unfolds(g, n + 1, fires, k)
  <2>1. k \in 1 .. n + 1 /\ k \in Nat \ {0} /\ ~Grown(k)
    OBVIOUS
  <2> HIDE DEF B, Grown
  <2> QED BY <1>1, <2>1, ScanUnfolds
<1>4. \A e \in (k + 1) .. n + 1 : Grown(e)
  BY <1>2, <1>3
<1>5. \A e \in Nat \ {0} : /\ e > n => f[e] = <<>>
                           /\ e > n + 1 => g[e] = <<>>
  <2>1. \A e \in Nat \ {0} : Unfolds(f, n, fires, e) /\ Unfolds(g, n + 1, fires, e)
    BY <1>1, ScanUnfolds
  <2> QED BY <2>1 DEF Unfolds
<1>6. Range(<<>>) = {} /\ \A x : Append(<<>>, x) = <<x>>
  BY DEF Range
<1>7. CASE k = n + 1
  <2>1. f[k] = <<>> /\ g[k + 1] = <<>> /\ g[k + HoldDays + 1] = <<>>
    BY <1>1, <1>3, <1>5, <1>7
  <2>2. g[k] = IF k \in fires THEN <<k>> ELSE <<>>
    <3>1. CASE k \in fires
      <4>1. g[k] = <<k>> \o g[k + HoldDays + 1]
        BY <1>3, <1>7, <3>1 DEF Unfolds
      <4>2. <<k>> \o <<>> = <<k>>
        <5>1. <<k>> \in Seq(Nat)
          BY <1>3
        <5> QED BY <5>1, ConcatEmptySeq
      <4> QED BY <2>1, <3>1, <4>1, <4>2
    <3>2. CASE k \notin fires
      BY <1>3, <1>7, <2>1, <3>2 DEF Unfolds
    <3> QED BY <3>1, <3>2
  <2>3. Free(k) <=> k \in fires
    BY <1>6, <1>7, <2>1
  <2>4. Append(f[k], n + 1) = <<k>>
    BY <1>6, <1>7, <2>1
  <2> QED BY <1>3, <2>1, <2>2, <2>3, <2>4
<1>8. CASE k <= n /\ k \notin fires
  <2>1. f[k] = f[k + 1] /\ g[k] = g[k + 1] /\ k + 1 \in (k + 1) .. n + 1
    BY <1>1, <1>3, <1>8 DEF Unfolds
  <2>2. Grown(k + 1)
    BY <1>4, <2>1
  <2> QED BY <1>3, <2>1, <2>2
<1>9. CASE k <= n /\ k \in fires
  <2> DEFINE m == k + HoldDays + 1
  <2>1. k \in 1 .. n /\ k \in 1 .. n + 1 /\ k \in fires /\ m \in Nat \ {0}
    BY <1>1, <1>3, <1>9
  <2>2. /\ f[k] = <<k>> \o f[m] /\ Range(f[k]) = {k} \cup Range(f[m])
        /\ \A x : <<k>> \o Append(f[m], x) = Append(f[k], x)
    <3>1. Fronts(f, k)
      BY <1>9, <2>1, ScanFront
    <3> QED BY <3>1 DEF Fronts
  <2>3. g[k] = <<k>> \o g[m]
    BY <1>3, <2>1 DEF Unfolds
  <2>4. CASE m <= n + 1
    <3>1. Grown(m)
      <4>1. m \in (k + 1) .. n + 1
        BY <1>1, <1>3, <2>4
      <4> HIDE DEF m
      <4> QED BY <1>4, <4>1
    <3>2. n + 1 - k > HoldDays
      BY <1>1, <1>3, <2>4
    <3>3. Free(k) <=> Free(m)
      BY <2>2, <3>2
    <3> QED BY <1>3, <2>2, <2>3, <3>1, <3>3
  <2>5. CASE m > n + 1
    <3>1. f[m] = <<>> /\ g[m] = <<>>
      BY <1>1, <1>5, <2>1, <2>5
    <3>2. ~(n + 1 - k > HoldDays)
      BY <1>1, <1>3, <2>5
    <3>3. ~Free(k)
      BY <2>2, <3>2
    <3> QED BY <1>3, <2>2, <2>3, <3>1, <3>3
  <2> QED BY <1>1, <1>3, <2>4, <2>5
<1> QED BY <1>3, <1>7, <1>8, <1>9

\* Every day with a signal is entered or lies in the hold of an entry before it.
LEMMA ScanCovers ==
    ASSUME NEW n \in Nat, NEW fires, NEW f, Scans(f, n, fires), NEW d \in 1 .. n,
           NEW x \in d .. n, x \in fires
    PROVE  x \in Range(f[d]) \/ \E e \in Range(f[d]) : e < x /\ x - e <= HoldDays
<1> DEFINE Covers(k) == x \in Range(f[k]) \/ \E e \in Range(f[k]) : e < x /\ x - e <= HoldDays
           B == {k \in 1 .. x : ~Covers(k)}
<1> SUFFICES ASSUME B # {} PROVE FALSE
  OBVIOUS
<1>1. x \in Nat /\ x \in 1 .. n /\ HoldDays \in Nat \ {0}
  BY RulesAssumption
<1>2. PICK k \in B : \A e \in (k + 1) .. x : e \notin B
  <2> HIDE DEF B
  <2>1. B \subseteq 1 .. x
    BY DEF B
  <2> QED BY <1>1, <2>1, LastFailing
<1>3. k \in 1 .. x /\ k \in 1 .. n /\ k \in Nat \ {0} /\ ~Covers(k)
  BY <1>1
<1>4. Unfolds(f, n, fires, k)
  BY <1>3, ScanUnfolds
<1>5. \A e \in (k + 1) .. x : Covers(e)
  BY <1>1, <1>2, <1>3
<1>6. CASE k \notin fires
  <2>1. f[k] = f[k + 1] /\ k # x
    BY <1>4, <1>1, <1>3, <1>6 DEF Unfolds
  <2>2. k + 1 \in (k + 1) .. x
    BY <1>1, <1>3, <2>1
  <2> QED BY <1>3, <1>5, <2>1, <2>2
<1>7. CASE k \in fires
  <2>1. Range(f[k]) = {k} \cup Range(f[k + HoldDays + 1])
    <3>1. Fronts(f, k)
      BY <1>3, <1>7, ScanFront
    <3> QED BY <3>1 DEF Fronts
  <2>2. k # x /\ x - k > HoldDays
    BY <1>1, <1>3, <2>1
  <2>3. k + HoldDays + 1 \in (k + 1) .. x
    BY <1>1, <1>3, <2>2
  <2>4. Covers(k + HoldDays + 1)
    BY <1>5, <2>3
  <2> QED BY <1>3, <2>1, <2>4
<1> QED BY <1>6, <1>7

-----------------------------------------------------------------------------
(* What the tables hold once the first n days of a feed f are in.           *)

Feeds == [1 .. LastDay -> Prices]

History(f, n) == [i \in 1 .. n |-> f[i]]
Fired(f)      == {d \in 1 .. LastDay : Signal(History(f, d)) \in Actions}
Entered(f, n) == Workbook!Entries(History(f, n))

RowOf(f, d) == [close |-> f[d], signal |-> Signal(History(f, d))]
SpreadOf(f, d) == Spread(Window(History(f, d)))

Booked(f, n, d) ==
    LET ended == d + HoldDays <= n
    IN  [day |-> d, action |-> RowOf(f, d).signal, entry |-> f[d], spread |-> SpreadOf(f, d),
         status |-> IF ended THEN "CLOSED" ELSE "OPEN",
         exitDay |-> IF ended THEN d + HoldDays ELSE 0,
         exit |-> IF ended THEN f[d + HoldDays] ELSE 0,
         breached |-> ended /\ \E i \in d + 1 .. d + HoldDays :
                         Breaches(RowOf(f, d).signal, f[d], SpreadOf(f, d), f[i])]

Rows(f, n) == [d \in 1 .. n |-> RowOf(f, d)]
Book(f, n) == [k \in DOMAIN Entered(f, n) |-> Booked(f, n, Entered(f, n)[k])]

LEMMA HistoryTyped ==
    ASSUME NEW f \in Feeds, NEW n \in 0 .. LastDay
    PROVE  /\ History(f, n) \in [1 .. n -> Prices] /\ History(f, n) \in Seq(Prices)
           /\ Len(History(f, n)) = n /\ n \in Nat
           /\ \A d \in 0 .. n : SubSeq(History(f, n), 1, d) = History(f, d)
<1>1. n \in Nat /\ 1 .. n \subseteq 1 .. LastDay
  BY FeedAssumption
<1>2. History(f, n) \in [1 .. n -> Prices]
  BY <1>1 DEF History, Feeds
<1>3. History(f, n) \in Seq(Prices) /\ Len(History(f, n)) = n
  BY <1>1, <1>2, WindowTyped
<1>4. ASSUME NEW d \in 0 .. n PROVE SubSeq(History(f, n), 1, d) = History(f, d)
  <2>1. SubSeq(History(f, n), 1, d) = Restrict(History(f, n), 1 .. d)
    BY <1>3, SubSeqRestrict
  <2>2. \A i \in 1 .. d : i \in 1 .. n
    BY <1>1
  <2>3. \A i \in 1 .. d : History(f, n)[i] = f[i]
    BY <2>2 DEF History
  <2> QED BY <2>1, <2>3 DEF Restrict, History
<1> QED BY <1>1, <1>2, <1>3, <1>4

LEMMA EnteredScans ==
    ASSUME NEW f \in Feeds, NEW n \in 0 .. LastDay
    PROVE  \E g : Scans(g, n, Fired(f)) /\ Entered(f, n) = g[1]
<1> DEFINE closes == History(f, n)
           Made(g) == g = [day \in Nat |->
                              IF day > Len(closes) THEN <<>>
                              ELSE IF Workbook!Signal(SubSeq(closes, 1, day)) \in Workbook!Actions
                                     THEN <<day>> \o g[day + HoldDays + 1]
                                     ELSE g[day + 1]]
           g0 == CHOOSE g : Made(g)
<1>1. closes \in Seq(Prices) /\ Len(closes) = n /\ n \in Nat
  BY HistoryTyped
<1>2. \A day \in 0 .. n : Workbook!Signal(SubSeq(closes, 1, day)) \in Workbook!Actions
                             <=> day \in Fired(f)
  <2> SUFFICES ASSUME NEW day \in 0 .. n
               PROVE  Signal(SubSeq(closes, 1, day)) \in Actions <=> day \in Fired(f)
    BY SameRules
  <2>1. SubSeq(closes, 1, day) = History(f, day)
    BY HistoryTyped
  <2>2. CASE day = 0
    <3>1. Len(History(f, day)) = 0
      BY <2>2, FeedAssumption, HistoryTyped
    <3>2. Signal(History(f, day)) = "NO TRADE"
      BY <3>1, RulesAssumption DEF Signal
    <3> QED BY <2>1, <2>2, <3>2 DEF Fired, Actions
  <2>3. CASE day # 0
    <3>1. day \in 1 .. LastDay
      BY <2>3, FeedAssumption
    <3> QED BY <2>1, <3>1 DEF Fired
  <2> QED BY <2>2, <2>3
<1>3. ASSUME NEW g
      PROVE  Made(g) <=> Scans(g, n, Fired(f))
  <2>1. ASSUME NEW day \in Nat
        PROVE  (IF day > Len(closes) THEN <<>>
                ELSE IF Workbook!Signal(SubSeq(closes, 1, day)) \in Workbook!Actions
                       THEN <<day>> \o g[day + HoldDays + 1]
                       ELSE g[day + 1]) = ScanDay(g, n, Fired(f), day)
    <3>1. CASE day > n
      BY <1>1, <3>1 DEF ScanDay
    <3>2. CASE day <= n
      <4>1. day \in 0 .. n
        BY <1>1, <3>2
      <4> HIDE DEF closes
      <4> QED BY <1>1, <1>2, <4>1 DEF ScanDay
    <3> QED BY <1>1, <3>1, <3>2
  <2> HIDE DEF closes
  <2> QED BY <2>1 DEF Scans
<1>4. \E g : Made(g)
  <2>1. \E g : Scans(g, n, Fired(f))
    BY <1>1, ScanExists
  <2> HIDE DEF Made
  <2> QED BY <1>3, <2>1
<1>5. Made(g0)
  <2> HIDE DEF Made
  <2> QED BY <1>4
<1>6. Scans(g0, n, Fired(f))
  <2> HIDE DEF Made, g0
  <2> QED BY <1>3, <1>5
<1>7. Entered(f, n) = g0[1]
  BY DEF Entered, Workbook!Entries
<1> QED BY <1>6, <1>7

LEMMA EnteredTyped ==
    ASSUME NEW f \in Feeds, NEW n \in 0 .. LastDay
    PROVE  Entered(f, n) \in Seq(1 .. n)
<1>1. PICK g : Scans(g, n, Fired(f)) /\ Entered(f, n) = g[1]
  BY EnteredScans
<1>2. n \in Nat
  BY FeedAssumption
<1> QED BY <1>1, <1>2, ScanTyped

LEMMA EnteredGrows ==
    ASSUME NEW f \in Feeds, NEW n \in 0 .. LastDay - 1
    PROVE  Entered(f, n + 1) =
             IF n + 1 \in Fired(f) /\ \A e \in Range(Entered(f, n)) : n + 1 - e > HoldDays
               THEN Append(Entered(f, n), n + 1) ELSE Entered(f, n)
<1>1. n \in Nat /\ n \in 0 .. LastDay /\ n + 1 \in 0 .. LastDay /\ 1 \in 1 .. n + 1
  BY FeedAssumption
<1>2. PICK g : Scans(g, n, Fired(f)) /\ Entered(f, n) = g[1]
  BY <1>1, EnteredScans
<1>3. PICK h : Scans(h, n + 1, Fired(f)) /\ Entered(f, n + 1) = h[1]
  BY <1>1, EnteredScans
<1>4. PICK fires : fires = Fired(f)
  OBVIOUS
<1>5. h[1] = IF n + 1 \in fires /\ \A e \in Range(g[1]) : n + 1 - e > HoldDays
               THEN Append(g[1], n + 1) ELSE g[1]
  BY <1>1, <1>2, <1>3, <1>4, ScanGrows
<1> QED BY <1>2, <1>3, <1>4, <1>5

LEMMA EnteredCovers ==
    ASSUME NEW f \in Feeds, NEW n \in 0 .. LastDay, NEW x \in 1 .. n, x \in Fired(f)
    PROVE  \/ x \in Range(Entered(f, n))
           \/ \E e \in Range(Entered(f, n)) : e < x /\ x - e <= HoldDays
<1>1. n \in Nat /\ 1 \in 1 .. n /\ x \in 1 .. n
  BY FeedAssumption
<1>2. PICK g : Scans(g, n, Fired(f)) /\ Entered(f, n) = g[1]
  BY EnteredScans
<1>3. PICK fires : fires = Fired(f)
  OBVIOUS
<1>4. x \in Range(g[1]) \/ \E e \in Range(g[1]) : e < x /\ x - e <= HoldDays
  BY <1>1, <1>2, <1>3, ScanCovers
<1> QED BY <1>2, <1>4

-----------------------------------------------------------------------------
(* A table whose days are the first m.                                      *)

FirstCloses(table, p) == [i \in 1 .. p |-> table[i].close]

LEMMA InOrder ==
    ASSUME NEW m \in Nat, NEW table, DOMAIN table = 1 .. m
    PROVE  /\ Cardinality(DOMAIN table) = m
           /\ \A d \in 1 .. m : Place(table, d) = d /\ DayAt(table, d) = d
           /\ \A p \in 0 .. m : ClosesTo(table, p) = FirstCloses(table, p)
<1>1. Cardinality(DOMAIN table) = m
  BY FS_Interval
<1>2. ASSUME NEW d \in 1 .. m PROVE Place(table, d) = d
  <2>1. {e \in DOMAIN table : e <= d} = 1 .. d
    OBVIOUS
  <2>2. Cardinality(1 .. d) = d
    BY FS_Interval
  <2> QED BY <2>1, <2>2 DEF Place
<1>3. ASSUME NEW d \in 1 .. m PROVE DayAt(table, d) = d
  <2>1. \A e \in DOMAIN table : Place(table, e) = d <=> e = d
    BY <1>2
  <2> QED BY <2>1 DEF DayAt
<1>4. ASSUME NEW p \in 0 .. m PROVE ClosesTo(table, p) = FirstCloses(table, p)
  <2>1. \A i \in 1 .. p : DayAt(table, i) = i
    BY <1>3
  <2> QED BY <2>1 DEF ClosesTo, FirstCloses
<1> QED BY <1>1, <1>2, <1>3, <1>4

\* A trade as a line of the workbook's journal.
LineOf(table, trade) ==
    [day |-> Place(table, trade.day), action |-> trade.action, entry |-> trade.entry,
     ended |-> trade.status = "CLOSED", exit |-> trade.exit, breached |-> trade.breached]

LEMMA JournalIs ==
    ASSUME NEW f \in Feeds, NEW n \in 0 .. LastDay,
           NEW table, table = Rows(f, n), NEW book, book = Book(f, n)
    PROVE  /\ ClosesTo(table, Cardinality(DOMAIN table)) = History(f, n)
           /\ [t \in DOMAIN book |-> LineOf(table, book[t])] = Workbook!Journal(History(f, n))
<1>1. n \in Nat /\ DOMAIN table = 1 .. n
  BY FeedAssumption DEF Rows
<1>2. /\ Cardinality(DOMAIN table) = n
      /\ \A d \in 1 .. n : Place(table, d) = d
      /\ ClosesTo(table, n) = FirstCloses(table, n)
  BY <1>1, InOrder
<1>3. ClosesTo(table, Cardinality(DOMAIN table)) = History(f, n)
  <2>1. \A i \in 1 .. n : table[i].close = f[i]
    BY DEF Rows, RowOf
  <2> QED BY <1>2, <2>1 DEF History, FirstCloses
<1> DEFINE E == Entered(f, n)
<1>4. DOMAIN book = DOMAIN E /\ \A k \in DOMAIN E : book[k] = Booked(f, n, E[k])
  BY DEF Book
<1>5. \A k \in DOMAIN E : E[k] \in 1 .. n
  BY EnteredTyped, ElementOfSeq, LenProperties
<1>6. ASSUME NEW d \in 1 .. n
      PROVE  LineOf(table, Booked(f, n, d)) = Workbook!Trade(History(f, n), d)
  <2>1. SubSeq(History(f, n), 1, d) = History(f, d) /\ Len(History(f, n)) = n
    BY HistoryTyped
  <2>2. \A i \in 1 .. n : History(f, n)[i] = f[i]
    BY DEF History
  <2>3. Place(table, d) = d /\ HoldDays \in Nat
    BY <1>2, RulesAssumption
  <2>4. /\ Workbook!Signal(History(f, d)) = Signal(History(f, d))
        /\ Workbook!Spread(Workbook!Window(History(f, d))) = SpreadOf(f, d)
    BY SameRules DEF SpreadOf
  <2> DEFINE action == Signal(History(f, d))
             ended  == d + HoldDays <= n
             Breached == \E i \in d + 1 .. d + HoldDays :
                             Breaches(action, f[d], SpreadOf(f, d), f[i])
             exit   == IF ended THEN f[d + HoldDays] ELSE 0
             line   == [day |-> d, action |-> action, entry |-> f[d], ended |-> ended,
                        exit |-> exit, breached |-> ended /\ Breached]
  <2>5. PICK trade : trade = Booked(f, n, d)
    OBVIOUS
  <2>6. /\ trade.day = d /\ trade.action = action /\ trade.entry = f[d]
        /\ (trade.status = "CLOSED") = ended /\ trade.exit = exit
        /\ trade.breached = (ended /\ Breached)
    BY <2>5 DEF Booked, RowOf
  <2>7. LineOf(table, trade) = line
    <3> HIDE DEF action, ended, Breached, exit
    <3> QED BY <2>3, <2>6 DEF LineOf
  <2>8. ended => History(f, n)[d + HoldDays] = f[d + HoldDays]
    BY <2>2, <2>3
  <2>9. ASSUME ended
        PROVE  (\E i \in d + 1 .. d + HoldDays :
                   Workbook!Breaches(action, f[d], SpreadOf(f, d), History(f, n)[i])) = Breached
    <3>1. \A i \in d + 1 .. d + HoldDays : History(f, n)[i] = f[i]
      BY <2>2, <2>3, <2>9
    <3> HIDE DEF action
    <3> QED BY <3>1, SameRules
  <2>10. Workbook!Trade(History(f, n), d) = line
    <3> DEFINE Tested == \E i \in d + 1 .. d + HoldDays :
                   Workbook!Breaches(action, f[d], SpreadOf(f, d), History(f, n)[i])
    <3>1. Workbook!Trade(History(f, n), d) =
            [day |-> d, action |-> action, entry |-> f[d], ended |-> ended,
             exit |-> IF ended THEN History(f, n)[d + HoldDays] ELSE 0,
             breached |-> ended /\ Tested]
      BY <2>1, <2>2, <2>4 DEF Workbook!Trade
    <3>2. (ended /\ Tested) = (ended /\ Breached)
      <4>1. CASE ended
        <5>1. Tested = Breached
          BY <2>9, <4>1
        <5> QED BY <5>1
      <4>2. CASE ~ended
        BY <4>2
      <4> QED BY <4>1, <4>2
    <3> HIDE DEF Tested, Breached, ended, action
    <3> QED BY <2>8, <3>1, <3>2
  <2> QED BY <2>5, <2>7, <2>10
<1>7. Workbook!Journal(History(f, n)) = [k \in DOMAIN E |-> Workbook!Trade(History(f, n), E[k])]
  BY DEF Workbook!Journal, Entered
<1> HIDE DEF E
<1>8. \A k \in DOMAIN E : LineOf(table, book[k]) = Workbook!Trade(History(f, n), E[k])
  BY <1>4, <1>5, <1>6
<1> QED BY <1>3, <1>4, <1>7, <1>8

-----------------------------------------------------------------------------
(* The inductive invariant, for days that arrive in order: the tables hold  *)
(* the first n days, and every request either tells a day again or tells    *)
(* day n + 1, which at most one of them does.                               *)

\* The trade of day n + 1, if the scan enters on it.
Opening(f, n) ==
    IF n + 1 \in Fired(f) /\ \A e \in Range(Entered(f, n)) : n + 1 - e > HoldDays
      THEN <<Booked(f, n + 1, n + 1)>> ELSE <<>>

\* The trades that end on day n + 1.
Ending(f, n) == {k \in DOMAIN Entered(f, n) : Entered(f, n)[k] + HoldDays = n + 1}

Retold(h, f, n) ==
    /\ h.phase \in {"trades", "exits", "commit"}
    /\ h.day \in 1 .. n /\ h.was = RowOf(f, h.day) /\ h.row = h.was
    /\ \E m \in h.day .. n : h.days = 1 .. m
    /\ h.opened = <<>> /\ h.exits = <<>>

New(h, f, n) ==
    /\ h.phase \in {"trades", "exits", "commit"}
    /\ h.day = n + 1 /\ h.was = NoRow /\ h.row = RowOf(f, n + 1) /\ h.days = 1 .. n + 1
    /\ h.phase = "trades" => h.spread = SpreadOf(f, n + 1) /\ h.opened = <<>>
    /\ h.phase # "trades" => h.opened = Opening(f, n)
    /\ IF h.phase = "commit"
         THEN h.exits = [k \in Ending(f, n) |-> Booked(f, n + 1, Entered(f, n)[k])]
         ELSE h.exits = <<>>

Told(h, f, n) ==
    \/ h = Idle
    \/ h.phase = "next" /\ h.day \in 1 .. n + 1
    \/ /\ h.phase = "upsert" /\ h.day \in 1 .. n + 1
       /\ h.was = NoRow \/ (h.day \in 1 .. n /\ h.was = RowOf(f, h.day))
    \/ Retold(h, f, n)
    \/ New(h, f, n)

Kept(f, n) ==
    /\ feed = f /\ log = Rows(f, n) /\ trades = Book(f, n)
    /\ DOMAIN request = Requests
    /\ \A r \in Requests : Told(request[r], f, n)
    /\ \A r, q \in Requests : New(request[r], f, n) /\ New(request[q], f, n) => r = q

InOrderKept == \E n \in 0 .. LastDay : Kept(feed, n)

LEMMA BookedStays ==
    ASSUME NEW f, NEW n \in Nat, NEW d \in 1 .. n, d + HoldDays # n + 1
    PROVE  Booked(f, n + 1, d) = Booked(f, n, d)
<1>1. d + HoldDays <= n + 1 <=> d + HoldDays <= n
  BY RulesAssumption
<1>2. PICK ended : ended = (d + HoldDays <= n)
  OBVIOUS
<1>3. (d + HoldDays <= n + 1) = ended
  BY <1>1, <1>2
<1> QED BY <1>2, <1>3 DEF Booked

\* The journal of one more day.
LEMMA BookGrows ==
    ASSUME NEW f \in Feeds, NEW n \in 0 .. LastDay - 1
    PROVE  Book(f, n + 1) =
             [k \in DOMAIN Book(f, n) |->
                 IF k \in Ending(f, n) THEN Booked(f, n + 1, Entered(f, n)[k]) ELSE Book(f, n)[k]]
             \o Opening(f, n)
<1> DEFINE E == Entered(f, n)
           L == Len(E)
           Old(k) == IF k \in Ending(f, n) THEN Booked(f, n + 1, E[k]) ELSE Book(f, n)[k]
           old == [k \in DOMAIN Book(f, n) |-> Old(k)]
           Enters == n + 1 \in Fired(f) /\ \A e \in Range(E) : n + 1 - e > HoldDays
<1>1. n \in Nat /\ n \in 0 .. LastDay /\ n + 1 \in 0 .. LastDay
  BY FeedAssumption
<1>2. E \in Seq(1 .. n) /\ L \in Nat /\ DOMAIN E = 1 .. L /\ \A k \in 1 .. L : E[k] \in 1 .. n
  <2>1. E \in Seq(1 .. n)
    BY <1>1, EnteredTyped
  <2> HIDE DEF E
  <2> QED BY <2>1, LenProperties, ElementOfSeq
<1>3. DOMAIN Book(f, n) = 1 .. L /\ \A k \in 1 .. L : Book(f, n)[k] = Booked(f, n, E[k])
  BY <1>2 DEF Book
<1>4. \A k \in 1 .. L : Old(k) = Booked(f, n + 1, E[k])
  <2> SUFFICES ASSUME NEW k \in 1 .. L
               PROVE  Old(k) = Booked(f, n + 1, E[k])
    OBVIOUS
  <2>1. k \in Ending(f, n) <=> E[k] + HoldDays = n + 1
    BY <1>2 DEF Ending
  <2>2. E[k] + HoldDays # n + 1 => Booked(f, n + 1, E[k]) = Booked(f, n, E[k])
    <3> HIDE DEF E, L
    <3> QED BY <1>1, <1>2, BookedStays
  <2> HIDE DEF E, L
  <2> QED BY <1>3, <2>1, <2>2
<1>5. old = [k \in 1 .. L |-> Booked(f, n + 1, E[k])]
  <2> HIDE DEF E, L, Old
  <2> QED BY <1>3, <1>4
<1>6. Entered(f, n + 1) = IF Enters THEN Append(E, n + 1) ELSE E
  BY EnteredGrows
<1>7. CASE ~Enters
  <2>1. Book(f, n + 1) = old
    <3> HIDE DEF E, L, old, Enters
    <3> QED BY <1>2, <1>5, <1>6, <1>7 DEF Book
  <2>2. old \o <<>> = old
    <3> DEFINE T == {old[k] : k \in 1 .. L}
    <3>1. old \in [1 .. L -> T]
      <4> HIDE DEF E, L
      <4> QED BY <1>5
    <3>2. old \in Seq(T)
      <4> HIDE DEF old, E, L, T
      <4> QED BY <1>2, <3>1, SeqDef
    <3> HIDE DEF old, T
    <3> QED BY <3>2, ConcatEmptySeq
  <2>3. Opening(f, n) = <<>>
    BY <1>7 DEF Opening
  <2> QED BY <2>1, <2>2, <2>3
<1>8. CASE Enters
  <2> DEFINE x == Booked(f, n + 1, n + 1)
             T == {old[k] : k \in 1 .. L} \cup {x}
  <2>1. Opening(f, n) = <<x>>
    BY <1>8 DEF Opening
  <2>2. old \in Seq(T) /\ Len(old) = L /\ x \in T
    <3>1. old \in [1 .. L -> T]
      <4> HIDE DEF E, L, x
      <4> QED BY <1>5
    <3>2. old \in Seq(T)
      <4> HIDE DEF old, E, L, T
      <4> QED BY <1>2, <3>1, SeqDef
    <3>3. x \in T
      OBVIOUS
    <3> HIDE DEF old, E, L, T, x
    <3> QED BY <1>2, <3>1, <3>2, <3>3, LenProperties
  <2>3. old \o <<x>> = Append(old, x)
    <3> HIDE DEF old, E, L, T, x
    <3> QED BY <2>2, AppendIsConcat
  <2>4. Book(f, n + 1) = [k \in 1 .. L + 1 |-> Booked(f, n + 1, Entered(f, n + 1)[k])]
    <3>1. Append(E, n + 1) \in Seq(Nat) /\ Len(Append(E, n + 1)) = L + 1
      <4>1. E \in Seq(Nat) /\ n + 1 \in Nat
        <5>1. 1 .. n \subseteq Nat
          BY <1>1
        <5> HIDE DEF E
        <5> QED BY <1>1, <1>2, <5>1, SeqMonotonic
      <4> HIDE DEF E
      <4> QED BY <4>1, AppendProperties
    <3>2. DOMAIN Append(E, n + 1) = 1 .. L + 1
      <4> HIDE DEF E
      <4> QED BY <3>1, LenProperties
    <3> QED BY <1>6, <1>8, <3>2 DEF Book
  <2>5. Append(old, x) = [k \in 1 .. L + 1 |-> IF k = L + 1 THEN x ELSE old[k]]
    <3>1. /\ Append(old, x) \in Seq(T) /\ Len(Append(old, x)) = L + 1
          /\ \A k \in 1 .. L : Append(old, x)[k] = old[k]
          /\ Append(old, x)[L + 1] = x
      <4> HIDE DEF old, E, L, T, x
      <4> QED BY <2>2, AppendProperties
    <3> DEFINE grown == Append(old, x)
    <3>2. grown = [k \in 1 .. L + 1 |-> grown[k]]
      <4> HIDE DEF old, E, L, T, x, grown
      <4>1. grown \in Seq(T) /\ Len(grown) = L + 1
        BY <3>1 DEF grown
      <4> QED BY <4>1, LenProperties
    <3> HIDE DEF old, E, L, T, x
    <3> QED BY <1>2, <3>1, <3>2
  <2>6. ASSUME NEW k \in 1 .. L + 1
        PROVE  Booked(f, n + 1, Entered(f, n + 1)[k]) = IF k = L + 1 THEN x ELSE old[k]
    <3>1. Append(E, n + 1)[k] = IF k = L + 1 THEN n + 1 ELSE E[k]
      <4>1. E \in Seq(Nat) /\ n + 1 \in Nat
        <5>1. 1 .. n \subseteq Nat
          BY <1>1
        <5> HIDE DEF E
        <5> QED BY <1>1, <1>2, <5>1, SeqMonotonic
      <4> HIDE DEF E
      <4> QED BY <1>2, <4>1, AppendProperties
    <3>2. k # L + 1 => k \in 1 .. L
      BY <1>2
    <3>3. Entered(f, n + 1)[k] = IF k = L + 1 THEN n + 1 ELSE E[k]
      BY <1>6, <1>8, <3>1
    <3>4. \A j \in 1 .. L : old[j] = Booked(f, n + 1, E[j])
      <4> HIDE DEF E, L
      <4> QED BY <1>5
    <3> HIDE DEF E, L, old
    <3> QED BY <3>2, <3>3, <3>4
  <2>7. Book(f, n + 1) = Append(old, x)
    <3> DEFINE After(k) == Booked(f, n + 1, Entered(f, n + 1)[k])
               Grown(k) == IF k = L + 1 THEN x ELSE old[k]
    <3>1. \A k \in 1 .. L + 1 : After(k) = Grown(k)
      BY <2>6
    <3>2. Book(f, n + 1) = [k \in 1 .. L + 1 |-> After(k)]
      BY <2>4
    <3>3. Append(old, x) = [k \in 1 .. L + 1 |-> Grown(k)]
      <4> HIDE DEF old, x, E, L
      <4> QED BY <2>5
    <3> HIDE DEF After, Grown, L, old, x
    <3> QED BY <3>1, <3>2, <3>3
  <2> HIDE DEF old, x, E, L
  <2>8. Book(f, n + 1) = old \o Opening(f, n)
    BY <2>1, <2>3, <2>7
  <2> QED BY <2>8 DEF old, E
<1> QED BY <1>7, <1>8

-----------------------------------------------------------------------------
(* The steps of a request.                                                  *)

LEMMA DayIn ==
    ASSUME TypeOK, NEW r \in Requests, request[r] # Idle
    PROVE  request[r].day \in 1 .. LastDay
<1>1. HeldOK(request[r], DOMAIN trades)
  BY HeldIs DEF TypeOK
<1> QED BY <1>1, FeedAssumption DEF HeldOK

LEMMA TablesKept ==
    ASSUME NEW f \in Feeds, NEW n \in 0 .. LastDay, Kept(f, n)
    PROVE  /\ n \in Nat /\ DOMAIN log = 1 .. n /\ \A d \in 1 .. n : log[d] = RowOf(f, d)
           /\ DOMAIN trades = DOMAIN Entered(f, n)
           /\ \A t \in DOMAIN trades : /\ Entered(f, n)[t] \in 1 .. n
                                       /\ trades[t] = Booked(f, n, Entered(f, n)[t])
<1>1. \A t \in DOMAIN Entered(f, n) : Entered(f, n)[t] \in 1 .. n
  BY EnteredTyped, ElementOfSeq, LenProperties
<1>2. log = Rows(f, n) /\ trades = Book(f, n)
  BY DEF Kept
<1>3. DOMAIN log = 1 .. n /\ \A d \in 1 .. n : log[d] = RowOf(f, d)
  BY <1>2 DEF Rows
<1>4. DOMAIN trades = DOMAIN Entered(f, n)
      /\ \A t \in DOMAIN Entered(f, n) : trades[t] = Booked(f, n, Entered(f, n)[t])
  BY <1>2 DEF Book
<1> QED BY <1>1, <1>3, <1>4, FeedAssumption

\* A step of one request that commits nothing.
LEMMA OthersKept ==
    ASSUME NEW f, NEW n, Kept(f, n), NEW r \in Requests, NEW h, Told(h, f, n),
           New(h, f, n) => \A q \in Requests \ {r} : ~New(request[q], f, n),
           request' = [request EXCEPT ![r] = h], UNCHANGED <<feed, log, trades>>
    PROVE  Kept(f, n)'
<1>1. DOMAIN request' = Requests /\ \A q \in Requests : request'[q] = IF q = r THEN h ELSE request[q]
  BY DEF Kept
<1>2. \A q \in Requests : Told(request'[q], f, n)
  BY <1>1 DEF Kept
<1>3. \A p, q \in Requests : New(request'[p], f, n) /\ New(request'[q], f, n) => p = q
  <2>1. \A p, q \in Requests : New(request[p], f, n) /\ New(request[q], f, n) => p = q
    BY DEF Kept
  <2> QED BY <1>1, <2>1
<1> QED BY <1>1, <1>2, <1>3 DEF Kept

\* A request between two days is not telling a new one.
LEMMA NotNew ==
    ASSUME NEW f, NEW n, NEW h, h.phase \notin {"trades", "exits", "commit"}
    PROVE  ~New(h, f, n)
BY DEF New

LEMMA IdleTold == \A f, n : Told(Idle, f, n) /\ ~New(Idle, f, n)
BY DEF Told, New, Idle

LEMMA KeptOutside ==
    ASSUME TypeOK, ~Gaps, NEW f \in Feeds, NEW n \in 0 .. LastDay, Kept(f, n), NEW r \in Requests,
           \/ \E slice \in Slices : StartBatch(r, slice)
           \/ FindRow(r)
           \/ InsertRefused(r)
           \/ RequestFails(r)
    PROVE  Kept(f, n)'
<1>1. /\ n \in Nat /\ DOMAIN log = 1 .. n /\ \A d \in 1 .. n : log[d] = RowOf(f, d)
  BY TablesKept
<1>2. ASSUME NEW slice \in Slices, StartBatch(r, slice)
      PROVE  Kept(f, n)'
  <2> DEFINE h == [phase |-> "next", day |-> slice[1], last |-> slice[2]]
  <2>1. slice[1] \in 1 .. LastDay /\ LastDay \in Nat
    BY FeedAssumption
  <2>2. 1 .. slice[1] - 1 \subseteq 1 .. n
    BY <1>1, <1>2 DEF StartBatch
  <2>3. slice[1] \in 1 .. n + 1
    <3>1. slice[1] > 1 => slice[1] - 1 \in 1 .. n
      BY <2>1, <2>2
    <3> QED BY <1>1, <2>1, <3>1
  <2>4. Told(h, f, n) /\ ~New(h, f, n)
    BY <2>3, NotNew DEF Told
  <2>5. request' = [request EXCEPT ![r] = h] /\ UNCHANGED <<feed, log, trades>>
    BY <1>2 DEF StartBatch
  <2> HIDE DEF h
  <2> QED BY <2>4, <2>5, OthersKept
<1>3. CASE FindRow(r)
  <2> DEFINE held == request[r]
             h == [phase |-> "upsert", day |-> held.day, last |-> held.last,
                   was |-> IF held.day \in DOMAIN log THEN log[held.day] ELSE NoRow]
  <2>1. held.phase = "next" /\ Told(held, f, n)
    BY <1>3 DEF FindRow, Kept
  <2>2. held.day \in 1 .. n + 1
    BY <2>1 DEF Told, Retold, New, Idle
  <2>3. h.was = NoRow \/ (h.day \in 1 .. n /\ h.was = RowOf(f, h.day))
    BY <1>1
  <2>4. Told(h, f, n) /\ ~New(h, f, n)
    BY <2>2, <2>3, NotNew DEF Told
  <2>5. request' = [request EXCEPT ![r] = h] /\ UNCHANGED <<feed, log, trades>>
    BY <1>3 DEF FindRow
  <2> HIDE DEF h
  <2> QED BY <2>4, <2>5, OthersKept
<1>4. CASE InsertRefused(r) \/ RequestFails(r)
  <2>1. request' = [request EXCEPT ![r] = Idle] /\ UNCHANGED <<feed, log, trades>>
    BY <1>4 DEF InsertRefused, RequestFails
  <2> QED BY <2>1, IdleTold, OthersKept
<1> QED BY <1>2, <1>3, <1>4

\* A table of the first n days and another one.
DayTold(table, f, n, day) ==
    table = [d \in (1 .. n) \cup {day} |->
                IF d = day THEN [close |-> f[day], signal |-> ""] ELSE RowOf(f, d)]

LEMMA ToldTable ==
    ASSUME NEW f \in Feeds, NEW n \in 0 .. LastDay, NEW day \in 1 .. LastDay, day \in 1 .. n + 1,
           NEW table, DayTold(table, f, n, day)
    PROVE  /\ DOMAIN table = IF day = n + 1 THEN 1 .. n + 1 ELSE 1 .. n
           /\ ClosesTo(table, Place(table, day)) = History(f, day)
<1>1. PICK m \in Nat : m = IF day = n + 1 THEN n + 1 ELSE n
  BY FeedAssumption
<1>2. n \in Nat /\ day \in 1 .. m /\ (1 .. n) \cup {day} = 1 .. m
  <2>1. n \in Nat /\ day \in Nat \ {0} /\ day <= n + 1
    BY FeedAssumption
  <2>2. CASE day = n + 1
    BY <1>1, <2>1, <2>2
  <2>3. CASE day # n + 1
    <3>1. m = n /\ day \in 1 .. n
      BY <1>1, <2>1, <2>3
    <3> QED BY <2>1, <3>1
  <2> QED BY <2>2, <2>3
<1>3. DOMAIN table = 1 .. m
  <2>1. DOMAIN table = (1 .. n) \cup {day}
    BY DEF DayTold
  <2> QED BY <1>2, <2>1
<1>4. ASSUME NEW i \in 1 .. m PROVE table[i].close = f[i]
  <2>1. RowOf(f, i).close = f[i]
    BY DEF RowOf
  <2>2. i \in (1 .. n) \cup {day}
    BY <1>2
  <2>3. table[i] = IF i = day THEN [close |-> f[day], signal |-> ""] ELSE RowOf(f, i)
    BY <2>2 DEF DayTold
  <2>4. [close |-> f[day], signal |-> ""].close = f[day]
    OBVIOUS
  <2> QED BY <2>1, <2>3, <2>4
<1>5. Place(table, day) = day /\ ClosesTo(table, day) = FirstCloses(table, day)
  <2>1. day \in 0 .. m
    BY <1>2
  <2>2. \A d \in 1 .. m : Place(table, d) = d
    BY <1>3, InOrder
  <2>3. \A p \in 0 .. m : ClosesTo(table, p) = FirstCloses(table, p)
    BY <1>3, InOrder
  <2> QED BY <1>2, <2>1, <2>2, <2>3
<1>6. FirstCloses(table, day) = History(f, day)
  <2>1. \A i \in 1 .. day : i \in 1 .. m
    BY <1>2
  <2>2. \A i \in 1 .. day : table[i].close = f[i]
    BY <1>4, <2>1
  <2> QED BY <2>2 DEF FirstCloses, History
<1> QED BY <1>1, <1>3, <1>5, <1>6

LEMMA KeptUpsert ==
    ASSUME TypeOK, NEW f \in Feeds, NEW n \in 0 .. LastDay, Kept(f, n),
           NEW r \in Requests, Upsert(r)
    PROVE  Kept(f, n)'
<1> DEFINE held   == request[r]
           day    == held.day
           table  == [d \in DOMAIN log \cup {day} |->
                         IF d = day THEN [close |-> feed[day], signal |-> ""] ELSE log[d]]
           closes == ClosesTo(table, Place(table, day))
           signal == Signal(closes)
           h      == [phase |-> IF signal \in Actions THEN "trades" ELSE "exits",
                      day |-> day, last |-> held.last, was |-> held.was,
                      row |-> [close |-> feed[day], signal |-> signal],
                      spread |-> IF signal \in Actions THEN Spread(Window(closes)) ELSE 0,
                      days |-> DOMAIN table, opened |-> <<>>, exits |-> <<>>]
<1>1. /\ n \in Nat /\ DOMAIN log = 1 .. n /\ \A d \in 1 .. n : log[d] = RowOf(f, d)
      /\ feed = f
  <2>1. feed = f
    BY DEF Kept
  <2> QED BY <2>1, TablesKept
<1>2. held.phase = "upsert" /\ Told(held, f, n) /\ held # Idle
  <2>1. held.phase = "upsert"
    BY DEF Upsert
  <2>2. Told(held, f, n)
    BY DEF Kept
  <2> QED BY <2>1, <2>2 DEF Idle
<1>3. day \in 1 .. n + 1 /\ (held.was = NoRow \/ (day \in 1 .. n /\ held.was = RowOf(f, day)))
  BY <1>2 DEF Told, Retold, New
<1>4. day \in 1 .. LastDay
  <2> HIDE DEF held
  <2>1. held.day \in 1 .. LastDay
    BY <1>2, DayIn DEF held
  <2> QED BY <2>1
<1>5. DayTold(table, f, n, day)
  BY <1>1 DEF DayTold
<1>6. /\ DOMAIN table = IF day = n + 1 THEN 1 .. n + 1 ELSE 1 .. n
      /\ closes = History(f, day)
  <2> HIDE DEF table, held, day
  <2> QED BY <1>3, <1>4, <1>5, ToldTable
<1>7. h.row = RowOf(f, day) /\ signal = Signal(History(f, day))
  <2> HIDE DEF closes, day
  <2> QED BY <1>1, <1>6 DEF RowOf
<1>8. /\ h.phase = IF signal \in Actions THEN "trades" ELSE "exits"
      /\ h.phase \in {"trades", "exits"}
      /\ h.day = day /\ h.was = held.was /\ h.days = DOMAIN table /\ h.opened = <<>>
      /\ h.exits = <<>>
      /\ signal \in Actions => h.spread = Spread(Window(closes))
  <2>1. /\ h.phase = IF signal \in Actions THEN "trades" ELSE "exits"
        /\ h.day = day /\ h.was = held.was /\ h.days = DOMAIN table /\ h.opened = <<>>
        /\ h.exits = <<>>
        /\ signal \in Actions => h.spread = Spread(Window(closes))
    OBVIOUS
  <2>2. h.phase \in {"trades", "exits"}
    OBVIOUS
  <2> HIDE DEF h
  <2> QED BY <2>1, <2>2
<1>9. UNCHANGED <<feed, log, trades>> /\ request' = [request EXCEPT ![r] = h]
  BY DEF Upsert
<1>10. CASE day # n + 1
  <2>1. day \in 1 .. n
    BY <1>1, <1>3, <1>10
  <2>2. held.was = RowOf(f, day)
    BY <1>1, <2>1, <1>3 DEF Upsert
  <2>3. \E m \in day .. n : DOMAIN table = 1 .. m
    <3> HIDE DEF table, day
    <3> QED BY <1>1, <1>6, <1>10, <2>1
  <2>4. Retold(h, f, n)
    <3> HIDE DEF h, signal, table, held, day
    <3>1. h.phase \in {"trades", "exits"} /\ h.opened = <<>> /\ h.exits = <<>>
      BY <1>8
    <3>2. /\ h.day \in 1 .. n /\ h.was = RowOf(f, h.day) /\ h.row = h.was
          /\ \E m \in h.day .. n : h.days = 1 .. m
      BY <1>7, <1>8, <2>1, <2>2, <2>3
    <3> QED BY <3>1, <3>2 DEF Retold
  <2>5. ~New(h, f, n)
    <3> HIDE DEF h, day
    <3> QED BY <1>8, <1>10 DEF New
  <2> HIDE DEF h
  <2> QED BY <1>9, <2>4, <2>5, OthersKept DEF Told
<1>11. CASE day = n + 1
  <2>1. held.was = NoRow
    BY <1>1, <1>3, <1>11
  <2>2. h.phase # "trades" => h.opened = Opening(f, n)
    <3>1. signal \notin Actions => Opening(f, n) = <<>>
      <4> HIDE DEF signal, day
      <4> QED BY <1>7, <1>11 DEF Opening, Fired
    <3> HIDE DEF h, signal
    <3> QED BY <1>8, <3>1
  <2>3. h.phase = "trades" => h.spread = SpreadOf(f, n + 1)
    <3>1. h.phase = "trades" => signal \in Actions
      <4> HIDE DEF h, signal
      <4> QED BY <1>8
    <3>2. Spread(Window(closes)) = SpreadOf(f, n + 1)
      <4> HIDE DEF closes, day
      <4> QED BY <1>6, <1>11 DEF SpreadOf
    <3> HIDE DEF h, signal, closes
    <3> QED BY <1>8, <3>1, <3>2
  <2>4. New(h, f, n)
    <3> HIDE DEF h, signal, table, held, day
    <3>1. h.phase \in {"trades", "exits"} /\ h.opened = <<>> /\ h.exits = <<>>
      BY <1>8
    <3>2. h.day = n + 1 /\ h.was = NoRow /\ h.row = RowOf(f, n + 1) /\ h.days = 1 .. n + 1
      BY <1>6, <1>7, <1>8, <1>11, <2>1
    <3> QED BY <2>2, <2>3, <3>1, <3>2 DEF New
  <2>5. ASSUME NEW q \in Requests \ {r} PROVE ~New(request[q], f, n)
    <3>1. ~(Locks(q) /\ request[q].day = n + 1)
      BY <1>11 DEF Upsert
    <3> QED BY <3>1 DEF New, Locks, Active
  <2> HIDE DEF h
  <2> QED BY <1>9, <2>4, <2>5, OthersKept DEF Told
<1> QED BY <1>10, <1>11

\* Whether a day of a history of m days is covered by the trades.
LEMMA CoveredIs ==
    ASSUME NEW f \in Feeds, NEW n \in 0 .. LastDay, Kept(f, n), NEW r \in Requests,
           NEW m \in Nat, request[r].days = 1 .. m, NEW day \in 1 .. m, request[r].day = day
    PROVE  Covered(r) <=> \E e \in Range(Entered(f, n)) :
                              e = day \/ (e < day /\ day - e <= HoldDays)
<1> DEFINE held  == request[r]
           at(d) == Cardinality({e \in held.days : e <= d})
           priors == {at(trades[t].day) : t \in {u \in DOMAIN trades : trades[u].day \in held.days}}
<1>1. /\ n \in Nat /\ DOMAIN trades = DOMAIN Entered(f, n)
      /\ \A t \in DOMAIN trades : /\ Entered(f, n)[t] \in 1 .. n
                                  /\ trades[t] = Booked(f, n, Entered(f, n)[t])
  BY TablesKept
<1>2. \A t \in DOMAIN trades : trades[t].day = Entered(f, n)[t]
  BY <1>1 DEF Booked
<1>3. ASSUME NEW d \in 1 .. m PROVE at(d) = d
  <2>1. {e \in held.days : e <= d} = 1 .. d
    OBVIOUS
  <2>2. Cardinality(1 .. d) = d
    BY FS_Interval
  <2> QED BY <2>1, <2>2
<1>4. priors = Range(Entered(f, n)) \cap (1 .. m)
  <2>1. ASSUME NEW t \in DOMAIN trades, trades[t].day \in held.days
        PROVE  at(trades[t].day) = Entered(f, n)[t] /\ Entered(f, n)[t] \in 1 .. m
    <3> HIDE DEF at
    <3> QED BY <1>2, <1>3, <2>1
  <2>2. Range(Entered(f, n)) = {Entered(f, n)[t] : t \in DOMAIN trades}
    BY <1>1 DEF Range
  <2> HIDE DEF at
  <2> QED BY <1>2, <2>1, <2>2
<1>5. (\E t \in DOMAIN trades : trades[t].day = day) <=> day \in Range(Entered(f, n))
  BY <1>1, <1>2 DEF Range
<1>6. at(day) = day
  <2> HIDE DEF at
  <2> QED BY <1>3
<1>7. Covered(r) <=> \/ day \in Range(Entered(f, n))
                     \/ ~IsNewStretch(day, priors)
  <2>1. Covered(r) <=> \/ \E t \in DOMAIN trades : trades[t].day = day
                       \/ ~IsNewStretch(at(day), priors)
    BY DEF Covered
  <2> HIDE DEF at, priors
  <2> QED BY <1>5, <1>6, <2>1
<1>8. IsNewStretch(day, priors) <=>
        \A p \in Range(Entered(f, n)) \cap (1 .. m) : ~(p < day /\ day - p <= HoldDays)
  <2> HIDE DEF priors
  <2> QED BY <1>4 DEF IsNewStretch
<1>9. \A p \in Range(Entered(f, n)) : p < day => p \in 1 .. m
  <2>1. \A p \in Range(Entered(f, n)) : p \in 1 .. n
    BY <1>1 DEF Range
  <2> QED BY <2>1
<1> HIDE DEF priors
<1>10. Covered(r) <=> \/ day \in Range(Entered(f, n))
                      \/ \E p \in Range(Entered(f, n)) \cap (1 .. m) :
                            p < day /\ day - p <= HoldDays
  BY <1>7, <1>8
<1>11. Covered(r) <=> \/ day \in Range(Entered(f, n))
                      \/ \E p \in Range(Entered(f, n)) : p < day /\ day - p <= HoldDays
  BY <1>9, <1>10
<1> QED BY <1>11

LEMMA KeptDecide ==
    ASSUME TypeOK, NEW f \in Feeds, NEW n \in 0 .. LastDay, Kept(f, n),
           NEW r \in Requests, DecideTrade(r)
    PROVE  Kept(f, n)'
<1> DEFINE held == request[r]
           opened == IF Covered(r) THEN <<>> ELSE <<NewTrade(held)>>
           h == [phase |-> "exits", day |-> held.day, last |-> held.last,
                 was |-> held.was, row |-> held.row, spread |-> held.spread,
                 days |-> held.days, exits |-> <<>>, opened |-> opened]
<1>1. held.phase = "trades" /\ held # Idle
  BY DEF DecideTrade, Idle
<1>2. Retold(held, f, n) \/ New(held, f, n)
  <2>1. Told(held, f, n)
    BY DEF Kept
  <2> HIDE DEF held
  <2> QED BY <1>1, <2>1 DEF Told
<1>3. held.day \in 1 .. LastDay /\ held.row.signal \in Actions
  <2>1. HeldOK(held, DOMAIN trades)
    BY HeldIs DEF TypeOK
  <2> HIDE DEF held
  <2> QED BY <1>1, <2>1, FeedAssumption DEF HeldOK
<1>4. request' = [request EXCEPT ![r] = h] /\ UNCHANGED <<feed, log, trades>>
  BY DEF DecideTrade
<1>5. /\ h.phase = "exits" /\ h.day = held.day /\ h.was = held.was /\ h.row = held.row
      /\ h.days = held.days /\ h.opened = opened /\ h.exits = <<>>
  OBVIOUS
<1>6. n \in Nat /\ n \in 0 .. LastDay /\ \A e \in Range(Entered(f, n)) : e \in 1 .. n
  <2>1. Entered(f, n) \in Seq(1 .. n)
    BY EnteredTyped
  <2>2. Range(Entered(f, n)) \subseteq 1 .. n
    BY <2>1, ElementOfSeq, LenProperties DEF Range
  <2> QED BY <2>2, FeedAssumption
<1>7. CASE Retold(held, f, n)
  <2>1. /\ held.day \in 1 .. n /\ held.was = RowOf(f, held.day) /\ held.row = held.was
        /\ \E m \in held.day .. n : held.days = 1 .. m
    BY <1>7 DEF Retold
  <2>2. PICK m \in held.day .. n : held.days = 1 .. m
    BY <2>1
  <2>3. held.day \in Fired(f)
    <3> HIDE DEF held
    <3> QED BY <1>3, <2>1 DEF Fired, RowOf
  <2>4. \E e \in Range(Entered(f, n)) :
           e = held.day \/ (e < held.day /\ held.day - e <= HoldDays)
    <3> HIDE DEF held
    <3> QED BY <2>1, <2>3, EnteredCovers
  <2>5. Covered(r)
    <3>1. m \in Nat /\ held.day \in 1 .. m
      BY <1>6, <2>1, <2>2
    <3>2. PICK day : day = held.day
      OBVIOUS
    <3>3. Covered(r) <=> \E e \in Range(Entered(f, n)) :
                            e = day \/ (e < day /\ day - e <= HoldDays)
      BY <2>2, <3>1, <3>2, CoveredIs
    <3>4. \E e \in Range(Entered(f, n)) : e = day \/ (e < day /\ day - e <= HoldDays)
      <4> HIDE DEF held
      <4> QED BY <2>4, <3>2
    <3> QED BY <3>3, <3>4
  <2>6. Retold(h, f, n)
    <3> HIDE DEF h, held
    <3> QED BY <1>5, <2>1, <2>5 DEF Retold
  <2>7. ~New(h, f, n)
    <3> HIDE DEF h, held
    <3> QED BY <1>5, <1>6, <2>1 DEF New
  <2> HIDE DEF h
  <2> QED BY <1>4, <2>6, <2>7, OthersKept DEF Told
<1>8. CASE New(held, f, n)
  <2>1. /\ held.day = n + 1 /\ held.was = NoRow /\ held.row = RowOf(f, n + 1)
        /\ held.days = 1 .. n + 1 /\ held.spread = SpreadOf(f, n + 1)
    <3> HIDE DEF held
    <3> QED BY <1>1, <1>8 DEF New
  <2>2. n + 1 \in Fired(f) /\ n + 1 \in 1 .. n + 1 /\ n + 1 \in Nat
    <3> HIDE DEF held
    <3> QED BY <1>3, <1>6, <2>1 DEF Fired, RowOf
  <2>3. PICK m \in Nat : m = n + 1
    BY <2>2
  <2>4. Covered(r) <=> ~ \A e \in Range(Entered(f, n)) : n + 1 - e > HoldDays
    <3>1. request[r].days = 1 .. m /\ request[r].day \in 1 .. m /\ request[r].day = m
      BY <2>1, <2>2, <2>3
    <3>2. Covered(r) <=> \E e \in Range(Entered(f, n)) : e = m \/ (e < m /\ m - e <= HoldDays)
      BY <3>1, CoveredIs
    <3>3. \A e \in Range(Entered(f, n)) :
             (e = m \/ (e < m /\ m - e <= HoldDays)) <=> ~(n + 1 - e > HoldDays)
      BY <1>6, <2>3, RulesAssumption
    <3> QED BY <3>2, <3>3
  <2>5. NewTrade(held) = Booked(f, n + 1, n + 1)
    <3>1. ~(n + 1 + HoldDays <= n + 1)
      BY <1>6, RulesAssumption
    <3>2. Booked(f, n + 1, n + 1) =
            [day |-> n + 1, action |-> RowOf(f, n + 1).signal, entry |-> f[n + 1],
             spread |-> SpreadOf(f, n + 1), status |-> "OPEN", exitDay |-> 0, exit |-> 0,
             breached |-> FALSE]
      BY <3>1 DEF Booked
    <3>3. RowOf(f, n + 1).close = f[n + 1]
      BY DEF RowOf
    <3> HIDE DEF held
    <3> QED BY <2>1, <3>2, <3>3 DEF NewTrade
  <2>6. opened = Opening(f, n)
    <3> HIDE DEF held
    <3> QED BY <2>2, <2>4, <2>5 DEF Opening
  <2>7. New(h, f, n)
    <3> HIDE DEF h, held, opened
    <3>1. h.phase = "exits" /\ h.opened = Opening(f, n) /\ h.exits = <<>>
      BY <1>5, <2>6
    <3>2. h.day = n + 1 /\ h.was = NoRow /\ h.row = RowOf(f, n + 1) /\ h.days = 1 .. n + 1
      BY <1>5, <2>1
    <3> QED BY <3>1, <3>2 DEF New
  <2>8. ASSUME NEW q \in Requests \ {r} PROVE ~New(request[q], f, n)
    BY <1>8 DEF Kept
  <2> HIDE DEF h
  <2> QED BY <1>4, <2>7, <2>8, OthersKept DEF Told
<1> QED BY <1>2, <1>7, <1>8

\* A trade among the first m rows: when it is due, and what settles it.
LEMMA DueIs ==
    ASSUME NEW f \in Feeds, NEW n \in Nat, NEW m \in Nat, n <= m,
           NEW table, table = Rows(f, m), NEW d \in 1 .. m,
           NEW trade, trade = Booked(f, n, d)
    PROVE  /\ Due(table, trade) <=> d + HoldDays > n /\ d + HoldDays <= m
           /\ Due(table, trade) => Settled(table, trade) = Booked(f, m, d)
<1>1. HoldDays \in Nat \ {0} /\ DOMAIN table = 1 .. m /\ \A i \in 1 .. m : table[i].close = f[i]
  BY RulesAssumption DEF Rows, RowOf
<1>2. /\ Cardinality(DOMAIN table) = m
      /\ \A i \in 1 .. m : Place(table, i) = i /\ DayAt(table, i) = i
  BY <1>1, InOrder
<1>3. /\ trade.day = d /\ trade.action = RowOf(f, d).signal /\ trade.entry = f[d]
      /\ trade.spread = SpreadOf(f, d)
      /\ trade.status = IF d + HoldDays <= n THEN "CLOSED" ELSE "OPEN"
  BY DEF Booked
<1>4. Due(table, trade) <=> d + HoldDays > n /\ d + HoldDays <= m
  BY <1>1, <1>2, <1>3 DEF Due
<1>5. ASSUME Due(table, trade)
      PROVE  Settled(table, trade) = Booked(f, m, d)
  <2>1. d + HoldDays <= m /\ d + HoldDays \in 1 .. m
    BY <1>1, <1>4, <1>5
  <2>2. /\ Place(table, trade.day) = d /\ DayAt(table, d + HoldDays) = d + HoldDays
        /\ table[d + HoldDays].close = f[d + HoldDays]
    BY <1>1, <1>2, <1>3, <2>1
  <2>3. \A i \in d + 1 .. d + HoldDays : table[DayAt(table, i)].close = f[i]
    <3>1. \A i \in d + 1 .. d + HoldDays : i \in 1 .. m
      BY <1>1, <2>1
    <3> QED BY <1>1, <1>2, <3>1
  <2> DEFINE Stopped == \E i \in d + 1 .. d + HoldDays :
                           Breaches(RowOf(f, d).signal, f[d], SpreadOf(f, d), f[i])
             Struck == \E i \in d + 1 .. d + HoldDays :
                           Breaches(trade.action, trade.entry, trade.spread,
                                    table[DayAt(table, i)].close)
  <2>4. Struck = Stopped
    BY <1>3, <2>3
  <2>5. Settled(table, trade) =
          [day |-> trade.day, action |-> trade.action, entry |-> trade.entry,
           spread |-> trade.spread, status |-> "CLOSED", exitDay |-> d + HoldDays,
           exit |-> f[d + HoldDays], breached |-> Struck]
    BY <2>2 DEF Settled
  <2>6. Booked(f, m, d) =
          [day |-> d, action |-> RowOf(f, d).signal, entry |-> f[d], spread |-> SpreadOf(f, d),
           status |-> "CLOSED", exitDay |-> d + HoldDays, exit |-> f[d + HoldDays],
           breached |-> Stopped]
    BY <2>1 DEF Booked
  <2> HIDE DEF Stopped, Struck
  <2> QED BY <1>3, <2>4, <2>5, <2>6
<1> QED BY <1>4, <1>5

LEMMA KeptFill ==
    ASSUME TypeOK, NEW f \in Feeds, NEW n \in 0 .. LastDay, Kept(f, n),
           NEW r \in Requests, FillDueExits(r)
    PROVE  Kept(f, n)'
<1> DEFINE held   == request[r]
           table  == Seen(r)
           due    == {t \in DOMAIN trades : Due(table, trades[t])}
           own    == held.opened
           opened == [k \in DOMAIN own |->
                         IF Due(table, own[k]) THEN Settled(table, own[k]) ELSE own[k]]
           exits  == [t \in due |-> Settled(table, trades[t])]
           h      == [phase |-> "commit", day |-> held.day, last |-> held.last,
                      was |-> held.was, row |-> held.row, spread |-> held.spread,
                      days |-> held.days, opened |-> opened, exits |-> exits]
<1>1. held.phase = "exits" /\ held # Idle
  BY DEF FillDueExits, Idle
<1>2. Retold(held, f, n) \/ New(held, f, n)
  <2>1. Told(held, f, n)
    BY DEF Kept
  <2> HIDE DEF held
  <2> QED BY <1>1, <2>1 DEF Told
<1>3. request' = [request EXCEPT ![r] = h] /\ UNCHANGED <<feed, log, trades>>
  BY DEF FillDueExits
<1>4. /\ h.phase = "commit" /\ h.day = held.day /\ h.was = held.was /\ h.row = held.row
      /\ h.days = held.days /\ h.opened = opened /\ h.exits = exits
  OBVIOUS
<1>5. /\ n \in Nat /\ DOMAIN log = 1 .. n /\ \A d \in 1 .. n : log[d] = RowOf(f, d)
      /\ DOMAIN trades = DOMAIN Entered(f, n)
      /\ \A t \in DOMAIN trades : /\ Entered(f, n)[t] \in 1 .. n
                                  /\ trades[t] = Booked(f, n, Entered(f, n)[t])
  BY TablesKept
<1>6. HoldDays \in Nat \ {0}
  BY RulesAssumption
<1>7. CASE Retold(held, f, n)
  <2>1. /\ held.day \in 1 .. n /\ held.row = RowOf(f, held.day) /\ held.was = RowOf(f, held.day)
        /\ held.row = held.was /\ (\E m \in held.day .. n : held.days = 1 .. m)
        /\ held.opened = <<>>
    BY <1>7 DEF Retold
  <2>2. PICK rows : rows = table
    OBVIOUS
  <2>3. rows = Rows(f, n)
    <3>1. DOMAIN log \cup {held.day} = 1 .. n
      BY <1>5, <2>1
    <3>2. rows = [d \in 1 .. n |-> IF d = held.day THEN held.row ELSE log[d]]
      BY <2>2, <3>1 DEF Seen
    <3>3. \A d \in 1 .. n : (IF d = held.day THEN held.row ELSE log[d]) = RowOf(f, d)
      BY <1>5, <2>1
    <3> HIDE DEF held
    <3> QED BY <3>2, <3>3 DEF Rows
  <2>4. ASSUME NEW t \in DOMAIN trades PROVE ~Due(table, trades[t])
    <3>1. PICK d \in 1 .. n : d = Entered(f, n)[t]
      BY <1>5
    <3>2. PICK trade : trade = trades[t]
      OBVIOUS
    <3>3. Due(rows, trade) <=> d + HoldDays > n /\ d + HoldDays <= n
      <4>1. trade = Booked(f, n, d) /\ n <= n
        BY <1>5, <3>1, <3>2
      <4> QED BY <1>5, <2>3, <4>1, DueIs
    <3>4. ~Due(rows, trade)
      BY <1>5, <1>6, <3>3
    <3> QED BY <2>2, <3>2, <3>4
  <2>5. exits = <<>> /\ opened = <<>>
    <3>1. due = {}
      BY <2>4
    <3>2. DOMAIN own = {}
      BY <2>1
    <3> HIDE DEF due, own, table
    <3> QED BY <3>1, <3>2
  <2>6. Retold(h, f, n)
    <3> HIDE DEF h, held, opened, exits
    <3>1. h.phase = "commit" /\ h.opened = <<>> /\ h.exits = <<>>
      BY <1>4, <2>5
    <3>2. /\ h.day \in 1 .. n /\ h.was = RowOf(f, h.day) /\ h.row = h.was
          /\ \E m \in h.day .. n : h.days = 1 .. m
      BY <1>4, <2>1
    <3> QED BY <3>1, <3>2 DEF Retold
  <2>7. ~New(h, f, n)
    <3> HIDE DEF h, held
    <3> QED BY <1>4, <1>5, <2>1 DEF New
  <2> HIDE DEF h
  <2> QED BY <1>3, <2>6, <2>7, OthersKept DEF Told
<1>8. CASE New(held, f, n)
  <2>1. /\ held.day = n + 1 /\ held.was = NoRow /\ held.row = RowOf(f, n + 1)
        /\ held.days = 1 .. n + 1 /\ held.opened = Opening(f, n)
    <3> HIDE DEF held
    <3> QED BY <1>1, <1>8 DEF New
  <2>2. PICK m \in Nat : m = n + 1
    BY <1>5
  <2>3. PICK rows : rows = table
    OBVIOUS
  <2>4. rows = Rows(f, m)
    <3>1. DOMAIN log \cup {held.day} = 1 .. m
      BY <1>5, <2>1, <2>2
    <3>2. rows = [d \in 1 .. m |-> IF d = held.day THEN held.row ELSE log[d]]
      BY <2>3, <3>1 DEF Seen
    <3>3. \A d \in 1 .. m : (IF d = held.day THEN held.row ELSE log[d]) = RowOf(f, d)
      BY <1>5, <2>1, <2>2
    <3> HIDE DEF held
    <3> QED BY <3>2, <3>3 DEF Rows
  <2>5. ASSUME NEW t \in DOMAIN trades
        PROVE  /\ Due(table, trades[t]) <=> t \in Ending(f, n)
               /\ t \in Ending(f, n) => Settled(table, trades[t]) = Booked(f, n + 1, Entered(f, n)[t])
    <3>1. PICK d \in 1 .. n : d = Entered(f, n)[t]
      BY <1>5
    <3>2. PICK trade : trade = trades[t]
      OBVIOUS
    <3>3. /\ Due(rows, trade) <=> d + HoldDays > n /\ d + HoldDays <= m
          /\ Due(rows, trade) => Settled(rows, trade) = Booked(f, m, d)
      <4>1. trade = Booked(f, n, d) /\ n <= m /\ d \in 1 .. m
        BY <1>5, <2>2, <3>1, <3>2
      <4> QED BY <1>5, <2>4, <4>1, DueIs
    <3>4. Due(rows, trade) <=> d + HoldDays = n + 1
      BY <1>5, <1>6, <2>2, <3>3
    <3>5. t \in Ending(f, n) <=> d + HoldDays = n + 1
      BY <1>5, <3>1 DEF Ending
    <3> HIDE DEF table
    <3> QED BY <2>2, <2>3, <3>1, <3>2, <3>3, <3>4, <3>5
  <2>6. exits = [k \in Ending(f, n) |-> Booked(f, n + 1, Entered(f, n)[k])]
    <3>1. due = Ending(f, n)
      <4>1. Ending(f, n) \subseteq DOMAIN trades
        BY <1>5 DEF Ending
      <4> HIDE DEF table
      <4> QED BY <2>5, <4>1
    <3>2. \A t \in due : Settled(table, trades[t]) = Booked(f, n + 1, Entered(f, n)[t])
      <4>1. due \subseteq DOMAIN trades
        OBVIOUS
      <4> HIDE DEF due, table
      <4> QED BY <2>5, <3>1, <4>1
    <3> HIDE DEF due, table
    <3> QED BY <3>1, <3>2
  <2>7. opened = Opening(f, n)
    <3>1. PICK trade : trade = Booked(f, m, m)
      OBVIOUS
    <3>2. ~Due(rows, trade)
      <4>1. Due(rows, trade) <=> m + HoldDays > m /\ m + HoldDays <= m
        <5>1. m <= m /\ m \in 1 .. m
          BY <1>5, <2>2
        <5> QED BY <2>4, <3>1, <5>1, DueIs
      <4> QED BY <1>6, <4>1
    <3>3. own = <<>> \/ own = <<trade>>
      BY <2>1, <2>2, <3>1 DEF Opening
    <3>4. opened = own
      <4>1. CASE own = <<>>
        <5>1. DOMAIN own = {}
          BY <4>1
        <5> HIDE DEF own, table
        <5> QED BY <4>1, <5>1
      <4>2. CASE own = <<trade>>
        <5>1. DOMAIN own = {1} /\ own[1] = trade
          BY <4>2
        <5>2. opened = [k \in {1} |-> trade]
          <6> HIDE DEF own, table
          <6> QED BY <2>3, <3>2, <5>1
        <5>3. own = [k \in {1} |-> trade]
          BY <4>2
        <5> QED BY <5>2, <5>3
      <4> QED BY <3>3, <4>1, <4>2
    <3> QED BY <2>1, <3>4
  <2>8. New(h, f, n)
    <3> HIDE DEF h, held, opened, exits
    <3>1. /\ h.phase = "commit" /\ h.opened = Opening(f, n)
          /\ h.exits = [k \in Ending(f, n) |-> Booked(f, n + 1, Entered(f, n)[k])]
      BY <1>4, <2>6, <2>7
    <3>2. h.day = n + 1 /\ h.was = NoRow /\ h.row = RowOf(f, n + 1) /\ h.days = 1 .. n + 1
      BY <1>4, <2>1
    <3> QED BY <3>1, <3>2 DEF New
  <2>9. ASSUME NEW q \in Requests \ {r} PROVE ~New(request[q], f, n)
    BY <1>8 DEF Kept
  <2> HIDE DEF h
  <2> QED BY <1>3, <2>8, <2>9, OthersKept DEF Told
<1> QED BY <1>2, <1>7, <1>8

\* The others, when a request has told day n + 1.
LEMMA ToldOn ==
    ASSUME NEW f, NEW n \in Nat, NEW h, Told(h, f, n), ~New(h, f, n)
    PROVE  Told(h, f, n + 1) /\ ~New(h, f, n + 1)
<1>1. CASE Retold(h, f, n)
  <2>1. /\ h.phase \in {"trades", "exits", "commit"}
        /\ h.day \in 1 .. n /\ h.was = RowOf(f, h.day) /\ h.row = h.was
        /\ h.opened = <<>> /\ h.exits = <<>>
    BY <1>1 DEF Retold
  <2>2. h.day \in 1 .. n + 1 /\ h.day # n + 1 + 1
    BY <2>1
  <2>3. \E m \in h.day .. n + 1 : h.days = 1 .. m
    <3>1. PICK m \in h.day .. n : h.days = 1 .. m
      BY <1>1 DEF Retold
    <3>2. m \in h.day .. n + 1
      BY <2>1
    <3> QED BY <3>1, <3>2
  <2>4. Retold(h, f, n + 1)
    BY <2>1, <2>2, <2>3 DEF Retold
  <2> QED BY <2>2, <2>4 DEF Told, New
<1>2. CASE h = Idle
  BY <1>2, IdleTold
<1>3. CASE h.phase = "next" /\ h.day \in 1 .. n + 1
  <2>1. h.day \in 1 .. n + 1 + 1
    BY <1>3
  <2> QED BY <1>3, <2>1, NotNew DEF Told
<1>4. CASE /\ h.phase = "upsert" /\ h.day \in 1 .. n + 1
           /\ h.was = NoRow \/ (h.day \in 1 .. n /\ h.was = RowOf(f, h.day))
  <2>1. h.day \in 1 .. n + 1 + 1 /\ (h.day \in 1 .. n => h.day \in 1 .. n + 1)
    BY <1>4
  <2> QED BY <1>4, <2>1, NotNew DEF Told
<1> QED BY <1>1, <1>2, <1>3, <1>4 DEF Told

LEMMA KeptCommit ==
    ASSUME TypeOK, NEW f \in Feeds, NEW n \in 0 .. LastDay, Kept(f, n),
           NEW r \in Requests, Commit(r)
    PROVE  Kept(f, n)' \/ (n + 1 \in 0 .. LastDay /\ Kept(f, n + 1)')
<1> DEFINE held == request[r]
           row(d) == IF d # held.day THEN log[d]
                     ELSE IF d \in DOMAIN log THEN Merged(log[d], held.was, held.row)
                     ELSE held.row
           old == [t \in DOMAIN trades |->
                      IF t \in DOMAIN held.exits THEN held.exits[t] ELSE trades[t]]
           h == IF held.day = held.last THEN Idle
                ELSE [phase |-> "next", day |-> held.day + 1, last |-> held.last]
<1>1. held.phase = "commit" /\ held # Idle
  BY DEF Commit, Idle
<1>2. Retold(held, f, n) \/ New(held, f, n)
  <2>1. Told(held, f, n)
    BY DEF Kept
  <2> HIDE DEF held
  <2> QED BY <1>1, <2>1 DEF Told
<1>3. /\ log' = [d \in DOMAIN log \cup {held.day} |-> row(d)]
      /\ trades' = old \o held.opened
      /\ request' = [request EXCEPT ![r] = h]
      /\ feed' = feed
  BY DEF Commit
<1>4. /\ n \in Nat /\ DOMAIN log = 1 .. n /\ \A d \in 1 .. n : log[d] = RowOf(f, d)
      /\ DOMAIN trades = DOMAIN Entered(f, n)
  BY TablesKept
<1>5. CASE Retold(held, f, n)
  <2>1. /\ held.day \in 1 .. n /\ held.row = RowOf(f, held.day) /\ held.was = RowOf(f, held.day)
        /\ held.opened = <<>> /\ held.exits = <<>>
    BY <1>5 DEF Retold
  <2>2. log' = log
    <3>1. DOMAIN log \cup {held.day} = 1 .. n
      BY <1>4, <2>1
    <3>2. PICK same : same = RowOf(f, held.day)
      OBVIOUS
    <3>3. Merged(same, same, same) = same
      BY <3>2 DEF Merged, RowOf
    <3>4. \A d \in 1 .. n : row(d) = log[d]
      <4> HIDE DEF held
      <4> QED BY <1>4, <2>1, <3>2, <3>3
    <3>5. log = [d \in 1 .. n |-> log[d]]
      BY <1>4 DEF Kept, Rows
    <3> HIDE DEF held, row
    <3> QED BY <1>3, <3>1, <3>4, <3>5
  <2>3. trades' = trades
    <3>1. trades \in Seq(TradeType)
      BY DEF TypeOK
    <3>2. old = trades
      <4>1. trades = [t \in DOMAIN trades |-> trades[t]]
        BY <3>1, LenProperties
      <4>2. DOMAIN held.exits = {}
        BY <2>1
      <4> HIDE DEF held
      <4> QED BY <4>1, <4>2
    <3> HIDE DEF old, held
    <3> QED BY <1>3, <2>1, <3>1, <3>2, ConcatEmptySeq
  <2>4. Told(h, f, n) /\ ~New(h, f, n)
    <3>1. CASE held.day = held.last
      BY <3>1, IdleTold
    <3>2. CASE held.day # held.last
      <4>1. held.day + 1 \in 1 .. n + 1
        BY <1>4, <2>1
      <4>2. h.phase = "next" /\ h.day = held.day + 1
        BY <3>2
      <4> HIDE DEF h, held
      <4> QED BY <4>1, <4>2, NotNew DEF Told
    <3> QED BY <3>1, <3>2
  <2> HIDE DEF h
  <2> QED BY <1>3, <2>2, <2>3, <2>4, OthersKept
<1>6. CASE New(held, f, n)
  <2>1. /\ held.day = n + 1 /\ held.row = RowOf(f, n + 1) /\ held.opened = Opening(f, n)
        /\ held.exits = [k \in Ending(f, n) |-> Booked(f, n + 1, Entered(f, n)[k])]
    <3> HIDE DEF held
    <3> QED BY <1>1, <1>6 DEF New
  <2>2. n + 1 \in 1 .. LastDay /\ n + 1 \in 0 .. LastDay /\ n \in 0 .. LastDay - 1
    <3>1. held.day \in 1 .. LastDay
      BY <1>1, DayIn
    <3>2. LastDay \in Nat
      BY FeedAssumption
    <3> QED BY <1>4, <2>1, <3>1, <3>2
  <2>3. log' = Rows(f, n + 1)
    <3>1. DOMAIN log \cup {held.day} = 1 .. n + 1
      BY <1>4, <2>1
    <3>2. \A d \in 1 .. n + 1 : row(d) = RowOf(f, d)
      <4>1. \A d \in 1 .. n + 1 : d # n + 1 => d \in 1 .. n
        BY <1>4
      <4>2. n + 1 \notin DOMAIN log
        BY <1>4
      <4> HIDE DEF held
      <4> QED BY <1>4, <2>1, <4>1, <4>2
    <3> HIDE DEF held, row
    <3> QED BY <1>3, <3>1, <3>2 DEF Rows
  <2>4. trades' = Book(f, n + 1)
    <3>1. old = [k \in DOMAIN Book(f, n) |->
                    IF k \in Ending(f, n) THEN Booked(f, n + 1, Entered(f, n)[k])
                    ELSE Book(f, n)[k]]
      <4>1. trades = Book(f, n)
        BY DEF Kept
      <4>2. DOMAIN held.exits = Ending(f, n)
            /\ \A k \in Ending(f, n) : held.exits[k] = Booked(f, n + 1, Entered(f, n)[k])
        <5> HIDE DEF held
        <5> QED BY <2>1
      <4> HIDE DEF held
      <4> QED BY <4>1, <4>2
    <3> HIDE DEF old, held
    <3> QED BY <1>3, <2>1, <2>2, <3>1, BookGrows
  <2>5. Told(h, f, n + 1) /\ ~New(h, f, n + 1)
    <3>1. CASE held.day = held.last
      BY <3>1, IdleTold
    <3>2. CASE held.day # held.last
      <4>1. h.phase = "next" /\ h.day = n + 1 + 1 /\ n + 1 + 1 \in 1 .. n + 1 + 1
        BY <1>4, <2>1, <3>2
      <4> HIDE DEF h, held
      <4> QED BY <4>1, NotNew DEF Told
    <3> QED BY <3>1, <3>2
  <2>6. ASSUME NEW q \in Requests, q # r
        PROVE  Told(request[q], f, n + 1) /\ ~New(request[q], f, n + 1)
    <3>1. Told(request[q], f, n) /\ ~New(request[q], f, n)
      BY <1>6, <2>6 DEF Kept
    <3> QED BY <1>4, <3>1, ToldOn
  <2>7. DOMAIN request' = Requests
        /\ \A q \in Requests : request'[q] = IF q = r THEN h ELSE request[q]
    <3> HIDE DEF h
    <3> QED BY <1>3 DEF Kept
  <2>8. \A q \in Requests : Told(request'[q], f, n + 1) /\ ~New(request'[q], f, n + 1)
    <3> HIDE DEF h
    <3> QED BY <2>5, <2>6, <2>7
  <2>9. feed' = f
    BY <1>3 DEF Kept
  <2>10. Kept(f, n + 1)'
    BY <2>3, <2>4, <2>7, <2>8, <2>9 DEF Kept
  <2> QED BY <2>2, <2>10
<1> QED BY <1>2, <1>5, <1>6

LEMMA KeptStep ==
    ASSUME TypeOK, ~Gaps, NEW f \in Feeds, NEW n \in 0 .. LastDay, Kept(f, n), [Next]_vars
    PROVE  Kept(f, n)' \/ (n + 1 \in 0 .. LastDay /\ Kept(f, n + 1)')
<1>1. CASE AppRestarts
  <2>1. /\ UNCHANGED <<feed, log, trades>> /\ DOMAIN request' = Requests
        /\ \A q \in Requests : request'[q] = Idle
    BY <1>1 DEF AppRestarts
  <2>2. \A q \in Requests : Told(request'[q], f, n) /\ ~New(request'[q], f, n)
    BY <2>1, IdleTold
  <2> QED BY <2>1, <2>2 DEF Kept
<1>2. CASE UNCHANGED vars
  BY <1>2 DEF vars, Kept
<1>3. CASE \E r \in Requests : \/ \E slice \in Slices : StartBatch(r, slice)
                               \/ FindRow(r) \/ InsertRefused(r) \/ RequestFails(r)
  BY <1>3, KeptOutside
<1>4. CASE \E r \in Requests : Upsert(r) \/ DecideTrade(r) \/ FillDueExits(r)
  BY <1>4, KeptUpsert, KeptDecide, KeptFill
<1>5. CASE \E r \in Requests : Commit(r)
  BY <1>5, KeptCommit
<1> QED BY <1>1, <1>2, <1>3, <1>4, <1>5 DEF Next, Ingest

\* usdjpy_trades is the workbook's journal of usdjpy_closes.
Journalled(n) ==
    /\ ClosesTo(log, Cardinality(DOMAIN log)) = History(feed, n)
    /\ [t \in DOMAIN trades |-> JournalLine(trades[t])] = Workbook!Journal(History(feed, n))

LEMMA KeptIsJournalled ==
    ASSUME NEW f \in Feeds, NEW n \in 0 .. LastDay, Kept(f, n)
    PROVE  Journalled(n)
<1>1. PICK table, book : table = log /\ book = trades
  OBVIOUS
<1>2. table = Rows(f, n) /\ book = Book(f, n) /\ feed = f
  BY <1>1 DEF Kept
<1>3. /\ ClosesTo(table, Cardinality(DOMAIN table)) = History(f, n)
      /\ [t \in DOMAIN book |-> LineOf(table, book[t])] = Workbook!Journal(History(f, n))
  BY <1>2, JournalIs
<1>4. \A trade : JournalLine(trade) = LineOf(table, trade)
  BY <1>1 DEF JournalLine, LineOf
<1> QED BY <1>1, <1>2, <1>3, <1>4 DEF Journalled

-----------------------------------------------------------------------------
(* The refinement.                                                          *)

LEMMA KeptFirst == Init => InOrderKept
<1> SUFFICES ASSUME Init PROVE Kept(feed, 0)
  BY FeedAssumption DEF InOrderKept
<1>1. PICK f \in Feeds : f = feed
  BY DEF Init, Feeds
<1>2. Entered(f, 0) = <<>>
  <2>1. Entered(f, 0) \in Seq(1 .. 0)
    BY FeedAssumption, EnteredTyped
  <2>2. 1 .. 0 = {}
    OBVIOUS
  <2> QED BY <2>1, <2>2
<1>3. log = Rows(f, 0) /\ trades = Book(f, 0)
  <2>1. DOMAIN Entered(f, 0) = {}
    BY <1>2
  <2>2. Rows(f, 0) = <<>>
    <3>1. 1 .. 0 = {}
      OBVIOUS
    <3> QED BY <3>1 DEF Rows
  <2>3. Book(f, 0) = <<>>
    BY <2>1 DEF Book
  <2> QED BY <2>2, <2>3 DEF Init
<1>4. DOMAIN request = Requests /\ \A r \in Requests : request[r] = Idle
  BY DEF Init
<1>5. \A r \in Requests : Told(request[r], f, 0) /\ ~New(request[r], f, 0)
  BY <1>4, IdleTold
<1> QED BY <1>1, <1>3, <1>4, <1>5 DEF Kept

\* One more close of the feed is one step of the workbook.
LEMMA HistoryGrows ==
    ASSUME NEW f \in Feeds, NEW n \in 0 .. LastDay - 1
    PROVE  f[n + 1] \in Prices /\ History(f, n + 1) = Append(History(f, n), f[n + 1])
<1>1. n \in Nat /\ n \in 0 .. LastDay /\ n + 1 \in 0 .. LastDay /\ n + 1 \in 1 .. LastDay
  BY FeedAssumption
<1>2. f[n + 1] \in Prices
  BY <1>1 DEF Feeds
<1>3. /\ History(f, n) \in Seq(Prices) /\ Len(History(f, n)) = n
      /\ History(f, n + 1) \in Seq(Prices) /\ Len(History(f, n + 1)) = n + 1
  BY <1>1, HistoryTyped
<1>4. PICK old, new, close : old = History(f, n) /\ new = History(f, n + 1) /\ close = f[n + 1]
  OBVIOUS
<1>5. /\ Append(old, close) \in Seq(Prices) /\ Len(Append(old, close)) = n + 1
      /\ \A i \in 1 .. n : Append(old, close)[i] = old[i]
      /\ Append(old, close)[n + 1] = close
  BY <1>2, <1>3, <1>4, AppendProperties
<1>6. /\ \A i \in 1 .. n : old[i] = f[i]
      /\ \A i \in 1 .. n + 1 : new[i] = f[i]
  BY <1>4 DEF History
<1>7. \A i \in 1 .. n + 1 : Append(old, close)[i] = new[i]
  <2>1. \A i \in 1 .. n + 1 : i # n + 1 => i \in 1 .. n
    BY <1>1
  <2>2. n + 1 \in 1 .. n + 1
    BY <1>1
  <2> QED BY <1>4, <1>5, <1>6, <2>1, <2>2
<1>8. Append(old, close) = new
  <2>1. PICK longer : longer = Append(old, close)
    OBVIOUS
  <2>2. longer \in Seq(Prices) /\ new \in Seq(Prices) /\ Len(longer) = Len(new)
        /\ \A i \in 1 .. Len(longer) : longer[i] = new[i]
    BY <1>3, <1>4, <1>5, <1>7, <2>1
  <2> QED BY <2>1, <2>2, SeqEqual
<1> QED BY <1>2, <1>4, <1>8

\* ingest_close implements the workbook, when no request starts beyond a gap: whatever
\* requests overlap and wherever they fail, a commit either changes nothing or adds one
\* close to the log and leaves the journal the non-overlapping backtest makes of it.
THEOREM ServiceImplementsWorkbook ==
    ASSUME ~Gaps
    PROVE  Spec => ImplementsWorkbook
<1> DEFINE closes  == ClosesTo(log, Cardinality(DOMAIN log))
           journal == [t \in DOMAIN trades |-> JournalLine(trades[t])]
<1>1. (\A f \in Feeds : \A n \in 0 .. LastDay : Kept(f, n) => Journalled(n))'
  <2>1. \A f \in Feeds : \A n \in 0 .. LastDay : Kept(f, n) => Journalled(n)
    BY KeptIsJournalled
  <2> QED BY <2>1, PTL
<1>2. Init => InOrderKept
  BY KeptFirst
<1>3. Init => Workbook!Init
  <2> SUFFICES ASSUME Init PROVE closes = <<>> /\ journal = <<>>
    BY DEF Workbook!Init
  <2>1. log = <<>> /\ trades = <<>>
    BY DEF Init
  <2>2. DOMAIN log = {} /\ Cardinality(DOMAIN log) = 0
    BY <2>1, FS_EmptySet
  <2>3. 1 .. 0 = {}
    OBVIOUS
  <2>4. closes = <<>>
    BY <2>2, <2>3 DEF ClosesTo
  <2>5. journal = <<>>
    BY <2>1
  <2> QED BY <2>4, <2>5
<1>4. TypeOK /\ InOrderKept /\ [Next]_vars
        => InOrderKept' /\ [Workbook!Next]_<<closes, journal>>
  <2> SUFFICES ASSUME TypeOK, InOrderKept, [Next]_vars
               PROVE  InOrderKept' /\ [Workbook!Next]_<<closes, journal>>
    OBVIOUS
  <2>1. PICK n \in 0 .. LastDay : Kept(feed, n)
    BY DEF InOrderKept
  <2>2. PICK f \in Feeds : f = feed
    BY DEF TypeOK, Feeds
  <2>3. Kept(f, n)
    BY <2>1, <2>2
  <2>4. Journalled(n)
    BY <2>3, KeptIsJournalled
  <2>5. closes = History(f, n) /\ journal = Workbook!Journal(History(f, n))
    BY <2>2, <2>4 DEF Journalled
  <2>6. CASE Kept(f, n)'
    <3>1. feed' = f
      BY <2>6 DEF Kept
    <3>2. InOrderKept'
      BY <2>6, <3>1 DEF InOrderKept
    <3>3. Journalled(n)'
      BY <1>1, <2>6
    <3>4. closes' = History(f, n) /\ journal' = Workbook!Journal(History(f, n))
      BY <2>6, <3>1, <3>3 DEF Journalled
    <3> QED BY <2>5, <3>2, <3>4
  <2>7. CASE n + 1 \in 0 .. LastDay /\ Kept(f, n + 1)'
    <3>1. PICK m \in 0 .. LastDay : m = n + 1
      BY <2>7
    <3>2. feed' = f /\ Kept(f, m)'
      BY <2>7, <3>1 DEF Kept
    <3>3. InOrderKept'
      BY <3>2 DEF InOrderKept
    <3>4. Journalled(m)'
      BY <1>1, <3>2
    <3>5. closes' = History(f, n + 1) /\ journal' = Workbook!Journal(History(f, n + 1))
      BY <3>1, <3>2, <3>4 DEF Journalled
    <3>6. n \in 0 .. LastDay - 1
      BY <2>7, FeedAssumption
    <3>7. f[n + 1] \in Prices /\ History(f, n + 1) = Append(History(f, n), f[n + 1])
      BY <3>6, HistoryGrows
    <3>8. closes' = Append(closes, f[n + 1]) /\ journal' = Workbook!Journal(closes')
      BY <2>5, <3>5, <3>7
    <3>9. Workbook!Next
      BY <3>7, <3>8 DEF Workbook!Next, Workbook!AddClose
    <3> QED BY <3>3, <3>9
  <2> QED BY <2>3, <2>6, <2>7, KeptStep
<1> QED BY <1>2, <1>3, <1>4, TypeCorrect, PTL
        DEF Spec, ImplementsWorkbook, Workbook!Spec
=============================================================================
