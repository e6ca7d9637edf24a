------------------------- MODULE TradingDesk_proofs -------------------------
(***************************************************************************)
(* Theorems about TradingDesk for all set-ups, nodes, fleets, limits,      *)
(* rates and records: how far a day can lose, what the VaR gate lets       *)
(* through, that the orders sent for a card are the card, and that what is *)
(* said of the record does not contradict itself.                          *)
(***************************************************************************)
EXTENDS TradingDesk, CollectionTheorems

Cap == RiskLimits(Balance, Tier).dailyLossCap

Trade ==
    [by : {"card", "asked", "blind"}, side : {"long", "short"}, lot : Nat, price : Nat, risk : Nat,
     fresh : BOOLEAN, closed : BOOLEAN, pnl : Int]

\* A trade makes or loses nothing before it closes.
IsBook(trades) ==
    /\ DOMAIN trades \subseteq Trades
    /\ trades \in [DOMAIN trades -> Trade]
    /\ \A i \in DOMAIN trades : ~trades[i].closed => trades[i].pnl = 0

BookOK == IsBook(book) /\ record \in Seq(Results)

\* The risk of the trades of a set, and what evaluate_trade bounds of it.
RiskIn(trades, S) == SumFunctionOnSet([i \in DOMAIN trades |-> trades[i].risk], S)
By(trades, who) == {i \in DOMAIN trades : trades[i].by = who}
Ungated(trades) == {i \in DOMAIN trades : trades[i].by # "asked"}
AskedRisk(trades) == RiskIn(trades, Open(trades) \cap By(trades, "asked"))
UngatedRisk(trades) == RiskIn(trades, Ungated(trades))

LossInv ==
    /\ BookOK
    /\ AskedRisk(book) <= Cap
    /\ DayPnl(book) - OpenRisk(book) > -2 * Cap - UngatedRisk(book)

-----------------------------------------------------------------------------
(* Numbers.                                                                 *)

LEMMA CapInt == Cap \in Nat /\ Cap > 0
<1>1. TierScale(Tier) \in Nat
  BY TradingAssumption DEF TierScale
<1>2. Cap = (Balance * 30 * TierScale(Tier)) \div 60000
  BY DEF Cap, RiskLimits, LimitPct
<1>3. Balance * 30 * TierScale(Tier) \in Nat
  BY <1>1, TradingAssumption, SMTT(40)
<1>4. Cap > 0
  BY TradingAssumption DEF Cap
<1> HIDE DEF Cap
<1> QED BY <1>2, <1>3, <1>4

LEMMA MaxPair ==
    ASSUME NEW a \in Int, NEW b \in Int
    PROVE  Max({a, b}) = IF a >= b THEN a ELSE b
<1>1. \E x \in {a, b} : \A y \in {a, b} : x >= y
  OBVIOUS
<1>2. Max({a, b}) \in {a, b} /\ \A y \in {a, b} : Max({a, b}) >= y
  BY <1>1 DEF Max
<1> QED BY <1>2

LEMMA MinPair ==
    ASSUME NEW a \in Int, NEW b \in Int
    PROVE  Min({a, b}) = IF a <= b THEN a ELSE b
<1>1. \E x \in {a, b} : \A y \in {a, b} : x <= y
  OBVIOUS
<1>2. Min({a, b}) \in {a, b} /\ \A y \in {a, b} : Min({a, b}) <= y
  BY <1>1 DEF Min
<1> QED BY <1>2

LEMMA SizeNat ==
    ASSUME NEW entry \in Nat, NEW stop \in Nat, NEW risk \in Nat
    PROVE  /\ Distance(entry, stop) \in Nat
           /\ entry # stop => Distance(entry, stop) > 0
           /\ SizeForRisk(entry, stop, risk) \in Nat
<1>1. Distance(entry, stop) \in Nat /\ (entry # stop => Distance(entry, stop) > 0)
  BY DEF Distance
<1>2. \A d \in Nat : d > 0 => risk \div d \in Nat
  OBVIOUS
<1>3. entry # stop => risk \div Distance(entry, stop) \in Nat
  BY <1>1, <1>2
<1> QED BY <1>1, <1>3 DEF SizeForRisk

-----------------------------------------------------------------------------
(* Cards.                                                                   *)

LEMMA CardOfSetup ==
    ASSUME NEW s \in Setups, NEW card, card = CardOf(s), Tradeable(card)
    PROVE  /\ card.side \in {"long", "short"}
           /\ card.entry \in Nat /\ card.stop \in Nat /\ card.entry # card.stop
           /\ card.lot \in Nat \ {0} /\ card.risk \in Nat
           /\ card.side = s.bias /\ card.entry = s.entry /\ card.stop = s.stop
           /\ card.targets = Targets(s.entry, s.stop, s.bias, s.rr)
           /\ card.trend = s.trend /\ card.partial = s.partial
<1> DEFINE made == AssembleStructured(s.bias, s.entry, s.stop, Balance, Tier, Risk, s.rr)
           dist == Distance(s.entry, s.stop)
           lot  == Max({1, Min({SizeForRisk(s.entry, s.stop, Risk), MaxLot(Balance)})})
<1>1. /\ s.entry \in Nat /\ s.stop \in Nat /\ Risk \in Nat /\ Balance \in Nat
  BY TradingAssumption
<1>2. dist \in Nat /\ SizeForRisk(s.entry, s.stop, Risk) \in Nat
  BY <1>1, SizeNat
<1>3. MaxLot(Balance) \in Nat
  BY <1>1 DEF MaxLot
<1>4. lot \in Nat \ {0}
  <2>1. Min({SizeForRisk(s.entry, s.stop, Risk), MaxLot(Balance)}) \in Nat
    BY <1>2, <1>3, MinPair
  <2> QED BY <2>1, MaxPair
<1>5. lot * dist \in Nat
  <2> HIDE DEF lot, dist
  <2> QED BY <1>2, <1>4
<1>6. card = [made EXCEPT !.trend = s.trend, !.partial = s.partial]
  BY DEF CardOf
<1>7. s.bias \in {"long", "short"} /\ s.entry # s.stop
  <2> SUFFICES ASSUME s.bias \notin {"long", "short"} \/ s.entry = s.stop
               PROVE  FALSE
    OBVIOUS
  <2>1. made = [side |-> "none"]
    BY DEF AssembleStructured, NoTrade
  <2>2. card.side = "none"
    <3> HIDE DEF made
    <3> QED BY <1>6, <2>1
  <2> QED BY <2>2 DEF Tradeable
<1>8. made = [side |-> s.bias, entry |-> s.entry, stop |-> s.stop, lot |-> lot,
              risk |-> lot * dist, targets |-> Targets(s.entry, s.stop, s.bias, s.rr),
              allow |-> EvaluateTrade(Balance, lot * dist, 0, 0, Tier),
              trend |-> <<>>, partial |-> FALSE]
  BY <1>7 DEF AssembleStructured
<1> HIDE DEF made, lot, dist
<1> QED BY <1>1, <1>4, <1>5, <1>6, <1>7, <1>8

-----------------------------------------------------------------------------
(* The sums of a book.                                                      *)

LEMMA BookFinite ==
    ASSUME NEW b, IsBook(b)
    PROVE  /\ IsFiniteSet(DOMAIN b)
           /\ \A S : S \subseteq DOMAIN b => IsFiniteSet(S)
<1>1. IsFiniteSet(DOMAIN b)
  BY TradingAssumption, FS_Subset DEF IsBook
<1> QED BY <1>1, FS_Subset

LEMMA SumsOfBook ==
    ASSUME NEW b, IsBook(b)
    PROVE  /\ DayPnl(b) \in Int
           /\ OpenRisk(b) = RiskIn(b, Open(b))
           /\ OpenRisk(b) \in Nat /\ AskedRisk(b) \in Nat /\ UngatedRisk(b) \in Nat
           /\ AskedRisk(b) <= OpenRisk(b)
           /\ OpenRisk(b) <= AskedRisk(b) + UngatedRisk(b)
           /\ OpenRisk(b) = AskedRisk(b) + RiskIn(b, Open(b) \cap Ungated(b))
           /\ RiskIn(b, Open(b) \cap Ungated(b)) \in Nat
<1> DEFINE risk == [i \in DOMAIN b |-> b[i].risk]
           open == [i \in Open(b) |-> b[i].risk]
           pnl  == [i \in DOMAIN b |-> b[i].pnl]
           A    == Open(b) \cap By(b, "asked")
           C    == Open(b) \cap Ungated(b)
<1>1. \A i \in DOMAIN b : risk[i] \in Nat /\ pnl[i] \in Int
  BY DEF IsBook, Trade
<1>2. /\ IsFiniteSet(DOMAIN b) /\ IsFiniteSet(Open(b)) /\ IsFiniteSet(A)
      /\ IsFiniteSet(C) /\ IsFiniteSet(Ungated(b))
  BY BookFinite DEF Open, By, Ungated
<1>3. /\ Open(b) \subseteq DOMAIN b /\ A \subseteq Open(b)
      /\ C \subseteq Ungated(b) /\ Ungated(b) \subseteq DOMAIN b
  BY DEF Open, By, Ungated
<1>4. DayPnl(b) \in Int
  <2>1. DayPnl(b) = SumFunctionOnSet(pnl, DOMAIN b)
    BY DEF DayPnl, SumFunction
  <2> HIDE DEF pnl
  <2> QED BY <2>1, <1>1, <1>2, SumInt
<1>5. OpenRisk(b) = RiskIn(b, Open(b))
  <2>1. OpenRisk(b) = SumFunctionOnSet(open, Open(b))
    BY DEF OpenRisk, SumFunction
  <2>2. \A i \in Open(b) : open[i] = risk[i]
    BY <1>3
  <2>3. RiskIn(b, Open(b)) = SumFunctionOnSet(risk, Open(b))
    BY DEF RiskIn
  <2> HIDE DEF open, risk
  <2> QED BY <2>1, <2>2, <2>3, <1>2, SumAlike
<1>6. /\ RiskIn(b, Open(b)) \in Nat /\ RiskIn(b, A) \in Nat
      /\ RiskIn(b, C) \in Nat /\ RiskIn(b, Ungated(b)) \in Nat
      /\ RiskIn(b, A) <= RiskIn(b, Open(b))
      /\ RiskIn(b, C) <= RiskIn(b, Ungated(b))
  <2>1. \A S : RiskIn(b, S) = SumFunctionOnSet(risk, S)
    BY DEF RiskIn
  <2>2. /\ \A i \in Open(b) : risk[i] \in Nat
        /\ \A i \in Ungated(b) : risk[i] \in Nat
        /\ \A i \in A : risk[i] \in Nat
        /\ \A i \in C : risk[i] \in Nat
    BY <1>1, <1>3
  <2> HIDE DEF risk, A, C
  <2> QED BY <2>1, <2>2, <1>2, <1>3, SumNat, SumOfPart
<1>7. RiskIn(b, Open(b)) = RiskIn(b, A) + RiskIn(b, C)
  <2>1. Open(b) = A \cup C /\ A \cap C = {}
    BY DEF Open, By, Ungated, IsBook, Trade
  <2>2. \A i \in A \cup C : risk[i] \in Int
    BY <1>1, <1>3
  <2>3. \A S : RiskIn(b, S) = SumFunctionOnSet(risk, S)
    BY DEF RiskIn
  <2> HIDE DEF risk, A, C
  <2> QED BY <2>1, <2>2, <2>3, <1>2, SumOfUnion
<1> QED BY <1>4, <1>5, <1>6, <1>7 DEF AskedRisk, UngatedRisk

-----------------------------------------------------------------------------
(* What the steps do to the sums.                                           *)

LEMMA OpenedTrade ==
    ASSUME IsBook(book), NEW new \in Trades, new \notin DOMAIN book,
           NEW by \in {"card", "asked", "blind"}, NEW side \in {"long", "short"},
           NEW lot \in Nat, NEW price \in Nat, NEW risk \in Nat,
           NEW b, b = Opened(new, by, side, lot, price, risk)
    PROVE  /\ DOMAIN b = DOMAIN book \cup {new}
           /\ IsBook(b)
           /\ \A i \in DOMAIN book : b[i] = book[i]
           /\ b[new] = [by |-> by, side |-> side, lot |-> lot, price |-> price,
                       risk |-> risk, fresh |-> TRUE, closed |-> FALSE, pnl |-> 0]
BY DEF Opened, IsBook, Trade

LEMMA OpenedSums ==
    ASSUME IsBook(book), NEW new \in Trades, new \notin DOMAIN book,
           NEW by \in {"card", "asked", "blind"}, NEW side \in {"long", "short"},
           NEW lot \in Nat, NEW price \in Nat, NEW risk \in Nat,
           NEW b, b = Opened(new, by, side, lot, price, risk)
    PROVE  /\ DayPnl(b) = DayPnl(book)
           /\ OpenRisk(b) = OpenRisk(book) + risk
           /\ by = "asked" => /\ AskedRisk(b) = AskedRisk(book) + risk
                             /\ UngatedRisk(b) = UngatedRisk(book)
           /\ by # "asked" => /\ AskedRisk(b) = AskedRisk(book)
                            /\ UngatedRisk(b) = UngatedRisk(book) + risk
<1> DEFINE D  == DOMAIN book
           f  == [i \in D |-> book[i].risk]
           g  == [i \in DOMAIN b |-> b[i].risk]
           fp == [i \in D |-> book[i].pnl]
           gp == [i \in DOMAIN b |-> b[i].pnl]
<1>1. /\ DOMAIN b = D \cup {new} /\ (\A i \in D : b[i] = book[i])
      /\ b[new].by = by /\ b[new].risk = risk /\ b[new].pnl = 0 /\ b[new].closed = FALSE
  BY DEF Opened
<1>2. /\ Open(b) = Open(book) \cup {new}
      /\ By(b, "asked") = By(book, "asked") \cup (IF by = "asked" THEN {new} ELSE {})
      /\ Ungated(b) = Ungated(book) \cup (IF by # "asked" THEN {new} ELSE {})
      /\ Open(book) \subseteq D /\ By(book, "asked") \subseteq D /\ Ungated(book) \subseteq D
  BY <1>1 DEF Open, By, Ungated
<1>3. \A S : S \subseteq D => IsFiniteSet(S) /\ new \notin S
  BY BookFinite
<1>4. /\ \A i \in D : f[i] \in Int /\ g[i] = f[i]
      /\ \A i \in D : fp[i] \in Int /\ gp[i] = fp[i]
      /\ g[new] = risk /\ gp[new] = 0
  BY <1>1 DEF IsBook, Trade
<1>5. ASSUME NEW S, S \subseteq D
      PROVE  /\ RiskIn(book, S) \in Int /\ RiskIn(b, S) = RiskIn(book, S)
             /\ RiskIn(b, S \cup {new}) = RiskIn(book, S) + risk
  <2>1. IsFiniteSet(S) /\ new \notin S
    BY <1>3, <1>5
  <2>2. \A i \in S : f[i] \in Int /\ g[i] = f[i]
    BY <1>4, <1>5
  <2>3. g[new] \in Int /\ g[new] = risk
    BY <1>4
  <2> HIDE DEF f, g
  <2>4. SumFunctionOnSet(f, S) \in Int
    BY <2>1, <2>2, SumInt
  <2>5. SumFunctionOnSet(g, S) = SumFunctionOnSet(f, S)
    BY <2>1, <2>2, SumAlike
  <2>6. \A i \in S \cup {new} : g[i] \in Int
    BY <2>2, <2>3
  <2>7. SumFunctionOnSet(g, S \cup {new}) = g[new] + SumFunctionOnSet(g, S)
    BY <2>1, <2>6, SumAdd
  <2> QED BY <2>3, <2>4, <2>5, <2>7 DEF RiskIn, f, g
<1>6. DayPnl(b) = DayPnl(book)
  <2>1. IsFiniteSet(D) /\ new \notin D /\ gp[new] \in Int
    BY <1>3, <1>4
  <2>2. DayPnl(b) = SumFunctionOnSet(gp, D \cup {new})
    BY <1>1 DEF DayPnl, SumFunction
  <2>3. DayPnl(book) = SumFunctionOnSet(fp, D)
    BY DEF DayPnl, SumFunction
  <2>4. \A i \in D : fp[i] \in Int /\ gp[i] = fp[i]
    BY <1>4
  <2>5. gp[new] \in Int /\ gp[new] = 0
    BY <1>4
  <2> HIDE DEF fp, gp, D
  <2>6. SumFunctionOnSet(fp, D) \in Int
    BY <2>1, <2>4, SumInt
  <2>7. SumFunctionOnSet(gp, D) = SumFunctionOnSet(fp, D)
    BY <2>1, <2>4, SumAlike
  <2>8. \A i \in D \cup {new} : gp[i] \in Int
    BY <2>4, <2>5
  <2>9. SumFunctionOnSet(gp, D \cup {new}) = gp[new] + SumFunctionOnSet(gp, D)
    BY <2>1, <2>8, SumAdd
  <2> QED BY <2>2, <2>3, <2>5, <2>6, <2>7, <2>9
<1>7. OpenRisk(book) = RiskIn(book, Open(book))
  BY SumsOfBook
<1>8. OpenRisk(b) = RiskIn(b, Open(b))
  <2> DEFINE open == [i \in Open(b) |-> b[i].risk]
  <2>1. OpenRisk(b) = SumFunctionOnSet(open, Open(b))
    BY DEF OpenRisk, SumFunction
  <2>2. \A i \in Open(b) : open[i] = g[i]
    BY DEF Open
  <2>3. IsFiniteSet(Open(b))
    BY <1>2, <1>3, FS_AddElement
  <2>4. RiskIn(b, Open(b)) = SumFunctionOnSet(g, Open(b))
    BY DEF RiskIn
  <2> HIDE DEF open, g
  <2> QED BY <2>1, <2>2, <2>3, <2>4, SumAlike
<1>9. OpenRisk(b) = OpenRisk(book) + risk
  BY <1>2, <1>5, <1>7, <1>8
<1>10. AskedRisk(b) = IF by = "asked" THEN AskedRisk(book) + risk ELSE AskedRisk(book)
  <2> DEFINE A == Open(book) \cap By(book, "asked")
  <2>1. A \subseteq D
    BY <1>2
  <2>2. Open(b) \cap By(b, "asked") = IF by = "asked" THEN A \cup {new} ELSE A
    BY <1>2, <1>3
  <2>3. /\ AskedRisk(book) = RiskIn(book, A)
        /\ AskedRisk(b) = RiskIn(b, IF by = "asked" THEN A \cup {new} ELSE A)
    BY <2>2 DEF AskedRisk
  <2>4. /\ RiskIn(book, A) \in Int /\ RiskIn(b, A) = RiskIn(book, A)
        /\ RiskIn(b, A \cup {new}) = RiskIn(book, A) + risk
    BY <2>1, <1>5
  <2> HIDE DEF A
  <2> QED BY <2>3, <2>4
<1>11. UngatedRisk(b) = IF by # "asked" THEN UngatedRisk(book) + risk ELSE UngatedRisk(book)
  <2>1. Ungated(b) = IF by # "asked" THEN Ungated(book) \cup {new} ELSE Ungated(book)
    BY <1>2
  <2> DEFINE C == Ungated(book)
  <2>2. /\ UngatedRisk(book) = RiskIn(book, C)
        /\ UngatedRisk(b) = RiskIn(b, IF by # "asked" THEN C \cup {new} ELSE C)
    BY <2>1 DEF UngatedRisk
  <2>3. /\ RiskIn(book, C) \in Int /\ RiskIn(b, C) = RiskIn(book, C)
        /\ RiskIn(b, C \cup {new}) = RiskIn(book, C) + risk
    BY <1>2, <1>5
  <2> HIDE DEF C
  <2> QED BY <2>2, <2>3
<1> QED BY <1>6, <1>9, <1>10, <1>11

LEMMA ClosedSums ==
    ASSUME IsBook(book), NEW i \in DOMAIN book, ~book[i].closed, NEW p \in Int,
           NEW b, b = [book EXCEPT ![i].closed = TRUE, ![i].pnl = p]
    PROVE  /\ IsBook(b)
           /\ book[i].risk \in Nat
           /\ DayPnl(b) = DayPnl(book) + p
           /\ OpenRisk(b) = OpenRisk(book) - book[i].risk
           /\ AskedRisk(b) <= AskedRisk(book)
           /\ UngatedRisk(b) = UngatedRisk(book)
<1> DEFINE D  == DOMAIN book
           f  == [j \in D |-> book[j].risk]
           g  == [j \in DOMAIN b |-> b[j].risk]
           fp == [j \in D |-> book[j].pnl]
           gp == [j \in DOMAIN b |-> b[j].pnl]
<1>1. IsBook(b) /\ DOMAIN b = D
  <2>1. /\ DOMAIN b = D /\ D \subseteq Trades
        /\ b[i] = [book[i] EXCEPT !.closed = TRUE, !.pnl = p]
        /\ \A j \in D \ {i} : b[j] = book[j]
    BY DEF IsBook
  <2>2. \A j \in D : book[j] \in Trade
    BY DEF IsBook
  <2>3. b[i] \in Trade /\ b[i].closed = TRUE
    BY <2>1, <2>2 DEF Trade
  <2>4. \A j \in D : b[j] \in Trade /\ (~b[j].closed => b[j].pnl = 0)
    BY <2>1, <2>2, <2>3 DEF IsBook
  <2>5. b = [j \in D |-> b[j]]
    BY DEF IsBook
  <2> QED BY <2>1, <2>4, <2>5 DEF IsBook
<1>2. /\ \A j \in D : b[j].risk = book[j].risk /\ b[j].by = book[j].by
      /\ \A j \in D \ {i} : b[j] = book[j]
      /\ b[i].closed = TRUE /\ b[i].pnl = p
  BY DEF IsBook, Trade
<1>3. /\ Open(b) = Open(book) \ {i} /\ i \in Open(book)
      /\ (\A who : By(b, who) = By(book, who)) /\ Ungated(b) = Ungated(book)
      /\ Open(book) \subseteq D /\ By(book, "asked") \subseteq D /\ Ungated(book) \subseteq D
  BY <1>1, <1>2 DEF Open, By, Ungated
<1>4. \A S : S \subseteq D => IsFiniteSet(S)
  BY BookFinite
<1>5. /\ \A j \in D : f[j] \in Nat /\ g = f
      /\ \A j \in D : fp[j] \in Int /\ gp[j] \in Int
      /\ \A j \in D \ {i} : gp[j] = fp[j]
      /\ gp[i] = p /\ fp[i] = 0
  BY <1>1, <1>2 DEF IsBook, Trade
<1>6. \A S : RiskIn(b, S) = RiskIn(book, S)
  BY <1>5 DEF RiskIn
<1>7. DayPnl(b) = DayPnl(book) + p
  <2>1. IsFiniteSet(D) /\ i \in D
    BY <1>4
  <2>2. DayPnl(b) = SumFunctionOnSet(gp, D)
    BY <1>1 DEF DayPnl, SumFunction
  <2>3. DayPnl(book) = SumFunctionOnSet(fp, D)
    BY DEF DayPnl, SumFunction
  <2>4. \A j \in D : fp[j] \in Int /\ gp[j] \in Int
    BY <1>5
  <2>5. \A j \in D \ {i} : gp[j] = fp[j]
    BY <1>5
  <2>6. gp[i] = p /\ fp[i] = 0
    BY <1>5
  <2> HIDE DEF fp, gp, D
  <2>7. /\ SumFunctionOnSet(fp, D) \in Int
        /\ SumFunctionOnSet(gp, D) = SumFunctionOnSet(fp, D) - fp[i] + gp[i]
    BY <2>1, <2>4, <2>5, SumChanges
  <2> QED BY <2>2, <2>3, <2>6, <2>7
<1>8. OpenRisk(b) = RiskIn(b, Open(b)) /\ OpenRisk(book) = RiskIn(book, Open(book))
  BY <1>1, SumsOfBook
<1>9. OpenRisk(b) = OpenRisk(book) - book[i].risk
  <2>1. IsFiniteSet(Open(book)) /\ i \in Open(book) /\ \A j \in Open(book) : f[j] \in Int
    BY <1>3, <1>4, <1>5
  <2>2. f[i] = book[i].risk /\ f[i] \in Int
    BY <1>5
  <2>3. \A S : RiskIn(book, S) = SumFunctionOnSet(f, S)
    BY DEF RiskIn
  <2> HIDE DEF f
  <2>4. SumFunctionOnSet(f, Open(book)) = f[i] + SumFunctionOnSet(f, Open(book) \ {i})
    BY <2>1, SumRemove
  <2>5. \A j \in Open(book) \ {i} : f[j] \in Int
    BY <2>1
  <2>6. IsFiniteSet(Open(book) \ {i})
    BY <1>3, <1>4
  <2>7. SumFunctionOnSet(f, Open(book) \ {i}) \in Int
    BY <2>5, <2>6, SumInt
  <2>8. /\ OpenRisk(b) = SumFunctionOnSet(f, Open(book) \ {i})
        /\ OpenRisk(book) = SumFunctionOnSet(f, Open(book))
    BY <1>3, <1>6, <1>8, <2>3
  <2> QED BY <2>2, <2>4, <2>7, <2>8
<1>10. AskedRisk(b) <= AskedRisk(book)
  <2> DEFINE A == Open(book) \cap By(book, "asked")
  <2>1. AskedRisk(book) = SumFunctionOnSet(f, A) /\ AskedRisk(b) = SumFunctionOnSet(f, A \ {i})
    <3>1. Open(b) \cap By(b, "asked") = A \ {i}
      BY <1>3
    <3> QED BY <3>1, <1>6 DEF AskedRisk, RiskIn
  <2>2. IsFiniteSet(A) /\ A \ {i} \in SUBSET A /\ \A j \in A : f[j] \in Nat
    BY <1>3, <1>4, <1>5
  <2> HIDE DEF A, f
  <2> QED BY <2>1, <2>2, SumOfPart
<1>11. UngatedRisk(b) = UngatedRisk(book)
  BY <1>3, <1>6 DEF UngatedRisk
<1>12. book[i].risk \in Nat
  BY DEF IsBook, Trade
<1> QED BY <1>1, <1>7, <1>9, <1>10, <1>11, <1>12

LEMMA TurnedSums ==
    ASSUME IsBook(book), NEW b, b = [i \in Open(book) |-> [book[i] EXCEPT !.fresh = FALSE]]
    PROVE  /\ IsBook(b)
           /\ DayPnl(b) = 0
           /\ AskedRisk(b) = AskedRisk(book)
<1> DEFINE D == Open(book)
           A == D \cap By(book, "asked")
           f == [j \in DOMAIN book |-> book[j].risk]
           g == [j \in DOMAIN b |-> b[j].risk]
           p == [j \in DOMAIN b |-> b[j].pnl]
<1>1. /\ DOMAIN b = D /\ D \subseteq DOMAIN book
      /\ \A i \in D : /\ b[i].risk = book[i].risk /\ b[i].by = book[i].by
                      /\ b[i].closed = FALSE /\ b[i].pnl = 0 /\ b[i] \in Trade
  BY DEF IsBook, Trade, Open
<1>2. IsBook(b)
  BY <1>1 DEF IsBook
<1>3. IsFiniteSet(D) /\ IsFiniteSet(A)
  BY <1>1, BookFinite
<1>4. DayPnl(b) = 0
  <2>1. DayPnl(b) = SumFunctionOnSet(p, D)
    BY <1>1 DEF DayPnl, SumFunction
  <2>2. \A i \in D : p[i] = 0
    BY <1>1
  <2> HIDE DEF p, D
  <2> QED BY <1>3, <2>1, <2>2, SumZero
<1>5. AskedRisk(b) = AskedRisk(book)
  <2>1. Open(b) \cap By(b, "asked") = A
    BY <1>1 DEF Open, By, Ungated
  <2>2. AskedRisk(b) = SumFunctionOnSet(g, A) /\ AskedRisk(book) = SumFunctionOnSet(f, A)
    BY <2>1 DEF AskedRisk, RiskIn
  <2>3. \A i \in A : g[i] = f[i]
    BY <1>1
  <2> HIDE DEF A, f, g
  <2> QED BY <1>3, <2>2, <2>3, SumAlike
<1> QED BY <1>2, <1>4, <1>5

LEMMA LockinInt ==
    ASSUME NEW closed \in Nat, NEW pnl \in Int
    PROVE  Lockin(closed, pnl, Balance, Tier, TradeTarget) \in Int
<1> DEFINE most  == RiskLimits(Balance, Tier).dailyTargetMax
           least == RiskLimits(Balance, Tier).dailyTargetMin
           progress == Min({TradeTarget, closed})
<1>1. TierScale(Tier) \in Nat /\ Balance \in Nat
  BY TradingAssumption DEF TierScale
<1>2. /\ most = (Balance * 60 * TierScale(Tier)) \div 60000
      /\ least = (Balance * 30 * TierScale(Tier)) \div 60000
  BY DEF RiskLimits, LimitPct
<1>3. most \in Int /\ least \in Int
  <2> HIDE DEF most, least
  <2> QED BY <1>1, <1>2
<1>4. TradeTarget \in Nat \ {0} /\ progress \in Nat
  BY ScoresAssumption, MinPair
<1>5. (500 * progress) \div TradeTarget \in Int /\ (250 * progress) \div TradeTarget \in Int
  <2> HIDE DEF progress
  <2> QED BY <1>4
<1>6. pnl >= most \/ (pnl < most /\ pnl >= least) \/ pnl < least
  <2> HIDE DEF most, least
  <2> QED BY <1>3
<1>7. Lockin(closed, pnl, Balance, Tier, TradeTarget)
        \in {0, 1000 - (500 * progress) \div TradeTarget, 1000 - (250 * progress) \div TradeTarget}
  BY <1>6 DEF Lockin
<1> HIDE DEF progress
<1> QED BY <1>5, <1>7

-----------------------------------------------------------------------------
(* The theorems.                                                            *)

LEMMA LossStart == Init => LossInv
<1> SUFFICES ASSUME Init
             PROVE  LossInv
  OBVIOUS
<1>1. DOMAIN book = {} /\ record \in Seq(Results)
  BY DEF Init
<1>2. IsBook(book)
  BY <1>1 DEF IsBook, Init
<1>3. DayPnl(book) = 0
  BY <1>1, SumEmpty DEF DayPnl, SumFunction
<1>4. Open(book) = {} /\ Ungated(book) = {} /\ By(book, "asked") = {}
  BY <1>1 DEF Open, By, Ungated
<1>5. \A f : SumFunctionOnSet(f, {}) = 0
  BY SumEmpty
<1>6. OpenRisk(book) = RiskIn(book, Open(book))
  BY <1>2, SumsOfBook
<1>7. OpenRisk(book) = 0 /\ UngatedRisk(book) = 0 /\ AskedRisk(book) = 0
  BY <1>4, <1>5, <1>6 DEF UngatedRisk, AskedRisk, RiskIn
<1> QED BY <1>1, <1>2, <1>3, <1>7, CapInt DEF LossInv, BookOK

LEMMA LossStep == LossInv /\ [Next]_vars => LossInv'
<1> SUFFICES ASSUME LossInv, [Next]_vars
             PROVE  LossInv'
  OBVIOUS
<1> DEFINE Lost(b) == DayPnl(b) - OpenRisk(b) > -2 * Cap - UngatedRisk(b)
<1>1. /\ IsBook(book) /\ record \in Seq(Results) /\ Lost(book) /\ AskedRisk(book) <= Cap
      /\ DayPnl(book) \in Int /\ OpenRisk(book) \in Nat /\ AskedRisk(book) \in Nat
      /\ UngatedRisk(book) \in Nat /\ AskedRisk(book) <= OpenRisk(book)
      /\ Cap \in Nat /\ Cap > 0
  BY SumsOfBook, CapInt DEF LossInv, BookOK
<1>2. ASSUME NEW b, b = book', IsBook(b), Lost(b), AskedRisk(b) <= Cap, record' \in Seq(Results)
      PROVE  LossInv'
  BY <1>2 DEF LossInv, BookOK, Lost
<1>3. ASSUME NEW new \in Trades, NEW s \in Setups, NEW hvn \in Nodes, NEW fleet \in BOOLEAN,
             NEW known \in Known, ScanCard(new, s, hvn, fleet, known)
      PROVE  LossInv'
  <2>1. PICK b : b = book'
    OBVIOUS
  <2>2. PICK card : card = CardOf(s)
    OBVIOUS
  <2>3. /\ new \notin DOMAIN book /\ Tradeable(card) /\ record' = record
        /\ b = Opened(new, "card", card.side, card.lot, card.entry, card.risk)
    BY <1>3, <2>1, <2>2 DEF ScanCard
  <2>4. /\ card.side \in {"long", "short"} /\ card.lot \in Nat /\ card.entry \in Nat
        /\ card.risk \in Nat
    BY <2>2, <2>3, CardOfSetup
  <2>5. IsBook(b)
    <3>1. PICK by \in {"card", "asked", "blind"}, side \in {"long", "short"},
               lot \in Nat, entry \in Nat, risk \in Nat :
             /\ by = "card" /\ side = card.side /\ lot = card.lot
             /\ entry = card.entry /\ risk = card.risk
      BY <2>4
    <3>2. b = Opened(new, by, side, lot, entry, risk)
      BY <2>3, <3>1
    <3>3. new \notin DOMAIN book /\ IsBook(book)
      BY <1>1, <2>3
    <3> QED BY <3>2, <3>3, OpenedTrade
  <2>6. /\ DayPnl(b) = DayPnl(book) /\ OpenRisk(b) = OpenRisk(book) + card.risk
        /\ AskedRisk(b) = AskedRisk(book) /\ UngatedRisk(b) = UngatedRisk(book) + card.risk
    <3>1. PICK by \in {"card", "asked", "blind"}, side \in {"long", "short"},
               lot \in Nat, entry \in Nat, risk \in Nat :
             /\ by = "card" /\ side = card.side /\ lot = card.lot
             /\ entry = card.entry /\ risk = card.risk
      BY <2>4
    <3>2. b = Opened(new, by, side, lot, entry, risk)
      BY <2>3, <3>1
    <3>3. new \notin DOMAIN book /\ IsBook(book)
      BY <1>1, <2>3
    <3>4. /\ DayPnl(b) = DayPnl(book)
          /\ OpenRisk(b) = OpenRisk(book) + risk
          /\ by # "asked" => /\ AskedRisk(b) = AskedRisk(book)
                           /\ UngatedRisk(b) = UngatedRisk(book) + risk
      BY <3>2, <3>3, OpenedSums
    <3> QED BY <3>1, <3>4
  <2> QED BY <1>1, <1>2, <2>1, <2>3, <2>4, <2>5, <2>6
<1>4. ASSUME NEW new \in Trades, NEW proposed \in Asks, NEW closed \in {0, TradeTarget},
             NEW pnl \in {0, DayPnl(book)}, NEW open \in {0, OpenRisk(book)},
             OperatorAsks(new, proposed, closed, pnl, open)
      PROVE  LossInv'
  <2> DEFINE scale == Lockin(closed, pnl, Balance, Tier, TradeTarget)
             given == pnl = DayPnl(book) /\ open = OpenRisk(book)
  <2>1. PICK b : b = book'
    OBVIOUS
  <2>2. PICK risk : risk = (proposed * scale) \div 1000
    OBVIOUS
  <2>3. /\ new \notin DOMAIN book /\ risk > 0 /\ record' = record
        /\ EvaluateTrade(Balance, risk, pnl, open, Tier)
        /\ b = Opened(new, IF given THEN "asked" ELSE "blind", "long", 0, 0, risk)
    BY <1>4, <2>1, <2>2 DEF OperatorAsks
  <2>4. risk \in Nat
    <3>1. scale \in Int /\ proposed \in Nat
      <4>1. closed \in Nat /\ pnl \in Int
        BY <1>1, ScoresAssumption
      <4> QED BY <4>1, LockinInt, TradingAssumption
    <3>2. proposed * scale \in Int
      <4> HIDE DEF scale
      <4> QED BY <3>1
    <3>3. (proposed * scale) \div 1000 \in Int
      <4> HIDE DEF scale
      <4> QED BY <3>2
    <3> QED BY <2>2, <2>3, <3>3
  <2>5. given => DayPnl(book) > -Cap /\ OpenRisk(book) + risk <= Cap
    BY <2>3 DEF EvaluateTrade, Cap
  <2>6. PICK by \in {"card", "asked", "blind"}, side \in {"long", "short"}, lot \in Nat, entry \in Nat :
           /\ by = IF given THEN "asked" ELSE "blind"
           /\ b = Opened(new, by, side, lot, entry, risk)
    <3>1. PICK by \in {"card", "asked", "blind"}, side \in {"long", "short"}, lot \in Nat, entry \in Nat :
             by = (IF given THEN "asked" ELSE "blind") /\ side = "long" /\ lot = 0 /\ entry = 0
      <4> HIDE DEF given
      <4> QED OBVIOUS
    <3>2. b = Opened(new, by, side, lot, entry, risk)
      BY <2>3, <3>1
    <3> QED BY <3>1, <3>2
  <2> HIDE DEF given
  <2>0. new \notin DOMAIN book /\ IsBook(book)
    BY <1>1, <2>3
  <2>7. IsBook(b)
    BY <2>0, <2>4, <2>6, OpenedTrade
  <2>8. /\ DayPnl(b) = DayPnl(book) /\ OpenRisk(b) = OpenRisk(book) + risk
        /\ by = "asked" => AskedRisk(b) = AskedRisk(book) + risk /\ UngatedRisk(b) = UngatedRisk(book)
        /\ by # "asked" => AskedRisk(b) = AskedRisk(book) /\ UngatedRisk(b) = UngatedRisk(book) + risk
    BY <2>0, <2>4, <2>6, OpenedSums
  <2>9. by = "asked" \/ by # "asked"
    OBVIOUS
  <2>10. CASE by = "asked"
    <3>1. given
      BY <2>6, <2>10
    <3> QED BY <1>1, <1>2, <2>1, <2>3, <2>4, <2>5, <2>7, <2>8, <2>10, <3>1
  <2>11. CASE by # "asked"
    BY <1>1, <1>2, <2>1, <2>3, <2>4, <2>7, <2>8, <2>11
  <2> QED BY <2>10, <2>11
<1>5. ASSUME NEW i \in DOMAIN book, CloseTrade(i)
      PROVE  LossInv'
  <2>1. PICK b : b = book'
    OBVIOUS
  <2>2. PICK multiple \in {-1, 2} :
           book' = [book EXCEPT ![i].closed = TRUE, ![i].pnl = multiple * book[i].risk]
    BY <1>5 DEF CloseTrade
  <2>3. ~book[i].closed /\ record' = record
    BY <1>5 DEF CloseTrade
  <2>4. PICK p : p = multiple * book[i].risk
    OBVIOUS
  <2>5. book[i].risk \in Nat
    BY <1>1 DEF IsBook, Trade
  <2>6. p \in Int /\ p >= -book[i].risk
    BY <2>4, <2>5
  <2>7. /\ IsBook(b) /\ DayPnl(b) = DayPnl(book) + p
        /\ OpenRisk(b) = OpenRisk(book) - book[i].risk
        /\ AskedRisk(b) <= AskedRisk(book) /\ UngatedRisk(b) = UngatedRisk(book)
    BY <1>1, <2>1, <2>2, <2>3, <2>4, <2>6, ClosedSums
  <2>8. AskedRisk(b) \in Nat
    BY <2>7, SumsOfBook
  <2> QED BY <1>1, <1>2, <2>1, <2>3, <2>5, <2>6, <2>7, <2>8, SMTT(40)
<1>6. ASSUME NEW t \in Results, UsdTradeCloses(t)
      PROVE  LossInv'
  <2>1. PICK b : b = book'
    OBVIOUS
  <2>2. b = book /\ record' \in Seq(Results)
    BY <1>1, <1>6, <2>1 DEF UsdTradeCloses
  <2> QED BY <1>1, <1>2, <2>1, <2>2
<1>7. CASE DayTurns
  <2>1. PICK b : b = book'
    OBVIOUS
  <2>2. b = [i \in Open(book) |-> [book[i] EXCEPT !.fresh = FALSE]] /\ record' = record
    BY <1>7, <2>1 DEF DayTurns
  <2>3. IsBook(b) /\ DayPnl(b) = 0 /\ AskedRisk(b) = AskedRisk(book)
    BY <1>1, <2>2, TurnedSums
  <2>4. /\ OpenRisk(b) \in Nat /\ UngatedRisk(b) \in Nat
        /\ OpenRisk(b) <= AskedRisk(b) + UngatedRisk(b)
    BY <2>3, SumsOfBook
  <2> QED BY <1>1, <1>2, <2>1, <2>2, <2>3, <2>4, SMTT(40)
<1>8. CASE UNCHANGED vars
  <2>1. PICK b : b = book'
    OBVIOUS
  <2>2. b = book /\ record' = record
    BY <1>8, <2>1 DEF vars
  <2> QED BY <1>1, <1>2, <2>1, <2>2
<1> QED BY <1>3, <1>4, <1>5, <1>6, <1>7, <1>8 DEF Next

\* evaluate_trade and open_from_signal: whatever is asked, scanned and closed in a day,
\* and over however many days trades stay open, the open risk is held under the cap and
\* the day's loss with it under two, but for the cards and for what was asked with a
\* figure of the day left out.
THEOREM DayLossIsBounded == Spec => []DayLossBounded
<1>1. LossInv => DayLossBounded
  <2> SUFFICES ASSUME LossInv
               PROVE  DayLossBounded
    OBVIOUS
  <2> DEFINE f == [i \in DOMAIN book |-> book[i].risk]
  <2>1. ASSUME NEW S, S \subseteq DOMAIN book
        PROVE  SumFunction([i \in S |-> book[i].risk]) = RiskIn(book, S)
    <3> DEFINE e == [i \in S |-> book[i].risk]
    <3>1. SumFunction(e) = SumFunctionOnSet(e, S) /\ RiskIn(book, S) = SumFunctionOnSet(f, S)
      BY DEF RiskIn, SumFunction
    <3>2. IsFiniteSet(S) /\ \A i \in S : e[i] = f[i]
      BY <2>1, BookFinite DEF LossInv, BookOK
    <3> HIDE DEF e, f
    <3>3. SumFunction(e) = RiskIn(book, S)
      BY <3>1, <3>2, SumAlike
    <3> QED BY <3>3 DEF e
  <2> DEFINE U == {i \in DOMAIN book : book[i].by # "asked"}
  <2>2. U = Ungated(book) /\ U \cap Open(book) = Open(book) \cap Ungated(book)
    BY DEF Ungated
  <2>3. /\ SumFunction([i \in U |-> book[i].risk]) = UngatedRisk(book)
        /\ SumFunction([i \in U \cap Open(book) |-> book[i].risk])
             = RiskIn(book, Open(book) \cap Ungated(book))
    BY <2>1, <2>2 DEF UngatedRisk
  <2>4. OpenRisk(book) <= Cap + RiskIn(book, Open(book) \cap Ungated(book))
    BY SumsOfBook, CapInt DEF LossInv, BookOK
  <2> QED BY <2>3, <2>4 DEF LossInv, DayLossBounded, Cap
<1> QED BY <1>1, LossStart, LossStep, PTL DEF Spec

-----------------------------------------------------------------------------
(* The VaR gate.  A card and its copies are on one side of the market, so   *)
(* that the book with the card lies between the book without it and the     *)
(* book the gate looks at; and of two exposures on one side of zero the     *)
(* larger has the larger value at risk.                                     *)

LEMMA ShareGrows ==
    ASSUME NEW m \in Nat, NEW n \in Nat, m <= n, NEW k \in Nat
    PROVE  /\ (m * k) \div 100 \in Nat /\ (n * k) \div 100 \in Nat
           /\ (m * k) \div 100 <= (n * k) \div 100
<1>1. m * k \in Nat /\ n * k \in Nat /\ m * k <= n * k
  <2>1. k * m <= k * n
    BY TimesMonotone
  <2> QED BY <2>1
<1>2. \A x, y \in Nat : x <= y => x \div 100 \in Nat /\ y \div 100 \in Nat /\ x \div 100 <= y \div 100
  OBVIOUS
<1> QED BY <1>1, <1>2

LEMMA EstimateGrows ==
    ASSUME NEW m \in Int, NEW n \in Int, (0 < m /\ m <= n) \/ (m <= 0 /\ n <= m),
           NEW kind \in {"parametric", "historical"}
    PROVE  /\ Estimate(kind, m, Rates) \in Nat /\ Estimate(kind, n, Rates) \in Nat
           /\ Estimate(kind, m, Rates) <= Estimate(kind, n, Rates)
<1> DEFINE a == Max({m, -m})
           b == Max({n, -n})
<1>1. PICK rate \in Nat : /\ Estimate(kind, m, Rates) = (a * rate) \div 100
                          /\ Estimate(kind, n, Rates) = (b * rate) \div 100
  <2> HIDE DEF a, b
  <2>1. CASE kind = "parametric"
    <3>1. Rates.parametric \in Nat
      BY TradingAssumption
    <3>2. /\ Estimate(kind, m, Rates) = (a * Rates.parametric) \div 100
          /\ Estimate(kind, n, Rates) = (b * Rates.parametric) \div 100
      BY <2>1 DEF Estimate, a, b
    <3> QED BY <3>1, <3>2
  <2>2. CASE kind = "historical"
    <3> DEFINE tail == IF m > 0 THEN Rates.fall ELSE Rates.rise
               last == IF n > 0 THEN Rates.fall ELSE Rates.rise
    <3>1. tail \in Nat /\ tail = last
      BY TradingAssumption
    <3>2. /\ Estimate(kind, m, Rates) = (a * tail) \div 100
          /\ Estimate(kind, n, Rates) = (b * last) \div 100
      BY <2>2 DEF Estimate, a, b
    <3> HIDE DEF tail, last
    <3> QED BY <3>1, <3>2
  <2> QED BY <2>1, <2>2
<1>2. a \in Nat /\ b \in Nat /\ a <= b
  BY MaxPair
<1> HIDE DEF a, b
<1> QED BY <1>1, <1>2, ShareGrows

LEMMA VarGrows ==
    ASSUME NEW m \in Int, NEW n \in Int, (0 < m /\ m <= n) \/ (m <= 0 /\ n <= m),
           NEW known \in Known, known # {}
    PROVE  /\ PortfolioVar(m, Rates, known) \in Nat /\ PortfolioVar(n, Rates, known) \in Nat
           /\ PortfolioVar(m, Rates, known) <= PortfolioVar(n, Rates, known)
<1>1. PICK k \in {"parametric", "historical"}, l \in {"parametric", "historical"} : known = {k, l}
  <2>1. known \subseteq {"parametric", "historical"}
    BY TradingAssumption
  <2>2. CASE "parametric" \notin known
    <3>1. known = {"historical", "historical"}
      BY <2>1, <2>2
    <3> QED BY <3>1
  <2>3. CASE "historical" \notin known
    <3>1. known = {"parametric", "parametric"}
      BY <2>1, <2>3
    <3> QED BY <3>1
  <2>4. CASE "parametric" \in known /\ "historical" \in known
    <3>1. known = {"parametric", "historical"}
      BY <2>1, <2>4
    <3> QED BY <3>1
  <2> QED BY <2>2, <2>3, <2>4
<1>2. PICK w \in Nat, x \in Nat, y \in Nat, z \in Nat :
         /\ w = Estimate(k, m, Rates) /\ x = Estimate(l, m, Rates)
         /\ y = Estimate(k, n, Rates) /\ z = Estimate(l, n, Rates)
         /\ w <= y /\ x <= z
  BY EstimateGrows
<1>3. /\ {Estimate(kind, m, Rates) : kind \in known} = {w, x}
      /\ {Estimate(kind, n, Rates) : kind \in known} = {y, z}
  BY <1>1, <1>2
<1>4. PortfolioVar(m, Rates, known) = Max({w, x}) /\ PortfolioVar(n, Rates, known) = Max({y, z})
  BY <1>3 DEF PortfolioVar
<1> QED BY <1>2, <1>4, MaxPair

LEMMA VarNat ==
    ASSUME NEW n \in Int, NEW known \in Known, known # {}
    PROVE  PortfolioVar(n, Rates, known) \in Nat
BY VarGrows

LEMMA VarBetween ==
    ASSUME NEW m \in Int, NEW n \in Int, NEW g \in Int, NEW known \in Known, known # {},
           (n <= m /\ m <= g) \/ (g <= m /\ m <= n)
    PROVE  \/ PortfolioVar(m, Rates, known) <= PortfolioVar(g, Rates, known)
           \/ PortfolioVar(m, Rates, known) <= PortfolioVar(n, Rates, known)
BY VarGrows

LEMMA ExposureOf ==
    ASSUME NEW side \in {"long", "short"}, NEW lot \in Nat, NEW price \in Nat
    PROVE  /\ side = "long" => Sign(side) * lot * price \in Nat
           /\ side = "short" => -(Sign(side) * lot * price) \in Nat
           /\ Sign(side) * lot * price \in Int
<1>1. lot * price \in Nat
  OBVIOUS
<1>2. CASE side = "long"
  <2>1. Sign(side) * lot * price = lot * price
    BY <1>2 DEF Sign
  <2> QED BY <1>1, <1>2, <2>1
<1>3. CASE side = "short"
  <2>1. Sign(side) * lot * price = -(lot * price)
    BY <1>3 DEF Sign
  <2> QED BY <1>1, <1>3, <2>1
<1> QED BY <1>2, <1>3

LEMMA NetOfBook ==
    ASSUME NEW b, IsBook(b)
    PROVE  NetExposure(Tracked(b)) \in Int
<1> DEFINE S == {i \in Open(b) : b[i].by = "card"}
           f == [i \in S |-> Exposure(b[i])]
<1>1. S \subseteq DOMAIN b /\ IsFiniteSet(S)
  BY BookFinite DEF Open
<1>2. \A i \in S : f[i] \in Int
  <2> SUFFICES ASSUME NEW i \in S PROVE f[i] \in Int
    OBVIOUS
  <2>1. b[i].side \in {"long", "short"} /\ b[i].lot \in Nat /\ b[i].price \in Nat
    BY <1>1 DEF IsBook, Trade
  <2> QED BY <2>1, ExposureOf DEF Exposure
<1>3. NetExposure(Tracked(b)) = SumFunctionOnSet(f, S)
  BY DEF NetExposure, Tracked, Restrict, SumFunction
<1> HIDE DEF S, f
<1> QED BY <1>1, <1>2, <1>3, SumInt

LEMMA NetGrows ==
    ASSUME IsBook(book), NEW new \in Trades, new \notin DOMAIN book,
           NEW side \in {"long", "short"}, NEW lot \in Nat, NEW price \in Nat,
           NEW risk \in Nat, NEW b, b = Opened(new, "card", side, lot, price, risk)
    PROVE  NetExposure(Tracked(b)) = NetExposure(Tracked(book)) + Sign(side) * lot * price
<1> DEFINE S == {i \in Open(book) : book[i].by = "card"}
           f == [i \in S |-> Exposure(book[i])]
           g == [i \in S \cup {new} |-> Exposure(b[i])]
<1>1. /\ DOMAIN b = DOMAIN book \cup {new} /\ \A i \in DOMAIN book : b[i] = book[i]
      /\ b[new].by = "card" /\ b[new].closed = FALSE
      /\ b[new].side = side /\ b[new].lot = lot /\ b[new].price = price
  BY DEF Opened
<1>2. S \subseteq DOMAIN book /\ IsFiniteSet(S) /\ new \notin S
  BY BookFinite DEF Open
<1>3. {i \in Open(b) : b[i].by = "card"} = S \cup {new}
  BY <1>1 DEF Open
<1>4. NetExposure(Tracked(book)) = SumFunctionOnSet(f, S)
  BY DEF NetExposure, Tracked, Restrict, SumFunction
<1>5. NetExposure(Tracked(b)) = SumFunctionOnSet(g, S \cup {new})
  BY <1>3 DEF NetExposure, Tracked, Restrict, SumFunction
<1>6. \A i \in S : f[i] \in Int
  <2> SUFFICES ASSUME NEW i \in S PROVE f[i] \in Int
    OBVIOUS
  <2>1. book[i].side \in {"long", "short"} /\ book[i].lot \in Nat /\ book[i].price \in Nat
    BY <1>2 DEF IsBook, Trade
  <2> QED BY <2>1, ExposureOf DEF Exposure
<1>7. \A i \in S : g[i] = f[i]
  BY <1>1, <1>2
<1>8. g[new] = Sign(side) * lot * price /\ g[new] \in Int
  BY <1>1, ExposureOf DEF Exposure
<1>9. \A i \in S \cup {new} : g[i] \in Int
  BY <1>6, <1>7, <1>8
<1> HIDE DEF S, f, g
<1>10. SumFunctionOnSet(g, S \cup {new}) = g[new] + SumFunctionOnSet(g, S)
  BY <1>2, <1>9, SumAdd
<1>11. SumFunctionOnSet(g, S) = SumFunctionOnSet(f, S)
  BY <1>2, <1>7, SumAlike
<1>12. SumFunctionOnSet(f, S) \in Int
  BY <1>2, <1>6, SumInt
<1> QED BY <1>4, <1>5, <1>8, <1>10, <1>11, <1>12

LEMMA FleetLots ==
    ASSUME NEW s \in Setups, NEW card, card = CardOf(s), Tradeable(card),
           NEW copies, copies = BuildFleetOrders(card, Accounts)
    PROVE  /\ DOMAIN copies = 1..Len(Accounts) /\ Len(Accounts) \in Nat
           /\ \A i \in DOMAIN copies :
                 /\ copies[i] = [role |-> <<"single">>, lot |-> copies[i].lot, sl |-> card.stop,
                                tp |-> FirstTp(card), trails |-> FALSE, account |-> Accounts[i].id]
                 /\ copies[i].lot \in Nat \ {0}
                 /\ copies[i].lot <= LotLadder(Accounts[i].balance).max
<1> DEFINE fan == CopyFanout(card.entry, card.stop, Accounts)
           want(i) == SizeForRisk(card.entry, card.stop, (Accounts[i].balance * Accounts[i].riskPct) \div 100)
           max(i) == LotLadder(Accounts[i].balance).max
<1>1. /\ Len(Accounts) \in Nat /\ DOMAIN Accounts = 1..Len(Accounts)
      /\ \A i \in DOMAIN Accounts : Accounts[i].balance \in Nat /\ Accounts[i].riskPct \in Nat
  <2>1. Accounts \in Seq([id : STRING, balance : Nat, riskPct : Nat])
    BY TradingAssumption
  <2>2. Len(Accounts) \in Nat /\ DOMAIN Accounts = 1..Len(Accounts)
    BY <2>1
  <2>3. \A i \in 1..Len(Accounts) : Accounts[i] \in [id : STRING, balance : Nat, riskPct : Nat]
    BY <2>1, ElementOfSeq
  <2> QED BY <2>2, <2>3
<1>2. card.entry \in Nat /\ card.stop \in Nat
  BY CardOfSetup
<1>3. /\ DOMAIN fan = DOMAIN Accounts
      /\ \A i \in DOMAIN Accounts : /\ fan[i].lot = Max({1, Min({want(i), max(i)})})
                                    /\ fan[i].account = Accounts[i].id
  BY DEF CopyFanout
<1>4. copies = [i \in DOMAIN fan |->
                 [LegOf(card, <<"single">>, fan[i].lot, FirstTp(card)) EXCEPT !.account = fan[i].account]]
  BY DEF BuildFleetOrders
<1>5. ASSUME NEW i \in DOMAIN Accounts
      PROVE  fan[i].lot \in Nat \ {0} /\ fan[i].lot <= max(i)
  <2>1. (Accounts[i].balance * Accounts[i].riskPct) \div 100 \in Nat
    <3>1. \A x, y \in Nat : (x * y) \div 100 \in Nat
      <4>1. \A x, y \in Nat : x * y \in Nat
        OBVIOUS
      <4>2. \A z \in Nat : z \div 100 \in Nat
        OBVIOUS
      <4> QED BY <4>1, <4>2
    <3>2. PICK x \in Nat, y \in Nat : x = Accounts[i].balance /\ y = Accounts[i].riskPct
      BY <1>1
    <3> QED BY <3>1, <3>2
  <2>2. want(i) \in Nat
    BY <1>2, <2>1, SizeNat
  <2>3. max(i) \in Nat /\ max(i) >= 1
    <3>1. Accounts[i].balance \div 1250 \in Nat
      BY <1>1
    <3>2. max(i) = Max({1, Accounts[i].balance \div 1250})
      BY DEF LotLadder
    <3> QED BY <3>1, <3>2, MaxPair
  <2>4. fan[i].lot = Max({1, Min({want(i), max(i)})})
    BY <1>3
  <2> HIDE DEF want, max, fan
  <2>5. Min({want(i), max(i)}) \in Nat /\ Min({want(i), max(i)}) <= max(i)
    BY <2>2, <2>3, MinPair
  <2> QED BY <2>3, <2>4, <2>5, MaxPair, SMTT(40)
<1>6. \A i \in DOMAIN copies :
         copies[i] = [role |-> <<"single">>, lot |-> fan[i].lot, sl |-> card.stop,
                      tp |-> FirstTp(card), trails |-> FALSE, account |-> fan[i].account]
  <2>1. <<"single">> # <<"runner">>
    <3>1. <<"single">>[1] # <<"runner">>[1]
      OBVIOUS
    <3> QED BY <3>1
  <2> HIDE DEF fan
  <2> QED BY <1>4, <2>1 DEF LegOf
<1>7. DOMAIN copies = DOMAIN Accounts
  BY <1>3, <1>4
<1> HIDE DEF fan
<1>8. ASSUME NEW i \in DOMAIN copies
      PROVE  /\ copies[i] = [role |-> <<"single">>, lot |-> copies[i].lot, sl |-> card.stop,
                             tp |-> FirstTp(card), trails |-> FALSE, account |-> Accounts[i].id]
             /\ copies[i].lot \in Nat \ {0}
             /\ copies[i].lot <= LotLadder(Accounts[i].balance).max
  <2>1. copies[i].lot = fan[i].lot
    BY <1>6
  <2>2. fan[i].account = Accounts[i].id
    BY <1>3, <1>7
  <2> QED BY <1>5, <1>6, <1>7, <2>1, <2>2
<1> QED BY <1>1, <1>7, <1>8

LEMMA LossAlways == Spec => []LossInv
BY LossStart, LossStep, PTL DEF Spec

\* An order of a card that the gate lets through on an estimate leaves the tracked book within the
\* limit, or no further over it than it was.
LEMMA GateHolds ==
    ASSUME IsBook(book), NEW new \in Trades, new \notin DOMAIN book, NEW s \in Setups,
           NEW card, card = CardOf(s), Tradeable(card),
           NEW b, b = Opened(new, "card", card.side, card.lot, card.entry, card.risk),
           NEW known \in Known, known # {}, VarGate(b, card, known)
    PROVE  BookVar(b, known) <= VarLimit \/ BookVar(b, known) <= BookVar(book, known)
<1> DEFINE copies == BuildFleetOrders(card, Accounts)
           lots == SumFunction([i \in DOMAIN copies |-> copies[i].lot])
<1>1. PICK side \in {"long", "short"}, lot \in Nat, price \in Nat, risk \in Nat :
         side = card.side /\ lot = card.lot /\ price = card.entry /\ risk = card.risk
  BY CardOfSetup
<1>2. lots \in Nat
  <2> DEFINE f == [i \in DOMAIN copies |-> copies[i].lot]
  <2>1. PICK c : c = copies
    OBVIOUS
  <2>2. /\ DOMAIN c = 1..Len(Accounts) /\ Len(Accounts) \in Nat
        /\ \A i \in DOMAIN c : c[i].lot \in Nat \ {0}
    <3>1. c = BuildFleetOrders(card, Accounts)
      BY <2>1
    <3>2. DOMAIN c = 1..Len(Accounts) /\ Len(Accounts) \in Nat
      BY <3>1, FleetLots
    <3>3. \A i \in DOMAIN c : c[i].lot \in Nat \ {0}
      BY <3>1, FleetLots
    <3> QED BY <3>2, <3>3
  <2>3. IsFiniteSet(DOMAIN c)
    BY <2>2, FS_Interval
  <2>4. \A i \in DOMAIN c : f[i] \in Nat
    BY <2>1, <2>2
  <2>5. lots = SumFunctionOnSet(f, DOMAIN c)
    BY <2>1 DEF SumFunction
  <2> HIDE DEF copies, lots, f
  <2> QED BY <2>3, <2>4, <2>5, SumNat
<1>3. PICK size \in Nat : size = IF lots > 0 THEN lots ELSE card.lot
  <2> HIDE DEF lots
  <2> QED BY <1>1, <1>2
<1>4. PICK net \in Int, e \in Int, g \in Int :
         /\ net = NetExposure(Tracked(book))
         /\ e = Sign(side) * lot * price /\ g = Sign(side) * size * price
         /\ side = "long" => e >= 0 /\ g >= 0
         /\ side = "short" => e <= 0 /\ g <= 0
  <2>1. NetExposure(Tracked(book)) \in Int
    BY NetOfBook
  <2>2. /\ Sign(side) * lot * price \in Int /\ Sign(side) * size * price \in Int
        /\ side = "long" => Sign(side) * lot * price \in Nat /\ Sign(side) * size * price \in Nat
        /\ side = "short" => -(Sign(side) * lot * price) \in Nat /\ -(Sign(side) * size * price) \in Nat
    BY ExposureOf
  <2>3. PICK net \in Int, e \in Int, g \in Int :
           net = NetExposure(Tracked(book)) /\ e = Sign(side) * lot * price /\ g = Sign(side) * size * price
    BY <2>1, <2>2
  <2> QED BY <2>2, <2>3
<1>5. NetExposure(Tracked(b)) = net + e
  <2>1. b = Opened(new, "card", side, lot, price, risk)
    BY <1>1
  <2> QED BY <1>4, <2>1, NetGrows
<1>6. PortfolioVar(net + e + g, Rates, known) <= VarLimit
  <2> DEFINE order == [side |-> card.side, price |-> card.entry,
                       lot |-> IF lots > 0 THEN lots ELSE card.lot]
  <2>1. PortfolioVar(NetExposure(Tracked(b)) + Exposure(order), Rates, known) <= VarLimit
    BY DEF VarGate, RiskGate
  <2>2. Exposure(order) = g
    <3> HIDE DEF lots
    <3> QED BY <1>1, <1>3, <1>4 DEF Exposure
  <2> HIDE DEF order
  <2> QED BY <1>4, <1>5, <2>1, <2>2
<1>7. \/ PortfolioVar(net + e, Rates, known) <= PortfolioVar(net + e + g, Rates, known)
      \/ PortfolioVar(net + e, Rates, known) <= PortfolioVar(net, Rates, known)
  <2>1. (net <= net + e /\ net + e <= net + e + g) \/ (net + e + g <= net + e /\ net + e <= net)
    BY <1>1, <1>4
  <2>2. PICK m \in Int, n \in Int : m = net + e /\ n = net + e + g
    BY <1>4
  <2>3. (net <= m /\ m <= n) \/ (n <= m /\ m <= net)
    BY <2>1, <2>2
  <2>4. \/ PortfolioVar(m, Rates, known) <= PortfolioVar(n, Rates, known)
        \/ PortfolioVar(m, Rates, known) <= PortfolioVar(net, Rates, known)
    BY <2>3, VarBetween
  <2> QED BY <2>2, <2>4
<1>8. /\ PortfolioVar(net + e, Rates, known) \in Nat /\ PortfolioVar(net + e + g, Rates, known) \in Nat
  <2>1. net + e \in Int /\ net + e + g \in Int
    BY <1>4
  <2> QED BY <2>1, VarNat
<1> QED BY <1>4, <1>5, <1>6, <1>7, <1>8, TradingAssumption DEF BookVar

\* var_gate: an order that is sent on an estimate never leaves the tracked book over the
\* limit, unless it was further over it before: for any rates, limit, fleet, book and data.
THEOREM VarIsNeverPushedOver == Spec => VarNeverPushedOver
<1> DEFINE Kept(known) == \/ BookVar(book', known) <= VarLimit
                          \/ BookVar(book', known) <= BookVar(book, known)
<1>1. ASSUME LossInv, Next, sent' # NotSent, sent'.known # {}
      PROVE  Kept(sent'.known)
  <2>1. IsBook(book)
    BY <1>1 DEF LossInv, BookOK
  <2>2. PICK new \in Trades, s \in Setups, hvn \in Nodes, fleet \in BOOLEAN, known \in Known :
           ScanCard(new, s, hvn, fleet, known)
    BY <1>1 DEF Next, OperatorAsks, CloseTrade, UsdTradeCloses, DayTurns
  <2>3. PICK b, card : b = book' /\ card = CardOf(s)
    OBVIOUS
  <2>4. /\ new \notin DOMAIN book /\ Tradeable(card) /\ VarGate(b, card, known)
        /\ b = Opened(new, "card", card.side, card.lot, card.entry, card.risk)
        /\ sent' = [card |-> card, fleet |-> fleet, known |-> known,
                    orders |-> LiveOrders(card, hvn, fleet, Accounts)]
    BY <1>1, <2>2, <2>3 DEF ScanCard
  <2>5. sent'.known = known
    BY <2>4
  <2>6. known # {}
    BY <1>1, <2>5
  <2>7. BookVar(b, known) <= VarLimit \/ BookVar(b, known) <= BookVar(book, known)
    BY <2>1, <2>4, <2>6, <2>3, GateHolds
  <2> QED BY <2>3, <2>5, <2>7
<1>2. LossInv /\ [Next]_vars => [sent' # NotSent /\ sent'.known # {} => Kept(sent'.known)]_vars
  BY <1>1
<1> QED BY <1>2, LossAlways, PTL DEF Spec, VarNeverPushedOver

-----------------------------------------------------------------------------
(* Splitting a lot.  Rounding each share of a rest down leaves less than    *)
(* one step for each leg, and the legs that get one more make up for it.    *)

LEMMA Division ==
    ASSUME NEW x \in Nat, NEW y \in Nat \ {0}
    PROVE  /\ x \div y \in Nat /\ x % y \in Nat /\ x % y <= y - 1
           /\ x = (y * (x \div y)) + (x % y)
<1>1. x \div y \in Nat
  OBVIOUS
<1>2. x % y \in 0..(y - 1)
  OBVIOUS
<1>3. x = (y * (x \div y)) + (x % y)
  OBVIOUS
<1> QED BY <1>1, <1>2, <1>3

\* The shares of a rest by weight, each rounded down.
Shares(prop, rest, w, n) ==
    /\ n \in Nat \ {0} /\ rest \in Nat
    /\ \A i \in 1..n : w[i] \in Nat
    /\ SumFunctionOnSet(w, 1..n) > 0
    /\ \A i \in 1..n : prop[i] = (rest * w[i]) \div SumFunctionOnSet(w, 1..n)

LEMMA Apportioned ==
    ASSUME NEW n, NEW rest, NEW w, NEW prop, Shares(prop, rest, w, n)
    PROVE  /\ \A i \in 1..n : prop[i] \in Nat
           /\ SumFunctionOnSet(prop, 1..n) \in Nat
           /\ rest - SumFunctionOnSet(prop, 1..n) \in 0..(n - 1)
<1>1. /\ n \in Nat \ {0} /\ rest \in Nat
      /\ \A i \in 1..n : w[i] \in Nat
  BY DEF Shares
<1>2. PICK W \in Nat \ {0} : W = SumFunctionOnSet(w, 1..n)
  <2>1. IsFiniteSet(1..n)
    BY <1>1, FS_Interval
  <2>2. SumFunctionOnSet(w, 1..n) \in Nat
    BY <1>1, <2>1, SumNat
  <2> QED BY <2>2 DEF Shares
<1>3. \A i \in 1..n : prop[i] = (rest * w[i]) \div W
  BY <1>2 DEF Shares
<1>4. PICK P : P = SumFunctionOnSet(prop, 1..n)
  OBVIOUS
<1> USE <1>1, <1>3
<1> DEFINE over == [i \in 1..n |-> (rest * w[i]) % W]
           part == [i \in 1..n |-> W * prop[i]]
           all  == [i \in 1..n |-> rest * w[i]]
           R == SumFunctionOnSet(over, 1..n)
<1>5. IsFiniteSet(1..n) /\ Cardinality(1..n) = n
  BY FS_Interval
<1>6. \A x \in Nat : /\ x \div W \in Nat /\ x % W \in Nat /\ x % W <= W - 1
                    /\ x = (W * (x \div W)) + (x % W)
  BY Division
<1>7. \A i \in 1..n : rest * w[i] \in Nat
  <2>1. \A x, y \in Nat : x * y \in Nat
    OBVIOUS
  <2> QED BY <2>1
<1>8. \A i \in 1..n : /\ prop[i] \in Nat /\ over[i] \in Nat /\ over[i] <= W - 1
                     /\ all[i] = part[i] + over[i]
  BY <1>6, <1>7
<1>9. \A i \in 1..n : part[i] \in Int /\ part[i] = W * prop[i]
  <2>1. \A x \in Nat : W * x \in Int
    OBVIOUS
  <2> QED BY <1>8, <2>1
<1>10. SumFunctionOnSet(all, 1..n) = rest * W
  <2>1. \A i \in 1..n : w[i] \in Int /\ all[i] = rest * w[i]
    OBVIOUS
  <2> HIDE DEF all
  <2> QED BY <1>5, <1>2, <2>1, SumTimes
<1>11. P \in Nat /\ SumFunctionOnSet(part, 1..n) = W * P
  <2>1. \A i \in 1..n : prop[i] \in Int
    BY <1>8
  <2>2. P \in Nat
    BY <1>5, <1>8, <1>4, SumNat
  <2> HIDE DEF part
  <2>3. SumFunctionOnSet(part, 1..n) = W * SumFunctionOnSet(prop, 1..n)
    BY <1>5, <1>9, <2>1, SumTimes
  <2> QED BY <1>4, <2>2, <2>3
<1> HIDE DEF over, all, part
<1>12. R \in Nat
  BY <1>5, <1>8, SumNat
<1>13. R <= (W - 1) * n
  <2>1. PICK b \in Int : b = W - 1
    OBVIOUS
  <2>2. \A i \in 1..n : over[i] \in Int /\ over[i] <= b
    BY <1>8, <2>1
  <2> HIDE DEF R
  <2>3. R <= b * Cardinality(1..n)
    BY <1>5, <2>2, SumBound DEF R
  <2> QED BY <1>5, <2>1, <2>3
<1>14. rest * W = W * P + R
  <2>1. \A i \in 1..n : over[i] \in Int
    BY <1>8
  <2>2. SumFunctionOnSet(all, 1..n) = SumFunctionOnSet(part, 1..n) + R
    BY <1>5, <1>8, <1>9, <2>1, SumPlus
  <2> QED BY <1>10, <1>11, <2>2
<1> HIDE DEF R
<1>15. PICK left \in Int : left = rest - P
  BY <1>11
<1>16. W * left = R
  <2>1. W * (rest - P) = rest * W - W * P
    BY <1>11
  <2>2. rest * W \in Nat /\ W * P \in Nat
    BY <1>11
  <2> QED BY <1>12, <1>14, <1>15, <2>1, <2>2
<1>17. left >= 0
  <2> SUFFICES ASSUME left <= -1 PROVE FALSE
    BY <1>15
  <2>1. W * left <= W * (-1)
    BY <1>15, TimesMonotone
  <2> QED BY <1>12, <1>16, <2>1
<1>18. left < n
  <2> SUFFICES ASSUME n <= left PROVE FALSE
    BY <1>15
  <2>1. W * n <= W * left
    BY <1>15, TimesMonotone
  <2>2. (W - 1) * n = W * n - n
    OBVIOUS
  <2>3. W * n \in Nat
    OBVIOUS
  <2> QED BY <1>12, <1>13, <1>16, <2>1, <2>2, <2>3
<1> QED BY <1>8, <1>11, <1>4, <1>15, <1>17, <1>18

\* One step for every leg, its share, and one more for as many legs as are left over.
Lots(lots, prop, rest, n, M) ==
    /\ M \in SUBSET (1..n) /\ Cardinality(M) = rest - SumFunctionOnSet(prop, 1..n)
    /\ \A i \in 1..n : lots[i] = 1 + prop[i] + (IF i \in M THEN 1 ELSE 0)

LEMMA LegsAddUp ==
    ASSUME NEW n, NEW rest, NEW w, NEW prop, Shares(prop, rest, w, n),
           NEW M, NEW lots, Lots(lots, prop, rest, n, M)
    PROVE  /\ \A i \in 1..n : lots[i] \in Nat \ {0}
           /\ SumFunctionOnSet(lots, 1..n) = n + rest
<1>1. n \in Nat \ {0} /\ rest \in Nat
  BY DEF Shares
<1>2. \A i \in 1..n : prop[i] \in Nat
  BY Apportioned
<1>3. PICK P : P = SumFunctionOnSet(prop, 1..n)
  OBVIOUS
<1>4. /\ M \in SUBSET (1..n) /\ Cardinality(M) = rest - P
      /\ \A i \in 1..n : lots[i] = 1 + prop[i] + (IF i \in M THEN 1 ELSE 0)
  BY <1>3 DEF Lots
<1> USE <1>1, <1>2, <1>3, <1>4
<1> DEFINE one  == [i \in 1..n |-> 1]
           more == [i \in 1..n |-> IF i \in M THEN 1 ELSE 0]
           base == [i \in 1..n |-> 1 + prop[i]]
           X == (1..n) \ M
<1>5. /\ IsFiniteSet(1..n) /\ Cardinality(1..n) = n
      /\ IsFiniteSet(M) /\ IsFiniteSet(X) /\ Cardinality(M) \in Nat
  <2>1. IsFiniteSet(1..n) /\ Cardinality(1..n) = n
    BY FS_Interval
  <2>2. X \in SUBSET (1..n)
    OBVIOUS
  <2> HIDE DEF X
  <2>3. IsFiniteSet(M) /\ IsFiniteSet(X)
    BY <2>1, <2>2, FS_Subset
  <2> QED BY <2>1, <2>3, FS_CardinalityType
<1>6. SumFunctionOnSet(one, 1..n) = n
  <2>1. \A i \in 1..n : one[i] = 1
    OBVIOUS
  <2> HIDE DEF one
  <2>2. PICK c \in Int : c = 1
    OBVIOUS
  <2>3. SumFunctionOnSet(one, 1..n) = c * Cardinality(1..n)
    BY <1>5, <2>1, <2>2, SumConst
  <2> QED BY <1>5, <2>2, <2>3
<1>7. SumFunctionOnSet(more, 1..n) = Cardinality(M)
  <2>1. /\ \A i \in M : more[i] = 1
        /\ \A i \in X : more[i] = 0
        /\ \A i \in M \cup X : more[i] \in Int
    OBVIOUS
  <2>2. M \cup X = 1..n /\ M \cap X = {}
    OBVIOUS
  <2> HIDE DEF more, X
  <2>3. SumFunctionOnSet(more, M \cup X) = SumFunctionOnSet(more, M) + SumFunctionOnSet(more, X)
    BY <1>5, <2>1, <2>2, SumOfUnion
  <2>4. PICK c \in Int : c = 1
    OBVIOUS
  <2>5. SumFunctionOnSet(more, M) = c * Cardinality(M)
    BY <1>5, <2>1, <2>4, SumConst
  <2>6. SumFunctionOnSet(more, X) = 0
    BY <1>5, <2>1, SumZero
  <2>7. SumFunctionOnSet(more, M) = Cardinality(M)
    BY <1>5, <2>4, <2>5
  <2>8. SumFunctionOnSet(more, 1..n) = SumFunctionOnSet(more, M) + SumFunctionOnSet(more, X)
    BY <2>2, <2>3
  <2> QED BY <1>5, <2>6, <2>7, <2>8
<1>8. P \in Nat /\ SumFunctionOnSet(base, 1..n) = n + P
  <2>1. \A i \in 1..n : one[i] \in Int /\ prop[i] \in Int /\ base[i] = one[i] + prop[i]
    OBVIOUS
  <2>2. P \in Nat
    BY <1>5, SumNat
  <2> HIDE DEF one, base
  <2>3. SumFunctionOnSet(base, 1..n) = SumFunctionOnSet(one, 1..n) + SumFunctionOnSet(prop, 1..n)
    BY <1>5, <2>1, SumPlus
  <2> QED BY <1>6, <2>2, <2>3
<1>9. SumFunctionOnSet(lots, 1..n) = n + P + Cardinality(M)
  <2>1. \A i \in 1..n : base[i] \in Int /\ more[i] \in Int /\ lots[i] = base[i] + more[i]
    OBVIOUS
  <2> HIDE DEF base, more
  <2>2. SumFunctionOnSet(lots, 1..n) = SumFunctionOnSet(base, 1..n) + SumFunctionOnSet(more, 1..n)
    BY <1>5, <2>1, SumPlus
  <2> QED BY <1>7, <1>8, <2>2
<1>10. \A i \in 1..n : lots[i] \in Nat \ {0}
  OBVIOUS
<1> QED BY <1>5, <1>8, <1>9, <1>10

LEMMA LenOf ==
    ASSUME NEW n \in Nat, NEW S, NEW f \in [1..n -> S]
    PROVE  f \in Seq(S) /\ Len(f) = n /\ DOMAIN f = 1..n
<1>1. f \in Seq(S)
  BY SeqDef
<1>2. Len(f) \in Nat /\ DOMAIN f = 1..Len(f)
  BY <1>1, LenProperties
<1>3. 1..n = 1..Len(f)
  BY <1>2
<1>4. PICK k \in Nat : k = Len(f)
  BY <1>2
<1>5. n <= k /\ k <= n
  <2>1. 1..n = 1..k
    BY <1>3, <1>4
  <2>2. n >= 1 => n \in 1..k
    BY <2>1
  <2>3. k >= 1 => k \in 1..n
    BY <2>1
  <2> QED BY <2>2, <2>3
<1> QED BY <1>1, <1>2, <1>4, <1>5

\* n + ... + 1, and the weights of the ladder in that order.
LEMMA Triangle ==
    ASSUME NEW n \in Nat, NEW w, \A i \in 1..n : w[i] = n - i + 1
    PROVE  2 * SumFunctionOnSet(w, 1..n) = n * (n + 1)
<1> DEFINE S(k) == SumFunctionOnSet(w, (n - k + 1)..n)
           B == {k \in 0..n : ~(S(k) \in Int /\ 2 * S(k) = k * (k + 1))}
<1>1. ASSUME NEW k \in B, \A j \in B : k <= j
      PROVE  FALSE
  <2>1. k \in 0..n /\ ~(S(k) \in Int /\ 2 * S(k) = k * (k + 1))
    OBVIOUS
  <2>2. k # 0
    <3> SUFFICES ASSUME k = 0 PROVE FALSE
      OBVIOUS
    <3>1. (n - k + 1)..n = {}
      OBVIOUS
    <3>2. S(k) = 0
      BY <3>1, SumEmpty
    <3> HIDE DEF S
    <3> QED BY <2>1, <3>2
  <2>3. PICK j \in 0..n : j = k - 1
    BY <2>1, <2>2
  <2>4. S(j) \in Int /\ 2 * S(j) = j * (j + 1)
    <3>1. j \notin B
      <4> HIDE DEF B
      <4>1. ~(k <= j)
        BY <2>1, <2>3
      <4> QED BY <1>1, <4>1
    <3> QED BY <3>1
  <2>5. S(k) = k + S(j)
    <3>1. PICK x \in 1..n, R \in SUBSET (1..n) : x = n - k + 1 /\ R = (n - j + 1)..n
      BY <2>1, <2>2
    <3>2. (n - k + 1)..n = R \cup {x} /\ x \notin R /\ R \subseteq 1..n
      BY <2>1, <2>2, <2>3, <3>1
    <3>3. IsFiniteSet(R)
      BY <2>3, <3>1, FS_Interval
    <3>4. w[x] = k /\ \A y \in R \cup {x} : w[y] \in Int
      BY <2>1, <3>1, <3>2
    <3>5. SumFunctionOnSet(w, R \cup {x}) = w[x] + SumFunctionOnSet(w, R)
      BY <3>2, <3>3, <3>4, SumAdd
    <3> QED BY <3>1, <3>2, <3>4, <3>5
  <2> HIDE DEF S
  <2>6. k * (k + 1) = (2 * k) + (j * (j + 1))
    BY <2>3
  <2>7. S(k) \in Int /\ 2 * S(k) = (2 * k) + (2 * S(j))
    BY <2>1, <2>4, <2>5
  <2> QED BY <2>1, <2>4, <2>6, <2>7
<1>2. B = {}
  <2> SUFFICES ASSUME B # {} PROVE FALSE
    OBVIOUS
  <2>1. B \subseteq Nat
    OBVIOUS
  <2> HIDE DEF B
  <2>2. \E k \in B : \A j \in B : k <= j
    BY <2>1, LeastOf
  <2> QED BY <1>1, <2>2
<1>3. 2 * S(n) = n * (n + 1)
  <2>1. n \in 0..n
    OBVIOUS
  <2> HIDE DEF S
  <2> QED BY <1>2, <2>1
<1>4. (n - n + 1)..n = 1..n
  OBVIOUS
<1> QED BY <1>3, <1>4

\* All of a lot over the nearest targets, a step each at least.
Scaled(legs, total, tps, n) ==
    /\ n <= total /\ n <= Len(tps) /\ DOMAIN legs = 1..n /\ Len(legs) = n
    /\ \A i \in 1..n : legs[i].lot \in Nat \ {0} /\ legs[i].tp = tps[i]
    /\ SumFunction([i \in DOMAIN legs |-> legs[i].lot]) = total

\* plan_scale_out.
LEMMA ScaledOut ==
    ASSUME NEW total \in Nat \ {0}, NEW tps \in Seq(Nat), tps # <<>>,
           NEW legs, legs = PlanScaleOut(total, tps)
    PROVE  \E n \in Nat \ {0} : Scaled(legs, total, tps, n)
<1> DEFINE m    == Min({Len(tps), total})
           half == (m * (m + 1)) \div 2
           prop == [i \in 1..m |-> ((total - m) * (m - i + 1)) \div half]
           left == total - m - SumFunction(prop)
           lots == [i \in 1..m |-> 1 + prop[i] + (IF i <= left THEN 1 ELSE 0)]
<1>1. legs = [i \in 1..m |-> [lot |-> 1 + ((total - m) * (m - i + 1)) \div half
                                       + (IF i <= left THEN 1 ELSE 0), tp |-> tps[i]]]
  BY DEF PlanScaleOut
<1>2. DOMAIN legs = 1..m /\ \A i \in 1..m : legs[i].lot = lots[i] /\ legs[i].tp = tps[i]
  <2> HIDE DEF m, half, left
  <2> QED BY <1>1
<1>3. m \in Nat \ {0} /\ m <= total /\ m <= Len(tps)
  <2>1. Len(tps) \in Nat \ {0}
    BY EmptySeq
  <2> QED BY <2>1, MinPair
<1> HIDE DEF m
<1>4. PICK w : w = [i \in 1..m |-> m - i + 1]
  OBVIOUS
<1>5. PICK n \in Nat \ {0} : n = m
  BY <1>3
<1>6. PICK W : W = SumFunctionOnSet(w, 1..m)
  OBVIOUS
<1>7. IsFiniteSet(1..m) /\ Cardinality(1..m) = m /\ \A i \in 1..m : w[i] \in Nat /\ w[i] = m - i + 1
  BY <1>3, <1>4, FS_Interval
<1>8. W \in Nat \ {0} /\ W = half
  <2>1. 2 * W = m * (m + 1)
    BY <1>3, <1>6, <1>7, Triangle
  <2>2. W \in Nat
    BY <1>6, <1>7, SumNat
  <2>3. PICK x : x = m * (m + 1)
    OBVIOUS
  <2>4. x \in Nat /\ x > 0
    BY <1>3, <2>3
  <2>5. 2 * W = x /\ half = x \div 2
    BY <2>1, <2>3
  <2> HIDE DEF half
  <2> QED BY <2>2, <2>4, <2>5
<1>9. PICK rest \in Nat : rest = total - m
  BY <1>3
<1>10. \A i \in 1..m : prop[i] = (rest * w[i]) \div W
  <2> HIDE DEF half
  <2> QED BY <1>7, <1>8, <1>9
<1>11. PICK P : P = SumFunctionOnSet(prop, 1..m)
  OBVIOUS
<1>12. left = rest - P
  <2>1. DOMAIN prop = 1..m
    OBVIOUS
  <2>2. SumFunction(prop) = P
    BY <1>11, <2>1 DEF SumFunction
  <2> HIDE DEF prop
  <2> QED BY <1>9, <2>2
<1> HIDE DEF prop, half
<1>13. PICK q : q = prop
  OBVIOUS
<1>14. Shares(q, rest, w, n)
  <2>1. /\ \A i \in 1..n : w[i] \in Nat
        /\ SumFunctionOnSet(w, 1..n) = W
        /\ \A i \in 1..n : q[i] = (rest * w[i]) \div W
    BY <1>6, <1>7, <1>10, <1>13, <1>5
  <2> QED BY <1>8, <2>1 DEF Shares
<1>15. P \in Nat /\ rest - P \in 0..(n - 1)
  <2>1. P = SumFunctionOnSet(q, 1..n)
    BY <1>11, <1>13, <1>5
  <2> QED BY <1>14, <2>1, Apportioned
<1>16. PICK M \in SUBSET (1..m) : M = 1..left
  <2> HIDE DEF left
  <2>1. left \in 0..(m - 1)
    BY <1>12, <1>15, <1>5
  <2> QED BY <1>3, <2>1
<1>17. Cardinality(M) = rest - P /\ \A i \in 1..m : i <= left <=> i \in M
  <2>1. left \in Nat
    BY <1>12, <1>15
  <2>2. Cardinality(M) = left
    <3> HIDE DEF left
    <3>1. PICK k \in Nat : k = left
      BY <2>1
    <3> QED BY <1>16, <3>1, FS_Interval
  <2>3. \A i \in 1..m : i <= left <=> i \in M
    <3> HIDE DEF left
    <3> QED BY <1>3, <1>16, <2>1
  <2> HIDE DEF left
  <2> QED BY <1>12, <2>2, <2>3
<1>18. PICK f : f = [i \in DOMAIN legs |-> legs[i].lot]
  OBVIOUS
<1>19. \A i \in 1..m : f[i] = 1 + q[i] + (IF i \in M THEN 1 ELSE 0)
  <2> HIDE DEF left
  <2> QED BY <1>2, <1>13, <1>17, <1>18
<1>20. /\ \A i \in 1..m : f[i] \in Nat \ {0}
       /\ SumFunctionOnSet(f, 1..m) = m + rest
  <2>1. Lots(f, q, rest, n, M)
    <3>1. P = SumFunctionOnSet(q, 1..n)
      BY <1>11, <1>13, <1>5
    <3> QED BY <1>17, <1>19, <1>5, <3>1 DEF Lots
  <2>2. /\ \A i \in 1..n : f[i] \in Nat \ {0}
        /\ SumFunctionOnSet(f, 1..n) = n + rest
    BY <1>14, <2>1, LegsAddUp
  <2> QED BY <1>5, <2>2
<1>21. SumFunction(f) = total
  <2>1. DOMAIN f = 1..m
    BY <1>2, <1>18
  <2> QED BY <1>3, <1>9, <1>20, <2>1 DEF SumFunction
<1>22. Len(legs) = m
  <2>1. PICK S : S = {legs[i] : i \in 1..m}
    OBVIOUS
  <2>2. legs \in [1..m -> S]
    BY <1>1, <1>2, <2>1
  <2> QED BY <1>3, <2>2, LenOf
<1>23. Scaled(legs, total, tps, m)
  BY <1>2, <1>3, <1>18, <1>20, <1>21, <1>22 DEF Scaled
<1> QED BY <1>3, <1>23

\* _lot_fractions: all of the lot, a step each at least, in two legs at least when the
\* lot is more than one step.
LEMMA Fractioned ==
    ASSUME NEW total \in Nat \ {0}, NEW lots, lots = LotFractions(total)
    PROVE  \E n \in Nat \ {0} :
              /\ n <= total /\ n <= Len(Partials) + 1 /\ (n = 1 => total = 1)
              /\ DOMAIN lots = 1..n /\ Len(lots) = n
              /\ \A i \in 1..n : lots[i] \in Nat \ {0}
              /\ SumFunctionOnSet(lots, 1..n) = total
<1> DEFINE last    == Max({0, 100 - SumFunction(Fractions)})
           weights == Append(Fractions, last)
           m       == Min({Len(weights), total})
           cut     == SubSeq(weights, 1, m)
           prop    == [i \in 1..m |-> ((total - m) * cut[i]) \div Max({1, SumFunction(cut)})]
           left    == total - m - SumFunction(prop)
<1>1. lots = [i \in 1..m |-> 1 + ((total - m) * cut[i]) \div Max({1, SumFunction(cut)})
                               + (IF m - i < left THEN 1 ELSE 0)]
  BY DEF LotFractions
<1>2. DOMAIN lots = 1..m /\ \A i \in 1..m : lots[i] = 1 + prop[i] + (IF m - i < left THEN 1 ELSE 0)
  <2> HIDE DEF m, cut, left
  <2> QED BY <1>1
<1>3. PICK b \in Nat \ {0} : b = Len(Fractions) /\ b = Len(Partials)
  <2>1. Len(Partials) \in Nat \ {0}
    BY PartialsAssumption, EmptySeq
  <2> QED BY <2>1, PartialsAssumption
<1>4. last \in Nat
  <2>1. DOMAIN Fractions = 1..b /\ \A i \in 1..b : Fractions[i] \in Nat
    BY <1>3, PartialsAssumption, LenProperties
  <2>2. SumFunctionOnSet(Fractions, 1..b) \in Nat
    <3>1. PICK F : F = Fractions
      OBVIOUS
    <3>2. IsFiniteSet(1..b)
      BY FS_Interval
    <3>3. \A i \in 1..b : F[i] \in Nat
      BY <2>1, <3>1
    <3>4. SumFunctionOnSet(F, 1..b) \in Nat
      BY <3>2, <3>3, SumNat
    <3> QED BY <3>1, <3>4
  <2>3. SumFunction(Fractions) \in Nat
    BY <2>1, <2>2 DEF SumFunction
  <2>4. PICK k \in Int : k = 100 - SumFunction(Fractions)
    BY <2>3
  <2>5. last = Max({0, k})
    BY <2>4
  <2> HIDE DEF last
  <2> QED BY <2>5, MaxPair
<1> HIDE DEF last
<1>5. /\ weights \in Seq(Nat) /\ Len(weights) = b + 1
      /\ \A i \in 1..b : weights[i] = Fractions[i]
  BY <1>3, <1>4, PartialsAssumption, AppendProperties
<1>6. Fractions[1] \in Nat /\ Fractions[1] >= 1
  <2>1. 1 \in 1..Len(Fractions)
    BY <1>3
  <2>2. Fractions[1] \in Nat \ {0}
    BY <2>1, PartialsAssumption, ElementOfSeq
  <2> QED BY <2>2
<1>7. PICK n \in Nat \ {0} : /\ n = m /\ n <= total /\ n <= b + 1 /\ (n = 1 => total = 1)
  <2> HIDE DEF weights
  <2>1. PICK k \in Nat : k = Len(weights) /\ k = b + 1 /\ k >= 2
    BY <1>5
  <2>2. m = IF k <= total THEN k ELSE total
    BY <2>1, MinPair
  <2> HIDE DEF m
  <2> QED BY <2>1, <2>2
<1>8. PICK c : c = cut
  OBVIOUS
<1>9. DOMAIN c = 1..n /\ c[1] >= 1 /\ \A i \in 1..n : c[i] \in Nat
  <2> HIDE DEF weights, m
  <2>1. c = SubSeq(weights, 1, n)
    BY <1>7, <1>8
  <2>2. \A i \in 1..n : weights[i] \in Nat
    BY <1>5, <1>7, LenProperties
  <2>3. /\ c \in Seq(Nat) /\ Len(c) = n
        /\ \A i \in 1..n : c[i] = weights[i]
    <3>1. PICK v : v = weights
      OBVIOUS
    <3>2. \A i \in 1..n : v[i] \in Nat
      BY <2>2, <3>1
    <3>3. /\ SubSeq(v, 1, n) \in Seq(Nat)
          /\ Len(SubSeq(v, 1, n)) = IF 1 <= n THEN n - 1 + 1 ELSE 0
          /\ \A i \in 1..(n - 1 + 1) : SubSeq(v, 1, n)[i] = v[1 + i - 1]
      BY <3>2, SubSeqProperties
    <3>4. \A i \in 1..n : c[i] = v[1 + i - 1] /\ 1 + i - 1 = i
      BY <2>1, <3>1, <3>3
    <3> QED BY <2>1, <3>1, <3>3, <3>4
  <2>4. 1 \in 1..n /\ 1 \in 1..b
    OBVIOUS
  <2>5. DOMAIN c = 1..n
    BY <2>3, LenProperties
  <2> QED BY <1>5, <1>6, <2>2, <2>3, <2>4, <2>5
<1> HIDE DEF weights, cut, m
<1>10. IsFiniteSet(1..n) /\ Cardinality(1..n) = n
  BY FS_Interval
<1>11. PICK W : W = SumFunctionOnSet(c, 1..n)
  OBVIOUS
<1>12. W \in Nat \ {0} /\ Max({1, SumFunction(c)}) = W
  <2>1. W \in Nat
    BY <1>9, <1>10, <1>11, SumNat
  <2>2. PICK x \in 1..n : x = 1
    OBVIOUS
  <2>3. \A i \in 1..n : c[i] \in Int
    BY <1>9
  <2>4. SumFunctionOnSet(c, 1..n) = c[x] + SumFunctionOnSet(c, (1..n) \ {x})
    BY <1>10, <2>3, SumRemove
  <2>5. SumFunctionOnSet(c, (1..n) \ {x}) \in Nat
    <3>1. IsFiniteSet((1..n) \ {x}) /\ \A i \in (1..n) \ {x} : c[i] \in Nat
      BY <1>9, <1>10, FS_Subset
    <3> QED BY <3>1, SumNat
  <2>6. W >= 1
    BY <1>9, <1>11, <2>2, <2>4, <2>5
  <2>7. SumFunction(c) = W
    BY <1>9, <1>11 DEF SumFunction
  <2>8. Max({1, W}) = W
    BY <2>1, <2>6, MaxPair
  <2> QED BY <2>1, <2>6, <2>7, <2>8
<1>13. PICK rest \in Nat : rest = total - n
  BY <1>7
<1>14. PICK q : q = prop
  OBVIOUS
<1>15. DOMAIN q = 1..n /\ \A i \in 1..n : q[i] = (rest * c[i]) \div W
  BY <1>7, <1>8, <1>12, <1>13, <1>14
<1>16. PICK P : P = SumFunctionOnSet(q, 1..n)
  OBVIOUS
<1>17. left = rest - P
  <2>1. SumFunction(q) = P
    BY <1>15, <1>16 DEF SumFunction
  <2> HIDE DEF prop
  <2> QED BY <1>7, <1>13, <1>14, <2>1
<1> HIDE DEF prop, left
<1>18. Shares(q, rest, c, n)
  BY <1>9, <1>11, <1>12, <1>15 DEF Shares
<1>19. P \in Nat /\ rest - P \in 0..(n - 1)
  BY <1>16, <1>18, Apportioned
<1>20. PICK k \in 0..(n - 1) : k = left /\ k = rest - P
  BY <1>17, <1>19
<1>21. PICK M \in SUBSET (1..n) : M = (n - k + 1)..n
  BY <1>20
<1>22. Cardinality(M) = k
  BY <1>20, <1>21, FS_Interval
<1>23. PICK f : f = lots
  OBVIOUS
<1>24. Lots(f, q, rest, n, M)
  <2>1. \A i \in 1..n : n - i < k <=> i \in M
    BY <1>21
  <2>2. \A i \in 1..n : f[i] = 1 + q[i] + (IF i \in M THEN 1 ELSE 0)
    BY <1>2, <1>7, <1>14, <1>20, <1>23, <2>1
  <2> QED BY <1>16, <1>20, <1>22, <2>2 DEF Lots
<1>25. /\ \A i \in 1..n : f[i] \in Nat \ {0}
       /\ SumFunctionOnSet(f, 1..n) = n + rest
  BY <1>18, <1>24, LegsAddUp
<1>26. Len(lots) = n
  <2>1. lots \in [1..n -> Nat]
    BY <1>1, <1>2, <1>7, <1>23, <1>25
  <2> QED BY <2>1, LenOf
<1> QED BY <1>2, <1>3, <1>7, <1>13, <1>23, <1>25, <1>26

-----------------------------------------------------------------------------
(* Prices on the winning side.                                              *)

Winning(price, card) == Sign(card.side) * (price - card.entry) > 0

LEMMA FurthestIn ==
    ASSUME NEW S \in SUBSET Int, IsFiniteSet(S), S # {}, NEW side
    PROVE  Furthest(side, S) \in S
<1>1. \E m \in S : \A x \in S : m >= x
  <2>1. PICK m \in S : \A x \in S : x <= m
    BY FiniteMax
  <2>2. \A x \in S : m >= x
    BY <2>1
  <2> QED BY <2>2
<1>2. \E m \in S : \A x \in S : m <= x
  BY FiniteMin
<1>3. Max(S) \in S
  BY <1>1 DEF Max
<1>4. Min(S) \in S
  BY <1>2 DEF Min
<1> QED BY <1>3, <1>4 DEF Furthest

LEMMA TargetsWin ==
    ASSUME NEW s \in Setups, NEW card, card = CardOf(s), Tradeable(card)
    PROVE  /\ card.targets \in Seq(Int)
           /\ card.targets = <<>> => s.rr = <<>>
           /\ \A i \in DOMAIN card.targets : Winning(card.targets[i], card)
<1>1. /\ card.side \in {"long", "short"} /\ card.entry \in Nat /\ card.stop \in Nat
      /\ card.entry # card.stop
      /\ card.targets = Targets(card.entry, card.stop, card.side, s.rr)
  BY CardOfSetup
<1>2. PICK rr \in Seq(Nat \ {0}) : rr = s.rr
  BY TradingAssumption
<1>3. PICK n \in Nat : n = Len(rr) /\ DOMAIN rr = 1..n
  BY LenProperties
<1>4. \A i \in 1..n : rr[i] \in Nat \ {0}
  BY <1>3, ElementOfSeq
<1>5. PICK d \in Nat : d = Distance(card.entry, card.stop) /\ d > 0
  BY <1>1, SizeNat
<1>6. PICK sg \in {1, -1} : sg = Sign(card.side)
  BY <1>1 DEF Sign
<1>7. PICK t : t = card.targets
  OBVIOUS
<1>8. t = [i \in 1..n |-> card.entry + sg * rr[i] * d]
  BY <1>1, <1>2, <1>3, <1>5, <1>6, <1>7 DEF Targets
<1>9. ASSUME NEW i \in 1..n
      PROVE  t[i] \in Int /\ sg * (t[i] - card.entry) > 0
  <2>1. PICK r \in Nat \ {0} : r = rr[i]
    BY <1>4
  <2>2. \A x, y \in Nat : x > 0 /\ y > 0 => x * y \in Nat /\ x * y > 0
    OBVIOUS
  <2>3. PICK m \in Nat : m = r * d /\ m > 0
    BY <1>5, <2>2
  <2>4. t[i] = card.entry + sg * r * d
    BY <1>8, <2>1
  <2>5. sg * r * d = sg * m
    BY <2>3, <1>5
  <2> QED BY <1>1, <2>3, <2>4, <2>5, SMTT(40)
<1>10. t \in Seq(Int) /\ Len(t) = n /\ DOMAIN t = 1..n
  <2>1. t \in [1..n -> Int]
    BY <1>8, <1>9
  <2> QED BY <2>1, LenOf
<1>11. t = <<>> => rr = <<>>
  <2> SUFFICES ASSUME t = <<>>, rr # <<>> PROVE FALSE
    OBVIOUS
  <2>1. n # 0
    BY <1>3, EmptySeq
  <2>2. Len(t) = 0
    BY EmptySeq
  <2> QED BY <1>10, <2>1, <2>2
<1>12. \A i \in DOMAIN t : Winning(t[i], card)
  BY <1>6, <1>9, <1>10 DEF Winning
<1> QED BY <1>2, <1>7, <1>10, <1>11, <1>12

\* _snap_to_hvn looks at nodes on the winning side only.
LEMMA Snapped ==
    ASSUME NEW side \in {"long", "short"}, NEW entry \in Nat, NEW dist \in Nat \ {0},
           NEW hvn \in SUBSET Nat, NEW p, p = SnapToHvn(entry, dist, side, hvn)
    PROVE  Sign(side) * (p - entry) > 0
<1>1. PICK sg \in {1, -1} : sg = Sign(side)
  BY DEF Sign
<1>2. PICK raw \in Int : raw = entry + sg * dist
  BY <1>1
<1> DEFINE cands == {h \in hvn : sg * (h - entry) > 0}
           near  == {h \in cands : \A k \in cands : Distance(h, raw) <= Distance(k, raw)}
<1>3. p = IF cands # {} /\ 5 * Distance(CHOOSE h \in near : TRUE, raw) <= 2 * dist
            THEN CHOOSE h \in near : TRUE ELSE raw
  BY <1>1, <1>2 DEF SnapToHvn
<1>4. cands # {} => near # {}
  <2> SUFFICES ASSUME cands # {} PROVE near # {}
    OBVIOUS
  <2>1. \A h \in cands : Distance(h, raw) \in Nat
    BY DEF Distance
  <2> DEFINE T == {Distance(h, raw) : h \in cands}
  <2>2. T \subseteq Nat /\ T # {}
    <3> HIDE DEF cands
    <3> QED BY <2>1
  <2>3. PICK n \in T : \A m \in T : n <= m
    <3> HIDE DEF T
    <3> QED BY <2>2, LeastOf
  <2> HIDE DEF cands
  <2>4. PICK h \in cands : n = Distance(h, raw)
    OBVIOUS
  <2> QED BY <2>3, <2>4
<1>5. cands # {} => (CHOOSE h \in near : TRUE) \in cands
  <2> HIDE DEF cands
  <2>1. near # {} => (CHOOSE h \in near : TRUE) \in near
    OBVIOUS
  <2> QED BY <1>4, <2>1
<1>6. p \in cands \/ p = raw
  <2> HIDE DEF cands, near
  <2> QED BY <1>3, <1>5
<1>7. sg * (p - entry) > 0
  <2>1. CASE p \in cands
    BY <2>1
  <2>2. CASE p = raw
    BY <1>2, <2>2
  <2> QED BY <1>6, <2>1, <2>2
<1> QED BY <1>1, <1>7

\* The runner's target is beyond the deepest target, or that target.
LEMMA FinalWins ==
    ASSUME NEW s \in Setups, NEW card, card = CardOf(s), Tradeable(card), card.targets # <<>>,
           NEW hvn \in Nodes
    PROVE  Winning(FinalTp(card, hvn), card)
<1>1. /\ card.side \in {"long", "short"} /\ card.entry \in Nat
  BY CardOfSetup
<1>2. PICK t : t = card.targets /\ t \in Seq(Int) /\ t # <<>> /\ \A i \in DOMAIN t : Winning(t[i], card)
  BY TargetsWin
<1>3. PICK n \in Nat \ {0} : n = Len(t) /\ DOMAIN t = 1..n /\ \A i \in 1..n : t[i] \in Int
  <2>1. Len(t) \in Nat \ {0}
    BY <1>2, EmptySeq
  <2>2. DOMAIN t = 1..Len(t) /\ t \in [1..Len(t) -> Int]
    BY <1>2, LenProperties
  <2> QED BY <2>1, <2>2
<1>4. PICK S \in SUBSET Int : S = ToSet(t)
  BY <1>3 DEF ToSet
<1>5. IsFiniteSet(S)
  <2>1. t \in Surjection(1..n, S)
    <3>1. t \in [1..n -> S]
      <4>1. t \in [1..n -> Int]
        BY <1>2, <1>3, LenProperties
      <4>2. \A i \in 1..n : t[i] \in S
        BY <1>3, <1>4 DEF ToSet
      <4> QED BY <4>1, <4>2
    <3>2. \A x \in S : \E i \in 1..n : t[i] = x
      BY <1>3, <1>4 DEF ToSet
    <3> QED BY <3>1, <3>2 DEF Surjection
  <2>2. IsFiniteSet(1..n)
    BY FS_Interval
  <2> QED BY <2>1, <2>2, FS_Surjection
<1>6. S # {}
  <2>1. t[1] \in S
    BY <1>3, <1>4 DEF ToSet
  <2> QED BY <2>1
<1>7. PICK last \in S : last = Furthest(card.side, S)
  BY <1>5, <1>6, FurthestIn
<1>8. Winning(last, card) /\ last \in Int
  BY <1>2, <1>3, <1>4 DEF ToSet
<1>9. hvn \in SUBSET Nat /\ IsFiniteSet(hvn)
  BY TradingAssumption
<1>10. PICK B \in SUBSET Int : B = {h \in hvn : Sign(card.side) * (h - last) >= 0}
  <2>1. PICK B : B = {h \in hvn : Sign(card.side) * (h - last) >= 0}
    OBVIOUS
  <2>2. \A h \in B : h \in hvn
    BY <2>1
  <2>3. \A h \in hvn : h \in Int
    BY <1>9
  <2>4. B \subseteq Int
    BY <2>2, <2>3
  <2> QED BY <2>1, <2>4
<1>11. FinalTp(card, hvn) = IF B = {} THEN last ELSE Furthest(card.side, B)
  <2>1. last = Furthest(card.side, ToSet(card.targets))
    BY <1>2, <1>4, <1>7
  <2>2. B = {h \in hvn : Sign(card.side) * (h - Furthest(card.side, ToSet(card.targets))) >= 0}
    BY <1>10, <2>1
  <2> QED BY <2>1, <2>2 DEF FinalTp
<1>12. CASE B = {}
  BY <1>8, <1>11, <1>12
<1>13. CASE B # {}
  <2>1. B \in SUBSET hvn
    BY <1>10
  <2>2. IsFiniteSet(B)
    BY <1>9, <2>1, FS_Subset
  <2>3. PICK h \in B : h = Furthest(card.side, B)
    BY <1>13, <2>2, FurthestIn
  <2>4. Sign(card.side) * (h - last) >= 0 /\ h \in Int
    BY <1>10
  <2>5. PICK sg \in {1, -1} : sg = Sign(card.side)
    BY <1>1 DEF Sign
  <2>6. sg * (last - card.entry) > 0 /\ sg * (h - last) >= 0
    BY <1>8, <2>4, <2>5 DEF Winning
  <2>7. sg * (h - card.entry) > 0
    BY <1>1, <1>8, <2>4, <2>6
  <2> QED BY <1>11, <1>13, <2>3, <2>5, <2>7 DEF Winning
<1> QED BY <1>12, <1>13

-----------------------------------------------------------------------------
(* The legs of a card.                                                      *)

GoodLeg(leg, card) ==
    /\ leg.lot \in Nat \ {0} /\ leg.sl = card.stop
    /\ \A tp \in leg.tp : Winning(tp, card)

Plain(leg) == ~leg.trails /\ leg.role # <<"p", 1>>

\* All of the card's lot in good legs, with a runner only as the last of several, the
\* first of which is a partial.
Covering(legs, card) ==
    /\ Len(legs) \in Nat \ {0} /\ DOMAIN legs = 1..Len(legs)
    /\ \A i \in DOMAIN legs : GoodLeg(legs[i], card)
    /\ Sums(legs, card.lot)
    /\ \/ \A i \in DOMAIN legs : Plain(legs[i])
       \/ /\ Len(legs) > 1 /\ legs[1].role = <<"p", 1>> /\ legs[Len(legs)].trails
          /\ \A i \in 1..(Len(legs) - 1) : ~legs[i].trails

LEMMA Roles ==
    /\ <<"single">> # <<"runner">> /\ <<"ladder">> # <<"runner">>
    /\ <<"single">> # <<"p", 1>> /\ <<"ladder">> # <<"p", 1>>
    /\ \A i : <<"p", i>> # <<"runner">>
<1>1. <<"single">>[1] # <<"runner">>[1] /\ <<"ladder">>[1] # <<"runner">>[1]
  OBVIOUS
<1>2. <<"single">>[1] # <<"p", 1>>[1] /\ <<"ladder">>[1] # <<"p", 1>>[1]
  OBVIOUS
<1>3. ASSUME NEW i
      PROVE  <<"p", i>> # <<"runner">>
  <2>1. <<"p", i>>[1] # <<"runner">>[1]
    OBVIOUS
  <2> QED BY <2>1
<1> QED BY <1>1, <1>2, <1>3

LEMMA LegIs ==
    ASSUME NEW card, NEW role, NEW lot, NEW tp, NEW leg, leg = LegOf(card, role, lot, tp)
    PROVE  /\ leg.role = role /\ leg.lot = lot /\ leg.tp = tp /\ leg.sl = card.stop
           /\ leg.trails <=> role = <<"runner">>
BY DEF LegOf

LEMMA FirstTpWins ==
    ASSUME NEW s \in Setups, NEW card, card = CardOf(s), Tradeable(card)
    PROVE  \A tp \in FirstTp(card) : Winning(tp, card)
<1>1. \A i \in DOMAIN card.targets : Winning(card.targets[i], card)
  BY TargetsWin
<1> QED BY <1>1 DEF FirstTp

\* build_order.
LEMMA SingleCovers ==
    ASSUME NEW s \in Setups, NEW card, card = CardOf(s), Tradeable(card),
           NEW legs, legs = BuildOrder(card)
    PROVE  Covering(legs, card) /\ \A i \in DOMAIN legs : Plain(legs[i])
<1>1. PICK lot \in Nat \ {0} : lot = card.lot
  BY CardOfSetup
<1>2. PICK leg : leg = LegOf(card, <<"single">>, card.lot, FirstTp(card))
  OBVIOUS
<1>3. legs = <<leg>>
  BY <1>2 DEF BuildOrder
<1>4. Len(legs) = 1 /\ DOMAIN legs = 1..1 /\ legs[1] = leg
  BY <1>3
<1>5. /\ leg.role = <<"single">> /\ leg.lot = card.lot /\ leg.sl = card.stop
      /\ leg.tp = FirstTp(card) /\ ~leg.trails
  BY <1>2, LegIs, Roles
<1>6. Sums(legs, card.lot)
  <2>1. PICK f : f = [i \in DOMAIN legs |-> legs[i].lot]
    OBVIOUS
  <2>2. DOMAIN f = 1..1 /\ \A i \in 1..1 : f[i] = lot
    BY <1>1, <1>4, <1>5, <2>1
  <2>3. IsFiniteSet(1..1) /\ Cardinality(1..1) = 1
    <3>1. 1..1 = {1}
      OBVIOUS
    <3>2. IsFiniteSet({1}) /\ Cardinality({1}) = 1
      BY FS_Singleton
    <3> QED BY <3>1, <3>2
  <2>4. SumFunctionOnSet(f, 1..1) = lot * Cardinality(1..1)
    BY <2>2, <2>3, SumConst
  <2>5. SumFunction(f) = lot
    BY <2>2, <2>3, <2>4 DEF SumFunction
  <2> QED BY <1>1, <2>1, <2>5 DEF Sums
<1>7. GoodLeg(leg, card)
  BY <1>1, <1>5, FirstTpWins DEF GoodLeg
<1>8. Plain(leg)
  BY <1>5, Roles DEF Plain
<1> QED BY <1>4, <1>6, <1>7, <1>8 DEF Covering

\* The trend targets of a set-up are on the winning side of its entry.
TrendWins(s) == \A i \in DOMAIN s.trend : Sign(s.bias) * (s.trend[i] - s.entry) > 0

\* _build_ladder_orders.
LEMMA LadderCovers ==
    ASSUME NEW s \in Setups, NEW card, card = CardOf(s), Tradeable(card),
           card.lot > 1 => TrendWins(s),
           NEW legs, legs = BuildLadderOrders(card)
    PROVE  Covering(legs, card) /\ \A i \in DOMAIN legs : Plain(legs[i])
<1>1. /\ card.lot \in Nat \ {0} /\ card.side = s.bias /\ card.entry = s.entry /\ card.trend = s.trend
  BY CardOfSetup
<1>2. PICK trend \in Seq(Nat) : trend = card.trend
  BY <1>1, TradingAssumption
<1>3. PICK total \in Nat \ {0} : total = card.lot
  BY <1>1
<1>4. PICK split : split = PlanScaleOut(total, trend)
  OBVIOUS
<1>5. CASE ~(Len(trend) >= 2 /\ Len(split) >= 2)
  <2>1. legs = BuildOrder(card)
    BY <1>2, <1>3, <1>5, <1>4 DEF BuildLadderOrders
  <2> QED BY <2>1, SingleCovers
<1>6. CASE Len(trend) >= 2 /\ Len(split) >= 2
  <2>1. trend # <<>>
    BY <1>6, EmptySeq
  <2>2. PICK n \in Nat \ {0} : Scaled(split, total, trend, n)
    BY <1>4, <2>1, ScaledOut
  <2>3. /\ n <= total /\ n <= Len(trend) /\ DOMAIN split = 1..n /\ Len(split) = n
        /\ \A i \in 1..n : split[i].lot \in Nat \ {0} /\ split[i].tp = trend[i]
        /\ SumFunction([i \in DOMAIN split |-> split[i].lot]) = total
    BY <2>2 DEF Scaled
  <2>4. legs = [i \in DOMAIN split |-> LegOf(card, <<"ladder">>, split[i].lot, {split[i].tp})]
    BY <1>2, <1>3, <1>6, <1>4 DEF BuildLadderOrders
  <2>5. DOMAIN legs = 1..n /\ Len(legs) = n
    <3>1. PICK S : S = {legs[i] : i \in 1..n}
      OBVIOUS
    <3>2. legs \in [1..n -> S]
      BY <2>3, <2>4, <3>1
    <3> QED BY <3>2, LenOf
  <2>6. TrendWins(s)
    BY <1>3, <1>6, <2>3
  <2>7. \A i \in 1..n : Winning(trend[i], card)
    <3>1. DOMAIN trend = 1..Len(trend) /\ Len(trend) \in Nat
      BY LenProperties
    <3>2. \A i \in 1..n : i \in DOMAIN s.trend
      BY <1>1, <1>2, <2>3, <3>1
    <3>3. \A i \in 1..n : Sign(s.bias) * (s.trend[i] - s.entry) > 0
      BY <2>6, <3>2 DEF TrendWins
    <3> QED BY <1>1, <1>2, <3>3 DEF Winning
  <2>8. ASSUME NEW i \in 1..n
        PROVE  GoodLeg(legs[i], card) /\ Plain(legs[i]) /\ legs[i].lot = split[i].lot
    <3>1. PICK leg : leg = legs[i] /\ leg = LegOf(card, <<"ladder">>, split[i].lot, {split[i].tp})
      BY <2>3, <2>4
    <3>2. /\ leg.role = <<"ladder">> /\ leg.lot = split[i].lot /\ leg.sl = card.stop
          /\ leg.tp = {split[i].tp} /\ ~leg.trails
      BY <3>1, LegIs, Roles
    <3> QED BY <2>3, <2>7, <3>1, <3>2, Roles DEF GoodLeg, Plain
  <2>9. Sums(legs, card.lot)
    <3>1. [i \in DOMAIN legs |-> legs[i].lot] = [i \in DOMAIN split |-> split[i].lot]
      BY <2>3, <2>5, <2>8
    <3> QED BY <1>3, <2>3, <3>1 DEF Sums
  <2> QED BY <2>5, <2>8, <2>9 DEF Covering
<1> QED BY <1>5, <1>6

\* plan_partial_exit.
LEMMA PartialsCover ==
    ASSUME NEW s \in Setups, NEW card, card = CardOf(s), Tradeable(card),
           s.rr = <<>> => TrendWins(s), NEW hvn \in Nodes,
           NEW legs, legs = PlanPartialExit(card, hvn)
    PROVE  Covering(legs, card)
<1>1. /\ card.lot \in Nat \ {0} /\ card.side \in {"long", "short"} /\ card.entry \in Nat
  BY CardOfSetup
<1>2. PICK lots : lots = LotFractions(card.lot)
  OBVIOUS
<1>3. PICK n \in Nat \ {0} :
         /\ n <= card.lot /\ n <= Len(Partials) + 1 /\ (n = 1 => card.lot = 1)
         /\ DOMAIN lots = 1..n /\ Len(lots) = n
         /\ \A i \in 1..n : lots[i] \in Nat \ {0}
         /\ SumFunctionOnSet(lots, 1..n) = card.lot
  BY <1>1, <1>2, Fractioned
<1>4. CASE card.targets = <<>> \/ n < 2
  <2>1. legs = BuildLadderOrders(card)
    BY <1>2, <1>3, <1>4 DEF PlanPartialExit
  <2>2. card.lot > 1 => TrendWins(s)
    BY <1>3, <1>4, TargetsWin
  <2> QED BY <2>1, <2>2, LadderCovers
<1>5. CASE card.targets # <<>> /\ n >= 2
  <2> DEFINE at(i) == SnapToHvn(card.entry, Partials[i], card.side, hvn)
             leg(i) == IF i < n THEN LegOf(card, <<"p", i>>, lots[i], {at(i)})
                       ELSE LegOf(card, <<"runner">>, lots[i], {FinalTp(card, hvn)})
  <2>1. legs = [i \in 1..n |-> leg(i)]
    BY <1>2, <1>3, <1>5 DEF PlanPartialExit
  <2>2. DOMAIN legs = 1..n /\ Len(legs) = n
    <3> HIDE DEF leg
    <3>1. PICK S : S = {legs[i] : i \in 1..n}
      OBVIOUS
    <3>2. legs \in [1..n -> S]
      BY <2>1, <3>1
    <3> QED BY <3>2, LenOf
  <2>3. ASSUME NEW i \in 1..(n - 1)
        PROVE  Winning(at(i), card)
    <3>1. i \in 1..Len(Partials)
      <4>1. Len(Partials) \in Nat
        BY PartialsAssumption, LenProperties
      <4> QED BY <1>3, <4>1
    <3>2. PICK d \in Nat \ {0} : d = Partials[i]
      BY <3>1, PartialsAssumption, ElementOfSeq
    <3>3. hvn \in SUBSET Nat
      BY TradingAssumption
    <3>4. PICK p : p = at(i)
      OBVIOUS
    <3>5. PICK side \in {"long", "short"}, entry \in Nat : side = card.side /\ entry = card.entry
      BY <1>1
    <3>6. p = SnapToHvn(entry, d, side, hvn)
      BY <3>2, <3>4, <3>5
    <3>7. Sign(side) * (p - entry) > 0
      BY <3>3, <3>6, Snapped
    <3>8. Winning(p, card)
      BY <3>5, <3>7 DEF Winning
    <3> HIDE DEF at
    <3> QED BY <3>4, <3>8
  <2> HIDE DEF at
  <2>4. ASSUME NEW i \in 1..(n - 1)
        PROVE  /\ GoodLeg(legs[i], card) /\ legs[i].lot = lots[i]
               /\ legs[i].role = <<"p", i>> /\ ~legs[i].trails
    <3>1. i \in 1..n /\ i < n
      OBVIOUS
    <3>2. PICK l : l = legs[i] /\ l = LegOf(card, <<"p", i>>, lots[i], {at(i)})
      BY <2>1, <3>1
    <3>3. /\ l.role = <<"p", i>> /\ l.lot = lots[i] /\ l.sl = card.stop /\ l.tp = {at(i)} /\ ~l.trails
      BY <3>2, LegIs, Roles
    <3>4. lots[i] \in Nat \ {0}
      BY <1>3, <3>1
    <3>5. GoodLeg(l, card)
      BY <2>3, <3>3, <3>4 DEF GoodLeg
    <3> QED BY <3>2, <3>3, <3>5
  <2>5. GoodLeg(legs[n], card) /\ legs[n].lot = lots[n] /\ legs[n].trails
    <3>1. n \in 1..n /\ ~(n < n)
      OBVIOUS
    <3>2. PICK l : l = legs[n] /\ l = LegOf(card, <<"runner">>, lots[n], {FinalTp(card, hvn)})
      BY <2>1, <3>1
    <3>3. /\ l.lot = lots[n] /\ l.sl = card.stop /\ l.tp = {FinalTp(card, hvn)} /\ l.trails
      BY <3>2, LegIs
    <3>4. Winning(FinalTp(card, hvn), card)
      BY <1>5, FinalWins
    <3> QED BY <1>3, <3>1, <3>2, <3>3, <3>4 DEF GoodLeg
  <2> HIDE DEF leg
  <2>6. \A i \in 1..n : GoodLeg(legs[i], card) /\ legs[i].lot = lots[i]
    <3>1. \A i \in 1..n : i \in 1..(n - 1) \/ i = n
      OBVIOUS
    <3> QED BY <2>4, <2>5, <3>1
  <2>7. Sums(legs, card.lot)
    <3>1. PICK f : f = [i \in DOMAIN legs |-> legs[i].lot]
      OBVIOUS
    <3>2. DOMAIN f = 1..n /\ \A i \in 1..n : f[i] = lots[i]
      BY <2>2, <2>6, <3>1
    <3>3. IsFiniteSet(1..n)
      BY FS_Interval
    <3>4. SumFunctionOnSet(f, 1..n) = SumFunctionOnSet(lots, 1..n)
      BY <3>2, <3>3, SumAlike
    <3>5. SumFunction(f) = card.lot
      BY <1>3, <3>2, <3>4 DEF SumFunction
    <3> QED BY <3>1, <3>5 DEF Sums
  <2>8. legs[1].role = <<"p", 1>>
    <3>1. 1 \in 1..(n - 1)
      BY <1>5
    <3> QED BY <2>4, <3>1
  <2> QED BY <1>5, <2>2, <2>4, <2>5, <2>6, <2>7, <2>8 DEF Covering
<1> QED BY <1>4, <1>5, <1>3

-----------------------------------------------------------------------------
(* What is sent.                                                            *)

CoversSent(order) ==
    order.orders # <<>> =>
        LET legs == order.orders
            card == order.card
            n    == Len(legs)
        IN  /\ \A i \in 1..n :
                  /\ legs[i].lot >= 1 /\ legs[i].sl = card.stop
                  /\ \A tp \in legs[i].tp : Sign(card.side) * (tp - card.entry) > 0
                  /\ legs[i].trails => i = n /\ n > 1 /\ legs[1].role = <<"p", 1>>
                  /\ legs[i].role = <<"p", 1>> => legs[n].trails
            /\ IF order.fleet
                 THEN /\ n = Len(Accounts)
                      /\ \A i \in 1..n : legs[i].lot <= LotLadder(Accounts[i].balance).max
                 ELSE Sums(legs, card.lot)

LEMMA FleetCovers ==
    ASSUME NEW s \in Setups, NEW card, card = CardOf(s), Tradeable(card),
           NEW order, order.card = card, order.fleet,
           order.orders = BuildFleetOrders(card, Accounts)
    PROVE  CoversSent(order)
<1>1. PICK legs : legs = order.orders /\ legs = BuildFleetOrders(card, Accounts)
  OBVIOUS
<1>2. DOMAIN legs = 1..Len(Accounts) /\ Len(Accounts) \in Nat
  BY <1>1, FleetLots
<1>3. PICK n \in Nat : n = Len(Accounts)
  BY <1>2
<1>4. ASSUME NEW i \in 1..n
      PROVE  /\ legs[i].role = <<"single">> /\ legs[i].sl = card.stop /\ legs[i].tp = FirstTp(card)
             /\ ~legs[i].trails /\ legs[i].lot \in Nat \ {0}
             /\ legs[i].lot <= LotLadder(Accounts[i].balance).max
  <2>1. i \in DOMAIN legs
    BY <1>2, <1>3
  <2>2. legs[i] = [role |-> <<"single">>, lot |-> legs[i].lot, sl |-> card.stop,
                   tp |-> FirstTp(card), trails |-> FALSE, account |-> Accounts[i].id]
    BY <1>1, <2>1, FleetLots
  <2>3. legs[i].lot \in Nat \ {0} /\ legs[i].lot <= LotLadder(Accounts[i].balance).max
    BY <1>1, <2>1, FleetLots
  <2>4. PICK l : l = legs[i]
    OBVIOUS
  <2>5. l = [role |-> <<"single">>, lot |-> l.lot, sl |-> card.stop,
             tp |-> FirstTp(card), trails |-> FALSE, account |-> Accounts[i].id]
    BY <2>2, <2>4
  <2>6. l.role = <<"single">> /\ l.sl = card.stop /\ l.tp = FirstTp(card) /\ ~l.trails
    BY <2>5
  <2> QED BY <2>3, <2>4, <2>6
<1>5. Len(legs) = n
  <2>1. PICK S : S = {legs[i] : i \in 1..n}
    OBVIOUS
  <2>2. legs \in [1..n -> S]
    BY <1>1, <1>2, <1>3, <2>1 DEF BuildFleetOrders
  <2> QED BY <2>2, LenOf
<1>6. \A tp \in FirstTp(card) : Sign(card.side) * (tp - card.entry) > 0
  BY FirstTpWins DEF Winning
<1>7. ASSUME NEW i \in 1..n
      PROVE  /\ legs[i].lot >= 1 /\ legs[i].sl = card.stop
             /\ \A tp \in legs[i].tp : Sign(card.side) * (tp - card.entry) > 0
             /\ ~legs[i].trails /\ legs[i].role # <<"p", 1>>
             /\ legs[i].lot <= LotLadder(Accounts[i].balance).max
  BY <1>4, <1>6, Roles
<1> QED BY <1>1, <1>3, <1>5, <1>7 DEF CoversSent

LEMMA CoveringSent ==
    ASSUME NEW order, ~order.fleet, Covering(order.orders, order.card)
    PROVE  CoversSent(order)
<1>1. PICK legs, card : legs = order.orders /\ card = order.card
  OBVIOUS
<1>2. PICK n \in Nat \ {0} : n = Len(legs)
  BY <1>1 DEF Covering
<1>3. DOMAIN legs = 1..n /\ Sums(legs, card.lot)
  BY <1>1, <1>2 DEF Covering
<1>4. ASSUME NEW i \in 1..n
      PROVE  /\ legs[i].lot >= 1 /\ legs[i].sl = card.stop
             /\ \A tp \in legs[i].tp : Sign(card.side) * (tp - card.entry) > 0
  <2>1. GoodLeg(legs[i], card)
    BY <1>1, <1>3 DEF Covering
  <2> QED BY <2>1 DEF GoodLeg, Winning
<1>5. ASSUME NEW i \in 1..n
      PROVE  /\ legs[i].trails => i = n /\ n > 1 /\ legs[1].role = <<"p", 1>>
             /\ legs[i].role = <<"p", 1>> => legs[n].trails
  <2>1. CASE \A j \in DOMAIN legs : Plain(legs[j])
    BY <1>3, <2>1 DEF Plain
  <2>2. CASE /\ n > 1 /\ legs[1].role = <<"p", 1>> /\ legs[n].trails
             /\ \A j \in 1..(n - 1) : ~legs[j].trails
    <3>1. i \in 1..(n - 1) \/ i = n
      OBVIOUS
    <3> QED BY <2>2, <3>1
  <2> QED BY <1>1, <1>2, <2>1, <2>2 DEF Covering
<1> QED BY <1>1, <1>2, <1>3, <1>4, <1>5 DEF CoversSent

\* However a card is split, all of its lot is sent and no more, in legs of a step at
\* least, with its stop and a target on the winning side; a fleet gets an order an
\* account: for any fractions, distances, set-ups, nodes and fleets.  A card without
\* targets takes them from the trend, which the code does not hold to the winning side.
THEOREM OrdersCoverTheCard ==
    ASSUME \A s \in Setups : s.rr = <<>> => TrendWins(s)
    PROVE  Spec => []OrdersCoverCard
<1>1. Init => OrdersCoverCard
  <2> SUFFICES ASSUME Init PROVE OrdersCoverCard
    OBVIOUS
  <2>1. sent.orders = <<>>
    BY DEF Init, NotSent
  <2> QED BY <2>1 DEF OrdersCoverCard
<1>2. OrdersCoverCard <=> CoversSent(sent)
  BY DEF OrdersCoverCard, CoversSent
<1>3. OrdersCoverCard' <=> CoversSent(sent')
  BY DEF OrdersCoverCard, CoversSent
<1>4. CoversSent(NotSent)
  <2>1. NotSent.orders = <<>>
    BY DEF NotSent
  <2> QED BY <2>1 DEF CoversSent
<1>5. ASSUME NEW new \in Trades, NEW s \in Setups, NEW hvn \in Nodes, NEW fleet \in BOOLEAN,
             NEW known \in Known, ScanCard(new, s, hvn, fleet, known)
      PROVE  CoversSent(sent')
  <2>1. PICK card : card = CardOf(s)
    OBVIOUS
  <2>2. PICK order, legs : /\ order = [card |-> card, fleet |-> fleet, known |-> known, orders |-> legs]
                           /\ legs = LiveOrders(card, hvn, fleet, Accounts)
    OBVIOUS
  <2>3. Tradeable(card) /\ (sent' = order \/ sent' = NotSent)
    BY <1>5, <2>1, <2>2 DEF ScanCard
  <2>4. order.card = card /\ order.fleet = fleet /\ order.orders = legs
    BY <2>2
  <2>5. CoversSent(order)
    <3>1. CASE fleet
      <4>1. legs = BuildFleetOrders(card, Accounts)
        BY <2>2, <3>1 DEF LiveOrders
      <4> QED BY <2>1, <2>3, <2>4, <3>1, <4>1, FleetCovers
    <3>2. CASE ~fleet
      <4>1. PICK split : split = PlanPartialExit(card, hvn)
        OBVIOUS
      <4>2. legs = split \/ legs = BuildOrder(card)
        BY <2>2, <3>2, <4>1 DEF LiveOrders
      <4>3. Covering(split, card)
        BY <2>1, <2>3, <4>1, PartialsCover
      <4>4. legs = BuildOrder(card) => Covering(legs, card)
        BY <2>1, <2>3, SingleCovers
      <4>5. Covering(legs, card)
        BY <4>2, <4>3, <4>4
      <4> QED BY <2>4, <3>2, <4>5, CoveringSent
    <3> QED BY <3>1, <3>2
  <2> QED BY <1>4, <2>3, <2>5
<1>6. OrdersCoverCard /\ [Next]_vars => OrdersCoverCard'
  <2> SUFFICES ASSUME OrdersCoverCard, [Next]_vars
               PROVE  CoversSent(sent')
    BY <1>3
  <2>1. CASE \E new \in Trades, s \in Setups, hvn \in Nodes, fleet \in BOOLEAN, known \in Known :
              ScanCard(new, s, hvn, fleet, known)
    BY <1>5, <2>1
  <2>2. CASE sent' = NotSent
    BY <1>4, <2>2
  <2>3. CASE UNCHANGED vars
    <3>1. sent' = sent
      BY <2>3 DEF vars
    <3> QED BY <1>2, <3>1
  <2> QED BY <2>1, <2>2, <2>3 DEF Next, OperatorAsks, CloseTrade, UsdTradeCloses, DayTurns
<1> QED BY <1>1, <1>6, PTL DEF Spec
-----------------------------------------------------------------------------
(* The record.                                                              *)

\* The running total after k trades.
Upto(rs, k) == SumFunctionOnSet(rs, 1 .. k)

\* A fall of the running total between two points, a before b.
FallsBy(rs, n, d) == \E a, b \in 0 .. n : a <= b /\ d = Upto(rs, a) - Upto(rs, b)
FallsNoMore(rs, n, d) == \A a, b \in 0 .. n : a <= b => Upto(rs, a) - Upto(rs, b) <= d

LEMMA UptoNext ==
    ASSUME NEW rs \in Seq(Int)
    PROVE  /\ Len(rs) \in Nat /\ DOMAIN rs = 1 .. Len(rs) /\ \A i \in 1 .. Len(rs) : rs[i] \in Int
           /\ Upto(rs, 0) = 0 /\ Upto(rs, Len(rs)) = Total(rs)
           /\ \A k \in 0 .. Len(rs) : Upto(rs, k) \in Int
           /\ \A k \in 1 .. Len(rs) : Upto(rs, k) = Upto(rs, k - 1) + rs[k]
<1>1. Len(rs) \in Nat /\ DOMAIN rs = 1 .. Len(rs) /\ \A i \in 1 .. Len(rs) : rs[i] \in Int
  BY LenProperties, ElementOfSeq
<1>2. Upto(rs, 0) = 0
  <2>1. 1 .. 0 = {}
    OBVIOUS
  <2> QED BY <2>1, SumEmpty DEF Upto
<1>3. Upto(rs, Len(rs)) = Total(rs)
  BY <1>1 DEF Upto, Total, SumFunction
<1>4. ASSUME NEW k \in 0 .. Len(rs) PROVE IsFiniteSet(1 .. k) /\ \A i \in 1 .. k : rs[i] \in Int
  <2>1. k \in Int /\ \A i \in 1 .. k : i \in 1 .. Len(rs)
    BY <1>1
  <2> QED BY <1>1, <2>1, FS_Interval
<1>5. ASSUME NEW k \in 0 .. Len(rs) PROVE Upto(rs, k) \in Int
  BY <1>4, SumInt DEF Upto
<1>6. ASSUME NEW k \in 1 .. Len(rs) PROVE Upto(rs, k) = Upto(rs, k - 1) + rs[k]
  <2>1. k - 1 \in 0 .. Len(rs) /\ 1 .. k = (1 .. k - 1) \cup {k} /\ k \notin 1 .. k - 1
    BY <1>1
  <2>2. IsFiniteSet(1 .. k - 1) /\ \A i \in (1 .. k - 1) \cup {k} : rs[i] \in Int
    BY <1>1, <1>4, <2>1
  <2>3. SumFunctionOnSet(rs, (1 .. k - 1) \cup {k}) = rs[k] + SumFunctionOnSet(rs, 1 .. k - 1)
    BY <2>1, <2>2, SumAdd
  <2>4. Upto(rs, k) = rs[k] + Upto(rs, k - 1) /\ Upto(rs, k - 1) \in Int
    BY <1>5, <2>1, <2>3 DEF Upto
  <2> QED BY <1>1, <2>4
<1> QED BY <1>1, <1>2, <1>3, <1>5, <1>6

LEMMA CurveIs ==
    ASSUME NEW rs \in Seq(Int), NEW k \in 0 .. Len(rs)
    PROVE  Curve(rs, k) = Upto(rs, k)
<1> DEFINE part == SubSeq(rs, 1, k)
<1>1. Len(rs) \in Nat /\ DOMAIN rs = 1 .. Len(rs) /\ k \in Nat
  BY UptoNext
<1>2. DOMAIN part = 1 .. k /\ \A i \in 1 .. k : part[i] = rs[i]
  <2>1. \A i \in 1 .. k : i \in 1 .. Len(rs)
    BY <1>1
  <2> QED BY <1>1, <2>1
<1>3. IsFiniteSet(1 .. k)
  BY <1>1, FS_Interval
<1> HIDE DEF part
<1>4. SumFunctionOnSet(part, 1 .. k) = SumFunctionOnSet(rs, 1 .. k)
  BY <1>2, <1>3, SumAlike
<1>5. Total(part) = Upto(rs, k)
  BY <1>2, <1>4 DEF Total, SumFunction, Upto
<1> QED BY <1>5 DEF Curve, part

\* What the walk keeps: the running total, the highest it has been, the worst fall.
Walked(rs, k, a) ==
    /\ a.equity = Upto(rs, k)
    /\ \E j \in 0 .. k : a.peak = Upto(rs, j)
    /\ \A j \in 0 .. k : Upto(rs, j) <= a.peak
    /\ FallsBy(rs, k, a.worst) /\ FallsNoMore(rs, k, a.worst)

LEMMA WalkedNext ==
    ASSUME NEW rs \in Seq(Int), NEW k \in 1 .. Len(rs),
           NEW a \in [equity : Int, peak : Int, worst : Int], Walked(rs, k - 1, a)
    PROVE  Walked(rs, k, DrawStep(a, rs[k]))
<1> DEFINE equity == a.equity + rs[k]
           peak == Max({a.peak, equity})
           worst == Max({a.worst, peak - equity})
           U(j) == Upto(rs, j)
<1>1. DrawStep(a, rs[k]) = [equity |-> equity, peak |-> peak, worst |-> worst]
  BY DEF DrawStep
<1>2. /\ Len(rs) \in Nat /\ rs[k] \in Int /\ U(k) = U(k - 1) + rs[k]
      /\ \A j \in 0 .. k : U(j) \in Int
  BY UptoNext
<1>3. a.equity = U(k - 1) /\ a.equity \in Int /\ a.peak \in Int /\ a.worst \in Int
  BY DEF Walked
<1>4. equity = U(k) /\ equity \in Int
  BY <1>2, <1>3
<1>5. peak = (IF a.peak >= equity THEN a.peak ELSE equity) /\ peak \in Int
  <2> HIDE DEF equity
  <2> QED BY <1>3, <1>4, MaxPair
<1>6. peak - equity \in Int
  BY <1>4, <1>5
<1>7. worst = (IF a.worst >= peak - equity THEN a.worst ELSE peak - equity) /\ worst \in Int
  <2> HIDE DEF equity, peak
  <2> QED BY <1>3, <1>6, MaxPair
<1> HIDE DEF equity, peak, worst, U
<1>8. k \in Nat /\ k - 1 \in 0 .. k /\ k \in 0 .. k /\ \A j \in 0 .. k : j = k \/ j \in 0 .. k - 1
  BY <1>2
<1>9. /\ \E j \in 0 .. k - 1 : a.peak = U(j)
      /\ \A j \in 0 .. k - 1 : U(j) <= a.peak
      /\ \E i, j \in 0 .. k - 1 : i <= j /\ a.worst = U(i) - U(j)
      /\ \A i, j \in 0 .. k - 1 : i <= j => U(i) - U(j) <= a.worst
  BY DEF Walked, FallsBy, FallsNoMore, U
<1>10. \A j \in 0 .. k - 1 : j \in 0 .. k /\ j <= k
  BY <1>8
<1>11. \E j \in 0 .. k : peak = U(j)
  BY <1>4, <1>5, <1>8, <1>9, <1>10
<1>12. \A j \in 0 .. k : U(j) <= peak
  <2> SUFFICES ASSUME NEW j \in 0 .. k PROVE U(j) <= peak
    OBVIOUS
  <2>1. U(j) \in Int /\ (j = k \/ U(j) <= a.peak)
    BY <1>2, <1>8, <1>9
  <2> QED BY <1>3, <1>4, <1>5, <2>1
<1>13. \E i, j \in 0 .. k : i <= j /\ worst = U(i) - U(j)
  <2>1. CASE worst = a.worst
    BY <1>9, <1>10, <2>1
  <2>2. CASE worst = peak - equity
    <3>1. PICK i \in 0 .. k : peak = U(i)
      BY <1>11
    <3>2. i <= k /\ worst = U(i) - U(k)
      BY <1>4, <1>8, <2>2, <3>1
    <3> QED BY <1>8, <3>2
  <2> QED BY <1>7, <2>1, <2>2
<1>14. \A i, j \in 0 .. k : i <= j => U(i) - U(j) <= worst
  <2> SUFFICES ASSUME NEW i \in 0 .. k, NEW j \in 0 .. k, i <= j PROVE U(i) - U(j) <= worst
    OBVIOUS
  <2>1. U(i) \in Int /\ U(j) \in Int /\ worst >= a.worst /\ worst >= peak - equity
    BY <1>2, <1>3, <1>6, <1>7, SMTT(40)
  <2>2. CASE j = k
    <3>1. U(i) <= peak
      BY <1>12
    <3> QED BY <1>4, <1>5, <1>7, <2>1, <2>2, <3>1
  <2>3. CASE j # k
    <3>1. i \in 0 .. k - 1 /\ j \in 0 .. k - 1
      BY <1>8, <2>3
    <3>2. U(i) - U(j) <= a.worst
      BY <1>9, <3>1
    <3> QED BY <1>3, <1>7, <2>1, <3>2
  <2> QED BY <2>2, <2>3
<1>15. Walked(rs, k, [equity |-> equity, peak |-> peak, worst |-> worst])
  BY <1>4, <1>11, <1>12, <1>13, <1>14 DEF Walked, FallsBy, FallsNoMore, U
<1> QED BY <1>1, <1>15

LEMMA DrawdownIs ==
    ASSUME NEW rs \in Seq(Int)
    PROVE  /\ MaxDrawdown(rs) \in Int
           /\ FallsBy(rs, Len(rs), MaxDrawdown(rs))
           /\ FallsNoMore(rs, Len(rs), MaxDrawdown(rs))
<1> DEFINE n == Len(rs)
           T == [equity : Int, peak : Int, worst : Int]
           base == [equity |-> 0, peak |-> 0, worst |-> 0]
           step == [p \in (1 .. n) \X T |-> DrawStep(p[2], rs[p[1]])]
           iter == CHOOSE h : h = [s \in SUBSET DOMAIN rs |->
                      IF s = {} THEN base ELSE DrawStep(h[s \ {Max(s)}], rs[Max(s)])]
<1>1. MaxDrawdown(rs) = iter[DOMAIN rs].worst
  BY DEF MaxDrawdown, FoldLeft, MapThenFoldSet
<1>2. n \in Nat /\ DOMAIN rs = 1 .. n /\ \A k \in 1 .. n : rs[k] \in Int
  BY UptoNext
<1>3. base \in T
  OBVIOUS
<1>4. Walked(rs, 0, base)
  <2>1. Upto(rs, 0) = 0 /\ 0 \in 0 .. 0 /\ \A j \in 0 .. 0 : j = 0
    BY UptoNext
  <2>2. FallsBy(rs, 0, 0) /\ FallsNoMore(rs, 0, 0)
    BY <2>1 DEF FallsBy, FallsNoMore
  <2> QED BY <2>1, <2>2 DEF Walked
<1> HIDE DEF n, iter, base
<1>5. ASSUME NEW a \in T, NEW r \in Int PROVE DrawStep(a, r) \in T
  <2>1. a.equity \in Int /\ a.peak \in Int /\ a.worst \in Int
    OBVIOUS
  <2>2. Max({a.peak, a.equity + r}) \in Int
    BY <2>1, MaxPair
  <2>3. Max({a.worst, Max({a.peak, a.equity + r}) - (a.equity + r)}) \in Int
    BY <2>1, <2>2, MaxPair, SMTT(40)
  <2> QED BY <2>1, <2>2, <2>3 DEF DrawStep
<1> HIDE DEF T
<1>6. step \in [(1 .. n) \X T -> T]
  BY <1>2, <1>5
<1>7. \A k \in 1 .. n : \A t \in T : step[<<k, t>>] = DrawStep(t, rs[k])
  OBVIOUS
<1> HIDE DEF step
<1>8. PICK g \in [SUBSET (1 .. n) -> T] : Steps(g, step, base, SUBSET (1 .. n))
  BY <1>2, <1>3, <1>6, StepsExist
<1>9. \A s \in SUBSET (1 .. n) :
         (IF s = {} THEN base ELSE step[<<Top(s), g[s \ {Top(s)}]>>])
         = IF s = {} THEN base ELSE DrawStep(g[s \ {Max(s)}], rs[Max(s)])
  <2>1. ASSUME NEW s \in SUBSET (1 .. n), s # {}
        PROVE  Top(s) \in 1 .. n /\ g[s \ {Top(s)}] \in T
    <3>1. Top(s) \in s /\ s \ {Top(s)} \in SUBSET (1 .. n)
      BY <1>2, <2>1, TopLast
    <3> QED BY <3>1
  <2>2. ASSUME NEW s \in SUBSET (1 .. n), s # {}
        PROVE  step[<<Top(s), g[s \ {Top(s)}]>>] = DrawStep(g[s \ {Max(s)}], rs[Max(s)])
    BY <1>7, <2>1, <2>2 DEF Top
  <2> QED BY <2>2
<1>10. g = [s \in SUBSET DOMAIN rs |->
              IF s = {} THEN base ELSE DrawStep(g[s \ {Max(s)}], rs[Max(s)])]
  <2>1. g = [s \in SUBSET (1 .. n) |-> IF s = {} THEN base ELSE step[<<Top(s), g[s \ {Top(s)}]>>]]
    BY <1>8 DEF Steps
  <2> QED BY <1>2, <1>9, <2>1
<1>11. iter = [s \in SUBSET DOMAIN rs |->
              IF s = {} THEN base ELSE DrawStep(iter[s \ {Max(s)}], rs[Max(s)])]
  BY <1>10 DEF iter
<1>12. \A s \in SUBSET (1 .. n) :
          iter[s] = IF s = {} THEN base ELSE DrawStep(iter[s \ {Max(s)}], rs[Max(s)])
  BY <1>2, <1>11
<1> DEFINE B == {k \in 0 .. n : iter[1 .. k] \in T /\ Walked(rs, k, iter[1 .. k])}
<1>13. 0 \in B
  <2>1. 1 .. 0 = {} /\ {} \in SUBSET (1 .. n)
    OBVIOUS
  <2>2. iter[1 .. 0] = base
    BY <1>12, <2>1
  <2>3. 0 \in 0 .. n
    BY <1>2
  <2> QED BY <1>3, <1>4, <2>2, <2>3
<1>14. \A k \in 1 .. n : k - 1 \in B => k \in B
  <2> SUFFICES ASSUME NEW k \in 1 .. n, k - 1 \in B PROVE k \in B
    OBVIOUS
  <2>1. iter[1 .. k] = DrawStep(iter[1 .. k - 1], rs[k])
    BY <1>2, <1>12, TopOfPrefix
  <2>2. iter[1 .. k - 1] \in T /\ rs[k] \in Int /\ Walked(rs, k - 1, iter[1 .. k - 1])
    BY <1>2
  <2>3. Walked(rs, k, DrawStep(iter[1 .. k - 1], rs[k]))
    BY <2>2, WalkedNext DEF T, n
  <2>4. k \in 0 .. n
    BY <1>2
  <2> QED BY <1>5, <2>1, <2>2, <2>3, <2>4
<1>15. iter[1 .. n] \in T /\ Walked(rs, n, iter[1 .. n])
  <2>1. 0 .. n \subseteq B
    <3> HIDE DEF B
    <3> QED BY <1>2, <1>13, <1>14, Upwards
  <2> QED BY <1>2, <2>1
<1>16. MaxDrawdown(rs) = iter[1 .. n].worst
  BY <1>1, <1>2
<1> QED BY <1>15, <1>16 DEF T, Walked, n

\* The drawdown is the greatest of the falls.
LEMMA DrawdownGreatest ==
    ASSUME NEW rs \in Seq(Int)
    PROVE  MaxDrawdown(rs) = Max({Curve(rs, p[1]) - Curve(rs, p[2]) :
                                p \in {q \in (0..Len(rs)) \X (0..Len(rs)) : q[1] <= q[2]}})
<1> DEFINE n == Len(rs)
           d == MaxDrawdown(rs)
           S == {Curve(rs, p[1]) - Curve(rs, p[2]) :
                   p \in {q \in (0..n) \X (0..n) : q[1] <= q[2]}}
<1>1. d \in Int /\ FallsBy(rs, n, d) /\ FallsNoMore(rs, n, d)
  BY DrawdownIs
<1>2. \A k \in 0 .. n : Curve(rs, k) = Upto(rs, k) /\ Upto(rs, k) \in Int
  BY CurveIs, UptoNext
<1> HIDE DEF n, d
<1>3. d \in S
  <2>1. PICK a \in 0 .. n, b \in 0 .. n : a <= b /\ d = Upto(rs, a) - Upto(rs, b)
    BY <1>1 DEF FallsBy
  <2>2. <<a, b>> \in {q \in (0..n) \X (0..n) : q[1] <= q[2]}
    BY <2>1
  <2>3. d = Curve(rs, <<a, b>>[1]) - Curve(rs, <<a, b>>[2])
    BY <1>2, <2>1
  <2> QED BY <2>2, <2>3
<1>4. \A x \in S : x \in Int /\ x <= d
  <2> SUFFICES ASSUME NEW p \in {q \in (0..n) \X (0..n) : q[1] <= q[2]}
               PROVE  Curve(rs, p[1]) - Curve(rs, p[2]) \in Int
                      /\ Curve(rs, p[1]) - Curve(rs, p[2]) <= d
    OBVIOUS
  <2>1. p[1] \in 0 .. n /\ p[2] \in 0 .. n /\ p[1] <= p[2]
    OBVIOUS
  <2>2. Upto(rs, p[1]) - Upto(rs, p[2]) <= d
    BY <1>1, <2>1 DEF FallsNoMore
  <2> QED BY <1>2, <2>1, <2>2
<1> HIDE DEF S
<1>5. \E x \in S : \A y \in S : x >= y
  BY <1>1, <1>3, <1>4
<1>6. Max(S) \in S /\ \A y \in S : Max(S) >= y
  BY <1>5 DEF Max
<1>7. Max(S) = d
  <2>1. Max(S) \in Int /\ Max(S) <= d
    BY <1>4, <1>6
  <2>2. Max(S) >= d
    BY <1>3, <1>6
  <2> QED BY <1>1, <2>1, <2>2
<1> QED BY <1>7 DEF S, d, n

\* Every trade is won, lost or a scratch.
LEMMA Tally ==
    ASSUME NEW rs \in Seq(Int)
    PROVE  /\ Total(Wins(rs)) \in Nat /\ Total(Losses(rs)) \in Int /\ -Total(Losses(rs)) \in Nat
           /\ Total(rs) = Total(Wins(rs)) + Total(Losses(rs))
<1> DEFINE D == DOMAIN rs
           W == {i \in D : rs[i] > 0}
           L == {i \in D : rs[i] < 0}
           Z == {i \in D : rs[i] = 0}
           S(I) == SumFunctionOnSet(rs, I)
<1>1. D = 1 .. Len(rs) /\ Len(rs) \in Nat /\ \A i \in D : rs[i] \in Int
  BY UptoNext
<1>2. IsFiniteSet(W) /\ IsFiniteSet(L) /\ IsFiniteSet(Z) /\ IsFiniteSet(W \cup L)
  <2>1. IsFiniteSet(D)
    BY <1>1, FS_Interval
  <2> QED BY <2>1, FS_Subset
<1>3. Total(Wins(rs)) = S(W) /\ Total(Losses(rs)) = S(L)
  <2>1. W \in SUBSET (DOMAIN rs) /\ L \in SUBSET (DOMAIN rs)
    OBVIOUS
  <2>2. SumFunction(Filtered(rs, W)) = S(W) /\ SumFunction(Filtered(rs, L)) = S(L)
    <3> HIDE DEF W, L
    <3> QED BY <2>1, SumFiltered
  <2> QED BY <2>2 DEF Total, Wins, Losses
<1>4. S(W) \in Nat
  <2>1. \A i \in W : rs[i] \in Nat
    BY <1>1
  <2> HIDE DEF W
  <2> QED BY <1>2, <2>1, SumNat
<1>5. -S(L) \in Nat /\ S(L) \in Int
  <2> DEFINE e == [i \in L |-> -rs[i]]
  <2>1. \A i \in L : rs[i] \in Int /\ e[i] = (-1) * rs[i] /\ e[i] \in Nat
    BY <1>1
  <2> HIDE DEF L, e
  <2>2. SumFunctionOnSet(e, L) \in Nat
    BY <1>2, <2>1, SumNat
  <2>3. S(L) \in Int
    BY <1>2, <2>1, SumInt
  <2>4. SumFunctionOnSet(e, L) = (-1) * S(L)
    <3>1. -1 \in Int /\ \A i \in L : rs[i] \in Int /\ e[i] = (-1) * rs[i]
      BY <2>1
    <3> QED BY <1>2, <3>1, SumTimes
  <2> QED BY <2>2, <2>3, <2>4
<1>6. S(Z) = 0
  <2>1. \A i \in Z : rs[i] = 0
    OBVIOUS
  <2> HIDE DEF Z
  <2> QED BY <1>2, <2>1, SumZero
<1>7. D = (W \cup L) \cup Z /\ (W \cup L) \cap Z = {} /\ W \cap L = {}
  BY <1>1
<1>8. \A i \in (W \cup L) \cup Z : rs[i] \in Int
  BY <1>1
<1> HIDE DEF D, W, L, Z
<1>9. S((W \cup L) \cup Z) = S(W \cup L) + S(Z)
  BY <1>2, <1>7, <1>8, SumOfUnion
<1>10. S(W \cup L) = S(W) + S(L)
  BY <1>2, <1>7, <1>8, SumOfUnion
<1>11. Total(rs) = S(D)
  BY DEF Total, SumFunction, D
<1> QED BY <1>3, <1>4, <1>5, <1>6, <1>7, <1>9, <1>10, <1>11

\* A stretch of the record falls no further than the record.
LEMMA StretchFallsLess ==
    ASSUME NEW rs \in Seq(Int), NEW I \in SUBSET (DOMAIN rs), I # {},
           \A x, z \in I : \A y \in x .. z : y \in I
    PROVE  MaxDrawdown(Filtered(rs, I)) <= MaxDrawdown(rs)
<1> DEFINE n == Len(rs)
           part == Filtered(rs, I)
           m == Len(part)
           at == Ascending(I)
           c == at[1] - 1
           B == {k \in 0 .. m : Upto(part, k) = Upto(rs, c + k) - Upto(rs, c)}
<1>1. /\ n \in Nat /\ DOMAIN rs = 1 .. n
      /\ \A k \in 0 .. n : Upto(rs, k) \in Int
      /\ \A k \in 1 .. n : Upto(rs, k) = Upto(rs, k - 1) + rs[k] /\ rs[k] \in Int
  BY UptoNext
<1>2. /\ part \in Seq(Int) /\ m = Cardinality(I) /\ IsFiniteSet(I)
      /\ \A k \in 1 .. m : at[k] \in I /\ part[k] = rs[at[k]]
  BY FilteredKeeps
<1>3. /\ m \in Nat /\ Upto(part, 0) = 0
      /\ \A k \in 0 .. m : Upto(part, k) \in Int
      /\ \A k \in 1 .. m : Upto(part, k) = Upto(part, k - 1) + part[k]
  <2> HIDE DEF part
  <2> QED BY <1>2, UptoNext
<1>4. m >= 1
  <2>1. Cardinality(I) # 0
    BY <1>2, FS_EmptySet
  <2> QED BY <1>2, <1>3, <2>1
<1>5. \A k \in 1 .. m : at[k] = at[1] + k - 1
  <2>1. I \in SUBSET Int
    BY <1>1
  <2> QED BY <1>2, <2>1, AscendingByOne
<1> HIDE DEF n, part, m, at
<1>6. c \in Int /\ c >= 0 /\ c + m <= n
  <2>1. 1 \in 1 .. m /\ m \in 1 .. m
    BY <1>3, <1>4
  <2>2. at[1] \in I /\ at[m] \in I
    BY <1>2, <2>1
  <2>3. at[m] = at[1] + m - 1
    BY <1>5, <2>1
  <2>4. at[1] \in 1 .. n /\ at[m] \in 1 .. n
    BY <1>1, <2>2
  <2>5. m \in Int /\ n \in Int
    BY <1>1, <1>3
  <2> QED BY <2>3, <2>4, <2>5
<1> HIDE DEF c
<1>7. \A k \in 0 .. m : c + k \in 0 .. n
  BY <1>1, <1>3, <1>6
<1>8. 0 \in B
  <2>1. 0 \in 0 .. m /\ c + 0 = c /\ Upto(rs, c) \in Int
    BY <1>1, <1>3, <1>6, <1>7
  <2> QED BY <1>3, <2>1
<1>9. \A k \in 1 .. m : k - 1 \in B => k \in B
  <2> SUFFICES ASSUME NEW k \in 1 .. m, k - 1 \in B PROVE k \in B
    OBVIOUS
  <2>1. k \in 0 .. m /\ k - 1 \in 0 .. m /\ at[k] = c + k
    <3>1. 1 \in 1 .. m
      BY <1>3, <1>4
    <3>2. at[1] \in Int
      BY <1>1, <1>2, <3>1, SMTT(40)
    <3> QED BY <1>3, <1>5, <3>2 DEF c
  <2>2. c + k \in 1 .. n /\ (c + k) - 1 = c + (k - 1)
    BY <1>1, <1>2, <1>6, <2>1, SMTT(40)
  <2>3. Upto(rs, c + k) = Upto(rs, c + (k - 1)) + rs[c + k]
    BY <1>1, <2>2
  <2>4. Upto(part, k) = Upto(part, k - 1) + rs[c + k]
    BY <1>2, <1>3, <2>1
  <2>5. Upto(part, k - 1) = Upto(rs, c + (k - 1)) - Upto(rs, c)
    OBVIOUS
  <2>6. /\ Upto(rs, c + (k - 1)) \in Int /\ Upto(rs, c) \in Int /\ rs[c + k] \in Int
    <3>1. c \in 0 .. n
      BY <1>1, <1>3, <1>6
    <3> QED BY <1>1, <1>7, <2>1, <2>2, <3>1
  <2> QED BY <2>1, <2>3, <2>4, <2>5, <2>6
<1>10. 0 .. m \subseteq B
  <2> HIDE DEF B
  <2> QED BY <1>3, <1>8, <1>9, Upwards
<1>11. \A k \in 0 .. m : Upto(part, k) = Upto(rs, c + k) - Upto(rs, c)
  BY <1>10
<1>12. PICK a \in 0 .. m, b \in 0 .. m :
          a <= b /\ MaxDrawdown(part) = Upto(part, a) - Upto(part, b)
  <2>1. FallsBy(part, m, MaxDrawdown(part))
    BY <1>2, DrawdownIs DEF m
  <2> QED BY <2>1 DEF FallsBy
<1>13. MaxDrawdown(part) = Upto(rs, c + a) - Upto(rs, c + b)
  <2>1. /\ Upto(rs, c + a) \in Int /\ Upto(rs, c + b) \in Int /\ Upto(rs, c) \in Int
    <3>1. c \in 0 .. n
      BY <1>1, <1>3, <1>6
    <3> QED BY <1>1, <1>7, <3>1
  <2> QED BY <1>11, <1>12, <2>1
<1>14. c + a \in 0 .. n /\ c + b \in 0 .. n /\ c + a <= c + b
  BY <1>6, <1>7, <1>12
<1>15. FallsNoMore(rs, n, MaxDrawdown(rs))
  BY DrawdownIs DEF n
<1>16. MaxDrawdown(part) <= MaxDrawdown(rs)
  BY <1>13, <1>14, <1>15 DEF FallsNoMore
<1> QED BY <1>16 DEF part

\* A closed trade as a report reads it.
Row == [r : Int, breached : BOOLEAN, month : Nat, action : STRING]

\* Months in the order of the record.
Rising(rows) == \A i, j \in DOMAIN rows : i <= j => rows[i].month <= rows[j].month

LEMMA ScoredRows ==
    ASSUME NEW rows \in Seq(Results), Rising(rows), NEW stopAware \in BOOLEAN
    PROVE  Scored(rows, stopAware) \in Seq(Row) /\ Rising(Scored(rows, stopAware))
<1> DEFINE n == Len(rows)
           made == [i \in DOMAIN rows |->
                       [rows[i] EXCEPT !.r = RealizedR(rows[i].r, rows[i].breached)]]
<1>1. n \in Nat /\ DOMAIN rows = 1 .. n /\ \A i \in 1 .. n : rows[i] \in Row
  <2>1. \A i \in 1 .. n : rows[i] \in Results
    BY ElementOfSeq, LenProperties
  <2> QED BY <2>1, LenProperties, TradingAssumption DEF Row
<1> HIDE DEF n
<1>2. \A i \in 1 .. n : made[i] \in Row /\ made[i].month = rows[i].month
  BY <1>1 DEF RealizedR, Row
<1>3. made \in Seq(Row) /\ DOMAIN made = DOMAIN rows
  BY <1>1, <1>2
<1>4. rows \in Seq(Row)
  BY <1>1, SeqDef
<1>5. Rising(made)
  BY <1>1, <1>2, <1>3 DEF Rising
<1>6. Scored(rows, stopAware) = IF stopAware THEN made ELSE rows
  BY DEF Scored
<1> HIDE DEF made
<1> QED BY <1>3, <1>4, <1>5, <1>6

LEMMA ResultsTyped ==
    ASSUME NEW rows \in Seq(Row)
    PROVE  /\ Len(rows) \in Nat /\ DOMAIN rows = 1 .. Len(rows) /\ \A i \in DOMAIN rows : rows[i] \in Row
           /\ ResultsOf(rows) \in Seq(Int) /\ Len(ResultsOf(rows)) = Len(rows)
           /\ DOMAIN ResultsOf(rows) = DOMAIN rows
<1>1. Len(rows) \in Nat /\ DOMAIN rows = 1 .. Len(rows) /\ \A i \in DOMAIN rows : rows[i] \in Row
  BY LenProperties, ElementOfSeq
<1>2. \A i \in DOMAIN rows : rows[i].r \in Int
  BY <1>1 DEF Row
<1> QED BY <1>1, <1>2 DEF ResultsOf

\* The results of a group are the group of the results.
LEMMA ResultsFiltered ==
    ASSUME NEW rows \in Seq(Row), NEW I \in SUBSET (DOMAIN rows)
    PROVE  ResultsOf(Filtered(rows, I)) = Filtered(ResultsOf(rows), I)
<1> DEFINE at == Ascending(I)
<1>1. IsFiniteSet(I) /\ I \in SUBSET Int /\ DOMAIN ResultsOf(rows) = DOMAIN rows
  <2>1. Len(rows) \in Nat /\ DOMAIN rows = 1 .. Len(rows)
    BY ResultsTyped
  <2>2. IsFiniteSet(DOMAIN rows)
    BY <2>1, FS_Interval
  <2> QED BY <2>1, <2>2, FS_Subset, ResultsTyped
<1>2. at \in [1 .. Cardinality(I) -> I]
  BY <1>1, AscendingRises
<1>3. \A k \in DOMAIN at : at[k] \in DOMAIN rows
  BY <1>2
<1> HIDE DEF at
<1>4. ResultsOf(Filtered(rows, I)) = [k \in DOMAIN at |-> rows[at[k]].r]
  BY DEF ResultsOf, Filtered, at
<1>5. Filtered(ResultsOf(rows), I) = [k \in DOMAIN at |-> ResultsOf(rows)[at[k]]]
  BY DEF Filtered, at
<1>6. \A k \in DOMAIN at : ResultsOf(rows)[at[k]] = rows[at[k]].r
  BY <1>3 DEF ResultsOf
<1> QED BY <1>4, <1>5, <1>6

\* The places of a month's trades.
MonthOf(rows, m) == {i \in DOMAIN rows : rows[i].month = m}

LEMMA MonthsOf ==
    ASSUME NEW rows \in Seq(Row), NEW months, months = ByGroup(rows, "month"),
           NEW rs, rs = ResultsOf(rows)
    PROVE  /\ DOMAIN months = {rows[i].month : i \in DOMAIN rows} /\ IsFiniteSet(DOMAIN months)
           /\ \A m \in DOMAIN months :
                 /\ months[m].total = SumFunctionOnSet(rs, MonthOf(rows, m))
                 /\ months[m].drawdown = MaxDrawdown(Filtered(rs, MonthOf(rows, m)))
<1>1. /\ Len(rows) \in Nat /\ DOMAIN rows = 1 .. Len(rows) /\ \A i \in DOMAIN rows : rows[i] \in Row
      /\ rs \in Seq(Int) /\ DOMAIN rs = DOMAIN rows
  BY ResultsTyped
<1>2. months = [g \in {rows[i].month : i \in DOMAIN rows} |->
                   BuildScorecard(ResultsOf(Filtered(rows, MonthOf(rows, g))))]
  BY DEF ByGroup, MonthOf
<1>3. DOMAIN months = {rows[i].month : i \in DOMAIN rows}
  BY <1>2
<1>4. IsFiniteSet(DOMAIN months)
  <2> DEFINE f == [i \in DOMAIN rows |-> rows[i].month]
  <2>1. IsFiniteSet(DOMAIN rows)
    BY <1>1, FS_Interval
  <2>2. f \in Surjection(DOMAIN rows, DOMAIN months)
    BY <1>3 DEF Surjection
  <2> QED BY <2>1, <2>2, FS_Surjection
<1>5. ASSUME NEW m \in DOMAIN months
      PROVE  /\ months[m].total = SumFunctionOnSet(rs, MonthOf(rows, m))
             /\ months[m].drawdown = MaxDrawdown(Filtered(rs, MonthOf(rows, m)))
  <2>1. MonthOf(rows, m) \in SUBSET (DOMAIN rows)
    BY DEF MonthOf
  <2>2. ResultsOf(Filtered(rows, MonthOf(rows, m))) = Filtered(rs, MonthOf(rows, m))
    BY <2>1, ResultsFiltered
  <2>3. months[m] = BuildScorecard(Filtered(rs, MonthOf(rows, m)))
    BY <1>2, <1>3, <2>2
  <2>4. Total(Filtered(rs, MonthOf(rows, m))) = SumFunctionOnSet(rs, MonthOf(rows, m))
    BY <1>1, <2>1, SumFiltered DEF Total
  <2> QED BY <2>3, <2>4 DEF BuildScorecard
<1> QED BY <1>3, <1>4, <1>5

LEMMA MonthsAddUp ==
    ASSUME NEW rows \in Seq(Row), NEW months, months = ByGroup(rows, "month")
    PROVE  SumFunction([m \in DOMAIN months |-> months[m].total]) = Total(ResultsOf(rows))
<1> DEFINE S == DOMAIN rows
           G == DOMAIN months
           key == [i \in S |-> rows[i].month]
           t == [m \in G |-> months[m].total]
           rs == ResultsOf(rows)
<1>1. IsFiniteSet(S) /\ DOMAIN rs = S /\ \A i \in S : rs[i] \in Int
  <2>1. Len(rows) \in Nat /\ S = 1 .. Len(rows) /\ rs \in Seq(Int) /\ DOMAIN rs = S
    BY ResultsTyped
  <2>2. \A i \in S : rs[i] \in Int
    <3> HIDE DEF rs
    <3> QED BY <2>1, UptoNext
  <2> QED BY <2>1, <2>2, FS_Interval
<1>2. G = {rows[i].month : i \in S} /\ IsFiniteSet(G)
  BY MonthsOf
<1>3. \A m \in G : t[m] = SumFunctionOnSet(rs, MonthOf(rows, m))
  BY MonthsOf
<1>4. \A m \in G : MonthOf(rows, m) = {i \in S : key[i] = m}
  BY DEF MonthOf
<1>5. key \in [S -> G] /\ DOMAIN t = G
  BY <1>2
<1>6. SumsByGroup(t, G, rs, S, key)
  BY <1>3, <1>4 DEF SumsByGroup
<1>7. SumFunctionOnSet(t, G) = SumFunctionOnSet(rs, S)
  <2>1. IsFiniteSet(S) /\ \A x \in S : rs[x] \in Int
    BY <1>1
  <2>2. IsFiniteSet(G) /\ key \in [S -> G]
    BY <1>2, <1>5
  <2> HIDE DEF S, G, key, t, rs
  <2> QED BY <1>6, <2>1, <2>2, SumOfGroups
<1> QED BY <1>1, <1>5, <1>7 DEF SumFunction, Total

LEMMA MonthsFallLess ==
    ASSUME NEW rows \in Seq(Row), Rising(rows), NEW months, months = ByGroup(rows, "month"),
           NEW m \in DOMAIN months
    PROVE  months[m].drawdown <= MaxDrawdown(ResultsOf(rows))
<1> DEFINE rs == ResultsOf(rows)
           I == MonthOf(rows, m)
<1>1. /\ Len(rows) \in Nat /\ DOMAIN rows = 1 .. Len(rows) /\ \A i \in DOMAIN rows : rows[i] \in Row
      /\ rs \in Seq(Int) /\ DOMAIN rs = DOMAIN rows
  BY ResultsTyped
<1>2. I \in SUBSET (DOMAIN rs) /\ I # {}
  <2>1. PICK i \in DOMAIN rows : rows[i].month = m
    BY MonthsOf
  <2> QED BY <1>1, <2>1 DEF MonthOf
<1>3. \A x, z \in I : \A y \in x .. z : y \in I
  <2> SUFFICES ASSUME NEW x \in I, NEW z \in I, NEW y \in x .. z PROVE y \in I
    OBVIOUS
  <2>1. x \in DOMAIN rows /\ z \in DOMAIN rows /\ rows[x].month = m /\ rows[z].month = m
    BY DEF MonthOf
  <2>2. y \in DOMAIN rows /\ x <= y /\ y <= z
    BY <1>1, <2>1
  <2>3. m <= rows[y].month /\ rows[y].month <= m
    BY <2>1, <2>2 DEF Rising
  <2>4. m \in Nat /\ rows[y].month \in Nat
    BY <1>1, <2>1, <2>2 DEF Row
  <2> QED BY <2>2, <2>3, <2>4 DEF MonthOf
<1>4. months[m].drawdown = MaxDrawdown(Filtered(rs, I))
  BY MonthsOf
<1>5. MaxDrawdown(Filtered(rs, I)) <= MaxDrawdown(rs)
  <2> HIDE DEF rs, I
  <2> QED BY <1>1, <1>2, <1>3, StretchFallsLess
<1> QED BY <1>4, <1>5

\* The factor: one and the mean in thousandths, rounded, within its band.
LEMMA FactorLeans ==
    ASSUME NEW n \in Nat \ {0}, NEW total \in Int
    PROVE  /\ total <= 0 => ConfidenceFactor(n, total) <= 1000
           /\ total >= 0 => ConfidenceFactor(n, total) >= 1000
           /\ total >= 2 * n => ConfidenceFactor(n, total) >= 1200
<1> DEFINE x == 200 * total + n
           y == 2 * n
           q == x \div y
<1>1. x \in Int /\ y \in Nat \ {0}
  OBVIOUS
<1>2. q \in Int /\ y * q <= x /\ x < (y * q) + y
  <2> HIDE DEF x, y
  <2>1. q \in Int
    BY <1>1
  <2>2. x % y \in 0 .. (y - 1) /\ x = (y * q) + (x % y)
    BY <1>1
  <2>3. y * q \in Int /\ x % y \in Int /\ 0 <= x % y /\ x % y <= y - 1
    BY <1>1, <2>1, <2>2
  <2> QED BY <1>1, <2>1, <2>2, <2>3
<1>3. total <= 0 => q <= 0
  <2> SUFFICES ASSUME total <= 0, q >= 1 PROVE FALSE
    BY <1>2
  <2>1. x < y
    OBVIOUS
  <2>2. y * q >= y
    <3> HIDE DEF y, q
    <3> QED BY <1>1, <1>2
  <2>3. y * q \in Int
    <3> HIDE DEF y, q
    <3> QED BY <1>1, <1>2
  <2> HIDE DEF x, y, q
  <2> QED BY <1>1, <1>2, <2>1, <2>2, <2>3
<1>4. ASSUME NEW b \in Nat, x >= b * y PROVE q >= b
  <2> SUFFICES ASSUME q <= b - 1 PROVE FALSE
    BY <1>2
  <2> HIDE DEF x, y, q
  <2>1. y * q <= y * (b - 1)
    BY <1>1, <1>2
  <2>2. y * (b - 1) = (b * y) - y
    BY <1>1
  <2>3. y * q \in Int /\ b * y \in Int
    BY <1>1, <1>2
  <2> QED BY <1>1, <1>2, <1>4, <2>1, <2>2, <2>3
<1>5. total >= 0 => q >= 0
  <2>1. total >= 0 => x >= 0 * y
    OBVIOUS
  <2> QED BY <1>4, <2>1
<1>6. total >= 2 * n => q >= 200
  <2>1. total >= 2 * n => x >= 200 * y
    OBVIOUS
  <2> HIDE DEF x, y, q
  <2> QED BY <1>4, <2>1
<1>7. PICK capped : capped = Min({1500, 1000 + q})
  OBVIOUS
<1>8. ConfidenceFactor(n, total) = Max({500, capped})
  BY <1>7 DEF ConfidenceFactor
<1> HIDE DEF q
<1>9. capped \in Int /\ capped = (IF 1500 <= 1000 + q THEN 1500 ELSE 1000 + q)
  BY <1>2, <1>7, MinPair
<1>10. Max({500, capped}) = (IF 500 >= capped THEN 500 ELSE capped)
  BY <1>9, MaxPair
<1> QED BY <1>2, <1>3, <1>5, <1>6, <1>8, <1>9, <1>10

\* The two verdicts on the same sums.
LEMMA ReflectAgrees ==
    ASSUME NEW n \in Nat, NEW won \in Nat, NEW lost \in Nat, NEW total, total = won - lost,
           NEW read, read = Reflect(n, total, won, lost)
    PROVE  /\ BoardVerdict(n, won, lost) = "PASS" => read.verdict \in {"GREEN", "AMBER"}
           /\ BoardVerdict(n, won, lost) = "FAIL" => read.verdict = "RED"
           /\ read.verdict = "RED" => read.factor <= 1000
           /\ read.verdict = "AMBER" => read.factor >= 1000
           /\ read.verdict = "GREEN" => read.factor >= 1200
<1> DEFINE factor == ConfidenceFactor(n, total)
           green == total >= 2 * n /\ (lost = 0 \/ 10 * won >= 13 * lost)
           red == ~green /\ (total <= 0 \/ (lost > 0 /\ won < lost))
<1>1. n < MinSample => read = [verdict |-> "INCONCLUSIVE", factor |-> 1000]
  BY DEF Reflect
<1>2. n >= MinSample =>
        read = [factor |-> factor, verdict |-> CASE green -> "GREEN" [] red -> "RED" [] OTHER -> "AMBER"]
  BY ScoresAssumption DEF Reflect
<1>3. BoardVerdict(n, won, lost) = "PASS" => n >= MinSample /\ lost > 0 /\ 10 * won > 12 * lost
  BY ScoresAssumption DEF BoardVerdict
<1>4. BoardVerdict(n, won, lost) = "FAIL" => n >= MinSample /\ lost > 0 /\ won < lost
  BY ScoresAssumption DEF BoardVerdict
<1>5. CASE n < MinSample
  <2>1. read.verdict = "INCONCLUSIVE"
    BY <1>1, <1>5
  <2> QED BY <1>3, <1>4, <1>5, <2>1, ScoresAssumption
<1>6. CASE n >= MinSample
  <2>1. n \in Nat \ {0} /\ total \in Int
    BY <1>6, ScoresAssumption
  <2>2. /\ total <= 0 => factor <= 1000
        /\ total >= 0 => factor >= 1000
        /\ total >= 2 * n => factor >= 1200
    BY <2>1, FactorLeans
  <2> HIDE DEF factor
  <2>3. read.factor = factor
    BY <1>2, <1>6
  <2>4. read.verdict = CASE green -> "GREEN" [] red -> "RED" [] OTHER -> "AMBER"
    BY <1>2, <1>6
  <2>5. green => total >= 2 * n /\ read.verdict = "GREEN"
    BY <2>4
  <2>6. red => total <= 0 /\ read.verdict = "RED"
    BY <2>4
  <2>7. ~green /\ ~red => total > 0 /\ read.verdict = "AMBER"
    BY <2>1, <2>4
  <2>8. lost > 0 /\ 10 * won > 12 * lost => ~red
    OBVIOUS
  <2>9. lost > 0 /\ won < lost => red
    BY <2>1
  <2> HIDE DEF green, red
  <2> QED BY <1>3, <1>4, <2>1, <2>2, <2>3, <2>5, <2>6, <2>7, <2>8, <2>9
<1> QED BY <1>5, <1>6, ScoresAssumption

\* What VerdictsAgree says of one reading of the record.
Agreement(rs, board, card, months) ==
    /\ board.verdict = "PASS" => card.verdict \in {"GREEN", "AMBER"}
    /\ board.verdict = "FAIL" => card.verdict = "RED"
    /\ card.verdict = "RED" => card.factor <= 1000
    /\ card.verdict = "AMBER" => card.factor >= 1000
    /\ card.verdict = "GREEN" => card.factor >= 1200
    /\ SumFunction([m \in DOMAIN months |-> months[m].total]) = card.total
    /\ \A m \in DOMAIN months : months[m].drawdown <= card.drawdown
    /\ card.drawdown = Max({Curve(rs, p[1]) - Curve(rs, p[2]) :
                          p \in {q \in (0..Len(rs)) \X (0..Len(rs)) : q[1] <= q[2]}})

LEMMA ReadingAgrees ==
    ASSUME NEW rows \in Seq(Row), Rising(rows), NEW rs, rs = ResultsOf(rows),
           NEW board, board = BuildScoreboard(rs), NEW card, card = BuildScorecard(rs),
           NEW months, months = ByGroup(rows, "month")
    PROVE  Agreement(rs, board, card, months)
<1> DEFINE won == Total(Wins(rs))
           lost == -Total(Losses(rs))
           read == Reflect(Len(rs), Total(rs), won, lost)
<1>1. rs \in Seq(Int) /\ Len(rs) \in Nat
  BY ResultsTyped
<1>2. won \in Nat /\ lost \in Nat /\ Total(rs) = won - lost
  <2>1. /\ Total(Wins(rs)) \in Nat /\ Total(Losses(rs)) \in Int /\ -Total(Losses(rs)) \in Nat
        /\ Total(rs) = Total(Wins(rs)) + Total(Losses(rs))
    <3> HIDE DEF won, lost, read
    <3> QED BY <1>1, Tally
  <2> QED BY <2>1
<1>3. board.verdict = BoardVerdict(Len(rs), won, lost)
  BY DEF BuildScoreboard
<1>4. /\ card.verdict = read.verdict /\ card.factor = read.factor
      /\ card.total = Total(rs) /\ card.drawdown = MaxDrawdown(rs)
  BY DEF BuildScorecard
<1> HIDE DEF won, lost
<1>5. /\ BoardVerdict(Len(rs), won, lost) = "PASS" => read.verdict \in {"GREEN", "AMBER"}
      /\ BoardVerdict(Len(rs), won, lost) = "FAIL" => read.verdict = "RED"
      /\ read.verdict = "RED" => read.factor <= 1000
      /\ read.verdict = "AMBER" => read.factor >= 1000
      /\ read.verdict = "GREEN" => read.factor >= 1200
  BY <1>1, <1>2, ReflectAgrees
<1> HIDE DEF read
<1>6. SumFunction([m \in DOMAIN months |-> months[m].total]) = card.total
  BY <1>4, MonthsAddUp
<1>7. \A m \in DOMAIN months : months[m].drawdown <= card.drawdown
  BY <1>4, MonthsFallLess
<1>8. card.drawdown = Max({Curve(rs, p[1]) - Curve(rs, p[2]) :
                         p \in {q \in (0..Len(rs)) \X (0..Len(rs)) : q[1] <= q[2]}})
  BY <1>1, <1>4, DrawdownGreatest
<1> QED BY <1>3, <1>4, <1>5, <1>6, <1>7, <1>8 DEF Agreement

\* The trades close in the order of their months.
RecordInv == record \in Seq(Results) /\ Rising(record)

LEMMA RecordStep == RecordInv /\ [Next]_vars => RecordInv'
<1> SUFFICES ASSUME RecordInv, [Next]_vars PROVE RecordInv'
  OBVIOUS
<1>1. ASSUME NEW t \in Results, UsdTradeCloses(t) PROVE RecordInv'
  <2> DEFINE n == Len(record)
  <2>1. /\ record' = Append(record, t)
        /\ \A i \in DOMAIN record : record[i].month <= t.month
    BY <1>1 DEF UsdTradeCloses
  <2>2. record \in Seq(Results) /\ n \in Nat /\ DOMAIN record = 1 .. n
    BY LenProperties DEF RecordInv
  <2>3. /\ record' \in Seq(Results) /\ DOMAIN record' = 1 .. n + 1
        /\ record'[n + 1] = t /\ \A i \in 1 .. n : record'[i] = record[i]
    BY <2>1, <2>2, AppendProperties
  <2>4. \A x \in Results : x.month \in Nat
    BY TradingAssumption
  <2> HIDE DEF n
  <2>5. ASSUME NEW i \in 1 .. n + 1, NEW j \in 1 .. n + 1, i <= j
        PROVE  record'[i].month <= record'[j].month
    <3>1. CASE j = n + 1 /\ i = n + 1
      <4>1. t.month \in Int
        BY <2>4
      <4> QED BY <2>3, <3>1, <4>1
    <3>2. CASE j = n + 1 /\ i # n + 1
      <4>1. i \in 1 .. n
        BY <2>2, <3>2
      <4> QED BY <2>1, <2>2, <2>3, <3>2, <4>1
    <3>3. CASE j # n + 1
      <4>1. i \in 1 .. n /\ j \in 1 .. n
        BY <2>2, <2>5, <3>3
      <4>2. record[i].month <= record[j].month
        BY <2>2, <2>5, <4>1 DEF RecordInv, Rising
      <4> QED BY <2>3, <4>1, <4>2
    <3> QED BY <3>1, <3>2, <3>3
  <2> QED BY <2>3, <2>5 DEF RecordInv, Rising
<1>2. ASSUME record' = record PROVE RecordInv'
  BY <1>2 DEF RecordInv, Rising
<1>3. CASE \E new \in Trades, s \in Setups, hvn \in Nodes, fleet \in BOOLEAN, known \in Known :
              ScanCard(new, s, hvn, fleet, known)
  BY <1>2, <1>3 DEF ScanCard
<1>4. CASE \E new, proposed, closed, pnl, open : OperatorAsks(new, proposed, closed, pnl, open)
  BY <1>2, <1>4 DEF OperatorAsks
<1>5. CASE \E i \in DOMAIN book : CloseTrade(i)
  BY <1>2, <1>5 DEF CloseTrade
<1>6. CASE \E t \in Results : UsdTradeCloses(t)
  BY <1>1, <1>6
<1>7. CASE DayTurns
  BY <1>2, <1>7 DEF DayTurns
<1>8. CASE UNCHANGED vars
  BY <1>2, <1>8 DEF vars
<1> QED BY <1>3, <1>4, <1>5, <1>6, <1>7, <1>8 DEF Next

\* However long the record and whatever the trades: the scoreboard and the scorecard do
\* not contradict each other, the months add up, and no month falls further than the whole.
THEOREM VerdictsDoAgree == Spec => []VerdictsAgree
<1>1. Init => RecordInv
  <2> SUFFICES ASSUME Init PROVE RecordInv
    OBVIOUS
  <2>1. record = <<>> /\ <<>> \in Seq(Results) /\ DOMAIN <<>> = {}
    BY EmptySeq DEF Init
  <2> QED BY <2>1 DEF RecordInv, Rising
<1>2. RecordInv => VerdictsAgree
  <2> SUFFICES ASSUME RecordInv PROVE VerdictsAgree
    OBVIOUS
  <2>1. ASSUME NEW stopAware \in BOOLEAN
        PROVE  LET rs     == ResultsOf(Scored(record, stopAware))
                   board  == BuildScoreboard(rs)
                   report == BuildReport(record, stopAware)
               IN  Agreement(rs, board, report.allTime, report.byMonth)
    <3> DEFINE rows == Scored(record, stopAware)
    <3>1. rows \in Seq(Row) /\ Rising(rows)
      BY ScoredRows DEF RecordInv
    <3>2. /\ BuildReport(record, stopAware).allTime = BuildScorecard(ResultsOf(rows))
          /\ BuildReport(record, stopAware).byMonth = ByGroup(rows, "month")
      BY DEF BuildReport
    <3> HIDE DEF rows
    <3>3. Agreement(ResultsOf(rows), BuildScoreboard(ResultsOf(rows)),
                    BuildScorecard(ResultsOf(rows)), ByGroup(rows, "month"))
      BY <3>1, ReadingAgrees
    <3> QED BY <3>2, <3>3 DEF rows
  <2> QED BY <2>1 DEF VerdictsAgree, Agreement
<1> QED BY <1>1, <1>2, RecordStep, PTL DEF Spec
=============================================================================
