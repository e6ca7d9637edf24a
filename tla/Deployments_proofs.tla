------------------------- MODULE Deployments_proofs -------------------------
(***************************************************************************)
(* What is proved of Deployments for every value of its constants: a flip  *)
(* is announced before it is remembered, how often one flip can feed the   *)
(* polls' card and one rejection be taken when markers are lost, and how   *)
(* far the weekly budget of a tier can be overrun.                         *)
(*                                                                         *)
(* The budgets hold for any queue a muster may deploy.  Only the type      *)
(* theorem, at the end, looks into Rank and Allocate.                      *)
(***************************************************************************)
EXTENDS Deployments, CollectionTheorems

Opening == {"deploying", "unique", "cleared"}

\* What each kind of request holds, phase by phase.
PollOK(p) ==
    \/ task[p] = Idle
    \/ task[p] \in [phase : {"read"}, seen : Readings, notify : BOOLEAN]
    \/ task[p] \in [phase : {"alerted"}, seen : Readings, fresh : BOOLEAN]
    \/ /\ p \in Deploying
       /\ task[p] \in [phase : Opening, queue : {<<SellCard>>}, used : {NothingUsed}]

ConfirmOK(c) ==
    \/ task[c] = Idle
    \/ task[c] \in [phase : {"announced"}, card : Rejections]
    \/ task[c] \in [phase : Opening, queue : {<<card>> : card \in Rejections},
                    used : [TradeTypes -> Nat]]

MusterOK(m) ==
    \/ task[m] = Idle
    \/ task[m].phase = "mustered"
    \/ /\ task[m].phase \in Opening /\ task[m].used \in [TradeTypes -> Nat]
       /\ task[m] = [phase |-> task[m].phase, queue |-> task[m].queue,
                     used |-> task[m].used]

RequestsOK ==
    /\ DOMAIN task = Tasks
    /\ \A p \in Polls : PollOK(p)
    /\ \A c \in Confirms : ConfirmOK(c)
    /\ \A m \in Musters : MusterOK(m)

MarksOK ==
    /\ marks \in [retracement : Readings \cup {None},
                  confirm : Rejections \cup {NoRejection}]
    /\ flip \in Readings \cup {None} /\ printed \in Rejections \cup {NoRejection}
    /\ fed \in Nat /\ lost \in Nat /\ taken \in Nat /\ missed \in Nat

\* The table is a sequence whose rows were opened on the days there have been; what
\* a muster makes cards of is not looked at.
RowOf(S) == [card : S, day : Nat, open : BOOLEAN, budgeted : BOOLEAN]

TableOK ==
    /\ day \in Nat
    /\ \E S : rows \in Seq(RowOf(S))
    /\ \A i \in DOMAIN rows : rows[i].day <= day

SourceInv == RequestsOK /\ MarksOK /\ TableOK

\* The polls that can still open a position before the marker is written with another
\* state: a poll that has alerted a state the marker has not starts the count anew.
Feeding ==
    {p \in Polls :
        \/ task[p].phase \in Opening
        \/ /\ task[p].phase = "alerted" /\ task[p].fresh
           /\ task[p].seen = "SELL_OTE" /\ marks.retracement = "SELL_OTE"
           /\ p \in Deploying}

\* The marker holds what it was last written with or nothing, and an empty one has used
\* up what the loss allows for until it is written again.
FedRoom ==
    Cardinality(Deploying) * lost
        + IF flip = "SELL_OTE" /\ marks.retracement = None THEN 0
          ELSE Cardinality(Deploying)

FedInv ==
    /\ marks.retracement \in {flip, None}
    /\ fed + Cardinality(Feeding) <= FedRoom

\* And the confirmations.
Taking ==
    {c \in Confirms :
        \/ task[c].phase \in Opening
        \/ task[c].phase = "announced" /\ task[c].card = marks.confirm}

TakenRoom ==
    (Cardinality(Confirms) + 1) * missed
        + IF marks.confirm = printed THEN Cardinality(Confirms) ELSE 0

TakenInv ==
    /\ marks.confirm \in {printed, NoRejection}
    /\ taken + Cardinality(Taking) <= TakenRoom

\* What the requests under way may still open of a tier, as they have counted it: a
\* token for each use that is left.
Tokens(type) ==
    {token \in Budgeted \X (1 .. WeeklyBudget[type]) :
        /\ task[token[1]].phase \in Opening
        /\ token[2] > task[token[1]].used[type]}

\* A request past its budget check has a token for its card.
Cleared ==
    \A t \in Budgeted :
        task[t].phase \in {"unique", "cleared"} =>
            LET type == Head(task[t].queue).type
            IN  type \in TradeTypes => task[t].used[type] < WeeklyBudget[type]

WeekInv ==
    /\ Cleared
    /\ WeeklyBudgetBounded
    /\ \A type \in TradeTypes :
          Cardinality(BudgetedThisWeek(type, day)) + Cardinality(Tokens(type))
              <= WeeklyBudget[type] * Cardinality(Budgeted)

-----------------------------------------------------------------------------
(* What a request holds.                                                    *)

\* A step of the shared loop leaves a request idle or with the rest of its cards.
LEMMA AfterHeadOK ==
    ASSUME NEW t, task[t].used \in [TradeTypes -> Nat], NEW spent \in {0, 1}
    PROVE  \/ AfterHead(t, spent) = Idle
           \/ /\ Tail(task[t].queue) # <<>>
              /\ \E used \in [TradeTypes -> Nat] :
                    AfterHead(t, spent)
                        = [phase |-> "deploying", queue |-> Tail(task[t].queue), used |-> used]
<1> DEFINE type == Head(task[t].queue).type
           used == [task[t].used EXCEPT ![type] = @ + spent]
<1>1. used \in [TradeTypes -> Nat]
  <2>1. \A n \in Nat : n + spent \in Nat
    OBVIOUS
  <2> QED BY <2>1
<1>2. AfterHead(t, spent) = Deploy(Tail(task[t].queue), used)
  BY DEF AfterHead
<1> HIDE DEF used
<1> QED BY <1>1, <1>2 DEF Deploy

\* With one card to open, done with it is done.
LEMMA AfterOnly ==
    ASSUME NEW t, NEW card, task[t].queue = <<card>>, NEW spent
    PROVE  AfterHead(t, spent) = Idle
<1>1. Tail(<<card>>) = <<>>
  OBVIOUS
<1> QED BY <1>1 DEF AfterHead, Deploy

\* What a step of the loop does to the request that takes it, and that it touches no
\* other.
LEMMA LoopKeeps ==
    ASSUME DOMAIN task = Tasks, NEW t \in Tasks, DeployStep(t)
    PROVE  /\ DOMAIN task' = Tasks /\ \A u \in Tasks \ {t} : task'[u] = task[u]
           /\ task[t].phase \in Opening
           /\ \/ \E spent \in {0, 1} : task'[t] = AfterHead(t, spent)
              \/ task'[t] = [task[t] EXCEPT !.phase = "unique"]
              \/ task'[t] = [task[t] EXCEPT !.phase = "cleared"]
<1>1. CASE SkipOverBudget(t)
  BY <1>1 DEF SkipOverBudget, Opening
<1>2. CASE SkipDuplicate(t)
  BY <1>2 DEF SkipDuplicate, Opening
<1>3. CASE PassDuplicate(t)
  BY <1>3 DEF PassDuplicate, Opening
<1>4. CASE CheckExposure(t)
  BY <1>4 DEF CheckExposure, Opening
<1>5. CASE OpenPosition(t)
  BY <1>5 DEF OpenPosition, Opening
<1> QED BY <1>1, <1>2, <1>3, <1>4, <1>5 DEF DeployStep

LEMMA PollLoop ==
    ASSUME RequestsOK, NEW p \in Polls, DeployStep(p)
    PROVE  /\ PollOK(p)' /\ p \in Deploying
           /\ task'[p] = Idle \/ task'[p].phase \in Opening
           /\ \A u \in Tasks \ {p} : task'[u] = task[u]
           /\ DOMAIN task' = Tasks
<1>1. p \in Tasks /\ PollOK(p) /\ DOMAIN task = Tasks
  BY DEF Tasks, RequestsOK
<1>2. task[p].phase \in Opening
  BY <1>1, LoopKeeps
<1>3. /\ p \in Deploying
      /\ task[p] \in [phase : Opening, queue : {<<SellCard>>}, used : {NothingUsed}]
  BY <1>1, <1>2 DEF PollOK, Opening, Idle
<1>4. \A spent : AfterHead(p, spent) = Idle
  <2>1. task[p].queue = <<SellCard>>
    BY <1>3
  <2> QED BY <2>1, AfterOnly
<1>5. \/ task'[p] = Idle
      \/ task'[p] \in [phase : Opening, queue : {<<SellCard>>}, used : {NothingUsed}]
  <2>1. \/ task'[p] = Idle
        \/ \E phase \in Opening : task'[p] = [task[p] EXCEPT !.phase = phase]
    BY <1>1, <1>4, LoopKeeps DEF Opening
  <2> QED BY <1>3, <2>1
<1> QED BY <1>1, <1>3, <1>5, LoopKeeps DEF PollOK

LEMMA ConfirmLoop ==
    ASSUME RequestsOK, NEW c \in Confirms, DeployStep(c)
    PROVE  /\ ConfirmOK(c)' /\ \A u \in Tasks \ {c} : task'[u] = task[u]
           /\ DOMAIN task' = Tasks
<1> DEFINE Queues == {<<card>> : card \in Rejections}
<1>1. c \in Tasks /\ ConfirmOK(c) /\ DOMAIN task = Tasks
  BY DEF Tasks, RequestsOK
<1>2. task[c].phase \in Opening
  BY <1>1, LoopKeeps
<1>3. task[c] \in [phase : Opening, queue : Queues, used : [TradeTypes -> Nat]]
  BY <1>1, <1>2 DEF ConfirmOK, Opening, Idle
<1>4. \A spent : AfterHead(c, spent) = Idle
  <2>1. PICK card \in Rejections : task[c].queue = <<card>>
    BY <1>3
  <2> QED BY <2>1, AfterOnly
<1> HIDE DEF Queues
<1>5. \/ task'[c] = Idle
      \/ task'[c] \in [phase : Opening, queue : Queues, used : [TradeTypes -> Nat]]
  <2>1. \/ task'[c] = Idle
        \/ \E phase \in Opening : task'[c] = [task[c] EXCEPT !.phase = phase]
    BY <1>1, <1>4, LoopKeeps DEF Opening
  <2> QED BY <1>3, <2>1
<1> QED BY <1>1, <1>5, LoopKeeps DEF ConfirmOK, Queues

LEMMA MusterLoop ==
    ASSUME RequestsOK, NEW m \in Musters, DeployStep(m)
    PROVE  /\ MusterOK(m)' /\ \A u \in Tasks \ {m} : task'[u] = task[u]
           /\ DOMAIN task' = Tasks
<1>1. m \in Tasks /\ MusterOK(m) /\ DOMAIN task = Tasks
  BY DEF Tasks, RequestsOK
<1>2. task[m].phase \in Opening
  BY <1>1, LoopKeeps
<1>3. /\ task[m].used \in [TradeTypes -> Nat]
      /\ task[m] = [phase |-> task[m].phase, queue |-> task[m].queue, used |-> task[m].used]
  BY <1>1, <1>2 DEF MusterOK, Opening, Idle
<1>4. ASSUME NEW spent \in {0, 1}, task'[m] = AfterHead(m, spent)
      PROVE  MusterOK(m)'
  <2>2. CASE task'[m] = Idle
    BY <2>2 DEF MusterOK
  <2>3. CASE \E used \in [TradeTypes -> Nat] :
                 task'[m] = [phase |-> "deploying", queue |-> Tail(task[m].queue), used |-> used]
    BY <2>3 DEF MusterOK, Opening
  <2> QED BY <1>3, <1>4, <2>2, <2>3, AfterHeadOK
<1>5. ASSUME NEW phase \in Opening, task'[m] = [task[m] EXCEPT !.phase = phase]
      PROVE  MusterOK(m)'
  <2>1. task'[m] = [phase |-> phase, queue |-> task[m].queue, used |-> task[m].used]
    BY <1>3, <1>5
  <2> QED BY <1>3, <2>1 DEF MusterOK
<1>6. MusterOK(m)'
  BY <1>1, <1>4, <1>5, LoopKeeps DEF Opening
<1> QED BY <1>1, <1>6, LoopKeeps

LEMMA OthersKeep ==
    ASSUME RequestsOK, NEW t \in Tasks, DOMAIN task' = Tasks,
           \A u \in Tasks \ {t} : task'[u] = task[u],
           t \in Polls => PollOK(t)', t \in Confirms => ConfirmOK(t)',
           t \in Musters => MusterOK(t)'
    PROVE  RequestsOK'
<1>1. ASSUME NEW p \in Polls
      PROVE  PollOK(p)'
  BY DEF RequestsOK, PollOK, Tasks
<1>2. ASSUME NEW c \in Confirms
      PROVE  ConfirmOK(c)'
  BY DEF RequestsOK, ConfirmOK, Tasks
<1>3. ASSUME NEW m \in Musters
      PROVE  MusterOK(m)'
  BY DEF RequestsOK, MusterOK, Tasks
<1> QED BY <1>1, <1>2, <1>3 DEF RequestsOK

LEMMA Apart ==
    /\ \A t \in Polls : t \in Tasks /\ t \notin Confirms /\ t \notin Musters
    /\ \A t \in Confirms : t \in Tasks /\ t \notin Polls /\ t \notin Musters
    /\ \A t \in Musters : t \in Tasks /\ t \notin Polls /\ t \notin Confirms
BY RequestsAssumption DEF Tasks

LEMMA NothingUsedType == NothingUsed \in [TradeTypes -> Nat]
BY DEF NothingUsed

\* One step of a poll.
LEMMA PollsNext ==
    ASSUME RequestsOK, MarksOK, NEW p \in Polls, FetchReading(p) \/ PollStep(p)
    PROVE  RequestsOK'
<1>0. p \in Tasks /\ PollOK(p) /\ DOMAIN task = Tasks
  BY Apart DEF RequestsOK, MarksOK
<1>1. CASE FetchReading(p)
  <2>1. /\ DOMAIN task' = Tasks /\ \A u \in Tasks \ {p} : task'[u] = task[u]
        /\ task'[p] \in [phase : {"read"}, seen : Readings, notify : BOOLEAN]
    BY <1>0, <1>1 DEF FetchReading
  <2> QED BY <1>0, <2>1, OthersKeep, Apart DEF PollOK
<1>2. ASSUME NEW fresh, Mark(p, fresh)
      PROVE  RequestsOK'
  <2>1. /\ DOMAIN task' = Tasks /\ \A u \in Tasks \ {p} : task'[u] = task[u]
        /\ task'[p] = Deploy(IF FeedsPaper(p, fresh) THEN <<SellCard>> ELSE <<>>, NothingUsed)
    BY <1>0, <1>2 DEF Mark
  <2>2. CASE FeedsPaper(p, fresh)
    <3>1. p \in Deploying
      BY <2>2 DEF FeedsPaper
    <3>2. <<SellCard>> # <<>>
      OBVIOUS
    <3>3. task'[p] = [phase |-> "deploying", queue |-> <<SellCard>>, used |-> NothingUsed]
      BY <2>1, <2>2, <3>2 DEF Deploy
    <3>4. task'[p] \in [phase : Opening, queue : {<<SellCard>>}, used : {NothingUsed}]
      BY <3>3 DEF Opening
    <3> QED BY <1>0, <2>1, <3>1, <3>4, OthersKeep, Apart DEF PollOK
  <2>3. CASE ~FeedsPaper(p, fresh)
    <3>1. task'[p] = Idle
      BY <2>1, <2>3 DEF Deploy
    <3> QED BY <1>0, <2>1, <3>1, OthersKeep, Apart DEF PollOK
  <2> QED BY <2>2, <2>3
<1>3. CASE CompareQuiet(p)
  BY <1>2, <1>3 DEF CompareQuiet
<1>4. CASE Alert(p)
  <2>1. task[p] \in [phase : {"read"}, seen : Readings, notify : BOOLEAN]
    BY <1>0, <1>4 DEF Alert, PollOK, Idle, Opening
  <2>2. /\ DOMAIN task' = Tasks /\ \A u \in Tasks \ {p} : task'[u] = task[u]
        /\ task'[p] \in [phase : {"alerted"}, seen : Readings, fresh : BOOLEAN]
    BY <1>0, <1>4, <2>1 DEF Alert, Fresh, Flipped
  <2> QED BY <1>0, <2>2, OthersKeep, Apart DEF PollOK
<1>5. CASE MarkAlerted(p)
  BY <1>2, <1>5 DEF MarkAlerted
<1>6. CASE DeployStep(p)
  <2>1. /\ PollOK(p)' /\ DOMAIN task' = Tasks
        /\ \A u \in Tasks \ {p} : task'[u] = task[u]
    BY <1>6, PollLoop
  <2> QED BY <1>0, <2>1, OthersKeep, Apart
<1> QED BY <1>1, <1>3, <1>4, <1>5, <1>6 DEF PollStep

LEMMA UsedType == TableOK => UsedThisWeek \in [TradeTypes -> Nat]
<1> SUFFICES ASSUME TableOK, NEW type \in TradeTypes
             PROVE  Cardinality({i \in DOMAIN rows : /\ rows[i].card.type = type
                                                     /\ Week(rows[i].day) = Week(day)})
                        \in Nat
  BY DEF UsedThisWeek
<1>1. DOMAIN rows = 1 .. Len(rows) /\ Len(rows) \in Nat
  BY DEF TableOK
<1>2. IsFiniteSet(DOMAIN rows)
  BY <1>1, FS_Interval
<1> QED BY <1>2, FS_Subset, FS_CardinalityType

\* One step of a confirmation.
LEMMA ConfirmsNext ==
    ASSUME RequestsOK, TableOK, NEW c \in Confirms, ConfirmStep(c)
    PROVE  RequestsOK'
<1>0. c \in Tasks /\ ConfirmOK(c) /\ DOMAIN task = Tasks
  BY Apart DEF RequestsOK
<1>1. ASSUME NEW card \in Rejections, Take(c, card)
      PROVE  RequestsOK'
  <2>1. UsedThisWeek \in [TradeTypes -> Nat]
    BY UsedType
  <2>2. /\ DOMAIN task' = Tasks /\ \A u \in Tasks \ {c} : task'[u] = task[u]
        /\ task'[c] = Deploy(<<card>>, UsedThisWeek)
    BY <1>0, <1>1 DEF Take
  <2>3. <<card>> # <<>>
    OBVIOUS
  <2>4. task'[c] = [phase |-> "deploying", queue |-> <<card>>, used |-> UsedThisWeek]
    BY <2>2, <2>3 DEF Deploy
  <2>5. task'[c] \in [phase : Opening, queue : {<<rejection>> : rejection \in Rejections},
                      used : [TradeTypes -> Nat]]
    BY <2>1, <2>4 DEF Opening
  <2> QED BY <1>0, <2>2, <2>5, OthersKeep, Apart DEF ConfirmOK
<1>2. CASE DropRejection(c)
  <2>1. task' = task
    BY <1>2 DEF DropRejection
  <2>2. ConfirmOK(c)'
    BY <1>0, <2>1 DEF ConfirmOK
  <2> QED BY <1>0, <2>1, <2>2, OthersKeep, Apart
<1>3. CASE AnnounceRejection(c)
  <2>1. /\ DOMAIN task' = Tasks /\ \A u \in Tasks \ {c} : task'[u] = task[u]
        /\ task'[c] \in [phase : {"announced"}, card : Rejections]
    BY <1>0, <1>3 DEF AnnounceRejection
  <2> QED BY <1>0, <2>1, OthersKeep, Apart DEF ConfirmOK
<1>4. CASE MarkRejection(c)
  <2>1. task[c].card \in Rejections
    BY <1>0, <1>4 DEF MarkRejection, ConfirmOK, Idle, Opening
  <2> QED BY <1>1, <1>4, <2>1 DEF MarkRejection
<1>5. CASE MarkQuietly(c)
  BY <1>1, <1>5 DEF MarkQuietly
<1>6. CASE DeployStep(c)
  <2>1. /\ ConfirmOK(c)' /\ DOMAIN task' = Tasks
        /\ \A u \in Tasks \ {c} : task'[u] = task[u]
    BY <1>6, ConfirmLoop
  <2> QED BY <1>0, <2>1, OthersKeep, Apart
<1> QED BY <1>2, <1>3, <1>4, <1>5, <1>6 DEF ConfirmStep

\* One step of a muster.
LEMMA MustersNext ==
    ASSUME RequestsOK, TableOK,
           NEW m \in Musters, Muster(m) \/ MusterStep(m)
    PROVE  RequestsOK'
<1>0. m \in Tasks /\ MusterOK(m) /\ DOMAIN task = Tasks
  BY Apart DEF RequestsOK
<1>1. CASE Muster(m)
  <2>1. /\ DOMAIN task' = Tasks /\ \A u \in Tasks \ {m} : task'[u] = task[u]
        /\ task'[m].phase = "mustered"
    BY <1>0, <1>1 DEF Muster
  <2> QED BY <1>0, <2>1, OthersKeep, Apart DEF MusterOK
<1>2. CASE Engage(m)
  <2>1. UsedThisWeek \in [TradeTypes -> Nat]
    BY UsedType
  <2>2. /\ DOMAIN task' = Tasks /\ \A u \in Tasks \ {m} : task'[u] = task[u]
        /\ \E queue : task'[m] = Deploy(queue, UsedThisWeek)
    BY <1>0, <1>2 DEF Engage
  <2>3. \/ task'[m] = Idle
        \/ \E queue : task'[m] = [phase |-> "deploying", queue |-> queue, used |-> UsedThisWeek]
    BY <2>2 DEF Deploy
  <2>4. MusterOK(m)'
    <3>1. CASE task'[m] = Idle
      BY <3>1 DEF MusterOK
    <3>2. ASSUME NEW queue,
                 task'[m] = [phase |-> "deploying", queue |-> queue, used |-> UsedThisWeek]
          PROVE  MusterOK(m)'
      BY <2>1, <3>2 DEF MusterOK, Opening
    <3> QED BY <2>3, <3>1, <3>2
  <2> QED BY <1>0, <2>2, <2>4, OthersKeep, Apart
<1>3. CASE DeployStep(m)
  <2>1. /\ MusterOK(m)' /\ DOMAIN task' = Tasks
        /\ \A u \in Tasks \ {m} : task'[u] = task[u]
    BY <1>3, MusterLoop
  <2> QED BY <1>0, <2>1, OthersKeep, Apart
<1> QED BY <1>1, <1>2, <1>3 DEF MusterStep

\* A failure forgets a request.
LEMMA FailuresNext ==
    ASSUME RequestsOK, RequestFails \/ AppRestarts
    PROVE  RequestsOK'
<1>1. DOMAIN task = Tasks
  BY DEF RequestsOK
<1>2. /\ DOMAIN task' = Tasks
      /\ \A t \in Tasks : task'[t] = task[t] \/ task'[t] = Idle
  BY <1>1 DEF RequestFails, AppRestarts
<1>3. ASSUME NEW p \in Polls
      PROVE  PollOK(p)'
  BY <1>2, Apart DEF RequestsOK, PollOK
<1>4. ASSUME NEW c \in Confirms
      PROVE  ConfirmOK(c)'
  BY <1>2, Apart DEF RequestsOK, ConfirmOK
<1>5. ASSUME NEW m \in Musters
      PROVE  MusterOK(m)'
  BY <1>2, Apart DEF RequestsOK, MusterOK
<1> QED BY <1>2, <1>3, <1>4, <1>5 DEF RequestsOK

LEMMA RequestsNext ==
    ASSUME SourceInv, [Next]_vars
    PROVE  RequestsOK'
<1>1. RequestsOK /\ MarksOK /\ TableOK
  BY DEF SourceInv
<1>2. ASSUME UNCHANGED task
      PROVE  RequestsOK'
  BY <1>1, <1>2 DEF RequestsOK, PollOK, ConfirmOK, MusterOK
<1>3. CASE DayPasses \/ PositionCloses \/ UNCHANGED vars
  BY <1>2, <1>3 DEF DayPasses, PositionCloses, vars
<1> QED
  BY <1>1, <1>3, PollsNext, ConfirmsNext, MustersNext, FailuresNext DEF Next

\* The last line of a row and its day stay; a new row is of today.
LEMMA RowsNext ==
    ASSUME TableOK, [Next]_vars
    PROVE  /\ \/ rows' = rows
              \/ \E i \in DOMAIN rows : rows' = [rows EXCEPT ![i].open = FALSE]
              \/ \E t \in Tasks : OpenPosition(t)
           /\ \/ day' = day
              \/ day' \in Days /\ day' > day /\ rows' = rows /\ task' = task
<1>1. ASSUME NEW t \in Tasks, DeployStep(t)
      PROVE  day' = day /\ (rows' = rows \/ OpenPosition(t))
  BY <1>1 DEF DeployStep, SkipOverBudget, SkipDuplicate, PassDuplicate, CheckExposure,
              OpenPosition
<1>2. ASSUME NEW p \in Polls, FetchReading(p) \/ PollStep(p)
      PROVE  day' = day /\ (rows' = rows \/ OpenPosition(p))
  BY <1>1, <1>2, Apart
  DEF PollStep, FetchReading, CompareQuiet, Alert, MarkAlerted
<1>3. ASSUME NEW c \in Confirms, ConfirmStep(c)
      PROVE  day' = day /\ (rows' = rows \/ OpenPosition(c))
  BY <1>1, <1>3, Apart
  DEF ConfirmStep, DropRejection, AnnounceRejection, MarkRejection, MarkQuietly, Take
<1>4. ASSUME NEW m \in Musters, Muster(m) \/ MusterStep(m)
      PROVE  day' = day /\ (rows' = rows \/ OpenPosition(m))
  BY <1>1, <1>4, Apart DEF MusterStep, Muster, Engage
<1>5. CASE DayPasses \/ PositionCloses \/ RequestFails \/ AppRestarts
             \/ UNCHANGED vars
  BY <1>5 DEF DayPasses, PositionCloses, RequestFails, AppRestarts, vars
<1> QED BY <1>2, <1>3, <1>4, <1>5, Apart DEF Next

LEMMA WiderRows ==
    ASSUME NEW S, NEW T, S \subseteq T, NEW s \in Seq(RowOf(S))
    PROVE  s \in Seq(RowOf(T))
<1>1. RowOf(S) \subseteq RowOf(T)
  BY DEF RowOf
<1> QED BY <1>1

\* What the row of an opened position is, and that the others stay.
LEMMA OpenedRow ==
    ASSUME TableOK, NEW t \in Tasks, OpenPosition(t), NEW n, n = Len(rows) + 1
    PROVE  /\ n \notin DOMAIN rows /\ DOMAIN rows' = DOMAIN rows \cup {n}
           /\ rows'[n] = NewRow(t) /\ \A i \in DOMAIN rows : rows'[i] = rows[i]
           /\ \E S : rows' \in Seq(RowOf(S))
<1> DEFINE row == NewRow(t)
<1>1. rows' = Append(rows, row)
  BY DEF OpenPosition
<1>2. PICK S : rows \in Seq(RowOf(S))
  BY DEF TableOK
<1>3. PICK T : T = S \cup {row.card}
  OBVIOUS
<1>4. row \in RowOf(T)
  BY <1>3 DEF NewRow, RowOf, TableOK
<1> HIDE DEF row
<1>5. rows \in Seq(RowOf(T))
  BY <1>2, <1>3, WiderRows
<1>6. rows' \in Seq(RowOf(T))
  BY <1>1, <1>4, <1>5
<1>7. /\ n \notin DOMAIN rows /\ DOMAIN rows' = DOMAIN rows \cup {n}
      /\ rows'[n] = row /\ \A i \in DOMAIN rows : rows'[i] = rows[i]
  BY <1>1, <1>5
<1> QED BY <1>6, <1>7 DEF row

\* What no step changes of a row but whether it is open.
LEMMA ClosedRow ==
    ASSUME TableOK, NEW i \in DOMAIN rows, rows' = [rows EXCEPT ![i].open = FALSE]
    PROVE  /\ DOMAIN rows' = DOMAIN rows /\ \E S : rows' \in Seq(RowOf(S))
           /\ \A j \in DOMAIN rows : /\ rows'[j].card = rows[j].card
                                     /\ rows'[j].day = rows[j].day
                                     /\ rows'[j].budgeted = rows[j].budgeted
<1>1. PICK S : rows \in Seq(RowOf(S))
  BY DEF TableOK
<1>2. rows' \in Seq(RowOf(S)) /\ DOMAIN rows' = DOMAIN rows
  <2>1. PICK r : r = [rows[i] EXCEPT !.open = FALSE]
    OBVIOUS
  <2>2. r \in RowOf(S)
    <3>1. rows[i] \in RowOf(S)
      BY <1>1
    <3> QED BY <2>1, <3>1 DEF RowOf
  <2>3. rows' = [rows EXCEPT ![i] = r]
    BY <2>1
  <2>4. PICK after : after = rows'
    OBVIOUS
  <2>5. after \in Seq(RowOf(S)) /\ DOMAIN after = DOMAIN rows
    BY <1>1, <2>2, <2>3, <2>4
  <2> QED BY <2>4, <2>5
<1>3. ASSUME NEW j \in DOMAIN rows
      PROVE  /\ rows'[j].card = rows[j].card /\ rows'[j].day = rows[j].day
             /\ rows'[j].budgeted = rows[j].budgeted
  <2>1. rows[j] \in RowOf(S)
    BY <1>1
  <2>2. rows'[j] = rows[j] \/ rows'[j] = [rows[j] EXCEPT !.open = FALSE]
    BY <1>1
  <2> QED BY <2>1, <2>2 DEF RowOf
<1> QED BY <1>2, <1>3

LEMMA TableNext ==
    ASSUME TableOK, [Next]_vars
    PROVE  TableOK'
<1>1. day \in Nat /\ day' \in Nat /\ day <= day'
  BY RowsNext, CardsAssumption DEF TableOK
<1>2. CASE rows' = rows
  <2>1. \A i \in DOMAIN rows : rows[i].day \in Nat
    <3>1. PICK S : rows \in Seq(RowOf(S))
      BY DEF TableOK
    <3>2. \A i \in DOMAIN rows : rows[i] \in RowOf(S)
      BY <3>1
    <3> QED BY <3>2 DEF RowOf
  <2> QED BY <1>1, <1>2, <2>1 DEF TableOK
<1>3. ASSUME NEW i \in DOMAIN rows, rows' = [rows EXCEPT ![i].open = FALSE], day' = day
      PROVE  TableOK'
  BY <1>1, <1>3, ClosedRow DEF TableOK
<1>4. ASSUME NEW t \in Tasks, OpenPosition(t)
      PROVE  TableOK'
  <2>1. PICK n : n = Len(rows) + 1
    OBVIOUS
  <2>2. day' = day /\ NewRow(t).day = day
    BY <1>4 DEF OpenPosition, NewRow
  <2>3. \A i \in DOMAIN rows' : rows'[i].day <= day
    BY <1>1, <1>4, <2>1, <2>2, OpenedRow DEF TableOK
  <2>4. \E S : rows' \in Seq(RowOf(S))
    BY <1>4, <2>1, OpenedRow
  <2> QED BY <1>1, <2>2, <2>3, <2>4 DEF TableOK
<1> QED BY <1>2, <1>3, <1>4, RowsNext

\* What becomes of a marker that is written, and of its history.
LEMMA StateWritten ==
    ASSUME MarksOK, NEW state, WriteState(state)
    PROVE  /\ marks' = [retracement |-> marks'.retracement, confirm |-> marks.confirm]
           /\ \/ /\ marks'.retracement = state /\ flip' = state
                 /\ IF state = flip THEN fed' = fed /\ lost' = lost ELSE fed' = 0 /\ lost' = 0
              \/ /\ marks'.retracement \in {marks.retracement, None}
                 /\ flip' = flip /\ fed' = fed /\ lost' = lost + 1
<1>1. PICK ok \in BOOLEAN :
        /\ marks' \in IF ok THEN {[marks EXCEPT !.retracement = state]}
                      ELSE {marks, [marks EXCEPT !.retracement = None]}
        /\ flip' = IF ok THEN state ELSE flip
        /\ fed' = IF ok /\ state # flip THEN 0 ELSE fed
        /\ lost' = IF ~ok THEN lost + 1 ELSE IF state # flip THEN 0 ELSE lost
  BY DEF WriteState
<1>2. CASE ok
  BY <1>1, <1>2 DEF MarksOK
<1>3. CASE ~ok
  BY <1>1, <1>3 DEF MarksOK
<1> QED BY <1>2, <1>3

LEMMA RejectionWritten ==
    ASSUME MarksOK, NEW card, WriteRejection(card)
    PROVE  /\ marks' = [retracement |-> marks.retracement, confirm |-> marks'.confirm]
           /\ \/ /\ marks'.confirm = card /\ printed' = card
                 /\ IF card = printed THEN taken' = taken /\ missed' = missed
                    ELSE taken' = 0 /\ missed' = 0
              \/ /\ marks'.confirm \in {marks.confirm, NoRejection}
                 /\ printed' = printed /\ taken' = taken /\ missed' = missed + 1
<1>1. PICK ok \in BOOLEAN :
        /\ marks' \in IF ok THEN {[marks EXCEPT !.confirm = card]}
                      ELSE {marks, [marks EXCEPT !.confirm = NoRejection]}
        /\ printed' = IF ok THEN card ELSE printed
        /\ taken' = IF ok /\ card # printed THEN 0 ELSE taken
        /\ missed' = IF ~ok THEN missed + 1 ELSE IF card # printed THEN 0 ELSE missed
  BY DEF WriteRejection
<1>2. CASE ok
  BY <1>1, <1>2 DEF MarksOK
<1>3. CASE ~ok
  BY <1>1, <1>3 DEF MarksOK
<1> QED BY <1>2, <1>3

LEMMA MarksNext ==
    ASSUME SourceInv, [Next]_vars
    PROVE  MarksOK'
<1>0. MarksOK /\ RequestsOK
  BY DEF SourceInv
<1>1. ASSUME NEW t \in Tasks, DeployStep(t)
      PROVE  MarksOK'
  BY <1>0, <1>1
  DEF DeployStep, SkipOverBudget, SkipDuplicate, PassDuplicate, CheckExposure,
      OpenPosition, history, flips, prints, MarksOK
<1>2. ASSUME NEW p \in Polls, FetchReading(p) \/ Alert(p)
      PROVE  MarksOK'
  BY <1>0, <1>2 DEF FetchReading, Alert, history, flips, prints, MarksOK
<1>3. ASSUME NEW p \in Polls, CompareQuiet(p) \/ MarkAlerted(p)
      PROVE  MarksOK'
  <2>1. task[p].phase \in {"read", "alerted"}
    BY <1>3 DEF CompareQuiet, MarkAlerted
  <2>2. task[p].seen \in Readings
    BY <1>0, <2>1 DEF RequestsOK, PollOK, Idle, Opening
  <2>3. WriteState(task[p].seen) /\ UNCHANGED prints
    BY <1>3 DEF CompareQuiet, MarkAlerted, Mark
  <2> QED BY <1>0, <2>2, <2>3, StateWritten DEF prints, MarksOK
<1>4. ASSUME NEW c \in Confirms, AnnounceRejection(c)
      PROVE  MarksOK'
  BY <1>0, <1>4 DEF AnnounceRejection, history, flips, prints, MarksOK
<1>5. ASSUME NEW c \in Confirms, DropRejection(c) \/ MarkRejection(c) \/ MarkQuietly(c)
      PROVE  MarksOK'
  <2>1. \E card \in Rejections : WriteRejection(card)
    <3>1. CASE MarkRejection(c)
      <4>1. task[c].card \in Rejections
        BY <1>0, <3>1 DEF MarkRejection, RequestsOK, ConfirmOK, Idle, Opening
      <4> QED BY <3>1, <4>1 DEF MarkRejection, Take
    <3>2. CASE DropRejection(c) \/ MarkQuietly(c)
      BY <3>2 DEF DropRejection, MarkQuietly, Take
    <3> QED BY <1>5, <3>1, <3>2
  <2>2. UNCHANGED flips
    BY <1>5 DEF DropRejection, MarkRejection, MarkQuietly, Take
  <2> QED BY <1>0, <2>1, <2>2, RejectionWritten DEF flips, MarksOK
<1>6. ASSUME NEW m \in Musters, Muster(m) \/ Engage(m)
      PROVE  MarksOK'
  BY <1>0, <1>6 DEF Muster, Engage, history, flips, prints, MarksOK
<1>7. CASE DayPasses \/ PositionCloses \/ RequestFails \/ AppRestarts \/ UNCHANGED vars
  BY <1>0, <1>7
  DEF DayPasses, PositionCloses, RequestFails, AppRestarts, vars, history, flips, prints,
      MarksOK, NoMarks
<1> QED
  BY <1>1, <1>2, <1>3, <1>4, <1>5, <1>6, <1>7, Apart
  DEF Next, PollStep, ConfirmStep, MusterStep

LEMMA SourceInit == Init => SourceInv
<1> SUFFICES ASSUME Init
             PROVE  SourceInv
  OBVIOUS
<1>1. RequestsOK
  BY Apart DEF Init, RequestsOK, PollOK, ConfirmOK, MusterOK
<1>2. MarksOK
  BY DEF Init, MarksOK, NoMarks
<1>3. <<>> \in Seq(RowOf({}))
  OBVIOUS
<1>4. TableOK
  BY <1>3, CardsAssumption DEF Init, TableOK
<1> QED BY <1>1, <1>2, <1>4 DEF SourceInv

LEMMA SourceAlways == Spec => []SourceInv
<1>1. SourceInv /\ [Next]_vars => SourceInv'
  BY RequestsNext, MarksNext, TableNext DEF SourceInv
<1> QED BY <1>1, SourceInit, PTL DEF Spec

\* Requests of the other kinds, and what a request that is no poll or no confirmation
\* leaves alone.
LEMMA StepOf ==
    ASSUME SourceInv, [Next]_vars
    PROVE  \/ \E p \in Polls : FetchReading(p) \/ PollStep(p)
           \/ \E c \in Confirms : ConfirmStep(c)
           \/ \E m \in Musters : Muster(m) \/ MusterStep(m)
           \/ /\ RequestFails \/ AppRestarts
              /\ \A t \in Tasks : task'[t] = task[t] \/ task'[t] = Idle
           \/ task' = task /\ UNCHANGED <<marks, history>>
<1>1. DOMAIN task = Tasks
  BY DEF SourceInv, RequestsOK
<1>2. CASE RequestFails \/ AppRestarts
  BY <1>1, <1>2 DEF RequestFails, AppRestarts
<1>3. CASE DayPasses \/ PositionCloses \/ UNCHANGED vars
  BY <1>3 DEF DayPasses, PositionCloses, vars, history, flips, prints
<1> QED BY <1>2, <1>3 DEF Next

LEMMA PollAlone ==
    ASSUME RequestsOK, MarksOK, NEW p \in Polls, FetchReading(p) \/ PollStep(p)
    PROVE  /\ \A u \in Tasks \ {p} : task'[u] = task[u]
           /\ marks'.confirm = marks.confirm /\ UNCHANGED prints
           /\ DOMAIN task' = Tasks
<1>1. DOMAIN task = Tasks /\ p \in Tasks /\ p \notin Confirms
  BY Apart DEF RequestsOK
<1>2. CASE FetchReading(p) \/ Alert(p)
  BY <1>1, <1>2 DEF FetchReading, Alert, history
<1>3. CASE CompareQuiet(p) \/ MarkAlerted(p)
  <2>1. PICK fresh : Mark(p, fresh)
    BY <1>3 DEF CompareQuiet, MarkAlerted
  <2>2. WriteState(task[p].seen) /\ UNCHANGED prints
    BY <1>3 DEF CompareQuiet, MarkAlerted, Mark
  <2> QED BY <1>1, <2>1, <2>2, StateWritten DEF Mark
<1>4. CASE DeployStep(p)
  BY <1>1, <1>4, PollLoop
  DEF DeployStep, SkipOverBudget, SkipDuplicate, PassDuplicate, CheckExposure,
      OpenPosition, history, prints
<1> QED BY <1>2, <1>3, <1>4 DEF PollStep

LEMMA ConfirmAlone ==
    ASSUME RequestsOK, MarksOK, NEW c \in Confirms, ConfirmStep(c)
    PROVE  /\ \A u \in Tasks \ {c} : task'[u] = task[u]
           /\ marks'.retracement = marks.retracement /\ UNCHANGED flips
           /\ DOMAIN task' = Tasks
<1>1. DOMAIN task = Tasks /\ c \in Tasks /\ c \notin Polls
  BY Apart DEF RequestsOK
<1>2. CASE AnnounceRejection(c)
  BY <1>1, <1>2 DEF AnnounceRejection, history
<1>3. CASE DropRejection(c) \/ MarkRejection(c) \/ MarkQuietly(c)
  <2>1. PICK card : WriteRejection(card)
    BY <1>3 DEF DropRejection, MarkRejection, MarkQuietly, Take
  <2>2. marks'.retracement = marks.retracement
    BY <2>1, RejectionWritten
  <2>3. CASE DropRejection(c)
    BY <1>1, <2>2, <2>3 DEF DropRejection
  <2>4. CASE MarkRejection(c)
    BY <1>1, <2>2, <2>4 DEF MarkRejection, Take
  <2>5. CASE MarkQuietly(c)
    BY <1>1, <2>2, <2>5 DEF MarkQuietly, Take
  <2> QED BY <1>3, <2>3, <2>4, <2>5
<1>4. CASE DeployStep(c)
  BY <1>1, <1>4, ConfirmLoop
  DEF DeployStep, SkipOverBudget, SkipDuplicate, PassDuplicate, CheckExposure,
      OpenPosition, history, flips
<1> QED BY <1>2, <1>3, <1>4 DEF ConfirmStep

LEMMA MusterAlone ==
    ASSUME RequestsOK, NEW m \in Musters, Muster(m) \/ MusterStep(m)
    PROVE  /\ \A u \in Tasks \ {m} : task'[u] = task[u]
           /\ UNCHANGED <<marks, history>>
           /\ DOMAIN task' = Tasks
<1>1. DOMAIN task = Tasks /\ m \in Tasks /\ m \notin Polls /\ m \notin Confirms
  BY Apart DEF RequestsOK
<1>2. CASE Muster(m) \/ Engage(m)
  BY <1>1, <1>2 DEF Muster, Engage
<1>3. CASE DeployStep(m)
  BY <1>1, <1>3, MusterLoop
  DEF DeployStep, SkipOverBudget, SkipDuplicate, PassDuplicate, CheckExposure,
      OpenPosition, history, flips, prints
<1> QED BY <1>2, <1>3 DEF MusterStep

-----------------------------------------------------------------------------
(* One flip feeds a poll once.                                              *)

LEMMA SubsetSize ==
    ASSUME NEW S, IsFiniteSet(S), NEW T, T \subseteq S
    PROVE  /\ IsFiniteSet(T) /\ Cardinality(T) \in Nat
           /\ Cardinality(S) \in Nat /\ Cardinality(T) <= Cardinality(S)
BY FS_Subset, FS_CardinalityType

LEMMA OneMore ==
    ASSUME NEW S, IsFiniteSet(S), NEW x
    PROVE  /\ IsFiniteSet(S \cup {x}) /\ Cardinality(S \cup {x}) \in Nat
           /\ Cardinality(S \cup {x}) <= Cardinality(S) + 1
<1>1. Cardinality(S) \in Nat
  BY FS_CardinalityType
<1>2. /\ IsFiniteSet(S \cup {x})
      /\ Cardinality(S \cup {x}) = IF x \in S THEN Cardinality(S) ELSE Cardinality(S) + 1
  BY FS_AddElement
<1> QED BY <1>1, <1>2

LEMMA FeedingDeploys ==
    ASSUME RequestsOK
    PROVE  /\ Feeding \subseteq Deploying /\ IsFiniteSet(Deploying)
           /\ IsFiniteSet(Feeding) /\ Cardinality(Feeding) \in Nat
           /\ Cardinality(Feeding) <= Cardinality(Deploying)
           /\ Cardinality(Deploying) \in Nat
<1>1. Feeding \subseteq Deploying
  BY DEF Feeding, RequestsOK, PollOK, Opening, Idle
<1>2. IsFiniteSet(Deploying)
  BY RequestsAssumption, DeployingAssumption, FS_Subset
<1> QED BY <1>1, <1>2, SubsetSize

LEMMA Rooms ==
    \A n, k \in Nat : n * k \in Nat /\ n * (k + 1) = n * k + n /\ n * (1 + k) = n * k + n
OBVIOUS

\* What a step may do to the polls that can still feed: leave them, start anew, write the
\* marker it had lost, or lose the marker.
LEMMA FedQuiet ==
    ASSUME RequestsOK, RequestsOK', MarksOK, MarksOK', FedInv,
           \/ /\ UNCHANGED flips /\ marks'.retracement = marks.retracement
              /\ Feeding' \subseteq Feeding
           \/ fed' = 0 /\ lost' = 0 /\ marks'.retracement = flip'
           \/ /\ UNCHANGED flips /\ marks.retracement = None /\ marks'.retracement = flip
              /\ flip = "SELL_OTE" \/ Feeding' \subseteq Feeding
           \/ /\ fed' = fed /\ flip' = flip /\ lost' = lost + 1
              /\ marks'.retracement \in {marks.retracement, None}
              /\ \/ Feeding' \subseteq Feeding
                 \/ /\ marks.retracement # "SELL_OTE"
                    /\ \E p \in Deploying : Feeding' \subseteq Feeding \cup {p}
    PROVE  FedInv'
<1> DEFINE n == Cardinality(Deploying)
           before == Cardinality(Feeding)
           after == Cardinality(Feeding)'
<1>1. /\ n \in Nat /\ before \in Nat /\ before <= n /\ IsFiniteSet(Feeding)
      /\ IsFiniteSet(Deploying)
  BY FeedingDeploys
<1>2. after \in Nat /\ after <= n
  <2>1. Feeding' \subseteq Deploying
    BY DEF Feeding, RequestsOK, PollOK, Opening, Idle
  <2> QED BY <2>1, FeedingDeploys, SubsetSize
<1>3. Feeding' \subseteq Feeding => after <= before
  BY <1>1, SubsetSize
<1>4. /\ fed \in Nat /\ lost \in Nat /\ n * lost \in Nat
      /\ n * (lost + 1) = n * lost + n
  BY <1>1, Rooms DEF MarksOK
<1>5. fed + before <= n * lost + IF flip = "SELL_OTE" /\ marks.retracement = None THEN 0 ELSE n
  BY DEF FedInv, FedRoom
<1>6. marks.retracement \in {flip, None}
  BY DEF FedInv
<1>7. FedInv' <=> /\ marks'.retracement \in {flip', None}
                  /\ fed' + after <= n * lost'
                       + IF flip' = "SELL_OTE" /\ marks'.retracement = None THEN 0 ELSE n
  BY DEF FedInv, FedRoom
<1> HIDE DEF n, before, after
<1>8. CASE /\ UNCHANGED flips /\ marks'.retracement = marks.retracement
           /\ Feeding' \subseteq Feeding
  BY <1>1, <1>2, <1>3, <1>4, <1>5, <1>6, <1>7, <1>8 DEF flips
<1>9. CASE fed' = 0 /\ lost' = 0 /\ marks'.retracement = flip'
  <2>1. n * 0 = 0
    BY <1>1
  <2>2. ~(flip' = "SELL_OTE" /\ marks'.retracement = None)
    BY <1>9 DEF None
  <2> QED BY <1>1, <1>2, <1>7, <1>9, <2>1, <2>2
<1>10. CASE /\ UNCHANGED flips /\ marks.retracement = None /\ marks'.retracement = flip
            /\ flip = "SELL_OTE" \/ Feeding' \subseteq Feeding
  <2>1. ~(flip' = "SELL_OTE" /\ marks'.retracement = None)
    BY <1>10 DEF None, flips
  <2> QED BY <1>1, <1>2, <1>3, <1>4, <1>5, <1>7, <1>10, <2>1 DEF flips
<1>11. CASE /\ fed' = fed /\ flip' = flip /\ lost' = lost + 1
            /\ marks'.retracement \in {marks.retracement, None}
            /\ \/ Feeding' \subseteq Feeding
               \/ /\ marks.retracement # "SELL_OTE"
                  /\ \E p \in Deploying : Feeding' \subseteq Feeding \cup {p}
  <2>1. n * lost' = n * lost + n
    BY <1>4, <1>11
  <2>2. CASE Feeding' \subseteq Feeding
    BY <1>1, <1>2, <1>3, <1>4, <1>5, <1>6, <1>7, <1>11, <2>1, <2>2
  <2>3. CASE /\ marks.retracement # "SELL_OTE"
             /\ \E p \in Deploying : Feeding' \subseteq Feeding \cup {p}
    <3>1. PICK p \in Deploying : Feeding' \subseteq Feeding \cup {p}
      BY <2>3
    <3>2. after <= before + 1
      <4>1. /\ IsFiniteSet(Feeding \cup {p})
            /\ Cardinality(Feeding \cup {p}) \in Nat
            /\ Cardinality(Feeding \cup {p}) <= before + 1
        BY <1>1, OneMore DEF before
      <4> QED BY <1>1, <3>1, <4>1, SubsetSize DEF before, after
    <3>3. n >= 1
      <4>1. n # 0
        BY <1>1, FS_EmptySet DEF n
      <4> QED BY <1>1, <4>1
    <3> QED BY <1>1, <1>2, <1>4, <1>5, <1>6, <1>7, <1>11, <2>1, <2>3, <3>2, <3>3
  <2> QED BY <1>11, <2>2, <2>3
<1> QED BY <1>8, <1>9, <1>10, <1>11

\* The states the marker holds.
LEMMA MarkerNames ==
    ASSUME MarksOK, NEW seen \in Readings
    PROVE  seen # None
BY CardsAssumption DEF None

\* A poll's own steps.
LEMMA FedPolls ==
    ASSUME SourceInv, RequestsOK', MarksOK', FedInv,
           NEW p \in Polls, FetchReading(p) \/ PollStep(p)
    PROVE  FedInv'
<1>0. /\ RequestsOK /\ MarksOK /\ PollOK(p) /\ p \in Tasks /\ DOMAIN task = Tasks
      /\ fed \in Nat
  BY Apart DEF SourceInv, RequestsOK, MarksOK
<1>1. \A u \in Polls \ {p} : task'[u] = task[u]
  BY <1>0, PollAlone, Apart
<1>2. CASE FetchReading(p)
  <2>1. task'[p].phase = "read" /\ marks' = marks /\ UNCHANGED flips
    BY <1>0, <1>2 DEF FetchReading, history
  <2>2. Feeding' \subseteq Feeding
    BY <1>1, <2>1 DEF Feeding, Opening
  <2> QED BY <1>0, <2>1, <2>2, FedQuiet
<1>3. CASE Alert(p)
  <2>1. marks' = marks /\ UNCHANGED flips
    BY <1>3 DEF Alert, history
  <2>2. /\ task'[p].phase = "alerted" /\ task'[p].seen = task[p].seen
        /\ task'[p].fresh = Fresh(p)
    BY <1>0, <1>3 DEF Alert
  <2>3. p \notin Feeding'
    BY <2>1, <2>2 DEF Feeding, Fresh, Flipped, Opening, None
  <2>4. Feeding' \subseteq Feeding
    BY <1>1, <2>1, <2>3 DEF Feeding
  <2> QED BY <1>0, <2>1, <2>4, FedQuiet
<1>4. ASSUME NEW fresh \in BOOLEAN, Mark(p, fresh), task[p].seen \in Readings,
             FeedsPaper(p, fresh) /\ marks.retracement = task[p].seen => p \in Feeding
      PROVE  FedInv'
  <2> DEFINE seen == task[p].seen
  <2>1. p \in Feeding' => FeedsPaper(p, fresh)
    <3>1. ASSUME ~FeedsPaper(p, fresh)
          PROVE  p \notin Feeding'
      <4>1. task'[p] = Idle
        BY <1>0, <1>4, <3>1 DEF Mark, Deploy
      <4> QED BY <4>1 DEF Feeding, Idle, Opening
    <3> QED BY <3>1
  <2>2. FeedsPaper(p, fresh) => seen = "SELL_OTE" /\ p \in Deploying
    BY DEF FeedsPaper
  <2>3. marks'.retracement # "SELL_OTE" \/ marks.retracement = "SELL_OTE"
           => Feeding' \subseteq Feeding \cup {p}
    BY <1>1 DEF Feeding
  <2>4. seen # None
    BY <1>0, <1>4, MarkerNames
  <2>5. WriteState(seen)
    BY <1>4 DEF Mark
  <2> HIDE DEF seen
  <2>6. CASE /\ marks'.retracement = seen /\ flip' = seen
             /\ IF seen = flip THEN fed' = fed /\ lost' = lost ELSE fed' = 0 /\ lost' = 0
    <3>1. CASE seen # flip
      BY <1>0, <2>6, <3>1, FedQuiet
    <3>2. CASE seen = flip /\ marks.retracement = flip
      <4>1. Feeding' \subseteq Feeding
        BY <1>4, <2>1, <2>3, <2>6, <3>2 DEF seen
      <4> QED BY <1>0, <2>6, <3>2, <4>1, FedQuiet DEF flips
    <3>3. CASE seen = flip /\ marks.retracement = None
      <4>1. flip = "SELL_OTE" \/ Feeding' \subseteq Feeding
        BY <2>1, <2>2, <2>3, <2>6, <3>3
      <4> QED BY <1>0, <2>6, <3>3, <4>1, FedQuiet DEF flips
    <3> QED BY <3>1, <3>2, <3>3 DEF FedInv
  <2>7. CASE /\ marks'.retracement \in {marks.retracement, None}
             /\ flip' = flip /\ fed' = fed /\ lost' = lost + 1
    <3>1. Feeding' \subseteq Feeding \cup {p}
      BY <2>3, <2>7 DEF None
    <3>2. \/ Feeding' \subseteq Feeding
          \/ /\ marks.retracement # "SELL_OTE"
             /\ \E q \in Deploying : Feeding' \subseteq Feeding \cup {q}
      BY <1>4, <2>1, <2>2, <3>1 DEF seen
    <3> QED BY <1>0, <2>7, <3>2, FedQuiet
  <2> QED BY <1>0, <2>5, <2>6, <2>7, StateWritten
<1>5. CASE CompareQuiet(p)
  <2>1. task[p].phase = "read" /\ Mark(p, Fresh(p))
    BY <1>5 DEF CompareQuiet
  <2>2. task[p].seen \in Readings
    BY <1>0, <2>1 DEF PollOK, Idle, Opening
  <2>3. Fresh(p) => marks.retracement # task[p].seen
    BY <1>0, <2>2, MarkerNames DEF Fresh, Flipped
  <2>4. Fresh(p) \in BOOLEAN
    BY DEF Fresh, Flipped
  <2> QED BY <1>4, <2>1, <2>2, <2>3, <2>4 DEF FeedsPaper
<1>6. CASE MarkAlerted(p)
  <2>1. task[p].phase = "alerted" /\ Mark(p, task[p].fresh)
    BY <1>6 DEF MarkAlerted
  <2>2. task[p].seen \in Readings /\ task[p].fresh \in BOOLEAN
    BY <1>0, <2>1 DEF PollOK, Idle, Opening
  <2>3. FeedsPaper(p, task[p].fresh) /\ marks.retracement = task[p].seen => p \in Feeding
    BY <2>1 DEF FeedsPaper, Feeding
  <2> QED BY <1>4, <2>1, <2>2, <2>3
<1>7. CASE DeployStep(p) /\ ~OpenPosition(p)
  <2>1. marks' = marks /\ UNCHANGED flips
    BY <1>7 DEF DeployStep, SkipOverBudget, SkipDuplicate, PassDuplicate, CheckExposure, history
  <2>2. p \in Feeding
    BY <1>0, <1>7, LoopKeeps DEF Feeding
  <2>3. Feeding' \subseteq Feeding
    BY <1>1, <2>1, <2>2 DEF Feeding
  <2> QED BY <1>0, <2>1, <2>3, FedQuiet
<1>8. CASE OpenPosition(p)
  <2>1. /\ marks' = marks /\ fed' = fed + 1 /\ flip' = flip /\ lost' = lost
        /\ task[p].phase = "cleared"
    BY <1>8 DEF OpenPosition
  <2>2. p \in Feeding
    BY <2>1 DEF Feeding, Opening
  <2>3. task'[p] = Idle
    <3>1. task[p].queue = <<SellCard>>
      BY <1>0, <2>1 DEF PollOK, Idle, Opening
    <3> QED BY <1>0, <1>8, <3>1, AfterOnly DEF OpenPosition
  <2>4. Feeding' \subseteq Feeding \ {p}
    BY <1>1, <2>1, <2>3 DEF Feeding, Idle, Opening
  <2>5. /\ IsFiniteSet(Feeding \ {p}) /\ Cardinality(Feeding) \in Nat
        /\ Cardinality(Feeding \ {p}) = Cardinality(Feeding) - 1
    BY <1>0, <2>2, FeedingDeploys, FS_RemoveElement
  <2>6. Cardinality(Feeding)' \in Nat /\ Cardinality(Feeding)' <= Cardinality(Feeding) - 1
    BY <2>4, <2>5, SubsetSize
  <2>7. FedRoom' = FedRoom /\ FedRoom \in Nat
    <3>1. Cardinality(Deploying) \in Nat /\ lost \in Nat
      BY <1>0, FeedingDeploys DEF MarksOK
    <3>2. Cardinality(Deploying) * lost \in Nat
      BY <3>1, Rooms
    <3> QED BY <2>1, <3>1, <3>2 DEF FedRoom
  <2> QED BY <1>0, <2>1, <2>5, <2>6, <2>7 DEF FedInv
<1> QED BY <1>2, <1>3, <1>5, <1>6, <1>7, <1>8 DEF PollStep

LEMMA FedStep ==
    ASSUME SourceInv, FedInv, [Next]_vars
    PROVE  FedInv'
<1>0. RequestsOK /\ MarksOK /\ RequestsOK' /\ MarksOK' /\ fed \in Nat
  BY RequestsNext, MarksNext DEF SourceInv, MarksOK
<1>1. ASSUME NEW p \in Polls, FetchReading(p) \/ PollStep(p)
      PROVE  FedInv'
  BY <1>0, <1>1, FedPolls
<1>2. ASSUME UNCHANGED flips, marks'.retracement = marks.retracement,
             \A p \in Polls : task'[p] = task[p] \/ task'[p] = Idle
      PROVE  FedInv'
  <2>1. Feeding' \subseteq Feeding
    BY <1>2 DEF Feeding, Idle, Opening
  <2> QED BY <1>0, <1>2, <2>1, FedQuiet
<1>3. ASSUME NEW c \in Confirms, ConfirmStep(c)
      PROVE  FedInv'
  BY <1>0, <1>2, <1>3, ConfirmAlone, Apart
<1>4. ASSUME NEW m \in Musters, Muster(m) \/ MusterStep(m)
      PROVE  FedInv'
  BY <1>0, <1>2, <1>4, MusterAlone, Apart DEF history
<1>5. CASE RequestFails \/ AppRestarts
  <2>1. \A p \in Polls : task'[p] = task[p] \/ task'[p] = Idle
    BY <1>0, <1>5, Apart DEF RequestFails, AppRestarts, RequestsOK
  <2>2. CASE RequestFails
    BY <1>2, <2>1, <2>2 DEF RequestFails, history
  <2>3. CASE AppRestarts
    <3>1. /\ fed' = fed /\ flip' = flip /\ lost' = lost + 1 /\ marks'.retracement = None
      BY <2>3 DEF AppRestarts, NoMarks
    <3>2. Feeding' \subseteq Feeding
      BY <2>1, <3>1 DEF Feeding, Idle, Opening, None
    <3> QED BY <1>0, <3>1, <3>2, FedQuiet
  <2> QED BY <1>5, <2>2, <2>3
<1>6. CASE task' = task /\ UNCHANGED <<marks, history>>
  BY <1>2, <1>6 DEF history
<1> QED BY <1>1, <1>3, <1>4, <1>5, <1>6, StepOf

\* state_alert: however the polls overlap and whatever fails, between two changes of the
\* marker each deploying poll opens at most one position, and one more for each time the
\* marker was lost.
THEOREM EachFlipFeedsOnce == Spec => []FedOncePerFlip
<1>1. Init => FedInv
  <2> SUFFICES ASSUME Init
               PROVE  FedInv
    OBVIOUS
  <2>1. Feeding = {}
    BY Apart DEF Init, Feeding, Idle, Opening
  <2>2. IsFiniteSet(Deploying)
    BY RequestsAssumption, DeployingAssumption, FS_Subset
  <2>3. Cardinality(Feeding) = 0 /\ Cardinality(Deploying) \in Nat
    BY <2>1, <2>2, FS_EmptySet, FS_CardinalityType
  <2>4. Cardinality(Deploying) * 0 = 0
    BY <2>3
  <2>5. /\ fed = 0 /\ lost = 0 /\ flip = None /\ marks.retracement = None
    BY DEF Init, NoMarks
  <2> QED BY <2>3, <2>4, <2>5 DEF FedInv, FedRoom, None
<1>2. SourceInv /\ FedInv /\ [Next]_vars => FedInv'
  BY FedStep
<1>3. SourceInv /\ FedInv => FedOncePerFlip
  <2> SUFFICES ASSUME SourceInv, FedInv
               PROVE  FedOncePerFlip
    OBVIOUS
  <2>1. RequestsOK /\ fed \in Nat /\ lost \in Nat
    BY DEF SourceInv, MarksOK
  <2>2. Cardinality(Feeding) \in Nat /\ Cardinality(Deploying) \in Nat
    BY <2>1, FeedingDeploys
  <2>3. /\ Cardinality(Deploying) * lost \in Nat
        /\ Cardinality(Deploying) * (1 + lost)
             = Cardinality(Deploying) * lost + Cardinality(Deploying)
    BY <2>1, <2>2, Rooms
  <2> QED BY <2>1, <2>2, <2>3 DEF FedInv, FedRoom, FedOncePerFlip
<1> QED BY <1>1, <1>2, <1>3, SourceAlways, PTL DEF Spec

-----------------------------------------------------------------------------
(* A flip is announced.                                                     *)

FlipStep ==
    LET old == marks.retracement
        new == marks'.retracement
    IN  old # None /\ new # None /\ new # old =>
            \E p \in Polls :
                /\ task'[p] # task[p]
                /\ \/ task[p].phase = "alerted"
                   \/ task[p].phase = "read" /\ ~task[p].notify
                /\ task[p].seen = new

\* A poll that marks is done, or goes on to open its card.
LEMMA MarkEnds ==
    ASSUME RequestsOK, NEW p \in Polls, NEW fresh, Mark(p, fresh),
           task[p].phase \in {"read", "alerted"}
    PROVE  task'[p] # task[p]
<1>1. p \in Tasks /\ DOMAIN task = Tasks
  BY Apart DEF RequestsOK
<1>2. task'[p].phase \in {"idle", "deploying"}
  BY <1>1 DEF Mark, Deploy, Idle
<1> QED BY <1>2

LEMMA FlipNext ==
    ASSUME SourceInv, [Next]_vars
    PROVE  FlipStep
<1>0. RequestsOK /\ MarksOK
  BY DEF SourceInv
<1>1. ASSUME marks'.retracement = marks.retracement
      PROVE  FlipStep
  BY <1>1 DEF FlipStep
<1>2. ASSUME NEW p \in Polls, FetchReading(p) \/ PollStep(p)
      PROVE  FlipStep
  <2>1. CASE FetchReading(p) \/ Alert(p) \/ DeployStep(p)
    BY <1>1, <2>1
    DEF FetchReading, Alert, DeployStep, SkipOverBudget, SkipDuplicate, PassDuplicate,
        CheckExposure, OpenPosition
  <2>2. CASE CompareQuiet(p)
    <3>1. /\ WriteState(task[p].seen) /\ Mark(p, Fresh(p)) /\ task[p].phase = "read"
          /\ ~task[p].notify \/ ~Flipped(p)
      BY <2>2 DEF CompareQuiet, Mark, Alerts
    <3>2. task'[p] # task[p]
      BY <1>0, <3>1, MarkEnds
    <3>3. \/ marks'.retracement = task[p].seen
          \/ marks'.retracement \in {marks.retracement, None}
      BY <1>0, <3>1, StateWritten
    <3> QED BY <3>1, <3>2, <3>3 DEF Flipped, FlipStep
  <2>3. CASE MarkAlerted(p)
    <3>1. /\ WriteState(task[p].seen) /\ Mark(p, task[p].fresh) /\ task[p].phase = "alerted"
      BY <2>3 DEF MarkAlerted, Mark
    <3>2. task'[p] # task[p]
      BY <1>0, <3>1, MarkEnds
    <3>3. \/ marks'.retracement = task[p].seen
          \/ marks'.retracement \in {marks.retracement, None}
      BY <1>0, <3>1, StateWritten
    <3> QED BY <3>1, <3>2, <3>3 DEF FlipStep
  <2> QED BY <1>2, <2>1, <2>2, <2>3 DEF PollStep
<1>3. ASSUME NEW c \in Confirms, ConfirmStep(c)
      PROVE  FlipStep
  BY <1>0, <1>1, <1>3, ConfirmAlone
<1>4. ASSUME NEW m \in Musters, Muster(m) \/ MusterStep(m)
      PROVE  FlipStep
  BY <1>0, <1>1, <1>4, MusterAlone
<1>5. CASE RequestFails \/ AppRestarts
  BY <1>5 DEF RequestFails, AppRestarts, NoMarks, FlipStep
<1>6. CASE DayPasses \/ PositionCloses \/ UNCHANGED vars
  BY <1>1, <1>6 DEF DayPasses, PositionCloses, vars
<1> QED BY <1>2, <1>3, <1>4, <1>5, <1>6 DEF Next

\* state_alert: however the polls overlap, the marker is moved from one state to another
\* only by a poll that has sent the message of the new state, or was asked for none.
THEOREM FlipsAreAnnounced == Spec => FlipAnnounced
<1>1. SourceInv /\ [Next]_vars => [FlipStep]_vars
  BY FlipNext
<1>2. Spec => [][FlipStep]_vars
  BY <1>1, SourceAlways, PTL DEF Spec
<1> QED BY <1>2 DEF FlipAnnounced, FlipStep

-----------------------------------------------------------------------------
(* One rejection is taken once.                                             *)

LEMMA TakingSize ==
    /\ Taking \subseteq Confirms /\ IsFiniteSet(Confirms) /\ IsFiniteSet(Taking)
    /\ Cardinality(Taking) \in Nat /\ Cardinality(Confirms) \in Nat
    /\ Cardinality(Taking) <= Cardinality(Confirms)
<1>1. Taking \subseteq Confirms /\ IsFiniteSet(Confirms)
  BY RequestsAssumption DEF Taking
<1> QED BY <1>1, SubsetSize

\* What a step may do to the confirmations that can still open: leave them, start anew,
\* write the marker that was lost, or lose the marker.
LEMMA TakenQuiet ==
    ASSUME MarksOK, MarksOK', TakenInv,
           \/ /\ UNCHANGED prints /\ marks'.confirm = marks.confirm
              /\ Taking' \subseteq Taking
           \/ taken' = 0 /\ missed' = 0 /\ marks'.confirm = printed'
           \/ UNCHANGED prints /\ marks.confirm # printed /\ marks'.confirm = printed
           \/ /\ taken' = taken /\ printed' = printed /\ missed' = missed + 1
              /\ marks'.confirm \in {marks.confirm, NoRejection}
              /\ \E c : Taking' \subseteq Taking \cup {c}
    PROVE  TakenInv'
<1> DEFINE n == Cardinality(Confirms)
           before == Cardinality(Taking)
           after == Cardinality(Taking)'
<1>1. /\ n \in Nat /\ before \in Nat /\ before <= n /\ IsFiniteSet(Taking)
  BY TakingSize
<1>2. after \in Nat /\ after <= n
  <2>1. Taking' \subseteq Confirms
    BY DEF Taking
  <2> QED BY <2>1, TakingSize, SubsetSize
<1>3. Taking' \subseteq Taking => after <= before
  BY <1>1, SubsetSize
<1>4. /\ taken \in Nat /\ missed \in Nat /\ (n + 1) * missed \in Nat
      /\ (n + 1) * (missed + 1) = (n + 1) * missed + (n + 1)
  <2>1. n + 1 \in Nat
    BY <1>1
  <2> HIDE DEF n
  <2> QED BY <2>1, Rooms DEF MarksOK
<1>5. taken + before <= (n + 1) * missed + IF marks.confirm = printed THEN n ELSE 0
  BY DEF TakenInv, TakenRoom
<1>6. marks.confirm \in {printed, NoRejection}
  BY DEF TakenInv
<1>7. TakenInv' <=> /\ marks'.confirm \in {printed', NoRejection}
                    /\ taken' + after
                         <= (n + 1) * missed' + IF marks'.confirm = printed' THEN n ELSE 0
  BY DEF TakenInv, TakenRoom
<1> HIDE DEF n, before, after
<1>8. CASE /\ UNCHANGED prints /\ marks'.confirm = marks.confirm
           /\ Taking' \subseteq Taking
  BY <1>1, <1>2, <1>3, <1>4, <1>5, <1>6, <1>7, <1>8 DEF prints
<1>9. CASE taken' = 0 /\ missed' = 0 /\ marks'.confirm = printed'
  <2>1. (n + 1) * 0 = 0
    BY <1>1
  <2> QED BY <1>1, <1>2, <1>7, <1>9, <2>1
<1>10. CASE UNCHANGED prints /\ marks.confirm # printed /\ marks'.confirm = printed
  BY <1>1, <1>2, <1>4, <1>5, <1>7, <1>10 DEF prints
<1>11. CASE /\ taken' = taken /\ printed' = printed /\ missed' = missed + 1
            /\ marks'.confirm \in {marks.confirm, NoRejection}
            /\ \E c : Taking' \subseteq Taking \cup {c}
  <2>1. (n + 1) * missed' = (n + 1) * missed + (n + 1)
    BY <1>4, <1>11
  <2>2. PICK c : Taking' \subseteq Taking \cup {c}
    BY <1>11
  <2>3. after <= before + 1
    <3>1. /\ IsFiniteSet(Taking \cup {c}) /\ Cardinality(Taking \cup {c}) \in Nat
          /\ Cardinality(Taking \cup {c}) <= before + 1
      BY <1>1, OneMore DEF before
    <3> QED BY <1>1, <2>2, <3>1, SubsetSize DEF before, after
  <2> QED BY <1>1, <1>2, <1>4, <1>5, <1>6, <1>7, <1>11, <2>1, <2>3
<1> QED BY <1>8, <1>9, <1>10, <1>11

LEMMA TakenConfirms ==
    ASSUME SourceInv, MarksOK', TakenInv, NEW c \in Confirms, ConfirmStep(c)
    PROVE  TakenInv'
<1>0. /\ RequestsOK /\ MarksOK /\ ConfirmOK(c) /\ c \in Tasks /\ DOMAIN task = Tasks
      /\ taken \in Nat
  BY Apart DEF SourceInv, RequestsOK, MarksOK
<1>1. /\ \A u \in Confirms \ {c} : task'[u] = task[u]
      /\ \A u \in Confirms \ {c} : task[u].phase = "announced" => task[u].card # NoRejection
  <2>1. \A card \in Rejections : card # NoRejection
    BY CardsAssumption DEF Ticket, NoRejection, None
  <2>2. \A u \in Confirms : task[u].phase = "announced" => task[u].card \in Rejections
    BY <1>0 DEF RequestsOK, ConfirmOK, Idle, Opening
  <2> QED BY <1>0, <2>1, <2>2, ConfirmAlone, Apart
<1>2. ASSUME marks' = marks, UNCHANGED prints, c \in Taking' => c \in Taking
      PROVE  TakenInv'
  <2>1. Taking' \subseteq Taking
    BY <1>1, <1>2 DEF Taking
  <2> QED BY <1>0, <1>2, <2>1, TakenQuiet
<1>3. ASSUME NEW card, WriteRejection(card),
             marks.confirm = card /\ c \in Taking' => c \in Taking
      PROVE  TakenInv'
  <2>1. CASE /\ marks'.confirm = card /\ printed' = card
             /\ IF card = printed THEN taken' = taken /\ missed' = missed
                ELSE taken' = 0 /\ missed' = 0
    <3>1. CASE card # printed
      BY <1>0, <2>1, <3>1, TakenQuiet
    <3>2. CASE card = printed /\ marks.confirm # printed
      BY <1>0, <2>1, <3>2, TakenQuiet DEF prints
    <3>3. CASE card = printed /\ marks.confirm = printed
      <4>1. Taking' \subseteq Taking
        BY <1>1, <1>3, <2>1, <3>3 DEF Taking
      <4> QED BY <1>0, <2>1, <3>3, <4>1, TakenQuiet DEF prints
    <3> QED BY <3>1, <3>2, <3>3
  <2>2. CASE /\ marks'.confirm \in {marks.confirm, NoRejection}
             /\ printed' = printed /\ taken' = taken /\ missed' = missed + 1
    <3>1. Taking' \subseteq Taking \cup {c}
      BY <1>1, <2>2 DEF Taking
    <3> QED BY <1>0, <2>2, <3>1, TakenQuiet
  <2> QED BY <1>0, <1>3, <2>1, <2>2, RejectionWritten
<1>4. CASE DropRejection(c)
  <2>1. PICK card : WriteRejection(card)
    BY <1>4 DEF DropRejection
  <2>2. c \notin Taking'
    BY <1>4 DEF DropRejection, Taking, Idle, Opening
  <2> QED BY <1>3, <2>1, <2>2
<1>5. CASE AnnounceRejection(c)
  <2>1. PICK card \in Rejections :
           NewRejection(card) /\ task'[c] = [phase |-> "announced", card |-> card]
    BY <1>0, <1>5 DEF AnnounceRejection
  <2>2. marks' = marks /\ UNCHANGED prints
    BY <1>5 DEF AnnounceRejection, history
  <2>3. c \notin Taking'
    BY <2>1, <2>2 DEF Taking, NewRejection, Opening
  <2> QED BY <1>2, <2>2, <2>3
<1>8. CASE MarkRejection(c)
  <2>1. task[c].phase = "announced" /\ WriteRejection(task[c].card)
    BY <1>8 DEF MarkRejection, Take
  <2>2. marks.confirm = task[c].card => c \in Taking
    BY <2>1 DEF Taking
  <2> QED BY <1>3, <2>1, <2>2
<1>9. CASE MarkQuietly(c)
  BY <1>3, <1>9 DEF MarkQuietly, NewRejection, Take
<1>6. CASE DeployStep(c) /\ ~OpenPosition(c)
  <2>1. marks' = marks /\ UNCHANGED prints
    BY <1>6 DEF DeployStep, SkipOverBudget, SkipDuplicate, PassDuplicate, CheckExposure, history
  <2>2. c \in Taking
    BY <1>0, <1>6, LoopKeeps DEF Taking
  <2> QED BY <1>2, <2>1, <2>2
<1>7. CASE OpenPosition(c)
  <2>1. /\ marks' = marks /\ taken' = taken + 1 /\ printed' = printed /\ missed' = missed
        /\ task[c].phase = "cleared"
    BY <1>7, Apart DEF OpenPosition
  <2>2. c \in Taking
    BY <2>1 DEF Taking, Opening
  <2>3. task'[c] = Idle
    <3>1. PICK card \in Rejections : task[c].queue = <<card>>
      BY <1>0, <2>1 DEF ConfirmOK, Idle, Opening
    <3> QED BY <1>0, <1>7, <3>1, AfterOnly DEF OpenPosition
  <2>4. Taking' \subseteq Taking \ {c}
    BY <1>1, <2>1, <2>3 DEF Taking, Idle, Opening
  <2>5. /\ IsFiniteSet(Taking \ {c}) /\ Cardinality(Taking) \in Nat
        /\ Cardinality(Taking \ {c}) = Cardinality(Taking) - 1
    BY <2>2, TakingSize, FS_RemoveElement
  <2>6. Cardinality(Taking)' \in Nat /\ Cardinality(Taking)' <= Cardinality(Taking) - 1
    BY <2>4, <2>5, SubsetSize
  <2>7. TakenRoom' = TakenRoom /\ TakenRoom \in Nat
    <3>1. Cardinality(Confirms) \in Nat /\ Cardinality(Confirms) + 1 \in Nat /\ missed \in Nat
      BY <1>0, TakingSize DEF MarksOK
    <3>2. (Cardinality(Confirms) + 1) * missed \in Nat
      BY <3>1, Rooms
    <3> QED BY <2>1, <3>1, <3>2 DEF TakenRoom
  <2> QED BY <1>0, <2>1, <2>5, <2>6, <2>7 DEF TakenInv
<1> QED BY <1>4, <1>5, <1>6, <1>7, <1>8, <1>9 DEF ConfirmStep

LEMMA TakenStep ==
    ASSUME SourceInv, TakenInv, [Next]_vars
    PROVE  TakenInv'
<1>0. RequestsOK /\ MarksOK /\ MarksOK'
  BY MarksNext DEF SourceInv
<1>1. ASSUME NEW c \in Confirms, ConfirmStep(c)
      PROVE  TakenInv'
  BY <1>0, <1>1, TakenConfirms
<1>2. ASSUME UNCHANGED prints, marks'.confirm = marks.confirm,
             \A c \in Confirms : task'[c] = task[c] \/ task'[c] = Idle
      PROVE  TakenInv'
  <2>1. Taking' \subseteq Taking
    BY <1>2 DEF Taking, Idle, Opening
  <2> QED BY <1>0, <1>2, <2>1, TakenQuiet
<1>3. ASSUME NEW p \in Polls, FetchReading(p) \/ PollStep(p)
      PROVE  TakenInv'
  BY <1>0, <1>2, <1>3, PollAlone, Apart
<1>4. ASSUME NEW m \in Musters, Muster(m) \/ MusterStep(m)
      PROVE  TakenInv'
  BY <1>0, <1>2, <1>4, MusterAlone, Apart DEF history
<1>5. CASE RequestFails \/ AppRestarts
  <2>1. \A c \in Confirms : task'[c] = task[c] \/ task'[c] = Idle
    BY <1>0, <1>5, Apart DEF RequestFails, AppRestarts, RequestsOK
  <2>2. CASE RequestFails
    BY <1>2, <2>1, <2>2 DEF RequestFails, history
  <2>3. CASE AppRestarts
    <3>1. /\ taken' = taken /\ printed' = printed /\ missed' = missed + 1
          /\ marks'.confirm = NoRejection
      BY <2>3 DEF AppRestarts, NoMarks
    <3>2. \A c \in Confirms : task'[c] = Idle
      BY <1>0, <2>3, Apart DEF AppRestarts
    <3>3. Taking' = {}
      BY <3>2 DEF Taking, Idle, Opening
    <3> QED BY <1>0, <3>1, <3>3, TakenQuiet
  <2> QED BY <1>5, <2>2, <2>3
<1>6. CASE task' = task /\ UNCHANGED <<marks, history>>
  BY <1>2, <1>6 DEF history
<1> QED BY <1>1, <1>3, <1>4, <1>5, <1>6, StepOf

\* confirm: however the confirmations overlap and whatever fails, between two changes of
\* the marker each opens the rejection at most once, and as often again for each time the
\* marker was lost, besides the rejection whose own write was lost.
THEOREM RejectionsAreTakenOnce == Spec => []RejectionTakenOnce
<1>1. Init => TakenInv
  <2> SUFFICES ASSUME Init
               PROVE  TakenInv
    OBVIOUS
  <2>1. Taking = {}
    BY Apart DEF Init, Taking, Idle, Opening
  <2>2. Cardinality(Taking) = 0 /\ Cardinality(Confirms) \in Nat
    BY <2>1, TakingSize, FS_EmptySet
  <2>3. (Cardinality(Confirms) + 1) * 0 = 0
    BY <2>2
  <2>4. taken = 0 /\ missed = 0 /\ marks.confirm = printed
    BY DEF Init, NoMarks
  <2> QED BY <2>2, <2>3, <2>4 DEF TakenInv, TakenRoom
<1>2. SourceInv /\ TakenInv /\ [Next]_vars => TakenInv'
  BY TakenStep
<1>3. SourceInv /\ TakenInv => RejectionTakenOnce
  <2> SUFFICES ASSUME SourceInv, TakenInv
               PROVE  RejectionTakenOnce
    OBVIOUS
  <2>1. /\ taken \in Nat /\ missed \in Nat /\ Cardinality(Confirms) \in Nat
        /\ Cardinality(Confirms) + 1 \in Nat /\ Cardinality(Taking) \in Nat
    BY TakingSize DEF SourceInv, MarksOK
  <2>2. (Cardinality(Confirms) + 1) * missed \in Nat
    BY <2>1, Rooms
  <2> QED BY <2>1, <2>2 DEF TakenInv, TakenRoom, RejectionTakenOnce
<1> QED BY <1>1, <1>2, <1>3, SourceAlways, PTL DEF Spec

-----------------------------------------------------------------------------
(* The weekly budget of a tier.                                             *)

LEMMA TokensSize ==
    ASSUME NEW type \in TradeTypes
    PROVE  /\ IsFiniteSet(Budgeted) /\ Cardinality(Budgeted) \in Nat
           /\ WeeklyBudget[type] \in Nat
           /\ WeeklyBudget[type] * Cardinality(Budgeted) \in Nat
           /\ IsFiniteSet(Tokens(type)) /\ Cardinality(Tokens(type)) \in Nat
           /\ Cardinality(Tokens(type)) <= WeeklyBudget[type] * Cardinality(Budgeted)
<1> DEFINE all == Budgeted \X (1 .. WeeklyBudget[type])
<1>1. IsFiniteSet(Budgeted) /\ Cardinality(Budgeted) \in Nat
  BY RequestsAssumption, FS_Union, FS_CardinalityType DEF Budgeted
<1>2. WeeklyBudget[type] \in Nat
  BY BudgetAssumption
<1>3. /\ IsFiniteSet(1 .. WeeklyBudget[type])
      /\ Cardinality(1 .. WeeklyBudget[type]) = WeeklyBudget[type]
  BY <1>2, FS_Interval
<1>4. /\ IsFiniteSet(all)
      /\ Cardinality(all) = Cardinality(Budgeted) * WeeklyBudget[type]
  BY <1>1, <1>3, FS_Product
<1>5. Tokens(type) \subseteq all
  BY DEF Tokens
<1> HIDE DEF all
<1>6. /\ IsFiniteSet(Tokens(type)) /\ Cardinality(Tokens(type)) \in Nat
      /\ Cardinality(Tokens(type)) <= Cardinality(all)
  BY <1>4, <1>5, SubsetSize
<1>7. \A n, w \in Nat : w * n = n * w /\ w * n \in Nat
  OBVIOUS
<1> QED BY <1>1, <1>2, <1>4, <1>6, <1>7

LEMMA TableFinite == TableOK => IsFiniteSet(DOMAIN rows)
<1> SUFFICES ASSUME TableOK
             PROVE  IsFiniteSet(DOMAIN rows)
  OBVIOUS
<1>1. DOMAIN rows = 1 .. Len(rows) /\ Len(rows) \in Nat
  BY DEF TableOK
<1> QED BY <1>1, FS_Interval

LEMMA WeekRows ==
    ASSUME TableOK, NEW type, NEW d
    PROVE  /\ IsFiniteSet(BudgetedThisWeek(type, d))
           /\ Cardinality(BudgetedThisWeek(type, d)) \in Nat
           /\ BudgetedThisWeek(type, d) \subseteq DOMAIN rows
<1> QED BY TableFinite, SubsetSize DEF BudgetedThisWeek

\* What a request under way holds, whichever kind it is.
LEMMA OpeningHolds ==
    ASSUME RequestsOK, NEW t \in Budgeted, task[t].phase \in Opening
    PROVE  /\ task[t].used \in [TradeTypes -> Nat]
           /\ task[t] = [phase |-> task[t].phase, queue |-> task[t].queue,
                         used |-> task[t].used]
<1>1. CASE t \in Confirms
  BY <1>1 DEF RequestsOK, ConfirmOK, Opening, Idle
<1>2. CASE t \in Musters
  BY <1>2 DEF RequestsOK, MusterOK, Opening, Idle
<1> QED BY <1>1, <1>2 DEF Budgeted

LEMMA OpeningHoldsNext ==
    ASSUME RequestsOK', NEW t \in Budgeted, task'[t].phase \in Opening
    PROVE  task'[t].used \in [TradeTypes -> Nat]
<1>1. CASE t \in Confirms
  BY <1>1 DEF RequestsOK, ConfirmOK, Opening, Idle
<1>2. CASE t \in Musters
  <2>1. MusterOK(t)'
    BY <1>2 DEF RequestsOK
  <2> QED BY <2>1 DEF MusterOK, Opening, Idle
<1> QED BY <1>1, <1>2 DEF Budgeted

\* A request that is done with a card counts no tier lower, and the card's own one
\* higher if it spent it.
LEMMA AfterHeadSpends ==
    ASSUME NEW t, task[t].used \in [TradeTypes -> Nat], NEW spent \in {0, 1}
    PROVE  \/ AfterHead(t, spent) = Idle
           \/ /\ AfterHead(t, spent).phase = "deploying"
              /\ \A type \in TradeTypes :
                    /\ AfterHead(t, spent).used[type] \in Nat
                    /\ task[t].used[type] <= AfterHead(t, spent).used[type]
                    /\ spent = 1 /\ type = Head(task[t].queue).type
                          => AfterHead(t, spent).used[type] = task[t].used[type] + 1
<1> DEFINE head == Head(task[t].queue).type
           used == [task[t].used EXCEPT ![head] = @ + spent]
<1>1. \A n \in Nat : n + spent \in Nat /\ n <= n + spent
  OBVIOUS
<1>2. ASSUME NEW type \in TradeTypes
      PROVE  /\ used[type] \in Nat /\ task[t].used[type] <= used[type]
             /\ spent = 1 /\ type = head => used[type] = task[t].used[type] + 1
  <2>1. CASE type = head
    BY <1>1, <2>1
  <2>2. CASE type # head
    BY <2>2
  <2> QED BY <2>1, <2>2
<1>3. AfterHead(t, spent) = Deploy(Tail(task[t].queue), used)
  BY DEF AfterHead
<1> HIDE DEF used
<1>4. CASE Tail(task[t].queue) = <<>>
  BY <1>3, <1>4 DEF Deploy
<1>5. CASE Tail(task[t].queue) # <<>>
  <2>1. AfterHead(t, spent)
          = [phase |-> "deploying", queue |-> Tail(task[t].queue), used |-> used]
    BY <1>3, <1>5 DEF Deploy
  <2> QED BY <1>2, <2>1
<1> QED BY <1>4, <1>5

\* The tokens that are left when no request starts to open or counts lower.
LEMMA FewerTokens ==
    ASSUME NEW type \in TradeTypes, RequestsOK, RequestsOK',
           \A t \in Budgeted : task'[t].phase \in Opening =>
               /\ task[t].phase \in Opening /\ task[t].used[type] <= task'[t].used[type]
    PROVE  Tokens(type)' \subseteq Tokens(type)
<1> SUFFICES ASSUME NEW token \in Tokens(type)'
             PROVE  token \in Tokens(type)
  OBVIOUS
<1>1. PICK t : t = token[1]
  OBVIOUS
<1>2. /\ token \in Budgeted \X (1 .. WeeklyBudget[type]) /\ t \in Budgeted
      /\ task'[t].phase \in Opening /\ token[2] > task'[t].used[type]
  BY <1>1 DEF Tokens
<1>3. task[t].used[type] \in Nat /\ task'[t].used[type] \in Nat
  BY <1>2, OpeningHolds, OpeningHoldsNext
<1>4. token[2] > task[t].used[type]
  <2>1. token[2] \in Nat
    BY <1>2, BudgetAssumption
  <2> QED BY <1>2, <1>3, <2>1
<1> QED BY <1>1, <1>2, <1>4 DEF Tokens

\* A step that opens no position for a budgeted request and starts none.
LEMMA WeekQuiet ==
    ASSUME SourceInv, SourceInv', WeekInv, Cleared', day' = day,
           \A type \in TradeTypes, d \in Nat :
               BudgetedThisWeek(type, d)' = BudgetedThisWeek(type, d),
           \A type \in TradeTypes : Tokens(type)' \subseteq Tokens(type)
    PROVE  WeekInv'
<1>1. day \in Nat /\ Days \subseteq Nat
  BY CardsAssumption DEF SourceInv, TableOK
<1>2. WeeklyBudgetBounded'
  <2> SUFFICES ASSUME NEW type \in TradeTypes, NEW d \in Days
               PROVE  Cardinality(BudgetedThisWeek(type, d))'
                          <= WeeklyBudget[type] * Cardinality(Budgeted)
    BY DEF WeeklyBudgetBounded
  <2>1. BudgetedThisWeek(type, d)' = BudgetedThisWeek(type, d)
    BY <1>1
  <2> QED BY <2>1 DEF WeekInv, WeeklyBudgetBounded
<1>3. ASSUME NEW type \in TradeTypes
      PROVE  (Cardinality(BudgetedThisWeek(type, day)) + Cardinality(Tokens(type))
                 <= WeeklyBudget[type] * Cardinality(Budgeted))'
  <2>1. PICK today \in Nat : today = day
    BY <1>1
  <2>2. BudgetedThisWeek(type, day)' = BudgetedThisWeek(type, day)
    BY <2>1
  <2>3. /\ Cardinality(Tokens(type))' <= Cardinality(Tokens(type))
        /\ Cardinality(Tokens(type))' \in Nat /\ Cardinality(Tokens(type)) \in Nat
    BY TokensSize, SubsetSize
  <2>4. Cardinality(BudgetedThisWeek(type, day)) \in Nat
    BY WeekRows DEF SourceInv
  <2>5. WeeklyBudget[type] * Cardinality(Budgeted) \in Nat
    BY TokensSize
  <2>6. Cardinality(BudgetedThisWeek(type, day)) + Cardinality(Tokens(type))
            <= WeeklyBudget[type] * Cardinality(Budgeted)
    BY DEF WeekInv
  <2> QED BY <2>2, <2>3, <2>4, <2>5, <2>6
<1> QED BY <1>2, <1>3 DEF WeekInv

\* Rows that are not looked at for the budget, or only closed.
LEMMA SameWeeks ==
    ASSUME SourceInv, [Next]_vars, \A t \in Budgeted : ~OpenPosition(t),
           NEW type, NEW d
    PROVE  BudgetedThisWeek(type, d)' = BudgetedThisWeek(type, d)
<1>0. TableOK
  BY DEF SourceInv
<1>1. CASE rows' = rows
  BY <1>1 DEF BudgetedThisWeek
<1>2. ASSUME NEW i \in DOMAIN rows, rows' = [rows EXCEPT ![i].open = FALSE]
      PROVE  BudgetedThisWeek(type, d)' = BudgetedThisWeek(type, d)
  BY <1>0, <1>2, ClosedRow DEF BudgetedThisWeek
<1>3. ASSUME NEW t \in Tasks, OpenPosition(t)
      PROVE  BudgetedThisWeek(type, d)' = BudgetedThisWeek(type, d)
  <2>1. PICK n : n = Len(rows) + 1
    OBVIOUS
  <2>2. /\ n \notin DOMAIN rows /\ DOMAIN rows' = DOMAIN rows \cup {n}
        /\ rows'[n] = NewRow(t) /\ \A i \in DOMAIN rows : rows'[i] = rows[i]
    BY <1>0, <1>3, <2>1, OpenedRow
  <2>3. ~NewRow(t).budgeted
    <3>1. t \notin Budgeted
      BY <1>3
    <3> QED BY <3>1 DEF NewRow
  <2>4. ~rows'[n].budgeted
    BY <2>2, <2>3
  <2>5. ASSUME NEW i
        PROVE  i \in BudgetedThisWeek(type, d)' <=> i \in BudgetedThisWeek(type, d)
    <3>1. CASE i = n
      BY <2>2, <2>4, <3>1 DEF BudgetedThisWeek
    <3>2. CASE i # n
      BY <2>2, <3>2 DEF BudgetedThisWeek
    <3> QED BY <3>1, <3>2
  <2> QED BY <2>5
<1> QED BY <1>0, <1>1, <1>2, <1>3, RowsNext

\* A step of the shared loop by a confirmation or a muster, but the opening itself.
LEMMA LoopSpends ==
    ASSUME RequestsOK, NEW t \in Budgeted, DeployStep(t)
    PROVE  /\ task[t].phase \in Opening
           /\ task'[t].phase \in Opening =>
                  \A type \in TradeTypes : task[t].used[type] <= task'[t].used[type]
           /\ task'[t].phase \in {"unique", "cleared"} =>
                  /\ task'[t].used = task[t].used /\ task'[t].queue = task[t].queue
                  /\ \/ task[t].phase = "unique"
                     \/ HasBudget(t)
<1>0. t \in Tasks /\ DOMAIN task = Tasks
  BY Apart DEF RequestsOK, Budgeted
<1>1. task[t].phase \in Opening
  BY <1>0, LoopKeeps
<1>2. /\ task[t].used \in [TradeTypes -> Nat]
      /\ task[t] = [phase |-> task[t].phase, queue |-> task[t].queue, used |-> task[t].used]
  BY <1>1, OpeningHolds
<1>3. ASSUME NEW spent \in {0, 1}, task'[t] = AfterHead(t, spent)
      PROVE  /\ task'[t].phase \notin {"unique", "cleared"}
             /\ task'[t].phase \in Opening =>
                  \A type \in TradeTypes : task[t].used[type] <= task'[t].used[type]
  BY <1>2, <1>3, AfterHeadSpends DEF Opening, Idle
<1>4. ASSUME NEW phase, task'[t] = [task[t] EXCEPT !.phase = phase]
      PROVE  task'[t].used = task[t].used /\ task'[t].queue = task[t].queue
  <2>1. PICK r : r = task[t]
    OBVIOUS
  <2>2. r = [phase |-> r.phase, queue |-> r.queue, used |-> r.used]
    BY <1>2, <2>1
  <2>3. task'[t] = [r EXCEPT !.phase = phase]
    BY <1>4, <2>1
  <2>4. task'[t].used = r.used /\ task'[t].queue = r.queue
    BY <2>2, <2>3
  <2> QED BY <2>1, <2>4
<1>5. \A type \in TradeTypes : task[t].used[type] <= task[t].used[type]
  <2>1. \A n \in Nat : n <= n
    OBVIOUS
  <2> QED BY <1>2, <2>1
<1>6. CASE \E spent \in {0, 1} : task'[t] = AfterHead(t, spent)
  BY <1>1, <1>3, <1>6
<1>7. CASE PassDuplicate(t)
  <2>1. task'[t] = [task[t] EXCEPT !.phase = "unique"] /\ HasBudget(t)
    BY <1>0, <1>7 DEF PassDuplicate
  <2> QED BY <1>1, <1>4, <1>5, <2>1
<1>8. CASE CheckExposure(t) /\ ~(\E spent \in {0, 1} : task'[t] = AfterHead(t, spent))
  <2>1. task'[t] = [task[t] EXCEPT !.phase = "cleared"] /\ task[t].phase = "unique"
    BY <1>0, <1>8 DEF CheckExposure
  <2> QED BY <1>1, <1>4, <1>5, <2>1
<1>9. CASE SkipOverBudget(t) \/ SkipDuplicate(t) \/ OpenPosition(t)
  <2>1. \E spent \in {0, 1} : task'[t] = AfterHead(t, spent)
    BY <1>0, <1>9 DEF SkipOverBudget, SkipDuplicate, OpenPosition
  <2> QED BY <1>6, <2>1
<1> QED BY <1>6, <1>7, <1>8, <1>9 DEF DeployStep

\* And the check of the budget is behind the card that is opened.
LEMMA LoopClears ==
    ASSUME RequestsOK, RequestsOK', Cleared, NEW t \in Budgeted, DeployStep(t)
    PROVE  Cleared'
<1>0. t \in Tasks /\ t \notin Polls
  BY Apart DEF Budgeted
<1> SUFFICES ASSUME NEW u \in Budgeted, task'[u].phase \in {"unique", "cleared"},
                    NEW type \in TradeTypes, type = Head(task'[u].queue).type
             PROVE  task'[u].used[type] < WeeklyBudget[type]
  BY DEF Cleared
<1>1. CASE u # t
  <2>1. task'[u] = task[u]
    BY <1>0, <1>1, LoopKeeps, Apart DEF RequestsOK, Budgeted
  <2> QED BY <2>1 DEF Cleared
<1>2. CASE u = t
  <2>1. /\ task'[t].used = task[t].used /\ task'[t].queue = task[t].queue
        /\ task[t].phase = "unique" \/ HasBudget(t)
    BY <1>2, LoopSpends
  <2>2. CASE task[t].phase = "unique"
    BY <1>2, <2>1, <2>2 DEF Cleared
  <2>3. CASE HasBudget(t)
    BY <1>0, <1>2, <2>1, <2>3 DEF HasBudget, WithinBudget
  <2> QED BY <2>1, <2>2, <2>3
<1> QED BY <1>1, <1>2

LEMMA WeekLoop ==
    ASSUME SourceInv, SourceInv', WeekInv, [Next]_vars,
           NEW t \in Budgeted, DeployStep(t), ~OpenPosition(t)
    PROVE  WeekInv'
<1>0. /\ RequestsOK /\ RequestsOK' /\ t \in Tasks /\ t \notin Polls /\ DOMAIN task = Tasks
      /\ Cleared
  BY Apart DEF SourceInv, RequestsOK, Budgeted, WeekInv
<1>1. day' = day /\ rows' = rows
  BY DEF DeployStep, SkipOverBudget, SkipDuplicate, PassDuplicate, CheckExposure
<1>2. \A u \in Budgeted \ {t} : task'[u] = task[u]
  BY <1>0, LoopKeeps, Apart DEF Budgeted
<1>3. ASSUME NEW type \in TradeTypes
      PROVE  Tokens(type)' \subseteq Tokens(type)
  <2>1. ASSUME NEW u \in Budgeted, task'[u].phase \in Opening
        PROVE  task[u].phase \in Opening /\ task[u].used[type] <= task'[u].used[type]
    <3>1. CASE u = t
      BY <1>0, <2>1, <3>1, LoopSpends
    <3>2. CASE u # t
      <4>1. task'[u] = task[u]
        BY <1>2, <3>2
      <4>2. task[u].used[type] \in Nat
        BY <1>0, <2>1, <4>1, OpeningHolds
      <4>3. task[u].used[type] <= task[u].used[type]
        BY <4>2
      <4> QED BY <2>1, <4>1, <4>3
    <3> QED BY <3>1, <3>2
  <2> QED BY <1>0, <2>1, FewerTokens
<1>4. Cleared'
  BY <1>0, LoopClears
<1>5. \A type \in TradeTypes, d \in Nat :
          BudgetedThisWeek(type, d)' = BudgetedThisWeek(type, d)
  BY <1>1 DEF BudgetedThisWeek
<1> QED BY <1>1, <1>3, <1>4, <1>5, WeekQuiet

LEMMA RangeSize ==
    ASSUME NEW low \in Nat, NEW high \in Nat, low <= high
    PROVE  /\ IsFiniteSet(low + 1 .. high)
           /\ Cardinality(low + 1 .. high) = high - low
<1>1. low + 1 \in Int /\ high \in Int
  OBVIOUS
<1>2. /\ IsFiniteSet(low + 1 .. high)
      /\ Cardinality(low + 1 .. high)
            = IF low + 1 > high THEN 0 ELSE high - (low + 1) + 1
  BY <1>1, FS_Interval
<1> QED BY <1>2

LEMMA PairsSize ==
    ASSUME NEW S, IsFiniteSet(S), NEW low \in Nat, NEW high \in Nat, low <= high,
           NEW range, range = low + 1 .. high
    PROVE  /\ IsFiniteSet(S \X range)
           /\ Cardinality(S \X range) = Cardinality(S) * (high - low)
<1>1. IsFiniteSet(range) /\ Cardinality(range) = high - low
  BY RangeSize
<1>2. /\ IsFiniteSet(S \X range)
      /\ Cardinality(S \X range) = Cardinality(S) * Cardinality(range)
  BY <1>1, FS_Product
<1> QED BY <1>1, <1>2

\* A request that starts has counted at least the rows its class has opened this
\* week: what it may still open fits into what the others leave of the bound.
LEMMA WeekStarts ==
    ASSUME SourceInv, SourceInv', WeekInv, NEW t \in Budgeted, NEW queue,
           rows' = rows, day' = day,
           task'[t] = Deploy(queue, UsedThisWeek), task[t].phase \notin Opening,
           \A u \in Budgeted \ {t} : task'[u] = task[u]
    PROVE  WeekInv'
<1>0. RequestsOK /\ RequestsOK' /\ TableOK /\ Cleared
  BY DEF SourceInv, WeekInv
<1>1. \/ task'[t] = Idle
      \/ task'[t] = [phase |-> "deploying", queue |-> queue, used |-> UsedThisWeek]
  BY DEF Deploy
<1>2. UsedThisWeek \in [TradeTypes -> Nat]
  BY <1>0, UsedType
<1>3. Cleared'
  <2> SUFFICES ASSUME NEW u \in Budgeted, task'[u].phase \in {"unique", "cleared"},
                      NEW type \in TradeTypes, type = Head(task'[u].queue).type
               PROVE  task'[u].used[type] < WeeklyBudget[type]
    BY DEF Cleared
  <2>1. u # t
    BY <1>1 DEF Idle
  <2>2. task'[u] = task[u]
    BY <2>1
  <2> QED BY <1>0, <2>2 DEF Cleared
<1>4. ASSUME NEW u \in Budgeted \ {t}, NEW type \in TradeTypes, task'[u].phase \in Opening
      PROVE  task[u].phase \in Opening /\ task[u].used[type] <= task'[u].used[type]
  <2>1. task'[u] = task[u]
    OBVIOUS
  <2>2. task[u].used[type] \in Nat
    BY <1>0, <1>4, <2>1, OpeningHolds
  <2>3. task[u].used[type] <= task[u].used[type]
    BY <2>2
  <2> QED BY <1>4, <2>1, <2>3
<1>5. CASE task'[t] = Idle
  <2>1. \A type \in TradeTypes : Tokens(type)' \subseteq Tokens(type)
    BY <1>0, <1>4, <1>5, FewerTokens DEF Idle, Opening
  <2>2. \A type \in TradeTypes, d \in Nat :
            BudgetedThisWeek(type, d)' = BudgetedThisWeek(type, d)
    BY DEF BudgetedThisWeek
  <2> QED BY <1>3, <2>1, <2>2, WeekQuiet
<1>6. CASE task'[t] = [phase |-> "deploying", queue |-> queue, used |-> UsedThisWeek]
  <2>1. ASSUME NEW type \in TradeTypes
        PROVE  Cardinality(BudgetedThisWeek(type, day)) + Cardinality(Tokens(type)')
                   <= WeeklyBudget[type] * Cardinality(Budgeted)
    <3>1. PICK cap \in Nat : cap = WeeklyBudget[type]
      BY BudgetAssumption
    <3>2. PICK used \in Nat : used = UsedThisWeek[type]
      BY <1>2
    <3>3. PICK spent \in Nat : spent = Cardinality(BudgetedThisWeek(type, day))
      BY <1>0, WeekRows
    <3>4. PICK size \in Nat : size = Cardinality(Budgeted)
      BY TokensSize
    <3>5. PICK left \in Nat : left = Cardinality(Tokens(type)')
      <4>1. Tokens(type)' \subseteq Budgeted \X (1 .. cap)
        BY <3>1 DEF Tokens
      <4>2. 0 \in Nat /\ 0 <= cap /\ 1 .. cap = 0 + 1 .. cap
        OBVIOUS
      <4>3. IsFiniteSet(Budgeted \X (1 .. cap))
        BY <4>2, TokensSize, PairsSize
      <4> QED BY <4>1, <4>3, SubsetSize
    <3>6. spent <= used
      <4>1. BudgetedThisWeek(type, day)
              \subseteq {i \in DOMAIN rows : /\ rows[i].card.type = type
                                             /\ Week(rows[i].day) = Week(day)}
        BY DEF BudgetedThisWeek
      <4>2. IsFiniteSet(DOMAIN rows)
        BY <1>0, TableFinite
      <4>3. IsFiniteSet({i \in DOMAIN rows : /\ rows[i].card.type = type
                                             /\ Week(rows[i].day) = Week(day)})
        BY <4>2, FS_Subset
      <4> QED BY <3>2, <3>3, <4>1, <4>3, SubsetSize DEF UsedThisWeek
    <3>7. task'[t].used[type] = used
      BY <1>6, <3>2
    <3>8. CASE used >= cap
      <4>1. ASSUME NEW token \in Tokens(type)'
            PROVE  token \in Tokens(type)
        <5>1. PICK u : u = token[1]
          OBVIOUS
        <5>2. /\ token \in Budgeted \X (1 .. cap) /\ u \in Budgeted /\ token[2] \in Nat
              /\ token[2] <= cap
              /\ task'[u].phase \in Opening /\ token[2] > task'[u].used[type]
          BY <3>1, <5>1 DEF Tokens
        <5>3. u # t
          BY <3>7, <3>8, <5>2
        <5>4. task'[u] = task[u]
          BY <5>2, <5>3
        <5> QED BY <3>1, <5>1, <5>2, <5>4 DEF Tokens
      <4>2. left <= Cardinality(Tokens(type)) /\ Cardinality(Tokens(type)) \in Nat
        BY <3>5, <4>1, TokensSize, SubsetSize
      <4>3. spent + Cardinality(Tokens(type)) <= WeeklyBudget[type] * Cardinality(Budgeted)
        BY <3>3 DEF WeekInv
      <4>4. WeeklyBudget[type] * Cardinality(Budgeted) \in Nat
        BY TokensSize
      <4> QED BY <3>3, <3>5, <4>2, <4>3, <4>4
    <3>9. CASE used < cap
      <4> DEFINE others == (Budgeted \ {t}) \X (1 .. cap)
                 mine   == {t} \X (used + 1 .. cap)
      <4>1. Tokens(type)' \subseteq others \cup mine
        <5> SUFFICES ASSUME NEW token \in Tokens(type)'
                     PROVE  token \in others \cup mine
          OBVIOUS
        <5>1. /\ token \in Budgeted \X (1 .. cap)
              /\ token[2] > task'[token[1]].used[type]
          BY <3>1 DEF Tokens
        <5>2. CASE token[1] = t
          <6>1. token[2] > used /\ token[2] \in 1 .. cap
            BY <3>7, <5>1, <5>2
          <6>2. token[2] \in used + 1 .. cap
            BY <6>1
          <6> QED BY <5>1, <5>2, <6>2
        <5>3. CASE token[1] # t
          BY <5>1, <5>3
        <5> QED BY <5>2, <5>3
      <4>2. IsFiniteSet(others) /\ Cardinality(others) = (size - 1) * cap
        <5>1. IsFiniteSet(Budgeted \ {t}) /\ Cardinality(Budgeted \ {t}) = size - 1
          BY <3>4, TokensSize, FS_RemoveElement
        <5>2. PICK low \in Nat : low = 0
          OBVIOUS
        <5>3. low <= cap /\ 1 .. cap = low + 1 .. cap /\ cap - low = cap
          BY <5>2
        <5>4. PICK rest, range : rest = Budgeted \ {t} /\ range = 1 .. cap
          OBVIOUS
        <5>5. /\ IsFiniteSet(rest \X range)
              /\ Cardinality(rest \X range) = Cardinality(rest) * (cap - low)
          <6>1. IsFiniteSet(rest) /\ range = low + 1 .. cap /\ low <= cap
            BY <5>1, <5>3, <5>4
          <6> QED BY <6>1, PairsSize
        <5> QED BY <5>1, <5>3, <5>4, <5>5
      <4>3. IsFiniteSet(mine) /\ Cardinality(mine) = cap - used
        <5>1. IsFiniteSet({t}) /\ Cardinality({t}) = 1
          BY FS_Singleton
        <5>2. IsFiniteSet(mine) /\ Cardinality(mine) = Cardinality({t}) * (cap - used)
          <6>1. used <= cap
            BY <3>9
          <6> QED BY <5>1, <6>1, PairsSize, ZenonT(60)
        <5>3. 1 * (cap - used) = cap - used
          OBVIOUS
        <5> QED BY <5>1, <5>2, <5>3
      <4> HIDE DEF others, mine
      <4>4. /\ IsFiniteSet(others \cup mine)
            /\ Cardinality(others \cup mine)
                  = Cardinality(others) + Cardinality(mine) - Cardinality(others \cap mine)
            /\ Cardinality(others \cap mine) \in Nat
        BY <4>2, <4>3, FS_Union, FS_Intersection, FS_CardinalityType
      <4>5. left <= Cardinality(others \cup mine) /\ Cardinality(others \cup mine) \in Nat
        BY <3>5, <4>1, <4>4, SubsetSize
      <4>6. (size - 1) * cap + cap = cap * size
        <5>1. \A n, w \in Nat : (n - 1) * w + w = w * n
          OBVIOUS
        <5> QED BY <5>1
      <4>7. (size - 1) * cap \in Int
        OBVIOUS
      <4>8. left <= (size - 1) * cap + (cap - used)
        BY <4>2, <4>3, <4>4, <4>5, <4>7
      <4>9. spent + left <= cap * size
        BY <3>6, <4>6, <4>7, <4>8
      <4> QED BY <3>1, <3>3, <3>4, <3>5, <4>9
    <3> QED BY <3>8, <3>9
  <2>2. PICK today \in Nat : today = day
    BY <1>0 DEF TableOK
  <2>3. \A type, d : BudgetedThisWeek(type, d)' = BudgetedThisWeek(type, d)
    BY DEF BudgetedThisWeek
  <2>4. \A type : BudgetedThisWeek(type, day)' = BudgetedThisWeek(type, day)
    BY DEF BudgetedThisWeek
  <2>5. WeeklyBudgetBounded'
    BY <2>3 DEF WeekInv, WeeklyBudgetBounded
  <2> QED BY <1>3, <2>1, <2>4, <2>5 DEF WeekInv
<1> QED BY <1>1, <1>5, <1>6

\* The one opening of a budgeted request costs it a token.
LEMMA WeekOpens ==
    ASSUME SourceInv, SourceInv', WeekInv, NEW t \in Budgeted, OpenPosition(t)
    PROVE  WeekInv'
<1>0. /\ RequestsOK /\ RequestsOK' /\ TableOK /\ TableOK' /\ t \in Tasks
      /\ DOMAIN task = Tasks /\ Cleared /\ day \in Nat
  BY Apart DEF SourceInv, RequestsOK, TableOK, Budgeted, WeekInv
<1>1. PICK n : n = Len(rows) + 1
  OBVIOUS
<1>2. /\ n \notin DOMAIN rows /\ DOMAIN rows' = DOMAIN rows \cup {n}
      /\ rows'[n] = NewRow(t) /\ \A i \in DOMAIN rows : rows'[i] = rows[i]
  BY <1>0, <1>1, OpenedRow
<1>3. /\ day' = day /\ task[t].phase = "cleared"
      /\ task'[t] = AfterHead(t, 1) /\ \A u \in Budgeted \ {t} : task'[u] = task[u]
  BY <1>0, Apart DEF OpenPosition, Budgeted
<1>4. Cleared' /\ DeployStep(t)
  BY <1>0, LoopClears DEF DeployStep
<1>5. task[t].used \in [TradeTypes -> Nat]
  BY <1>0, <1>3, OpeningHolds DEF Opening
<1>6. PICK head : head = Head(task[t].queue).type
  OBVIOUS
<1>7. PICK today \in Nat : today = day
  BY <1>0
<1>8. /\ NewRow(t).card.type = head /\ NewRow(t).day = today
      /\ NewRow(t).budgeted
  BY <1>6, <1>7 DEF NewRow
<1>9. ASSUME NEW type \in TradeTypes
      PROVE  Tokens(type)' \subseteq Tokens(type)
  <2>1. ASSUME NEW u \in Budgeted, task'[u].phase \in Opening
        PROVE  task[u].phase \in Opening /\ task[u].used[type] <= task'[u].used[type]
    <3>1. CASE u = t
      BY <1>0, <1>4, <2>1, <3>1, LoopSpends
    <3>2. CASE u # t
      <4>1. task'[u] = task[u]
        BY <1>3, <3>2
      <4>2. task[u].used[type] \in Nat
        BY <1>0, <2>1, <4>1, OpeningHolds
      <4>3. task[u].used[type] <= task[u].used[type]
        BY <4>2
      <4> QED BY <2>1, <4>1, <4>3
    <3> QED BY <3>1, <3>2
  <2> QED BY <1>0, <2>1, FewerTokens
<1>10. ASSUME NEW type \in TradeTypes, NEW d,
              type # head \/ Week(d) # Week(today)
       PROVE  BudgetedThisWeek(type, d)' = BudgetedThisWeek(type, d)
  <2>1. ASSUME NEW i
        PROVE  i \in BudgetedThisWeek(type, d)' <=> i \in BudgetedThisWeek(type, d)
    <3>1. CASE i = n
      <4>1. rows'[n].card.type = head /\ rows'[n].day = today
        BY <1>2, <1>8
      <4>2. n \notin BudgetedThisWeek(type, d)'
        BY <1>10, <4>1 DEF BudgetedThisWeek
      <4> QED BY <1>2, <3>1, <4>2 DEF BudgetedThisWeek
    <3>2. CASE i # n
      BY <1>2, <3>2 DEF BudgetedThisWeek
    <3> QED BY <3>1, <3>2
  <2> QED BY <2>1
<1>11. ASSUME NEW type \in TradeTypes, type = head
       PROVE  /\ Cardinality(BudgetedThisWeek(type, today)') \in Nat
              /\ Cardinality(BudgetedThisWeek(type, today)')
                    = Cardinality(BudgetedThisWeek(type, today)) + 1
              /\ Cardinality(Tokens(type)') \in Nat
              /\ Cardinality(Tokens(type)') <= Cardinality(Tokens(type)) - 1
  <2>1. BudgetedThisWeek(type, today)' = BudgetedThisWeek(type, today) \cup {n}
    <3>1. ASSUME NEW i
          PROVE  i \in BudgetedThisWeek(type, today)'
                     <=> i \in BudgetedThisWeek(type, today) \cup {n}
      <4>1. CASE i = n
        <5>1. rows'[n].card.type = head /\ rows'[n].day = today /\ rows'[n].budgeted
          BY <1>2, <1>8
        <5> QED BY <1>2, <1>11, <4>1, <5>1 DEF BudgetedThisWeek
      <4>2. CASE i # n
        BY <1>2, <4>2 DEF BudgetedThisWeek
      <4> QED BY <4>1, <4>2
    <3> QED BY <3>1
  <2>2. n \notin BudgetedThisWeek(type, today)
    BY <1>2 DEF BudgetedThisWeek
  <2>3. /\ IsFiniteSet(BudgetedThisWeek(type, today))
        /\ Cardinality(BudgetedThisWeek(type, today)) \in Nat
    BY <1>0, WeekRows
  <2>4. Cardinality(BudgetedThisWeek(type, today) \cup {n})
            = Cardinality(BudgetedThisWeek(type, today)) + 1
    BY <2>2, <2>3, FS_AddElement
  <2>5. PICK used \in Nat, cap \in Nat :
            used = task[t].used[type] /\ cap = WeeklyBudget[type]
    BY <1>5, BudgetAssumption
  <2>6. used < cap
    BY <1>0, <1>3, <1>6, <1>11, <2>5 DEF Cleared
  <2>7. used + 1 \in 1 .. cap
    BY <2>6
  <2>8. PICK token : token = <<t, used + 1>>
    OBVIOUS
  <2>9. token[1] = t /\ token[2] = used + 1 /\ token \in Budgeted \X (1 .. cap)
    BY <2>7, <2>8
  <2>10. token \in Tokens(type)
    <3>1. token[2] > used
      BY <2>9
    <3> QED BY <1>3, <2>5, <2>9, <3>1 DEF Tokens, Opening
  <2>11. token \notin Tokens(type)'
    <3> SUFFICES ASSUME token \in Tokens(type)'
                 PROVE  FALSE
      OBVIOUS
    <3>1. task'[t].phase \in Opening /\ used + 1 > task'[t].used[type]
      BY <2>9 DEF Tokens
    <3>2. 1 \in {0, 1}
      OBVIOUS
    <3>3. AfterHead(t, 1) # Idle
      BY <1>3, <3>1 DEF Idle, Opening
    <3>4. task'[t].used[type] = used + 1
      BY <1>3, <1>5, <1>6, <1>11, <2>5, <3>2, <3>3, AfterHeadSpends
    <3> QED BY <3>1, <3>4
  <2>12. Tokens(type)' \subseteq Tokens(type) \ {token}
    BY <1>9, <2>11
  <2>13. /\ IsFiniteSet(Tokens(type) \ {token}) /\ Cardinality(Tokens(type)) \in Nat
         /\ Cardinality(Tokens(type) \ {token}) = Cardinality(Tokens(type)) - 1
    BY <2>10, TokensSize, FS_RemoveElement
  <2>14. /\ Cardinality(Tokens(type)') \in Nat
         /\ Cardinality(Tokens(type)') <= Cardinality(Tokens(type)) - 1
    BY <2>12, <2>13, SubsetSize
  <2>15. \A k \in Nat : k + 1 \in Nat
    OBVIOUS
  <2> QED BY <2>1, <2>3, <2>4, <2>14, <2>15
<1>12. ASSUME NEW type \in TradeTypes
       PROVE  /\ Cardinality(BudgetedThisWeek(type, today)') + Cardinality(Tokens(type)')
                     <= WeeklyBudget[type] * Cardinality(Budgeted)
              /\ Cardinality(BudgetedThisWeek(type, today)')
                     <= WeeklyBudget[type] * Cardinality(Budgeted)
  <2>1. Cardinality(BudgetedThisWeek(type, today)) + Cardinality(Tokens(type))
            <= WeeklyBudget[type] * Cardinality(Budgeted)
    BY <1>7 DEF WeekInv
  <2>2. /\ Cardinality(BudgetedThisWeek(type, today)) \in Nat
        /\ Cardinality(Tokens(type)) \in Nat
        /\ WeeklyBudget[type] * Cardinality(Budgeted) \in Nat
    BY <1>0, WeekRows, TokensSize
  <2>3. CASE type = head
    BY <1>11, <2>1, <2>2, <2>3
  <2>4. CASE type # head
    <3>1. BudgetedThisWeek(type, today)' = BudgetedThisWeek(type, today)
      BY <1>10, <2>4
    <3>2. Cardinality(Tokens(type)') \in Nat /\ Cardinality(Tokens(type)') <= Cardinality(Tokens(type))
      BY <1>9, TokensSize, SubsetSize
    <3> QED BY <2>1, <2>2, <3>1, <3>2
  <2> QED BY <2>3, <2>4
<1>13. WeeklyBudgetBounded'
  <2> SUFFICES ASSUME NEW type \in TradeTypes, NEW d \in Days
               PROVE  Cardinality(BudgetedThisWeek(type, d)')
                          <= WeeklyBudget[type] * Cardinality(Budgeted)
    BY DEF WeeklyBudgetBounded
  <2>1. CASE Week(d) = Week(today)
    <3>1. BudgetedThisWeek(type, d)' = BudgetedThisWeek(type, today)'
      BY <2>1 DEF BudgetedThisWeek
    <3> QED BY <1>12, <3>1
  <2>2. CASE Week(d) # Week(today)
    <3>1. BudgetedThisWeek(type, d)' = BudgetedThisWeek(type, d)
      BY <1>10, <2>2
    <3> QED BY <3>1 DEF WeekInv, WeeklyBudgetBounded
  <2> QED BY <2>1, <2>2
<1>14. \A type : BudgetedThisWeek(type, day)' = BudgetedThisWeek(type, today)'
  BY <1>3, <1>7 DEF BudgetedThisWeek
<1> QED BY <1>4, <1>12, <1>13, <1>14 DEF WeekInv

\* On a new week no row counts yet, and the requests under way have their tokens.
LEMMA WeekPasses ==
    ASSUME SourceInv, SourceInv', WeekInv,
           day' \in Days, day' > day, rows' = rows, task' = task
    PROVE  WeekInv'
<1>0. TableOK /\ TableOK' /\ day \in Nat
  BY DEF SourceInv, TableOK
<1>1. PICK next \in Nat : next = day'
  BY CardsAssumption
<1>2. PICK today \in Nat : today = day
  BY <1>0
<1>3. Cleared'
  BY DEF WeekInv, Cleared
<1>4. \A type, d : BudgetedThisWeek(type, d)' = BudgetedThisWeek(type, d)
  BY DEF BudgetedThisWeek
<1>5. WeeklyBudgetBounded'
  BY <1>4 DEF WeekInv, WeeklyBudgetBounded
<1>6. ASSUME NEW type \in TradeTypes
      PROVE  Cardinality(BudgetedThisWeek(type, next)) + Cardinality(Tokens(type))
                 <= WeeklyBudget[type] * Cardinality(Budgeted)
  <2>1. CASE Week(next) = Week(today)
    <3>1. BudgetedThisWeek(type, next) = BudgetedThisWeek(type, today)
      BY <2>1 DEF BudgetedThisWeek
    <3> QED BY <1>2, <3>1 DEF WeekInv
  <2>2. CASE Week(next) # Week(today)
    <3>1. ASSUME NEW i \in DOMAIN rows
          PROVE  Week(rows[i].day) # Week(next)
      <4>1. PICK S : rows \in Seq(RowOf(S))
        BY <1>0 DEF TableOK
      <4>2. rows[i] \in RowOf(S)
        BY <4>1
      <4>3. PICK opened \in Nat : opened = rows[i].day
        BY <4>2 DEF RowOf
      <4>4. opened <= today /\ today < next
        BY <1>0, <1>1, <1>2, <4>3 DEF TableOK
      <4>5. Week(opened) <= Week(today) /\ Week(today) <= Week(next)
            /\ Week(opened) \in Nat /\ Week(today) \in Nat /\ Week(next) \in Nat
        BY <4>4 DEF Week
      <4> QED BY <2>2, <4>3, <4>5
    <3>2. BudgetedThisWeek(type, next) = {}
      BY <3>1 DEF BudgetedThisWeek
    <3>3. Cardinality(BudgetedThisWeek(type, next)) = 0
      BY <3>2, FS_EmptySet
    <3> QED BY <3>3, TokensSize
  <2> QED BY <2>1, <2>2
<1>7. \A type : /\ BudgetedThisWeek(type, day)' = BudgetedThisWeek(type, next)
                /\ Tokens(type)' = Tokens(type)
  BY <1>1 DEF BudgetedThisWeek, Tokens
<1> QED BY <1>3, <1>5, <1>6, <1>7 DEF WeekInv

\* A step with which no budgeted request starts or goes on opening.
LEMMA WeekRests ==
    ASSUME SourceInv, SourceInv', WeekInv, [Next]_vars, day' = day,
           \A t \in Budgeted : ~OpenPosition(t),
           \A t \in Budgeted : task'[t] = task[t] \/ task'[t].phase \notin Opening
    PROVE  WeekInv'
<1>0. RequestsOK /\ RequestsOK' /\ Cleared
  BY DEF SourceInv, WeekInv
<1>1. Cleared'
  BY <1>0 DEF Cleared, Opening
<1>2. ASSUME NEW type \in TradeTypes
      PROVE  Tokens(type)' \subseteq Tokens(type)
  <2>1. ASSUME NEW t \in Budgeted, task'[t].phase \in Opening
        PROVE  task[t].phase \in Opening /\ task[t].used[type] <= task'[t].used[type]
    <3>1. task'[t] = task[t]
      BY <2>1
    <3>2. task[t].used[type] \in Nat
      BY <1>0, <2>1, <3>1, OpeningHolds
    <3>3. task[t].used[type] <= task[t].used[type]
      BY <3>2
    <3> QED BY <2>1, <3>1, <3>3
  <2> QED BY <1>0, <2>1, FewerTokens
<1>3. \A type \in TradeTypes, d \in Nat :
          BudgetedThisWeek(type, d)' = BudgetedThisWeek(type, d)
  BY SameWeeks
<1> QED BY <1>1, <1>2, <1>3, WeekQuiet

LEMMA WeekStep ==
    ASSUME SourceInv, SourceInv', WeekInv, [Next]_vars
    PROVE  WeekInv'
<1>0. /\ RequestsOK /\ MarksOK /\ TableOK /\ DOMAIN task = Tasks
      /\ \A c \in Confirms : ConfirmOK(c)
      /\ \A m \in Musters : MusterOK(m)
  BY DEF SourceInv, RequestsOK
<1>1. \A t \in Budgeted : t \in Tasks /\ t \notin Polls
  BY Apart DEF Budgeted
<1>2. CASE \E t \in Budgeted : OpenPosition(t)
  BY <1>2, WeekOpens
<1>3. ASSUME \A t \in Budgeted : ~OpenPosition(t), NEW p \in Polls, FetchReading(p) \/ PollStep(p)
      PROVE  WeekInv'
  <2>1. \A t \in Budgeted : task'[t] = task[t]
    BY <1>0, <1>1, <1>3, PollAlone
  <2>2. day' = day
    BY <1>3 DEF FetchReading, PollStep, CompareQuiet, Alert, MarkAlerted, DeployStep,
                SkipOverBudget, SkipDuplicate, PassDuplicate, CheckExposure, OpenPosition
  <2> QED BY <1>3, <2>1, <2>2, WeekRests
<1>4. ASSUME \A t \in Budgeted : ~OpenPosition(t),
             NEW c \in Confirms, ConfirmStep(c)
      PROVE  WeekInv'
  <2>0. c \in Budgeted /\ \A t \in Budgeted \ {c} : task'[t] = task[t]
    BY <1>0, <1>1, <1>4, ConfirmAlone DEF Budgeted
  <2>1. CASE DropRejection(c) \/ AnnounceRejection(c)
    <3>1. task'[c].phase \notin Opening
      BY <1>0, <1>1, <2>0, <2>1 DEF DropRejection, AnnounceRejection, Idle, Opening
    <3>2. day' = day
      BY <2>1 DEF DropRejection, AnnounceRejection
    <3> QED BY <1>4, <2>0, <3>1, <3>2, WeekRests
  <2>2. CASE MarkRejection(c) \/ MarkQuietly(c)
    <3>1. task[c].phase \notin Opening
      BY <2>2 DEF MarkRejection, MarkQuietly, Idle, Opening
    <3>2. PICK card : Take(c, card)
      BY <2>2 DEF MarkRejection, MarkQuietly
    <3>3. /\ rows' = rows /\ day' = day /\ task'[c] = Deploy(<<card>>, UsedThisWeek)
      BY <1>0, <1>1, <2>0, <3>2 DEF Take
    <3> QED BY <2>0, <3>1, <3>3, WeekStarts
  <2>3. CASE DeployStep(c)
    BY <1>4, <2>0, <2>3, WeekLoop
  <2> QED BY <1>4, <2>1, <2>2, <2>3 DEF ConfirmStep
<1>5. ASSUME \A t \in Budgeted : ~OpenPosition(t), NEW m \in Musters, Muster(m) \/ MusterStep(m)
      PROVE  WeekInv'
  <2>0. m \in Budgeted /\ \A t \in Budgeted \ {m} : task'[t] = task[t]
    BY <1>0, <1>1, <1>5, MusterAlone DEF Budgeted
  <2>1. CASE Muster(m)
    <3>1. task'[m].phase \notin Opening /\ day' = day
      BY <1>0, <1>1, <2>0, <2>1 DEF Muster, Opening
    <3> QED BY <1>5, <2>0, <3>1, WeekRests
  <2>2. CASE Engage(m)
    <3>1. /\ rows' = rows /\ day' = day
          /\ \E queue : task'[m] = Deploy(queue, UsedThisWeek)
          /\ task[m].phase \notin Opening
      BY <1>0, <1>1, <2>0, <2>2 DEF Engage, Opening
    <3> QED BY <2>0, <3>1, WeekStarts
  <2>3. CASE DeployStep(m)
    BY <1>5, <2>0, <2>3, WeekLoop
  <2> QED BY <1>5, <2>1, <2>2, <2>3 DEF MusterStep
<1>6. CASE DayPasses
  BY <1>6, WeekPasses DEF DayPasses
<1>7. CASE \/ PositionCloses \/ UNCHANGED vars
           \/ RequestFails \/ AppRestarts
  <2>1. day' = day
    BY <1>7 DEF PositionCloses, RequestFails, AppRestarts, vars
  <2>2. \A t \in Budgeted : task'[t] = task[t] \/ task'[t] = Idle
    BY <1>0, <1>1, <1>7 DEF PositionCloses, RequestFails, AppRestarts, vars
  <2>3. \A t \in Budgeted : task'[t] = task[t] \/ task'[t].phase \notin Opening
    BY <2>2 DEF Idle, Opening
  <2> QED BY <1>2, <2>1, <2>3, WeekRests
<1> QED BY <1>2, <1>3, <1>4, <1>5, <1>6, <1>7 DEF Next

\* trade_budget: however the confirmations and the musters overlap and whatever fails,
\* a week of a tier opens no more positions than its budget for each of them: each may
\* miss what the others have opened since it counted, but stops at its own cap.
THEOREM WeeksAreBounded == Spec => []WeeklyBudgetBounded
<1>1. Init => WeekInv
  <2> SUFFICES ASSUME Init
               PROVE  WeekInv
    OBVIOUS
  <2>1. Cleared
    BY Apart DEF Init, Cleared, Idle, Budgeted
  <2>2. ASSUME NEW type, NEW d
        PROVE  Cardinality(BudgetedThisWeek(type, d)) = 0
    <3>1. BudgetedThisWeek(type, d) = {}
      BY DEF Init, BudgetedThisWeek
    <3> QED BY <3>1, FS_EmptySet
  <2>3. ASSUME NEW type \in TradeTypes
        PROVE  /\ 0 <= WeeklyBudget[type] * Cardinality(Budgeted)
               /\ 0 + Cardinality(Tokens(type)) <= WeeklyBudget[type] * Cardinality(Budgeted)
    BY TokensSize
  <2> QED BY <2>1, <2>2, <2>3 DEF WeekInv, WeeklyBudgetBounded
<1>2. SourceInv /\ SourceInv' /\ WeekInv /\ [Next]_vars => WeekInv'
  BY WeekStep
<1>3. WeekInv => WeeklyBudgetBounded
  BY DEF WeekInv
<1> QED BY <1>1, <1>2, <1>3, SourceAlways, PTL DEF Spec

-----------------------------------------------------------------------------
(* What a muster takes.                                                     *)

LEMMA BonusesFinite == IsFiniteSet(Bonuses)
<1>1. IsFiniteSet({"b2b"}) /\ IsFiniteSet({"warthog"})
      /\ IsFiniteSet({"options"}) /\ IsFiniteSet({"radar"})
  BY FS_Singleton
<1>2. IsFiniteSet({"b2b"} \cup {"warthog"}) /\ IsFiniteSet({"options"} \cup {"radar"})
  BY <1>1, FS_Union
<1>3. IsFiniteSet(({"b2b"} \cup {"warthog"}) \cup ({"options"} \cup {"radar"}))
  BY <1>2, FS_Union
<1>4. Bonuses = ({"b2b"} \cup {"warthog"}) \cup ({"options"} \cup {"radar"})
  BY DEF Bonuses
<1> QED BY <1>3, <1>4

\* A candidate's score and its continuation are numbers.
LEMMA ScoreInt ==
    ASSUME NEW c \in Candidate
    PROVE  ScoreCandidate(c) \in Int /\ Continuation(c) \in Nat
<1>1. Cardinality(c.bonuses) \in Nat /\ Cardinality(c.bonuses \cap {"b2b", "warthog"}) \in Nat
  <2>1. c.bonuses \in SUBSET Bonuses
    BY DEF Candidate
  <2>2. IsFiniteSet(c.bonuses)
    BY <2>1, BonusesFinite, FS_Subset
  <2>3. IsFiniteSet(c.bonuses \cap {"b2b", "warthog"})
    BY <2>2, FS_Intersection
  <2> QED BY <2>2, <2>3, FS_CardinalityType
<1>2. c.rr \in Nat /\ c.type \in TradeTypes
  BY DEF Candidate
<1>3. Min({800, c.rr}) \in Int
  BY <1>2, LeastOfTwo
<1>4. ASSUME NEW full \in Nat, NEW part \in Nat, NEW reading, NEW best, NEW soft
      PROVE  Weigh(full, part, reading, best, soft) \in Nat
  <2>1. CASE reading = best
    BY <2>1 DEF Weigh
  <2>2. CASE reading # best /\ reading \in soft
    BY <2>2 DEF Weigh
  <2>3. CASE reading # best /\ reading \notin soft
    BY <2>3 DEF Weigh
  <2> QED BY <2>1, <2>2, <2>3
<1>5. Points(c) \in Int
  <2> DEFINE campaign    == Weigh(3000, 1200, c.campaign, "advances", {"neutral"})
             htf         == Weigh(1500, 600, c.htf, "aligns", {"neutral"})
             regime      == Weigh(1500, 750, c.regime, "confirms", {"neutral"})
             location    == Weigh(1200, 600, c.location, "ok", {"absent"})
             protraction == Weigh(1200, 0, c.protraction, c.side, {})
             liquidity   == Weigh(800, 0, c.liquidity, TRUE, {})
             reward      == Min({800, c.rr})
             bonuses     == Cardinality(c.bonuses)
  <2>1. campaign \in Nat /\ htf \in Nat /\ regime \in Nat
    BY DEF Weigh
  <2>2. location \in Nat /\ protraction \in Nat /\ liquidity \in Nat
    BY DEF Weigh
  <2>3. reward \in Int /\ bonuses \in Nat
    BY <1>1, <1>3
  <2>4. Points(c) = campaign + htf + regime + location + protraction + liquidity
                      + reward + 1000 * bonuses
    BY DEF Points
  <2> HIDE DEF campaign, htf, regime, location, protraction, liquidity, reward, bonuses
  <2> QED BY <2>1, <2>2, <2>3, <2>4
<1>6. TierFactors[c.type] \in Int
  BY <1>2, ScoreAssumption
<1> DEFINE q == (Points(c) * TierFactors[c.type] + 5000) \div 10000
<1>7. q \in Int
  BY <1>5, <1>6
<1> HIDE DEF q
<1>8. Min({1000, q}) \in Int
  BY <1>7, LeastOfTwo
<1>9. ScoreCandidate(c) \in Int
  BY <1>8 DEF ScoreCandidate, q
<1> QED BY <1>1, <1>9 DEF Continuation

\* Of any two candidates one outranks the other.
LEMMA RankOrder ==
    ASSUME NEW cands \in Seq(Candidate)
    PROVE  StrictOrder(DOMAIN cands,
              {p \in {<<i, j>> : i, j \in DOMAIN cands} : Outranks(cands, p[1], p[2])})
<1> DEFINE at == DOMAIN cands
           order == {p \in {<<i, j>> : i, j \in at} : Outranks(cands, p[1], p[2])}
           S(i) == ScoreCandidate(cands[i])
           C(i) == Continuation(cands[i])
<1>1. at \subseteq Int /\ \A i \in at : cands[i] \in Candidate
  BY LenProperties, ElementOfSeq
<1>2. \A i \in at : S(i) \in Int /\ C(i) \in Int
  BY <1>1, ScoreInt
<1>3. \A i, j \in at : <<i, j>> \in order <=>
         \/ S(i) > S(j)
         \/ S(i) = S(j) /\ C(i) > C(j)
         \/ S(i) = S(j) /\ C(i) = C(j) /\ i < j
  BY DEF Outranks
<1>4. order \subseteq at \X at
  OBVIOUS
<1> HIDE DEF at, order, S, C
<1>5. StrictOrder(at, order)
  BY <1>1, <1>2, <1>3, <1>4, SMTT(60) DEF StrictOrder
<1> QED BY <1>5 DEF at, order

LEMMA RankRanks ==
    ASSUME NEW cands \in Seq(Candidate)
    PROVE  /\ Len(cands) \in Nat /\ DOMAIN cands = 1 .. Len(cands)
           /\ Rank(cands) \in [1 .. Len(cands) -> DOMAIN cands]
<1> DEFINE at == DOMAIN cands
           order == {p \in {<<i, j>> : i, j \in at} : Outranks(cands, p[1], p[2])}
<1>1. at = 1 .. Len(cands) /\ Len(cands) \in Nat
  BY LenProperties
<1>2. IsFiniteSet(at) /\ Cardinality(at) = Len(cands)
  BY <1>1, FS_Interval
<1>3. StrictOrder(at, order)
  BY RankOrder
<1>4. Rank(cands) = Arranged(at, order)
  BY DEF Rank
<1> HIDE DEF at, order
<1>5. ListedInOrder(Rank(cands), at, order)
  BY <1>2, <1>3, <1>4, ArrangedInOrder
<1>6. Rank(cands) \in [1 .. Len(cands) -> at]
  BY <1>2, <1>5 DEF ListedInOrder
<1> QED BY <1>1, <1>6 DEF at

\* What is taken is some of the candidates.
LEMMA AllocateTakes ==
    ASSUME NEW cands \in Seq(Candidate), NEW count \in Nat, NEW openRisk \in Nat
    PROVE  Allocate(cands, count, openRisk) \in Seq(DOMAIN cands)
<1> DEFINE D == DOMAIN cands
           n == Len(cands)
           rank == Rank(cands)
           T == [take : Seq(D), count : Nat, risk : Nat]
           base == [take |-> <<>>, count |-> count, risk |-> openRisk]
           Engages(sim, i) ==
               IF Eligible(cands[i]) /\ CanOpen(sim.count, sim.risk, cands[i].risk)
                 THEN [take |-> Append(sim.take, i), count |-> sim.count + 1,
                       risk |-> sim.risk + cands[i].risk]
                 ELSE sim
           step == [p \in (1 .. n) \X T |-> Engages(p[2], rank[p[1]])]
           iter == CHOOSE h : h = [s \in SUBSET DOMAIN rank |->
                      IF s = {} THEN base ELSE Engages(h[s \ {Max(s)}], rank[Max(s)])]
<1>1. n \in Nat /\ D = 1 .. n /\ rank \in [1 .. n -> D]
  BY RankRanks
<1>2. Allocate(cands, count, openRisk) = iter[DOMAIN rank].take
  BY DEF Allocate, FoldLeft, MapThenFoldSet
<1>3. \A i \in D : cands[i].risk \in Nat
  <2>1. \A i \in D : cands[i] \in Candidate
    BY LenProperties, ElementOfSeq
  <2> QED BY <2>1 DEF Candidate
<1>4. base \in T
  OBVIOUS
<1> HIDE DEF D, n, rank, iter
<1>5. ASSUME NEW sim \in T, NEW i \in D PROVE Engages(sim, i) \in T
  <2>1. /\ sim.take \in Seq(D) /\ sim.count \in Nat /\ sim.risk \in Nat
        /\ cands[i].risk \in Nat
    BY <1>3
  <2>2. Append(sim.take, i) \in Seq(D) /\ sim.count + 1 \in Nat
        /\ sim.risk + cands[i].risk \in Nat
    BY <2>1, AppendProperties
  <2> QED BY <2>2
<1> HIDE DEF T, base, Engages
<1>6. step \in [(1 .. n) \X T -> T]
  BY <1>1, <1>5
<1>7. \A k \in 1 .. n : \A t \in T : step[<<k, t>>] = Engages(t, rank[k])
  OBVIOUS
<1> HIDE DEF step
<1>8. PICK g \in [SUBSET (1 .. n) -> T] : Steps(g, step, base, SUBSET (1 .. n))
  BY <1>1, <1>4, <1>6, StepsExist
<1>9. \A s \in SUBSET (1 .. n) :
         (IF s = {} THEN base ELSE step[<<Top(s), g[s \ {Top(s)}]>>])
         = IF s = {} THEN base ELSE Engages(g[s \ {Max(s)}], rank[Max(s)])
  <2>1. ASSUME NEW s \in SUBSET (1 .. n), s # {}
        PROVE  Top(s) \in 1 .. n /\ g[s \ {Top(s)}] \in T
    <3>1. Top(s) \in s /\ s \ {Top(s)} \in SUBSET (1 .. n)
      BY <1>1, <2>1, TopLast
    <3> QED BY <3>1
  <2>2. ASSUME NEW s \in SUBSET (1 .. n), s # {}
        PROVE  step[<<Top(s), g[s \ {Top(s)}]>>] = Engages(g[s \ {Max(s)}], rank[Max(s)])
    BY <1>7, <2>1, <2>2 DEF Top
  <2> QED BY <2>2
<1>10. g = [s \in SUBSET DOMAIN rank |->
             IF s = {} THEN base ELSE Engages(g[s \ {Max(s)}], rank[Max(s)])]
  <2>1. DOMAIN rank = 1 .. n
    BY <1>1
  <2>2. g = [s \in SUBSET (1 .. n) |-> IF s = {} THEN base ELSE step[<<Top(s), g[s \ {Top(s)}]>>]]
    BY <1>8 DEF Steps
  <2> QED BY <1>9, <2>1, <2>2
<1>11. iter = [s \in SUBSET DOMAIN rank |->
             IF s = {} THEN base ELSE Engages(iter[s \ {Max(s)}], rank[Max(s)])]
  BY <1>10 DEF iter
<1>12. \A s \in SUBSET (1 .. n) :
          iter[s] = IF s = {} THEN base ELSE Engages(iter[s \ {Max(s)}], rank[Max(s)])
  <2>1. DOMAIN rank = 1 .. n
    BY <1>1
  <2> HIDE DEF iter
  <2> QED BY <1>11, <2>1
<1> DEFINE B == {k \in 0 .. n : iter[1 .. k] \in T}
<1>13. 0 \in B
  <2>1. 1 .. 0 = {} /\ {} \in SUBSET (1 .. n)
    OBVIOUS
  <2> HIDE DEF iter
  <2>2. iter[1 .. 0] = base
    BY <1>12, <2>1
  <2>3. 0 \in 0 .. n
    BY <1>1
  <2> QED BY <1>4, <2>2, <2>3
<1>14. \A k \in 1 .. n : k - 1 \in B => k \in B
  <2> SUFFICES ASSUME NEW k \in 1 .. n, k - 1 \in B PROVE k \in B
    OBVIOUS
  <2> HIDE DEF iter
  <2>1. iter[1 .. k] = Engages(iter[1 .. k - 1], rank[k])
    BY <1>1, <1>12, TopOfPrefix
  <2>2. iter[1 .. k - 1] \in T /\ rank[k] \in D
    BY <1>1
  <2> QED BY <1>5, <2>1, <2>2
<1>15. iter[1 .. n] \in T
  <2>1. 0 .. n \subseteq B
    <3> HIDE DEF B
    <3> QED BY <1>1, <1>13, <1>14, Upwards
  <2> HIDE DEF iter
  <2> QED BY <1>1, <2>1
<1>16. DOMAIN rank = 1 .. n
  BY <1>1
<1>17. iter[DOMAIN rank].take \in Seq(D)
  <2> HIDE DEF iter
  <2> QED BY <1>15, <1>16 DEF T
<1> QED BY <1>2, <1>17 DEF D

LEMMA UnlockedType ==
    ASSUME NEW board \in Seq(Candidate), NEW locked
    PROVE  Unlocked(board, locked) \in Seq(Candidate)
<1> DEFINE I == {i \in DOMAIN board :
                   ~(locked /\ board[i].side = "long" /\ board[i].type \in TrendTiers)}
<1>1. I \in SUBSET (DOMAIN board)
  OBVIOUS
<1> HIDE DEF I
<1>2. Filtered(board, I) \in Seq(Candidate)
  BY <1>1, FilteredKeeps
<1> QED BY <1>2 DEF Unlocked, I

LEMMA ConvictionType ==
    ASSUME NEW c \in Candidate, NEW bias
    PROVE  WithConviction(c, bias) \in Candidate
<1>1. c.risk \in Nat
  BY DEF Candidate
<1> DEFINE risk == (135 * c.risk + 50) \div 100
<1>2. risk \in Nat
  BY <1>1
<1> HIDE DEF risk
<1>3. [c EXCEPT !.risk = risk] \in Candidate
  BY <1>2 DEF Candidate
<1> QED BY <1>3 DEF WithConviction, risk

\* The rows of the table, with the cards this program makes.
Rows == Seq([card : Ticket, day : Nat, open : BOOLEAN, budgeted : BOOLEAN])

LEMMA BookType ==
    ASSUME rows \in Rows
    PROVE  Cardinality(Live) \in Nat /\ OpenRisk \in Nat
<1>1. DOMAIN rows = 1 .. Len(rows) /\ Len(rows) \in Nat
  BY LenProperties DEF Rows
<1>2. IsFiniteSet(DOMAIN rows)
  BY <1>1, FS_Interval
<1>3. Live \in SUBSET (DOMAIN rows)
  BY DEF Live
<1>4. IsFiniteSet(Live)
  BY <1>2, <1>3, FS_Subset
<1> DEFINE f == [i \in DOMAIN rows |-> rows[i].card.risk]
<1>5. \A i \in Live : f[i] \in Nat
  <2>1. \A i \in DOMAIN rows :
           rows[i] \in [card : Ticket, day : Nat, open : BOOLEAN, budgeted : BOOLEAN]
    BY <1>1, ElementOfSeq DEF Rows
  <2> QED BY <1>3, <2>1 DEF Ticket
<1> HIDE DEF f
<1>6. SumFunctionOnSet(f, Live) \in Nat
  BY <1>4, <1>5, SumNat
<1> QED BY <1>4, <1>6, FS_CardinalityType DEF OpenRisk, f

LEMMA DeployType ==
    ASSUME NEW queue \in Seq(Ticket), NEW used \in [TradeTypes -> Nat]
    PROVE  Deploy(queue, used) \in TaskState
BY DEF Deploy, TaskState

\* What a state of a request says, phase by phase.
LEMMA TaskPhase ==
    ASSUME NEW x \in TaskState
    PROVE  /\ x.phase \in Opening =>
                x \in [phase : Opening, queue : Seq(Ticket) \ {<<>>}, used : [TradeTypes -> Nat]]
           /\ x.phase = "read" => x \in [phase : {"read"}, seen : Readings, notify : BOOLEAN]
           /\ x.phase = "alerted" => x \in [phase : {"alerted"}, seen : Readings, fresh : BOOLEAN]
           /\ x.phase = "announced" =>
                x \in [phase : {"announced"}, card : Rejections]
           /\ x.phase = "mustered" =>
                x \in [phase : {"mustered"}, cands : Seq(Candidate),
                       count : Nat, risk : Nat]
BY DEF TaskState, Idle, Opening

LEMMA OpeningType ==
    ASSUME NEW phase \in Opening, NEW queue \in Seq(Ticket) \ {<<>>}, NEW used \in [TradeTypes -> Nat]
    PROVE  [phase |-> phase, queue |-> queue, used |-> used] \in TaskState
BY DEF TaskState, Opening

LEMMA AfterHeadType ==
    ASSUME NEW t, task[t] \in TaskState, task[t].phase \in Opening, NEW spent \in {0, 1}
    PROVE  AfterHead(t, spent) \in TaskState
<1>1. task[t] \in [phase : Opening, queue : Seq(Ticket) \ {<<>>}, used : [TradeTypes -> Nat]]
  BY TaskPhase
<1>2. task[t].queue \in Seq(Ticket) /\ task[t].queue # <<>> /\ task[t].used \in [TradeTypes -> Nat]
  BY <1>1
<1>3. Tail(task[t].queue) \in Seq(Ticket)
  BY <1>2, HeadTailProperties
<1>4. CASE AfterHead(t, spent) = Idle
  BY <1>4 DEF TaskState
<1>5. CASE \E used \in [TradeTypes -> Nat] : /\ Tail(task[t].queue) # <<>>
              /\ AfterHead(t, spent)
                   = [phase |-> "deploying", queue |-> Tail(task[t].queue), used |-> used]
  BY <1>3, <1>5 DEF TaskState
<1> QED BY <1>2, <1>4, <1>5, AfterHeadOK

\* A step of the loop.
LEMMA LoopType ==
    ASSUME task \in [Tasks -> TaskState], NEW t \in Tasks, DeployStep(t)
    PROVE  task' \in [Tasks -> TaskState]
<1>1. task[t].phase \in Opening /\ task[t] \in TaskState
  BY DEF DeployStep, SkipOverBudget, SkipDuplicate, PassDuplicate, CheckExposure, OpenPosition,
         Opening
<1>2. AfterHead(t, 0) \in TaskState /\ AfterHead(t, 1) \in TaskState
  BY <1>1, AfterHeadType
<1>3. \A phase \in Opening : [task[t] EXCEPT !.phase = phase] \in TaskState
  <2>1. task[t] \in [phase : Opening, queue : Seq(Ticket) \ {<<>>}, used : [TradeTypes -> Nat]]
    BY <1>1, TaskPhase
  <2>2. \A phase \in Opening : [task[t] EXCEPT !.phase = phase]
           = [phase |-> phase, queue |-> task[t].queue, used |-> task[t].used]
    BY <2>1
  <2> QED BY <2>1, <2>2, OpeningType
<1>4. "unique" \in Opening /\ "cleared" \in Opening
  BY DEF Opening
<1>5. CASE SkipOverBudget(t)
  BY <1>2, <1>5 DEF SkipOverBudget
<1>6. CASE SkipDuplicate(t)
  BY <1>2, <1>6 DEF SkipDuplicate
<1>7. CASE PassDuplicate(t)
  BY <1>3, <1>4, <1>7 DEF PassDuplicate
<1>8. CASE CheckExposure(t)
  BY <1>2, <1>3, <1>4, <1>8 DEF CheckExposure
<1>9. CASE OpenPosition(t)
  BY <1>2, <1>9 DEF OpenPosition
<1> QED BY <1>5, <1>6, <1>7, <1>8, <1>9 DEF DeployStep

LEMMA PollsType ==
    ASSUME TypeOK, NEW p \in Polls, FetchReading(p) \/ PollStep(p)
    PROVE  task' \in [Tasks -> TaskState]
<1>1. task \in [Tasks -> TaskState] /\ p \in Tasks
  BY DEF TypeOK, Tasks
<1>2. \A fresh : Mark(p, fresh) => task' \in [Tasks -> TaskState]
  <2>1. <<SellCard>> \in Seq(Ticket) /\ <<>> \in Seq(Ticket)
    BY CardsAssumption
  <2>2. \A fresh : Deploy(IF FeedsPaper(p, fresh) THEN <<SellCard>> ELSE <<>>, NothingUsed)
           \in TaskState
    BY <2>1, DeployType, NothingUsedType
  <2> QED BY <1>1, <2>2 DEF Mark
<1>3. CASE FetchReading(p)
  <2>1. \A seen \in Readings, notify \in BOOLEAN :
           [phase |-> "read", seen |-> seen, notify |-> notify] \in TaskState
    BY DEF TaskState
  <2> QED BY <1>1, <1>3, <2>1 DEF FetchReading
<1>4. CASE CompareQuiet(p)
  BY <1>2, <1>4 DEF CompareQuiet
<1>5. CASE Alert(p)
  <2>1. task[p].seen \in Readings
    BY <1>1, <1>5, TaskPhase DEF Alert
  <2>2. Fresh(p) \in BOOLEAN
    BY DEF Fresh, Flipped
  <2>3. [phase |-> "alerted", seen |-> task[p].seen, fresh |-> Fresh(p)] \in TaskState
    BY <2>1, <2>2 DEF TaskState
  <2> QED BY <1>1, <1>5, <2>3 DEF Alert
<1>6. CASE MarkAlerted(p)
  BY <1>2, <1>6 DEF MarkAlerted
<1>7. CASE DeployStep(p)
  BY <1>1, <1>7, LoopType
<1> QED BY <1>3, <1>4, <1>5, <1>6, <1>7 DEF PollStep

LEMMA ConfirmsType ==
    ASSUME TypeOK, TableOK, NEW c \in Confirms, ConfirmStep(c)
    PROVE  task' \in [Tasks -> TaskState]
<1>1. task \in [Tasks -> TaskState] /\ c \in Tasks
  BY DEF TypeOK, Tasks
<1>2. ASSUME NEW card \in Rejections, Take(c, card)
      PROVE  task' \in [Tasks -> TaskState]
  <2>1. <<card>> \in Seq(Ticket)
    BY CardsAssumption
  <2>2. Deploy(<<card>>, UsedThisWeek) \in TaskState
    BY <2>1, DeployType, UsedType
  <2> QED BY <1>1, <1>2, <2>2 DEF Take
<1>3. CASE DropRejection(c)
  BY <1>1, <1>3 DEF DropRejection
<1>4. CASE AnnounceRejection(c)
  <2>1. \A card \in Rejections : [phase |-> "announced", card |-> card] \in TaskState
    BY DEF TaskState
  <2> QED BY <1>1, <1>4, <2>1 DEF AnnounceRejection
<1>5. CASE MarkRejection(c)
  <2>1. task[c].card \in Rejections
    BY <1>1, <1>5, TaskPhase DEF MarkRejection
  <2> QED BY <1>2, <1>5, <2>1 DEF MarkRejection
<1>6. CASE MarkQuietly(c)
  BY <1>2, <1>6 DEF MarkQuietly
<1>7. CASE DeployStep(c)
  BY <1>1, <1>7, LoopType
<1> QED BY <1>3, <1>4, <1>5, <1>6, <1>7 DEF ConfirmStep

\* What is deployed of a muster is cards.
LEMMA EngagementType ==
    ASSUME NEW m, task[m] \in TaskState, task[m].phase = "mustered", NEW sell \in BOOLEAN
    PROVE  Engagement(m, sell) \in Seq(Ticket)
<1>1. task[m].cands \in Seq(Candidate) /\ task[m].count \in Nat /\ task[m].risk \in Nat
  BY TaskPhase
<1> DEFINE cands == task[m].cands
           take == Allocate(cands, task[m].count, task[m].risk)
           T(k) == TicketOf(cands[take[k]])
<1>2. take \in Seq(DOMAIN cands)
  BY <1>1, AllocateTakes
<1>3. Takes(m) = [k \in DOMAIN take |-> T(k)]
  BY DEF Takes
<1>4. \A i \in DOMAIN cands : TicketOf(cands[i]) \in Ticket
  <2>1. \A i \in DOMAIN cands : cands[i] \in Candidate
    BY <1>1, LenProperties, ElementOfSeq
  <2> QED BY <2>1 DEF Candidate, TicketOf, Ticket
<1> HIDE DEF take, cands
<1>5. DOMAIN take = 1 .. Len(take) /\ Len(take) \in Nat /\ \A k \in DOMAIN take : T(k) \in Ticket
  BY <1>2, <1>4, LenProperties, ElementOfSeq
<1> HIDE DEF T
<1>6. Takes(m) \in Seq(Ticket)
  BY <1>3, <1>5
<1>7. Append(Takes(m), SellCard) \in Seq(Ticket)
  BY <1>6, CardsAssumption, AppendProperties
<1> QED BY <1>6, <1>7 DEF Engagement

LEMMA MustersType ==
    ASSUME TypeOK, TableOK, NEW m \in Musters, Muster(m) \/ MusterStep(m)
    PROVE  task' \in [Tasks -> TaskState]
<1>1. task \in [Tasks -> TaskState] /\ m \in Tasks /\ rows \in Rows
  BY DEF TypeOK, Tasks, Rows
<1>2. CASE Muster(m)
  <2>1. PICK board \in Boards, locked \in BOOLEAN, bias \in Biases :
           LET found == Unlocked(board, locked)
           IN  task' = [task EXCEPT ![m] =
                    [phase |-> "mustered",
                     cands |-> [i \in DOMAIN found |-> WithConviction(found[i], bias)],
                     count |-> Cardinality(Live), risk |-> OpenRisk]]
    BY <1>2 DEF Muster
  <2> DEFINE found == Unlocked(board, locked)
             cands == [i \in DOMAIN found |-> WithConviction(found[i], bias)]
  <2>2. found \in Seq(Candidate)
    BY CardsAssumption, UnlockedType
  <2> HIDE DEF found
  <2>3. cands \in Seq(Candidate)
    <3>1. DOMAIN found = 1 .. Len(found) /\ Len(found) \in Nat
          /\ \A i \in DOMAIN found : found[i] \in Candidate
      BY <2>2, LenProperties, ElementOfSeq
    <3>2. \A i \in DOMAIN found : WithConviction(found[i], bias) \in Candidate
      BY <3>1, ConvictionType
    <3> QED BY <3>1, <3>2
  <2>4. task' = [task EXCEPT ![m] = [phase |-> "mustered", cands |-> cands,
                                     count |-> Cardinality(Live), risk |-> OpenRisk]]
    BY <2>1 DEF found
  <2> HIDE DEF cands
  <2>5. Cardinality(Live) \in Nat /\ OpenRisk \in Nat
    BY <1>1, BookType
  <2>6. [phase |-> "mustered", cands |-> cands,
         count |-> Cardinality(Live), risk |-> OpenRisk] \in TaskState
    BY <1>1, <2>3, <2>5 DEF TaskState
  <2> QED BY <1>1, <2>4, <2>6
<1>3. CASE Engage(m)
  <2>1. \A sell \in BOOLEAN : Engagement(m, sell) \in Seq(Ticket)
    BY <1>1, <1>3, EngagementType DEF Engage
  <2>2. \A sell \in BOOLEAN : Deploy(Engagement(m, sell), UsedThisWeek) \in TaskState
    BY <2>1, DeployType, UsedType
  <2> QED BY <1>1, <1>3, <2>2 DEF Engage
<1>4. CASE DeployStep(m)
  BY <1>1, <1>4, LoopType
<1> QED BY <1>2, <1>3, <1>4 DEF MusterStep

LEMMA TasksType ==
    ASSUME TypeOK, TableOK, [Next]_vars
    PROVE  task' \in [Tasks -> TaskState]
<1>1. task \in [Tasks -> TaskState] /\ Idle \in TaskState
  BY DEF TypeOK, TaskState
<1>2. CASE DayPasses \/ PositionCloses \/ UNCHANGED vars
  BY <1>1, <1>2 DEF DayPasses, PositionCloses, vars
<1>3. CASE RequestFails \/ AppRestarts
  BY <1>1, <1>3 DEF RequestFails, AppRestarts
<1>4. CASE \E p \in Polls : FetchReading(p) \/ PollStep(p)
  BY <1>4, PollsType
<1>5. CASE \E c \in Confirms : ConfirmStep(c)
  BY <1>5, ConfirmsType
<1>6. CASE \E m \in Musters : Muster(m) \/ MusterStep(m)
  BY <1>6, MustersType
<1> QED BY <1>2, <1>3, <1>4, <1>5, <1>6 DEF Next

-----------------------------------------------------------------------------
(* The other variables.                                                     *)

LEMMA RowsType ==
    ASSUME TypeOK, TableOK, [Next]_vars
    PROVE  rows' \in Rows
<1>1. rows \in Rows /\ day \in Nat /\ task \in [Tasks -> TaskState]
  BY CardsAssumption DEF TypeOK, Rows
<1>2. CASE rows' = rows
  BY <1>1, <1>2
<1>3. CASE \E i \in DOMAIN rows : rows' = [rows EXCEPT ![i].open = FALSE]
  <2>1. PICK i \in DOMAIN rows : rows' = [rows EXCEPT ![i].open = FALSE]
    BY <1>3
  <2> DEFINE r == [rows[i] EXCEPT !.open = FALSE]
             R == [card : Ticket, day : Nat, open : BOOLEAN, budgeted : BOOLEAN]
  <2>2. DOMAIN rows = 1 .. Len(rows) /\ rows[i] \in R
    BY <1>1, LenProperties, ElementOfSeq DEF Rows
  <2>3. r \in R
    BY <2>2
  <2>4. rows' = [rows EXCEPT ![i] = r]
    BY <2>1
  <2> HIDE DEF r, R
  <2>5. rows \in Seq(R)
    BY <1>1 DEF Rows, R
  <2>6. rows' \in Seq(R)
    BY <2>2, <2>3, <2>4, <2>5, ExceptSeq
  <2> QED BY <2>6 DEF Rows, R
<1>4. ASSUME NEW t \in Tasks, OpenPosition(t) PROVE rows' \in Rows
  <2> DEFINE R == [card : Ticket, day : Nat, open : BOOLEAN, budgeted : BOOLEAN]
  <2>1. task[t] \in [phase : Opening, queue : Seq(Ticket) \ {<<>>}, used : [TradeTypes -> Nat]]
    <3>1. task[t] \in TaskState /\ task[t].phase \in Opening
      BY <1>1, <1>4 DEF OpenPosition, Opening
    <3> QED BY <3>1, TaskPhase
  <2>2. Head(task[t].queue) \in Ticket
    <3>1. task[t].queue \in Seq(Ticket) /\ task[t].queue # <<>>
      BY <2>1
    <3> QED BY <3>1, HeadTailProperties
  <2>3. NewRow(t) \in R
    <3>1. (t \in Budgeted) \in BOOLEAN
      OBVIOUS
    <3> QED BY <1>1, <2>2, <3>1 DEF NewRow
  <2> HIDE DEF R
  <2>4. rows \in Seq(R)
    BY <1>1 DEF Rows, R
  <2>5. Append(rows, NewRow(t)) \in Seq(R)
    BY <2>3, <2>4, AppendProperties
  <2> QED BY <1>4, <2>5 DEF OpenPosition, Rows, R
<1>5. \/ rows' = rows
      \/ \E i \in DOMAIN rows : rows' = [rows EXCEPT ![i].open = FALSE]
      \/ \E t \in Tasks : OpenPosition(t)
  BY RowsNext
<1> QED BY <1>2, <1>3, <1>4, <1>5

LEMMA OthersType ==
    ASSUME TypeOK, [Next]_vars
    PROVE  faults' \in Nat /\ day' \in Days
<1>1. faults \in Nat /\ day \in Days
  BY DEF TypeOK
<1>2. faults' = faults \/ faults' = faults + 1
  BY DEF Next, DayPasses, PositionCloses, RequestFails, AppRestarts, vars,
         FetchReading, PollStep, CompareQuiet, MarkAlerted, DeployStep, SkipOverBudget, SkipDuplicate,
         PassDuplicate, CheckExposure, OpenPosition, ConfirmStep, DropRejection,
         AnnounceRejection, MarkRejection, MarkQuietly, Take, Muster, MusterStep, Engage, Fault,
         Alert, Mark, WriteState, WriteRejection, Works
<1>3. day' = day \/ day' \in Days
  BY DEF Next, DayPasses, PositionCloses, RequestFails, AppRestarts, vars,
         FetchReading, PollStep, CompareQuiet, MarkAlerted, DeployStep, SkipOverBudget, SkipDuplicate,
         PassDuplicate, CheckExposure, OpenPosition, ConfirmStep, DropRejection,
         AnnounceRejection, MarkRejection, MarkQuietly, Take, Muster, MusterStep, Engage, Alert
<1> QED BY <1>1, <1>2, <1>3

\* Whatever a muster allocates and however the requests overlap, every variable holds
\* what it is meant to: a request deploys cards, and never an empty queue.
THEOREM TypeCorrect == Spec => []TypeOK
<1>1. Init => TypeOK
  <2> SUFFICES ASSUME Init PROVE TypeOK
    OBVIOUS
  <2>1. SourceInv
    BY SourceInit
  <2>2. rows \in Rows
    BY DEF Init, Rows
  <2>3. task \in [Tasks -> TaskState]
    BY DEF Init, TaskState
  <2>4. faults \in Nat /\ day \in Days
    BY DEF Init
  <2> QED BY <2>1, <2>2, <2>3, <2>4 DEF TypeOK, Rows, SourceInv, MarksOK
<1>2. TypeOK /\ SourceInv /\ SourceInv' /\ [Next]_vars => TypeOK'
  <2> SUFFICES ASSUME TypeOK, SourceInv, SourceInv', [Next]_vars PROVE TypeOK'
    OBVIOUS
  <2>1. TableOK /\ MarksOK'
    BY DEF SourceInv
  <2>2. rows' \in Rows
    BY <2>1, RowsType
  <2>3. task' \in [Tasks -> TaskState]
    BY <2>1, TasksType
  <2>4. faults' \in Nat /\ day' \in Days
    BY OthersType
  <2> QED BY <2>1, <2>2, <2>3, <2>4 DEF TypeOK, Rows, MarksOK
<1> QED BY <1>1, <1>2, SourceAlways, PTL DEF Spec
=============================================================================
