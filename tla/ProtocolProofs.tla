--------------------------- MODULE ProtocolProofs ---------------------------
(***************************************************************************)
(* Theorems about the contracts together, message by message, for every    *)
(* number of users and validators, and every order of transactions.        *)
(***************************************************************************)
EXTENDS Protocol, SumsProofs, DecimalsProofs

-----------------------------------------------------------------------------
(***************************************************************************)
(* The messages that are sent: those of a list that are not for nothing.   *)
(***************************************************************************)
\* g obeys the recursion that defines Picked.
IsPicked(g, seq, S) ==
  g = [i \in 0..Len(seq) |->
         IF i = 0 THEN <<>>
         ELSE IF i \in S THEN Append(g[i - 1], seq[i]) ELSE g[i - 1]]

\* A loop of n rounds that starts with x and has F carry out round i.
LEMMA LoopExists ==
  ASSUME NEW X, NEW x \in X, NEW n \in Nat, NEW F \in [1..n -> [X -> X]]
  PROVE  \E g \in [0..n -> X] : g[0] = x /\ \A i \in 1..n : g[i] = F[i][g[i - 1]]
<1> DEFINE Ok(k) == \E g \in [0..k -> X] : g[0] = x /\ \A i \in 1..k : g[i] = F[i][g[i - 1]]
           K == {k \in Nat : k <= n => Ok(k)}
<1>1. 0 \in K
  <2>1. Ok(0)
    <3> WITNESS [i \in 0..0 |-> x] \in [0..0 -> X]
    <3> QED OBVIOUS
  <2> HIDE DEF Ok
  <2>2. QED
    BY <2>1
<1>2. ASSUME NEW k \in Nat, k \in K PROVE k + 1 \in K
  <2> HIDE DEF Ok
  <2> SUFFICES ASSUME k + 1 <= n PROVE Ok(k + 1)
    OBVIOUS
  <2>1. Ok(k)
    <3>1. k <= n => Ok(k)
      BY <1>2
    <3>2. QED
      BY <3>1
  <2>2. PICK g \in [0..k -> X] : g[0] = x /\ \A i \in 1..k : g[i] = F[i][g[i - 1]]
    BY <2>1 DEF Ok
  <2> DEFINE last == F[k + 1][g[k]]
             h == [i \in 0..k + 1 |-> IF i <= k THEN g[i] ELSE last]
  <2>3. last \in X
    <3>1. g[k] \in X /\ k + 1 \in 1..n
      OBVIOUS
    <3>2. QED
      BY <3>1
  <2>4. h \in [0..k + 1 -> X] /\ h[0] = x
    <3> HIDE DEF last
    <3> QED BY <2>2, <2>3
  <2>5. ASSUME NEW i \in 1..(k + 1) PROVE h[i] = F[i][h[i - 1]]
    <3> HIDE DEF last
    <3>1. CASE i <= k
      <4>1. i \in 1..k /\ i \in 0..(k + 1) /\ i - 1 \in 0..(k + 1) /\ i - 1 <= k
        BY <3>1
      <4>2. h[i] = g[i] /\ h[i - 1] = g[i - 1]
        BY <4>1
      <4>3. QED
        BY <4>1, <4>2, <2>2
    <3>2. CASE i = k + 1
      <4>1. i \in 0..(k + 1) /\ i - 1 \in 0..(k + 1) /\ i - 1 = k /\ ~(i <= k)
        BY <3>2
      <4>2. h[i] = last /\ h[i - 1] = g[k]
        BY <4>1
      <4>3. QED
        BY <3>2, <4>2 DEF last
    <3>3. QED
      BY <3>1, <3>2
  <2>6. QED
    BY <2>4, <2>5 DEF Ok
<1> HIDE DEF K
<1>3. n \in K
  BY <1>1, <1>2, NatSetInduction
<1>4. Ok(n)
  <2> HIDE DEF Ok
  <2> QED BY <1>3 DEF K
<1>5. QED
  BY <1>4

\* There is a function of what is picked after each element.
LEMMA PickedExists ==
  ASSUME NEW T, NEW seq \in Seq(T), NEW S
  PROVE  \E g : IsPicked(g, seq, S)
<1> DEFINE n == Len(seq)
           F == [i \in 1..n |-> [y \in Seq(T) |-> IF i \in S THEN Append(y, seq[i]) ELSE y]]
<1>1. n \in Nat /\ <<>> \in Seq(T)
  OBVIOUS
<1>2. \A y \in Seq(T), i \in 1..n : (IF i \in S THEN Append(y, seq[i]) ELSE y) \in Seq(T)
  <2> TAKE y \in Seq(T), i \in 1..n
  <2>1. seq[i] \in T
    OBVIOUS
  <2>2. Append(y, seq[i]) \in Seq(T)
    BY <2>1
  <2>3. QED
    BY <2>2
<1>3. PICK g \in [0..n -> Seq(T)] : g[0] = <<>> /\ \A i \in 1..n : g[i] = F[i][g[i - 1]]
  <2> DEFINE X == Seq(T)
  <2>1. <<>> \in X /\ F \in [1..n -> [X -> X]]
    <3> HIDE DEF n
    <3> QED BY <1>1, <1>2
  <2> HIDE DEF X, F, n
  <2>2. \E g \in [0..n -> X] : g[0] = <<>> /\ \A i \in 1..n : g[i] = F[i][g[i - 1]]
    BY ONLY <1>1, <2>1, LoopExists, SMTT(20)
  <2>3. QED
    BY <2>2 DEF X
<1>7. \A i \in 1..n, y \in Seq(T) : F[i][y] = IF i \in S THEN Append(y, seq[i]) ELSE y
  <2> HIDE DEF n
  <2> QED OBVIOUS
<1> HIDE DEF n, F
<1>4. \A i \in 1..n : g[i] = IF i \in S THEN Append(g[i - 1], seq[i]) ELSE g[i - 1]
  <2> TAKE i \in 1..n
  <2>1. g[i - 1] \in Seq(T)
    BY <1>1
  <2>2. QED
    BY <2>1, <1>7, <1>3
<1>5. g = [i \in 0..n |-> IF i = 0 THEN <<>>
                          ELSE IF i \in S THEN Append(g[i - 1], seq[i]) ELSE g[i - 1]]
  <2>1. \A i \in 0..n : i = 0 \/ i \in 1..n
    BY <1>1
  <2>2. QED
    BY <2>1, <1>3, <1>4
<1>6. QED
  BY <1>5 DEF IsPicked, n

\* Picked obeys its defining recursion.
LEMMA PickedDef ==
  ASSUME NEW T, NEW seq \in Seq(T), NEW S
  PROVE  /\ Picked(seq, S)[0] = <<>>
         /\ \A i \in 1..Len(seq) :
              Picked(seq, S)[i] = IF i \in S THEN Append(Picked(seq, S)[i - 1], seq[i])
                                  ELSE Picked(seq, S)[i - 1]
<1> DEFINE picked == Picked(seq, S)
<1>1. PICK g : IsPicked(g, seq, S)
  BY PickedExists
<1>2. IsPicked(picked, seq, S)
  BY <1>1 DEF Picked, IsPicked
<1> HIDE DEF picked
<1>3. picked[0] = <<>> /\ \A i \in 1..Len(seq) : picked[i] = IF i \in S
                                  THEN Append(picked[i - 1], seq[i]) ELSE picked[i - 1]
  <2>1. Len(seq) \in Nat
    OBVIOUS
  <2>2. \A i \in 0..Len(seq) : picked[i] =
          IF i = 0 THEN <<>> ELSE IF i \in S THEN Append(picked[i - 1], seq[i]) ELSE picked[i - 1]
    BY <1>2 DEF IsPicked
  <2>3. QED
    BY ONLY <2>1, <2>2
<1>4. QED
  BY <1>3 DEF picked

\* What is chosen is of the type of the elements at the chosen positions.
LEMMA ChosenType ==
  ASSUME NEW T, NEW seq \in Seq(T), NEW S, NEW U, \A i \in 1..Len(seq) : i \in S => seq[i] \in U
  PROVE  Chosen(seq, S) \in Seq(U)
<1> DEFINE n == Len(seq)
           picked == Picked(seq, S)
           K == {k \in Nat : k <= n => picked[k] \in Seq(U)}
<1>1. /\ n \in Nat /\ picked[0] = <<>>
      /\ \A i \in 1..n : picked[i] = IF i \in S THEN Append(picked[i - 1], seq[i]) ELSE picked[i - 1]
  BY PickedDef
<1> HIDE DEF picked
<1>2. 0 \in K
  <2>1. <<>> \in Seq(U)
    OBVIOUS
  <2>2. QED
    BY <1>1, <2>1
<1>3. ASSUME NEW k \in Nat, k \in K PROVE k + 1 \in K
  <2> SUFFICES ASSUME k + 1 <= n PROVE picked[k + 1] \in Seq(U)
    OBVIOUS
  <2>1. picked[k] \in Seq(U) /\ k + 1 \in 1..n /\ (k + 1) - 1 = k
    BY <1>1, <1>3
  <2>2. k + 1 \in S => seq[k + 1] \in U
    BY <2>1
  <2>3. CASE k + 1 \in S
    <3>1. picked[k + 1] = Append(picked[k], seq[k + 1])
      BY <2>1, <2>3, <1>1
    <3> HIDE DEF n
    <3>2. QED
      BY <3>1, <2>1, <2>2, <2>3
  <2>4. CASE k + 1 \notin S
    BY <2>1, <2>4, <1>1
  <2>5. QED
    BY <2>3, <2>4
<1> HIDE DEF K
<1>4. n \in K
  BY <1>1, <1>2, <1>3, NatSetInduction
<1>5. QED
  BY <1>1, <1>4 DEF K, Chosen, picked

-----------------------------------------------------------------------------
(***************************************************************************)
(* What is proved about the hub and the registry holds of them in the      *)
(* middle of a transaction, too.                                           *)
(***************************************************************************)
HP == INSTANCE HubProofs WITH
        EpochPeriods <- {EpochPeriod}, UnbondingPeriods <- {UnbondingPeriod},
        Requests <- 1..MaxCoins, Rewards <- 1..MaxCoins, Donations <- 1..MaxCoins,
        StakeLosses <- Losses, InFlightLosses <- Losses,
        TotalLoss <- FALSE, OwnerActs <- TRUE,
        MaxStake <- MaxCoins, MaxSupply <- MaxCoins * DECIMAL_FRACTIONAL, MaxBalance <- MaxCoins,
        params <- work.params, state <- work.state, batch <- work.batch,
        history <- work.history, wait <- work.wait,
        balance <- work.coins["hub"], supply <- Supply(work),
        staked <- Staked(work), delegated <- Staked(work) > 0,
        inflight <- InFlight(work)

RP == INSTANCE RegistryProofs WITH
        Amounts <- 1..MaxCoins, MaxTotal <- MaxCoins,
        registry <- work.registry, delegation <- work.delegation,
        receiving <- work.receiving, paused <- work.params.paused

\* The constants are as the hub and the registry suppose.
LEMMA HubAssumed ==
  HP!HubAssumption /\ HP!ScaleAssumption
  BY ProtocolAssumption, ScaleAssumption, SMTT(20)
     DEF IsFiniteSet, HP!IsFiniteSet, HP!HubAssumption, HP!ScaleAssumption

LEMMA RegistryAssumed ==
  RP!RegistryAssumption
  BY ProtocolAssumption DEF IsFiniteSet, RP!IsFiniteSet, RP!RegistryAssumption

\* The hub of one instance is that of the other.
LEMMA HubSame ==
  /\ HP!State = HW!State /\ HP!UnbondHistory = HW!UnbondHistory
  /\ HP!TypeOK = HW!TypeOK
  BY DEF HP!State, HW!State, HP!UnbondHistory, HW!UnbondHistory, HP!TypeOK, HW!TypeOK,
         HP!Parameters, HW!Parameters, HP!CurrentBatch, HW!CurrentBatch,
         HP!BatchIds, HW!BatchIds

LEMMA ActualSame ==
  HP!ActualState = HW!ActualState
  BY DEF HP!ActualState, HW!ActualState, HP!Synced, HW!Synced, HP!Least, Least,
         HW!Least, HP!ExchangeRate, HW!ExchangeRate, HP!FromRatio, HW!FromRatio,
         HP!One, HW!One
LEMMA ProcessedSame ==
  /\ HP!NewlyFinished = HW!NewlyFinished
  /\ HP!LastProcessed = HW!LastProcessed
  /\ HP!ProcessedHistory = HW!ProcessedHistory
<1>1. HP!NewlyFinished = HW!NewlyFinished
  BY DEF HP!NewlyFinished, HW!NewlyFinished, HP!Finished, HW!Finished,
         HP!HistoricalTime, HW!HistoricalTime
<1>2. HP!NewlyAddedUnbonded = HW!NewlyAddedUnbonded
  BY <1>1 DEF HP!NewlyAddedUnbonded, HW!NewlyAddedUnbonded, HP!Booked, HW!Booked,
              HP!Times, HW!Times, HP!SumTo, HW!SumTo, HP!RunningSums, HW!RunningSums
<1>3. HP!SlashedAmount = HW!SlashedAmount
  BY <1>2 DEF HP!SlashedAmount, HW!SlashedAmount, HP!FromSubtraction, HW!FromSubtraction
<1>4. ASSUME NEW a, NEW r, NEW t, NEW s
      PROVE  HP!NewWithdrawRate(a, r, t, s) = HW!NewWithdrawRate(a, r, t, s)
  BY DEF HP!NewWithdrawRate, HW!NewWithdrawRate, HP!ActualUnbonded, HW!ActualUnbonded,
         HP!SlashedShare, HW!SlashedShare, HP!FromSubtraction, HW!FromSubtraction,
         HP!Times, HW!Times, HP!FromRatio, HW!FromRatio
<1>5. HP!ProcessedHistory = HW!ProcessedHistory
  BY <1>1, <1>2, <1>3, <1>4 DEF HP!ProcessedHistory, HW!ProcessedHistory
<1>6. HP!LastProcessed = HW!LastProcessed
  BY <1>1 DEF HP!LastProcessed, HW!LastProcessed
<1>7. QED
  BY <1>1, <1>5, <1>6

LEMMA FinishedSame ==
  ASSUME NEW u, NEW h
  PROVE  HP!FinishedAmount(u, h) = HW!FinishedAmount(u, h)
  BY DEF HP!FinishedAmount, HW!FinishedAmount, HP!Times, HW!Times, HP!SumTo, HW!SumTo,
         HP!RunningSums, HW!RunningSums

\* What the handlers of the hub compute is of the types of the hub's storage.
LEMMA HubComputes ==
  ASSUME HW!TypeOK
  PROVE  /\ HW!ActualState \in HW!State
         /\ HW!ActualState.last_unbonded_time = work.state.last_unbonded_time
         /\ HW!LastProcessed \in Nat
         /\ HW!ProcessedHistory \in Seq(HW!UnbondHistory)
         /\ Len(HW!ProcessedHistory) = Len(work.history)
         /\ \A b \in DOMAIN work.history :
              /\ HW!ProcessedHistory[b].time = work.history[b].time
              /\ HW!ProcessedHistory[b].statom_amount = work.history[b].statom_amount
         /\ \A u \in Users : HW!FinishedAmount(u, HW!ProcessedHistory) \in Nat
<1>1. HP!TypeOK
  BY HubSame
<1>2. /\ HP!ActualState \in HP!State
      /\ HP!ActualState.last_unbonded_time = work.state.last_unbonded_time
  BY <1>1, HubAssumed, HP!ActualStateType, HP!ActualStateKeeps
<1>3. HP!LastProcessed \in Nat
  BY <1>1, HubAssumed, HP!LastProcessedBound
<1>4. /\ HP!ProcessedHistory \in Seq(HP!UnbondHistory)
      /\ Len(HP!ProcessedHistory) = Len(work.history)
      /\ \A b \in DOMAIN work.history :
           /\ HP!ProcessedHistory[b].time = work.history[b].time
           /\ HP!ProcessedHistory[b].statom_amount = work.history[b].statom_amount
  BY <1>1, HubAssumed, HP!ProcessedHistoryType
<1>5. ASSUME NEW u \in Users
      PROVE  HP!FinishedAmount(u, HP!ProcessedHistory) \in Nat
  <2>1. Len(work.history) <= MaxBatch
    BY <1>1 DEF HP!TypeOK
  <2>2. QED
    BY <1>1, <1>4, <2>1, HubAssumed, HP!FinishedAmountType
<1>6. QED
  BY <1>2, <1>3, <1>4, <1>5, HubSame, ActualSame, ProcessedSame, FinishedSame

\* The registry of one instance is that of the other.
LEMMA AscendingSame ==
  ASSUME NEW S, NEW d
  PROVE  RP!Ascending(S, d) = RW!Ascending(S, d) /\ RP!Descending(S, d) = RW!Descending(S, d)
  BY DEF RP!Ascending, RW!Ascending, RP!Descending, RW!Descending, RP!Precedes, RW!Precedes,
         RP!Cardinality, RW!Cardinality

LEMMA TotalsSame ==
  ASSUME NEW seq, NEW d
  PROVE  RP!TotalsOf(seq, d) = RW!TotalsOf(seq, d)
  BY DEF RP!TotalsOf, RW!TotalsOf

LEMMA DistributionSame ==
  ASSUME NEW amount, NEW totals
  PROVE  /\ RP!Delegations(amount, totals) = Delegations(amount, totals)
         /\ RP!Undelegations(amount, totals) = Undelegations(amount, totals)
         /\ RP!CanDelegate(amount, totals) = CanDelegate(amount, totals)
<1>1. ASSUME NEW a, NEW room, NEW n
      PROVE  RP!Leftovers(a, room, n) = Leftovers(a, room, n)
  BY DEF RP!Leftovers, Leftovers
<1>2. RP!DelegationRoom(amount, totals) = DelegationRoom(amount, totals)
  BY DEF RP!DelegationRoom, DelegationRoom, RP!SumTo, SumTo, RP!RunningSums, RunningSums,
         RP!EvenShare, EvenShare
<1>3. RP!UndelegationRoom(amount, totals) = UndelegationRoom(amount, totals)
  BY DEF RP!UndelegationRoom, UndelegationRoom, RP!SumTo, SumTo, RP!RunningSums, RunningSums,
         RP!EvenShare, EvenShare
<1>4. QED
  BY <1>1, <1>2, <1>3 DEF RP!Delegations, Delegations, RP!Undelegations, Undelegations,
     RP!Taken, Taken, RP!NotPlaced, NotPlaced, RP!CanDelegate, CanDelegate

-----------------------------------------------------------------------------
(***************************************************************************)
(* What the contracts and the chain store, and what they are sent.         *)
(***************************************************************************)
Worlds ==
  [params : HW!Parameters, state : HW!State, batch : HW!CurrentBatch,
   history : Seq(HW!UnbondHistory), wait : [Users -> [1..MaxBatch -> Nat]],
   tokens : [Holders -> Nat], allowance : [Users -> [Users -> Nat]],
   registry : SUBSET Validators, coins : [Accounts -> Nat], delegation : [Validators -> Nat],
   receiving : SUBSET Validators, entries : [Validators -> [0..MaxTime -> Nat]],
   rewards : [Validators -> Nat]]

\* The batches are numbered from 1, and undelegated within the bounds.
Numbered(w) ==
  /\ w.batch.id = Len(w.history) + 1
  /\ Len(w.history) <= MaxBatch
  /\ \A b \in 1..Len(w.history) : w.history[b].time \in 0..MaxTime

WorldOK(w) == w \in Worlds /\ Numbered(w)

ToHub ==
  UNION {
    [type : {"BondForStAtom"}, sender : Users, amount : Nat],
    [type : {"BondRewards"}, sender : Users \union {"dispatcher"}, amount : Nat],
    [type : {"Receive"}, sender : Users \union {"token"}, user : Users, amount : Nat],
    [type : {"WithdrawUnbonded"}, sender : Users],
    [type : {"CheckSlashing", "WithdrawAndDispatch"}],
    [type : {"PauseContracts", "UnpauseContracts"}],
    [type : {"RedelegateProxy"}, sender : Users \union {"owner", "registry"}, src : Validators,
     redelegations : Seq(Validators \X Nat)]}

ToToken ==
  UNION {
    [type : {"Mint"}, sender : Holders, to : Users, amount : Nat],
    [type : {"Transfer", "TransferFrom"}, sender : Users, owner : Users, to : Holders,
     amount : Nat],
    [type : {"Send", "SendFrom", "BurnFrom"}, sender : Users, owner : Users, amount : Nat],
    [type : {"Burn"}, sender : Holders, amount : Nat],
    [type : {"IncreaseAllowance", "DecreaseAllowance"}, sender : Users, spender : Users,
     amount : Nat]}

ToOthers ==
  UNION {
    [type : {"DispatchRewards"}, sender : Holders],
    [type : {"AddValidator", "RemoveValidator"}, validator : Validators]}

ToChain ==
  UNION {
    [type : {"Delegate", "Undelegate"}, validator : Validators, amount : Nat],
    [type : {"Redelegate"}, src : Validators, validator : Validators, amount : Nat],
    [type : {"WithdrawDelegatorReward"}, validator : Validators],
    [type : {"BankSend"}, sender : Users \union {"hub", "dispatcher"},
     to : Users \union {"hub", "fees"}, amount : Nat]}

Messages == ToHub \union ToToken \union ToOthers \union ToChain

\* What a handler may suppose of a message by its type.
Fields(m) ==
  /\ m.type = "BondForStAtom" => m.sender \in Users /\ m.amount \in Nat
  /\ m.type = "BondRewards" => m.sender \in Users \union {"dispatcher"} /\ m.amount \in Nat
  /\ m.type = "Receive" =>
       m.sender \in Users \union {"token"} /\ m.user \in Users /\ m.amount \in Nat
  /\ m.type = "WithdrawUnbonded" => m.sender \in Users
  /\ m.type = "RedelegateProxy" =>
       m.src \in Validators /\ m.redelegations \in Seq(Validators \X Nat)
  /\ m.type = "Mint" => m.sender \in Holders /\ m.to \in Users /\ m.amount \in Nat
  /\ m.type \in {"Transfer", "TransferFrom"} =>
       m.sender \in Users /\ m.owner \in Users /\ m.to \in Holders /\ m.amount \in Nat
  /\ m.type \in {"Send", "SendFrom", "BurnFrom"} =>
       m.sender \in Users /\ m.owner \in Users /\ m.amount \in Nat
  /\ m.type = "Burn" => m.sender \in Holders /\ m.amount \in Nat
  /\ m.type \in {"IncreaseAllowance", "DecreaseAllowance"} =>
       m.sender \in Users /\ m.spender \in Users /\ m.amount \in Nat
  /\ m.type = "DispatchRewards" => m.sender \in Holders
  /\ m.type \in {"AddValidator", "RemoveValidator"} => m.validator \in Validators
  /\ m.type \in {"Delegate", "Undelegate"} => m.validator \in Validators /\ m.amount \in Nat
  /\ m.type = "Redelegate" =>
       m.src \in Validators /\ m.validator \in Validators /\ m.amount \in Nat
  /\ m.type = "WithdrawDelegatorReward" => m.validator \in Validators
  /\ m.type = "BankSend" =>
       m.sender \in Users \union {"hub", "dispatcher"} /\ m.to \in Users \union {"hub", "fees"}
         /\ m.amount \in Nat

LEMMA MessageFields ==
  ASSUME NEW m \in Messages
  PROVE  Fields(m)
<1>1. CASE m \in ToHub
  BY <1>1 DEF ToHub, Fields
<1>2. CASE m \in ToToken
  BY <1>2 DEF ToToken, Fields
<1>3. CASE m \in ToOthers
  BY <1>3 DEF ToOthers, Fields
<1>4. CASE m \in ToChain
  BY <1>4 DEF ToChain, Fields
<1>5. QED
  BY <1>1, <1>2, <1>3, <1>4 DEF Messages

\* What can be signed is a message.
LEMMA SignedMessages ==
  Signed \subseteq Messages
<1>1. Payments \subseteq Nat /\ Amounts \subseteq Nat
  BY ProtocolAssumption
<1>2. ASSUME NEW m \in Signed
      PROVE  m \in ToHub \/ m \in ToToken \/ m \in ToOthers \/ m \in ToChain
  <2>1. \A s \in {<<>>} \union {<<<<v, n>>>> : v \in Validators, n \in Amounts} :
          s \in Seq(Validators \X Nat)
    <3>1. ASSUME NEW T, NEW p \in T
          PROVE  <<>> \in Seq(T) /\ <<p>> \in Seq(T)
      OBVIOUS
    <3>2. \A v \in Validators, n \in Amounts : <<v, n>> \in Validators \X Nat
      BY <1>1
    <3>3. \A v \in Validators, n \in Amounts : <<<<v, n>>>> \in Seq(Validators \X Nat)
      BY <3>1, <3>2
    <3>4. <<>> \in Seq(Validators \X Nat)
      OBVIOUS
    <3> DEFINE S == Seq(Validators \X Nat)
    <3> HIDE DEF S
    <3>5. (\A v \in Validators, n \in Amounts : <<<<v, n>>>> \in S) /\ <<>> \in S
      BY <3>3, <3>4 DEF S
    <3>6. \A s \in {<<>>} \union {<<<<v, n>>>> : v \in Validators, n \in Amounts} : s \in S
      BY <3>5
    <3>7. QED
      BY <3>6 DEF S
  <2>2. QED
    BY <1>1, <1>2, <2>1 DEF Signed, ToHub, ToToken, ToOthers, ToChain, Holders
<1>3. QED
  BY <1>2 DEF Messages

\* What is sent for nothing is left out.
LEMMA NonzeroType ==
  ASSUME NEW T, NEW messages \in Seq(T)
  PROVE  Nonzero(messages) \in Seq(T)
<1>1. \A i \in 1..Len(messages) : messages[i] \in T
  OBVIOUS
<1>2. QED
  BY <1>1, ChosenType DEF Nonzero

-----------------------------------------------------------------------------
(***************************************************************************)
(* Types.                                                                  *)
(***************************************************************************)
Typed ==
  /\ now \in 0..MaxTime
  /\ queue \in Seq(Messages)
  /\ WorldOK(work)
  /\ WorldOK(committed)

\* The sums over the holders and the validators are amounts.
LEMMA SumsType ==
  ASSUME NEW w \in Worlds
  PROVE  Supply(w) \in Nat /\ Staked(w) \in Nat
<1>1. IsFiniteSet(Holders) /\ IsFiniteSet(Validators)
  <2>1. IsFiniteSet({"hub"})
    BY FS_Singleton
  <2>2. QED
    BY <2>1, ProtocolAssumption, FS_Union DEF Holders
<1>2. (\A a \in Holders : w.tokens[a] \in Nat) /\ \A v \in Validators : w.delegation[v] \in Nat
  BY DEF Worlds
<1>3. SumOver(w.tokens, Holders) \in Nat
  BY <1>1, <1>2, SumOverType
<1>4. SumOver(w.delegation, Validators) \in Nat
  BY <1>1, <1>2, SumOverType
<1>5. QED
  BY <1>3, <1>4 DEF Supply, Staked

\* What a transaction works on has the types the hub gives its storage.
LEMMA HubTyped ==
  ASSUME now \in 0..MaxTime, WorldOK(work)
  PROVE  HW!TypeOK
<1>1. work \in Worlds /\ Numbered(work)
  BY DEF WorldOK
<1>2. Supply(work) \in Nat /\ Staked(work) \in Nat
  BY <1>1, SumsType
<1>3. work.coins["hub"] \in Nat
  BY <1>1 DEF Worlds, Accounts
<1>4. InFlight(work) \in Seq(Nat)
  <2>1. DOMAIN work.history = 1..Len(work.history) /\ Len(work.history) \in Nat
    BY <1>1 DEF Worlds
  <2>2. ASSUME NEW b \in 1..Len(work.history)
        PROVE  SumOver([v \in Validators |-> work.entries[v][work.history[b].time]], Validators)
                 \in Nat
    <3> DEFINE f == [v \in Validators |-> work.entries[v][work.history[b].time]]
    <3>1. work.history[b].time \in 0..MaxTime
      BY <1>1 DEF Numbered
    <3>2. \A v \in Validators : f[v] \in Nat
      <4>1. work.entries \in [Validators -> [0..MaxTime -> Nat]]
        BY <1>1 DEF Worlds
      <4>2. QED
        BY ONLY <3>1, <4>1
    <3> HIDE DEF f
    <3>3. SumOver(f, Validators) \in Nat
      BY <3>2, SumOverType, ProtocolAssumption
    <3>4. QED
      BY <3>3 DEF f
  <2>3. QED
    BY <2>1, <2>2 DEF InFlight
<1>5. /\ work.params \in HW!Parameters /\ work.state \in HW!State
      /\ work.batch \in HW!CurrentBatch /\ work.history \in Seq(HW!UnbondHistory)
      /\ work.wait \in [Users -> [1..MaxBatch -> Nat]]
  BY <1>1 DEF Worlds
<1>6. now \in Nat /\ Len(work.history) <= MaxBatch
  BY <1>1, ProtocolAssumption DEF Numbered
<1>7. QED
  BY <1>2, <1>3, <1>4, <1>5, <1>6 DEF HW!TypeOK, HW!BatchIds

\* The first message, and the rest of them.
LEMMA FirstMessage ==
  ASSUME Typed, queue # <<>>
  PROVE  /\ Message \in Messages /\ Fields(Message)
         /\ Tail(queue) \in Seq(Messages)
<1>1. Message \in Messages /\ Tail(queue) \in Seq(Messages)
  BY DEF Typed, Message
<1>2. QED
  BY <1>1, MessageFields

\* Validators that are sorted are listed one by one, each once.
LEMMA ValidatorsListed ==
  ASSUME NEW S \in SUBSET Validators, NEW d, \A v \in S : d[v] \in Int
  PROVE  RP!Lists(RW!Ascending(S, d), S) /\ RP!Lists(RW!Descending(S, d), S)
<1>1. S \in SUBSET Nat /\ RP!IsFiniteSet(S)
  <2>1. IsFiniteSet(S)
    BY ProtocolAssumption, FS_Subset
  <2>2. QED
    BY <2>1, ProtocolAssumption DEF IsFiniteSet, RP!IsFiniteSet
<1>2. RP!Lists(RP!Ascending(S, d), S)
  BY <1>1, RegistryAssumed, RP!AscendingLists
<1>3. RP!Lists(RP!Descending(S, d), S)
  BY <1>1, RegistryAssumed, RP!DescendingLists
<1>4. QED
  BY <1>2, <1>3, AscendingSame

LEMMA ListedType ==
  ASSUME NEW S, NEW seq, RP!Lists(seq, S)
  PROVE  seq \in Seq(S)
  BY DEF RP!Lists

\* The totals that are distributed over are amounts.
LEMMA TotalsType ==
  ASSUME NEW seq, NEW d, NEW S, RP!Lists(seq, S), \A v \in S : d[v] \in Nat
  PROVE  /\ RW!TotalsOf(seq, d) \in Seq(Nat)
         /\ Len(RW!TotalsOf(seq, d)) = Len(seq)
         /\ \A i \in 1..Len(seq) : RW!TotalsOf(seq, d)[i] = d[seq[i]]
<1>1. seq \in Seq(S) /\ Len(seq) \in Nat /\ DOMAIN seq = 1..Len(seq)
  BY DEF RP!Lists
<1>2. \A i \in 1..Len(seq) : d[seq[i]] \in Nat
  BY <1>1
<1>3. QED
  BY <1>1, <1>2 DEF RW!TotalsOf

\* What the hub delegates is delegated to validators.
LEMMA DelegateMessagesType ==
  ASSUME WorldOK(work), NEW amount \in Nat,
         CanDelegate(amount, RW!TotalsOf(RW!Ascending(work.registry, work.delegation),
                                         work.delegation))
  PROVE  DelegateMessages(amount)
           \in Seq([type : {"Delegate"}, validator : Validators, amount : Nat])
<1> DEFINE seq == RW!Ascending(work.registry, work.delegation)
           totals == RW!TotalsOf(seq, work.delegation)
           given == Delegations(amount, totals)
           T == [type : {"Delegate"}, validator : Validators, amount : Nat]
           messages == [i \in DOMAIN seq |->
                          [type |-> "Delegate", validator |-> seq[i], amount |-> given[i]]]
<1>1. work.registry \in SUBSET Validators /\ \A v \in work.registry : work.delegation[v] \in Nat
  BY DEF WorldOK, Worlds
<1>2. RP!Lists(seq, work.registry)
  BY <1>1, ValidatorsListed
<1>3. totals \in Seq(Nat) /\ Len(totals) = Len(seq) /\ totals # <<>>
  <2> HIDE DEF seq
  <2>1. totals \in Seq(Nat) /\ Len(totals) = Len(seq)
    BY ONLY <1>1, <1>2, TotalsType
  <2>2. QED
    BY <2>1 DEF CanDelegate, seq
<1>4. \A i \in 1..Len(totals) : RP!Delegations(amount, totals)[i] \in Nat
  BY <1>3, RegistryAssumed, RP!DelegationsPlaced
<1>5. \A i \in 1..Len(seq) : given[i] \in Nat
  BY <1>3, <1>4, DistributionSame
<1>6. seq \in Seq(work.registry)
  BY <1>2, ListedType
<1> HIDE DEF seq, given
<1>7. messages \in Seq(T)
  <2>1. Len(seq) \in Nat /\ DOMAIN seq = 1..Len(seq) /\ \A i \in 1..Len(seq) : seq[i] \in Validators
    BY <1>1, <1>6
  <2>2. \A i \in 1..Len(seq) :
          [type |-> "Delegate", validator |-> seq[i], amount |-> given[i]] \in T
    BY <2>1, <1>5
  <2>3. QED
    BY <2>1, <2>2
<1>8. Nonzero(messages) \in Seq(T)
  BY <1>7, NonzeroType
<1>9. QED
  BY <1>8 DEF DelegateMessages, seq, given

\* What the hub undelegates is undelegated from validators.
LEMMA UndelegateMessagesType ==
  ASSUME WorldOK(work), NEW claim \in Nat,
         CanUndelegate(claim, RW!TotalsOf(RW!Descending(RW!Delegated, work.delegation),
                                          work.delegation))
  PROVE  UndelegateMessages(claim)
           \in Seq([type : {"Undelegate"}, validator : Validators, amount : Nat])
<1> DEFINE seq == RW!Descending(RW!Delegated, work.delegation)
           totals == RW!TotalsOf(seq, work.delegation)
           given == Undelegations(claim, totals)
           T == [type : {"Undelegate"}, validator : Validators, amount : Nat]
           messages == [i \in DOMAIN seq |->
                          [type |-> "Undelegate", validator |-> seq[i], amount |-> given[i]]]
<1>1. RW!Delegated \in SUBSET Validators /\ \A v \in RW!Delegated : work.delegation[v] \in Nat
  BY DEF WorldOK, Worlds, RW!Delegated
<1>2. RP!Lists(seq, RW!Delegated)
  BY <1>1, ValidatorsListed
<1>3. totals \in Seq(Nat) /\ Len(totals) = Len(seq)
  <2> HIDE DEF seq
  <2>1. QED
    BY ONLY <1>1, <1>2, TotalsType
<1>4. totals # <<>> /\ claim <= RP!SumTo(totals, Len(totals))
  BY DEF CanUndelegate, SumTo, RP!SumTo, RunningSums, RP!RunningSums
<1>5. \A i \in 1..Len(totals) : RP!Undelegations(claim, totals)[i] \in Nat
  BY <1>3, <1>4, RegistryAssumed, RP!UndelegationsPlaced
<1>6. \A i \in 1..Len(seq) : given[i] \in Nat
  BY <1>3, <1>5, DistributionSame
<1>7. seq \in Seq(RW!Delegated)
  BY <1>2, ListedType
<1> HIDE DEF seq, given
<1>8. messages \in Seq(T)
  <2>1. Len(seq) \in Nat /\ DOMAIN seq = 1..Len(seq) /\ \A i \in 1..Len(seq) : seq[i] \in Validators
    BY <1>1, <1>7
  <2>2. \A i \in 1..Len(seq) :
          [type |-> "Undelegate", validator |-> seq[i], amount |-> given[i]] \in T
    BY <2>1, <1>6
  <2>3. QED
    BY <2>1, <2>2
<1>9. Nonzero(messages) \in Seq(T)
  BY <1>8, NonzeroType
<1>10. QED
  BY <1>9 DEF UndelegateMessages, seq, given

\* A message that neither takes stAtom from the hub when it is carried out, nor
\* has it taken, nor begins an undelegation.
Owes(m) ==
  \/ m.type = "Receive" /\ m.sender = "token"
  \/ m.type = "Burn" /\ m.sender = "hub"

Silent == {m \in Messages : m.type \notin {"Send", "SendFrom", "Undelegate"} /\ ~Owes(m)}

\* What most handlers leave alone.
Kept ==
  /\ work'.tokens["hub"] >= work.tokens["hub"]
  /\ work'.entries = work.entries
  /\ work'.state.last_unbonded_time = work.state.last_unbonded_time

\* Messages of known types, one after the other.
LEMMA Answered ==
  ASSUME NEW ms \in Seq(Messages), Typed, queue # <<>>, Answer(ms)
  PROVE  queue' \in Seq(Messages) /\ UNCHANGED <<now, committed>>
<1>1. Tail(queue) \in Seq(Messages)
  BY DEF Typed
<1>2. ms \o Tail(queue) \in Seq(Messages)
  BY <1>1
<1>3. QED
  BY <1>2 DEF Answer

\* A sequence over a set is one over any larger set.
LEMMA SeqMonotone ==
  ASSUME NEW S, NEW T, S \subseteq T, NEW seq \in Seq(S)
  PROVE  seq \in Seq(T)
  OBVIOUS

LEMMA SeqSingle ==
  ASSUME NEW S, NEW m \in S
  PROVE  <<m>> \in Seq(S) /\ <<>> \in Seq(S)
  OBVIOUS

LEMMA SilentDelegations ==
  [type : {"Delegate"}, validator : Validators, amount : Nat] \subseteq Silent
  BY DEF Silent, Owes, Messages, ToChain

\* Coins that move between two accounts.
LEMMA MovedType ==
  ASSUME NEW A, NEW h \in [A -> Nat], NEW from \in A, NEW to \in A,
         NEW n \in Nat, n <= h[from]
  PROVE  Moved(h, from, to, n) \in [A -> Nat]
  BY DEF Moved

\* An amount of a table that changes.
LEMMA TableType ==
  ASSUME NEW U, NEW B, NEW t \in [U -> [B -> Nat]], NEW u \in U, NEW b \in B, NEW n \in Nat
  PROVE  /\ [t EXCEPT ![u][b] = @ + n] \in [U -> [B -> Nat]]
         /\ [t EXCEPT ![u][b] = n] \in [U -> [B -> Nat]]
  OBVIOUS

\* execute_bond
LEMMA TypeBond ==
  ASSUME Typed, Bond
  PROVE  WorldOK(work') /\ Kept /\ \E ms \in Seq(Silent) : Answer(ms)
<1> DEFINE m == Message
           s == HW!ActualState
           minted == IF m.type = "BondRewards" THEN 0
                     ELSE DecimalDivision(m.amount, s.statom_exchange_rate)
           bonded == s.total_bond_statom_amount + m.amount
           rate == IF m.type = "BondRewards"
                   THEN ExchangeRate(bonded, HW!TotalIssued + minted, work.batch.requested_statom)
                   ELSE s.statom_exchange_rate
           mint == [type |-> "Mint", sender |-> "hub", to |-> m.sender, amount |-> minted]
<1>1. queue # <<>> /\ m \in Messages /\ Fields(m)
        /\ m.type \in {"BondForStAtom", "BondRewards"}
  BY FirstMessage DEF Bond, Handling
<1>2. work \in Worlds /\ Numbered(work) /\ s \in HW!State
        /\ s.last_unbonded_time = work.state.last_unbonded_time
  BY HubTyped, HubComputes DEF Typed, WorldOK
<1>3. m.amount \in Nat /\ m.sender \in Accounts
  BY <1>1 DEF Fields, Accounts
<1>4. minted \in Nat
  <2>1. CASE m.type = "BondRewards"
    BY <2>1
  <2>2. CASE m.type = "BondForStAtom"
    <3>1. s.statom_exchange_rate \in Nat \ {0}
      BY <1>2, <2>2 DEF Bond, HW!State
    <3>2. QED
      BY <3>1, <2>2, <1>3, DecimalDivisionBound
  <2>3. QED
    BY <1>1, <2>1, <2>2
<1>5. bonded \in Nat
  BY <1>2, <1>3 DEF HW!State
<1>6. rate \in Nat
  <2>1. HW!TotalIssued \in Nat /\ work.batch.requested_statom \in Nat
    BY <1>2, SumsType DEF HW!TotalIssued, Worlds, HW!CurrentBatch
  <2>2. s.statom_exchange_rate \in Nat
    BY <1>2 DEF HW!State
  <2> HIDE DEF s, minted, bonded
  <2>5. HW!TotalIssued + minted \in Nat
    BY ONLY <1>4, <2>1
  <2>3. ExchangeRate(bonded, HW!TotalIssued + minted, work.batch.requested_statom) \in Nat
    BY <1>5, <2>5, <2>1, ExchangeRateType
  <2>4. QED
    BY <2>2, <2>3
<1> DEFINE coins == Moved(work.coins, m.sender, "hub", m.amount)
           new == [s EXCEPT !.total_bond_statom_amount = bonded, !.statom_exchange_rate = rate]
<1>7. coins \in [Accounts -> Nat]
  <2>1. m.amount <= work.coins[m.sender] /\ "hub" \in Accounts
    BY DEF Bond, Accounts
  <2>2. work.coins \in [Accounts -> Nat]
    BY <1>2 DEF Worlds
  <2>3. QED
    BY <1>3, <2>1, <2>2, MovedType
<1>8. work' = [work EXCEPT !.coins = coins, !.state = new]
  BY DEF Bond
<1> HIDE DEF bonded, rate
<1>9. new \in HW!State /\ new.last_unbonded_time = work.state.last_unbonded_time
  BY <1>2, <1>5, <1>6 DEF HW!State
<1> HIDE DEF coins, new
<1>10. WorldOK(work')
  <2>1. work' \in Worlds
    BY <1>2, <1>7, <1>8, <1>9 DEF Worlds
  <2>2. work'.batch = work.batch /\ work'.history = work.history
    BY <1>2, <1>8 DEF Worlds
  <2>3. QED
    BY <1>2, <2>1, <2>2 DEF WorldOK, Numbered
<1>11. Kept
  <2>1. /\ work'.tokens = work.tokens /\ work'.entries = work.entries /\ work'.state = new
        /\ work.tokens["hub"] \in Nat
    BY <1>2, <1>8 DEF Worlds, Holders
  <2>2. QED
    BY <1>9, <2>1 DEF Kept
<1>12. \E ms \in Seq(Silent) : Answer(ms)
  <2>1. DelegateMessages(m.amount) \in Seq(Silent)
    <3>1. DelegateMessages(m.amount)
            \in Seq([type : {"Delegate"}, validator : Validators, amount : Nat])
      BY <1>3, DelegateMessagesType DEF Typed, Bond
    <3>2. QED
      BY <3>1, SilentDelegations, SeqMonotone
  <2>2. (IF m.type = "BondRewards" THEN <<>> ELSE <<mint>>) \in Seq(Silent)
    <3>1. <<>> \in Seq(Silent)
      OBVIOUS
    <3>2. CASE m.type = "BondForStAtom"
      <4>1. m.sender \in Users
        BY <1>1, <3>2 DEF Fields
      <4> HIDE DEF minted
      <4>2. mint \in Silent
        BY <1>4, <4>1 DEF Silent, Owes, Messages, ToToken, Holders
      <4>3. <<mint>> \in Seq(Silent)
        BY <4>2, SeqSingle
      <4>4. QED
        BY <3>2, <4>3
    <3>3. QED
      BY <1>1, <3>1, <3>2
  <2>3. DelegateMessages(m.amount) \o (IF m.type = "BondRewards" THEN <<>> ELSE <<mint>>)
          \in Seq(Silent)
    BY <2>1, <2>2
  <2>4. Answer(DelegateMessages(m.amount) \o (IF m.type = "BondRewards" THEN <<>> ELSE <<mint>>))
    BY DEF Bond
  <2>5. QED
    BY <2>3, <2>4
<1>13. QED
  BY <1>10, <1>11, <1>12

ToUndelegate == [type : {"Undelegate"}, validator : Validators, amount : Nat]
BurnOfHub(amount) == [type |-> "Burn", sender |-> "hub", amount |-> amount]

\* receive_cw20: what was sent joins the batch, and is burnt at the end.
LEMMA TypeReceive ==
  ASSUME Typed, ReceiveUnbond
  PROVE  /\ WorldOK(work')
         /\ Message.sender = "token" /\ Message.amount \in Nat
         /\ work'.tokens = work.tokens /\ work'.entries = work.entries
         /\ \/ /\ work'.state.last_unbonded_time = work.state.last_unbonded_time
               /\ Answer(<<BurnOfHub(Message.amount)>>)
            \/ /\ HW!EpochPassed
               /\ work'.state.last_unbonded_time = now
               /\ \E us \in Seq(ToUndelegate) : Answer(us \o <<BurnOfHub(Message.amount)>>)
<1> DEFINE m == Message
           s == HW!ActualState
           requested == work.batch.requested_statom + m.amount
           claim == Times(requested, s.statom_exchange_rate)
           wait == [work.wait EXCEPT ![m.user][work.batch.id] = @ + m.amount]
<1>1. queue # <<>> /\ m \in Messages /\ Fields(m) /\ m.type = "Receive"
  BY FirstMessage DEF ReceiveUnbond, Handling
<1>2. work \in Worlds /\ Numbered(work) /\ s \in HW!State
        /\ s.last_unbonded_time = work.state.last_unbonded_time
  BY HubTyped, HubComputes DEF Typed, WorldOK
<1>3. m.amount \in Nat /\ m.user \in Users /\ m.sender = "token"
  BY <1>1 DEF Fields, ReceiveUnbond, FromToken
<1>4. requested \in Nat /\ claim \in Nat /\ s.statom_exchange_rate \in Nat
  <2>1. requested \in Nat /\ s.statom_exchange_rate \in Nat
    BY <1>2, <1>3, SMTT(20) DEF Worlds, HW!CurrentBatch, HW!State
  <2>2. QED
    BY <2>1, TimesBound
<1>5. work.batch.id \in 1..MaxBatch
  BY <1>2, ProtocolAssumption DEF ReceiveUnbond, Worlds, HW!CurrentBatch
<1>6. wait \in [Users -> [1..MaxBatch -> Nat]]
  <2>1. work.wait \in [Users -> [1..MaxBatch -> Nat]]
    BY <1>2 DEF Worlds
  <2> DEFINE t == work.wait
             u == m.user
             b == work.batch.id
             n == m.amount
             B == 1..MaxBatch
  <2>2. t \in [Users -> [B -> Nat]] /\ u \in Users /\ b \in B /\ n \in Nat
    BY <2>1, <1>3, <1>5
  <2> HIDE DEF t, u, b, n, B
  <2>3. [t EXCEPT ![u][b] = @ + n] \in [Users -> [B -> Nat]]
    BY ONLY <2>2
  <2>4. QED
    BY <2>3 DEF t, u, b, n, B
<1> DEFINE new == [s EXCEPT !.total_bond_statom_amount = @ - claim, !.last_unbonded_time = now]
           entry == [time |-> now, statom_amount |-> requested,
                     statom_applied_exchange_rate |-> s.statom_exchange_rate,
                     statom_withdraw_rate |-> s.statom_exchange_rate, released |-> FALSE]
           due == [work EXCEPT !.wait = wait, !.state = new,
                               !.batch = [id |-> work.batch.id + 1, requested_statom |-> 0],
                               !.history = Append(work.history, entry)]
<1>7. \/ /\ work' = [work EXCEPT !.wait = wait, !.state = s, !.batch.requested_statom = requested]
         /\ Answer(<<BurnOfHub(m.amount)>>)
      \/ /\ HW!EpochPassed
         /\ CanUndelegate(claim, RW!TotalsOf(RW!Descending(RW!Delegated, work.delegation),
                                             work.delegation))
         /\ claim <= s.total_bond_statom_amount
         /\ work' = due
         /\ Answer(UndelegateMessages(claim) \o <<BurnOfHub(m.amount)>>)
  <2>1. DOMAIN work = DOMAIN [work EXCEPT !.wait = wait]
    BY <1>2 DEF Worlds
  <2>2. [work EXCEPT !.wait[m.user][work.batch.id] = @ + m.amount] = [work EXCEPT !.wait = wait]
    BY <1>2 DEF Worlds
  <2> DEFINE waiting == [work EXCEPT !.wait = wait]
  <2>3. /\ waiting.batch = work.batch /\ waiting.history = work.history
        /\ [waiting EXCEPT !.state = s, !.batch.requested_statom = requested]
             = [work EXCEPT !.wait = wait, !.state = s, !.batch.requested_statom = requested]
    BY <1>2 DEF Worlds
  <2>4. [waiting EXCEPT !.state = new, !.batch = [id |-> @.id + 1, requested_statom |-> 0],
                        !.history = Append(@, entry)] = due
    BY <1>2, <2>3 DEF Worlds
  <2> HIDE DEF waiting, wait, new, entry, due, s, requested, claim
  <2>5. QED
    BY <2>2, <2>3, <2>4 DEF ReceiveUnbond, BurntByUnbond, BurnOfHub, waiting, new, entry,
       s, requested, claim
<1> HIDE DEF wait, s, requested, claim
<1>8. CASE /\ work' = [work EXCEPT !.wait = wait, !.state = s, !.batch.requested_statom = requested]
           /\ Answer(<<BurnOfHub(m.amount)>>)
  <2>1. work' \in Worlds /\ work'.batch.id = work.batch.id /\ work'.history = work.history
          /\ work'.tokens = work.tokens /\ work'.entries = work.entries /\ work'.state = s
    BY <1>2, <1>4, <1>6, <1>8 DEF Worlds, HW!CurrentBatch
  <2>2. WorldOK(work')
    BY <1>2, <2>1 DEF WorldOK, Numbered
  <2>3. QED
    BY <1>2, <1>3, <1>8, <2>1, <2>2
<1>9. CASE /\ HW!EpochPassed
           /\ CanUndelegate(claim, RW!TotalsOf(RW!Descending(RW!Delegated, work.delegation),
                                               work.delegation))
           /\ claim <= s.total_bond_statom_amount
           /\ work' = due
           /\ Answer(UndelegateMessages(claim) \o <<BurnOfHub(m.amount)>>)
  <2>1. now \in 0..MaxTime /\ now \in Nat
    BY ProtocolAssumption DEF Typed
  <2>2. new \in HW!State /\ new.last_unbonded_time = now
    <3>1. /\ s.total_bond_statom_amount \in Nat
          /\ claim <= s.total_bond_statom_amount
      BY <1>2, <1>9 DEF HW!State
    <3>2. s.total_bond_statom_amount - claim \in Nat
      BY <1>4, <3>1
    <3> DEFINE left == s.total_bond_statom_amount - claim
    <3>3. new = [s EXCEPT !.total_bond_statom_amount = left, !.last_unbonded_time = now]
      OBVIOUS
    <3>4. left \in Nat
      BY <3>2
    <3> HIDE DEF left, new
    <3>5. QED
      BY <1>2, <2>1, <3>3, <3>4 DEF HW!State
  <2>3. entry \in HW!UnbondHistory /\ entry.time = now
    BY <1>4, <2>1 DEF HW!UnbondHistory
  <2> DEFINE history == Append(work.history, entry)
             batch == [id |-> work.batch.id + 1, requested_statom |-> 0]
  <2> HIDE DEF new, entry
  <2>4. /\ history \in Seq(HW!UnbondHistory) /\ Len(history) = Len(work.history) + 1
        /\ \A b \in 1..Len(work.history) : history[b] = work.history[b]
        /\ history[Len(work.history) + 1] = entry
    <3>1. work.history \in Seq(HW!UnbondHistory)
      BY <1>2 DEF Worlds
    <3>2. QED
      BY <2>3, <3>1
  <2>5. batch \in HW!CurrentBatch /\ batch.id = work.batch.id + 1
    BY <1>5 DEF HW!CurrentBatch
  <2> HIDE DEF history, batch
  <2>6. work' = [work EXCEPT !.wait = wait, !.state = new, !.batch = batch, !.history = history]
    BY <1>9 DEF history, batch
  <2>7. work' \in Worlds /\ work'.batch = batch /\ work'.history = history
          /\ work'.tokens = work.tokens /\ work'.entries = work.entries /\ work'.state = new
    BY <1>2, <1>6, <2>2, <2>4, <2>5, <2>6 DEF Worlds
  <2>8. Numbered(work')
    <3>1. Len(work.history) \in Nat /\ work.batch.id = Len(work.history) + 1
      BY <1>2 DEF Numbered, Worlds
    <3>2. Len(history) <= MaxBatch
      BY <1>5, <2>4, <3>1
    <3>3. ASSUME NEW b \in 1..Len(history)
          PROVE  history[b].time \in 0..MaxTime
      <4>1. b \in 1..Len(work.history) \/ b = Len(work.history) + 1
        BY <2>4, <3>1
      <4>2. \A c \in 1..Len(work.history) : work.history[c].time \in 0..MaxTime
        BY <1>2 DEF Numbered
      <4>3. QED
        BY <2>1, <2>3, <2>4, <4>1, <4>2
    <3>4. QED
      BY <2>4, <2>5, <2>7, <3>1, <3>2, <3>3 DEF Numbered
  <2>9. UndelegateMessages(claim) \in Seq(ToUndelegate)
    BY <1>4, <1>9, UndelegateMessagesType DEF Typed, ToUndelegate
  <2>10. QED
    BY <1>3, <1>9, <2>2, <2>7, <2>8, <2>9 DEF WorldOK
<1>10. QED
  BY <1>7, <1>8, <1>9

\* Handlers that undelegate no batch leave the batches as they are.
LEMMA WorldKept ==
  ASSUME Typed, work' \in Worlds, work'.batch = work.batch, work'.history = work.history
  PROVE  WorldOK(work')
  BY DEF Typed, WorldOK, Numbered

\* execute_withdraw_unbonded
LEMMA TypeWithdrawUnbonded ==
  ASSUME Typed, WithdrawUnbonded
  PROVE  WorldOK(work') /\ Kept /\ \E ms \in Seq(Silent) : Answer(ms)
<1> DEFINE u == Message.sender
           processed == HW!ProcessedHistory
           withdrawn == HW!FinishedAmount(u, processed)
           paid == [b \in 1..MaxBatch |->
                      IF b \in DOMAIN processed /\ processed[b].released THEN 0 ELSE work.wait[u][b]]
           wait == [work.wait EXCEPT ![u] = paid]
           state == [work.state EXCEPT !.last_processed_batch = HW!LastProcessed,
                                       !.prev_hub_balance = work.coins["hub"] - withdrawn]
           send == [type |-> "BankSend", sender |-> "hub", to |-> u, amount |-> withdrawn]
<1>1. queue # <<>> /\ Message \in Messages /\ Fields(Message)
        /\ Message.type = "WithdrawUnbonded"
  BY FirstMessage DEF WithdrawUnbonded, Handling
<1>2. u \in Users
  BY <1>1 DEF Fields
<1>3. work \in Worlds /\ Numbered(work)
  BY DEF Typed, WorldOK
<1>4. /\ HW!LastProcessed \in Nat
      /\ processed \in Seq(HW!UnbondHistory)
      /\ Len(processed) = Len(work.history)
      /\ \A b \in DOMAIN work.history : processed[b].time = work.history[b].time
      /\ withdrawn \in Nat
  BY <1>2, HubTyped, HubComputes DEF Typed
<1>5. withdrawn <= work.coins["hub"] /\ work.coins["hub"] \in Nat
  BY <1>3 DEF WithdrawUnbonded, Worlds, Accounts
<1>6. wait \in [Users -> [1..MaxBatch -> Nat]]
  <2>1. work.wait \in [Users -> [1..MaxBatch -> Nat]]
    BY <1>3 DEF Worlds
  <2>2. paid \in [1..MaxBatch -> Nat]
    BY <1>2, <2>1
  <2> HIDE DEF paid
  <2>3. QED
    BY <2>1, <2>2
<1>7. work' = [work EXCEPT !.history = processed, !.wait = wait, !.state = state]
  BY <1>3 DEF WithdrawUnbonded, Worlds
<1>8. Answer(<<send>>)
  BY DEF WithdrawUnbonded
<1> HIDE DEF wait, processed, withdrawn
<1>9. state \in HW!State /\ state.last_unbonded_time = work.state.last_unbonded_time
  <2>1. work.coins["hub"] - withdrawn \in Nat
    BY <1>4, <1>5
  <2>2. work.state \in HW!State
    BY <1>3 DEF Worlds
  <2>3. QED
    BY <1>4, <2>1, <2>2 DEF HW!State
<1> HIDE DEF state
<1>10. /\ work' \in Worlds /\ work'.batch = work.batch /\ work'.history = processed
       /\ work'.tokens = work.tokens /\ work'.entries = work.entries /\ work'.state = state
       /\ work.tokens["hub"] \in Nat
  BY <1>3, <1>4, <1>6, <1>7, <1>9 DEF Worlds, Holders
<1>11. WorldOK(work')
  <2>1. DOMAIN work.history = 1..Len(work.history)
    BY <1>3 DEF Worlds
  <2>2. QED
    BY <1>3, <1>4, <1>10, <2>1 DEF WorldOK, Numbered
<1>12. Kept
  BY <1>9, <1>10 DEF Kept
<1>13. send \in Silent
  BY <1>2, <1>4 DEF Silent, Owes, Messages, ToChain
<1>14. <<send>> \in Seq(Silent)
  BY <1>13, SeqSingle
<1>15. QED
  BY <1>8, <1>11, <1>12, <1>14

\* execute_slashing
LEMMA TypeCheckSlashing ==
  ASSUME Typed, CheckSlashing
  PROVE  WorldOK(work') /\ Kept /\ \E ms \in Seq(Silent) : Answer(ms)
<1> DEFINE s == HW!ActualState
<1>1. work \in Worlds /\ s \in HW!State /\ s.last_unbonded_time = work.state.last_unbonded_time
  BY HubTyped, HubComputes DEF Typed, WorldOK
<1>2. work' = [work EXCEPT !.state = s] /\ Answer(<<>>)
  BY DEF CheckSlashing
<1> HIDE DEF s
<1>3. /\ work' \in Worlds /\ work'.batch = work.batch /\ work'.history = work.history
      /\ work'.tokens = work.tokens /\ work'.entries = work.entries /\ work'.state = s
      /\ work.tokens["hub"] \in Nat
  BY <1>1, <1>2 DEF Worlds, Holders
<1>4. <<>> \in Seq(Silent)
  OBVIOUS
<1>5. WorldOK(work')
  BY <1>3, WorldKept
<1>6. Kept
  BY <1>1, <1>3 DEF Kept
<1>7. QED
  BY <1>2, <1>4, <1>5, <1>6

\* A handler that stores nothing keeps what is stored.
LEMMA TypeUnchanged ==
  ASSUME Typed, UNCHANGED work
  PROVE  WorldOK(work') /\ Kept
<1>1. work \in Worlds /\ work.tokens["hub"] \in Nat
  BY DEF Typed, WorldOK, Worlds, Holders
<1>2. QED
  BY <1>1, WorldKept DEF Kept

\* What is withdrawn from the validators, to be dispatched.
LEMMA TypeWithdrawAndDispatch ==
  ASSUME Typed
  PROVE  WithdrawAndDispatch \in Seq(Silent)
<1> DEFINE seq == RW!Ascending(RW!Delegated, [v \in Validators |-> 0])
           dispatch == [type |-> "DispatchRewards", sender |-> "hub"]
<1>1. RP!Lists(seq, RW!Delegated)
  <2>1. RW!Delegated \in SUBSET Validators /\ \A v \in RW!Delegated : [w \in Validators |-> 0][v] \in Int
    BY DEF RW!Delegated
  <2> DEFINE d == [w \in Validators |-> 0]
  <2> HIDE DEF d
  <2>2. RP!Lists(RW!Ascending(RW!Delegated, d), RW!Delegated)
    <3>1. RW!Delegated \in SUBSET Validators /\ \A v \in RW!Delegated : d[v] \in Int
      BY <2>1 DEF d
    <3>2. QED
      BY <3>1, ValidatorsListed
  <2>3. QED
    BY <2>2 DEF d
<1>2. seq \in Seq(RW!Delegated)
  BY <1>1, ListedType
<1> HIDE DEF seq
<1>3. WithdrawRewardMessages
        = [i \in DOMAIN seq |-> [type |-> "WithdrawDelegatorReward", validator |-> seq[i]]]
  BY DEF WithdrawRewardMessages, seq
<1>4. ASSUME NEW i \in 1..Len(seq)
      PROVE  [type |-> "WithdrawDelegatorReward", validator |-> seq[i]] \in Silent
  <2>1. seq[i] \in Validators
    BY <1>2 DEF RW!Delegated
  <2>2. QED
    BY <2>1 DEF Silent, Owes, Messages, ToChain
<1>5. WithdrawRewardMessages \in Seq(Silent)
  <2>1. Len(seq) \in Nat /\ DOMAIN seq = 1..Len(seq)
    BY <1>2
  <2>2. QED
    BY <1>3, <1>4, <2>1
<1>6. dispatch \in Silent
  BY DEF Silent, Owes, Messages, ToOthers, Holders
<1>7. <<dispatch>> \in Seq(Silent)
  BY <1>6, SeqSingle
<1>8. WithdrawRewardMessages \o <<dispatch>> \in Seq(Silent)
  BY <1>5, <1>7
<1>9. QED
  BY <1>8 DEF WithdrawAndDispatch

\* execute_redelegate_proxy
LEMMA TypeRedelegateProxy ==
  ASSUME Typed, RedelegateProxy
  PROVE  WorldOK(work') /\ Kept /\ \E ms \in Seq(Silent) : Answer(ms)
<1> DEFINE m == Message
           pairs == m.redelegations
           message(i) == [type |-> "Redelegate", src |-> m.src, validator |-> pairs[i][1],
                          amount |-> pairs[i][2]]
           ms == [i \in DOMAIN pairs |-> message(i)]
<1>1. queue # <<>> /\ Fields(m) /\ m.type = "RedelegateProxy"
  BY FirstMessage DEF RedelegateProxy, Handling
<1>2. m.src \in Validators /\ pairs \in Seq(Validators \X Nat)
  BY <1>1 DEF Fields
<1>3. Answer(ms) /\ UNCHANGED work
  BY DEF RedelegateProxy
<1> HIDE DEF pairs
<1>4. ASSUME NEW i \in 1..Len(pairs)
      PROVE  message(i) \in Silent
  <2>1. pairs[i] \in Validators \X Nat
    BY <1>2
  <2>2. pairs[i][1] \in Validators /\ pairs[i][2] \in Nat
    BY <2>1
  <2>3. QED
    BY <1>2, <2>2 DEF Silent, Owes, Messages, ToChain
<1> HIDE DEF message
<1>5. ms \in Seq(Silent)
  <2>1. Len(pairs) \in Nat /\ DOMAIN pairs = 1..Len(pairs)
    BY <1>2
  <2>2. QED
    BY <1>4, <2>1
<1>6. QED
  BY <1>3, <1>5, TypeUnchanged

\* execute_pause_contracts and execute_unpause_contracts
LEMMA TypeSetPaused ==
  ASSUME Typed, SetPaused
  PROVE  WorldOK(work') /\ Kept /\ \E ms \in Seq(Silent) : Answer(ms)
<1> DEFINE paused == Message.type = "PauseContracts"
           params == [work.params EXCEPT !.paused = paused]
<1>1. work \in Worlds
  BY DEF Typed, WorldOK
<1>2. params \in HW!Parameters
  <2>1. paused \in BOOLEAN /\ work.params \in HW!Parameters
    BY <1>1 DEF Worlds
  <2> HIDE DEF paused
  <2>2. QED
    BY <2>1 DEF HW!Parameters
<1>3. work' = [work EXCEPT !.params = params] /\ Answer(<<>>)
  BY <1>1 DEF SetPaused, Worlds
<1> HIDE DEF params
<1>4. /\ work' \in Worlds /\ work'.batch = work.batch /\ work'.history = work.history
      /\ work'.tokens = work.tokens /\ work'.entries = work.entries /\ work'.state = work.state
      /\ work.tokens["hub"] \in Nat
  BY <1>1, <1>2, <1>3 DEF Worlds, Holders
<1>5. <<>> \in Seq(Silent)
  OBVIOUS
<1>6. WorldOK(work')
  BY <1>4, WorldKept
<1>7. Kept
  BY <1>4 DEF Kept
<1>8. QED
  BY <1>3, <1>5, <1>6, <1>7

-----------------------------------------------------------------------------
(***************************************************************************)
(* Types: the token.                                                       *)
(***************************************************************************)
\* The hub is not a user.
LEMMA HubIsNoUser ==
  "hub" \notin Users /\ "hub" \in Holders /\ Users \subseteq Holders
  BY ProtocolAssumption DEF Contracts, Holders

\* A new table of tokens and one of allowances leave the rest as it is.
LEMMA TokensChange ==
  ASSUME Typed, NEW tokens \in [Holders -> Nat], NEW allowance \in [Users -> [Users -> Nat]],
         work' = [work EXCEPT !.tokens = tokens, !.allowance = allowance]
  PROVE  /\ WorldOK(work') /\ work'.tokens = tokens /\ work'.entries = work.entries
         /\ work'.state = work.state
         /\ tokens["hub"] >= work.tokens["hub"] => Kept
<1>1. work \in Worlds
  BY DEF Typed, WorldOK
<1>2. /\ work' \in Worlds /\ work'.batch = work.batch /\ work'.history = work.history
      /\ work'.tokens = tokens /\ work'.entries = work.entries /\ work'.state = work.state
  BY <1>1 DEF Worlds
<1>3. WorldOK(work')
  BY <1>2, WorldKept
<1>4. QED
  BY <1>2, <1>3 DEF Kept

\* The tables as they are.
LEMMA TokensNow ==
  ASSUME Typed
  PROVE  /\ work.tokens \in [Holders -> Nat]
         /\ work.allowance \in [Users -> [Users -> Nat]]
         /\ \A a \in Holders : work.tokens[a] \in Nat
         /\ \A u, v \in Users : work.allowance[u][v] \in Nat
<1>1. work.tokens \in [Holders -> Nat] /\ work.allowance \in [Users -> [Users -> Nat]]
  BY DEF Typed, WorldOK, Worlds
<1>2. QED
  BY <1>1

\* One of them is changed, or both.
LEMMA TablesApart ==
  ASSUME Typed
  PROVE  /\ work = [work EXCEPT !.tokens = work.tokens, !.allowance = work.allowance]
         /\ \A t, a : [[work EXCEPT !.allowance = a] EXCEPT !.tokens = t]
                        = [work EXCEPT !.tokens = t, !.allowance = a]
         /\ \A t : [work EXCEPT !.tokens = t]
                     = [work EXCEPT !.tokens = t, !.allowance = work.allowance]
         /\ \A a : [work EXCEPT !.allowance = a]
                     = [work EXCEPT !.tokens = work.tokens, !.allowance = a]
<1>1. work \in Worlds
  BY DEF Typed, WorldOK
<1>2. QED
  BY <1>1 DEF Worlds

\* cw20_mint
LEMMA TypeMint ==
  ASSUME Typed, Mint
  PROVE  WorldOK(work') /\ Kept /\ \E ms \in Seq(Silent) : Answer(ms)
<1> DEFINE m == Message
           tokens == [work.tokens EXCEPT ![m.to] = @ + m.amount]
<1>1. queue # <<>> /\ Fields(m) /\ m.type = "Mint"
  BY FirstMessage DEF Mint, TokenOpen, Handling
<1>2. m.to \in Holders /\ m.amount \in Nat
  BY <1>1, HubIsNoUser DEF Fields
<1>3. tokens \in [Holders -> Nat] /\ tokens["hub"] >= work.tokens["hub"]
  BY <1>2, TokensNow, HubIsNoUser
<1>4. work' = [work EXCEPT !.tokens = tokens] /\ Answer(<<>>)
  BY <1>2, TokensNow DEF Mint
<1> HIDE DEF tokens
<1>5. work' = [work EXCEPT !.tokens = tokens, !.allowance = work.allowance]
  BY <1>4, TablesApart
<1>6. WorldOK(work') /\ Kept
  BY <1>3, <1>5, TokensNow, TokensChange
<1>7. <<>> \in Seq(Silent)
  OBVIOUS
<1>8. QED
  BY <1>4, <1>6, <1>7

\* cw20_increase_allowance and cw20_decrease_allowance
LEMMA TypeAllowance ==
  ASSUME Typed, IncreaseAllowance \/ DecreaseAllowance
  PROVE  WorldOK(work') /\ Kept /\ \E ms \in Seq(Silent) : Answer(ms)
<1> DEFINE m == Message
           a == work.allowance[m.sender][m.spender]
           n == IF m.type = "IncreaseAllowance" THEN a + m.amount
                ELSE IF m.amount < a THEN a - m.amount ELSE 0
           allowance == [work.allowance EXCEPT ![m.sender][m.spender] = n]
<1>1. queue # <<>> /\ Fields(m) /\ m.type \in {"IncreaseAllowance", "DecreaseAllowance"}
  BY FirstMessage DEF IncreaseAllowance, DecreaseAllowance, TokenOpen, Handling
<1>2. m.sender \in Users /\ m.spender \in Users /\ m.amount \in Nat
  BY <1>1 DEF Fields
<1>3. n \in Nat
  <2>1. a \in Nat
    BY <1>2, TokensNow
  <2> HIDE DEF a
  <2>2. QED
    BY <1>2, <2>1
<1>4. work' = [work EXCEPT !.allowance = allowance] /\ Answer(<<>>)
  BY DEF IncreaseAllowance, DecreaseAllowance, TokenOpen, Handling
<1> HIDE DEF n
<1>5. allowance \in [Users -> [Users -> Nat]]
  BY <1>2, <1>3, TokensNow
<1> HIDE DEF allowance
<1>6. work' = [work EXCEPT !.tokens = work.tokens, !.allowance = allowance]
  BY <1>4, TablesApart
<1>7. work.tokens["hub"] >= work.tokens["hub"]
  BY TokensNow, HubIsNoUser
<1>8. WorldOK(work') /\ Kept
  BY <1>5, <1>6, <1>7, TokensNow, TokensChange
<1>9. <<>> \in Seq(Silent)
  OBVIOUS
<1>10. QED
  BY <1>4, <1>8, <1>9

\* An allowance that is used is charged.
LEMMA ChargedType ==
  ASSUME Typed, NEW m, m.owner \in Users, m.sender \in Users, m.amount \in Nat, Allowed(m)
  PROVE  \E allowance \in [Users -> [Users -> Nat]] :
           Charged(m) = [work EXCEPT !.allowance = allowance]
<1>1. CASE m.sender = m.owner
  <2>1. Charged(m) = [work EXCEPT !.allowance = work.allowance]
    <3>1. work = [work EXCEPT !.allowance = work.allowance]
      BY DEF Typed, WorldOK, Worlds
    <3>2. QED
      BY <1>1, <3>1 DEF Charged
  <2>2. QED
    BY <2>1, TokensNow
<1>2. CASE m.sender # m.owner
  <2> DEFINE n == work.allowance[m.owner][m.sender] - m.amount
             allowance == [work.allowance EXCEPT ![m.owner][m.sender] = n]
  <2>1. n \in Nat
    <3>1. work.allowance[m.owner][m.sender] \in Nat
      BY TokensNow
    <3>2. m.amount <= work.allowance[m.owner][m.sender]
      BY <1>2 DEF Allowed
    <3>3. QED
      BY <3>1, <3>2
  <2>2. Charged(m) = [work EXCEPT !.allowance = allowance]
    BY <1>2 DEF Charged
  <2> HIDE DEF n
  <2>3. allowance \in [Users -> [Users -> Nat]]
    BY <2>1, TokensNow
  <2>4. QED
    BY <2>2, <2>3
<1>3. QED
  BY <1>1, <1>2

\* cw20_transfer and cw20_transfer_from
LEMMA TypeTransfer ==
  ASSUME Typed, Transfer
  PROVE  WorldOK(work') /\ Kept /\ \E ms \in Seq(Silent) : Answer(ms)
<1> DEFINE m == Message
           tokens == Moved(work.tokens, m.owner, m.to, m.amount)
<1>1. queue # <<>> /\ Fields(m) /\ m.type \in {"Transfer", "TransferFrom"}
  BY FirstMessage DEF Transfer, TokenOpen, Handling
<1>2. m.sender \in Users /\ m.owner \in Users /\ m.to \in Holders /\ m.amount \in Nat
  BY <1>1 DEF Fields
<1>3. Allowed(m) /\ m.amount <= work.tokens[m.owner] /\ Answer(<<>>)
        /\ work' = [Charged(m) EXCEPT !.tokens = Moved(@, m.owner, m.to, m.amount)]
  BY DEF Transfer, Allowed
<1>4. PICK allowance \in [Users -> [Users -> Nat]] :
        Charged(m) = [work EXCEPT !.allowance = allowance]
  BY <1>2, <1>3, ChargedType
<1>5. tokens \in [Holders -> Nat]
  BY <1>2, <1>3, TokensNow, HubIsNoUser, MovedType
<1>6. tokens["hub"] >= work.tokens["hub"]
  BY <1>2, TokensNow, HubIsNoUser DEF Moved
<1>7. work' = [[work EXCEPT !.allowance = allowance] EXCEPT !.tokens = tokens]
  <2>1. [work EXCEPT !.allowance = allowance].tokens = work.tokens
    BY DEF Typed, WorldOK, Worlds
  <2>2. QED
    BY <1>3, <1>4, <2>1
<1> HIDE DEF tokens
<1>8. work' = [work EXCEPT !.tokens = tokens, !.allowance = allowance]
  BY <1>7, TablesApart
<1>9. WorldOK(work') /\ Kept
  BY <1>5, <1>6, <1>8, TokensChange
<1>10. <<>> \in Seq(Silent)
  OBVIOUS
<1>11. QED
  BY <1>3, <1>9, <1>10

ReceiveFromToken(user, amount) ==
  [type |-> "Receive", sender |-> "token", user |-> user, amount |-> amount]

\* cw20_send and cw20_send_from: the hub is told of what it got.
LEMMA TypeSend ==
  ASSUME Typed, Send
  PROVE  /\ WorldOK(work')
         /\ Message.amount \in Nat /\ Message.sender \in Users
         /\ work'.tokens["hub"] = work.tokens["hub"] + Message.amount
         /\ work'.entries = work.entries /\ work'.state = work.state
         /\ Answer(<<ReceiveFromToken(Message.sender, Message.amount)>>)
<1> DEFINE m == Message
           tokens == Moved(work.tokens, m.owner, "hub", m.amount)
<1>1. queue # <<>> /\ Fields(m) /\ m.type \in {"Send", "SendFrom"}
  BY FirstMessage DEF Send, TokenOpen, Handling
<1>2. m.sender \in Users /\ m.owner \in Users /\ m.amount \in Nat
  BY <1>1 DEF Fields
<1>3. Allowed(m) /\ m.amount <= work.tokens[m.owner]
        /\ work' = [Charged(m) EXCEPT !.tokens = Moved(@, m.owner, "hub", m.amount)]
  BY DEF Send, Allowed
<1>4. PICK allowance \in [Users -> [Users -> Nat]] :
        Charged(m) = [work EXCEPT !.allowance = allowance]
  BY <1>2, <1>3, ChargedType
<1>5. tokens \in [Holders -> Nat]
  BY <1>2, <1>3, TokensNow, HubIsNoUser, MovedType
<1>6. tokens["hub"] = work.tokens["hub"] + m.amount
  BY <1>2, TokensNow, HubIsNoUser DEF Moved
<1>7. work' = [[work EXCEPT !.allowance = allowance] EXCEPT !.tokens = tokens]
  <2>1. [work EXCEPT !.allowance = allowance].tokens = work.tokens
    BY DEF Typed, WorldOK, Worlds
  <2>2. QED
    BY <1>3, <1>4, <2>1
<1>8. Answer(<<ReceiveFromToken(m.sender, m.amount)>>)
  BY DEF Send, ReceiveMessages, ReceiveFromToken
<1> HIDE DEF tokens
<1>9. work' = [work EXCEPT !.tokens = tokens, !.allowance = allowance]
  BY <1>7, TablesApart
<1>10. WorldOK(work') /\ work'.tokens = tokens /\ work'.entries = work.entries
         /\ work'.state = work.state
  BY <1>5, <1>9, TokensChange
<1>11. QED
  BY <1>2, <1>6, <1>8, <1>10

\* cw20_burn and cw20_burn_from
LEMMA TypeBurn ==
  ASSUME Typed, Burn
  PROVE  /\ WorldOK(work')
         /\ Message.amount \in Nat
         /\ IF Owes(Message)
            THEN work'.tokens["hub"] = work.tokens["hub"] - Message.amount
            ELSE work'.tokens["hub"] = work.tokens["hub"]
         /\ work'.entries = work.entries /\ work'.state = work.state
         /\ \E ms \in Seq(Silent) : Answer(ms)
<1> DEFINE m == Message
           owner == IF m.type = "Burn" THEN m.sender ELSE m.owner
           tokens == [work.tokens EXCEPT ![owner] = @ - m.amount]
           charged == IF m.type = "BurnFrom" THEN Charged(m) ELSE work
<1>1. queue # <<>> /\ Fields(m) /\ m.type \in {"Burn", "BurnFrom"}
  BY FirstMessage DEF Burn, TokenOpen, Handling
<1>2. owner \in Holders /\ m.amount \in Nat /\ (m.type = "BurnFrom" => owner \in Users)
  BY <1>1, HubIsNoUser DEF Fields
<1>3. /\ m.amount <= work.tokens[owner] /\ (m.type = "BurnFrom" => Allowed(m))
      /\ work' = [charged EXCEPT !.tokens[owner] = @ - m.amount]
      /\ Answer(CheckMessages(m))
  BY DEF Burn
<1>4. PICK allowance \in [Users -> [Users -> Nat]] :
        charged = [work EXCEPT !.allowance = allowance]
  <2>1. CASE m.type = "BurnFrom"
    <3>1. m.owner \in Users /\ m.sender \in Users
      BY <1>1, <2>1 DEF Fields
    <3>2. \E allowance \in [Users -> [Users -> Nat]] :
            Charged(m) = [work EXCEPT !.allowance = allowance]
      BY <1>2, <1>3, <2>1, <3>1, ChargedType
    <3>3. QED
      BY <2>1, <3>2
  <2>2. CASE m.type # "BurnFrom"
    <3>1. work = [work EXCEPT !.allowance = work.allowance]
      BY DEF Typed, WorldOK, Worlds
    <3>2. QED
      BY <2>2, <3>1, TokensNow
  <2>3. QED
    BY <2>1, <2>2
<1>5. tokens \in [Holders -> Nat]
  <2>1. work.tokens[owner] - m.amount \in Nat
    BY <1>2, <1>3, TokensNow
  <2> HIDE DEF owner
  <2>2. QED
    BY <1>2, <2>1, TokensNow
<1>6. IF Owes(m) THEN tokens["hub"] = work.tokens["hub"] - m.amount
                 ELSE tokens["hub"] = work.tokens["hub"]
  <2>1. Owes(m) <=> owner = "hub"
    BY <1>1, <1>2, HubIsNoUser DEF Owes
  <2> HIDE DEF owner
  <2>2. QED
    BY <1>2, <2>1, TokensNow, HubIsNoUser
<1>7. work' = [[work EXCEPT !.allowance = allowance] EXCEPT !.tokens = tokens]
  <2>1. [work EXCEPT !.allowance = allowance].tokens = work.tokens
    BY DEF Typed, WorldOK, Worlds
  <2> HIDE DEF owner, charged
  <2>2. QED
    BY <1>3, <1>4, <2>1
<1> HIDE DEF tokens
<1>8. work' = [work EXCEPT !.tokens = tokens, !.allowance = allowance]
  BY <1>7, TablesApart
<1>9. WorldOK(work') /\ work'.tokens = tokens /\ work'.entries = work.entries
         /\ work'.state = work.state
  BY <1>5, <1>8, TokensChange
<1>10. CheckMessages(m) \in Seq(Silent)
  <2> DEFINE check == [type |-> "CheckSlashing"]
  <2>1. check \in Silent
    BY DEF Silent, Owes, Messages, ToHub
  <2> HIDE DEF check
  <2>2. <<check>> \in Seq(Silent) /\ <<check, check>> \in Seq(Silent)
    BY <2>1
  <2>3. QED
    BY <2>2 DEF CheckMessages, check
<1>11. QED
  BY <1>2, <1>3, <1>6, <1>9, <1>10

-----------------------------------------------------------------------------
(***************************************************************************)
(* Types: the dispatcher, the registry and the chain.                      *)
(***************************************************************************)
\* execute_dispatch_rewards
LEMMA TypeDispatchRewards ==
  ASSUME Typed, DispatchRewards
  PROVE  WorldOK(work') /\ Kept /\ \E ms \in Seq(Silent) : Answer(ms)
<1> DEFINE rewards == work.coins["dispatcher"]
           fee == LidoFee(rewards)
           bond == [type |-> "BondRewards", sender |-> "dispatcher", amount |-> rewards - fee]
           send == [type |-> "BankSend", sender |-> "dispatcher", to |-> "fees", amount |-> fee]
<1>1. rewards \in Nat /\ fee <= rewards /\ UNCHANGED work
        /\ Answer(Nonzero(<<bond, send>>))
  BY DEF DispatchRewards, Typed, WorldOK, Worlds, Accounts
<1>2. fee \in Nat
  BY <1>1, TimesBound, ProtocolAssumption DEF LidoFee
<1> HIDE DEF fee, rewards
<1>3. rewards - fee \in Nat
  BY <1>1, <1>2
<1>4. bond \in Silent
  BY <1>3 DEF Silent, Owes, Messages, ToHub
<1>5. send \in Silent
  BY <1>2 DEF Silent, Owes, Messages, ToChain
<1> HIDE DEF bond, send
<1>6. <<bond, send>> \in Seq(Silent)
  BY <1>4, <1>5
<1>7. Nonzero(<<bond, send>>) \in Seq(Silent)
  BY <1>6, NonzeroType
<1>8. QED
  BY <1>1, <1>7, TypeUnchanged

\* add_validator
LEMMA TypeAddValidator ==
  ASSUME Typed, AddValidator
  PROVE  WorldOK(work') /\ Kept /\ \E ms \in Seq(Silent) : Answer(ms)
<1> DEFINE registry == work.registry \union {Message.validator}
<1>1. work \in Worlds /\ work' = [work EXCEPT !.registry = registry] /\ Answer(<<>>)
  BY DEF AddValidator, Typed, WorldOK
<1>2. registry \subseteq Validators
  <2>1. Fields(Message) /\ Message.type = "AddValidator"
    BY FirstMessage DEF AddValidator, Handling
  <2>2. QED
    BY <1>1, <2>1 DEF Worlds, Fields
<1> HIDE DEF registry
<1>3. /\ work' \in Worlds /\ work'.batch = work.batch /\ work'.history = work.history
      /\ work'.tokens = work.tokens /\ work'.entries = work.entries /\ work'.state = work.state
      /\ work.tokens["hub"] \in Nat
  BY <1>1, <1>2 DEF Worlds, Holders
<1>4. WorldOK(work')
  BY <1>3, WorldKept
<1>5. Kept
  BY <1>3 DEF Kept
<1>6. <<>> \in Seq(Silent)
  OBVIOUS
<1>7. QED
  BY <1>1, <1>4, <1>5, <1>6

\* What is redelegated from a validator that is removed.
LEMMA RedelegationsType ==
  ASSUME WorldOK(work), NEW S \in SUBSET Validators, NEW amount \in Nat
  PROVE  LET rest == RW!Ascending(S, work.delegation)
             totals == RW!TotalsOf(rest, work.delegation)
             shares == Delegations(amount, totals)
             pairs == [i \in DOMAIN rest |-> <<rest[i], shares[i]>>]
         IN  CanDelegate(amount, totals) =>
               Chosen(pairs, {i \in DOMAIN pairs : pairs[i][2] # 0}) \in Seq(Validators \X Nat)
<1> DEFINE rest == RW!Ascending(S, work.delegation)
           totals == RW!TotalsOf(rest, work.delegation)
           shares == Delegations(amount, totals)
           pairs == [i \in DOMAIN rest |-> <<rest[i], shares[i]>>]
<1> SUFFICES ASSUME CanDelegate(amount, totals)
             PROVE  Chosen(pairs, {i \in DOMAIN pairs : pairs[i][2] # 0}) \in Seq(Validators \X Nat)
  OBVIOUS
<1>1. \A v \in S : work.delegation[v] \in Nat
  BY DEF WorldOK, Worlds
<1>2. RP!Lists(rest, S)
  BY <1>1, ValidatorsListed
<1>3. totals \in Seq(Nat) /\ Len(totals) = Len(rest) /\ totals # <<>>
  <2> HIDE DEF rest
  <2>1. totals \in Seq(Nat) /\ Len(totals) = Len(rest)
    BY ONLY <1>1, <1>2, TotalsType
  <2>2. QED
    BY <2>1 DEF CanDelegate, rest
<1>4. \A i \in 1..Len(totals) : RP!Delegations(amount, totals)[i] \in Nat
  BY <1>3, RegistryAssumed, RP!DelegationsPlaced
<1>5. \A i \in 1..Len(rest) : shares[i] \in Nat
  BY <1>3, <1>4, DistributionSame
<1>6. rest \in Seq(S)
  BY <1>2, ListedType
<1> HIDE DEF rest, shares
<1>7. pairs \in Seq(Validators \X Nat)
  <2>1. Len(rest) \in Nat /\ DOMAIN rest = 1..Len(rest) /\ \A i \in 1..Len(rest) : rest[i] \in Validators
    BY <1>6
  <2>2. \A i \in 1..Len(rest) : <<rest[i], shares[i]>> \in Validators \X Nat
    BY <2>1, <1>5
  <2>3. QED
    BY <2>1, <2>2
<1> HIDE DEF pairs
<1>8. \A i \in 1..Len(pairs) : pairs[i] \in Validators \X Nat
  BY <1>7
<1>9. QED
  BY <1>7, <1>8, ChosenType

\* remove_validator
LEMMA TypeRemoveValidator ==
  ASSUME Typed, RemoveValidator
  PROVE  WorldOK(work') /\ Kept /\ \E ms \in Seq(Silent) : Answer(ms)
<1> DEFINE v == Message.validator
           registry == work.registry \ {v}
           rest == RW!Ascending(registry, work.delegation)
           totals == RW!TotalsOf(rest, work.delegation)
           shares == Delegations(work.delegation[v], totals)
           pairs == [i \in DOMAIN rest |-> <<rest[i], shares[i]>>]
           redelegations == Chosen(pairs, {i \in DOMAIN pairs : pairs[i][2] # 0})
           proxy == [type |-> "RedelegateProxy", sender |-> "registry", src |-> v,
                     redelegations |-> redelegations]
           dispatch == [type |-> "WithdrawAndDispatch"]
<1>1. work \in Worlds /\ WorldOK(work) /\ v \in Validators /\ registry \in SUBSET Validators
  <2>1. Fields(Message) /\ Message.type = "RemoveValidator"
    BY FirstMessage DEF RemoveValidator, Handling
  <2>2. QED
    BY <2>1 DEF Fields, Typed, WorldOK, Worlds
<1>2. /\ work' = [work EXCEPT !.registry = registry]
      /\ Answer(<<>>) \/ (CanDelegate(work.delegation[v], totals) /\ Answer(<<proxy, dispatch>>))
  BY <1>1 DEF RemoveValidator, Worlds
<1>3. work.delegation[v] \in Nat
  BY <1>1 DEF Worlds
<1>4. CanDelegate(work.delegation[v], totals) => redelegations \in Seq(Validators \X Nat)
  BY <1>1, <1>3, RedelegationsType
<1> HIDE DEF registry, redelegations, totals, v
<1>5. /\ work' \in Worlds /\ work'.batch = work.batch /\ work'.history = work.history
      /\ work'.tokens = work.tokens /\ work'.entries = work.entries /\ work'.state = work.state
      /\ work.tokens["hub"] \in Nat
  BY <1>1, <1>2 DEF Worlds, Holders
<1>6. WorldOK(work')
  BY <1>5, WorldKept
<1>7. Kept
  BY <1>5 DEF Kept
<1>8. <<>> \in Seq(Silent)
  OBVIOUS
<1>9. dispatch \in Silent
  BY DEF Silent, Owes, Messages, ToHub
<1>10. CanDelegate(work.delegation[v], totals) => proxy \in Silent
  BY <1>1, <1>4 DEF Silent, Owes, Messages, ToHub
<1> HIDE DEF proxy, dispatch
<1>11. CanDelegate(work.delegation[v], totals) => <<proxy, dispatch>> \in Seq(Silent)
  BY <1>9, <1>10
<1>12. QED
  BY <1>2, <1>6, <1>7, <1>8, <1>11

\* The chain pays out rewards, which are coins of the dispatcher.
LEMMA PaidOutType ==
  ASSUME NEW w \in Worlds, NEW S \in SUBSET Validators
  PROVE  \E coins \in [Accounts -> Nat], rewards \in [Validators -> Nat] :
           /\ PaidOut(w, S) = [w EXCEPT !.coins = coins, !.rewards = rewards]
           /\ \A a \in Accounts : w.coins[a] <= coins[a]
<1> DEFINE sum == SumOver(w.rewards, S)
           coins == [w.coins EXCEPT !["dispatcher"] = @ + sum]
           rewards == [v \in Validators |-> IF v \in S THEN 0 ELSE w.rewards[v]]
<1>1. \A v \in Validators : w.rewards[v] \in Nat
  BY DEF Worlds
<1>2. sum \in Nat
  BY <1>1, SumOverType, ProtocolAssumption
<1>3. w.coins \in [Accounts -> Nat] /\ "dispatcher" \in Accounts
  BY DEF Worlds, Accounts
<1>4. PaidOut(w, S) = [w EXCEPT !.coins = coins, !.rewards = rewards]
  BY DEF PaidOut, Worlds
<1>5. rewards \in [Validators -> Nat]
  BY <1>1
<1> HIDE DEF sum, rewards
<1>6. coins \in [Accounts -> Nat] /\ \A a \in Accounts : w.coins[a] <= coins[a]
  BY <1>2, <1>3
<1>7. QED
  BY <1>4, <1>5, <1>6

\* New coins, delegations and redelegations leave the rest as it is.
LEMMA StakeChange ==
  ASSUME Typed, NEW coins \in [Accounts -> Nat], NEW delegation \in [Validators -> Nat],
         NEW rewards \in [Validators -> Nat], NEW receiving \in SUBSET Validators,
         work' = [work EXCEPT !.coins = coins, !.delegation = delegation, !.rewards = rewards,
                              !.receiving = receiving]
  PROVE  WorldOK(work') /\ Kept
<1>1. work \in Worlds /\ work.tokens["hub"] \in Nat
  BY DEF Typed, WorldOK, Worlds, Holders
<1>2. /\ work' \in Worlds /\ work'.batch = work.batch /\ work'.history = work.history
      /\ work'.tokens = work.tokens /\ work'.entries = work.entries /\ work'.state = work.state
  BY <1>1 DEF Worlds
<1>3. QED
  BY <1>1, <1>2, WorldKept DEF Kept

\* Delegate of the staking module
LEMMA TypeDelegate ==
  ASSUME Typed, Delegate
  PROVE  WorldOK(work') /\ Kept /\ Answer(<<>>)
<1> DEFINE m == Message
           delegation == [work.delegation EXCEPT ![m.validator] = @ + m.amount]
<1>1. Fields(m) /\ m.type = "Delegate"
  BY FirstMessage DEF Delegate, Handling
<1>2. m.validator \in Validators /\ m.amount \in Nat
  BY <1>1 DEF Fields
<1>3. work \in Worlds
  BY DEF Typed, WorldOK
<1>4. PICK paid \in [Accounts -> Nat], rewards \in [Validators -> Nat] :
        /\ PaidOut(work, {m.validator}) = [work EXCEPT !.coins = paid, !.rewards = rewards]
        /\ \A a \in Accounts : work.coins[a] <= paid[a]
  BY <1>2, <1>3, PaidOutType
<1> DEFINE coins == [paid EXCEPT !["hub"] = @ - m.amount]
<1>5. /\ m.amount <= work.coins["hub"] /\ Answer(<<>>)
      /\ work' = [[work EXCEPT !.coins = paid, !.rewards = rewards] EXCEPT
                    !.coins["hub"] = @ - m.amount, !.delegation[m.validator] = @ + m.amount]
  BY <1>4 DEF Delegate
<1>6. coins \in [Accounts -> Nat]
  <2>1. "hub" \in Accounts /\ work.coins["hub"] \in Nat /\ paid["hub"] \in Nat
    BY <1>3 DEF Accounts, Worlds
  <2>2. paid["hub"] - m.amount \in Nat
    BY <1>2, <1>4, <1>5, <2>1
  <2>3. QED
    BY <2>1, <2>2
<1>7. delegation \in [Validators -> Nat]
  BY <1>2, <1>3 DEF Worlds
<1>8. work' = [work EXCEPT !.coins = coins, !.delegation = delegation, !.rewards = rewards,
                           !.receiving = work.receiving]
  BY <1>3, <1>5 DEF Worlds
<1>9. work.receiving \in SUBSET Validators
  BY <1>3 DEF Worlds
<1> HIDE DEF coins, delegation
<1>10. WorldOK(work') /\ Kept
  BY <1>4, <1>6, <1>7, <1>8, <1>9, StakeChange
<1>11. QED
  BY <1>5, <1>10

\* Redelegate of the staking module
LEMMA TypeRedelegate ==
  ASSUME Typed, Redelegate
  PROVE  WorldOK(work') /\ Kept /\ Answer(<<>>)
<1> DEFINE m == Message
           delegation == Moved(work.delegation, m.src, m.validator, m.amount)
           receiving == work.receiving \union {m.validator}
<1>1. Fields(m) /\ m.type = "Redelegate"
  BY FirstMessage DEF Redelegate, Handling
<1>2. m.src \in Validators /\ m.validator \in Validators /\ m.amount \in Nat
  BY <1>1 DEF Fields
<1>3. work \in Worlds
  BY DEF Typed, WorldOK
<1>4. {m.src, m.validator} \in SUBSET Validators
  BY <1>2
<1>5. PICK paid \in [Accounts -> Nat], rewards \in [Validators -> Nat] :
        /\ PaidOut(work, {m.src, m.validator}) = [work EXCEPT !.coins = paid, !.rewards = rewards]
        /\ \A a \in Accounts : work.coins[a] <= paid[a]
  BY <1>3, <1>4, PaidOutType
<1>6. /\ m.amount <= work.delegation[m.src] /\ Answer(<<>>)
      /\ work' = [[work EXCEPT !.coins = paid, !.rewards = rewards] EXCEPT
                    !.delegation = Moved(@, m.src, m.validator, m.amount),
                    !.receiving = @ \union {m.validator}]
  BY <1>5 DEF Redelegate
<1>7. delegation \in [Validators -> Nat]
  <2>1. work.delegation \in [Validators -> Nat]
    BY <1>3 DEF Worlds
  <2>2. QED
    BY <1>2, <1>6, <2>1, MovedType
<1>8. receiving \in SUBSET Validators
  BY <1>2, <1>3 DEF Worlds
<1>9. work' = [work EXCEPT !.coins = paid, !.delegation = delegation, !.rewards = rewards,
                           !.receiving = receiving]
  BY <1>3, <1>6 DEF Worlds
<1> HIDE DEF delegation, receiving
<1>10. WorldOK(work') /\ Kept
  BY <1>5, <1>7, <1>8, <1>9, StakeChange
<1>11. QED
  BY <1>6, <1>10

\* WithdrawDelegatorReward of the distribution module
LEMMA TypeWithdrawDelegatorReward ==
  ASSUME Typed, WithdrawDelegatorReward
  PROVE  WorldOK(work') /\ Kept /\ Answer(<<>>)
<1> DEFINE v == Message.validator
<1>1. v \in Validators /\ work \in Worlds
  BY FirstMessage DEF WithdrawDelegatorReward, Handling, Fields, Typed, WorldOK
<1>2. PICK paid \in [Accounts -> Nat], rewards \in [Validators -> Nat] :
        /\ PaidOut(work, {v}) = [work EXCEPT !.coins = paid, !.rewards = rewards]
        /\ \A a \in Accounts : work.coins[a] <= paid[a]
  BY <1>1, PaidOutType
<1>3. work' = PaidOut(work, {v}) /\ Answer(<<>>)
  BY DEF WithdrawDelegatorReward
<1>4. /\ work' = [work EXCEPT !.coins = paid, !.delegation = work.delegation,
                              !.rewards = rewards, !.receiving = work.receiving]
      /\ work.delegation \in [Validators -> Nat] /\ work.receiving \in SUBSET Validators
  BY <1>1, <1>2, <1>3 DEF Worlds
<1>5. WorldOK(work') /\ Kept
  BY <1>2, <1>4, StakeChange
<1>6. QED
  BY <1>3, <1>5

\* Send of the bank module
LEMMA TypeBankSend ==
  ASSUME Typed, BankSend
  PROVE  WorldOK(work') /\ Kept /\ Answer(<<>>)
<1> DEFINE m == Message
           coins == Moved(work.coins, m.sender, m.to, m.amount)
<1>1. Fields(m) /\ m.type = "BankSend" /\ work \in Worlds
  BY FirstMessage DEF BankSend, Handling, Typed, WorldOK
<1>2. m.sender \in Accounts /\ m.to \in Accounts /\ m.amount \in Nat
  BY <1>1 DEF Fields, Accounts
<1>3. m.amount <= work.coins[m.sender] /\ work' = [work EXCEPT !.coins = coins] /\ Answer(<<>>)
  BY <1>1 DEF BankSend, Worlds
<1>4. coins \in [Accounts -> Nat]
  <2>1. work.coins \in [Accounts -> Nat]
    BY <1>1 DEF Worlds
  <2>2. QED
    BY <1>2, <1>3, <2>1, MovedType
<1> HIDE DEF coins
<1>5. /\ work' = [work EXCEPT !.coins = coins, !.delegation = work.delegation,
                              !.rewards = work.rewards, !.receiving = work.receiving]
      /\ work.delegation \in [Validators -> Nat] /\ work.receiving \in SUBSET Validators
      /\ work.rewards \in [Validators -> Nat]
  BY <1>1, <1>3 DEF Worlds
<1>6. WorldOK(work') /\ Kept
  BY <1>4, <1>5, StakeChange
<1>7. QED
  BY <1>3, <1>6

\* Undelegate of the staking module: what is undelegated now is an entry of now.
LEMMA TypeUndelegate ==
  ASSUME Typed, Undelegate
  PROVE  /\ WorldOK(work') /\ Answer(<<>>)
         /\ work'.tokens = work.tokens /\ work'.state = work.state
         /\ Message.validator \in Validators
         /\ \E n \in Nat : work'.entries = [work.entries EXCEPT ![Message.validator][now] = n]
<1> DEFINE m == Message
           n == work.entries[m.validator][now] + m.amount
           delegation == [work.delegation EXCEPT ![m.validator] = @ - m.amount]
           entries == [work.entries EXCEPT ![m.validator][now] = n]
<1>1. Fields(m) /\ m.type = "Undelegate" /\ work \in Worlds /\ now \in 0..MaxTime
  BY FirstMessage DEF Undelegate, Handling, Typed, WorldOK
<1>2. m.validator \in Validators /\ m.amount \in Nat
  BY <1>1 DEF Fields
<1>3. PICK paid \in [Accounts -> Nat], rewards \in [Validators -> Nat] :
        /\ PaidOut(work, {m.validator}) = [work EXCEPT !.coins = paid, !.rewards = rewards]
        /\ \A a \in Accounts : work.coins[a] <= paid[a]
  <2> DEFINE S == {m.validator}
  <2>1. S \in SUBSET Validators
    BY <1>2
  <2> HIDE DEF S
  <2>2. \E paid \in [Accounts -> Nat], rewards \in [Validators -> Nat] :
          /\ PaidOut(work, S) = [work EXCEPT !.coins = paid, !.rewards = rewards]
          /\ \A a \in Accounts : work.coins[a] <= paid[a]
    BY <1>1, <2>1, PaidOutType
  <2>3. QED
    BY <2>2 DEF S
<1>4. /\ m.amount <= work.delegation[m.validator] /\ Answer(<<>>)
      /\ work' = [[work EXCEPT !.coins = paid, !.rewards = rewards] EXCEPT
                    !.delegation[m.validator] = @ - m.amount,
                    !.entries[m.validator][now] = @ + m.amount]
  BY <1>3 DEF Undelegate
<1>5. delegation \in [Validators -> Nat]
  <2>1. work.delegation \in [Validators -> Nat]
    BY <1>1 DEF Worlds
  <2>2. work.delegation[m.validator] - m.amount \in Nat
    BY <1>2, <1>4, <2>1
  <2>3. QED
    BY <1>2, <2>1, <2>2
<1>6. n \in Nat
  <2>1. work.entries \in [Validators -> [0..MaxTime -> Nat]]
    BY <1>1 DEF Worlds
  <2>2. work.entries[m.validator] \in [0..MaxTime -> Nat]
    BY <1>2, <2>1
  <2>3. work.entries[m.validator][now] \in Nat
    BY <1>1, <2>2
  <2>4. QED
    BY <1>2, <2>3
<1>7. entries \in [Validators -> [0..MaxTime -> Nat]]
  <2> DEFINE B == 0..MaxTime
             t == work.entries
  <2>1. t \in [Validators -> [B -> Nat]] /\ now \in B
    BY <1>1 DEF Worlds
  <2> HIDE DEF B, n, t
  <2>2. [t EXCEPT ![m.validator][now] = n] \in [Validators -> [B -> Nat]]
    BY <1>2, <1>6, <2>1
  <2>3. QED
    BY <2>2 DEF B, t
<1>8. work' = [work EXCEPT !.coins = paid, !.rewards = rewards, !.delegation = delegation,
                           !.entries = entries]
  BY <1>1, <1>4 DEF Worlds
<1> HIDE DEF entries, delegation, n
<1>9. /\ work' \in Worlds /\ work'.batch = work.batch /\ work'.history = work.history
      /\ work'.tokens = work.tokens /\ work'.entries = entries /\ work'.state = work.state
  BY <1>1, <1>3, <1>5, <1>7, <1>8 DEF Worlds
<1>10. WorldOK(work')
  BY <1>9, WorldKept
<1>11. QED
  BY <1>2, <1>4, <1>6, <1>9, <1>10 DEF entries

-----------------------------------------------------------------------------
(***************************************************************************)
(* Types: between the transactions.                                        *)
(***************************************************************************)
\* What happens between transactions happens to what is committed.
LEMMA HappensType ==
  ASSUME Typed, NEW w, w \in Worlds, w.batch = work.batch, w.history = work.history, Happens(w)
  PROVE  WorldOK(work') /\ WorldOK(committed') /\ work' = w /\ committed' = w
         /\ queue' = queue /\ queue = <<>> /\ work = committed
<1>1. work' = w /\ committed' = w /\ queue' = queue /\ Idle
  BY DEF Happens
<1>2. WorldOK(w)
  BY DEF Typed, WorldOK, Numbered
<1>3. QED
  BY <1>1, <1>2 DEF Idle

\* At the end of a block what has matured is paid out.
Matured == {t \in 0..MaxTime : t + ChainUnbonding <= now}

LEMMA TypeEndBlock ==
  ASSUME Typed, EndBlock
  PROVE  /\ WorldOK(work') /\ committed' = work' /\ queue' = queue /\ work = committed
         /\ queue = <<>>
         /\ now' \in {now + gap : gap \in BlockGaps} /\ now' \in 0..MaxTime
         /\ work'.tokens = work.tokens /\ work'.state = work.state
         /\ \A v \in Validators, t \in 0..MaxTime :
              work'.entries[v][t] = IF t + ChainUnbonding <= now THEN 0 ELSE work.entries[v][t]
<1> DEFINE paid == [v \in Validators |-> SumOver(work.entries[v], Matured)]
           sum == SumOver(paid, Validators)
           coins == [work.coins EXCEPT !["hub"] = @ + sum]
           left == [v \in Validators |-> [t \in 0..MaxTime |->
                      IF t \in Matured THEN 0 ELSE work.entries[v][t]]]
           w == [work EXCEPT !.coins = coins, !.entries = left]
<1>1. work \in Worlds /\ now \in 0..MaxTime /\ MaxTime \in Nat
  BY ProtocolAssumption DEF Typed, WorldOK
<1>2. sum \in Nat
  <2>1. IsFiniteSet(0..MaxTime)
    BY <1>1, FS_Interval
  <2>2. Matured \in SUBSET (0..MaxTime)
    BY DEF Matured
  <2>3. ASSUME NEW v \in Validators
        PROVE  SumOver(work.entries[v], Matured) \in Nat
    <3>1. \A t \in 0..MaxTime : work.entries[v][t] \in Nat
      BY <1>1 DEF Worlds
    <3>2. QED
      BY <2>1, <2>2, <3>1, SumOverType
  <2>4. \A v \in Validators : paid[v] \in Nat
    BY <2>3
  <2> HIDE DEF paid
  <2>5. QED
    BY <2>4, SumOverType, ProtocolAssumption
<1>3. Happens(w)
  <2>1. Happens([work EXCEPT !.coins["hub"] = @ + sum,
                   !.entries = [v \in Validators |-> [t \in 0..MaxTime |->
                                  IF t \in Matured THEN 0 ELSE @[v][t]]]])
    BY DEF EndBlock, Matured
  <2> HIDE DEF sum
  <2>2. [work EXCEPT !.coins["hub"] = @ + sum,
                   !.entries = [v \in Validators |-> [t \in 0..MaxTime |->
                                  IF t \in Matured THEN 0 ELSE @[v][t]]]] = w
    BY <1>1 DEF Worlds
  <2>3. QED
    BY <2>1, <2>2
<1> HIDE DEF sum
<1>4. coins \in [Accounts -> Nat]
  BY <1>1, <1>2 DEF Worlds, Accounts
<1>5. left \in [Validators -> [0..MaxTime -> Nat]]
  BY <1>1 DEF Worlds
<1> HIDE DEF coins, left
<1>6. w \in Worlds /\ w.batch = work.batch /\ w.history = work.history
        /\ w.tokens = work.tokens /\ w.entries = left /\ w.state = work.state
  BY <1>1, <1>4, <1>5 DEF Worlds
<1> HIDE DEF w
<1>7. /\ WorldOK(work') /\ work' = w /\ committed' = w /\ queue' = queue /\ queue = <<>>
      /\ work = committed
  BY <1>3, <1>6, HappensType
<1>8. now' \in {now + gap : gap \in BlockGaps} /\ now' \in 0..MaxTime
  <2>1. PICK gap \in BlockGaps : now' = now + gap
    BY DEF EndBlock
  <2>2. gap \in Nat /\ now' <= MaxTime
    BY ProtocolAssumption DEF EndBlock
  <2>3. QED
    BY <1>1, <2>1, <2>2
<1>9. ASSUME NEW v \in Validators, NEW t \in 0..MaxTime
      PROVE  left[v][t] = IF t + ChainUnbonding <= now THEN 0 ELSE work.entries[v][t]
  BY DEF left, Matured
<1>10. QED
  BY <1>1, <1>6, <1>7, <1>8, <1>9

\* Slashes, rewards and redelegations that complete change no time of an entry.
LEMMA TypeChainElse ==
  ASSUME Typed, ChainStep, ~EndBlock
  PROVE  /\ WorldOK(work') /\ committed' = work' /\ queue' = queue /\ work = committed
         /\ queue = <<>>
         /\ now' = now
         /\ work'.tokens = work.tokens /\ work'.state = work.state
         /\ \A v \in Validators, t \in 0..MaxTime :
              work'.entries[v][t] > 0 => work.entries[v][t] > 0
<1>1. work \in Worlds
  BY DEF Typed, WorldOK
<1>2. ASSUME NEW v \in Validators, NEW loss \in Losses, SlashStake(v, loss)
      PROVE  \E w \in Worlds : /\ Happens(w) /\ now' = now
                               /\ w.batch = work.batch /\ w.history = work.history
                               /\ w.tokens = work.tokens /\ w.state = work.state
                               /\ w.entries = work.entries
  <2> DEFINE delegation == [work.delegation EXCEPT ![v] = @ - loss]
             w == [work EXCEPT !.delegation = delegation]
  <2>1. loss \in Nat /\ loss < work.delegation[v] /\ work.delegation[v] \in Nat
          /\ work.delegation \in [Validators -> Nat]
    BY <1>1, <1>2, ProtocolAssumption DEF Worlds, SlashStake
  <2>2. delegation \in [Validators -> Nat]
    <3>1. work.delegation[v] - loss \in Nat
      BY <2>1
    <3>2. QED
      BY <2>1, <3>1
  <2>3. Happens(w) /\ now' = now
    BY <1>1, <1>2 DEF SlashStake, Worlds
  <2> HIDE DEF delegation
  <2>4. w \in Worlds /\ w.batch = work.batch /\ w.history = work.history
          /\ w.tokens = work.tokens /\ w.state = work.state /\ w.entries = work.entries
    BY <1>1, <2>2 DEF Worlds
  <2>5. QED
    BY <2>3, <2>4
<1>3. ASSUME NEW v \in Validators, NEW t \in 0..MaxTime, NEW loss \in Losses,
             SlashEntry(v, t, loss)
      PROVE  \E w \in Worlds : /\ Happens(w) /\ now' = now
                               /\ w.batch = work.batch /\ w.history = work.history
                               /\ w.tokens = work.tokens /\ w.state = work.state
                               /\ \A u \in Validators, s \in 0..MaxTime :
                                    w.entries[u][s] > 0 => work.entries[u][s] > 0
  <2> DEFINE n == work.entries[v][t] - loss
             entries == [work.entries EXCEPT ![v][t] = n]
             w == [work EXCEPT !.entries = entries]
  <2>1. loss \in Nat /\ loss < work.entries[v][t] /\ work.entries[v][t] \in Nat
    BY <1>1, <1>3, ProtocolAssumption DEF Worlds, SlashEntry
  <2>2. n \in Nat
    BY <2>1
  <2>3. Happens(w) /\ now' = now
    BY <1>1, <1>3 DEF SlashEntry, Worlds
  <2> HIDE DEF n
  <2>4. /\ entries \in [Validators -> [0..MaxTime -> Nat]]
        /\ \A u \in Validators, s \in 0..MaxTime :
             entries[u][s] > 0 => work.entries[u][s] > 0
    <3> DEFINE B == 0..MaxTime
               table == work.entries
    <3>1. table \in [Validators -> [B -> Nat]] /\ t \in B
      BY <1>1 DEF Worlds
    <3>2. table[v][t] > 0
      BY <2>1
    <3> HIDE DEF B, table
    <3>3. /\ [table EXCEPT ![v][t] = n] \in [Validators -> [B -> Nat]]
          /\ \A u \in Validators, s \in B :
               [table EXCEPT ![v][t] = n][u][s] > 0 => table[u][s] > 0
      BY <2>2, <3>1, <3>2
    <3>4. QED
      BY <3>3 DEF B, table
  <2> HIDE DEF entries
  <2>5. w \in Worlds /\ w.batch = work.batch /\ w.history = work.history
          /\ w.tokens = work.tokens /\ w.state = work.state /\ w.entries = entries
    BY <1>1, <2>4 DEF Worlds
  <2>6. QED
    BY <2>3, <2>4, <2>5
<1>4. ASSUME NEW v \in Validators, Reward(v, 1)
      PROVE  \E w \in Worlds : /\ Happens(w) /\ now' = now
                               /\ w.batch = work.batch /\ w.history = work.history
                               /\ w.tokens = work.tokens /\ w.state = work.state
                               /\ w.entries = work.entries
  <2> DEFINE rewards == [work.rewards EXCEPT ![v] = @ + 1]
             w == [work EXCEPT !.rewards = rewards]
  <2>1. rewards \in [Validators -> Nat]
    BY <1>1 DEF Worlds
  <2>2. Happens(w) /\ now' = now
    BY <1>1, <1>4 DEF Reward, Worlds
  <2> HIDE DEF rewards
  <2>3. w \in Worlds /\ w.batch = work.batch /\ w.history = work.history
          /\ w.tokens = work.tokens /\ w.state = work.state /\ w.entries = work.entries
    BY <1>1, <2>1 DEF Worlds
  <2>4. QED
    BY <2>2, <2>3
<1>5. ASSUME NEW v \in Validators, RedelegationCompletes(v)
      PROVE  \E w \in Worlds : /\ Happens(w) /\ now' = now
                               /\ w.batch = work.batch /\ w.history = work.history
                               /\ w.tokens = work.tokens /\ w.state = work.state
                               /\ w.entries = work.entries
  <2> DEFINE receiving == work.receiving \ {v}
             w == [work EXCEPT !.receiving = receiving]
  <2>1. receiving \in SUBSET Validators
    BY <1>1 DEF Worlds
  <2>2. Happens(w) /\ now' = now
    BY <1>1, <1>5 DEF RedelegationCompletes, Worlds
  <2> HIDE DEF receiving
  <2>3. w \in Worlds /\ w.batch = work.batch /\ w.history = work.history
          /\ w.tokens = work.tokens /\ w.state = work.state /\ w.entries = work.entries
    BY <1>1, <2>1 DEF Worlds
  <2>4. QED
    BY <2>2, <2>3
<1>6. PICK w \in Worlds : /\ Happens(w) /\ now' = now
                          /\ w.batch = work.batch /\ w.history = work.history
                          /\ w.tokens = work.tokens /\ w.state = work.state
                          /\ \A u \in Validators, s \in 0..MaxTime :
                               w.entries[u][s] > 0 => work.entries[u][s] > 0
  BY <1>2, <1>3, <1>4, <1>5 DEF ChainStep
<1>7. QED
  BY <1>6, HappensType

-----------------------------------------------------------------------------
(***************************************************************************)
(* The steps.                                                              *)
(***************************************************************************)
\* Most handlers leave alone what Kept says, and answer with silent messages.
Quiet ==
  /\ queue # <<>>
  /\ WorldOK(work')
  /\ Kept
  /\ \E ms \in Seq(Silent) : Answer(ms)

LEMMA StepCases ==
  ASSUME Typed, Next
  PROVE  \/ \E message \in Signed : Submit(message)
         \/ Quiet \/ ReceiveUnbond \/ Send \/ Burn \/ Undelegate
         \/ Commit \/ Abort \/ EndBlock \/ (ChainStep /\ ~EndBlock)
<1>1. <<>> \in Seq(Silent)
  OBVIOUS
<1>2. CASE HubHandler
  <2>1. WithdrawAllRewards => Quiet
    <3>1. WithdrawAllRewards => Answer(WithdrawAndDispatch) /\ UNCHANGED work /\ queue # <<>>
      BY DEF WithdrawAllRewards, Handling
    <3>2. QED
      BY <3>1, TypeUnchanged, TypeWithdrawAndDispatch DEF Quiet
  <2>2. Bond => Quiet
    <3>1. Bond => queue # <<>>
      BY DEF Bond, Handling
    <3>2. QED
      BY <3>1, TypeBond DEF Quiet
  <2>3. WithdrawUnbonded => Quiet
    <3>1. WithdrawUnbonded => queue # <<>>
      BY DEF WithdrawUnbonded, Handling
    <3>2. QED
      BY <3>1, TypeWithdrawUnbonded DEF Quiet
  <2>4. CheckSlashing => Quiet
    <3>1. CheckSlashing => queue # <<>>
      BY DEF CheckSlashing, Handling
    <3>2. QED
      BY <3>1, TypeCheckSlashing DEF Quiet
  <2>5. RedelegateProxy => Quiet
    <3>1. RedelegateProxy => queue # <<>>
      BY DEF RedelegateProxy, Handling
    <3>2. QED
      BY <3>1, TypeRedelegateProxy DEF Quiet
  <2>6. SetPaused => Quiet
    <3>1. SetPaused => queue # <<>>
      BY DEF SetPaused, Handling
    <3>2. QED
      BY <3>1, TypeSetPaused DEF Quiet
  <2>7. QED
    BY <1>2, <2>1, <2>2, <2>3, <2>4, <2>5, <2>6 DEF HubHandler
<1>3. CASE TokenHandler
  <2>1. Mint => Quiet
    <3>1. Mint => queue # <<>>
      BY DEF Mint, TokenOpen, Handling
    <3>2. QED
      BY <3>1, TypeMint DEF Quiet
  <2>2. IncreaseAllowance \/ DecreaseAllowance => Quiet
    <3>1. IncreaseAllowance \/ DecreaseAllowance => queue # <<>>
      BY DEF IncreaseAllowance, DecreaseAllowance, TokenOpen, Handling
    <3>2. QED
      BY <3>1, TypeAllowance DEF Quiet
  <2>3. Transfer => Quiet
    <3>1. Transfer => queue # <<>>
      BY DEF Transfer, TokenOpen, Handling
    <3>2. QED
      BY <3>1, TypeTransfer DEF Quiet
  <2>4. QED
    BY <1>3, <2>1, <2>2, <2>3 DEF TokenHandler
<1>4. CASE DispatchRewards
  <2>1. queue # <<>>
    BY <1>4 DEF DispatchRewards, Handling
  <2>2. QED
    BY <1>4, <2>1, TypeDispatchRewards DEF Quiet
<1>5. CASE AddValidator
  <2>1. queue # <<>>
    BY <1>5 DEF AddValidator, Handling
  <2>2. QED
    BY <1>5, <2>1, TypeAddValidator DEF Quiet
<1>6. CASE RemoveValidator
  <2>1. queue # <<>>
    BY <1>6 DEF RemoveValidator, Handling
  <2>2. QED
    BY <1>6, <2>1, TypeRemoveValidator DEF Quiet
<1>7. CASE ChainHandler
  <2>1. Delegate \/ Redelegate \/ WithdrawDelegatorReward \/ BankSend => queue # <<>>
    BY DEF Delegate, Redelegate, WithdrawDelegatorReward, BankSend, Handling
  <2>2. Delegate => Quiet
    BY <1>1, <2>1, TypeDelegate DEF Quiet
  <2>3. Redelegate => Quiet
    BY <1>1, <2>1, TypeRedelegate DEF Quiet
  <2>4. WithdrawDelegatorReward => Quiet
    BY <1>1, <2>1, TypeWithdrawDelegatorReward DEF Quiet
  <2>5. BankSend => Quiet
    BY <1>1, <2>1, TypeBankSend DEF Quiet
  <2>6. QED
    BY <1>7, <2>2, <2>3, <2>4, <2>5 DEF ChainHandler
<1>8. QED
  BY <1>2, <1>3, <1>4, <1>5, <1>6, <1>7 DEF Next

\* The elements of two sequences, one after the other.
LEMMA ConcatElements ==
  ASSUME NEW S, NEW a \in Seq(S), NEW b \in Seq(S)
  PROVE  /\ Len(a \o b) = Len(a) + Len(b)
         /\ \A i \in 1..(Len(a) + Len(b)) :
              (a \o b)[i] = IF i <= Len(a) THEN a[i] ELSE b[i - Len(a)]
  OBVIOUS

\* Where the messages of the queue come from: a handler's answer, and what was
\* waiting behind the message that is handled.
LEMMA AnswerElements ==
  ASSUME Typed, queue # <<>>, NEW ms \in Seq(Messages), Answer(ms)
  PROVE  /\ Len(queue') = Len(ms) + Len(queue) - 1
         /\ Len(queue) \in Nat \ {0} /\ Len(ms) \in Nat
         /\ \A i \in 1..Len(queue') :
              IF i <= Len(ms) THEN queue'[i] = ms[i]
              ELSE queue'[i] = queue[i - Len(ms) + 1]
<1>1. queue \in Seq(Messages) /\ Len(queue) \in Nat \ {0} /\ Len(ms) \in Nat
  BY DEF Typed
<1> DEFINE rest == Tail(queue)
<1>2. /\ rest \in Seq(Messages) /\ Len(rest) = Len(queue) - 1
      /\ \A i \in 1..Len(rest) : rest[i] = queue[i + 1]
  BY <1>1
<1>3. queue' = ms \o rest
  BY DEF Answer
<1> HIDE DEF rest
<1>4. /\ Len(ms \o rest) = Len(ms) + Len(rest)
      /\ \A i \in 1..Len(ms \o rest) :
           (ms \o rest)[i] = IF i <= Len(ms) THEN ms[i] ELSE rest[i - Len(ms)]
  BY <1>2, ConcatElements
<1>5. ASSUME NEW i \in 1..Len(queue'), ~(i <= Len(ms))
      PROVE  queue'[i] = queue[i - Len(ms) + 1]
  <2>1. i - Len(ms) \in 1..Len(rest)
    BY <1>1, <1>2, <1>3, <1>4, <1>5
  <2>2. QED
    BY <1>2, <1>3, <1>4, <1>5, <2>1
<1>6. QED
  BY <1>1, <1>2, <1>3, <1>4, <1>5

-----------------------------------------------------------------------------
(***************************************************************************)
(* Storage, coins and messages have their types.                           *)
(***************************************************************************)
LEMMA SilentMessages ==
  Silent \subseteq Messages
  BY DEF Silent

LEMMA UndelegateThenBurn ==
  ASSUME NEW us \in Seq(ToUndelegate), NEW amount \in Nat
  PROVE  us \o <<BurnOfHub(amount)>> \in Seq(Messages) /\ <<BurnOfHub(amount)>> \in Seq(Messages)
<1>1. ToUndelegate \subseteq Messages
  BY DEF ToUndelegate, Messages, ToChain
<1>2. BurnOfHub(amount) \in Messages
  BY DEF BurnOfHub, Messages, ToToken, Holders
<1>3. us \in Seq(Messages) /\ <<BurnOfHub(amount)>> \in Seq(Messages)
  BY <1>1, <1>2, SeqMonotone, SeqSingle
<1>4. QED
  BY <1>3

LEMMA ReceiveMessage ==
  ASSUME NEW u \in Users, NEW amount \in Nat
  PROVE  <<ReceiveFromToken(u, amount)>> \in Seq(Messages)
<1>1. ReceiveFromToken(u, amount) \in Messages
  BY DEF ReceiveFromToken, Messages, ToHub
<1>2. QED
  BY <1>1, SeqSingle

LEMMA TypedStep ==
  ASSUME Typed, [Next]_vars
  PROVE  Typed'
<1>1. CASE UNCHANGED vars
  BY <1>1 DEF vars, Typed, WorldOK, Numbered
<1>2. CASE \E message \in Signed : Submit(message)
  <2>1. PICK message \in Signed : Submit(message)
    BY <1>2
  <2>2. <<message>> \in Seq(Messages)
    BY SignedMessages, SeqSingle
  <2>3. QED
    BY <2>1, <2>2 DEF Submit, Typed, WorldOK, Numbered
<1>3. ASSUME NEW ms \in Seq(Messages), queue # <<>>, Answer(ms), WorldOK(work')
      PROVE  Typed'
  <2>1. queue' \in Seq(Messages) /\ UNCHANGED <<now, committed>>
    BY <1>3, Answered
  <2>2. QED
    BY <1>3, <2>1 DEF Typed
<1>4. CASE Quiet
  <2>1. PICK ms \in Seq(Silent) : Answer(ms)
    BY <1>4 DEF Quiet
  <2>2. ms \in Seq(Messages)
    BY SilentMessages, SeqMonotone
  <2>3. QED
    BY <1>3, <1>4, <2>1, <2>2 DEF Quiet
<1>5. CASE ReceiveUnbond
  <2>1. queue # <<>>
    BY <1>5 DEF ReceiveUnbond, Handling
  <2>2. WorldOK(work') /\ Message.amount \in Nat
    BY <1>5, TypeReceive
  <2>3. CASE Answer(<<BurnOfHub(Message.amount)>>)
    <3>1. <<BurnOfHub(Message.amount)>> \in Seq(Messages)
      <4>1. <<>> \in Seq(ToUndelegate)
        OBVIOUS
      <4>2. QED
        BY <2>2, <4>1, UndelegateThenBurn
    <3>2. QED
      BY <1>3, <2>1, <2>2, <2>3, <3>1
  <2>4. CASE \E us \in Seq(ToUndelegate) : Answer(us \o <<BurnOfHub(Message.amount)>>)
    <3>1. PICK us \in Seq(ToUndelegate) : Answer(us \o <<BurnOfHub(Message.amount)>>)
      BY <2>4
    <3>2. us \o <<BurnOfHub(Message.amount)>> \in Seq(Messages)
      BY <2>2, UndelegateThenBurn
    <3>3. QED
      BY <1>3, <2>1, <2>2, <3>1, <3>2
  <2>5. QED
    BY <1>5, <2>3, <2>4, TypeReceive
<1>6. CASE Send
  <2>1. queue # <<>>
    BY <1>6 DEF Send, TokenOpen, Handling
  <2>2. WorldOK(work') /\ \E ms \in Seq(Messages) : Answer(ms)
    BY <1>6, TypeSend, ReceiveMessage
  <2>3. QED
    BY <1>3, <2>1, <2>2
<1>7. CASE Burn
  <2>1. queue # <<>>
    BY <1>7 DEF Burn, TokenOpen, Handling
  <2>2. WorldOK(work') /\ \E ms \in Seq(Silent) : Answer(ms)
    BY <1>7, TypeBurn
  <2>3. \A ms \in Seq(Silent) : ms \in Seq(Messages)
    BY SilentMessages, SeqMonotone
  <2>4. QED
    BY <1>3, <2>1, <2>2, <2>3
<1>8. CASE Undelegate
  <2>1. queue # <<>>
    BY <1>8 DEF Undelegate, Handling
  <2>2. WorldOK(work') /\ Answer(<<>>)
    BY <1>8, TypeUndelegate
  <2>3. <<>> \in Seq(Messages)
    OBVIOUS
  <2>4. QED
    BY <1>3, <2>1, <2>2, <2>3
<1>9. CASE Commit
  BY <1>9 DEF Commit, Typed
<1>10. CASE Abort
  <2>1. <<>> \in Seq(Messages)
    OBVIOUS
  <2>2. QED
    BY <1>10, <2>1 DEF Abort, Typed
<1>11. CASE EndBlock
  BY <1>11, TypeEndBlock DEF Typed
<1>12. CASE ChainStep /\ ~EndBlock
  BY <1>12, TypeChainElse DEF Typed
<1>13. QED
  BY <1>1, <1>2, <1>4, <1>5, <1>6, <1>7, <1>8, <1>9, <1>10, <1>11, <1>12, StepCases

LEMMA TypedInit ==
  ASSUME Init
  PROVE  Typed
<1>1. /\ {EpochPeriod, UnbondingPeriod, Wealth, MaxTime, MaxBatch} \subseteq Nat
      /\ DECIMAL_FRACTIONAL \in Nat
  BY ProtocolAssumption, ScaleAssumption
<1>2. now \in 0..MaxTime /\ queue \in Seq(Messages)
  BY <1>1 DEF Init
<1>3. committed \in Worlds
  <2>1. /\ [epoch_period |-> EpochPeriod, unbonding_period |-> UnbondingPeriod,
            paused |-> FALSE] \in HW!Parameters
        /\ [id |-> 1, requested_statom |-> 0] \in HW!CurrentBatch
        /\ <<>> \in Seq(HW!UnbondHistory)
    BY DEF HW!Parameters, HW!CurrentBatch
  <2>2. [statom_exchange_rate |-> One, total_bond_statom_amount |-> 0,
         prev_hub_balance |-> 0, last_unbonded_time |-> 0,
         last_processed_batch |-> 0] \in HW!State
    BY <1>1 DEF HW!State, One
  <2>3. /\ [u \in Users |-> [b \in 1..MaxBatch |-> 0]] \in [Users -> [1..MaxBatch -> Nat]]
        /\ [a \in Holders |-> 0] \in [Holders -> Nat]
        /\ [u \in Users |-> [s \in Users |-> 0]] \in [Users -> [Users -> Nat]]
        /\ [a \in Accounts |-> IF a \in Users THEN Wealth ELSE 0] \in [Accounts -> Nat]
        /\ [v \in Validators |-> 0] \in [Validators -> Nat]
        /\ [v \in Validators |-> [t \in 0..MaxTime |-> 0]] \in [Validators -> [0..MaxTime -> Nat]]
    BY <1>1
  <2>4. QED
    BY <2>1, <2>2, <2>3 DEF Init, Worlds
<1>4. Numbered(committed)
  <2>1. committed.batch.id = 1 /\ committed.history = <<>>
    BY DEF Init
  <2>2. QED
    BY <1>1, <2>1 DEF Numbered
<1>5. QED
  BY <1>2, <1>3, <1>4 DEF Init, Typed, WorldOK

LEMMA TypedAlways ==
  Spec => []Typed
  BY TypedInit, TypedStep, PTL DEF Spec

\* What the transactions work on and what they leave behind has the types the
\* contracts and the chain give it, whatever is signed and wherever a
\* transaction is cut off.
THEOREM TypeCorrect ==
  Spec => []TypeOK
<1>1. /\ HW!Parameters = H!Parameters /\ HW!State = H!State
      /\ HW!CurrentBatch = H!CurrentBatch /\ HW!UnbondHistory = H!UnbondHistory
  BY DEF HW!Parameters, H!Parameters, HW!State, H!State, HW!CurrentBatch, H!CurrentBatch,
     HW!UnbondHistory, H!UnbondHistory
<1>2. Typed => TypeOK
  BY <1>1 DEF Typed, WorldOK, Worlds, TypeOK
<1>3. QED
  BY <1>2, TypedAlways, PTL

-----------------------------------------------------------------------------
(***************************************************************************)
(* The hub burns what was sent to it, and nothing else.                    *)
(***************************************************************************)
\* What the hub will burn is announced by the last message there is, and came
\* to the hub in the transaction: tokens are sent by its only message.
Announced ==
  /\ \A i \in 1..Len(queue) :
       /\ Owes(queue[i]) => i = Len(queue)
       /\ queue[i].type \in {"Send", "SendFrom"} => Len(queue) = 1
       /\ Owes(queue[i]) =>
            committed.tokens["hub"] + queue[i].amount <= work.tokens["hub"]
  /\ committed.tokens["hub"] <= work.tokens["hub"]

\* Tokens are amounts.
LEMMA HubTokensType ==
  ASSUME Typed
  PROVE  work.tokens["hub"] \in Nat /\ committed.tokens["hub"] \in Nat
  BY DEF Typed, WorldOK, Worlds, Holders

\* A step that answers with one message and nothing waiting.
LEMMA AnnouncedBySilent ==
  ASSUME Typed, Announced, queue # <<>>, NEW ms \in Seq(Silent), Answer(ms),
         WorldOK(work'),
         \/ work'.tokens["hub"] >= work.tokens["hub"]
         \/ /\ Owes(Message) /\ Message.amount \in Nat
            /\ work'.tokens["hub"] = work.tokens["hub"] - Message.amount
  PROVE  Announced'
<1>1. ms \in Seq(Messages) /\ \A i \in 1..Len(ms) : ms[i] \in Silent
  BY SilentMessages, SeqMonotone
<1>2. /\ Len(queue') = Len(ms) + Len(queue) - 1
      /\ Len(queue) \in Nat \ {0} /\ Len(ms) \in Nat
      /\ \A i \in 1..Len(queue') :
           IF i <= Len(ms) THEN queue'[i] = ms[i]
           ELSE queue'[i] = queue[i - Len(ms) + 1]
  BY <1>1, AnswerElements
<1>3. Message = queue[1] /\ committed' = committed
  BY DEF Message, Typed, Answer
<1>4. /\ work.tokens["hub"] \in Nat /\ committed.tokens["hub"] \in Nat
      /\ work'.tokens["hub"] \in Nat
  BY HubTokensType DEF WorldOK, Worlds, Holders
<1>5. Owes(Message) => Len(queue) = 1
  <2>1. 1 \in 1..Len(queue)
    BY <1>2
  <2>2. Owes(queue[1]) => 1 = Len(queue)
    BY <2>1 DEF Announced
  <2>3. QED
    BY <1>3, <2>2
<1>6. ASSUME NEW i \in 1..Len(queue')
      PROVE  /\ queue'[i].type \notin {"Send", "SendFrom"}
             /\ Owes(queue'[i]) =>
                  /\ ~Owes(Message)
                  /\ i > Len(ms)
                  /\ i = Len(queue')
                  /\ committed.tokens["hub"] + queue'[i].amount <= work.tokens["hub"]
  <2>1. CASE i <= Len(ms)
    <3>1. queue'[i] = ms[i] /\ ms[i] \in Silent
      BY <1>1, <1>2, <2>1
    <3>2. QED
      BY <3>1 DEF Silent
  <2>2. CASE ~(i <= Len(ms))
    <3> DEFINE j == i - Len(ms) + 1
    <3>1. j \in 2..Len(queue) /\ queue'[i] = queue[j] /\ (j = Len(queue) <=> i = Len(queue'))
      <4>1. queue'[i] = queue[j]
        BY <1>2, <2>2
      <4>2. j \in 2..Len(queue) /\ (j = Len(queue) <=> i = Len(queue'))
        <5> DEFINE a == Len(ms)
                   b == Len(queue)
                   c == Len(queue')
        <5>1. a \in Nat /\ b \in Nat \ {0} /\ c = a + b - 1 /\ i \in 1..c /\ ~(i <= a)
          BY <1>2, <2>2
        <5> HIDE DEF a, b, c
        <5>2. i - a + 1 \in 2..b /\ (i - a + 1 = b <=> i = c)
          BY ONLY <5>1
        <5>3. QED
          BY <5>2 DEF a, b, c
      <4>3. QED
        BY <4>1, <4>2
    <3> HIDE DEF j
    <3>2. j \in 1..Len(queue) /\ Len(queue) # 1
      BY <1>2, <3>1
    <3>3. /\ queue[j].type \notin {"Send", "SendFrom"}
          /\ Owes(queue[j]) =>
               j = Len(queue) /\ committed.tokens["hub"] + queue[j].amount <= work.tokens["hub"]
      BY <3>2 DEF Announced
    <3>4. QED
      BY <1>2, <1>5, <2>2, <3>1, <3>2, <3>3
  <2>3. QED
    BY <2>1, <2>2
<1>7. committed.tokens["hub"] <= work'.tokens["hub"]
  <2>1. CASE Owes(Message)
    <3>1. committed.tokens["hub"] + queue[1].amount <= work.tokens["hub"]
      BY <1>2, <1>3, <2>1 DEF Announced
    <3>2. committed.tokens["hub"] <= work.tokens["hub"]
      BY DEF Announced
    <3>3. QED
      BY <1>3, <1>4, <3>1, <3>2
  <2>2. CASE ~Owes(Message)
    <3>1. committed.tokens["hub"] <= work.tokens["hub"]
      BY DEF Announced
    <3>2. QED
      BY <1>4, <2>2, <3>1
  <2>3. QED
    BY <2>1, <2>2
<1>8. ASSUME NEW i \in 1..Len(queue'), Owes(queue'[i])
      PROVE  committed.tokens["hub"] + queue'[i].amount <= work'.tokens["hub"]
  <2>1. ~Owes(Message) /\ committed.tokens["hub"] + queue'[i].amount <= work.tokens["hub"]
    BY <1>6, <1>8
  <2>2. queue'[i].amount \in Nat
    <3>1. queue' \in Seq(Messages)
      BY <1>1, Answered
    <3>2. Fields(queue'[i])
      BY <3>1, MessageFields
    <3>3. QED
      BY <1>8, <3>2 DEF Owes, Fields
  <2>3. QED
    BY <1>4, <2>1, <2>2
<1>9. \A i \in 1..Len(queue') :
        /\ Owes(queue'[i]) => i = Len(queue')
        /\ queue'[i].type \in {"Send", "SendFrom"} => Len(queue') = 1
        /\ Owes(queue'[i]) => committed'.tokens["hub"] + queue'[i].amount <= work'.tokens["hub"]
  BY <1>3, <1>6, <1>8
<1>10. QED
  BY <1>3, <1>7, <1>9 DEF Announced, Owes

\* An answer that announces a burn, when nothing was waiting.
LEMMA AnnouncedAtLast ==
  ASSUME Typed, Announced, queue # <<>>, Len(queue) = 1,
         NEW us \in Seq(ToUndelegate), NEW last \in Messages,
         last.type \notin {"Send", "SendFrom"}, Answer(us \o <<last>>), WorldOK(work'),
         last.amount \in Nat,
         committed.tokens["hub"] + last.amount <= work'.tokens["hub"]
  PROVE  Announced'
<1> DEFINE ms == us \o <<last>>
<1>1. us \in Seq(Messages) /\ <<last>> \in Seq(Messages) /\ ms \in Seq(Messages)
  <2>1. ToUndelegate \subseteq Messages
    BY DEF ToUndelegate, Messages, ToChain
  <2>2. us \in Seq(Messages) /\ <<last>> \in Seq(Messages)
    BY <2>1, SeqMonotone, SeqSingle
  <2>3. QED
    BY <2>2
<1>2. /\ Len(ms) = Len(us) + 1 /\ Len(us) \in Nat
      /\ \A i \in 1..Len(ms) : ms[i] = IF i <= Len(us) THEN us[i] ELSE last
  <2>1. Len(<<last>>) = 1 /\ <<last>>[1] = last /\ Len(us) \in Nat
    BY <1>1
  <2>2. /\ Len(ms) = Len(us) + Len(<<last>>)
        /\ \A i \in 1..(Len(us) + Len(<<last>>)) :
             ms[i] = IF i <= Len(us) THEN us[i] ELSE <<last>>[i - Len(us)]
    BY <1>1, ConcatElements
  <2>3. QED
    BY <2>1, <2>2
<1>3. Answer(ms)
  OBVIOUS
<1> HIDE DEF ms
<1>4. /\ Len(queue') = Len(ms)
      /\ \A i \in 1..Len(queue') : queue'[i] = ms[i]
  <2>1. /\ Len(queue') = Len(ms) + Len(queue) - 1 /\ Len(ms) \in Nat
        /\ \A i \in 1..Len(queue') :
             IF i <= Len(ms) THEN queue'[i] = ms[i]
             ELSE queue'[i] = queue[i - Len(ms) + 1]
    BY <1>1, <1>3, AnswerElements
  <2>2. QED
    BY <2>1
<1>5. committed' = committed
  BY <1>3 DEF Answer
<1>6. work'.tokens["hub"] \in Nat /\ committed.tokens["hub"] \in Nat
  BY HubTokensType DEF WorldOK, Worlds, Holders
<1>7. ASSUME NEW i \in 1..Len(queue')
      PROVE  /\ queue'[i].type \notin {"Send", "SendFrom"}
             /\ Owes(queue'[i]) => i = Len(queue') /\ queue'[i] = last
  <2>1. CASE i <= Len(us)
    <3>1. us[i] \in ToUndelegate /\ queue'[i] = us[i]
      BY <1>2, <1>4, <2>1
    <3>2. QED
      BY <3>1 DEF ToUndelegate, Owes
  <2>2. CASE ~(i <= Len(us))
    BY <1>2, <1>4, <2>2
  <2>3. QED
    BY <2>1, <2>2
<1>8. committed.tokens["hub"] <= work'.tokens["hub"]
  BY <1>6
<1>9. QED
  BY <1>5, <1>7, <1>8 DEF Announced, Owes

LEMMA AnnouncedStep ==
  ASSUME Typed, Announced, [Next]_vars
  PROVE  Announced' /\ (committed'.tokens["hub"] >= committed.tokens["hub"])
<1>1. work.tokens["hub"] \in Nat /\ committed.tokens["hub"] \in Nat
  BY HubTokensType
<1>2. committed.tokens["hub"] <= work.tokens["hub"]
  BY DEF Announced
<1>3. CASE UNCHANGED vars
  BY <1>1, <1>3 DEF vars, Announced, Owes
<1>4. CASE \E message \in Signed : Submit(message)
  <2>1. PICK message \in Signed : Submit(message)
    BY <1>4
  <2>2. queue' = <<message>> /\ work' = work /\ committed' = committed
    BY <2>1 DEF Submit
  <2>3. ~Owes(message)
    BY ProtocolAssumption DEF Signed, Owes, Contracts
  <2>4. Len(queue') = 1 /\ queue'[1] = message
    BY <2>2
  <2>5. QED
    BY <1>1, <1>2, <2>2, <2>3, <2>4 DEF Announced, Owes
<1>5. ASSUME queue # <<>>, NEW ms, Answer(ms)
      PROVE  committed'.tokens["hub"] >= committed.tokens["hub"]
  BY <1>1, <1>5 DEF Answer
<1>6. CASE Quiet
  <2>1. PICK ms \in Seq(Silent) : Answer(ms)
    BY <1>6 DEF Quiet
  <2>2. queue # <<>> /\ WorldOK(work') /\ work'.tokens["hub"] >= work.tokens["hub"]
    BY <1>6 DEF Quiet, Kept
  <2>3. QED
    BY <1>5, <2>1, <2>2, AnnouncedBySilent
<1>7. queue # <<>> => Message = queue[1] /\ Len(queue) \in Nat \ {0}
  BY DEF Typed, Message
<1>8. CASE ReceiveUnbond
  <2>1. queue # <<>> /\ Message.type = "Receive"
    BY <1>8 DEF ReceiveUnbond, Handling, Message
  <2>2. /\ WorldOK(work') /\ Message.sender = "token" /\ Message.amount \in Nat
        /\ work'.tokens = work.tokens
        /\ \E us \in Seq(ToUndelegate) : Answer(us \o <<BurnOfHub(Message.amount)>>)
    <3>1. <<>> \in Seq(ToUndelegate) /\ <<>> \o <<BurnOfHub(Message.amount)>> = <<BurnOfHub(Message.amount)>>
      OBVIOUS
    <3>2. QED
      BY <1>8, <3>1, TypeReceive
  <2>3. PICK us \in Seq(ToUndelegate) : Answer(us \o <<BurnOfHub(Message.amount)>>)
    BY <2>2
  <2>4. Owes(Message)
    BY <2>1, <2>2 DEF Owes
  <2>5. Len(queue) = 1 /\ committed.tokens["hub"] + Message.amount <= work'.tokens["hub"]
    <3>1. Message = queue[1] /\ 1 \in 1..Len(queue) /\ Owes(queue[1])
      BY <1>7, <2>1, <2>4
    <3>2. 1 = Len(queue) /\ committed.tokens["hub"] + queue[1].amount <= work.tokens["hub"]
      BY <3>1 DEF Announced
    <3>3. QED
      BY <2>2, <3>1, <3>2
  <2>6. /\ BurnOfHub(Message.amount) \in Messages
        /\ BurnOfHub(Message.amount).amount = Message.amount
        /\ BurnOfHub(Message.amount).type = "Burn"
    BY <2>2 DEF BurnOfHub, Messages, ToToken, Holders
  <2> DEFINE burn == BurnOfHub(Message.amount)
  <2>7. burn \in Messages /\ burn.type \notin {"Send", "SendFrom"} /\ burn.amount \in Nat
          /\ committed.tokens["hub"] + burn.amount <= work'.tokens["hub"]
    BY <2>2, <2>5, <2>6
  <2>8. Answer(us \o <<burn>>)
    BY <2>3
  <2> HIDE DEF burn
  <2>9. Announced'
    BY <2>1, <2>2, <2>5, <2>7, <2>8, AnnouncedAtLast
  <2>10. QED
    BY <1>5, <2>1, <2>8, <2>9
<1>9. CASE Send
  <2>1. queue # <<>> /\ Message.type \in {"Send", "SendFrom"}
    BY <1>9 DEF Send, TokenOpen, Handling, Message
  <2>2. /\ WorldOK(work') /\ Message.amount \in Nat /\ Message.sender \in Users
        /\ work'.tokens["hub"] = work.tokens["hub"] + Message.amount
        /\ Answer(<<ReceiveFromToken(Message.sender, Message.amount)>>)
    BY <1>9, TypeSend
  <2> DEFINE receive == ReceiveFromToken(Message.sender, Message.amount)
  <2>3. Len(queue) = 1
    BY <1>7, <2>1 DEF Announced
  <2>4. receive \in Messages /\ receive.type = "Receive" /\ receive.amount = Message.amount
    BY <2>2 DEF ReceiveFromToken, Messages, ToHub
  <2>5. receive.amount \in Nat /\ committed.tokens["hub"] + receive.amount <= work'.tokens["hub"]
    <3> HIDE DEF receive
    <3>1. QED
      BY <1>1, <1>2, <2>2, <2>4
  <2>6. <<>> \in Seq(ToUndelegate) /\ <<>> \o <<receive>> = <<receive>>
    OBVIOUS
  <2>7. Answer(<<>> \o <<receive>>)
    BY <2>2, <2>6
  <2> HIDE DEF receive
  <2>8. Announced'
    BY <2>1, <2>2, <2>3, <2>4, <2>5, <2>6, <2>7, AnnouncedAtLast
  <2>9. QED
    BY <1>5, <2>1, <2>7, <2>8
<1>10. CASE Burn
  <2>1. queue # <<>>
    BY <1>10 DEF Burn, TokenOpen, Handling
  <2>2. /\ WorldOK(work') /\ Message.amount \in Nat
        /\ IF Owes(Message)
           THEN work'.tokens["hub"] = work.tokens["hub"] - Message.amount
           ELSE work'.tokens["hub"] = work.tokens["hub"]
    BY <1>10, TypeBurn
  <2>3. PICK ms \in Seq(Silent) : Answer(ms)
    BY <1>10, TypeBurn
  <2>4. Announced'
    BY <1>1, <2>1, <2>2, <2>3, AnnouncedBySilent
  <2>5. QED
    BY <1>5, <2>1, <2>3, <2>4
<1>11. CASE Undelegate
  <2>1. queue # <<>>
    BY <1>11 DEF Undelegate, Handling
  <2>2. /\ WorldOK(work') /\ Answer(<<>>) /\ work'.tokens = work.tokens
    BY <1>11, TypeUndelegate
  <2>3. <<>> \in Seq(Silent)
    OBVIOUS
  <2>4. work'.tokens["hub"] >= work.tokens["hub"]
    BY <1>1, <2>2
  <2>5. Announced'
    BY <2>1, <2>2, <2>3, <2>4, AnnouncedBySilent
  <2>6. QED
    BY <1>5, <2>1, <2>2, <2>5
<1>12. CASE Commit
  <2>1. queue = <<>> /\ queue' = queue /\ work' = work /\ committed' = work
    BY <1>12 DEF Commit
  <2>2. Len(queue') = 0
    BY <2>1
  <2>3. QED
    BY <1>1, <1>2, <2>1, <2>2 DEF Announced
<1>13. CASE Abort
  <2>1. queue' = <<>> /\ work' = committed /\ committed' = committed
    BY <1>13 DEF Abort
  <2>2. Len(queue') = 0
    BY <2>1
  <2>3. QED
    BY <1>1, <2>1, <2>2 DEF Announced
<1>14. CASE ChainStep
  <2>1. /\ queue' = queue /\ committed' = work' /\ queue = <<>> /\ work = committed
        /\ work'.tokens = work.tokens
    BY <1>14, TypeEndBlock, TypeChainElse
  <2>2. Len(queue') = 0
    BY <2>1
  <2>3. QED
    BY <1>1, <2>1, <2>2 DEF Announced
<1>15. QED
  BY <1>3, <1>4, <1>6, <1>8, <1>9, <1>10, <1>11, <1>12, <1>13, <1>14, StepCases
     DEF ChainStep

LEMMA AnnouncedInit ==
  ASSUME Init
  PROVE  Announced
<1>1. Len(queue) = 0 /\ work = committed /\ committed.tokens["hub"] = 0
  BY DEF Init, Holders
<1>2. QED
  BY <1>1 DEF Announced

\* The stAtom the hub holds without having been asked to unbond it stays: an
\* unbonding burns what was sent with it, whatever else the transaction does.
THEOREM HubKeepsTokens ==
  Spec => HubTokensKept
<1>1. Typed /\ Announced /\ [Next]_vars => Announced'
  BY AnnouncedStep
<1>2. Typed /\ Announced /\ [Next]_vars => [committed'.tokens["hub"] >= committed.tokens["hub"]]_vars
  BY AnnouncedStep
<1>3. QED
  BY <1>1, <1>2, TypedAlways, AnnouncedInit, PTL DEF Spec, HubTokensKept

-----------------------------------------------------------------------------
(***************************************************************************)
(* The chain's limit on undelegations in flight.                           *)
(***************************************************************************)
\* The chain may have still to pay out what was undelegated at t: it has matured
\* in this block at the earliest.
Pending(t, time) == \E gap \in BlockGaps : time < t + ChainUnbonding + gap

\* The undelegations in flight that a validator has are more than an epoch
\* apart, the latest is the latest of the hub or an epoch older, and none is
\* older than the chain lets it become.
Apart(entries, last, time) ==
  \A v \in Validators, t \in 0..MaxTime :
    entries[v][t] > 0 =>
      /\ Pending(t, time)
      /\ t = last \/ t + EpochPeriod < last
      /\ \A s \in 0..MaxTime : entries[v][s] > 0 /\ s < t => s + EpochPeriod < t

Spaced(w) == Apart(w.entries, w.state.last_unbonded_time, now)

\* What is still to be undelegated is of the batch the hub closed just now.
EntriesSpaced ==
  /\ Spaced(work)
  /\ Spaced(committed)
  /\ \A i \in 1..Len(queue) :
       queue[i].type = "Undelegate" => work.state.last_unbonded_time = now

LEMMA Periods ==
  /\ EpochPeriod \in Nat /\ ChainUnbonding \in Nat /\ MaxTime \in Nat
  /\ MaxEntries \in Nat \ {0}
  /\ BlockGaps \subseteq Nat \ {0} /\ BlockGaps # {}
  BY ProtocolAssumption

\* What is undelegated in this block is not paid out yet.
LEMMA PendingNow ==
  ASSUME NEW time \in Nat
  PROVE  Pending(time, time)
<1>1. PICK gap \in BlockGaps : gap \in Nat \ {0}
  BY Periods
<1>2. time < time + ChainUnbonding + gap
  BY <1>1, Periods
<1>3. QED
  BY <1>2 DEF Pending

LEMMA ApartFewer ==
  ASSUME NEW e, NEW f, NEW last, NEW time, Apart(e, last, time),
         \A v \in Validators, t \in 0..MaxTime : f[v][t] > 0 => e[v][t] > 0
  PROVE  Apart(f, last, time)
  BY DEF Apart

\* What matures at the end of a block is gone in the next.
LEMMA ApartMatured ==
  ASSUME NEW e, NEW f, NEW last \in Nat, NEW time \in Nat, NEW gap \in BlockGaps,
         Apart(e, last, time),
         \A v \in Validators, t \in 0..MaxTime :
           f[v][t] = IF t + ChainUnbonding <= time THEN 0 ELSE e[v][t]
  PROVE  Apart(f, last, time + gap)
<1> SUFFICES ASSUME NEW v \in Validators, NEW t \in 0..MaxTime, f[v][t] > 0
             PROVE  /\ Pending(t, time + gap)
                    /\ t = last \/ t + EpochPeriod < last
                    /\ \A s \in 0..MaxTime : f[v][s] > 0 /\ s < t => s + EpochPeriod < t
  BY DEF Apart
<1>1. \A s \in 0..MaxTime : f[v][s] > 0 => ~(s + ChainUnbonding <= time) /\ e[v][s] > 0
  OBVIOUS
<1>2. ~(t + ChainUnbonding <= time) /\ e[v][t] > 0
  BY <1>1
<1>3. /\ t = last \/ t + EpochPeriod < last
      /\ \A s \in 0..MaxTime : e[v][s] > 0 /\ s < t => s + EpochPeriod < t
  BY <1>2 DEF Apart
<1>4. Pending(t, time + gap)
  <2>1. t \in Nat /\ time \in Nat /\ ChainUnbonding \in Nat /\ gap \in Nat
    BY Periods
  <2>2. time + gap < t + ChainUnbonding + gap
    BY ONLY <1>2, <2>1
  <2>3. QED
    BY <2>2 DEF Pending
<1>5. QED
  BY <1>1, <1>3, <1>4

\* Once the epoch has passed, everything in flight is an epoch old.
LEMMA ApartEpoch ==
  ASSUME NEW e, NEW last \in Nat, NEW time \in Nat, Apart(e, last, time),
         time - last > EpochPeriod
  PROVE  Apart(e, time, time)
<1> SUFFICES ASSUME NEW v \in Validators, NEW t \in 0..MaxTime, e[v][t] > 0
             PROVE  t + EpochPeriod < time
  BY DEF Apart
<1>1. t = last \/ t + EpochPeriod < last
  BY DEF Apart
<1>2. t \in Nat /\ EpochPeriod \in Nat
  BY Periods
<1>3. QED
  BY ONLY <1>1, <1>2, last \in Nat, time \in Nat, time - last > EpochPeriod

\* An undelegation of the latest batch is the latest of its validator.
LEMMA ApartUndelegated ==
  ASSUME NEW e \in [Validators -> [0..MaxTime -> Nat]], NEW f, NEW time \in 0..MaxTime,
         Apart(e, time, time), NEW u \in Validators, NEW n \in Nat,
         f = [e EXCEPT ![u][time] = n]
  PROVE  Apart(f, time, time)
<1>1. ASSUME NEW v \in Validators, NEW t \in 0..MaxTime, f[v][t] > 0
      PROVE  e[v][t] > 0 \/ t = time
  <2> DEFINE B == 0..MaxTime
  <2>1. e \in [Validators -> [B -> Nat]] /\ t \in B
    OBVIOUS
  <2> HIDE DEF B
  <2>2. CASE t # time
    <3>1. [e EXCEPT ![u][time] = n][v][t] = e[v][t]
      BY ONLY <2>1, <2>2, u \in Validators, v \in Validators
    <3>2. QED
      BY <1>1, <3>1
  <2>3. QED
    BY <2>2
<1> SUFFICES ASSUME NEW v \in Validators, NEW t \in 0..MaxTime, f[v][t] > 0
             PROVE  /\ Pending(t, time)
                    /\ t = time \/ t + EpochPeriod < time
                    /\ \A s \in 0..MaxTime : f[v][s] > 0 /\ s < t => s + EpochPeriod < t
  BY DEF Apart
<1>2. EpochPeriod \in Nat /\ ChainUnbonding \in Nat /\ time \in Nat /\ t \in Nat /\ t <= MaxTime
        /\ MaxTime \in Nat /\ time <= MaxTime
  BY Periods
<1>3. \A s \in 0..MaxTime : e[v][s] > 0 =>
        /\ Pending(s, time)
        /\ s = time \/ s + EpochPeriod < time
        /\ \A r \in 0..MaxTime : e[v][r] > 0 /\ r < s => r + EpochPeriod < s
  BY DEF Apart
<1>4. CASE t = time
  <2>1. ASSUME NEW s \in 0..MaxTime, f[v][s] > 0, s < t
        PROVE  s + EpochPeriod < t
    <3>1. s \in Nat /\ s # time
      BY <1>2, <1>4, <2>1
    <3>2. e[v][s] > 0
      BY <1>1, <2>1, <3>1
    <3>3. QED
      BY <1>3, <1>4, <3>1, <3>2
  <2>2. Pending(t, time)
    BY <1>2, <1>4, PendingNow
  <2>3. QED
    BY <1>4, <2>1, <2>2
<1>5. CASE t # time
  <2>1. e[v][t] > 0
    BY <1>1, <1>5
  <2>2. /\ Pending(t, time) /\ t + EpochPeriod < time
        /\ \A r \in 0..MaxTime : e[v][r] > 0 /\ r < t => r + EpochPeriod < t
    BY <1>3, <1>5, <2>1
  <2>3. ASSUME NEW s \in 0..MaxTime, f[v][s] > 0, s < t
        PROVE  s + EpochPeriod < t
    <3>1. s # time
      <4>1. s \in Nat
        BY <1>2
      <4>2. QED
        BY ONLY <1>2, <2>2, <2>3, <4>1
    <3>2. e[v][s] > 0
      BY <1>1, <2>3, <3>1
    <3>3. QED
      BY <2>2, <2>3, <3>2
  <2>4. QED
    BY <2>2, <2>3
<1>6. QED
  BY <1>4, <1>5
LEMMA TimesType ==
  ASSUME Typed
  PROVE  /\ now \in 0..MaxTime /\ now \in Nat
         /\ work.state.last_unbonded_time \in Nat
         /\ committed.state.last_unbonded_time \in Nat
         /\ work.entries \in [Validators -> [0..MaxTime -> Nat]]
         /\ work.params.epoch_period = EpochPeriod
         /\ committed.params.epoch_period = EpochPeriod
<1>1. now \in 0..MaxTime /\ now \in Nat
  BY Periods DEF Typed
<1>2. work \in Worlds /\ committed \in Worlds
  BY DEF Typed, WorldOK
<1>3. ASSUME NEW w \in Worlds
      PROVE  /\ w.state.last_unbonded_time \in Nat
             /\ w.entries \in [Validators -> [0..MaxTime -> Nat]]
             /\ w.params.epoch_period = EpochPeriod
  <2>1. w.state \in HW!State /\ w.params \in HW!Parameters
    BY DEF Worlds
  <2>2. w.state.last_unbonded_time \in Nat
    BY <2>1 DEF HW!State
  <2>3. w.params.epoch_period = EpochPeriod
    BY <2>1 DEF HW!Parameters
  <2>4. w.entries \in [Validators -> [0..MaxTime -> Nat]]
    BY DEF Worlds
  <2>5. QED
    BY <2>2, <2>3, <2>4
<1>4. QED
  BY <1>1, <1>2, <1>3

\* A message is answered, and those that wait are what they were.
LEMMA EntriesSpacedByAnswer ==
  ASSUME Typed, EntriesSpaced, queue # <<>>, NEW ms \in Seq(Messages), Answer(ms),
         Spaced(work)',
         \/ \A i \in 1..Len(ms) : ms[i].type # "Undelegate"
         \/ work'.state.last_unbonded_time = now,
         \/ work'.state.last_unbonded_time = work.state.last_unbonded_time
         \/ work'.state.last_unbonded_time = now
  PROVE  EntriesSpaced'
<1>1. /\ \A i \in 1..Len(queue') :
           IF i <= Len(ms) THEN queue'[i] = ms[i]
           ELSE queue'[i] = queue[i - Len(ms) + 1]
      /\ Len(queue') = Len(ms) + Len(queue) - 1
      /\ Len(queue) \in Nat \ {0} /\ Len(ms) \in Nat
  BY AnswerElements
<1>2. now' = now /\ committed' = committed
  BY DEF Answer
<1>3. Spaced(committed)'
  BY <1>2 DEF EntriesSpaced, Spaced, Apart
<1>4. ASSUME NEW i \in 1..Len(queue'), queue'[i].type = "Undelegate"
      PROVE  work'.state.last_unbonded_time = now'
  <2>1. CASE i <= Len(ms)
    <3>1. i \in 1..Len(ms)
      BY <1>1, <2>1
    <3>2. ms[i].type = "Undelegate"
      BY <1>1, <1>4, <2>1
    <3>3. QED
      BY <1>2, <3>1, <3>2
  <2>2. CASE ~(i <= Len(ms))
    <3> DEFINE j == i - Len(ms) + 1
    <3>1. queue'[i] = queue[j]
      BY <1>1, <2>2
    <3>2. j \in 1..Len(queue)
      <4> DEFINE a == Len(ms)
                 b == Len(queue)
                 c == Len(queue')
      <4>1. a \in Nat /\ b \in Nat \ {0} /\ c = a + b - 1 /\ i \in 1..c /\ ~(i <= a)
        BY <1>1, <2>2
      <4> HIDE DEF a, b, c
      <4>2. i - a + 1 \in 1..b
        BY ONLY <4>1
      <4>3. QED
        BY <4>2 DEF a, b, c
    <3> HIDE DEF j
    <3>3. work.state.last_unbonded_time = now
      BY <1>4, <3>1, <3>2 DEF EntriesSpaced
    <3>4. QED
      BY <1>2, <3>3
  <2>3. QED
    BY <2>1, <2>2
<1>5. QED
  BY <1>3, <1>4 DEF EntriesSpaced

LEMMA SilentElements ==
  ASSUME NEW ms \in Seq(Silent)
  PROVE  ms \in Seq(Messages) /\ \A i \in 1..Len(ms) : ms[i].type # "Undelegate"
<1>1. ms \in Seq(Messages)
  BY SilentMessages, SeqMonotone
<1>2. \A i \in 1..Len(ms) : ms[i] \in Silent
  OBVIOUS
<1>3. QED
  BY <1>1, <1>2 DEF Silent

\* A handler that changes no undelegation and does not close the batch.
LEMMA EntriesSpacedByKept ==
  ASSUME Typed, EntriesSpaced, queue # <<>>, NEW ms \in Seq(Messages), Answer(ms),
         \A i \in 1..Len(ms) : ms[i].type # "Undelegate",
         work'.entries = work.entries,
         work'.state.last_unbonded_time = work.state.last_unbonded_time
  PROVE  EntriesSpaced'
<1>1. now' = now
  BY DEF Answer
<1>2. Spaced(work)'
  BY <1>1 DEF EntriesSpaced, Spaced, Apart
<1>3. QED
  BY <1>2, EntriesSpacedByAnswer

LEMMA EntriesSpacedStep ==
  ASSUME Typed, EntriesSpaced, [Next]_vars
  PROVE  EntriesSpaced'
<1>1. CASE UNCHANGED vars
  BY <1>1 DEF vars, EntriesSpaced, Spaced, Apart
<1>2. CASE \E message \in Signed : Submit(message)
  <2>1. PICK message \in Signed : Submit(message)
    BY <1>2
  <2>2. queue' = <<message>> /\ UNCHANGED <<now, work, committed>>
    BY <2>1 DEF Submit
  <2>3. message.type # "Undelegate"
    BY DEF Signed
  <2>4. Len(queue') = 1 /\ queue'[1] = message
    BY <2>2
  <2>5. \A i \in 1..Len(queue') : queue'[i].type # "Undelegate"
    BY <2>3, <2>4
  <2>6. QED
    BY <2>2, <2>5 DEF EntriesSpaced, Spaced, Apart
<1>3. CASE Quiet
  <2>1. PICK ms \in Seq(Silent) : Answer(ms)
    BY <1>3 DEF Quiet
  <2>2. queue # <<>> /\ work'.entries = work.entries
          /\ work'.state.last_unbonded_time = work.state.last_unbonded_time
    BY <1>3 DEF Quiet, Kept
  <2>3. QED
    BY <2>1, <2>2, SilentElements, EntriesSpacedByKept
<1>4. CASE ReceiveUnbond
  <2> DEFINE burn == BurnOfHub(Message.amount)
  <2>1. queue # <<>>
    BY <1>4 DEF ReceiveUnbond, Handling
  <2>2. Message.amount \in Nat /\ work'.entries = work.entries
    BY <1>4, TypeReceive
  <2>3. <<burn>> \in Seq(Messages)
    <3>1. <<>> \in Seq(ToUndelegate)
      OBVIOUS
    <3>2. QED
      BY <2>2, <3>1, UndelegateThenBurn
  <2>4. CASE work'.state.last_unbonded_time = work.state.last_unbonded_time /\ Answer(<<burn>>)
    <3>1. \A i \in 1..Len(<<burn>>) : <<burn>>[i].type # "Undelegate"
      BY DEF BurnOfHub
    <3> HIDE DEF burn
    <3>2. QED
      BY <2>1, <2>2, <2>3, <2>4, <3>1, EntriesSpacedByKept
  <2>5. CASE /\ HW!EpochPassed
             /\ work'.state.last_unbonded_time = now
             /\ \E us \in Seq(ToUndelegate) : Answer(us \o <<burn>>)
    <3>1. PICK us \in Seq(ToUndelegate) : Answer(us \o <<burn>>)
      BY <2>5
    <3>2. us \o <<burn>> \in Seq(Messages)
      BY <2>2, UndelegateThenBurn
    <3>3. now' = now
      BY <3>1 DEF Answer
    <3>4. now - work.state.last_unbonded_time > EpochPeriod
      BY <2>5, TimesType DEF HW!EpochPassed
    <3>5. Apart(work.entries, work.state.last_unbonded_time, now)
      BY DEF EntriesSpaced, Spaced
    <3>6. Apart(work.entries, now, now)
      BY <3>4, <3>5, TimesType, ApartEpoch
    <3>7. Apart(work.entries, now, now)'
      BY <2>2, <3>3, <3>6 DEF Apart
    <3>8. Spaced(work)'
      BY <2>5, <3>3, <3>7 DEF Spaced
    <3> HIDE DEF burn
    <3>9. QED
      BY <2>1, <2>5, <3>1, <3>2, <3>8, EntriesSpacedByAnswer
  <2>6. QED
    BY <1>4, <2>4, <2>5, TypeReceive
<1>5. CASE Send
  <2> DEFINE receive == ReceiveFromToken(Message.sender, Message.amount)
  <2>1. queue # <<>>
    BY <1>5 DEF Send, TokenOpen, Handling
  <2>2. /\ work'.entries = work.entries /\ work'.state = work.state
        /\ Message.sender \in Users /\ Message.amount \in Nat /\ Answer(<<receive>>)
    BY <1>5, TypeSend
  <2>3. <<receive>> \in Seq(Messages)
    BY <2>2, ReceiveMessage
  <2>4. \A i \in 1..Len(<<receive>>) : <<receive>>[i].type # "Undelegate"
    BY DEF ReceiveFromToken
  <2> HIDE DEF receive
  <2>5. QED
    BY <2>1, <2>2, <2>3, <2>4, EntriesSpacedByKept
<1>6. CASE Burn
  <2>1. queue # <<>>
    BY <1>6 DEF Burn, TokenOpen, Handling
  <2>2. work'.entries = work.entries /\ work'.state = work.state
    BY <1>6, TypeBurn
  <2>3. PICK ms \in Seq(Silent) : Answer(ms)
    BY <1>6, TypeBurn
  <2>4. QED
    BY <2>1, <2>2, <2>3, SilentElements, EntriesSpacedByKept
<1>7. CASE Undelegate
  <2>1. queue # <<>> /\ Message.type = "Undelegate"
    BY <1>7 DEF Undelegate, Handling
  <2>2. Answer(<<>>) /\ work'.state = work.state /\ Message.validator \in Validators
    BY <1>7, TypeUndelegate
  <2>3. PICK n \in Nat : work'.entries = [work.entries EXCEPT ![Message.validator][now] = n]
    BY <1>7, TypeUndelegate
  <2>4. work.state.last_unbonded_time = now
    <3>1. Message = queue[1] /\ 1 \in 1..Len(queue)
      BY <2>1 DEF Typed, Message
    <3>2. QED
      BY <2>1, <3>1 DEF EntriesSpaced
  <2>5. Apart(work.entries, now, now)
    BY <2>4 DEF EntriesSpaced, Spaced
  <2>6. Apart(work'.entries, now, now)
    <3> DEFINE f == work'.entries
    <3>1. f = [work.entries EXCEPT ![Message.validator][now] = n]
      BY <2>3
    <3> HIDE DEF f
    <3>2. Apart(f, now, now)
      BY <2>2, <2>5, <3>1, TimesType, ApartUndelegated
    <3>3. QED
      BY <3>2 DEF f
  <2>7. now' = now
    BY <2>2 DEF Answer
  <2>8. Spaced(work)'
    BY <2>2, <2>4, <2>6, <2>7 DEF Spaced, Apart
  <2>9. <<>> \in Seq(Messages) /\ Len(<<>>) = 0
    OBVIOUS
  <2>10. work'.state.last_unbonded_time = now
    BY <2>2, <2>4
  <2>11. QED
    BY <2>1, <2>2, <2>8, <2>9, <2>10, EntriesSpacedByAnswer
<1>8. CASE Commit
  <2>1. queue = <<>> /\ queue' = queue /\ work' = work /\ committed' = work /\ now' = now
    BY <1>8 DEF Commit
  <2>2. Len(queue') = 0
    BY <2>1
  <2>3. QED
    BY <2>1, <2>2 DEF EntriesSpaced, Spaced, Apart
<1>9. CASE Abort
  <2>1. queue' = <<>> /\ work' = committed /\ committed' = committed /\ now' = now
    BY <1>9 DEF Abort
  <2>2. Len(queue') = 0
    BY <2>1
  <2>3. QED
    BY <2>1, <2>2 DEF EntriesSpaced, Spaced, Apart
<1>10. CASE EndBlock
  <2>1. /\ committed' = work' /\ queue' = <<>> /\ work'.state = work.state
        /\ now' \in {now + gap : gap \in BlockGaps}
        /\ \A v \in Validators, t \in 0..MaxTime :
             work'.entries[v][t] = IF t + ChainUnbonding <= now THEN 0 ELSE work.entries[v][t]
    BY <1>10, TypeEndBlock
  <2> DEFINE f == work'.entries
             last == work.state.last_unbonded_time
  <2>2. Apart(work.entries, last, now)
    BY DEF EntriesSpaced, Spaced
  <2>3. \A v \in Validators, t \in 0..MaxTime :
          f[v][t] = IF t + ChainUnbonding <= now THEN 0 ELSE work.entries[v][t]
    BY <2>1
  <2>4. last \in Nat /\ now \in Nat
    BY TimesType
  <2>5. PICK gap \in BlockGaps : now' = now + gap
    BY <2>1
  <2> HIDE DEF f, last
  <2>6. Apart(f, last, now + gap)
    BY <2>2, <2>3, <2>4, ApartMatured
  <2>7. Spaced(work)' /\ Spaced(committed)'
    <3>1. Apart(f, last, now')
      BY <2>5, <2>6
    <3>2. QED
      BY <2>1, <3>1 DEF Spaced, Apart, Pending, f, last
  <2>8. Len(queue') = 0
    BY <2>1
  <2>9. QED
    BY <2>7, <2>8 DEF EntriesSpaced
<1>11. CASE ChainStep /\ ~EndBlock
  <2>1. /\ committed' = work' /\ queue' = <<>> /\ now' = now /\ work'.state = work.state
        /\ \A v \in Validators, t \in 0..MaxTime :
             work'.entries[v][t] > 0 => work.entries[v][t] > 0
    BY <1>11, TypeChainElse
  <2> DEFINE f == work'.entries
             last == work.state.last_unbonded_time
  <2>2. Apart(work.entries, last, now)
    BY DEF EntriesSpaced, Spaced
  <2>3. \A v \in Validators, t \in 0..MaxTime : f[v][t] > 0 => work.entries[v][t] > 0
    BY <2>1
  <2> HIDE DEF f, last
  <2>4. Apart(f, last, now)
    BY <2>2, <2>3, ApartFewer
  <2>5. Spaced(work)' /\ Spaced(committed)'
    BY <2>1, <2>4 DEF Spaced, Apart, f, last
  <2>6. Len(queue') = 0
    BY <2>1
  <2>7. QED
    BY <2>5, <2>6 DEF EntriesSpaced
<1>12. QED
  BY <1>1, <1>2, <1>3, <1>4, <1>5, <1>6, <1>7, <1>8, <1>9, <1>10, <1>11, StepCases

LEMMA EntriesSpacedInit ==
  ASSUME Init
  PROVE  EntriesSpaced
<1>1. Len(queue) = 0 /\ work = committed
        /\ committed.entries = [v \in Validators |-> [t \in 0..MaxTime |-> 0]]
  BY DEF Init
<1>2. Spaced(committed)
  BY <1>1 DEF Spaced, Apart
<1>3. QED
  BY <1>1, <1>2 DEF EntriesSpaced
\* Numbers that are at least d apart, in less than m * d: fewer than m of them.
LEMMA FewSpaced ==
  ASSUME NEW S, NEW d \in Nat \ {0}, NEW m \in Nat \ {0}, NEW age \in [S -> Nat],
         IsFiniteSet(S),
         \A t \in S : age[t] + d < m * d,
         \A s, t \in S : s # t => age[s] + d <= age[t] \/ age[t] + d <= age[s]
  PROVE  Cardinality(S) < m
<1> DEFINE f == [t \in S |-> age[t] \div d]
           T == 0..(m - 2)
<1>1. \A t \in S : f[t] \in Nat /\ d * f[t] <= age[t] /\ age[t] < d * f[t] + d
  BY Quotient
<1>2. ASSUME NEW t \in S
      PROVE  f[t] \in T
  <2> DEFINE q == f[t]
             a == age[t]
  <2>1. q \in Nat /\ a \in Nat /\ d * q <= a
    BY <1>1
  <2>2. a + d < m * d
    OBVIOUS
  <2> HIDE DEF q, a
  <2>3. d * (q + 1) = d * q + d /\ d * (q + 1) \in Nat /\ d * m \in Nat /\ m * d = d * m
          /\ d * q \in Nat
    BY ONLY <2>1, d \in Nat \ {0}, m \in Nat \ {0}
  <2>4. d * (q + 1) < d * m
    BY ONLY <2>1, <2>2, <2>3, d \in Nat \ {0}
  <2>5. q + 1 < m
    BY <2>1, <2>4, ProductStrict
  <2>6. QED
    BY <2>1, <2>5 DEF q
<1>3. ASSUME NEW s \in S, NEW t \in S, s # t
      PROVE  f[s] # f[t]
  <2> DEFINE p == f[s]
             q == f[t]
  <2>1. /\ p \in Nat /\ d * p <= age[s] /\ age[s] < d * p + d
        /\ q \in Nat /\ d * q <= age[t] /\ age[t] < d * q + d
    BY <1>1
  <2>2. age[s] \in Nat /\ age[t] \in Nat
    OBVIOUS
  <2>3. age[s] + d <= age[t] \/ age[t] + d <= age[s]
    BY <1>3
  <2> HIDE DEF p, q
  <2>4. p # q
    <3>1. SUFFICES ASSUME p = q PROVE FALSE
      OBVIOUS
    <3> DEFINE e == d * p
    <3>2. e \in Nat /\ e <= age[s] /\ age[s] < e + d /\ e <= age[t] /\ age[t] < e + d
      BY <2>1, <3>1
    <3> HIDE DEF e
    <3>3. QED
      BY ONLY <2>2, <2>3, <3>2, d \in Nat \ {0}
  <2>5. QED
    BY <2>4 DEF p, q
<1>4. f \in [S -> T]
  BY <1>2
<1> HIDE DEF f
<1>5. IsFiniteSet(T) /\ Cardinality(T) = m - 1
  <2>1. 0 \in Int /\ m - 2 \in Int
    OBVIOUS
  <2>2. /\ IsFiniteSet(T)
        /\ Cardinality(T) = IF 0 > m - 2 THEN 0 ELSE (m - 2) - 0 + 1
    BY <2>1, FS_Interval
  <2>3. QED
    BY <2>2
<1>6. ~(Cardinality(T) < Cardinality(S))
  BY <1>3, <1>4, <1>5, FS_PigeonHole
<1>7. Cardinality(S) \in Nat
  BY FS_CardinalityType
<1>8. QED
  BY <1>5, <1>6, <1>7

\* A batch that is due finds room with every validator, if an epoch and one
\* second more, as often as the chain allows undelegations, outlast the chain's
\* unbonding and the longest block.
THEOREM EntriesSuffice ==
  Spec => []NeverOutOfEntries
<1>1. ASSUME Typed, EntriesSpaced
      PROVE  NeverOutOfEntries
  <2> SUFFICES ASSUME EpochsSuffice, H!EpochPassed,
                      NEW v \in Validators
               PROVE  Cardinality(Entries(committed, v)) < MaxEntries
    BY DEF NeverOutOfEntries
  <2> DEFINE S == Entries(committed, v)
             d == EpochPeriod + 1
             most == MaxEntries * d
             age == [t \in S |-> t + most - 1 - now]
             last == committed.state.last_unbonded_time
  <2>1. now - last > EpochPeriod /\ now \in Nat /\ last \in Nat
    BY <1>1, TimesType DEF H!EpochPassed
  <2>2. d \in Nat \ {0} /\ d = EpochPeriod + 1 /\ EpochPeriod \in Nat
        /\ ChainUnbonding \in Nat /\ MaxEntries \in Nat \ {0} /\ MaxTime \in Nat
        /\ most \in Nat
    BY Periods
  <2>3. IsFiniteSet(S)
    <3>1. S \in SUBSET (0..MaxTime)
      BY DEF Entries
    <3>2. IsFiniteSet(0..MaxTime)
      BY <2>2, FS_Interval
    <3>3. QED
      BY <3>1, <3>2, FS_Subset
  <2>4. ASSUME NEW t \in S
        PROVE  /\ now < t + most
               /\ t = last \/ t + EpochPeriod < last
               /\ t \in Nat
               /\ \A s \in S : s < t => s + EpochPeriod < t
    <3>1. Apart(committed.entries, last, now)
      BY <1>1 DEF EntriesSpaced, Spaced
    <3>2. t \in 0..MaxTime /\ committed.entries[v][t] > 0
            /\ \A s \in S : s \in 0..MaxTime /\ committed.entries[v][s] > 0
      BY DEF Entries
    <3> HIDE DEF S, last
    <3>3. Pending(t, now)
      BY <3>1, <3>2 DEF Apart
    <3>4. PICK gap \in BlockGaps : now < t + ChainUnbonding + gap
      BY <3>3 DEF Pending
    <3>5. ChainUnbonding + gap <= most /\ gap \in Nat /\ t \in Nat
      BY <3>2, Periods DEF EpochsSuffice
    <3> HIDE DEF most
    <3>6. now < t + most
      BY ONLY <2>1, <2>2, <3>4, <3>5
    <3>7. QED
      BY <3>1, <3>2, <3>6, <2>2 DEF Apart
  <2> HIDE DEF S, d, last, most
  <2>5. ASSUME NEW t \in S
        PROVE  age[t] \in Nat /\ age[t] = t + most - 1 - now
               /\ age[t] + d < most
    <3>1. age[t] = t + most - 1 - now
      OBVIOUS
    <3> DEFINE a == age[t]
    <3>2. a = t + most - 1 - now
      BY <3>1
    <3> HIDE DEF a
    <3>3. now < t + most /\ (t = last \/ t + EpochPeriod < last) /\ t \in Nat
      BY <2>4
    <3>4. EpochPeriod \in Nat /\ most \in Nat /\ d = EpochPeriod + 1
      BY <2>2
    <3>5. a \in Nat /\ a + d < most
      BY ONLY <2>1, <3>2, <3>3, <3>4
    <3>6. QED
      BY <3>1, <3>5 DEF a
  <2>6. age \in [S -> Nat]
    BY <2>5
  <2>7. ASSUME NEW s \in S, NEW t \in S, s # t
        PROVE  age[s] + d <= age[t] \/ age[t] + d <= age[s]
    <3>1. /\ s \in Nat /\ t \in Nat /\ EpochPeriod \in Nat /\ most \in Nat
          /\ d = EpochPeriod + 1 /\ s # t
          /\ s < t => s + EpochPeriod < t
          /\ t < s => t + EpochPeriod < s
      BY <2>2, <2>4, <2>7
    <3>2. age[s] = s + most - 1 - now /\ age[t] = t + most - 1 - now
      BY <2>5
    <3> HIDE DEF age
    <3>3. QED
      BY ONLY <2>1, <3>1, <3>2
  <2> HIDE DEF age
  <2>8. Cardinality(S) < MaxEntries
    <3>1. \A t \in S : age[t] + d < MaxEntries * d
      BY <2>5 DEF most
    <3>2. \A s, t \in S : s # t => age[s] + d <= age[t] \/ age[t] + d <= age[s]
      BY <2>7
    <3>3. QED
      BY ONLY <2>2, <2>3, <2>6, <3>1, <3>2, FewSpaced
  <2>9. QED
    BY <2>8 DEF S
<1>2. Typed /\ EntriesSpaced /\ [Next]_vars => EntriesSpaced'
  BY EntriesSpacedStep
<1>3. Init => EntriesSpaced
  BY EntriesSpacedInit
<1>4. QED
  BY <1>1, <1>2, <1>3, TypedAlways, PTL DEF Spec

-----------------------------------------------------------------------------
(***************************************************************************)
(* What the messages of a queue amount to.                                 *)
(***************************************************************************)
\* A sum is that of its first n terms and of the k after them.
LEMMA SumToSplit ==
  ASSUME NEW n \in Nat, NEW k \in Nat, NEW f, NEW g,
         \A i \in 1..(n + k) : f[i] \in Nat,
         \A i \in 1..k : g[i] = f[n + i]
  PROVE  SumTo(f, n + k) = SumTo(f, n) + SumTo(g, k)
<1> DEFINE K == {j \in Nat : j <= k => SumTo(f, n + j) = SumTo(f, n) + SumTo(g, j)}
<1>1. /\ \A i \in 1..k : n + i \in 1..(n + k)
      /\ n \in 0..(n + k)
  OBVIOUS
<1>2. \A i \in 1..k : g[i] \in Nat
  BY <1>1
<1>3. SumTo(g, 0) = 0 /\ \A m \in 1..k : SumTo(g, m) = SumTo(g, m - 1) + g[m]
  BY <1>2, SumToLast
<1>4. \A m \in 1..(n + k) : SumTo(f, m) = SumTo(f, m - 1) + f[m]
  <2>1. n + k \in Nat
    OBVIOUS
  <2>2. QED
    BY <2>1, SumToLast
<1>5. SumTo(f, n) \in Nat
  BY SumToType
<1>6. \A m \in 0..k : SumTo(g, m) \in Nat
  BY <1>2, SumToType
<1>7. 0 \in K
  <2>1. n + 0 = n
    OBVIOUS
  <2>2. QED
    BY <1>3, <1>5, <2>1
<1>8. ASSUME NEW j \in Nat, j \in K PROVE j + 1 \in K
  <2> SUFFICES ASSUME j + 1 <= k PROVE SumTo(f, n + (j + 1)) = SumTo(f, n) + SumTo(g, j + 1)
    OBVIOUS
  <2>1. SumTo(f, n + j) = SumTo(f, n) + SumTo(g, j)
    BY <1>8
  <2>2. /\ j + 1 \in 1..k /\ (j + 1) - 1 = j /\ j \in 0..k
        /\ n + (j + 1) \in 1..(n + k) /\ (n + (j + 1)) - 1 = n + j
    OBVIOUS
  <2>3. SumTo(g, j + 1) = SumTo(g, j) + f[n + (j + 1)]
    BY <2>2, <1>3
  <2>4. SumTo(f, n + (j + 1)) = SumTo(f, n + j) + f[n + (j + 1)]
    BY <2>2, <1>4
  <2>5. f[n + (j + 1)] \in Nat /\ SumTo(g, j) \in Nat
    BY <2>2, <1>6
  <2>6. QED
    BY <2>1, <2>3, <2>4, <2>5, <1>5
<1> HIDE DEF K
<1>9. k \in K
  BY <1>7, <1>8, NatSetInduction
<1>10. QED
  BY <1>9 DEF K

\* A sum with one term at most.
LEMMA SumToSingle ==
  ASSUME NEW n \in Nat, NEW f, NEW j \in 1..n, \A i \in 1..n : f[i] \in Nat,
         \A i \in 1..n : i # j => f[i] = 0
  PROVE  SumTo(f, n) = f[j]
<1> DEFINE K == {k \in Nat : k <= n => SumTo(f, k) = IF k < j THEN 0 ELSE f[j]}
<1>1. SumTo(f, 0) = 0 /\ \A m \in 1..n : SumTo(f, m) = SumTo(f, m - 1) + f[m]
  BY SumToLast
<1>2. 0 \in K
  BY <1>1
<1>3. ASSUME NEW k \in Nat, k \in K PROVE k + 1 \in K
  <2> SUFFICES ASSUME k + 1 <= n PROVE SumTo(f, k + 1) = IF k + 1 < j THEN 0 ELSE f[j]
    OBVIOUS
  <2>1. SumTo(f, k) = IF k < j THEN 0 ELSE f[j]
    BY <1>3
  <2>2. k + 1 \in 1..n /\ (k + 1) - 1 = k
    OBVIOUS
  <2>3. SumTo(f, k + 1) = SumTo(f, k) + f[k + 1]
    BY <2>2, <1>1
  <2>4. CASE k + 1 = j
    <3>1. SumTo(f, k) = 0 /\ f[k + 1] = f[j] /\ f[j] \in Nat
      BY <2>1, <2>4
    <3>2. QED
      BY <3>1, <2>3, <2>4
  <2>5. CASE k + 1 # j
    <3>1. f[k + 1] = 0 /\ f[j] \in Nat
      BY <2>2, <2>5
    <3>2. QED
      BY <3>1, <2>1, <2>3, <2>5
  <2>6. QED
    BY <2>4, <2>5
<1> HIDE DEF K
<1>4. n \in K
  BY <1>2, <1>3, NatSetInduction
<1>5. QED
  BY <1>4 DEF K

\* What the elements of seq add up to, each by its weight.
Due(seq, weight) == SumTo([i \in 1..Len(seq) |-> weight[seq[i]]], Len(seq))

LEMMA DueType ==
  ASSUME NEW T, NEW seq \in Seq(T), NEW weight \in [T -> Nat]
  PROVE  Due(seq, weight) \in Nat /\ Due(<<>>, weight) = 0
<1> DEFINE f == [i \in 1..Len(seq) |-> weight[seq[i]]]
           e == [i \in 1..Len(<<>>) |-> weight[<<>>[i]]]
<1>1. Len(seq) \in Nat /\ \A i \in 1..Len(seq) : f[i] \in Nat
  OBVIOUS
<1>2. SumTo(f, Len(seq)) \in Nat
  <2> HIDE DEF f
  <2> QED BY <1>1, SumToType
<1>3. SumTo(e, Len(<<>>)) = 0
  <2>1. Len(<<>>) = 0 /\ 0 \in Nat /\ \A i \in 1..0 : e[i] = 0
    OBVIOUS
  <2> HIDE DEF e
  <2>2. SumTo(e, 0) = 0
    BY <2>1, SumToZero
  <2>3. QED
    BY <2>1, <2>2
<1>4. QED
  BY <1>2, <1>3 DEF Due

LEMMA DueConcat ==
  ASSUME NEW T, NEW a \in Seq(T), NEW b \in Seq(T), NEW weight \in [T -> Nat]
  PROVE  Due(a \o b, weight) = Due(a, weight) + Due(b, weight)
<1> DEFINE n == Len(a)
           k == Len(b)
           c == a \o b
           f == [i \in 1..(n + k) |-> weight[c[i]]]
           g == [i \in 1..n |-> weight[a[i]]]
           h == [i \in 1..k |-> weight[b[i]]]
<1>1. n \in Nat /\ k \in Nat /\ c \in Seq(T) /\ Len(c) = n + k
  OBVIOUS
<1>2. \A i \in 1..(n + k) : f[i] \in Nat
  OBVIOUS
<1>3. /\ \A i \in 1..n : c[i] = a[i]
      /\ \A i \in 1..k : c[n + i] = b[i] /\ n + i \in 1..(n + k)
  BY ConcatElements
<1>4. \A i \in 1..n : f[i] = g[i] /\ g[i] \in Nat
  <2>1. \A i \in 1..n : i \in 1..(n + k)
    BY <1>1
  <2>2. QED
    BY <1>3, <2>1, <1>2
<1>5. \A i \in 1..k : h[i] = f[n + i]
  BY <1>3
<1>6. Due(c, weight) = SumTo(f, n + k) /\ Due(a, weight) = SumTo(g, n) /\ Due(b, weight) = SumTo(h, k)
  BY <1>1 DEF Due
<1> HIDE DEF f, g, h, n, k, c
<1>7. SumTo(f, n + k) = SumTo(f, n) + SumTo(h, k)
  <2>1. n \in Nat /\ k \in Nat
    BY <1>1
  <2>2. (\A i \in 1..(n + k) : f[i] \in Nat) /\ \A i \in 1..k : h[i] = f[n + i]
    BY <1>2, <1>5
  <2>3. QED
    BY <2>1, <2>2, SumToSplit
<1>8. SumTo(f, n) = SumTo(g, n)
  BY ONLY <1>1, <1>4, SumToSame
<1>9. QED
  BY <1>6, <1>7, <1>8 DEF c

LEMMA DueSingle ==
  ASSUME NEW T, NEW m \in T, NEW weight \in [T -> Nat]
  PROVE  Due(<<m>>, weight) = weight[m]
<1> DEFINE f == [i \in 1..Len(<<m>>) |-> weight[<<m>>[i]]]
<1>1. Len(<<m>>) = 1 /\ f[1] = weight[m] /\ \A i \in 1..1 : f[i] \in Nat /\ i = 1
  OBVIOUS
<1> HIDE DEF f
<1>2. 1 \in Nat /\ 1 \in 1..1
  OBVIOUS
<1>3. SumTo(f, 1) = f[1]
  BY ONLY <1>1, <1>2, SumToSingle
<1>4. QED
  BY <1>1, <1>3 DEF Due, f

\* What a message amounts to, and those behind it.
LEMMA DueFirst ==
  ASSUME NEW T, NEW seq \in Seq(T), seq # <<>>, NEW weight \in [T -> Nat]
  PROVE  Due(seq, weight) = weight[Head(seq)] + Due(Tail(seq), weight)
<1>1. seq = <<Head(seq)>> \o Tail(seq) /\ Head(seq) \in T /\ Tail(seq) \in Seq(T)
      /\ <<Head(seq)>> \in Seq(T)
  OBVIOUS
<1>2. Due(<<Head(seq)>> \o Tail(seq), weight) = Due(<<Head(seq)>>, weight) + Due(Tail(seq), weight)
  BY <1>1, DueConcat
<1>3. QED
  BY <1>1, <1>2, DueSingle

\* Nothing, when no element has a weight.
LEMMA DueNothing ==
  ASSUME NEW T, NEW seq \in Seq(T), NEW weight, \A m \in T : weight[m] = 0
  PROVE  Due(seq, weight) = 0
<1> DEFINE f == [i \in 1..Len(seq) |-> weight[seq[i]]]
<1>1. Len(seq) \in Nat /\ \A i \in 1..Len(seq) : f[i] = 0
  OBVIOUS
<1>2. SumTo(f, Len(seq)) = 0
  <2> HIDE DEF f
  <2> QED BY <1>1, SumToZero
<1>3. QED
  BY <1>2 DEF Due

\* What is not chosen has no weight, and so nothing is lost.
LEMMA DueChosen ==
  ASSUME NEW T, NEW seq \in Seq(T), NEW S, NEW weight \in [T -> Nat],
         \A i \in 1..Len(seq) : i \notin S => weight[seq[i]] = 0
  PROVE  Due(Chosen(seq, S), weight) = Due(seq, weight)
<1> DEFINE n == Len(seq)
           f == [i \in 1..n |-> weight[seq[i]]]
           picked == Picked(seq, S)
           K == {k \in Nat : k <= n => picked[k] \in Seq(T) /\ Due(picked[k], weight) = SumTo(f, k)}
<1>1. /\ n \in Nat /\ picked[0] = <<>>
      /\ \A i \in 1..n : picked[i] = IF i \in S THEN Append(picked[i - 1], seq[i]) ELSE picked[i - 1]
  BY PickedDef
<1>2. \A i \in 1..n : f[i] \in Nat /\ seq[i] \in T /\ f[i] = weight[seq[i]]
  OBVIOUS
<1> HIDE DEF picked, f
<1>3. SumTo(f, 0) = 0 /\ \A m \in 1..n : SumTo(f, m) = SumTo(f, m - 1) + f[m]
  <2>1. n \in Nat /\ \A i \in 1..n : f[i] \in Nat
    BY <1>1, <1>2
  <2> HIDE DEF n
  <2>2. QED
    BY ONLY <2>1, SumToLast
<1>4. 0 \in K
  <2>1. <<>> \in Seq(T)
    OBVIOUS
  <2>2. QED
    BY <1>1, <1>3, <2>1, DueType
<1>5. ASSUME NEW k \in Nat, k \in K PROVE k + 1 \in K
  <2> SUFFICES ASSUME k + 1 <= n
               PROVE  picked[k + 1] \in Seq(T) /\ Due(picked[k + 1], weight) = SumTo(f, k + 1)
    OBVIOUS
  <2>1. picked[k] \in Seq(T) /\ Due(picked[k], weight) = SumTo(f, k)
    BY <1>1, <1>5
  <2>2. k + 1 \in 1..n /\ (k + 1) - 1 = k
    BY <1>1
  <2>3. SumTo(f, k + 1) = SumTo(f, k) + f[k + 1] /\ Due(picked[k], weight) \in Nat
    BY <2>1, <2>2, <1>3, DueType
  <2>4. CASE k + 1 \in S
    <3>1. picked[k + 1] = Append(picked[k], seq[k + 1])
      BY <2>2, <2>4, <1>1
    <3>2. Append(picked[k], seq[k + 1]) = picked[k] \o <<seq[k + 1]>> /\ <<seq[k + 1]>> \in Seq(T)
      <4>1. seq[k + 1] \in T
        BY <2>2, <1>2
      <4>2. ASSUME NEW s \in Seq(T), NEW e \in T
            PROVE  Append(s, e) = s \o <<e>> /\ <<e>> \in Seq(T)
        OBVIOUS
      <4>3. QED
        BY <4>1, <4>2, <2>1
    <3>3. Due(picked[k] \o <<seq[k + 1]>>, weight) = Due(picked[k], weight) + Due(<<seq[k + 1]>>, weight)
      <4> DEFINE a == picked[k]
                 b == <<seq[k + 1]>>
      <4>1. a \in Seq(T) /\ b \in Seq(T)
        BY <2>1, <3>2
      <4> HIDE DEF a, b
      <4>2. Due(a \o b, weight) = Due(a, weight) + Due(b, weight)
        BY <4>1, DueConcat
      <4>3. QED
        BY ONLY <4>2 DEF a, b
    <3>4. Due(<<seq[k + 1]>>, weight) = f[k + 1]
      BY <2>2, <1>2, DueSingle
    <3>5. picked[k] \o <<seq[k + 1]>> \in Seq(T)
      BY ONLY <2>1, <3>2
    <3>6. QED
      BY ONLY <3>1, <3>2, <3>3, <3>4, <3>5, <2>1, <2>3
  <2>5. CASE k + 1 \notin S
    <3>1. picked[k + 1] = picked[k] /\ f[k + 1] = 0
      BY <2>2, <2>5, <1>1, <1>2
    <3>2. QED
      BY <3>1, <2>1, <2>3
  <2>6. QED
    BY <2>4, <2>5
<1> HIDE DEF K
<1>6. n \in K
  BY <1>1, <1>4, <1>5, NatSetInduction
<1>7. Due(picked[n], weight) = SumTo(f, n)
  BY <1>1, <1>6 DEF K
<1>8. QED
  BY <1>7 DEF Chosen, picked, Due, f

-----------------------------------------------------------------------------
(***************************************************************************)
(* Where the coins of the validators end when the queue is carried out.    *)
(***************************************************************************)
ToDelegate == [type : {"Delegate"}, validator : Validators, amount : Nat]
ToRedelegate == [type : {"Redelegate"}, src : Validators, validator : Validators, amount : Nat]

GainOf(v) ==
  [m \in Messages |-> IF m.type \in {"Delegate", "Redelegate"} /\ m.validator = v
                      THEN m.amount ELSE 0]
LossOf(v) ==
  [m \in Messages |-> IF \/ m.type = "Undelegate" /\ m.validator = v
                         \/ m.type = "Redelegate" /\ m.src = v
                      THEN m.amount ELSE 0]
ArrivalAt(v) ==
  [m \in Messages |-> IF m.type = "Redelegate" /\ m.validator = v THEN 1 ELSE 0]

\* Types of messages that move no coins of the validators.
LEMMA WeightsType ==
  ASSUME NEW v
  PROVE  /\ GainOf(v) \in [Messages -> Nat]
         /\ LossOf(v) \in [Messages -> Nat]
         /\ ArrivalAt(v) \in [Messages -> Nat]
         /\ \A m \in Messages :
              m.type \notin {"Delegate", "Undelegate", "Redelegate"} =>
                GainOf(v)[m] = 0 /\ LossOf(v)[m] = 0 /\ ArrivalAt(v)[m] = 0
<1>1. \A m \in Messages : m.type \in {"Delegate", "Undelegate", "Redelegate"} => m.amount \in Nat
  BY MessageFields DEF Fields
<1>2. GainOf(v) \in [Messages -> Nat]
  BY <1>1 DEF GainOf
<1>3. LossOf(v) \in [Messages -> Nat]
  BY <1>1 DEF LossOf
<1>4. ArrivalAt(v) \in [Messages -> Nat]
  BY DEF ArrivalAt
<1>5. QED
  BY <1>2, <1>3, <1>4 DEF GainOf, LossOf, ArrivalAt

LEMMA StakeMessages ==
  ToDelegate \subseteq Messages /\ ToUndelegate \subseteq Messages /\ ToRedelegate \subseteq Messages
  BY DEF ToDelegate, ToUndelegate, ToRedelegate, Messages, ToChain

\* The registry's operators in the middle of a transaction, and of the last one.
LEMMA DistributionHere ==
  ASSUME NEW amount, NEW totals
  PROVE  /\ RW!Delegations(amount, totals) = Delegations(amount, totals)
         /\ RW!Undelegations(amount, totals) = Undelegations(amount, totals)
         /\ RW!CanDelegate(amount, totals) = CanDelegate(amount, totals)
<1>1. ASSUME NEW a, NEW room, NEW n
      PROVE  RW!Leftovers(a, room, n) = Leftovers(a, room, n)
  BY DEF RW!Leftovers, Leftovers
<1>2. RW!DelegationRoom(amount, totals) = DelegationRoom(amount, totals)
  BY DEF RW!DelegationRoom, DelegationRoom, RW!SumTo, SumTo, RW!RunningSums, RunningSums,
         RW!EvenShare, EvenShare
<1>3. RW!UndelegationRoom(amount, totals) = UndelegationRoom(amount, totals)
  BY DEF RW!UndelegationRoom, UndelegationRoom, RW!SumTo, SumTo, RW!RunningSums, RunningSums,
         RW!EvenShare, EvenShare
<1>4. QED
  BY <1>1, <1>2, <1>3 DEF RW!Delegations, Delegations, RW!Undelegations, Undelegations,
     RW!Taken, Taken, RW!NotPlaced, NotPlaced, RW!CanDelegate, CanDelegate

\* One element of ms for each validator of seq, which weighs for v what is
\* given to it.
Splits(ms, T, weight, v, seq, given, n) ==
  /\ n \in Nat
  /\ ms \in [1..n -> T]
  /\ weight \in [T -> Nat]
  /\ \A i, j \in 1..n : seq[i] = seq[j] => i = j
  /\ \A i \in 1..n : weight[ms[i]] = IF seq[i] = v THEN given[i] ELSE 0

\* What is due to v is what is given to v.
LEMMA DueListed ==
  ASSUME NEW ms, NEW T, NEW weight, NEW v, NEW seq, NEW given, NEW n,
         Splits(ms, T, weight, v, seq, given, n)
  PROVE  /\ \A j \in 1..n : seq[j] = v => Due(ms, weight) = given[j]
         /\ (\A j \in 1..n : seq[j] # v) => Due(ms, weight) = 0
<1> DEFINE f == [i \in 1..Len(ms) |-> weight[ms[i]]]
<1> USE DEF Splits
<1>1. Len(ms) = n
  OBVIOUS
<1>2. \A i \in 1..n : f[i] \in Nat /\ f[i] = IF seq[i] = v THEN given[i] ELSE 0
  BY <1>1
<1>3. Due(ms, weight) = SumTo(f, n)
  BY <1>1 DEF Due
<1> HIDE DEF f
<1>4. ASSUME NEW j \in 1..n, seq[j] = v
      PROVE  SumTo(f, n) = given[j]
  <2>1. \A i \in 1..n : i # j => f[i] = 0
    BY <1>2, <1>4
  <2>2. n \in Nat /\ \A i \in 1..n : f[i] \in Nat
    BY <1>2
  <2>3. SumTo(f, n) = f[j]
    BY ONLY <2>1, <2>2, j \in 1..n, SumToSingle
  <2>4. QED
    BY <2>3, <1>2, <1>4
<1>5. ASSUME \A j \in 1..n : seq[j] # v
      PROVE  SumTo(f, n) = 0
  <2>1. n \in Nat /\ \A i \in 1..n : f[i] = 0
    BY <1>2, <1>5
  <2>2. QED
    BY <2>1, SumToZero
<1>6. QED
  BY <1>3, <1>4, <1>5

\* A list of validators has a length and no repetition.
LEMMA ListedOnce ==
  ASSUME NEW S, NEW seq, RP!Lists(seq, S)
  PROVE  /\ Len(seq) \in Nat /\ DOMAIN seq = 1..Len(seq)
         /\ Len(seq) = RP!Cardinality(S)
         /\ \A i \in 1..Len(seq) : seq[i] \in S
         /\ \A i, j \in 1..Len(seq) : seq[i] = seq[j] => i = j
         /\ \A v \in S : \E i \in 1..Len(seq) : seq[i] = v
  BY DEF RP!Lists

\* Where the shares of the listed validators are added.
LEMMA AddedHere ==
  ASSUME NEW S \in SUBSET Validators, NEW seq, RP!Lists(seq, S),
         NEW d \in [Validators -> Nat],
         NEW coins, \A i \in 1..RP!Cardinality(S) : coins[i] \in Nat
  PROVE  /\ RW!Added(d, seq, coins) \in [Validators -> Nat]
         /\ \A i \in 1..RP!Cardinality(S) :
              RW!Added(d, seq, coins)[seq[i]] = d[seq[i]] + coins[i]
         /\ \A v \in Validators \ S : RW!Added(d, seq, coins)[v] = d[v]
<1>1. RP!Added(d, seq, coins) = RW!Added(d, seq, coins)
  BY DEF RP!Added, RW!Added
<1>2. QED
  BY <1>1, RegistryAssumed, RP!AddedListed

\* What a bond is split into: an amount for each registered validator.
LEMMA SharesType ==
  ASSUME WorldOK(work), NEW S \in SUBSET Validators, NEW amount \in Nat,
         CanDelegate(amount, RW!TotalsOf(RW!Ascending(S, work.delegation), work.delegation))
  PROVE  LET seq == RW!Ascending(S, work.delegation)
             totals == RW!TotalsOf(seq, work.delegation)
             shares == Delegations(amount, totals)
         IN  /\ RP!Lists(seq, S)
             /\ \A i \in 1..Len(seq) : shares[i] \in Nat
             /\ SumTo(shares, Len(seq)) = amount
             /\ S # {}
<1> DEFINE seq == RW!Ascending(S, work.delegation)
           totals == RW!TotalsOf(seq, work.delegation)
           shares == Delegations(amount, totals)
<1>1. \A v \in S : work.delegation[v] \in Nat
  BY DEF WorldOK, Worlds
<1>2. RP!Lists(seq, S)
  BY <1>1, ValidatorsListed
<1>3. totals \in Seq(Nat) /\ Len(totals) = Len(seq) /\ totals # <<>>
  <2> HIDE DEF seq
  <2>1. totals \in Seq(Nat) /\ Len(totals) = Len(seq)
    BY ONLY <1>1, <1>2, TotalsType
  <2>2. QED
    BY <2>1 DEF CanDelegate, seq
<1> HIDE DEF seq
<1>4. /\ \A i \in 1..Len(totals) : RP!Delegations(amount, totals)[i] \in Nat
      /\ RP!SumTo(RP!Delegations(amount, totals), Len(totals)) = amount
  BY <1>3, RegistryAssumed, RP!DelegationsPlaced
<1>5. RP!SumTo(RP!Delegations(amount, totals), Len(totals))
        = SumTo(RP!Delegations(amount, totals), Len(totals))
  BY DEF RP!SumTo, SumTo, RP!RunningSums, RunningSums
<1>6. RP!Delegations(amount, totals) = shares
  BY DistributionSame
<1> HIDE DEF shares, totals
<1>7. S # {}
  <2>1. Len(seq) # 0
    BY <1>3
  <2>2. QED
    BY <2>1, <1>2, ListedOnce
<1>8. QED
  BY <1>2, <1>3, <1>4, <1>5, <1>6, <1>7 DEF seq, totals, shares

\* The hub's delegations bring the validators to where the registry's Bond
\* has them.
LEMMA DelegatesLand ==
  ASSUME WorldOK(work), NEW amount \in Nat,
         CanDelegate(amount, RW!TotalsOf(RW!Ascending(work.registry, work.delegation),
                                         work.delegation)),
         NEW v \in Validators
  PROVE  LET ms == DelegateMessages(amount)
         IN  /\ work.delegation[v] + Due(ms, GainOf(v))
                  = RW!Bonded(amount, work.registry, work.delegation)[v]
             /\ Due(ms, LossOf(v)) = 0
             /\ Due(ms, ArrivalAt(v)) = 0
<1> DEFINE seq == RW!Ascending(work.registry, work.delegation)
           totals == RW!TotalsOf(seq, work.delegation)
           given == Delegations(amount, totals)
           messages == [i \in DOMAIN seq |->
                          [type |-> "Delegate", validator |-> seq[i], amount |-> given[i]]]
           ms == DelegateMessages(amount)
<1>1. work.registry \in SUBSET Validators /\ work.delegation \in [Validators -> Nat]
  BY DEF WorldOK, Worlds
<1>2. RP!Lists(seq, work.registry) /\ \A i \in 1..Len(seq) : given[i] \in Nat
  BY <1>1, SharesType
<1>3. /\ Len(seq) \in Nat /\ DOMAIN seq = 1..Len(seq)
      /\ \A i \in 1..Len(seq) : seq[i] \in Validators
      /\ \A i, j \in 1..Len(seq) : seq[i] = seq[j] => i = j
  BY <1>1, <1>2, ListedOnce
<1>4. /\ \A i \in 1..Len(seq) :
           RW!Bonded(amount, work.registry, work.delegation)[seq[i]]
             = work.delegation[seq[i]] + given[i]
      /\ \A w \in Validators \ work.registry :
           RW!Bonded(amount, work.registry, work.delegation)[w] = work.delegation[w]
  <2>1. RW!Bonded(amount, work.registry, work.delegation) = RW!Added(work.delegation, seq, given)
    BY DistributionHere DEF RW!Bonded
  <2>2. Len(seq) = RP!Cardinality(work.registry)
    BY <1>2, ListedOnce
  <2> DEFINE m == RP!Cardinality(work.registry)
  <2> HIDE DEF seq, given
  <2>3. \A i \in 1..m : given[i] \in Nat
    BY <1>2, <2>2
  <2>4. /\ \A i \in 1..m : RW!Added(work.delegation, seq, given)[seq[i]]
                             = work.delegation[seq[i]] + given[i]
        /\ \A w \in Validators \ work.registry :
             RW!Added(work.delegation, seq, given)[w] = work.delegation[w]
    BY ONLY <1>1, <1>2, <2>3, AddedHere
  <2>5. QED
    BY <2>1, <2>2, <2>4
<1>5. ms = Nonzero(messages)
  BY DEF DelegateMessages
<1> HIDE DEF seq, given, ms
<1>6. messages \in Seq(ToDelegate) /\ Len(messages) = Len(seq)
  <2>1. \A i \in 1..Len(seq) :
          [type |-> "Delegate", validator |-> seq[i], amount |-> given[i]] \in ToDelegate
    BY <1>2, <1>3 DEF ToDelegate
  <2>2. QED
    BY <1>3, <2>1
<1>7. messages \in Seq(Messages)
  BY <1>6, StakeMessages, SeqMonotone
<1>8. \A i \in 1..Len(seq) : GainOf(v)[messages[i]] = IF seq[i] = v THEN given[i] ELSE 0
  <2> TAKE i \in 1..Len(seq)
  <2>1. messages[i] = [type |-> "Delegate", validator |-> seq[i], amount |-> given[i]]
    BY <1>3
  <2>2. messages[i] \in Messages
    BY <1>7, <1>6
  <2> HIDE DEF messages
  <2>3. QED
    BY <2>1, <2>2 DEF GainOf
<1>9. \A i \in 1..Len(messages) :
        i \notin {j \in DOMAIN messages : messages[j].amount # 0} => GainOf(v)[messages[i]] = 0
  <2> SUFFICES ASSUME NEW i \in 1..Len(messages), messages[i].amount = 0
               PROVE  GainOf(v)[messages[i]] = 0
    <3>1. DOMAIN messages = 1..Len(messages)
      BY <1>3, <1>6
    <3>2. QED
      BY <3>1
  <2>1. messages[i] \in Messages
    BY <1>7
  <2> HIDE DEF messages
  <2>2. QED
    BY <2>1 DEF GainOf
<1> HIDE DEF messages
<1>10. /\ \A j \in 1..Len(seq) : seq[j] = v => Due(messages, GainOf(v)) = given[j]
       /\ (\A j \in 1..Len(seq) : seq[j] # v) => Due(messages, GainOf(v)) = 0
  <2>1. Splits(messages, Messages, GainOf(v), v, seq, given, Len(seq))
    <3>1. GainOf(v) \in [Messages -> Nat]
      BY WeightsType
    <3>2. messages \in [1..Len(seq) -> Messages]
      BY <1>6, <1>7
    <3>3. QED
      BY <1>3, <1>8, <3>1, <3>2 DEF Splits
  <2>2. QED
    BY <2>1, DueListed
<1>11. Due(ms, GainOf(v)) = Due(messages, GainOf(v))
  BY <1>5, <1>7, <1>9, WeightsType, DueChosen, SMTT(20) DEF Nonzero
<1>12. ms \in Seq(ToDelegate)
  BY <1>5, <1>6, NonzeroType
<1>13. \A m \in ToDelegate : LossOf(v)[m] = 0 /\ ArrivalAt(v)[m] = 0
  BY StakeMessages DEF ToDelegate, LossOf, ArrivalAt
<1>14. Due(ms, LossOf(v)) = 0 /\ Due(ms, ArrivalAt(v)) = 0
  BY <1>12, <1>13, DueNothing
<1>15. work.delegation[v] \in Nat /\ \A i \in 1..Len(seq) : given[i] \in Nat
  BY <1>1, <1>2
<1>16. work.delegation[v] + Due(ms, GainOf(v)) = RW!Bonded(amount, work.registry, work.delegation)[v]
  <2>1. CASE v \in work.registry
    <3>1. PICK j \in 1..Len(seq) : seq[j] = v
      BY <1>2, <2>1, ListedOnce
    <3>2. QED
      BY <3>1, <1>4, <1>10, <1>11
  <2>2. CASE v \notin work.registry
    <3>1. \A j \in 1..Len(seq) : seq[j] # v
      BY <1>2, <2>2, ListedOnce
    <3>2. QED
      BY <3>1, <2>2, <1>4, <1>10, <1>11, <1>15
  <2>3. QED
    BY <2>1, <2>2
<1>17. QED
  BY <1>14, <1>16 DEF ms

\* What is taken from the listed validators.
LEMMA RemovedHere ==
  ASSUME NEW S \in SUBSET Validators, NEW seq, RP!Lists(seq, S),
         NEW d \in [Validators -> Nat],
         NEW coins, \A i \in 1..RP!Cardinality(S) : coins[i] \in Nat
  PROVE  /\ \A i \in 1..RP!Cardinality(S) :
              RW!Removed(d, seq, coins)[seq[i]] = d[seq[i]] - coins[i]
         /\ \A v \in Validators \ S : RW!Removed(d, seq, coins)[v] = d[v]
<1> DEFINE n == RP!Cardinality(S)
           at(v) == CHOOSE i \in DOMAIN seq : seq[i] = v
<1>1. /\ n \in Nat /\ DOMAIN seq = 1..n /\ \A i \in 1..n : seq[i] \in Validators /\ seq[i] \in S
      /\ \A i, j \in 1..n : seq[i] = seq[j] => i = j
  BY DEF RP!Lists
<1>2. ASSUME NEW i \in 1..n PROVE RW!Removed(d, seq, coins)[seq[i]] = d[seq[i]] - coins[i]
  <2>1. at(seq[i]) \in 1..n /\ seq[at(seq[i])] = seq[i]
    BY <1>1
  <2>2. at(seq[i]) = i
    BY <1>1, <2>1
  <2>3. RW!Removed(d, seq, coins)[seq[i]] = d[seq[i]] - coins[at(seq[i])]
    BY <1>1 DEF RW!Removed
  <2>4. QED
    BY <2>2, <2>3
<1>3. ASSUME NEW v \in Validators \ S PROVE RW!Removed(d, seq, coins)[v] = d[v]
  <2>1. ~ \E i \in DOMAIN seq : seq[i] = v
    BY <1>1
  <2>2. QED
    BY <2>1 DEF RW!Removed
<1>4. QED
  BY <1>2, <1>3

\* What the chain would be asked to move for nothing is not asked for.
LEMMA NonzeroDue ==
  ASSUME NEW ms \in Seq(Messages), NEW weight \in [Messages -> Nat],
         \A m \in Messages : m.amount = 0 => weight[m] = 0
  PROVE  Due(Nonzero(ms), weight) = Due(ms, weight)
<1>1. \A i \in 1..Len(ms) : i \notin {j \in DOMAIN ms : ms[j].amount # 0} => weight[ms[i]] = 0
  <2> SUFFICES ASSUME NEW i \in 1..Len(ms), ms[i].amount = 0 PROVE weight[ms[i]] = 0
    <3>1. DOMAIN ms = 1..Len(ms)
      OBVIOUS
    <3>2. QED
      BY <3>1
  <2>1. ms[i] \in Messages
    OBVIOUS
  <2>2. QED
    BY <2>1
<1>2. QED
  BY <1>1, DueChosen DEF Nonzero

\* What an unbonding is split into: no validator gives more than it has, and
\* if nothing is claimed none gives anything.
LEMMA ClaimsType ==
  ASSUME WorldOK(work), NEW claim \in Nat,
         CanUndelegate(claim, RW!TotalsOf(RW!Descending(RW!Delegated, work.delegation),
                                          work.delegation))
  PROVE  LET seq == RW!Descending(RW!Delegated, work.delegation)
             totals == RW!TotalsOf(seq, work.delegation)
             taken == Undelegations(claim, totals)
         IN  /\ RP!Lists(seq, RW!Delegated)
             /\ \A i \in 1..Len(seq) : /\ taken[i] \in Nat
                                       /\ taken[i] <= work.delegation[seq[i]]
                                       /\ claim = 0 => taken[i] = 0
             /\ claim <= Staked(work)
<1> DEFINE seq == RW!Descending(RW!Delegated, work.delegation)
           totals == RW!TotalsOf(seq, work.delegation)
           taken == Undelegations(claim, totals)
<1>1. /\ RW!Delegated \in SUBSET Validators /\ \A v \in RW!Delegated : work.delegation[v] \in Nat
      /\ \A v \in Validators : work.delegation[v] \in Nat
      /\ \A v \in Validators \ RW!Delegated : work.delegation[v] = 0
  BY DEF WorldOK, Worlds, RW!Delegated
<1>2. RP!Lists(seq, RW!Delegated)
  BY <1>1, ValidatorsListed
<1>3. /\ totals \in Seq(Nat) /\ Len(totals) = Len(seq)
      /\ \A i \in 1..Len(seq) : totals[i] = work.delegation[seq[i]]
  <2> HIDE DEF seq
  <2>1. QED
    BY ONLY <1>1, <1>2, TotalsType
<1>4. /\ totals # <<>> /\ claim <= RP!SumTo(totals, Len(totals))
      /\ claim <= SumTo(totals, Len(totals))
  BY DEF CanUndelegate, SumTo, RP!SumTo, RunningSums, RP!RunningSums
<1>5. /\ \A i \in 1..Len(totals) : /\ RP!Undelegations(claim, totals)[i] \in Nat
                                   /\ RP!Undelegations(claim, totals)[i] <= totals[i]
      /\ RP!SumTo(RP!Undelegations(claim, totals), Len(totals)) = claim
  BY <1>3, <1>4, RegistryAssumed, RP!UndelegationsPlaced
<1>6. /\ RP!Undelegations(claim, totals) = taken
      /\ RP!SumTo(taken, Len(totals)) = SumTo(taken, Len(totals))
  BY DistributionSame DEF SumTo, RP!SumTo, RunningSums, RP!RunningSums
<1> HIDE DEF seq, taken
<1>7. \A i \in 1..Len(seq) : taken[i] \in Nat /\ taken[i] <= work.delegation[seq[i]]
  BY <1>3, <1>5, <1>6
<1>8. claim = 0 => \A i \in 1..Len(seq) : taken[i] = 0
  <2>1. Len(seq) \in Nat
    BY <1>2, ListedOnce
  <2>2. \A i \in 1..Len(seq) : taken[i] <= SumTo(taken, Len(seq))
    BY <2>1, <1>7, SumToElement
  <2>3. SumTo(taken, Len(seq)) = claim
    BY <1>3, <1>5, <1>6
  <2>4. QED
    BY <2>2, <2>3, <1>7
<1>9. claim <= Staked(work)
  <2>1. SumOver(work.delegation, RW!Delegated) = SumTo(totals, Len(seq))
    <3>1. IsFiniteSet(RW!Delegated)
      BY <1>1, ProtocolAssumption, FS_Subset
    <3>2. /\ Len(seq) \in Nat
          /\ \A i \in 1..Len(seq) : seq[i] \in RW!Delegated
          /\ \A i, j \in 1..Len(seq) : seq[i] = seq[j] => i = j
          /\ \A v \in RW!Delegated : \E i \in 1..Len(seq) : seq[i] = v
      BY <1>2, ListedOnce
    <3> HIDE DEF totals
    <3> DEFINE n == Len(seq)
               S == RW!Delegated
               f == work.delegation
    <3>3. /\ n \in Nat /\ IsFiniteSet(S) /\ \A x \in S : f[x] \in Nat
          /\ \A i \in 1..n : seq[i] \in S /\ totals[i] = f[seq[i]]
          /\ \A i, j \in 1..n : seq[i] = seq[j] => i = j
          /\ \A x \in S : \E i \in 1..n : seq[i] = x
      BY <3>1, <3>2, <1>1, <1>3
    <3> HIDE DEF n, S, f
    <3>4. SumOver(f, S) = SumTo(totals, n)
      BY ONLY <3>3, SumOverEnumerated
    <3>5. QED
      BY <3>4 DEF n, S, f
  <2>2. SumOver(work.delegation, Validators) = SumOver(work.delegation, RW!Delegated)
    BY <1>1, ProtocolAssumption, SumOverSupport
  <2>3. QED
    BY <2>1, <2>2, <1>3, <1>4 DEF Staked
<1>10. QED
  BY <1>2, <1>7, <1>8, <1>9 DEF seq, taken

\* The hub's undelegations bring the validators to where the registry's
\* Undelegate has them.
LEMMA UndelegatesLand ==
  ASSUME WorldOK(work), NEW claim \in Nat,
         CanUndelegate(claim, RW!TotalsOf(RW!Descending(RW!Delegated, work.delegation),
                                          work.delegation)),
         NEW v \in Validators
  PROVE  LET seq == RW!Descending(RW!Delegated, work.delegation)
             totals == RW!TotalsOf(seq, work.delegation)
             ms == UndelegateMessages(claim)
         IN  /\ work.delegation[v] - Due(ms, LossOf(v))
                  = RW!Removed(work.delegation, seq, Undelegations(claim, totals))[v]
             /\ Due(ms, GainOf(v)) = 0
             /\ Due(ms, ArrivalAt(v)) = 0
             /\ claim = 0 => Due(ms, LossOf(v)) = 0
<1> DEFINE seq == RW!Descending(RW!Delegated, work.delegation)
           totals == RW!TotalsOf(seq, work.delegation)
           taken == Undelegations(claim, totals)
           messages == [i \in DOMAIN seq |->
                          [type |-> "Undelegate", validator |-> seq[i], amount |-> taken[i]]]
           ms == UndelegateMessages(claim)
<1>1. RW!Delegated \in SUBSET Validators /\ work.delegation \in [Validators -> Nat]
  BY DEF WorldOK, Worlds, RW!Delegated
<1>2. /\ RP!Lists(seq, RW!Delegated) /\ \A i \in 1..Len(seq) : taken[i] \in Nat
      /\ claim = 0 => \A i \in 1..Len(seq) : taken[i] = 0
  BY ClaimsType
<1>3. /\ Len(seq) \in Nat /\ DOMAIN seq = 1..Len(seq)
      /\ \A i \in 1..Len(seq) : seq[i] \in Validators
      /\ \A i, j \in 1..Len(seq) : seq[i] = seq[j] => i = j
      /\ Len(seq) = RP!Cardinality(RW!Delegated)
  BY <1>1, <1>2, ListedOnce
<1>4. ms = Nonzero(messages)
  BY DEF UndelegateMessages
<1> HIDE DEF seq, taken, ms
<1>5. /\ \A i \in 1..RP!Cardinality(RW!Delegated) :
           RW!Removed(work.delegation, seq, taken)[seq[i]] = work.delegation[seq[i]] - taken[i]
      /\ \A w \in Validators \ RW!Delegated :
           RW!Removed(work.delegation, seq, taken)[w] = work.delegation[w]
  <2> DEFINE m == RP!Cardinality(RW!Delegated)
  <2>1. \A i \in 1..m : taken[i] \in Nat
    BY <1>2, <1>3
  <2>2. QED
    BY ONLY <1>1, <1>2, <2>1, RemovedHere
<1>6. messages \in Seq(ToUndelegate) /\ Len(messages) = Len(seq)
  <2>1. \A i \in 1..Len(seq) :
          [type |-> "Undelegate", validator |-> seq[i], amount |-> taken[i]] \in ToUndelegate
    BY <1>2, <1>3 DEF ToUndelegate
  <2>2. QED
    BY <1>3, <2>1
<1>7. messages \in Seq(Messages)
  BY <1>6, StakeMessages, SeqMonotone
<1>8. \A i \in 1..Len(seq) : LossOf(v)[messages[i]] = IF seq[i] = v THEN taken[i] ELSE 0
  <2> TAKE i \in 1..Len(seq)
  <2>1. messages[i] = [type |-> "Undelegate", validator |-> seq[i], amount |-> taken[i]]
    BY <1>3
  <2>2. messages[i] \in Messages
    BY <1>7, <1>6
  <2> HIDE DEF messages
  <2>3. QED
    BY <2>1, <2>2 DEF LossOf
<1> HIDE DEF messages
<1>9. /\ \A j \in 1..Len(seq) : seq[j] = v => Due(messages, LossOf(v)) = taken[j]
      /\ (\A j \in 1..Len(seq) : seq[j] # v) => Due(messages, LossOf(v)) = 0
  <2>1. Splits(messages, Messages, LossOf(v), v, seq, taken, Len(seq))
    <3>1. LossOf(v) \in [Messages -> Nat]
      BY WeightsType
    <3>2. messages \in [1..Len(seq) -> Messages]
      BY <1>6, <1>7
    <3>3. QED
      BY <1>3, <1>8, <3>1, <3>2 DEF Splits
  <2>2. QED
    BY <2>1, DueListed
<1>10. Due(ms, LossOf(v)) = Due(messages, LossOf(v))
  <2>1. \A m \in Messages : m.amount = 0 => LossOf(v)[m] = 0
    BY DEF LossOf
  <2>2. QED
    BY <1>4, <1>7, <2>1, WeightsType, NonzeroDue
<1>11. ms \in Seq(ToUndelegate)
  BY <1>4, <1>6, NonzeroType
<1>12. \A m \in ToUndelegate : GainOf(v)[m] = 0 /\ ArrivalAt(v)[m] = 0
  BY StakeMessages DEF ToUndelegate, GainOf, ArrivalAt
<1>13. Due(ms, GainOf(v)) = 0 /\ Due(ms, ArrivalAt(v)) = 0
  BY <1>11, <1>12, DueNothing
<1>14. work.delegation[v] - Due(ms, LossOf(v)) = RW!Removed(work.delegation, seq, taken)[v]
       /\ (claim = 0 => Due(ms, LossOf(v)) = 0)
  <2>1. CASE v \in RW!Delegated
    <3>1. PICK j \in 1..Len(seq) : seq[j] = v
      BY <1>2, <2>1, ListedOnce
    <3>2. QED
      BY <3>1, <1>2, <1>3, <1>5, <1>9, <1>10
  <2>2. CASE v \notin RW!Delegated
    <3>1. \A j \in 1..Len(seq) : seq[j] # v
      BY <1>2, <2>2, ListedOnce
    <3>2. work.delegation[v] \in Nat
      BY <1>1
    <3>3. QED
      BY <3>1, <3>2, <2>2, <1>5, <1>9, <1>10
  <2>3. QED
    BY <2>1, <2>2
<1>15. QED
  BY <1>13, <1>14 DEF ms, seq, taken

\* What the hub has the chain move from u for a pair of a validator and an
\* amount, and the messages of execute_redelegate_proxy.
MoveOf(u, p) == [type |-> "Redelegate", src |-> u, validator |-> p[1], amount |-> p[2]]

ProxyMessages(u, redelegations) ==
  [i \in DOMAIN redelegations |-> MoveOf(u, redelegations[i])]

Pairs == Validators \X Nat
NonzeroPairs == Validators \X (Nat \ {0})

LEMMA MoveOfType ==
  ASSUME NEW u \in Validators, NEW p \in Pairs
  PROVE  MoveOf(u, p) \in ToRedelegate /\ MoveOf(u, p) \in Messages
<1>1. MoveOf(u, p) \in ToRedelegate
  BY DEF MoveOf, Pairs, ToRedelegate
<1>2. QED
  BY <1>1, StakeMessages

LEMMA ProxyMessagesType ==
  ASSUME NEW u \in Validators, NEW ps \in Seq(Pairs)
  PROVE  ProxyMessages(u, ps) \in Seq(ToRedelegate) /\ ProxyMessages(u, ps) \in Seq(Messages)
<1> DEFINE ms == ProxyMessages(u, ps)
<1>1. Len(ps) \in Nat /\ DOMAIN ps = 1..Len(ps) /\ \A i \in 1..Len(ps) : ps[i] \in Pairs
  OBVIOUS
<1>2. \A i \in 1..Len(ps) : MoveOf(u, ps[i]) \in ToRedelegate
  BY <1>1, MoveOfType
<1>3. ms \in Seq(ToRedelegate)
  BY <1>1, <1>2 DEF ProxyMessages
<1>4. QED
  BY <1>3, StakeMessages, SeqMonotone

\* The messages weigh what the pairs do.
LEMMA DueMapped ==
  ASSUME NEW T, NEW ps \in Seq(T), NEW u, NEW weight, NEW share,
         \A p \in T : weight[MoveOf(u, p)] = share[p]
  PROVE  Due(ProxyMessages(u, ps), weight) = Due(ps, share)
<1> DEFINE ms == ProxyMessages(u, ps)
           f == [i \in 1..Len(ms) |-> weight[ms[i]]]
           g == [i \in 1..Len(ps) |-> share[ps[i]]]
<1>1. /\ Len(ps) \in Nat /\ DOMAIN ps = 1..Len(ps)
      /\ \A i \in 1..Len(ps) : ps[i] \in T
  OBVIOUS
<1>2. /\ Len(ms) = Len(ps)
      /\ \A i \in 1..Len(ps) : ms[i] = MoveOf(u, ps[i])
  BY <1>1 DEF ProxyMessages
<1> HIDE DEF ms
<1>3. f = g
  BY <1>1, <1>2
<1>4. QED
  BY <1>2, <1>3 DEF Due, ms

\* What is not chosen has no weight.
Spares(seq, S, weight) == \A i \in 1..Len(seq) : i \notin S => weight[seq[i]] = 0

LEMMA DueSpared ==
  ASSUME NEW T, NEW seq \in Seq(T), NEW S, NEW weight \in [T -> Nat], Spares(seq, S, weight)
  PROVE  Due(Chosen(seq, S), weight) = Due(seq, weight)
  BY DueChosen DEF Spares

\* The messages for the pairs that are chosen move what all the pairs would.
LEMMA DueRedelegated ==
  ASSUME NEW u \in Validators, NEW v \in Validators, NEW pairs \in Seq(Pairs)
  PROVE  LET nonzero == {i \in DOMAIN pairs : pairs[i][2] # 0}
             ms == ProxyMessages(u, Chosen(pairs, nonzero))
         IN  /\ Due(ms, GainOf(v)) = Due(pairs, [p \in Pairs |-> IF p[1] = v THEN p[2] ELSE 0])
             /\ Due(ms, LossOf(v)) = Due(pairs, [p \in Pairs |-> IF u = v THEN p[2] ELSE 0])
             /\ Due(ms, ArrivalAt(v))
                  = Due(pairs, [p \in Pairs |-> IF p[1] = v /\ p[2] # 0 THEN 1 ELSE 0])
             /\ ms \in Seq(ToRedelegate)
<1> DEFINE nonzero == {i \in DOMAIN pairs : pairs[i][2] # 0}
           ps == Chosen(pairs, nonzero)
           ms == ProxyMessages(u, ps)
           gain == [p \in Pairs |-> IF p[1] = v THEN p[2] ELSE 0]
           loss == [p \in Pairs |-> IF u = v THEN p[2] ELSE 0]
           arrival == [p \in Pairs |-> IF p[1] = v /\ p[2] # 0 THEN 1 ELSE 0]
<1>1. gain \in [Pairs -> Nat] /\ loss \in [Pairs -> Nat] /\ arrival \in [Pairs -> Nat]
  BY DEF Pairs
<1>2. ps \in Seq(NonzeroPairs) /\ ps \in Seq(Pairs)
  <2>1. \A i \in 1..Len(pairs) : i \in nonzero => pairs[i] \in NonzeroPairs
    <3> TAKE i \in 1..Len(pairs)
    <3>1. pairs[i] \in Validators \X Nat
      BY DEF Pairs
    <3>2. i \in nonzero => pairs[i][2] # 0
      OBVIOUS
    <3> HIDE DEF nonzero
    <3>3. QED
      BY <3>1, <3>2 DEF NonzeroPairs
  <2>2. ps \in Seq(NonzeroPairs)
    BY <2>1, ChosenType
  <2>3. NonzeroPairs \subseteq Pairs
    BY DEF Pairs, NonzeroPairs
  <2>4. QED
    BY <2>2, <2>3, SeqMonotone
<1>3. \A p \in NonzeroPairs : /\ GainOf(v)[MoveOf(u, p)] = gain[p]
                              /\ LossOf(v)[MoveOf(u, p)] = loss[p]
                              /\ ArrivalAt(v)[MoveOf(u, p)] = arrival[p]
  <2> TAKE p \in NonzeroPairs
  <2>1. p \in Pairs /\ p[2] # 0
    BY DEF Pairs, NonzeroPairs
  <2>2. MoveOf(u, p) \in Messages
    BY <2>1, MoveOfType
  <2>3. /\ MoveOf(u, p).type = "Redelegate" /\ MoveOf(u, p).src = u
        /\ MoveOf(u, p).validator = p[1] /\ MoveOf(u, p).amount = p[2]
    BY DEF MoveOf
  <2>4. gain[p] = (IF p[1] = v THEN p[2] ELSE 0) /\ loss[p] = (IF u = v THEN p[2] ELSE 0)
        /\ arrival[p] = (IF p[1] = v THEN 1 ELSE 0)
    BY <2>1
  <2> HIDE DEF gain, loss, arrival
  <2>5. QED
    BY <2>2, <2>3, <2>4 DEF GainOf, LossOf, ArrivalAt
<1>4. /\ Spares(pairs, nonzero, gain)
      /\ Spares(pairs, nonzero, loss)
      /\ Spares(pairs, nonzero, arrival)
  <2>1. DOMAIN pairs = 1..Len(pairs) /\ \A i \in 1..Len(pairs) : pairs[i] \in Pairs
    OBVIOUS
  <2>2. \A i \in 1..Len(pairs) : i \notin nonzero => pairs[i][2] = 0
    BY <2>1
  <2>3. \A p \in Pairs : p[2] = 0 => gain[p] = 0 /\ loss[p] = 0 /\ arrival[p] = 0
    OBVIOUS
  <2> HIDE DEF nonzero, gain, loss, arrival
  <2>4. QED
    BY <2>1, <2>2, <2>3 DEF Spares
<1> HIDE DEF gain, loss, arrival, nonzero
<1>5. /\ Due(ps, gain) = Due(pairs, gain)
      /\ Due(ps, loss) = Due(pairs, loss)
      /\ Due(ps, arrival) = Due(pairs, arrival)
  BY <1>1, <1>4, DueSpared
<1> HIDE DEF ps
<1>6. /\ Due(ms, GainOf(v)) = Due(ps, gain)
      /\ Due(ms, LossOf(v)) = Due(ps, loss)
      /\ Due(ms, ArrivalAt(v)) = Due(ps, arrival)
  BY <1>2, <1>3, DueMapped
<1>7. ms \in Seq(ToRedelegate)
  BY <1>2, ProxyMessagesType
<1>8. QED
  BY <1>5, <1>6, <1>7 DEF ps, nonzero, gain, loss, arrival

\* What the hub redelegates for the registry brings the validators to where
\* the registry's removal has them.
LEMMA RedelegatesLand ==
  ASSUME WorldOK(work), NEW S \in SUBSET Validators, NEW u \in Validators \ S,
         CanDelegate(work.delegation[u],
                     RW!TotalsOf(RW!Ascending(S, work.delegation), work.delegation)),
         NEW v \in Validators
  PROVE  LET rest == RW!Ascending(S, work.delegation)
             shares == Delegations(work.delegation[u], RW!TotalsOf(rest, work.delegation))
             pairs == [i \in DOMAIN rest |-> <<rest[i], shares[i]>>]
             ms == ProxyMessages(u, Chosen(pairs, {i \in DOMAIN pairs : pairs[i][2] # 0}))
             moved == [RW!Added(work.delegation, rest, shares) EXCEPT ![u] = 0]
         IN  /\ work.delegation[v] + Due(ms, GainOf(v)) - Due(ms, LossOf(v)) = moved[v]
             /\ Due(ms, ArrivalAt(v)) > 0 <=> moved[v] > work.delegation[v]
             /\ ms \in Seq(ToRedelegate)
<1> DEFINE rest == RW!Ascending(S, work.delegation)
           totals == RW!TotalsOf(rest, work.delegation)
           shares == Delegations(work.delegation[u], totals)
           pairs == [i \in DOMAIN rest |-> <<rest[i], shares[i]>>]
           nonzero == {i \in DOMAIN pairs : pairs[i][2] # 0}
           ps == Chosen(pairs, nonzero)
           ms == ProxyMessages(u, ps)
           added == RW!Added(work.delegation, rest, shares)
           n == Len(rest)
           d == work.delegation
<1>1. d \in [Validators -> Nat] /\ d[u] \in Nat
  BY DEF WorldOK, Worlds
<1>2. /\ RP!Lists(rest, S) /\ (\A i \in 1..n : shares[i] \in Nat)
      /\ SumTo(shares, n) = d[u]
  BY <1>1, SharesType
<1>3. /\ n \in Nat /\ DOMAIN rest = 1..n /\ n = RP!Cardinality(S)
      /\ \A i \in 1..n : rest[i] \in S /\ rest[i] \in Validators /\ rest[i] # u
      /\ \A i, j \in 1..n : rest[i] = rest[j] => i = j
  BY <1>2, ListedOnce
<1> HIDE DEF shares, rest, d
<1>4. /\ added \in [Validators -> Nat]
      /\ \A i \in 1..RP!Cardinality(S) : added[rest[i]] = d[rest[i]] + shares[i]
      /\ \A w \in Validators \ S : added[w] = d[w]
  <2>1. \A i \in 1..RP!Cardinality(S) : shares[i] \in Nat
    BY <1>2, <1>3
  <2>2. QED
    BY <1>1, <1>2, <2>1, AddedHere DEF d
<1>5. pairs \in Seq(Pairs) /\ Len(pairs) = n /\ \A i \in 1..n : pairs[i] = <<rest[i], shares[i]>>
  BY <1>2, <1>3, SMTT(20) DEF Pairs
<1>6. pairs \in [1..n -> Pairs] /\ DOMAIN pairs = 1..n
  BY <1>3, <1>5
<1> HIDE DEF pairs, n, added
<1> DEFINE gain == [p \in Pairs |-> IF p[1] = v THEN p[2] ELSE 0]
           loss == [p \in Pairs |-> IF u = v THEN p[2] ELSE 0]
           arrival == [p \in Pairs |-> IF p[1] = v /\ p[2] # 0 THEN 1 ELSE 0]
<1>8. gain \in [Pairs -> Nat] /\ loss \in [Pairs -> Nat] /\ arrival \in [Pairs -> Nat]
  BY DEF Pairs
<1>12. \A i \in 1..n : /\ gain[pairs[i]] = IF rest[i] = v THEN shares[i] ELSE 0
                       /\ arrival[pairs[i]] = IF rest[i] = v
                                              THEN [j \in 1..n |-> IF shares[j] # 0 THEN 1 ELSE 0][i]
                                              ELSE 0
                       /\ loss[pairs[i]] = IF u = v THEN shares[i] ELSE 0
  BY <1>5, <1>6
<1>13. /\ Due(ms, GainOf(v)) = Due(pairs, gain)
       /\ Due(ms, LossOf(v)) = Due(pairs, loss)
       /\ Due(ms, ArrivalAt(v)) = Due(pairs, arrival)
       /\ ms \in Seq(ToRedelegate)
  BY <1>5, DueRedelegated
<1> HIDE DEF gain, loss, arrival, nonzero, ps, ms
<1>14. /\ \A j \in 1..n : rest[j] = v => Due(pairs, gain) = shares[j]
       /\ (\A j \in 1..n : rest[j] # v) => Due(pairs, gain) = 0
  <2>1. Splits(pairs, Pairs, gain, v, rest, shares, n)
    BY <1>3, <1>6, <1>8, <1>12 DEF Splits
  <2>2. QED
    BY <2>1, DueListed
<1>15. /\ \A j \in 1..n : rest[j] = v => Due(pairs, arrival) = IF shares[j] # 0 THEN 1 ELSE 0
       /\ (\A j \in 1..n : rest[j] # v) => Due(pairs, arrival) = 0
  <2> DEFINE ones == [j \in 1..n |-> IF shares[j] # 0 THEN 1 ELSE 0]
  <2>1. Splits(pairs, Pairs, arrival, v, rest, ones, n)
    BY <1>3, <1>6, <1>8, <1>12 DEF Splits
  <2>2. \A j \in 1..n : ones[j] = IF shares[j] # 0 THEN 1 ELSE 0
    OBVIOUS
  <2> HIDE DEF ones
  <2>3. /\ \A j \in 1..n : rest[j] = v => Due(pairs, arrival) = ones[j]
        /\ (\A j \in 1..n : rest[j] # v) => Due(pairs, arrival) = 0
    BY <2>1, DueListed
  <2>4. QED
    BY <2>2, <2>3
<1>16. Due(pairs, loss) = IF u = v THEN d[u] ELSE 0
  <2> DEFINE f == [i \in 1..Len(pairs) |-> loss[pairs[i]]]
  <2>1. \A i \in 1..n : f[i] = IF u = v THEN shares[i] ELSE 0
    BY <1>5, <1>12
  <2>2. Due(pairs, loss) = SumTo(f, n)
    BY <1>5 DEF Due
  <2> HIDE DEF f
  <2>3. CASE u = v
    <3>1. \A i \in 1..n : shares[i] \in Nat /\ f[i] = shares[i]
      BY <2>1, <2>3, <1>2 DEF n
    <3>2. n \in Nat
      BY <1>3
    <3>3. SumTo(f, n) = SumTo(shares, n)
      BY ONLY <3>1, <3>2, SumToSame
    <3>4. QED
      BY <3>3, <2>2, <2>3, <1>2 DEF n
  <2>4. CASE u # v
    <3>1. n \in Nat /\ \A i \in 1..n : f[i] = 0
      BY <2>1, <2>4, <1>3
    <3>2. SumTo(f, n) = 0
      BY <3>1, SumToZero
    <3>3. QED
      BY <3>2, <2>2, <2>4
  <2>5. QED
    BY <2>3, <2>4
<1> DEFINE moved == [added EXCEPT ![u] = 0]
<1>17. moved[v] = IF u = v THEN 0 ELSE added[v]
  BY <1>4
<1>18. /\ d[v] + Due(ms, GainOf(v)) - Due(ms, LossOf(v)) = moved[v]
       /\ Due(ms, ArrivalAt(v)) > 0 <=> moved[v] > d[v]
  <2>1. d[v] \in Nat /\ d[u] \in Nat
    BY <1>1
  <2>2. CASE v \in S
    <3>1. PICK j \in 1..n : rest[j] = v
      BY <1>2, <2>2, ListedOnce DEF n
    <3>2. added[v] = d[v] + shares[j] /\ shares[j] \in Nat /\ u # v
      BY <3>1, <1>2, <1>3, <1>4 DEF n
    <3>3. /\ Due(ms, GainOf(v)) = shares[j] /\ Due(ms, LossOf(v)) = 0
          /\ Due(ms, ArrivalAt(v)) = IF shares[j] # 0 THEN 1 ELSE 0
      BY <3>1, <3>2, <1>13, <1>14, <1>15, <1>16
    <3> HIDE DEF moved
    <3>4. QED
      BY <3>2, <3>3, <2>1, <1>17
  <2>3. CASE v \notin S
    <3>1. \A j \in 1..n : rest[j] # v
      BY <1>3, <2>3
    <3>2. added[v] = d[v]
      BY <2>3, <1>4
    <3>3. /\ Due(ms, GainOf(v)) = 0 /\ Due(ms, LossOf(v)) = IF u = v THEN d[u] ELSE 0
          /\ Due(ms, ArrivalAt(v)) = 0
      BY <3>1, <1>13, <1>14, <1>15, <1>16
    <3> HIDE DEF moved
    <3>4. QED
      BY <3>2, <3>3, <2>1, <1>17
  <2>4. QED
    BY <2>2, <2>3
<1>19. QED
  BY <1>13, <1>18 DEF ms, ps, pairs, rest, shares, added, n, d, nonzero

-----------------------------------------------------------------------------
(***************************************************************************)
(* What the handlers do to the coins and the validators.                   *)
(***************************************************************************)
\* Wherever coins can be, and whatever the registry keeps.
CoinsKept ==
  /\ work'.coins = work.coins /\ work'.delegation = work.delegation
  /\ work'.entries = work.entries /\ work'.rewards = work.rewards

StakeKept ==
  /\ work'.registry = work.registry /\ work'.delegation = work.delegation
  /\ work'.receiving = work.receiving /\ work'.params = work.params

\* What is claimed for the batch when an unbonding ends it.
Claimed ==
  Times(work.batch.requested_statom + Message.amount, HW!ActualState.statom_exchange_rate)

\* receive_cw20 moves no coins itself.
LEMMA ReceiveEffect ==
  ASSUME Typed, ReceiveUnbond
  PROVE  /\ CoinsKept /\ StakeKept
         /\ Message.amount \in Nat /\ Claimed \in Nat /\ ~work.params.paused
         /\ \/ Answer(<<BurnOfHub(Message.amount)>>)
            \/ /\ CanUndelegate(Claimed, RW!TotalsOf(RW!Descending(RW!Delegated, work.delegation),
                                                     work.delegation))
               /\ Answer(UndelegateMessages(Claimed) \o <<BurnOfHub(Message.amount)>>)
<1> DEFINE m == Message
           s == HW!ActualState
           requested == work.batch.requested_statom + m.amount
           wait == [work.wait EXCEPT ![m.user][work.batch.id] = @ + m.amount]
<1>1. Fields(m) /\ m.type = "Receive" /\ ~work.params.paused
  BY FirstMessage DEF ReceiveUnbond, Handling
<1>2. work \in Worlds /\ s \in HW!State
  BY HubTyped, HubComputes DEF Typed, WorldOK
<1>3. m.amount \in Nat
  BY <1>1 DEF Fields
<1>4. requested \in Nat /\ Claimed \in Nat
  <2>1. requested \in Nat /\ s.statom_exchange_rate \in Nat
    BY <1>2, <1>3, SMTT(20) DEF Worlds, HW!CurrentBatch, HW!State
  <2>2. QED
    BY <2>1, TimesBound DEF Claimed
<1> DEFINE new == [s EXCEPT !.total_bond_statom_amount = @ - Claimed, !.last_unbonded_time = now]
           entry == [time |-> now, statom_amount |-> requested,
                     statom_applied_exchange_rate |-> s.statom_exchange_rate,
                     statom_withdraw_rate |-> s.statom_exchange_rate, released |-> FALSE]
           due == [work EXCEPT !.wait = wait, !.state = new,
                               !.batch = [id |-> work.batch.id + 1, requested_statom |-> 0],
                               !.history = Append(work.history, entry)]
<1>5. \/ /\ work' = [work EXCEPT !.wait = wait, !.state = s, !.batch.requested_statom = requested]
         /\ Answer(<<BurnOfHub(m.amount)>>)
      \/ /\ CanUndelegate(Claimed, RW!TotalsOf(RW!Descending(RW!Delegated, work.delegation),
                                               work.delegation))
         /\ work' = due
         /\ Answer(UndelegateMessages(Claimed) \o <<BurnOfHub(m.amount)>>)
  <2>1. DOMAIN work = DOMAIN [work EXCEPT !.wait = wait]
    BY <1>2 DEF Worlds
  <2>2. [work EXCEPT !.wait[m.user][work.batch.id] = @ + m.amount] = [work EXCEPT !.wait = wait]
    BY <1>2 DEF Worlds
  <2> DEFINE waiting == [work EXCEPT !.wait = wait]
  <2>3. /\ waiting.batch = work.batch /\ waiting.history = work.history
        /\ [waiting EXCEPT !.state = s, !.batch.requested_statom = requested]
             = [work EXCEPT !.wait = wait, !.state = s, !.batch.requested_statom = requested]
    BY <1>2 DEF Worlds
  <2>4. [waiting EXCEPT !.state = new, !.batch = [id |-> @.id + 1, requested_statom |-> 0],
                        !.history = Append(@, entry)] = due
    BY <1>2, <2>3 DEF Worlds
  <2> HIDE DEF waiting, wait, new, entry, due, s, requested
  <2>5. QED
    BY <2>2, <2>3, <2>4 DEF ReceiveUnbond, BurntByUnbond, BurnOfHub, waiting, new, entry,
       s, requested, Claimed
<1> HIDE DEF wait, s, requested, new, entry
<1>6. CoinsKept /\ StakeKept
  BY <1>2, <1>5 DEF Worlds, CoinsKept, StakeKept
<1>7. QED
  BY <1>1, <1>3, <1>4, <1>5, <1>6

\* Handlers of the hub and of the token that move no coins themselves.
BookKeeping ==
  \/ ReceiveUnbond \/ WithdrawUnbonded \/ CheckSlashing \/ WithdrawAllRewards \/ RedelegateProxy
  \/ TokenHandler \/ DispatchRewards

LEMMA BooksOnly ==
  ASSUME Typed, BookKeeping
  PROVE  CoinsKept /\ StakeKept
<1> USE DEF CoinsKept, StakeKept
<1>1. work \in Worlds
  BY DEF Typed, WorldOK
<1>2. CASE ReceiveUnbond
  BY <1>2, ReceiveEffect
<1>3. CASE WithdrawUnbonded
  BY <1>1, <1>3 DEF WithdrawUnbonded, Worlds
<1>4. CASE CheckSlashing
  BY <1>1, <1>4 DEF CheckSlashing, Worlds
<1>5. CASE WithdrawAllRewards \/ RedelegateProxy \/ DispatchRewards
  BY <1>5 DEF WithdrawAllRewards, RedelegateProxy, DispatchRewards
<1>6. CASE Mint \/ IncreaseAllowance \/ DecreaseAllowance
  BY <1>1, <1>6 DEF Mint, IncreaseAllowance, DecreaseAllowance, Worlds
<1>7. ASSUME NEW m
      PROVE  \E allowance : Charged(m) = [work EXCEPT !.allowance = allowance]
  <2>1. work = [work EXCEPT !.allowance = work.allowance]
    BY <1>1 DEF Worlds
  <2>2. [work EXCEPT !.allowance[m.owner][m.sender] = @ - m.amount]
          = [work EXCEPT !.allowance =
               [work.allowance EXCEPT ![m.owner][m.sender] = @ - m.amount]]
    BY <1>1 DEF Worlds
  <2>3. QED
    BY <2>1, <2>2 DEF Charged
<1>8. CASE Transfer
  <2>1. PICK allowance : Charged(Message) = [work EXCEPT !.allowance = allowance]
    BY <1>7
  <2>2. QED
    BY <1>1, <1>8, <2>1 DEF Transfer, Worlds
<1>9. CASE Send
  <2>1. PICK allowance : Charged(Message) = [work EXCEPT !.allowance = allowance]
    BY <1>7
  <2>2. QED
    BY <1>1, <1>9, <2>1 DEF Send, Worlds
<1>10. CASE Burn
  <2>1. PICK allowance : Charged(Message) = [work EXCEPT !.allowance = allowance]
    BY <1>7
  <2>2. \E owner, n : \/ work' = [work EXCEPT !.tokens[owner] = n]
                      \/ work' = [[work EXCEPT !.allowance = allowance] EXCEPT !.tokens[owner] = n]
    BY <1>1, <1>10, <2>1 DEF Burn, Worlds
  <2>3. QED
    BY <1>1, <2>2 DEF Worlds
<1>11. QED
  BY <1>2, <1>3, <1>4, <1>5, <1>6, <1>8, <1>9, <1>10 DEF BookKeeping, TokenHandler

LEMMA PausedOnly ==
  ASSUME Typed, SetPaused
  PROVE  /\ CoinsKept
         /\ work'.registry = work.registry /\ work'.receiving = work.receiving
         /\ work'.params.paused = (Message.type = "PauseContracts")
  BY DEF SetPaused, Typed, WorldOK, Worlds, CoinsKept, HW!Parameters

LEMMA RegistryOnly ==
  ASSUME Typed, AddValidator \/ RemoveValidator
  PROVE  /\ CoinsKept /\ work'.receiving = work.receiving /\ work'.params = work.params
         /\ AddValidator => work'.registry = work.registry \union {Message.validator}
         /\ RemoveValidator => work'.registry = work.registry \ {Message.validator}
  BY DEF AddValidator, RemoveValidator, Typed, WorldOK, Worlds, CoinsKept

\* execute_bond moves coins to the hub, and no more.
LEMMA BondCoins ==
  ASSUME Typed, Bond
  PROVE  /\ StakeKept /\ work'.entries = work.entries /\ work'.rewards = work.rewards
         /\ work'.coins = Moved(work.coins, Message.sender, "hub", Message.amount)
         /\ Message.sender \in Accounts /\ Message.amount \in Nat
         /\ Message.amount <= work.coins[Message.sender]
<1>1. work \in Worlds
  BY DEF Typed, WorldOK
<1>2. Fields(Message) /\ Message.type \in {"BondForStAtom", "BondRewards"}
  BY FirstMessage DEF Bond, Handling
<1>3. Message.sender \in Accounts /\ Message.amount \in Nat
  BY <1>2 DEF Fields, Accounts
<1>4. \E state : work' = [work EXCEPT
                   !.coins = Moved(@, Message.sender, "hub", Message.amount), !.state = state]
  BY DEF Bond
<1>5. QED
  BY <1>1, <1>3, <1>4 DEF Worlds, StakeKept, Bond

\* The chain pays the rewards of S and moves stake.
LEMMA PaidOutFields ==
  ASSUME NEW w \in Worlds, NEW S
  PROVE  LET paid == PaidOut(w, S)
         IN  /\ paid.coins = [w.coins EXCEPT !["dispatcher"] = @ + SumOver(w.rewards, S)]
             /\ paid.rewards = [v \in Validators |-> IF v \in S THEN 0 ELSE w.rewards[v]]
             /\ paid.delegation = w.delegation /\ paid.entries = w.entries
             /\ paid.registry = w.registry /\ paid.receiving = w.receiving
             /\ paid.params = w.params
             /\ DOMAIN paid = DOMAIN w
  BY DEF PaidOut, Worlds

\* The staking module.
LEMMA PaidOutIs ==
  ASSUME Typed, NEW S
  PROVE  /\ PaidOut(work, S) = [work EXCEPT !.coins = PaidOut(work, S).coins,
                                            !.rewards = PaidOut(work, S).rewards]
         /\ work \in Worlds
  BY DEF PaidOut, Typed, WorldOK, Worlds

LEMMA DelegateEffect ==
  ASSUME Typed, Delegate
  PROVE  LET v == Message.validator
             n == Message.amount
             paid == PaidOut(work, {v})
         IN  /\ v \in Validators /\ n \in Nat /\ n <= work.coins["hub"]
             /\ work'.coins = [paid.coins EXCEPT !["hub"] = @ - n]
             /\ work'.rewards = paid.rewards
             /\ work'.delegation = [work.delegation EXCEPT ![v] = @ + n]
             /\ work'.entries = work.entries /\ work'.receiving = work.receiving
             /\ work'.registry = work.registry /\ work'.params = work.params
             /\ Message.type = "Delegate" /\ Answer(<<>>)
<1> DEFINE v == Message.validator
           n == Message.amount
           coins == PaidOut(work, {v}).coins
           rewards == PaidOut(work, {v}).rewards
<1>1. Fields(Message) /\ Message.type = "Delegate"
  BY FirstMessage DEF Delegate, Handling
<1>2. PaidOut(work, {v}) = [work EXCEPT !.coins = coins, !.rewards = rewards] /\ work \in Worlds
  BY PaidOutIs
<1>3. work' = [PaidOut(work, {v}) EXCEPT !.coins["hub"] = @ - n, !.delegation[v] = @ + n]
      /\ n <= work.coins["hub"] /\ Answer(<<>>)
  BY DEF Delegate
<1> HIDE DEF coins, rewards
<1>4. work' = [[work EXCEPT !.coins = coins, !.rewards = rewards]
                 EXCEPT !.coins["hub"] = @ - n, !.delegation[v] = @ + n]
  BY <1>2, <1>3
<1>5. /\ work'.coins = [coins EXCEPT !["hub"] = @ - n]
      /\ work'.rewards = rewards
      /\ work'.delegation = [work.delegation EXCEPT ![v] = @ + n]
      /\ work'.entries = work.entries /\ work'.receiving = work.receiving
      /\ work'.registry = work.registry /\ work'.params = work.params
  BY <1>2, <1>4 DEF Worlds
<1>6. QED
  BY <1>1, <1>3, <1>5 DEF Fields, coins, rewards

LEMMA UndelegateEffect ==
  ASSUME Typed, Undelegate
  PROVE  LET v == Message.validator
             n == Message.amount
             paid == PaidOut(work, {v})
         IN  /\ v \in Validators /\ n \in Nat /\ n <= work.delegation[v]
             /\ work'.coins = paid.coins
             /\ work'.rewards = paid.rewards
             /\ work'.delegation = [work.delegation EXCEPT ![v] = @ - n]
             /\ work'.entries = [work.entries EXCEPT ![v][now] = @ + n]
             /\ work'.receiving = work.receiving
             /\ work'.registry = work.registry /\ work'.params = work.params
             /\ Message.type = "Undelegate" /\ Answer(<<>>)
<1> DEFINE v == Message.validator
           n == Message.amount
           coins == PaidOut(work, {v}).coins
           rewards == PaidOut(work, {v}).rewards
<1>1. Fields(Message) /\ Message.type = "Undelegate"
  BY FirstMessage DEF Undelegate, Handling
<1>2. PaidOut(work, {v}) = [work EXCEPT !.coins = coins, !.rewards = rewards] /\ work \in Worlds
  BY PaidOutIs
<1>3. work' = [PaidOut(work, {v}) EXCEPT !.delegation[v] = @ - n, !.entries[v][now] = @ + n]
      /\ n <= work.delegation[v] /\ Answer(<<>>)
  BY DEF Undelegate
<1> HIDE DEF coins, rewards
<1>4. work' = [[work EXCEPT !.coins = coins, !.rewards = rewards]
                 EXCEPT !.delegation[v] = @ - n, !.entries[v][now] = @ + n]
  BY <1>2, <1>3
<1>5. /\ work'.coins = coins
      /\ work'.rewards = rewards
      /\ work'.delegation = [work.delegation EXCEPT ![v] = @ - n]
      /\ work'.entries = [work.entries EXCEPT ![v][now] = @ + n]
      /\ work'.receiving = work.receiving
      /\ work'.registry = work.registry /\ work'.params = work.params
  BY <1>2, <1>4 DEF Worlds
<1>6. QED
  BY <1>1, <1>3, <1>5 DEF Fields, coins, rewards

LEMMA RedelegateEffect ==
  ASSUME Typed, Redelegate
  PROVE  LET u == Message.src
             v == Message.validator
             n == Message.amount
             paid == PaidOut(work, {u, v})
         IN  /\ u \in Validators /\ v \in Validators /\ n \in Nat /\ n <= work.delegation[u]
             /\ u # v /\ u \notin work.receiving
             /\ work'.coins = paid.coins
             /\ work'.rewards = paid.rewards
             /\ work'.delegation = Moved(work.delegation, u, v, n)
             /\ work'.entries = work.entries
             /\ work'.receiving = work.receiving \union {v}
             /\ work'.registry = work.registry /\ work'.params = work.params
             /\ Message.type = "Redelegate" /\ Answer(<<>>)
<1> DEFINE u == Message.src
           v == Message.validator
           n == Message.amount
           coins == PaidOut(work, {u, v}).coins
           rewards == PaidOut(work, {u, v}).rewards
<1>1. Fields(Message) /\ Message.type = "Redelegate"
  BY FirstMessage DEF Redelegate, Handling
<1>2. /\ PaidOut(work, {u, v}) = [work EXCEPT !.coins = coins, !.rewards = rewards]
      /\ work \in Worlds
  BY PaidOutIs
<1>3. /\ work' = [PaidOut(work, {u, v}) EXCEPT !.delegation = Moved(@, u, v, n),
                                               !.receiving = @ \union {v}]
      /\ n <= work.delegation[u] /\ u # v /\ u \notin work.receiving /\ Answer(<<>>)
  BY DEF Redelegate
<1> HIDE DEF coins, rewards
<1>4. work' = [[work EXCEPT !.coins = coins, !.rewards = rewards]
                 EXCEPT !.delegation = Moved(@, u, v, n), !.receiving = @ \union {v}]
  BY <1>2, <1>3
<1>5. /\ work'.coins = coins
      /\ work'.rewards = rewards
      /\ work'.delegation = Moved(work.delegation, u, v, n)
      /\ work'.entries = work.entries
      /\ work'.receiving = work.receiving \union {v}
      /\ work'.registry = work.registry /\ work'.params = work.params
  BY <1>2, <1>4 DEF Worlds
<1>6. QED
  BY <1>1, <1>3, <1>5 DEF Fields, coins, rewards

LEMMA WithdrawEffect ==
  ASSUME Typed, WithdrawDelegatorReward
  PROVE  LET v == Message.validator
             paid == PaidOut(work, {v})
         IN  /\ v \in Validators
             /\ work'.coins = paid.coins /\ work'.rewards = paid.rewards
             /\ StakeKept /\ work'.entries = work.entries
             /\ Message.type = "WithdrawDelegatorReward" /\ Answer(<<>>)
<1> DEFINE v == Message.validator
           coins == PaidOut(work, {v}).coins
           rewards == PaidOut(work, {v}).rewards
<1>1. Fields(Message) /\ Message.type = "WithdrawDelegatorReward"
  BY FirstMessage DEF WithdrawDelegatorReward, Handling
<1>2. PaidOut(work, {v}) = [work EXCEPT !.coins = coins, !.rewards = rewards] /\ work \in Worlds
  BY PaidOutIs
<1>3. work' = PaidOut(work, {v}) /\ Answer(<<>>)
  BY DEF WithdrawDelegatorReward
<1> HIDE DEF coins, rewards
<1>4. /\ work'.coins = coins /\ work'.rewards = rewards
      /\ StakeKept /\ work'.entries = work.entries
  BY <1>2, <1>3 DEF Worlds, StakeKept
<1>5. QED
  BY <1>1, <1>3, <1>4 DEF Fields, coins, rewards

LEMMA BankSendEffect ==
  ASSUME Typed, BankSend
  PROVE  LET m == Message
         IN  /\ m.sender \in Accounts /\ m.to \in Accounts /\ m.amount \in Nat
             /\ m.amount <= work.coins[m.sender]
             /\ work'.coins = Moved(work.coins, m.sender, m.to, m.amount)
             /\ work'.rewards = work.rewards
             /\ StakeKept /\ work'.entries = work.entries
             /\ m.type = "BankSend" /\ Answer(<<>>)
<1> DEFINE m == Message
<1>1. Fields(m) /\ m.type = "BankSend" /\ work \in Worlds
  BY FirstMessage DEF BankSend, Handling, Typed, WorldOK
<1>2. m.sender \in Accounts /\ m.to \in Accounts /\ m.amount \in Nat
  BY <1>1 DEF Fields, Accounts
<1>3. QED
  BY <1>1, <1>2 DEF BankSend, Worlds, StakeKept

-----------------------------------------------------------------------------
(***************************************************************************)
(* No handler makes coins or destroys them.                                *)
(***************************************************************************)
LEMMA AccountsFinite ==
  /\ IsFiniteSet(Accounts) /\ IsFiniteSet(Validators) /\ IsFiniteSet(0..MaxTime)
  /\ {"hub", "dispatcher"} \subseteq Accounts /\ "hub" # "dispatcher"
<1>1. IsFiniteSet({"hub"}) /\ IsFiniteSet({"dispatcher"}) /\ IsFiniteSet({"fees"})
  BY FS_Singleton
<1>2. Accounts = ((Users \union {"hub"}) \union {"dispatcher"}) \union {"fees"}
  BY DEF Accounts
<1>3. IsFiniteSet(Accounts)
  BY <1>1, <1>2, ProtocolAssumption, FS_Union
<1>4. IsFiniteSet(0..MaxTime)
  BY ProtocolAssumption, FS_Interval
<1>5. QED
  BY <1>2, <1>3, <1>4, ProtocolAssumption

\* One amount more or less changes the sum by as much.
Differ(f, g, A, x) ==
  /\ f \in [A -> Nat] /\ g \in [A -> Nat] /\ x \in A
  /\ \A y \in A \ {x} : g[y] = f[y]

LEMMA SumDiffers ==
  ASSUME NEW A, NEW f, NEW g, NEW x, IsFiniteSet(A), Differ(f, g, A, x)
  PROVE  /\ SumOver(f, A) \in Nat /\ SumOver(g, A) \in Nat /\ f[x] \in Nat /\ g[x] \in Nat
         /\ SumOver(g, A) + f[x] = SumOver(f, A) + g[x]
<1>1. /\ \A y \in A : f[y] \in Nat /\ g[y] \in Nat
      /\ \A y \in A \ {x} : g[y] = f[y]
      /\ x \in A
  BY DEF Differ
<1>2. SumOver(f, A) \in Nat /\ SumOver(g, A) \in Nat
  BY <1>1, SumOverType
<1>3. SumOver(g, A) + f[x] = SumOver(f, A) + g[x]
  BY ONLY <1>1, IsFiniteSet(A), SumOverChange
<1>4. QED
  BY ONLY <1>1, <1>2, <1>3

\* What moves from one place to another is not lost.
CanMove(h, A, from, to, n) ==
  h \in [A -> Nat] /\ from \in A /\ to \in A /\ n \in Nat /\ n <= h[from]

LEMMA MovedSum ==
  ASSUME NEW A, NEW h, NEW from, NEW to, NEW n, IsFiniteSet(A), CanMove(h, A, from, to, n)
  PROVE  /\ Moved(h, from, to, n) \in [A -> Nat]
         /\ SumOver(Moved(h, from, to, n), A) = SumOver(h, A)
<1> USE DEF CanMove
<1> DEFINE less == [h EXCEPT ![from] = @ - n]
           more == [less EXCEPT ![to] = @ + n]
<1>1. Moved(h, from, to, n) = more
  BY DEF Moved
<1>2. h[from] \in Nat /\ h[from] - n \in Nat
  OBVIOUS
<1>3. Differ(h, less, A, from) /\ less[from] = h[from] - n
  BY <1>2 DEF Differ
<1>4. less \in [A -> Nat] /\ less[to] \in Nat
  BY <1>3 DEF Differ
<1> HIDE DEF less
<1>5. Differ(less, more, A, to) /\ more[to] = less[to] + n
  BY <1>4 DEF Differ
<1>6. more \in [A -> Nat]
  BY <1>5 DEF Differ
<1> HIDE DEF more
<1>7. SumOver(less, A) + h[from] = SumOver(h, A) + less[from] /\ SumOver(less, A) \in Nat
      /\ SumOver(h, A) \in Nat
  BY <1>3, SumDiffers
<1>8. SumOver(more, A) + less[to] = SumOver(less, A) + more[to] /\ SumOver(more, A) \in Nat
  BY <1>5, SumDiffers
<1>9. n \in Nat
  OBVIOUS
<1>10. SumOver(more, A) = SumOver(h, A)
  BY ONLY <1>2, <1>3, <1>4, <1>5, <1>7, <1>8, <1>9
<1>11. QED
  BY <1>1, <1>6, <1>10

\* The undelegations that are not paid out yet.
InEntries(entries) == SumOver([v \in Validators |-> SumOver(entries[v], 0..MaxTime)], Validators)

LEMMA InEntriesType ==
  ASSUME NEW entries \in [Validators -> [0..MaxTime -> Nat]]
  PROVE  /\ \A v \in Validators : SumOver(entries[v], 0..MaxTime) \in Nat
         /\ [v \in Validators |-> SumOver(entries[v], 0..MaxTime)] \in [Validators -> Nat]
         /\ InEntries(entries) \in Nat
<1> DEFINE f == [v \in Validators |-> SumOver(entries[v], 0..MaxTime)]
<1>1. \A v \in Validators : SumOver(entries[v], 0..MaxTime) \in Nat
  BY AccountsFinite, SumOverType
<1>2. f \in [Validators -> Nat]
  BY <1>1
<1> HIDE DEF f
<1>3. SumOver(f, Validators) \in Nat
  BY <1>2, AccountsFinite, SumOverType
<1>4. QED
  BY <1>1, <1>2, <1>3 DEF f, InEntries

LEMMA CoinsType ==
  ASSUME NEW w \in Worlds
  PROVE  /\ AllCoins(w) = SumOver(w.coins, Accounts) + Staked(w) + SumOver(w.rewards, Validators)
                            + InEntries(w.entries)
         /\ SumOver(w.coins, Accounts) \in Nat /\ SumOver(w.rewards, Validators) \in Nat
         /\ Staked(w) \in Nat /\ InEntries(w.entries) \in Nat
         /\ Staked(w) = SumOver(w.delegation, Validators)
<1>1. w.coins \in [Accounts -> Nat] /\ w.rewards \in [Validators -> Nat]
      /\ w.entries \in [Validators -> [0..MaxTime -> Nat]]
  BY DEF Worlds
<1>2. SumOver(w.coins, Accounts) \in Nat
  BY <1>1, AccountsFinite, SumOverType
<1>3. SumOver(w.rewards, Validators) \in Nat
  BY <1>1, AccountsFinite, SumOverType
<1>4. QED
  BY <1>1, <1>2, <1>3, SumsType, InEntriesType DEF AllCoins, InEntries, Staked

\* Rewards that are paid out are rewards no more.
LEMMA PaidOutSum ==
  ASSUME NEW w \in Worlds, NEW S \in SUBSET Validators
  PROVE  LET paid == PaidOut(w, S)
         IN  /\ paid.coins \in [Accounts -> Nat]
             /\ paid.rewards \in [Validators -> Nat]
             /\ \A a \in Accounts : w.coins[a] <= paid.coins[a]
             /\ SumOver(paid.coins, Accounts) + SumOver(paid.rewards, Validators)
                  = SumOver(w.coins, Accounts) + SumOver(w.rewards, Validators)
<1> DEFINE r == w.rewards
           sum == SumOver(r, S)
           left == [v \in Validators |-> IF v \in S THEN 0 ELSE r[v]]
           taken == [v \in Validators |-> IF v \in S THEN r[v] ELSE 0]
           coins == [w.coins EXCEPT !["dispatcher"] = @ + sum]
<1>1. /\ w.coins \in [Accounts -> Nat] /\ r \in [Validators -> Nat]
      /\ IsFiniteSet(Accounts) /\ IsFiniteSet(Validators) /\ "dispatcher" \in Accounts
  BY AccountsFinite DEF Worlds
<1> HIDE DEF r
<1>2. sum \in Nat
  BY <1>1, SumOverType
<1>3. left \in [Validators -> Nat] /\ taken \in [Validators -> Nat]
  BY <1>1
<1>4. \A v \in Validators : r[v] = left[v] + taken[v] /\ left[v] \in Nat /\ taken[v] \in Nat
  BY <1>1
<1>5. (\A v \in Validators \ S : taken[v] = 0) /\ \A v \in S : r[v] \in Nat /\ taken[v] = r[v]
  BY <1>1
<1> HIDE DEF left, taken
<1>6. SumOver(r, Validators) = SumOver(left, Validators) + SumOver(taken, Validators)
  BY <1>1, <1>4, SumOverPlus
<1>7. SumOver(taken, Validators) = SumOver(taken, S)
  BY <1>1, <1>4, <1>5, SumOverSupport
<1>8. SumOver(taken, S) = sum
  <2>1. IsFiniteSet(S)
    BY <1>1, FS_Subset
  <2>2. QED
    BY <1>5, <2>1, SumOverSame
<1>9. SumOver(left, Validators) \in Nat
  BY <1>1, <1>3, SumOverType
<1> HIDE DEF sum
<1>10. coins \in [Accounts -> Nat] /\ SumOver(coins, Accounts) = SumOver(w.coins, Accounts) + sum
       /\ SumOver(w.coins, Accounts) \in Nat
  <2> DEFINE c == w.coins
  <2>1. c \in [Accounts -> Nat] /\ c["dispatcher"] \in Nat
    BY <1>1
  <2>2. Differ(c, coins, Accounts, "dispatcher") /\ coins["dispatcher"] = c["dispatcher"] + sum
    BY <1>1, <1>2, <2>1 DEF Differ
  <2> HIDE DEF c, coins
  <2>3. SumOver(coins, Accounts) + c["dispatcher"] = SumOver(c, Accounts) + coins["dispatcher"]
        /\ SumOver(c, Accounts) \in Nat /\ SumOver(coins, Accounts) \in Nat
    BY <1>1, <2>2, SumDiffers
  <2>4. SumOver(coins, Accounts) = SumOver(c, Accounts) + sum
    BY ONLY <2>1, <2>2, <2>3, <1>2
  <2>5. QED
    BY <2>2, <2>3, <2>4 DEF c, Differ
<1>11. \A a \in Accounts : w.coins[a] <= coins[a]
  BY <1>1, <1>2
<1> HIDE DEF coins
<1>12. SumOver(coins, Accounts) + SumOver(left, Validators)
         = SumOver(w.coins, Accounts) + SumOver(r, Validators)
  BY <1>2, <1>6, <1>7, <1>8, <1>9, <1>10
<1>13. PaidOut(w, S).coins = coins /\ PaidOut(w, S).rewards = left
  BY PaidOutFields DEF coins, sum, left, r
<1>14. QED
  BY <1>3, <1>10, <1>11, <1>12, <1>13 DEF r

\* An entry that changes changes what is in entries.
EntryDiffers(e, f, v, t) ==
  /\ e \in [Validators -> [0..MaxTime -> Nat]] /\ v \in Validators /\ t \in 0..MaxTime
  /\ f \in [Validators -> [0..MaxTime -> Nat]] /\ f = [e EXCEPT ![v][t] = f[v][t]]

LEMMA EntryChanges ==
  ASSUME NEW e, NEW f, NEW v, NEW t, EntryDiffers(e, f, v, t)
  PROVE  /\ InEntries(f) + e[v][t] = InEntries(e) + f[v][t]
         /\ InEntries(f) \in Nat /\ InEntries(e) \in Nat
         /\ e[v][t] \in Nat /\ f[v][t] \in Nat
<1> DEFINE B == 0..MaxTime
           g == [u \in Validators |-> SumOver(e[u], B)]
           h == [u \in Validators |-> SumOver(f[u], B)]
<1>1. /\ e \in [Validators -> [B -> Nat]] /\ f \in [Validators -> [B -> Nat]]
      /\ v \in Validators /\ t \in B /\ f = [e EXCEPT ![v][t] = f[v][t]]
  BY DEF EntryDiffers
<1> HIDE DEF B
<1>2. e[v] \in [B -> Nat] /\ f[v] \in [B -> Nat] /\ e[v][t] \in Nat /\ f[v][t] \in Nat
  BY <1>1
<1>3. f[v] = [e[v] EXCEPT ![t] = f[v][t]] /\ \A u \in Validators \ {v} : f[u] = e[u]
  BY <1>1
<1>4. Differ(e[v], f[v], B, t)
  BY <1>1, <1>2, <1>3 DEF Differ
<1>5. SumOver(f[v], B) + e[v][t] = SumOver(e[v], B) + f[v][t]
      /\ SumOver(f[v], B) \in Nat /\ SumOver(e[v], B) \in Nat
  <2>1. IsFiniteSet(B)
    BY AccountsFinite DEF B
  <2>2. QED
    BY <1>4, <2>1, SumDiffers
<1>6. g \in [Validators -> Nat] /\ h \in [Validators -> Nat]
  BY <1>1, InEntriesType DEF B
<1>7. Differ(g, h, Validators, v) /\ g[v] = SumOver(e[v], B) /\ h[v] = SumOver(f[v], B)
  <2>1. \A u \in Validators \ {v} : h[u] = g[u]
    BY <1>3
  <2>2. g[v] = SumOver(e[v], B) /\ h[v] = SumOver(f[v], B)
    BY <1>1
  <2> HIDE DEF g, h
  <2>3. QED
    BY <1>1, <1>6, <2>1, <2>2 DEF Differ
<1>8. InEntries(e) = SumOver(g, Validators) /\ InEntries(f) = SumOver(h, Validators)
  BY DEF InEntries, B
<1> HIDE DEF g, h
<1>9. SumOver(h, Validators) + g[v] = SumOver(g, Validators) + h[v]
      /\ SumOver(h, Validators) \in Nat /\ SumOver(g, Validators) \in Nat
  BY <1>7, AccountsFinite, SumDiffers
<1>10. InEntries(f) + e[v][t] = InEntries(e) + f[v][t]
  BY ONLY <1>2, <1>5, <1>7, <1>8, <1>9
<1>11. QED
  BY <1>2, <1>8, <1>9, <1>10

\* What the coins of a world add up to depends on where coins can be.
LEMMA CoinsSame ==
  ASSUME CoinsKept
  PROVE  AllCoins(work') = AllCoins(work)
  BY DEF CoinsKept, AllCoins, Staked

LEMMA CoinsMoved ==
  ASSUME Typed, NEW from \in Accounts, NEW to \in Accounts, NEW n \in Nat,
         n <= work.coins[from], work'.coins = Moved(work.coins, from, to, n),
         work'.delegation = work.delegation, work'.entries = work.entries,
         work'.rewards = work.rewards
  PROVE  AllCoins(work') = AllCoins(work)
<1>1. work.coins \in [Accounts -> Nat]
  BY DEF Typed, WorldOK, Worlds
<1>2. SumOver(work'.coins, Accounts) = SumOver(work.coins, Accounts)
  BY <1>1, AccountsFinite, MovedSum DEF CanMove
<1>3. QED
  BY <1>2 DEF AllCoins, Staked

\* The chain pays rewards and moves stake.
LEMMA CoinsByChain ==
  ASSUME Typed, Typed', ChainHandler
  PROVE  AllCoins(work') = AllCoins(work)
<1>1. work \in Worlds /\ work' \in Worlds /\ now \in 0..MaxTime
  BY DEF Typed, WorldOK
<1> DEFINE c == SumOver(work.coins, Accounts)
           d == SumOver(work.delegation, Validators)
           r == SumOver(work.rewards, Validators)
           e == InEntries(work.entries)
           c1 == SumOver(work'.coins, Accounts)
           d1 == SumOver(work'.delegation, Validators)
           r1 == SumOver(work'.rewards, Validators)
           e1 == InEntries(work'.entries)
<1>2. AllCoins(work) = c + d + r + e /\ c \in Nat /\ d \in Nat /\ r \in Nat /\ e \in Nat
  BY <1>1, CoinsType
<1>3. AllCoins(work') = c1 + d1 + r1 + e1 /\ c1 \in Nat /\ d1 \in Nat /\ r1 \in Nat /\ e1 \in Nat
  BY <1>1, CoinsType
<1>4. work.delegation \in [Validators -> Nat] /\ work'.delegation \in [Validators -> Nat]
      /\ work.coins \in [Accounts -> Nat] /\ work'.coins \in [Accounts -> Nat]
      /\ work.entries \in [Validators -> [0..MaxTime -> Nat]]
  BY <1>1 DEF Worlds
<1>5. CASE Delegate
  <2> DEFINE v == Message.validator
             n == Message.amount
             paid == PaidOut(work, {v}).coins
  <2>1. /\ v \in Validators /\ n \in Nat /\ n <= work.coins["hub"]
        /\ work'.coins = [paid EXCEPT !["hub"] = @ - n]
        /\ work'.rewards = PaidOut(work, {v}).rewards
        /\ work'.delegation = [work.delegation EXCEPT ![v] = @ + n]
        /\ work'.entries = work.entries
    BY <1>5, DelegateEffect
  <2>2. paid \in [Accounts -> Nat] /\ SumOver(paid, Accounts) + r1 = c + r
        /\ \A a \in Accounts : work.coins[a] <= paid[a]
    <3>1. {v} \in SUBSET Validators
      BY <2>1
    <3> DEFINE S == {v}
               w == work
    <3> HIDE DEF S, w
    <3>2. /\ PaidOut(w, S).coins \in [Accounts -> Nat]
          /\ \A a \in Accounts : w.coins[a] <= PaidOut(w, S).coins[a]
          /\ SumOver(PaidOut(w, S).coins, Accounts) + SumOver(PaidOut(w, S).rewards, Validators)
               = SumOver(w.coins, Accounts) + SumOver(w.rewards, Validators)
      BY <1>1, <3>1, PaidOutSum DEF S, w
    <3>3. QED
      BY <2>1, <3>2 DEF S, w
  <2> HIDE DEF paid, v, n
  <2>3. Differ(paid, work'.coins, Accounts, "hub") /\ work'.coins["hub"] = paid["hub"] - n
    BY <2>1, <2>2, <1>4, AccountsFinite DEF Differ
  <2>4. c1 + paid["hub"] = SumOver(paid, Accounts) + work'.coins["hub"]
        /\ SumOver(paid, Accounts) \in Nat /\ paid["hub"] \in Nat
    BY <2>3, AccountsFinite, SumDiffers
  <2>5. Differ(work.delegation, work'.delegation, Validators, v)
        /\ work'.delegation[v] = work.delegation[v] + n
    BY <2>1, <1>4 DEF Differ
  <2>6. d1 + work.delegation[v] = d + work'.delegation[v] /\ work.delegation[v] \in Nat
    BY <2>5, AccountsFinite, SumDiffers
  <2>7. e1 = e /\ n \in Nat
    BY <2>1
  <2> HIDE DEF c, d, r, e, c1, d1, r1, e1
  <2>8. QED
    BY ONLY <1>2, <1>3, <2>2, <2>3, <2>4, <2>5, <2>6, <2>7
<1>6. CASE Undelegate
  <2> DEFINE v == Message.validator
             n == Message.amount
             k == work.entries[v][now] + n
  <2>1. /\ v \in Validators /\ n \in Nat /\ n <= work.delegation[v]
        /\ work'.coins = PaidOut(work, {v}).coins
        /\ work'.rewards = PaidOut(work, {v}).rewards
        /\ work'.delegation = [work.delegation EXCEPT ![v] = @ - n]
        /\ work'.entries = [work.entries EXCEPT ![v][now] = k]
    BY <1>6, UndelegateEffect
  <2>2. c1 + r1 = c + r
    <3>1. {v} \in SUBSET Validators
      BY <2>1
    <3>2. QED
      BY <1>1, <2>1, <3>1, PaidOutSum
  <2> HIDE DEF v, n
  <2>3. Differ(work.delegation, work'.delegation, Validators, v)
        /\ work'.delegation[v] = work.delegation[v] - n
    BY <2>1, <1>4 DEF Differ
  <2>4. d1 + work.delegation[v] = d + work'.delegation[v] /\ work.delegation[v] \in Nat
    BY <2>3, AccountsFinite, SumDiffers
  <2>5. work.entries[v][now] \in Nat /\ k \in Nat
    <3>1. work.entries[v] \in [0..MaxTime -> Nat]
      BY <1>4, <2>1
    <3>2. work.entries[v][now] \in Nat
      BY <1>1, <3>1
    <3>3. n \in Nat
      BY <2>1
    <3>4. QED
      BY <3>2, <3>3
  <2>6. k = work.entries[v][now] + n
    OBVIOUS
  <2> HIDE DEF k
  <2>7. e1 + work.entries[v][now] = e + k
    <3>1. work'.entries \in [Validators -> [0..MaxTime -> Nat]]
      BY <1>1 DEF Worlds
    <3>2. work'.entries[v][now] = k
      <4>1. work.entries[v] \in [0..MaxTime -> Nat]
        BY <1>4, <2>1
      <4>2. QED
        BY <1>1, <1>4, <2>1, <4>1
    <3>3. EntryDiffers(work.entries, work'.entries, v, now)
      BY <1>1, <1>4, <2>1, <3>1, <3>2 DEF EntryDiffers
    <3>4. QED
      BY <3>2, <3>3, EntryChanges
  <2>8. n \in Nat
    BY <2>1
  <2> HIDE DEF c, d, r, e, c1, d1, r1, e1
  <2>9. QED
    BY ONLY <1>2, <1>3, <2>2, <2>3, <2>4, <2>5, <2>6, <2>7, <2>8
<1>7. CASE Redelegate
  <2> DEFINE u == Message.src
             v == Message.validator
             n == Message.amount
  <2>1. /\ u \in Validators /\ v \in Validators /\ n \in Nat /\ n <= work.delegation[u]
        /\ work'.coins = PaidOut(work, {u, v}).coins
        /\ work'.rewards = PaidOut(work, {u, v}).rewards
        /\ work'.delegation = Moved(work.delegation, u, v, n)
        /\ work'.entries = work.entries
    BY <1>7, RedelegateEffect
  <2>2. c1 + r1 = c + r
    <3>1. {u, v} \in SUBSET Validators
      BY <2>1
    <3>2. QED
      BY <1>1, <2>1, <3>1, PaidOutSum
  <2> HIDE DEF u, v, n
  <2>3. d1 = d
    <3>1. CanMove(work.delegation, Validators, u, v, n)
      BY <1>4, <2>1 DEF CanMove
    <3>2. QED
      BY <2>1, <3>1, AccountsFinite, MovedSum
  <2>4. e1 = e
    BY <2>1
  <2> HIDE DEF c, d, r, e, c1, d1, r1, e1
  <2>5. QED
    BY ONLY <1>2, <1>3, <2>2, <2>3, <2>4
<1>8. CASE WithdrawDelegatorReward
  <2> DEFINE v == Message.validator
  <2>1. /\ v \in Validators
        /\ work'.coins = PaidOut(work, {v}).coins /\ work'.rewards = PaidOut(work, {v}).rewards
        /\ work'.delegation = work.delegation /\ work'.entries = work.entries
    BY <1>8, WithdrawEffect DEF StakeKept
  <2>2. c1 + r1 = c + r
    <3>1. {v} \in SUBSET Validators
      BY <2>1
    <3>2. QED
      BY <1>1, <2>1, <3>1, PaidOutSum
  <2>3. d1 = d /\ e1 = e
    BY <2>1
  <2> HIDE DEF c, d, r, e, c1, d1, r1, e1
  <2>4. QED
    BY ONLY <1>2, <1>3, <2>2, <2>3
<1>9. CASE BankSend
  BY <1>9, BankSendEffect, CoinsMoved DEF StakeKept
<1>10. QED
  BY <1>5, <1>6, <1>7, <1>8, <1>9 DEF ChainHandler

-----------------------------------------------------------------------------
(***************************************************************************)
(* There are never more coins than the bound on them.                      *)
(***************************************************************************)
\* A sum is what is in S of it, and what is not.
Without(f, g, A, S) ==
  /\ f \in [A -> Nat] /\ S \in SUBSET A
  /\ g = [a \in A |-> IF a \in S THEN 0 ELSE f[a]]

LEMMA SumWithout ==
  ASSUME NEW A, NEW f, NEW g, NEW S, IsFiniteSet(A), Without(f, g, A, S)
  PROVE  /\ SumOver(f, A) = SumOver(g, A) + SumOver(f, S)
         /\ SumOver(f, A) \in Nat /\ SumOver(g, A) \in Nat /\ SumOver(f, S) \in Nat
<1> DEFINE h == [a \in A |-> IF a \in S THEN f[a] ELSE 0]
<1>1. f \in [A -> Nat] /\ S \in SUBSET A /\ g = [a \in A |-> IF a \in S THEN 0 ELSE f[a]]
  BY DEF Without
<1>2. \A a \in A : g[a] \in Nat /\ h[a] \in Nat /\ f[a] \in Nat /\ f[a] = g[a] + h[a]
  BY <1>1
<1>3. (\A a \in A \ S : h[a] = 0) /\ (\A a \in S : f[a] \in Nat /\ h[a] = f[a])
  BY <1>1
<1> HIDE DEF h
<1>4. SumOver(f, A) = SumOver(g, A) + SumOver(h, A)
  BY <1>2, SumOverPlus
<1>5. SumOver(h, A) = SumOver(h, S)
  BY <1>1, <1>2, <1>3, SumOverSupport
<1>6. SumOver(h, S) = SumOver(f, S)
  <2>1. IsFiniteSet(S)
    BY <1>1, FS_Subset
  <2>2. QED
    BY <1>3, <2>1, SumOverSame
<1>7. A \in SUBSET A
  OBVIOUS
<1>8. SumOver(f, A) \in Nat /\ SumOver(f, S) \in Nat
  BY <1>1, <1>2, <1>7, SumOverType
<1>9. SumOver(g, A) \in Nat
  BY <1>2, <1>7, SumOverType
<1>10. QED
  BY <1>4, <1>5, <1>6, <1>8, <1>9

\* What matures is paid to the hub.
LEMMA EndBlockCoins ==
  ASSUME Typed, Typed', EndBlock
  PROVE  AllCoins(work') = AllCoins(work) /\ committed' = work'
<1> DEFINE B == 0..MaxTime
           e == work.entries
           left == [v \in Validators |-> [t \in B |-> IF t \in Matured THEN 0 ELSE e[v][t]]]
           inAll == [v \in Validators |-> SumOver(e[v], B)]
           inLeft == [v \in Validators |-> SumOver(left[v], B)]
           paid == [v \in Validators |-> SumOver(e[v], Matured)]
           sum == SumOver(paid, Validators)
           coins == [work.coins EXCEPT !["hub"] = @ + sum]
           w == [work EXCEPT !.coins = coins, !.entries = left]
<1>1. work \in Worlds /\ work' \in Worlds
  BY DEF Typed, WorldOK
<1>2. /\ work.coins \in [Accounts -> Nat] /\ work'.coins \in [Accounts -> Nat]
      /\ e \in [Validators -> [B -> Nat]]
  BY <1>1 DEF Worlds
<1>3. IsFiniteSet(B) /\ Matured \in SUBSET B
  BY AccountsFinite DEF Matured
<1>4. work' = w /\ committed' = w
  <2>1. Happens([work EXCEPT !.coins["hub"] = @ + sum,
                   !.entries = [v \in Validators |-> [t \in B |->
                                  IF t \in Matured THEN 0 ELSE @[v][t]]]])
    BY DEF EndBlock, Matured
  <2> HIDE DEF sum
  <2>2. [work EXCEPT !.coins["hub"] = @ + sum,
                   !.entries = [v \in Validators |-> [t \in B |->
                                  IF t \in Matured THEN 0 ELSE @[v][t]]]] = w
    BY <1>1 DEF Worlds
  <2>3. QED
    BY <2>1, <2>2 DEF Happens
<1> HIDE DEF B, left, inAll, inLeft, paid, sum, coins
<1>5. /\ work'.coins = coins /\ work'.entries = left
      /\ work'.delegation = work.delegation /\ work'.rewards = work.rewards
  BY <1>1, <1>4 DEF Worlds
<1>6. ASSUME NEW v \in Validators
      PROVE  /\ SumOver(e[v], B) = SumOver(left[v], B) + SumOver(e[v], Matured)
             /\ SumOver(e[v], B) \in Nat /\ SumOver(left[v], B) \in Nat
             /\ SumOver(e[v], Matured) \in Nat
  <2>1. left[v] = [t \in B |-> IF t \in Matured THEN 0 ELSE e[v][t]]
    BY DEF left
  <2>2. Without(e[v], left[v], B, Matured)
    BY <1>2, <1>3, <2>1 DEF Without
  <2>3. QED
    BY <1>3, <2>2, SumWithout
<1>7. \A v \in Validators : inLeft[v] \in Nat /\ paid[v] \in Nat /\ inAll[v] \in Nat
                            /\ inAll[v] = inLeft[v] + paid[v]
  BY <1>6 DEF inAll, inLeft, paid
<1>8. SumOver(inAll, Validators) = SumOver(inLeft, Validators) + sum
  BY <1>7, AccountsFinite, SumOverPlus DEF sum
<1>9. sum \in Nat /\ SumOver(inLeft, Validators) \in Nat
  <2>1. Validators \in SUBSET Validators
    OBVIOUS
  <2>2. sum \in Nat
    BY <1>7, <2>1, AccountsFinite, SumOverType DEF sum
  <2>3. SumOver(inLeft, Validators) \in Nat
    BY <1>7, <2>1, AccountsFinite, SumOverType
  <2>4. QED
    BY <2>2, <2>3
<1>10. InEntries(work.entries) = SumOver(inAll, Validators)
       /\ InEntries(work'.entries) = SumOver(inLeft, Validators)
  BY <1>5 DEF InEntries, inAll, inLeft, B
<1>11. Differ(work.coins, coins, Accounts, "hub") /\ coins["hub"] = work.coins["hub"] + sum
  BY <1>2, <1>5, AccountsFinite DEF Differ, coins
<1>12. SumOver(coins, Accounts) + work.coins["hub"] = SumOver(work.coins, Accounts) + coins["hub"]
       /\ SumOver(coins, Accounts) \in Nat /\ SumOver(work.coins, Accounts) \in Nat
       /\ work.coins["hub"] \in Nat
  BY <1>11, AccountsFinite, SumDiffers
<1>13. SumOver(coins, Accounts) = SumOver(work.coins, Accounts) + sum
  BY <1>9, <1>11, <1>12
<1>14. /\ AllCoins(work) = SumOver(work.coins, Accounts) + Staked(work)
             + SumOver(work.rewards, Validators) + InEntries(work.entries)
       /\ AllCoins(work') = SumOver(work'.coins, Accounts) + Staked(work')
             + SumOver(work'.rewards, Validators) + InEntries(work'.entries)
       /\ Staked(work) \in Nat /\ SumOver(work.rewards, Validators) \in Nat
  BY <1>1, CoinsType
<1>15. Staked(work') = Staked(work)
  BY <1>5 DEF Staked
<1>16. AllCoins(work') = AllCoins(work)
  BY <1>5, <1>8, <1>9, <1>10, <1>12, <1>13, <1>14, <1>15
<1>17. QED
  BY <1>4, <1>16

\* A slash takes coins, a reward stays within the bound.
LEMMA ChainElseCoins ==
  ASSUME Typed, Typed', ChainStep, ~EndBlock, AllCoins(work) <= MaxCoins
  PROVE  AllCoins(work') <= MaxCoins /\ committed' = work'
<1> DEFINE c == SumOver(work.coins, Accounts)
           d == SumOver(work.delegation, Validators)
           r == SumOver(work.rewards, Validators)
           e == InEntries(work.entries)
           d1 == SumOver(work'.delegation, Validators)
           r1 == SumOver(work'.rewards, Validators)
           e1 == InEntries(work'.entries)
<1>1. work \in Worlds /\ work' \in Worlds
  BY DEF Typed, WorldOK
<1>2. AllCoins(work) = c + d + r + e /\ c \in Nat /\ d \in Nat /\ r \in Nat /\ e \in Nat
  BY <1>1, CoinsType
<1>3. /\ AllCoins(work') = SumOver(work'.coins, Accounts) + d1 + r1 + e1
      /\ SumOver(work'.coins, Accounts) \in Nat /\ d1 \in Nat /\ r1 \in Nat /\ e1 \in Nat
  BY <1>1, CoinsType
<1>4. /\ work.delegation \in [Validators -> Nat] /\ work'.delegation \in [Validators -> Nat]
      /\ work.rewards \in [Validators -> Nat] /\ work'.rewards \in [Validators -> Nat]
      /\ work.entries \in [Validators -> [0..MaxTime -> Nat]]
      /\ work'.entries \in [Validators -> [0..MaxTime -> Nat]]
  BY <1>1 DEF Worlds
<1>5. Losses \subseteq Nat \ {0} /\ MaxCoins \in Nat
  BY ProtocolAssumption
<1>6. ASSUME NEW v \in Validators, NEW loss \in Losses, SlashStake(v, loss)
      PROVE  AllCoins(work') <= MaxCoins /\ committed' = work'
  <2>1. /\ loss \in Nat /\ loss < work.delegation[v] /\ work.delegation[v] \in Nat
        /\ work'.delegation = [work.delegation EXCEPT ![v] = @ - loss]
        /\ work'.coins = work.coins /\ work'.rewards = work.rewards
        /\ work'.entries = work.entries /\ committed' = work'
    BY <1>1, <1>4, <1>5, <1>6 DEF SlashStake, Happens, Worlds
  <2>2. Differ(work.delegation, work'.delegation, Validators, v)
        /\ work'.delegation[v] = work.delegation[v] - loss
    BY <1>4, <2>1 DEF Differ
  <2>3. d1 + work.delegation[v] = d + work'.delegation[v]
    BY <2>2, AccountsFinite, SumDiffers
  <2>4. SumOver(work'.coins, Accounts) = c /\ r1 = r /\ e1 = e
    BY <2>1
  <2> HIDE DEF c, d, r, e, d1, r1, e1
  <2>5. QED
    BY ONLY <1>2, <1>3, <1>5, <2>1, <2>2, <2>3, <2>4, AllCoins(work) <= MaxCoins
<1>7. ASSUME NEW v \in Validators, NEW t \in 0..MaxTime, NEW loss \in Losses,
             SlashEntry(v, t, loss)
      PROVE  AllCoins(work') <= MaxCoins /\ committed' = work'
  <2>1. work.entries[v] \in [0..MaxTime -> Nat] /\ work.entries[v][t] \in Nat
    BY <1>4
  <2>2. /\ loss \in Nat /\ loss < work.entries[v][t]
        /\ work'.entries = [work.entries EXCEPT ![v][t] = work.entries[v][t] - loss]
        /\ work'.coins = work.coins /\ work'.rewards = work.rewards
        /\ work'.delegation = work.delegation /\ committed' = work'
    BY <1>1, <1>4, <1>5, <1>7 DEF SlashEntry, Happens, Worlds
  <2>3. work'.entries[v][t] = work.entries[v][t] - loss
    BY <1>4, <2>1, <2>2
  <2>4. EntryDiffers(work.entries, work'.entries, v, t)
    BY <1>4, <2>2, <2>3 DEF EntryDiffers
  <2>5. e1 + work.entries[v][t] = e + work'.entries[v][t]
    BY <2>4, EntryChanges
  <2>6. SumOver(work'.coins, Accounts) = c /\ r1 = r /\ d1 = d
    BY <2>2
  <2> HIDE DEF c, d, r, e, d1, r1, e1
  <2>7. AllCoins(work') <= MaxCoins
    BY ONLY <1>2, <1>3, <1>5, <2>1, <2>2, <2>3, <2>5, <2>6, AllCoins(work) <= MaxCoins
  <2>8. QED
    BY <2>2, <2>7
<1>8. ASSUME NEW v \in Validators, Reward(v, 1)
      PROVE  AllCoins(work') <= MaxCoins /\ committed' = work'
  <2>1. /\ AllCoins(work) + 1 <= MaxCoins /\ work.rewards[v] \in Nat
        /\ work'.rewards = [work.rewards EXCEPT ![v] = @ + 1]
        /\ work'.coins = work.coins /\ work'.delegation = work.delegation
        /\ work'.entries = work.entries /\ committed' = work'
    BY <1>1, <1>4, <1>8 DEF Reward, Happens, Worlds
  <2>2. Differ(work.rewards, work'.rewards, Validators, v)
        /\ work'.rewards[v] = work.rewards[v] + 1
    BY <1>4, <2>1 DEF Differ
  <2>3. r1 + work.rewards[v] = r + work'.rewards[v]
    BY <2>2, AccountsFinite, SumDiffers
  <2>4. SumOver(work'.coins, Accounts) = c /\ d1 = d /\ e1 = e
    BY <2>1
  <2> HIDE DEF c, d, r, e, d1, r1, e1
  <2>5. AllCoins(work') <= MaxCoins
    BY ONLY <1>2, <1>3, <1>5, <2>1, <2>2, <2>3, <2>4
  <2>6. QED
    BY <2>1, <2>5
<1>9. ASSUME NEW v \in Validators, RedelegationCompletes(v)
      PROVE  AllCoins(work') <= MaxCoins /\ committed' = work'
  <2>1. CoinsKept /\ committed' = work'
    BY <1>1, <1>9 DEF RedelegationCompletes, Happens, Worlds, CoinsKept
  <2>2. QED
    BY <2>1, CoinsSame
<1>10. QED
  BY <1>6, <1>7, <1>8, <1>9 DEF ChainStep

\* Coins are made by rewards only, and those stay within the bound.
Bounded == AllCoins(work) <= MaxCoins /\ AllCoins(committed) <= MaxCoins

LEMMA BoundedStep ==
  ASSUME Typed, Typed', Bounded, [Next]_vars
  PROVE  Bounded'
<1> USE DEF Bounded
<1>1. CASE UNCHANGED vars \/ \E message \in Signed : Submit(message)
  BY <1>1 DEF vars, Submit
<1>2. CASE Commit \/ Abort
  BY <1>2 DEF Commit, Abort
<1>3. CASE Bond
  <2>1. committed' = committed
    BY <1>3 DEF Bond, Answer
  <2>2. AllCoins(work') = AllCoins(work)
    BY <1>3, BondCoins, CoinsMoved, AccountsFinite DEF StakeKept
  <2>3. QED
    BY <2>1, <2>2
<1>4. CASE BookKeeping
  <2>1. committed' = committed
    BY <1>4 DEF BookKeeping, TokenHandler, ReceiveUnbond, WithdrawUnbonded, CheckSlashing,
       WithdrawAllRewards, RedelegateProxy, Mint, IncreaseAllowance, DecreaseAllowance, Transfer,
       Send, Burn, DispatchRewards, Answer
  <2>2. QED
    BY <1>4, <2>1, BooksOnly, CoinsSame
<1>5. CASE SetPaused
  <2>1. committed' = committed
    BY <1>5 DEF SetPaused, Answer
  <2>2. QED
    BY <1>5, <2>1, PausedOnly, CoinsSame
<1>6. CASE AddValidator \/ RemoveValidator
  <2>1. committed' = committed
    BY <1>6 DEF AddValidator, RemoveValidator, Answer
  <2>2. QED
    BY <1>6, <2>1, RegistryOnly, CoinsSame
<1>7. CASE ChainHandler
  <2>1. committed' = committed
    BY <1>7 DEF ChainHandler, Delegate, Undelegate, Redelegate, WithdrawDelegatorReward, BankSend,
       Answer
  <2>2. QED
    BY <1>7, <2>1, CoinsByChain
<1>8. CASE EndBlock
  BY <1>8, EndBlockCoins
<1>9. CASE ChainStep /\ ~EndBlock
  BY <1>9, ChainElseCoins
<1>10. QED
  BY <1>1, <1>2, <1>3, <1>4, <1>5, <1>6, <1>7, <1>8, <1>9 DEF Next, HubHandler, BookKeeping

LEMMA BoundedInit ==
  ASSUME Init
  PROVE  Bounded
<1> DEFINE w == committed
           wealth == [u \in Users |-> Wealth]
<1>1. w \in Worlds /\ work = w
  BY TypedInit DEF Typed, WorldOK, Init
<1>2. /\ w.coins = [a \in Accounts |-> IF a \in Users THEN Wealth ELSE 0]
      /\ w.delegation = [v \in Validators |-> 0] /\ w.rewards = [v \in Validators |-> 0]
      /\ w.entries = [v \in Validators |-> [t \in 0..MaxTime |-> 0]]
  BY DEF Init
<1>3. Wealth \in Nat /\ MaxCoins \in Nat /\ SumOver(wealth, Users) <= MaxCoins
  BY ProtocolAssumption, WealthAssumption
<1>4. SumOver(w.coins, Accounts) = SumOver(wealth, Users)
  <2>1. SumOver(w.coins, Accounts) = SumOver(w.coins, Users)
    <3>1. Users \in SUBSET Accounts
      BY DEF Accounts
    <3>2. (\A a \in Accounts : w.coins[a] \in Nat) /\ \A a \in Accounts \ Users : w.coins[a] = 0
      BY <1>2, <1>3
    <3>3. QED
      BY <3>1, <3>2, AccountsFinite, SumOverSupport
  <2>2. \A u \in Users : w.coins[u] \in Nat /\ wealth[u] = w.coins[u]
    BY <1>2, <1>3 DEF Accounts
  <2>3. SumOver(wealth, Users) = SumOver(w.coins, Users)
    BY <2>2, ProtocolAssumption, SumOverSame
  <2>4. QED
    BY <2>1, <2>3
<1>5. Staked(w) = 0 /\ SumOver(w.rewards, Validators) = 0
  BY <1>2, AccountsFinite, SumOverZero DEF Staked
<1>6. InEntries(w.entries) = 0
  <2> DEFINE f == [v \in Validators |-> SumOver(w.entries[v], 0..MaxTime)]
  <2>1. ASSUME NEW v \in Validators
        PROVE  SumOver(w.entries[v], 0..MaxTime) = 0
    <3>1. \A t \in 0..MaxTime : w.entries[v][t] = 0
      BY <1>2
    <3>2. QED
      BY <3>1, AccountsFinite, SumOverZero
  <2>2. \A v \in Validators : f[v] = 0
    BY <2>1
  <2> HIDE DEF f
  <2>3. SumOver(f, Validators) = 0
    BY <2>2, AccountsFinite, SumOverZero
  <2>4. QED
    BY <2>3 DEF f, InEntries
<1>7. AllCoins(w) = SumOver(w.coins, Accounts) /\ SumOver(w.coins, Accounts) \in Nat
  BY <1>1, <1>5, <1>6, CoinsType
<1>8. QED
  BY <1>1, <1>3, <1>4, <1>7 DEF Bounded

\* What is staked is within the bound, too.
LEMMA StakedBounded ==
  ASSUME NEW w \in Worlds, AllCoins(w) <= MaxCoins
  PROVE  Staked(w) \in Nat /\ Staked(w) <= MaxCoins /\ MaxCoins \in Nat
  BY CoinsType, ProtocolAssumption
=============================================================================
