-------------------------- MODULE HubClaimsProofs --------------------------
(***************************************************************************)
(* Theorems about the claims of the users on the hub: that the wait lists  *)
(* and the batches agree, and that the coins set aside pay for what was    *)
(* released, for every number of users, batches and coins.                 *)
(***************************************************************************)
EXTENDS HubQueries, HubProofs

-----------------------------------------------------------------------------
(***************************************************************************)
(* The wait lists and the batches.                                         *)
(***************************************************************************)
\* What the users have requested of batch b, user by user.
Claims(b) == [u \in Users |-> wait[u][b]]

\* The claims on a batch are amounts, and so is their sum.
LEMMA ClaimsType ==
  ASSUME TypeOK, NEW b \in BatchIds
  PROVE  /\ \A u \in Users : Claims(b)[u] = wait[u][b] /\ Claims(b)[u] \in Nat
         /\ Requested(b) = SumOver(Claims(b), Users)
         /\ Requested(b) \in Nat
<1>1. \A u \in Users : Claims(b)[u] = wait[u][b] /\ Claims(b)[u] \in Nat
  BY DEF TypeOK, Claims
<1>2. Requested(b) = SumOver(Claims(b), Users)
  BY DEF Requested, Claims
<1>3. SumOver(Claims(b), Users) \in Nat
  <2> HIDE DEF Claims
  <2> QED BY <1>1, SumOverType, HubAssumption
<1>4. QED
  BY <1>1, <1>2, <1>3

\* Nobody waits for more of a batch than all users together.
LEMMA ClaimWithinRequested ==
  ASSUME TypeOK, NEW b \in BatchIds, NEW u \in Users
  PROVE  wait[u][b] \in Nat /\ Requested(b) \in Nat /\ wait[u][b] <= Requested(b)
<1>1. /\ \A v \in Users : Claims(b)[v] = wait[v][b] /\ Claims(b)[v] \in Nat
      /\ Requested(b) = SumOver(Claims(b), Users)
      /\ Requested(b) \in Nat
  BY ClaimsType
<1> HIDE DEF Claims
<1>2. SumOver(Claims(b), Users) = Claims(b)[u] + SumOver(Claims(b), Users \ {u})
  BY <1>1, SumOverElement, HubAssumption
<1>3. SumOver(Claims(b), Users \ {u}) \in Nat
  BY <1>1, SumOverType, HubAssumption
<1>4. QED
  BY <1>1, <1>2, <1>3

\* store_unbond_wait_list adds the request to the open batch and to no other.
LEMMA RequestedStored ==
  ASSUME TypeOK, TypeOK', NEW u \in Users, NEW amount \in Nat, batch.id \in BatchIds,
         StoreWait(u, amount), NEW b \in BatchIds
  PROVE  Requested(b)' = Requested(b) + IF b = batch.id THEN amount ELSE 0
<1> DEFINE f == Claims(b)
           g == Claims(b)'
<1>1. \A v \in Users : f[v] \in Nat /\ f[v] = wait[v][b]
  BY ClaimsType
<1>2. \A v \in Users : g[v] = wait'[v][b]
  BY DEF Claims
<1>3. wait \in [Users -> [BatchIds -> Nat]]
  BY DEF TypeOK
<1>4. \A v \in Users : wait'[v][b] = IF v = u /\ b = batch.id THEN wait[v][b] + amount ELSE wait[v][b]
  BY <1>3 DEF StoreWait
<1>5. Requested(b) = SumOver(f, Users) /\ Requested(b)' = SumOver(g, Users)
  BY ClaimsType DEF Requested, Claims
<1> HIDE DEF f, g
<1>6. \A v \in Users : g[v] \in Nat
  BY <1>1, <1>2, <1>4
<1>7. \A v \in Users \ {u} : g[v] = f[v]
  BY <1>1, <1>2, <1>4
<1>8. SumOver(g, Users) + f[u] = SumOver(f, Users) + g[u]
  BY <1>1, <1>6, <1>7, SumOverChange, HubAssumption
<1>9. g[u] = f[u] + IF b = batch.id THEN amount ELSE 0
  BY <1>1, <1>2, <1>4
<1>10. SumOver(f, Users) \in Nat /\ SumOver(g, Users) \in Nat /\ f[u] \in Nat
  BY <1>1, <1>6, SumOverType, HubAssumption
<1>11. QED
  BY <1>5, <1>8, <1>9, <1>10

\* Whoever neither unbonds nor withdraws leaves claims and batches alone.
LEMMA ClaimsKept ==
  ASSUME [Next]_vars,
         ~ \E u \in Users, amount \in Requests : Unbond(u, amount),
         ~ \E u \in Users, amount \in Requests : UnbondAndUndelegate(u, amount),
         ~ \E u \in Users : WithdrawUnbonded(u)
  PROVE  wait' = wait /\ batch' = batch /\ history' = history
<1>1. CASE \E payment \in Payments : Bond(payment)
  BY <1>1 DEF Bond
<1>2. CASE \E payment \in Rewards : BondRewards(payment)
  BY <1>2 DEF BondRewards
<1>3. CASE \E amount \in Requests : Burn(amount)
  BY <1>3 DEF Burn
<1>4. CASE CheckSlashing
  BY <1>4 DEF CheckSlashing
<1>5. CASE OwnerTx
  BY <1>5 DEF OwnerTx, UpdateParams, Pause, Unpause
<1>6. CASE ChainStep
  BY <1>6 DEF ChainStep, EndBlock, SlashStake, SlashInFlight, Donate
<1>7. CASE UNCHANGED vars
  BY <1>7 DEF vars
<1>8. QED
  BY <1>1, <1>2, <1>3, <1>4, <1>5, <1>6, <1>7 DEF Next, UserTx

\* A request within the epoch is booked twice, and the same.
LEMMA MatchUnbond ==
  ASSUME OrderInv, OrderInv', RequestsMatchBatches,
         NEW u \in Users, NEW amount \in Requests, Unbond(u, amount)
  PROVE  RequestsMatchBatches'
<1>1. /\ batch.id \in BatchIds
      /\ StoreWait(u, amount)
      /\ batch' = [batch EXCEPT !.requested_statom = batch.requested_statom + amount]
      /\ history' = history
      /\ amount \in Nat
  BY HubAssumption DEF Unbond
<1>2. batch \in CurrentBatch /\ batch.id = Len(history) + 1 /\ Len(history) \in Nat
        /\ DOMAIN history = 1..Len(history) /\ Len(history) <= MaxBatch
  BY DEF OrderInv, TypeOK, ProcessedInOrder
<1>3. batch'.id = batch.id /\ batch'.requested_statom = batch.requested_statom + amount
  BY <1>1, <1>2 DEF CurrentBatch
<1>4. \A b \in BatchIds : Requested(b)' = Requested(b) + IF b = batch.id THEN amount ELSE 0
  BY <1>1, RequestedStored DEF OrderInv
<1>5. \A b \in BatchIds : Requested(b) \in Nat
  BY ClaimsType DEF OrderInv
<1>6. \A b \in DOMAIN history : b \in BatchIds /\ b # batch.id
  BY <1>2, HubAssumption DEF BatchIds
<1>7. Requested(batch.id)' = batch'.requested_statom
  BY <1>1, <1>3, <1>4 DEF RequestsMatchBatches
<1>8. \A b \in DOMAIN history : Requested(b)' = Requested(b)
  BY <1>4, <1>5, <1>6
<1>9. \A b \in BatchIds : b > batch.id => Requested(b)' = 0
  BY <1>2, <1>4, <1>5 DEF RequestsMatchBatches, CurrentBatch, BatchIds
<1>10. QED
  BY <1>1, <1>3, <1>7, <1>8, <1>9 DEF RequestsMatchBatches

\* The batch that is undelegated was requested by exactly the users who wait
\* for it, and nobody waits for the next one yet.
LEMMA MatchUndelegate ==
  ASSUME OrderInv, OrderInv', RequestsMatchBatches,
         NEW u \in Users, NEW amount \in Requests, UnbondAndUndelegate(u, amount)
  PROVE  RequestsMatchBatches'
<1> DEFINE n == Len(history)
           requested == batch.requested_statom + amount
           entry == [time |-> now, statom_amount |-> requested,
                     statom_applied_exchange_rate |-> ActualState.statom_exchange_rate,
                     statom_withdraw_rate |-> ActualState.statom_exchange_rate,
                     released |-> FALSE]
<1>1. /\ batch.id \in BatchIds
      /\ StoreWait(u, amount)
      /\ batch' = [id |-> batch.id + 1, requested_statom |-> 0]
      /\ history' = Append(history, entry)
      /\ amount \in Nat
  BY HubAssumption DEF UnbondAndUndelegate
<1>2. /\ batch \in CurrentBatch /\ batch.id = n + 1 /\ n \in Nat
      /\ DOMAIN history = 1..n /\ n <= MaxBatch /\ MaxBatch \in Nat
      /\ history \in Seq(UnbondHistory)
  BY HubAssumption DEF OrderInv, TypeOK, ProcessedInOrder
<1>3. /\ DOMAIN history' = 1..(n + 1)
      /\ \A b \in 1..n : history'[b] = history[b]
      /\ history'[n + 1] = entry
  <2> HIDE DEF entry
  <2> QED BY <1>1, <1>2
<1>4. \A b \in BatchIds : Requested(b)' = Requested(b) + IF b = batch.id THEN amount ELSE 0
  BY <1>1, RequestedStored DEF OrderInv
<1>5. \A b \in BatchIds : Requested(b) \in Nat
  BY ClaimsType DEF OrderInv
<1>6. \A b \in 1..n : b \in BatchIds /\ Requested(b)' = Requested(b)
  BY <1>2, <1>4, <1>5 DEF BatchIds
<1>7. /\ \A b \in BatchIds : b = n + 1 => Requested(b)' = entry.statom_amount
      /\ ~entry.released /\ n + 1 \in BatchIds
  BY <1>1, <1>2, <1>4 DEF RequestsMatchBatches
<1>8. \A b \in BatchIds : b > n + 1 => Requested(b)' = 0
  BY <1>2, <1>4, <1>5 DEF RequestsMatchBatches, BatchIds
<1>9. batch'.id = n + 2 /\ batch'.requested_statom = 0
  BY <1>1, <1>2
<1>10. \A b \in BatchIds : b = batch'.id => Requested(b)' = batch'.requested_statom
  BY <1>2, <1>8, <1>9
<1>11. ASSUME NEW b \in DOMAIN history'
       PROVE  IF history'[b].released
              THEN Requested(b)' <= history'[b].statom_amount
              ELSE Requested(b)' = history'[b].statom_amount
  <2> HIDE DEF entry
  <2>1. CASE b \in 1..n
    BY <2>1, <1>2, <1>3, <1>6 DEF RequestsMatchBatches
  <2>2. CASE b = n + 1
    BY <2>2, <1>3, <1>7
  <2>3. QED
    BY <2>1, <2>2, <1>2, <1>3
<1>12. \A b \in BatchIds : b > batch'.id => Requested(b)' = 0
  BY <1>2, <1>8, <1>9 DEF BatchIds
<1>13. QED
  BY <1>10, <1>11, <1>12 DEF RequestsMatchBatches

\* A withdrawal takes the claims of one user off the released batches.
LEMMA MatchWithdraw ==
  ASSUME OrderInv, OrderInv', RequestsMatchBatches, NEW u \in Users, WithdrawUnbonded(u)
  PROVE  RequestsMatchBatches'
<1> DEFINE paid == [b \in BatchIds |-> IF b \in DOMAIN history /\ ProcessedHistory[b].released
                                       THEN 0 ELSE wait[u][b]]
<1>1. /\ history' = ProcessedHistory
      /\ batch' = batch
      /\ wait' = [wait EXCEPT ![u] = paid]
  BY DEF WithdrawUnbonded
<1>2. /\ wait \in [Users -> [BatchIds -> Nat]] /\ wait' \in [Users -> [BatchIds -> Nat]]
      /\ batch.id = Len(history) + 1 /\ Len(history) \in Nat /\ Len(history) <= MaxBatch
      /\ DOMAIN history = 1..Len(history) /\ MaxBatch \in Nat
  BY HubAssumption DEF OrderInv, TypeOK, ProcessedInOrder
<1>3. \A b \in DOMAIN history :
        /\ ProcessedHistory[b].statom_amount = history[b].statom_amount
        /\ ProcessedHistory[b].released <=> history[b].released \/ b \in NewlyFinished
  BY ProcessedHistoryType DEF OrderInv
<1>4. DOMAIN ProcessedHistory = DOMAIN history
  BY DEF ProcessedHistory
<1>5. \A b \in BatchIds : Requested(b)' = SumOver(Claims(b)', Users)
                           /\ Requested(b) = SumOver(Claims(b), Users)
                           /\ Requested(b) \in Nat
  BY ClaimsType DEF OrderInv, Requested, Claims
<1>6. \A b \in BatchIds, v \in Users :
        /\ Claims(b)[v] \in Nat /\ Claims(b)'[v] \in Nat
        /\ Claims(b)'[v] <= Claims(b)[v]
        /\ ~(b \in DOMAIN history /\ ProcessedHistory[b].released) => Claims(b)'[v] = Claims(b)[v]
  BY <1>1, <1>2 DEF Claims
<1>7. \A b \in BatchIds : Requested(b)' <= Requested(b)
  <2> HIDE DEF Claims
  <2> QED BY <1>5, <1>6, SumOverMonotone, HubAssumption
<1>8. \A b \in BatchIds :
        ~(b \in DOMAIN history /\ ProcessedHistory[b].released) => Requested(b)' = Requested(b)
  <2> HIDE DEF Claims
  <2> QED BY <1>5, <1>6, SumOverSame, HubAssumption
<1>9. \A b \in DOMAIN history : b \in BatchIds
  BY <1>2 DEF BatchIds
<1>10. ASSUME NEW b \in DOMAIN history
       PROVE  IF ProcessedHistory[b].released
              THEN Requested(b)' <= ProcessedHistory[b].statom_amount
              ELSE Requested(b)' = ProcessedHistory[b].statom_amount
  <2>1. Requested(b) <= history[b].statom_amount /\ history[b] \in UnbondHistory
    <3>1. history[b] \in UnbondHistory
      BY HistoryEntry DEF OrderInv
    <3>2. QED
      BY <3>1, <1>5, <1>9 DEF RequestsMatchBatches, UnbondHistory
  <2>2. CASE ProcessedHistory[b].released
    <3>1. Requested(b)' <= Requested(b) /\ Requested(b)' \in Nat
      <4>1. Requested(b)' \in Nat
        <5> HIDE DEF Claims
        <5> QED BY <1>5, <1>6, <1>9, SumOverType, HubAssumption
      <4>2. QED
        BY <4>1, <1>7, <1>9
    <3>2. QED
      BY <3>1, <2>1, <2>2, <1>3, <1>5, <1>9 DEF UnbondHistory
  <2>3. CASE ~ProcessedHistory[b].released
    BY <2>3, <1>3, <1>8, <1>9 DEF RequestsMatchBatches
  <2>4. QED
    BY <2>2, <2>3
<1>11. \A b \in BatchIds : b >= batch.id => Requested(b)' = Requested(b)
  BY <1>2, <1>8
<1>12. QED
  BY <1>1, <1>2, <1>4, <1>10, <1>11 DEF RequestsMatchBatches, BatchIds

\* No step makes the wait lists and the batches differ.
LEMMA MatchStep ==
  ASSUME OrderInv, OrderInv', RequestsMatchBatches, [Next]_vars
  PROVE  RequestsMatchBatches'
<1>1. CASE \E u \in Users, amount \in Requests : Unbond(u, amount)
  BY <1>1, MatchUnbond
<1>2. CASE \E u \in Users, amount \in Requests : UnbondAndUndelegate(u, amount)
  BY <1>2, MatchUndelegate
<1>3. CASE \E u \in Users : WithdrawUnbonded(u)
  BY <1>3, MatchWithdraw
<1>4. CASE /\ ~ \E u \in Users, amount \in Requests : Unbond(u, amount)
           /\ ~ \E u \in Users, amount \in Requests : UnbondAndUndelegate(u, amount)
           /\ ~ \E u \in Users : WithdrawUnbonded(u)
  <2>1. wait' = wait /\ batch' = batch /\ history' = history
    BY <1>4, ClaimsKept
  <2>2. QED
    BY <2>1 DEF RequestsMatchBatches, Requested
<1>5. QED
  BY <1>1, <1>2, <1>3, <1>4

\* The types, the order of the batches, and the two records of the requests.
ClaimsInv == OrderInv /\ RequestsMatchBatches

\* At first nobody waits for anything.
LEMMA ClaimsInvInit ==
  Init => ClaimsInv
<1> SUFFICES ASSUME Init PROVE RequestsMatchBatches
  BY OrderInvInit DEF ClaimsInv
<1>1. TypeOK
  BY TypeInit
<1>2. ASSUME NEW b \in BatchIds PROVE Requested(b) = 0
  <2>1. \A u \in Users : Claims(b)[u] = 0
    BY DEF Claims, Init
  <2>2. Requested(b) = SumOver(Claims(b), Users)
    BY <1>1, ClaimsType
  <2> HIDE DEF Claims
  <2>3. QED
    BY <2>1, <2>2, SumOverZero, HubAssumption
<1>3. history = <<>> /\ batch.requested_statom = 0
  BY DEF Init
<1>4. QED
  BY <1>2, <1>3 DEF RequestsMatchBatches

LEMMA ClaimsInvStep ==
  ClaimsInv /\ [Next]_vars => ClaimsInv'
  BY OrderInvStep, MatchStep DEF ClaimsInv

LEMMA ClaimsInvAlways ==
  Spec => []ClaimsInv
<1>1. QED
  BY ClaimsInvInit, ClaimsInvStep, PTL DEF Spec

\* PREFIX_WAIT_MAP and the batches record the same requests: no handler books
\* stAtom in one of them only, or pays a claim it does not take off.
THEOREM RequestsBookedTwice ==
  Spec => []RequestsMatchBatches
<1>1. ClaimsInv => RequestsMatchBatches
  BY DEF ClaimsInv
<1>2. QED
  BY <1>1, ClaimsInvAlways, PTL

-----------------------------------------------------------------------------
(***************************************************************************)
(* What a release promises of the coins that arrived.                      *)
(***************************************************************************)
\* There are fewer coins than the scale of the decimals: it is 10^18 in the
\* code, and a chain has some 10^14 coins.
FewCoins == MaxStake \in Nat /\ MaxBatch * MaxStake <= DECIMAL_FRACTIONAL

\* What arrived since the last withdrawal.
Arrived == balance - state.prev_hub_balance

\* The new withdraw rate of a batch, and what the batch is paid at it.
NewRate(b) ==
  NewWithdrawRate(history[b].statom_amount, history[b].statom_withdraw_rate,
                  NewlyAddedUnbonded, SlashedAmount)
PaidOut(b) == Times(history[b].statom_amount, NewRate(b))

\* What process_withdraw_rate makes of a batch it releases.
LEMMA NewlyFinishedBatch ==
  ASSUME TypeOK, NEW b \in NewlyFinished
  PROVE  /\ b \in DOMAIN history /\ history[b] \in UnbondHistory
         /\ ~history[b].released
         /\ ProcessedHistory[b].statom_withdraw_rate = NewRate(b)
         /\ NewRate(b) \in Nat /\ PaidOut(b) \in Nat
<1>1. b \in DOMAIN history
  BY DEF NewlyFinished
<1>2. history[b] \in UnbondHistory /\ b \in Nat
  BY <1>1, HistoryEntry
<1>3. b \in state.last_processed_batch + 1 .. b
  BY <1>2 DEF NewlyFinished, TypeOK, State
<1>4. ~history[b].released
  BY <1>3 DEF NewlyFinished, Finished
<1>5. ProcessedHistory[b].statom_withdraw_rate = NewRate(b)
  BY <1>1, <1>2 DEF ProcessedHistory, UnbondHistory, NewRate
<1>6. NewRate(b) \in Nat
  <2>1. SlashedAmount.magnitude \in Nat /\ SlashedAmount.negative \in BOOLEAN
    BY SlashedAmountType
  <2>2. QED
    BY <2>1, <1>2, NewlyAddedUnbondedType, NewWithdrawRateType DEF UnbondHistory, NewRate
<1>7. PaidOut(b) \in Nat
  BY <1>2, <1>6, TimesBound DEF PaidOut, UnbondHistory
<1>8. QED
  BY <1>1, <1>2, <1>4, <1>5, <1>6, <1>7

\* The value of a batch that is being released is part of the total, and the
\* shortfall or surplus is reckoned of what arrived.
LEMMA ReleasedTotal ==
  ASSUME TypeOK, BalanceCoversPrev
  PROVE  /\ Arrived \in Nat /\ NewlyAddedUnbonded \in Nat
         /\ SlashedAmount = FromSubtraction(NewlyAddedUnbonded, Arrived)
         /\ \A b \in NewlyFinished :
               Booked(history[b]) \in Nat /\ Booked(history[b]) <= NewlyAddedUnbonded
<1> DEFINE v == [b \in DOMAIN history |-> IF b \in NewlyFinished THEN Booked(history[b]) ELSE 0]
<1>1. Len(history) \in Nat /\ DOMAIN history = 1..Len(history)
        /\ balance \in Nat /\ state.prev_hub_balance \in Nat
  BY DEF TypeOK, State
<1>2. Arrived \in Nat /\ FromSubtraction(balance, state.prev_hub_balance).magnitude = Arrived
  BY <1>1 DEF BalanceCoversPrev, FromSubtraction, Arrived
<1>3. \A b \in 1..Len(history) : v[b] \in Nat
  BY <1>1, HistoryEntry, BookedType
<1>4. \A b \in NewlyFinished : b \in 1..Len(history) /\ v[b] = Booked(history[b])
  BY <1>1 DEF NewlyFinished
<1>5. NewlyAddedUnbonded = SumTo(v, Len(history))
  BY DEF NewlyAddedUnbonded
<1> HIDE DEF v
<1>6. \A b \in 1..Len(history) : v[b] <= SumTo(v, Len(history))
  BY <1>1, <1>3, SumToElement
<1>7. QED
  BY <1>2, <1>3, <1>4, <1>5, <1>6, NewlyAddedUnbondedType DEF SlashedAmount

\* What a batch is paid is no more than what calculate_new_withdraw_rate takes
\* it to have unbonded.
LEMMA PaidOutBound ==
  ASSUME TypeOK, BalanceCoversPrev, NEW b \in NewlyFinished
  PROVE  LET actual == ActualUnbonded(Booked(history[b]), NewlyAddedUnbonded,
                                      FromSubtraction(NewlyAddedUnbonded, Arrived))
         IN  actual \in Nat => PaidOut(b) <= actual
<1> DEFINE actual == ActualUnbonded(Booked(history[b]), NewlyAddedUnbonded,
                                    FromSubtraction(NewlyAddedUnbonded, Arrived))
           a == history[b].statom_amount
<1> SUFFICES ASSUME actual \in Nat PROVE PaidOut(b) <= actual
  OBVIOUS
<1>1. a \in Nat /\ NewRate(b) \in Nat
  BY NewlyFinishedBatch DEF UnbondHistory
<1>2. SlashedAmount = FromSubtraction(NewlyAddedUnbonded, Arrived)
  BY ReleasedTotal
<1>3. CASE a = 0
  <2>1. PaidOut(b) \in Nat /\ DECIMAL_FRACTIONAL * PaidOut(b) <= a * NewRate(b)
    BY <1>1, TimesBound DEF PaidOut
  <2>2. a * NewRate(b) = 0
    BY <1>1, <1>3
  <2>3. PaidOut(b) = 0
    BY <2>1, <2>2, ScaleAssumption
  <2>4. QED
    BY <2>3
<1>4. CASE a # 0
  <2>1. NewRate(b) = FromRatio(actual, a)
    BY <1>2, <1>4 DEF NewRate, NewWithdrawRate, Booked
  <2> HIDE DEF actual
  <2>2. Times(a, FromRatio(actual, a)) <= actual
    BY <1>1, <1>4, TimesOfRatio
  <2>3. QED
    BY <2>1, <2>2 DEF PaidOut
<1>5. QED
  BY <1>3, <1>4

\* Each batch is paid its share by weight of what arrived and one coin at most.
LEMMA PaidOutShare ==
  ASSUME TypeOK, BalanceCoversPrev, NewlyAddedUnbonded <= DECIMAL_FRACTIONAL,
         NewlyAddedUnbonded # 0, NEW b \in NewlyFinished
  PROVE  NewlyAddedUnbonded * PaidOut(b) <= Booked(history[b]) * Arrived + NewlyAddedUnbonded
<1> DEFINE total == NewlyAddedUnbonded
           booked == Booked(history[b])
           actual == ActualUnbonded(booked, total, FromSubtraction(total, Arrived))
           paid == PaidOut(b)
<1>1. /\ total \in Nat \ {0} /\ total <= DECIMAL_FRACTIONAL /\ Arrived \in Nat
      /\ booked \in Nat /\ booked <= total
  BY ReleasedTotal
<1>2. paid \in Nat /\ (actual \in Nat => paid <= actual)
  BY NewlyFinishedBatch, PaidOutBound
<1> HIDE DEF total, booked, paid
<1>3. actual \in Nat /\ total * actual <= booked * Arrived + total
  <2>1. CASE Arrived = 0 \/ booked = 0
    <3>1. actual \in {0, 1}
      BY <2>1, <1>1, PaidForNothing
    <3>2. total * actual <= total /\ booked * Arrived \in Nat
      BY <3>1, <1>1, ProductType
    <3>3. QED
      BY <3>1, <3>2, <1>1, ProductType
  <2>2. CASE Arrived # 0 /\ booked # 0
    <3>1. 1 * total <= 1 * Arrived + DECIMAL_FRACTIONAL
      BY <1>1, ScaleAssumption
    <3>2. actual \in Nat /\ 1 * (total * actual) < 1 * (booked * Arrived) + total
      BY <3>1, <2>2, <1>1, PaidShare
    <3>3. total * actual \in Nat /\ booked * Arrived \in Nat
      BY <3>2, <1>1, ProductType
    <3>4. QED
      BY <3>2, <3>3, <1>1
  <2>3. QED
    BY <2>1, <2>2
<1> HIDE DEF actual
<1>4. total * paid <= total * actual
  BY <1>1, <1>2, <1>3, ProductMonotone
<1>5. total * paid \in Nat /\ total * actual \in Nat /\ booked * Arrived + total \in Nat
  BY <1>1, <1>2, <1>3, ProductType
<1>6. QED
  BY <1>3, <1>4, <1>5 DEF total, booked, paid

\* A batch released with others that are worth nothing either is paid nothing.
LEMMA PaidOutOfNothing ==
  ASSUME TypeOK, BalanceCoversPrev, NewlyAddedUnbonded = 0, NEW b \in NewlyFinished
  PROVE  PaidOut(b) = 0
<1>1. Booked(history[b]) = 0 /\ Arrived \in Nat
  BY ReleasedTotal
<1> DEFINE slashed == FromSubtraction(0, Arrived)
<1>2. slashed.magnitude \in Nat /\ (slashed.magnitude # 0 => slashed.negative)
        /\ slashed.negative \in BOOLEAN
  BY <1>1 DEF FromSubtraction
<1> HIDE DEF slashed
<1>3. SlashedShare(0, 0, slashed) = 0
  <2>1. SlashedShare(0, 0, slashed) = Times(slashed.magnitude, 0)
    BY DEF SlashedShare
  <2>2. Times(slashed.magnitude, 0) \in Nat
        /\ DECIMAL_FRACTIONAL * Times(slashed.magnitude, 0) <= slashed.magnitude * 0
    BY <1>2, TimesBound
  <2>3. slashed.magnitude * 0 = 0
    BY <1>2
  <2>4. Times(slashed.magnitude, 0) = 0
    BY <2>2, <2>3, ScaleAssumption
  <2>5. QED
    BY <2>1, <2>4
<1>4. ActualUnbonded(0, 0, slashed) = 0
  BY <1>2, <1>3 DEF ActualUnbonded, FromSubtraction
<1>5. PaidOut(b) <= 0
  BY <1>1, <1>4, PaidOutBound DEF slashed
<1>6. QED
  BY <1>5, NewlyFinishedBatch

\* What the batches of a release are paid, one after the other.
Payouts == [b \in DOMAIN history |-> IF b \in NewlyFinished THEN PaidOut(b) ELSE 0]

\* All the batches of a release together are paid what arrived, and at most one
\* coin each that did not.
LEMMA ReleasePaid ==
  ASSUME TypeOK, BalanceCoversPrev, NewlyAddedUnbonded <= DECIMAL_FRACTIONAL
  PROVE  /\ SumTo(Payouts, Len(history)) \in Nat
         /\ Cardinality(NewlyFinished) \in Nat
         /\ SumTo(Payouts, Len(history)) <= Arrived + Cardinality(NewlyFinished)
<1> DEFINE n == Len(history)
           total == NewlyAddedUnbonded
           v == [b \in DOMAIN history |-> IF b \in NewlyFinished THEN Booked(history[b]) ELSE 0]
           one == [b \in 1..n |-> IF b \in NewlyFinished THEN 1 ELSE 0]
           f == [b \in 1..n |-> total * Payouts[b]]
           g == [b \in 1..n |-> Arrived * v[b]]
           h == [b \in 1..n |-> total * one[b]]
           k == [b \in 1..n |-> g[b] + h[b]]
<1>1. n \in Nat /\ DOMAIN history = 1..n /\ NewlyFinished \in SUBSET (1..n)
  BY DEF TypeOK, NewlyFinished
<1>2. total \in Nat /\ Arrived \in Nat /\ total = SumTo(v, n)
  BY ReleasedTotal DEF NewlyAddedUnbonded
<1>3. \A b \in 1..n : /\ v[b] \in Nat /\ one[b] \in Nat
                      /\ v[b] = IF b \in NewlyFinished THEN Booked(history[b]) ELSE 0
                      /\ one[b] = IF b \in NewlyFinished THEN 1 ELSE 0
                      /\ Payouts[b] \in Nat
                      /\ Payouts[b] = IF b \in NewlyFinished THEN PaidOut(b) ELSE 0
  BY <1>1, ReleasedTotal, NewlyFinishedBatch DEF Payouts
<1>4. Cardinality(NewlyFinished) \in Nat /\ SumTo(one, n) = Cardinality(NewlyFinished)
  BY <1>1, SumToCount
<1> HIDE DEF n, total, v, one
<1>5. SumTo(Payouts, n) \in Nat
  BY <1>1, <1>3, SumToType
<1>6. CASE total = 0
  <2>1. \A b \in 1..n : Payouts[b] = 0
    BY <1>3, <1>6, PaidOutOfNothing DEF total
  <2>2. SumTo(Payouts, n) = 0
    BY <2>1, <1>1, SumToZero
  <2>3. QED
    BY <2>2, <1>2, <1>4, <1>5 DEF n
<1>7. CASE total # 0
  <2>1. ASSUME NEW b \in 1..n PROVE f[b] \in Nat /\ k[b] \in Nat /\ f[b] <= k[b]
    <3>1. f[b] = total * Payouts[b] /\ g[b] = Arrived * v[b] /\ h[b] = total * one[b]
            /\ k[b] = g[b] + h[b]
      OBVIOUS
    <3>2. f[b] \in Nat /\ g[b] \in Nat /\ h[b] \in Nat
      BY <3>1, <1>2, <1>3, ProductType
    <3>3. CASE b \in NewlyFinished
      <4>1. total * PaidOut(b) <= Booked(history[b]) * Arrived + total
        BY <3>3, <1>7, PaidOutShare DEF total
      <4>2. Booked(history[b]) * Arrived = Arrived * Booked(history[b])
        BY <3>3, <1>2, <1>3
      <4>3. QED
        BY <3>1, <3>2, <3>3, <4>1, <4>2, <1>2, <1>3
    <3>4. CASE b \notin NewlyFinished
      <4>1. Payouts[b] = 0 /\ total * 0 = 0
        BY <3>4, <1>2, <1>3
      <4>2. f[b] = 0
        BY <4>1, <3>1
      <4> HIDE DEF f, g, h, k
      <4>3. QED
        BY <4>2, <3>1, <3>2
    <3>5. QED
      BY <3>3, <3>4
  <2>2. /\ SumTo(f, n) = total * SumTo(Payouts, n)
        /\ SumTo(g, n) = Arrived * SumTo(v, n)
        /\ SumTo(h, n) = total * SumTo(one, n)
    <3>1. \A b \in 1..n : f[b] = total * Payouts[b] /\ g[b] = Arrived * v[b] /\ h[b] = total * one[b]
      OBVIOUS
    <3>0. n \in Nat /\ total \in Nat /\ Arrived \in Nat
      BY <1>1, <1>2
    <3> HIDE DEF f, g, h, k
    <3>2. SumTo(f, n) = total * SumTo(Payouts, n)
      <4>1. \A b \in 1..n : Payouts[b] \in Nat /\ f[b] = total * Payouts[b]
        BY <3>1, <1>3
      <4>2. QED
        BY ONLY <3>0, <4>1, SumToScaled
    <3>3. SumTo(g, n) = Arrived * SumTo(v, n)
      <4>1. \A b \in 1..n : v[b] \in Nat /\ g[b] = Arrived * v[b]
        BY <3>1, <1>3
      <4>2. QED
        BY ONLY <3>0, <4>1, SumToScaled
    <3>4. SumTo(h, n) = total * SumTo(one, n)
      <4>1. \A b \in 1..n : one[b] \in Nat /\ h[b] = total * one[b]
        BY <3>1, <1>3
      <4>2. QED
        BY ONLY <3>0, <4>1, SumToScaled
    <3>5. QED
      BY <3>2, <3>3, <3>4
  <2>3. SumTo(k, n) = SumTo(g, n) + SumTo(h, n)
    <3>1. \A b \in 1..n : g[b] \in Nat /\ h[b] \in Nat /\ k[b] = g[b] + h[b]
      BY <1>2, <1>3, ProductType
    <3> HIDE DEF g, h, k
    <3>2. QED
      BY <3>1, <1>1, SumToPlus
  <2>4. SumTo(f, n) <= SumTo(k, n)
    <3> HIDE DEF f, k
    <3> QED BY <2>1, <1>1, SumToMonotone
  <2> HIDE DEF f, g, h, k
  <2> DEFINE c == Cardinality(NewlyFinished)
             p == SumTo(Payouts, n)
  <2> HIDE DEF c, p
  <2>5. total * p <= Arrived * total + total * c
    BY <2>2, <2>3, <2>4, <1>2, <1>4 DEF c, p
  <2>6. p \in Nat /\ c \in Nat /\ Arrived + c \in Nat
    BY <1>2, <1>4, <1>5 DEF p, c
  <2>7. Arrived * total + total * c = total * (Arrived + c)
    BY <2>6, <1>2
  <2>8. p <= Arrived + c
    BY <2>5, <2>6, <2>7, <1>2, <1>7, ProductStrict
  <2>9. QED
    BY <2>8, <2>6 DEF p, c, n
<1>8. QED
  BY <1>6, <1>7

-----------------------------------------------------------------------------
(***************************************************************************)
(* What the released batches are still owed, batch by batch.               *)
(***************************************************************************)
Dues == [b \in DOMAIN history |->
           IF history[b].released
           THEN Times(Requested(b), history[b].statom_withdraw_rate) ELSE 0]

Due == SumTo(Dues, Len(history))

\* What is owed of a batch is an amount.
LEMMA DuesType ==
  ASSUME TypeOK
  PROVE  /\ Len(history) \in Nat /\ DOMAIN history = 1..Len(history)
         /\ \A b \in 1..Len(history) :
              /\ b \in BatchIds /\ history[b] \in UnbondHistory
              /\ Dues[b] \in Nat
              /\ Dues[b] = IF history[b].released
                           THEN Times(Requested(b), history[b].statom_withdraw_rate) ELSE 0
         /\ Due \in Nat
<1>1. Len(history) \in Nat /\ DOMAIN history = 1..Len(history) /\ Len(history) <= MaxBatch
  BY DEF TypeOK
<1>2. \A b \in 1..Len(history) : b \in BatchIds /\ history[b] \in UnbondHistory
  BY <1>1, HistoryEntry, HubAssumption DEF BatchIds
<1>3. \A b \in 1..Len(history) :
        Dues[b] = IF history[b].released
                  THEN Times(Requested(b), history[b].statom_withdraw_rate) ELSE 0
  BY <1>1 DEF Dues
<1>4. ASSUME NEW b \in 1..Len(history) PROVE Dues[b] \in Nat
  <2>1. Requested(b) \in Nat /\ history[b].statom_withdraw_rate \in Nat
    BY <1>2, ClaimsType DEF UnbondHistory
  <2>2. Times(Requested(b), history[b].statom_withdraw_rate) \in Nat
    BY ONLY <2>1, TimesBound
  <2>3. QED
    BY <2>2, <1>3
<1>5. Due \in Nat
  BY <1>1, <1>4, SumToType DEF Due
<1>6. QED
  BY <1>1, <1>2, <1>3, <1>4, <1>5

\* New batches, and claims on batches that are not released, do not change
\* what is owed.
LEMMA DueKept ==
  ASSUME TypeOK, TypeOK', Len(history) <= Len(history'),
         \A b \in DOMAIN history : history'[b] = history[b],
         \A b \in DOMAIN history : Requested(b)' = Requested(b),
         \A b \in DOMAIN history' : b \notin DOMAIN history => ~history'[b].released
  PROVE  Due' = Due /\ Released' = Released
<1> DEFINE n == Len(history)
           m == Len(history')
           f == Dues
           g == Dues'
<1>1. /\ n \in Nat /\ DOMAIN history = 1..n
      /\ \A b \in 1..n : /\ f[b] \in Nat
                         /\ f[b] = IF history[b].released
                                  THEN Times(Requested(b), history[b].statom_withdraw_rate) ELSE 0
  BY DuesType
<1>2. /\ m \in Nat /\ DOMAIN history' = 1..m
      /\ \A b \in 1..m : g[b] = IF history'[b].released
                                THEN Times(Requested(b)', history'[b].statom_withdraw_rate) ELSE 0
  <2>1. m \in Nat /\ DOMAIN history' = 1..m
    BY DEF TypeOK
  <2>2. QED
    BY <2>1 DEF Dues
<1>3. Due = SumTo(f, n) /\ Due' = SumTo(g, m)
  BY DEF Due
<1>4. Released' = Released
  BY <1>1, <1>2 DEF Released
<1> HIDE DEF f, g
<1>5. \A b \in 1..n : g[b] = f[b] /\ f[b] \in Nat
  BY <1>1, <1>2
<1>6. \A b \in (n + 1)..m : g[b] = 0
  BY <1>1, <1>2
<1>7. n \in Nat /\ m \in Nat /\ n <= m
  BY <1>1, <1>2
<1> HIDE DEF n, m
<1>8. SumTo(g, m) = SumTo(f, n)
  BY ONLY <1>5, <1>6, <1>7, SumToExtended
<1>9. QED
  BY <1>3, <1>8, <1>4

\* A withdrawal takes the user's whole claim off every batch that is released.
LEMMA RequestedPaid ==
  ASSUME TypeOK, TypeOK', NEW u \in Users, WithdrawUnbonded(u),
         NEW b \in DOMAIN history, ProcessedHistory[b].released
  PROVE  /\ Requested(b) \in Nat /\ Requested(b)' \in Nat /\ wait[u][b] \in Nat
         /\ Requested(b)' + wait[u][b] = Requested(b)
<1> DEFINE f == Claims(b)
           g == Claims(b)'
<1>1. b \in BatchIds /\ wait \in [Users -> [BatchIds -> Nat]]
  BY DuesType DEF TypeOK
<1>2. \A v \in Users : f[v] \in Nat /\ f[v] = wait[v][b]
  BY <1>1, ClaimsType
<1>3. \A v \in Users : g[v] = IF v = u THEN 0 ELSE wait[v][b]
  BY <1>1 DEF Claims, WithdrawUnbonded
<1>4. Requested(b) = SumOver(f, Users) /\ Requested(b)' = SumOver(g, Users)
  BY <1>1, ClaimsType DEF Requested, Claims
<1> HIDE DEF f, g
<1>5. \A v \in Users : g[v] \in Nat
  BY <1>2, <1>3
<1>6. SumOver(g, Users) + f[u] = SumOver(f, Users) + g[u]
  BY <1>2, <1>3, <1>5, SumOverChange, HubAssumption
<1>7. SumOver(f, Users) \in Nat /\ SumOver(g, Users) \in Nat
  BY <1>2, <1>5, SumOverType, HubAssumption
<1>8. g[u] = 0 /\ f[u] = wait[u][b] /\ f[u] \in Nat
  BY <1>2, <1>3
<1>9. QED
  BY <1>4, <1>6, <1>7, <1>8

\* A withdrawal pays no more than it takes off what is owed, with what the
\* batches it releases add to that.
LEMMA DuePaid ==
  ASSUME ClaimsInv, ClaimsInv', NEW u \in Users, WithdrawUnbonded(u)
  PROVE  LET withdrawn == FinishedAmount(u, ProcessedHistory)
         IN  /\ withdrawn \in Nat /\ Due \in Nat /\ Due' \in Nat
             /\ SumTo(Payouts, Len(history)) \in Nat
             /\ Due' + withdrawn <= Due + SumTo(Payouts, Len(history))
             /\ balance \in Nat /\ state.prev_hub_balance \in Nat
             /\ state'.prev_hub_balance = balance - withdrawn
             /\ Released' = Released \union NewlyFinished
             /\ Released \intersect NewlyFinished = {}
             /\ IsFiniteSet(Released) /\ IsFiniteSet(NewlyFinished)
<1> DEFINE n == Len(history)
           due == Dues
           left == Dues'
           paid == [b \in DOMAIN ProcessedHistory |->
                      IF ProcessedHistory[b].released
                      THEN Times(wait[u][b], ProcessedHistory[b].statom_withdraw_rate) ELSE 0]
           withdrawn == FinishedAmount(u, ProcessedHistory)
           x == [b \in 1..n |-> left[b] + paid[b]]
           y == [b \in 1..n |-> due[b] + Payouts[b]]
<1>1. TypeOK /\ TypeOK' /\ RequestsMatchBatches
  BY DEF ClaimsInv, OrderInv
<1>2. /\ history' = ProcessedHistory
      /\ balance' = balance - withdrawn
      /\ state'.prev_hub_balance = balance - withdrawn
      /\ withdrawn <= balance
  BY <1>1 DEF WithdrawUnbonded, PrevBalance, TypeOK, State
<1>3. /\ n \in Nat /\ DOMAIN history = 1..n /\ DOMAIN ProcessedHistory = 1..n
      /\ Len(ProcessedHistory) = n /\ NewlyFinished \in SUBSET (1..n)
      /\ \A b \in 1..n : history[b] \in UnbondHistory /\ b \in BatchIds
      /\ balance \in Nat /\ state.prev_hub_balance \in Nat
  BY <1>1, DuesType, ProcessedHistoryType DEF ProcessedHistory, NewlyFinished, TypeOK, State
<1>4. \A b \in 1..n : ProcessedHistory[b].released <=> history[b].released \/ b \in NewlyFinished
  BY <1>1, <1>3, ProcessedHistoryType
<1>5. /\ \A b \in 1..n : due[b] \in Nat
      /\ \A b \in 1..n : due[b] = IF history[b].released
                                 THEN Times(Requested(b), history[b].statom_withdraw_rate) ELSE 0
      /\ Due = SumTo(due, n)
  BY <1>1, DuesType DEF Due
<1>6. /\ \A b \in 1..n :
           left[b] = IF ProcessedHistory[b].released
                     THEN Times(Requested(b)', ProcessedHistory[b].statom_withdraw_rate) ELSE 0
      /\ Due' = SumTo(left, n)
  BY <1>2, <1>3 DEF Due, Dues
<1>7. /\ \A b \in 1..n :
           paid[b] = IF ProcessedHistory[b].released
                     THEN Times(wait[u][b], ProcessedHistory[b].statom_withdraw_rate) ELSE 0
      /\ withdrawn = SumTo(paid, n)
  BY <1>3 DEF FinishedAmount
<1>8. \A b \in 1..n : Payouts[b] = IF b \in NewlyFinished THEN PaidOut(b) ELSE 0
  BY <1>3 DEF Payouts
<1> HIDE DEF n, due, left, paid, withdrawn
<1>9. ASSUME NEW b \in 1..n
      PROVE  /\ left[b] \in Nat /\ paid[b] \in Nat /\ Payouts[b] \in Nat
             /\ left[b] + paid[b] <= due[b] + Payouts[b]
  <2>1. ASSUME ProcessedHistory[b].released, NEW rate \in Nat,
               rate = ProcessedHistory[b].statom_withdraw_rate
        PROVE  /\ left[b] \in Nat /\ paid[b] \in Nat
               /\ left[b] + paid[b] <= Times(Requested(b), rate)
    <3>1. /\ Requested(b) \in Nat /\ Requested(b)' \in Nat /\ wait[u][b] \in Nat
          /\ Requested(b)' + wait[u][b] = Requested(b)
      BY <2>1, <1>1, <1>3, RequestedPaid
    <3>2. left[b] = Times(Requested(b)', rate) /\ paid[b] = Times(wait[u][b], rate)
      BY <2>1, <1>6, <1>7
    <3>3. Times(Requested(b)', rate) + Times(wait[u][b], rate) <= Times(Requested(b)' + wait[u][b], rate)
      BY <3>1, TimesSuperadditive
    <3>4. left[b] \in Nat /\ paid[b] \in Nat
      BY <3>1, <3>2, TimesBound
    <3>5. QED
      BY <3>1, <3>2, <3>3, <3>4
  <2>2. CASE b \in NewlyFinished
    <3>1. ProcessedHistory[b].released /\ ~history[b].released
      BY <2>2, <1>1, <1>4, NewlyFinishedBatch
    <3>2. ProcessedHistory[b].statom_withdraw_rate = NewRate(b) /\ NewRate(b) \in Nat
      BY <2>2, <1>1, NewlyFinishedBatch
    <3>3. Requested(b) = history[b].statom_amount
      BY <3>1, <1>1, <1>3 DEF RequestsMatchBatches
    <3>4. Times(Requested(b), NewRate(b)) = Payouts[b] /\ due[b] = 0 /\ Payouts[b] \in Nat
      BY <3>1, <3>3, <2>2, <1>1, <1>5, <1>8, NewlyFinishedBatch DEF PaidOut
    <3>5. QED
      BY <3>1, <3>2, <3>4, <2>1
  <2>3. CASE history[b].released
    <3>1. b \notin NewlyFinished /\ ProcessedHistory[b].released
      BY <2>3, <1>1, <1>4, NewlyFinishedBatch
    <3>2. ProcessedHistory[b] = history[b]
      BY <3>1, <1>3 DEF ProcessedHistory
    <3>3. history[b].statom_withdraw_rate \in Nat
      BY <1>3 DEF UnbondHistory
    <3>4. due[b] = Times(Requested(b), history[b].statom_withdraw_rate) /\ Payouts[b] = 0
      BY <2>3, <3>1, <1>5, <1>8
    <3>5. QED
      BY <3>1, <3>2, <3>3, <3>4, <2>1, <1>5
  <2>4. CASE ~history[b].released /\ b \notin NewlyFinished
    BY <2>4, <1>4, <1>5, <1>6, <1>7, <1>8
  <2>5. QED
    BY <2>2, <2>3, <2>4
<1>10. SumTo(x, n) <= SumTo(y, n)
  <2>1. \A b \in 1..n : x[b] \in Nat /\ y[b] \in Nat /\ x[b] <= y[b]
    BY <1>5, <1>9
  <2> HIDE DEF x, y
  <2>2. QED
    BY <2>1, <1>3, SumToMonotone
<1>11. SumTo(x, n) = Due' + withdrawn
  <2>1. \A b \in 1..n : left[b] \in Nat /\ paid[b] \in Nat /\ x[b] = left[b] + paid[b]
    BY <1>9
  <2> HIDE DEF x
  <2>2. SumTo(x, n) = SumTo(left, n) + SumTo(paid, n)
    BY ONLY <2>1, <1>3, SumToPlus
  <2>3. QED
    BY ONLY <2>2, <1>6, <1>7
<1>12. SumTo(y, n) = Due + SumTo(Payouts, n)
  <2>1. \A b \in 1..n : due[b] \in Nat /\ Payouts[b] \in Nat /\ y[b] = due[b] + Payouts[b]
    BY <1>5, <1>9
  <2> HIDE DEF y
  <2>2. SumTo(y, n) = SumTo(due, n) + SumTo(Payouts, n)
    BY ONLY <2>1, <1>3, SumToPlus
  <2>3. QED
    BY <2>2, <1>5
<1> HIDE DEF x, y
<1>13. /\ Released' = Released \union NewlyFinished
       /\ Released \intersect NewlyFinished = {}
       /\ IsFiniteSet(Released) /\ IsFiniteSet(NewlyFinished)
  <2>1. Released' = Released \union NewlyFinished
    BY <1>2, <1>3, <1>4 DEF Released
  <2>2. Released \intersect NewlyFinished = {}
    BY <1>1, NewlyFinishedBatch DEF Released
  <2>3. IsFiniteSet(1..n) /\ Released \in SUBSET (1..n)
    BY <1>3, FS_Interval DEF Released
  <2>4. IsFiniteSet(Released) /\ IsFiniteSet(NewlyFinished)
    BY <2>3, <1>3, FS_Subset
  <2>5. QED
    BY <2>1, <2>2, <2>4
<1>14. withdrawn \in Nat /\ Due \in Nat /\ Due' \in Nat /\ SumTo(Payouts, n) \in Nat
  <2>1. withdrawn \in Nat
    BY <1>3, <1>7, <1>9, SumToType
  <2>2. Due' \in Nat
    BY <1>3, <1>6, <1>9, SumToType
  <2>3. SumTo(Payouts, n) \in Nat
    BY <1>3, <1>9, SumToType
  <2>4. QED
    BY <2>1, <2>2, <2>3, <1>3, <1>5, SumToType
<1>15. Due' + withdrawn <= Due + SumTo(Payouts, n)
  BY <1>10, <1>11, <1>12
<1>16. QED
  BY <1>2, <1>3, <1>13, <1>14, <1>15 DEF n, withdrawn

\* If the batches are paid no more than what arrived and so many coins, what is
\* owed stays covered but for these coins.
LEMMA DueWithdraw ==
  ASSUME ClaimsInv, ClaimsInv', BalanceCoversPrev,
         NEW u \in Users, WithdrawUnbonded(u), NEW c \in Nat, NEW d \in Nat,
         Due <= state.prev_hub_balance + c,
         SumTo(Payouts, Len(history)) <= Arrived + d
  PROVE  Due' <= state'.prev_hub_balance + (c + d)
<1> DEFINE withdrawn == FinishedAmount(u, ProcessedHistory)
<1>1. /\ withdrawn \in Nat /\ Due \in Nat /\ Due' \in Nat
      /\ SumTo(Payouts, Len(history)) \in Nat
      /\ Due' + withdrawn <= Due + SumTo(Payouts, Len(history))
      /\ balance \in Nat /\ state.prev_hub_balance \in Nat
      /\ state'.prev_hub_balance = balance - withdrawn
  BY DuePaid
<1>2. Arrived = balance - state.prev_hub_balance
  BY DEF Arrived
<1> HIDE DEF withdrawn
<1>3. Due <= state.prev_hub_balance + c /\ SumTo(Payouts, Len(history)) <= Arrived + d
      /\ c \in Nat /\ d \in Nat
  OBVIOUS
<1> DEFINE coming == SumTo(Payouts, Len(history))
           before == Due
           after == Due'
           kept == state.prev_hub_balance
           keeps == state'.prev_hub_balance
<1>4. /\ withdrawn \in Nat /\ before \in Nat /\ after \in Nat /\ coming \in Nat
      /\ balance \in Nat /\ kept \in Nat /\ c \in Nat /\ d \in Nat
      /\ after + withdrawn <= before + coming /\ before <= kept + c
      /\ coming <= (balance - kept) + d /\ keeps = balance - withdrawn
  BY <1>1, <1>2, <1>3
<1> HIDE DEF coming, before, after, kept, keeps
<1>5. after <= keeps + (c + d)
  BY ONLY <1>4
<1>6. QED
  BY <1>5 DEF after, keeps

\* Two sets of released batches that have none in common count together.
LEMMA ReleasedCount ==
  ASSUME NEW S, NEW T, IsFiniteSet(S), IsFiniteSet(T), S \intersect T = {}
  PROVE  /\ Cardinality(S) \in Nat /\ Cardinality(T) \in Nat
         /\ Cardinality(S \union T) = Cardinality(S) + Cardinality(T)
<1>1. Cardinality(S \union T) = Cardinality(S) + Cardinality(T) - Cardinality({})
  BY FS_Union
<1>2. QED
  BY <1>1, FS_EmptySet, FS_CardinalityType

-----------------------------------------------------------------------------
(***************************************************************************)
(* What is bonded, and so what a batch is booked at, is at most MaxStake.  *)
(***************************************************************************)
BookedWithin(h) == \A b \in DOMAIN h : ~h[b].released => Booked(h[b]) <= MaxStake

StakeInv == state.total_bond_statom_amount <= MaxStake /\ BookedWithin(history)

\* slashing only lowers what the books say is bonded.
LEMMA SyncedLowers ==
  ASSUME NEW s \in State, NEW stake \in Nat, NEW records, NEW issued, NEW requested
  PROVE  Synced(s, stake, records, issued, requested).total_bond_statom_amount
           <= s.total_bond_statom_amount
  BY DEF Synced, State, Least

\* A batch that is undelegated is booked at no more than what was bonded.
LEMMA StakeUndelegate ==
  ASSUME OrderInv, OrderInv', StakeInv, MaxStake \in Nat,
         NEW u \in Users, NEW amount \in Requests, UnbondAndUndelegate(u, amount)
  PROVE  StakeInv'
<1> DEFINE s == ActualState
           requested == batch.requested_statom + amount
           undelegated == Times(requested, s.statom_exchange_rate)
           entry == [time |-> now, statom_amount |-> requested,
                     statom_applied_exchange_rate |-> s.statom_exchange_rate,
                     statom_withdraw_rate |-> s.statom_exchange_rate, released |-> FALSE]
           t == [s EXCEPT !.total_bond_statom_amount = @ - undelegated,
                          !.last_unbonded_time = now]
<1>1. /\ undelegated <= s.total_bond_statom_amount
      /\ history' = Append(history, entry)
      /\ state' = Synced(t, staked', delegated', supply - amount, 0)
      /\ amount \in Nat
  BY HubAssumption DEF UnbondAndUndelegate
<1>2. /\ s \in State /\ state \in State /\ s.statom_exchange_rate \in Nat
      /\ history \in Seq(UnbondHistory) /\ staked' \in Nat /\ staked \in Nat
      /\ batch.requested_statom \in Nat /\ now \in Nat
      /\ s.total_bond_statom_amount <= state.total_bond_statom_amount
  BY ActualStateType, SyncedLowers DEF OrderInv, TypeOK, CurrentBatch, State, ActualState
<1>3. undelegated \in Nat
  <2>1. requested \in Nat
    BY <1>1, <1>2
  <2> HIDE DEF requested
  <2>2. QED
    BY <2>1, <1>2, TimesBound
<1>4. Booked(entry) = undelegated /\ ~entry.released
  BY DEF Booked
<1> HIDE DEF s, undelegated, entry
<1>5. t \in State /\ t.total_bond_statom_amount <= s.total_bond_statom_amount
  <2>1. s.total_bond_statom_amount - undelegated \in Nat
          /\ s.total_bond_statom_amount - undelegated <= s.total_bond_statom_amount
    <3> DEFINE total == s.total_bond_statom_amount
    <3>1. total \in Nat /\ undelegated \in Nat /\ undelegated <= total
      BY <1>1, <1>2, <1>3 DEF State
    <3> HIDE DEF total
    <3>2. QED
      BY ONLY <3>1 DEF total
  <2>2. QED
    BY <1>2, <2>1 DEF State
<1> HIDE DEF t
<1>6. state'.total_bond_statom_amount <= t.total_bond_statom_amount /\ state' \in State
  BY <1>1, <1>2, <1>5, SyncedLowers DEF OrderInv, TypeOK
<1>7. state'.total_bond_statom_amount <= MaxStake /\ undelegated <= MaxStake
  <2> DEFINE x == state'.total_bond_statom_amount
             y == s.total_bond_statom_amount
             z == state.total_bond_statom_amount
  <2>1. x \in Nat /\ y \in Nat /\ z \in Nat /\ z <= MaxStake /\ y <= z /\ undelegated <= y
    BY <1>1, <1>2, <1>6 DEF State, StakeInv
  <2>2. x <= t.total_bond_statom_amount /\ t.total_bond_statom_amount <= y
          /\ t.total_bond_statom_amount \in Nat
    BY <1>5, <1>6 DEF State
  <2>3. QED
    BY ONLY <2>1, <2>2, <1>3, MaxStake \in Nat
<1>8. \A b \in DOMAIN history' : b \in DOMAIN history \/ history'[b] = entry
  BY <1>1, <1>2
<1>9. \A b \in DOMAIN history : history'[b] = history[b]
  BY <1>1, <1>2
<1>10. BookedWithin(history)'
  BY <1>4, <1>7, <1>8, <1>9 DEF BookedWithin, StakeInv
<1>11. QED
  BY <1>7, <1>10 DEF StakeInv

\* The other handlers that touch the books lower what is bonded, or refuse to
\* raise it above MaxStake.
LEMMA StakeBooks ==
  ASSUME OrderInv, OrderInv', StakeInv, MaxStake \in Nat, history' = history,
         NEW s \in State, s.total_bond_statom_amount <= state.total_bond_statom_amount,
         \/ state'.total_bond_statom_amount <= s.total_bond_statom_amount
         \/ state'.total_bond_statom_amount <= MaxStake
  PROVE  StakeInv'
<1>1. state' \in State /\ state \in State
  BY DEF OrderInv, TypeOK
<1>2. QED
  BY <1>1 DEF State, StakeInv, BookedWithin

\* No step lets the books or a batch exceed MaxStake.
LEMMA StakeStep ==
  ASSUME OrderInv, OrderInv', StakeInv, MaxStake \in Nat, [Next]_vars
  PROVE  StakeInv'
<1>1. /\ ActualState \in State /\ state \in State
      /\ ActualState.total_bond_statom_amount <= state.total_bond_statom_amount
      /\ state' \in State /\ staked \in Nat
  BY ActualStateType, SyncedLowers DEF OrderInv, TypeOK, ActualState
<1>2. ASSUME NEW payment \in Payments, Bond(payment) PROVE StakeInv'
  <2>1. state'.total_bond_statom_amount <= MaxStake /\ history' = history
    BY <1>1, <1>2 DEF Bond, State
  <2>2. QED
    BY <1>1, <2>1, StakeBooks
<1>3. ASSUME NEW payment \in Rewards, BondRewards(payment) PROVE StakeInv'
  <2>1. state'.total_bond_statom_amount <= MaxStake /\ history' = history
    BY <1>1, <1>3 DEF BondRewards, State
  <2>2. QED
    BY <1>1, <2>1, StakeBooks
<1>4. ASSUME NEW u \in Users, NEW amount \in Requests, Unbond(u, amount) PROVE StakeInv'
  <2>1. state'.total_bond_statom_amount <= ActualState.total_bond_statom_amount
          /\ history' = history
    BY <1>1, <1>4, SyncedLowers DEF Unbond
  <2>2. QED
    BY <1>1, <2>1, StakeBooks
<1>5. ASSUME NEW amount \in Requests, Burn(amount) PROVE StakeInv'
  <2>1. state'.total_bond_statom_amount <= state.total_bond_statom_amount /\ history' = history
    BY <1>1, <1>5, SyncedLowers DEF Burn
  <2>2. QED
    BY <1>1, <2>1, StakeBooks DEF State
<1>6. CASE CheckSlashing
  <2>1. state' = ActualState /\ history' = history
    BY <1>6 DEF CheckSlashing
  <2>2. QED
    BY <1>1, <2>1, StakeBooks DEF State
<1>7. ASSUME NEW u \in Users, WithdrawUnbonded(u) PROVE StakeInv'
  <2>1. state'.total_bond_statom_amount = state.total_bond_statom_amount
    BY <1>1, <1>7 DEF WithdrawUnbonded, State
  <2>2. DOMAIN history' = DOMAIN history
          /\ \A b \in DOMAIN history :
               ~history'[b].released => history'[b] = history[b] /\ ~history[b].released
    BY <1>7, ProcessedHistoryType DEF OrderInv, WithdrawUnbonded
  <2>3. QED
    BY <2>1, <2>2 DEF StakeInv, BookedWithin
<1>8. CASE OwnerTx \/ ChainStep \/ UNCHANGED vars
  <2>1. state' = state /\ history' = history
    BY <1>8 DEF OwnerTx, UpdateParams, Pause, Unpause, ChainStep, EndBlock, SlashStake,
                SlashInFlight, Donate, vars
  <2>2. QED
    BY <2>1 DEF StakeInv, BookedWithin
<1>9. QED
  BY <1>2, <1>3, <1>4, <1>5, <1>6, <1>7, <1>8, StakeUndelegate DEF Next, UserTx

\* The batches of one release are booked at no more than MaxStake each.
LEMMA ReleaseBounded ==
  ASSUME TypeOK, StakeInv, MaxStake \in Nat
  PROVE  NewlyAddedUnbonded <= MaxBatch * MaxStake
<1> DEFINE n == Len(history)
           v == [b \in DOMAIN history |-> IF b \in NewlyFinished THEN Booked(history[b]) ELSE 0]
<1>1. n \in Nat /\ n <= MaxBatch /\ MaxBatch \in Nat /\ MaxStake \in Nat /\ DOMAIN history = 1..n
  BY HubAssumption DEF TypeOK
<1>2. \A b \in 1..n : v[b] \in Nat /\ v[b] <= MaxStake
  <2> SUFFICES ASSUME NEW b \in 1..n PROVE v[b] \in Nat /\ v[b] <= MaxStake
    OBVIOUS
  <2>1. Booked(history[b]) \in Nat
    BY <1>1, HistoryEntry, BookedType
  <2>2. b \in NewlyFinished => ~history[b].released
    BY NewlyFinishedBatch
  <2>3. QED
    BY <1>1, <2>1, <2>2 DEF StakeInv, BookedWithin
<1>3. NewlyAddedUnbonded = SumTo(v, n)
  BY DEF NewlyAddedUnbonded
<1> HIDE DEF n, v
<1>4. SumTo(v, n) <= n * MaxStake /\ SumTo(v, n) \in Nat
  BY <1>1, <1>2, SumToBounded, SumToType
<1>5. n * MaxStake <= MaxBatch * MaxStake /\ n * MaxStake \in Nat /\ MaxBatch * MaxStake \in Nat
  BY <1>1, ProductMonotone, ProductType
<1>6. QED
  BY <1>3, <1>4, <1>5

\* And so at no more than the scale.
LEMMA ReleaseWithinScale ==
  ASSUME TypeOK, StakeInv, FewCoins
  PROVE  NewlyAddedUnbonded <= DECIMAL_FRACTIONAL
<1>1. MaxBatch \in Nat /\ MaxStake \in Nat
  BY HubAssumption DEF FewCoins
<1>2. MaxBatch * MaxStake \in Nat /\ NewlyAddedUnbonded \in Nat
  BY <1>1, ProductType, NewlyAddedUnbondedType
<1>3. NewlyAddedUnbonded <= MaxBatch * MaxStake
  BY <1>1, ReleaseBounded
<1>4. QED
  BY <1>2, <1>3, ScaleAssumption DEF FewCoins

-----------------------------------------------------------------------------
(***************************************************************************)
(* The claims on the released batches and the coins set aside.             *)
(***************************************************************************)
\* What the users in T are owed of each released batch, taken together.
DuesOf(T) == [b \in DOMAIN history |->
                IF history[b].released
                THEN Times(SumOver(Claims(b), T), history[b].statom_withdraw_rate) ELSE 0]

\* What user u is owed of each released batch.
DuesOfUser(u) == [b \in DOMAIN history |->
                    IF history[b].released
                    THEN Times(wait[u][b], history[b].statom_withdraw_rate) ELSE 0]

\* Paid one by one, the users get no more than their claims are worth together.
LEMMA DuesAdded ==
  ASSUME TypeOK, NEW T \in SUBSET Users, NEW u \in Users, u \notin T
  PROVE  LET n == Len(history)
         IN  /\ SumTo(DuesOfUser(u), n) \in Nat /\ SumTo(DuesOf(T), n) \in Nat
             /\ SumTo(DuesOf(T \union {u}), n) \in Nat
             /\ SumTo(DuesOfUser(u), n) + SumTo(DuesOf(T), n) <= SumTo(DuesOf(T \union {u}), n)
<1> DEFINE n == Len(history)
           f == DuesOfUser(u)
           g == DuesOf(T)
           k == DuesOf(T \union {u})
           h == [b \in 1..n |-> f[b] + g[b]]
<1>1. /\ n \in Nat /\ DOMAIN history = 1..n
      /\ \A b \in 1..n : b \in BatchIds /\ history[b].statom_withdraw_rate \in Nat
  BY DuesType DEF UnbondHistory
<1>2. ASSUME NEW b \in 1..n
      PROVE  f[b] \in Nat /\ g[b] \in Nat /\ k[b] \in Nat /\ f[b] + g[b] <= k[b]
  <2> DEFINE rate == history[b].statom_withdraw_rate
             c == wait[u][b]
             d == SumOver(Claims(b), T)
  <2>1. /\ f[b] = IF history[b].released THEN Times(c, rate) ELSE 0
        /\ g[b] = IF history[b].released THEN Times(d, rate) ELSE 0
        /\ k[b] = IF history[b].released
                  THEN Times(SumOver(Claims(b), T \union {u}), rate) ELSE 0
    BY <1>1 DEF DuesOfUser, DuesOf
  <2>2. rate \in Nat
    BY <1>1
  <2>3. \A v \in Users : Claims(b)[v] = wait[v][b] /\ Claims(b)[v] \in Nat
    BY <1>1, ClaimsType
  <2>4. d \in Nat /\ c \in Nat /\ SumOver(Claims(b), T \union {u}) = c + d
    <3> HIDE DEF Claims
    <3>1. SumOver(Claims(b), T) \in Nat
      BY <2>3, SumOverType, HubAssumption
    <3>2. SumOver(Claims(b), T \union {u}) = Claims(b)[u] + SumOver(Claims(b), T)
      BY <2>3, SumOverAdded, HubAssumption
    <3>3. QED
      BY <3>1, <3>2, <2>3
  <2> HIDE DEF f, g, k, rate, c, d
  <2>5. Times(c, rate) \in Nat /\ Times(d, rate) \in Nat /\ Times(c + d, rate) \in Nat
    <3>1. c + d \in Nat
      BY <2>4
    <3>2. QED
      BY <3>1, <2>2, <2>4, TimesBound
  <2>6. Times(c, rate) + Times(d, rate) <= Times(c + d, rate)
    BY <2>2, <2>4, TimesSuperadditive
  <2>7. QED
    BY <2>1, <2>4, <2>5, <2>6
<1> HIDE DEF n, f, g, k
<1>3. SumTo(f, n) \in Nat /\ SumTo(g, n) \in Nat /\ SumTo(k, n) \in Nat
  BY <1>1, <1>2, SumToType
<1>4. \A b \in 1..n : f[b] \in Nat /\ g[b] \in Nat /\ h[b] = f[b] + g[b]
  BY <1>2
<1>5. \A b \in 1..n : h[b] \in Nat /\ k[b] \in Nat /\ h[b] <= k[b]
  BY <1>2, <1>4
<1> HIDE DEF h
<1>6. SumTo(h, n) = SumTo(f, n) + SumTo(g, n)
  BY ONLY <1>1, <1>4, SumToPlus
<1>7. SumTo(h, n) <= SumTo(k, n)
  BY ONLY <1>1, <1>5, SumToMonotone
<1>8. QED
  BY <1>3, <1>6, <1>7 DEF n, f, g, k

\* The users are owed no more than the released batches owe.
LEMMA OwedWithinDue ==
  ASSUME TypeOK
  PROVE  Owed <= Due
<1> DEFINE n == Len(history)
           owed == [u \in Users |-> FinishedAmount(u, history)]
           Q == {T \in SUBSET Users : SumOver(owed, T) <= SumTo(DuesOf(T), n)}
<1>1. \A u \in Users : owed[u] = SumTo(DuesOfUser(u), n)
  BY DEF FinishedAmount, DuesOfUser
<1>2. n \in Nat /\ DOMAIN history = 1..n
        /\ \A b \in 1..n : b \in BatchIds /\ history[b].statom_withdraw_rate \in Nat
  BY DuesType DEF UnbondHistory
<1>3. \A u \in Users : owed[u] \in Nat
  <2> SUFFICES ASSUME NEW u \in Users PROVE owed[u] \in Nat
    OBVIOUS
  <2>1. {} \in SUBSET Users
    OBVIOUS
  <2>2. SumTo(DuesOfUser(u), n) \in Nat
    BY <2>1, DuesAdded
  <2>3. QED
    BY <2>2, <1>1
<1>4. Owed = SumOver(owed, Users)
  BY DEF Owed
<1> HIDE DEF owed, n
<1>5. {} \in Q
  <2>1. SumOver(owed, {}) = 0
    BY SumOverStart, HubAssumption
  <2>2. SumTo(DuesOf({}), n) \in Nat
    <3>1. \A b \in 1..n : DuesOf({})[b] \in Nat
      <4> SUFFICES ASSUME NEW b \in 1..n PROVE DuesOf({})[b] \in Nat
        OBVIOUS
      <4>1. SumOver(Claims(b), {}) = 0
        BY SumOverStart, HubAssumption
      <4>2. Times(0, history[b].statom_withdraw_rate) \in Nat
        BY <1>2, TimesBound
      <4>3. QED
        BY <4>1, <4>2, <1>2 DEF DuesOf
    <3>2. QED
      BY ONLY <3>1, <1>2, SumToType
  <2>3. QED
    BY <2>1, <2>2
<1>6. ASSUME NEW T \in SUBSET Users, NEW u \in Users, T \in Q, u \notin T
      PROVE  T \union {u} \in Q
  <2>1. SumOver(owed, T \union {u}) = owed[u] + SumOver(owed, T) /\ SumOver(owed, T) \in Nat
    BY <1>3, <1>6, SumOverAdded, SumOverType, HubAssumption
  <2>2. SumTo(DuesOfUser(u), n) \in Nat /\ SumTo(DuesOf(T), n) \in Nat
          /\ SumTo(DuesOf(T \union {u}), n) \in Nat
          /\ SumTo(DuesOfUser(u), n) + SumTo(DuesOf(T), n) <= SumTo(DuesOf(T \union {u}), n)
    BY <1>6, DuesAdded DEF n
  <2>3. SumOver(owed, T) <= SumTo(DuesOf(T), n)
    BY <1>6
  <2>4. QED
    BY <2>1, <2>2, <2>3, <1>1, <1>3
<1> HIDE DEF Q
<1>7. Users \in Q
  <2>1. IsFiniteSet(Users) /\ Users \in SUBSET Users
    BY HubAssumption
  <2>2. \A T \in SUBSET Users, u \in Users : T \in Q /\ u \notin T => T \union {u} \in Q
    BY <1>6
  <2>3. \A T \in SUBSET Users : T \in Q
    BY ONLY <1>5, <2>1, <2>2, SubsetInduction
  <2>4. QED
    BY <2>1, <2>3
<1>8. DuesOf(Users) = Dues
  <2>1. \A b \in DOMAIN history : SumOver(Claims(b), Users) = Requested(b)
    BY <1>2, ClaimsType
  <2>2. QED
    BY <2>1 DEF DuesOf, Dues
<1>9. QED
  BY <1>4, <1>7, <1>8 DEF Q, Due, n

\* What the users are owed is an amount.
LEMMA OwedType ==
  ASSUME TypeOK
  PROVE  Owed \in Nat
<1> DEFINE f == [u \in Users |-> FinishedAmount(u, history)]
<1>1. \A u \in Users : f[u] \in Nat
  BY FinishedAmountType DEF TypeOK
<1> HIDE DEF f
<1>2. SumOver(f, Users) \in Nat
  BY <1>1, SumOverType, HubAssumption
<1>3. QED
  BY <1>2 DEF Owed, f

\* What makes SolventUpToDust inductive: batch by batch, what is owed was set
\* aside, but for a coin each.
DuesInv ==
  /\ ClaimsInv
  /\ BalanceCoversPrev
  /\ StakeInv
  /\ Due <= state.prev_hub_balance + Cardinality(Released)

\* Only a withdrawal sets coins aside.
LEMMA SetAsideKept ==
  ASSUME TypeOK, [Next]_vars, ~ \E u \in Users : WithdrawUnbonded(u)
  PROVE  state'.prev_hub_balance = state.prev_hub_balance
<1>1. CASE EndBlock
  BY <1>1 DEF EndBlock
<1>2. CASE \E coins \in Donations : Donate(coins)
  BY <1>2 DEF Donate
<1>3. CASE ~EndBlock /\ ~ \E coins \in Donations : Donate(coins)
  BY <1>3, PrevBalanceUntouched
<1>4. QED
  BY <1>1, <1>2, <1>3

\* Nothing but a withdrawal changes what is owed.
LEMMA DueUntouched ==
  ASSUME ClaimsInv, ClaimsInv', [Next]_vars, ~ \E u \in Users : WithdrawUnbonded(u)
  PROVE  /\ Due' = Due /\ Released' = Released
         /\ \A b \in DOMAIN history : history'[b] = history[b]
<1>1. /\ TypeOK /\ TypeOK' /\ Len(history) \in Nat /\ DOMAIN history = 1..Len(history)
      /\ batch.id = Len(history) + 1 /\ history \in Seq(UnbondHistory)
      /\ \A b \in DOMAIN history : b \in BatchIds /\ b # batch.id /\ Requested(b) \in Nat
  <2>1. TypeOK /\ TypeOK' /\ batch.id = Len(history) + 1 /\ history \in Seq(UnbondHistory)
    BY DEF ClaimsInv, OrderInv, ProcessedInOrder, TypeOK
  <2>2. QED
    BY <2>1, DuesType, ClaimsType
<1>2. ASSUME NEW u \in Users, NEW amount \in Requests, batch.id \in BatchIds, StoreWait(u, amount)
      PROVE  \A b \in DOMAIN history : Requested(b)' = Requested(b)
  <2>1. amount \in Nat
    BY HubAssumption
  <2>2. \A b \in DOMAIN history :
          Requested(b)' = Requested(b) + IF b = batch.id THEN amount ELSE 0
    BY <1>1, <1>2, <2>1, RequestedStored
  <2>3. QED
    BY <1>1, <2>2
<1>3. CASE \E u \in Users, amount \in Requests : UnbondAndUndelegate(u, amount)
  <2>1. PICK u \in Users, amount \in Requests : UnbondAndUndelegate(u, amount)
    BY <1>3
  <2>2. batch.id \in BatchIds /\ StoreWait(u, amount)
    BY <2>1 DEF UnbondAndUndelegate
  <2>3. PICK h : history' = Append(history, h) /\ ~h.released
    BY <2>1 DEF UnbondAndUndelegate
  <2>4. /\ Len(history) <= Len(history')
        /\ \A b \in DOMAIN history : history'[b] = history[b]
        /\ \A b \in DOMAIN history' : b \notin DOMAIN history => ~history'[b].released
    BY <1>1, <2>3
  <2>5. QED
    BY <1>1, <1>2, <2>2, <2>4, DueKept
<1>4. CASE ~ \E u \in Users, amount \in Requests : UnbondAndUndelegate(u, amount)
  <2>1. history' = history /\ \A b \in DOMAIN history : Requested(b)' = Requested(b)
    <3>1. CASE \E u \in Users, amount \in Requests : Unbond(u, amount)
      BY <3>1, <1>2 DEF Unbond
    <3>2. CASE ~ \E u \in Users, amount \in Requests : Unbond(u, amount)
      <4>1. wait' = wait /\ history' = history
        BY <1>4, <3>2, ClaimsKept
      <4>2. QED
        BY <4>1 DEF Requested
    <3>3. QED
      BY <3>1, <3>2
  <2>2. QED
    BY <1>1, <2>1, DueKept
<1>5. QED
  BY <1>3, <1>4

\* Every step keeps the coins set aside and what is owed together.
LEMMA DuesInvStep ==
  ASSUME FewCoins, DuesInv, BalanceCoversPrev', [Next]_vars
  PROVE  DuesInv'
<1>1. ClaimsInv' /\ ClaimsInv /\ TypeOK /\ BalanceCoversPrev /\ StakeInv
  BY ClaimsInvStep DEF DuesInv, ClaimsInv, OrderInv
<1>2. StakeInv'
  BY <1>1, StakeStep DEF ClaimsInv, FewCoins
<1>3. Due' <= state'.prev_hub_balance + Cardinality(Released')
  <2>1. CASE \E u \in Users : WithdrawUnbonded(u)
    <3>1. NewlyAddedUnbonded <= DECIMAL_FRACTIONAL
      BY <1>1, ReleaseWithinScale
    <3>2. PICK u \in Users : WithdrawUnbonded(u)
      BY <2>1
    <3>3. /\ Released' = Released \union NewlyFinished
          /\ Released \intersect NewlyFinished = {}
          /\ IsFiniteSet(Released) /\ IsFiniteSet(NewlyFinished)
      BY <1>1, <3>2, DuePaid
    <3>4. /\ Cardinality(Released) \in Nat /\ Cardinality(NewlyFinished) \in Nat
          /\ Cardinality(Released') = Cardinality(Released) + Cardinality(NewlyFinished)
      BY <3>3, ReleasedCount
    <3>5. SumTo(Payouts, Len(history)) <= Arrived + Cardinality(NewlyFinished)
      BY <1>1, <3>1, ReleasePaid
    <3>6. Due <= state.prev_hub_balance + Cardinality(Released)
      BY DEF DuesInv
    <3>7. QED
      BY <1>1, <3>2, <3>4, <3>5, <3>6, DueWithdraw
  <2>2. CASE ~ \E u \in Users : WithdrawUnbonded(u)
    <3>1. Due' = Due /\ Released' = Released
      BY <1>1, <2>2, DueUntouched
    <3>2. state'.prev_hub_balance = state.prev_hub_balance
      BY <1>1, <2>2, SetAsideKept
    <3>3. Due <= state.prev_hub_balance + Cardinality(Released)
      BY DEF DuesInv
    <3>4. Cardinality(Released') = Cardinality(Released)
      BY <3>1
    <3> QED BY <3>1, <3>2, <3>3, <3>4
  <2>3. QED
    BY <2>1, <2>2
<1>4. QED
  BY <1>1, <1>2, <1>3 DEF DuesInv

\* At first nothing is owed.
LEMMA DuesInvInit ==
  ASSUME FewCoins, Init
  PROVE  DuesInv
<1>1. ClaimsInv /\ TypeOK
  BY ClaimsInvInit, TypeInit
<1>2. history = <<>> /\ Len(history) = 0 /\ state.total_bond_statom_amount = 0
        /\ state.prev_hub_balance = 0 /\ balance = 0
  BY DEF Init
<1>3. BalanceCoversPrev /\ StakeInv
  BY <1>2 DEF BalanceCoversPrev, StakeInv, BookedWithin, FewCoins
<1>4. Due = 0
  <2>1. \A b \in 1..0 : Dues[b] = 0
    OBVIOUS
  <2>2. SumTo(Dues, 0) = 0
    BY <2>1, SumToZero
  <2>3. QED
    BY <2>2, <1>2 DEF Due
<1>5. Released = {}
  BY <1>2 DEF Released
<1>6. QED
  BY <1>1, <1>2, <1>3, <1>4, <1>5, FS_EmptySet DEF DuesInv

LEMMA DuesInvAlways ==
  ASSUME FewCoins
  PROVE  Spec => []DuesInv
<1>1. Init => DuesInv
  BY DuesInvInit
<1>2. DuesInv /\ BalanceCoversPrev' /\ [Next]_vars => DuesInv'
  BY DuesInvStep
<1>3. QED
  BY <1>1, <1>2, BalanceKept, PTL DEF Spec

\* Whatever is lost, donated or released before its coins arrive, and in
\* whatever order the users withdraw: the claims on the released batches
\* exceed the coins that execute_withdraw_unbonded set aside by at most one
\* coin for each batch, the coin that SignedInt and the truncations of
\* calculate_new_withdraw_rate may credit to it.
THEOREM ClaimsAreCovered ==
  FewCoins => (Spec => []SolventUpToDust)
<1> SUFFICES ASSUME FewCoins PROVE Spec => []SolventUpToDust
  OBVIOUS
<1>1. DuesInv => SolventUpToDust
  <2> SUFFICES ASSUME DuesInv PROVE SolventUpToDust
    OBVIOUS
  <2>1. TypeOK
    BY DEF DuesInv, ClaimsInv, OrderInv
  <2>2. Owed <= Due /\ Due \in Nat
    BY <2>1, OwedWithinDue, DuesType
  <2>3. Owed \in Nat
    BY <2>1, OwedType
  <2>4. Cardinality(Released) \in Nat /\ state.prev_hub_balance \in Nat
    <3>1. IsFiniteSet(1..Len(history)) /\ Released \in SUBSET (1..Len(history))
      BY <2>1, DuesType, FS_Interval DEF Released
    <3>2. QED
      BY <3>1, <2>1, FS_Subset, FS_CardinalityType DEF TypeOK, State
  <2>5. QED
    BY <2>2, <2>3, <2>4 DEF DuesInv, SolventUpToDust
<1>2. QED
  BY <1>1, DuesInvAlways, PTL

-----------------------------------------------------------------------------
(***************************************************************************)
(* The coins that arrive, where the hub releases a batch in the block      *)
(* after the one that pays it out.                                         *)
(***************************************************************************)
\* The time between two blocks, where it is always the same.
Block == CHOOSE gap \in BlockGaps : TRUE

\* The blocks come at regular intervals, and unbonding_period is one block
\* more than what the chain needs to pay out an undelegation.
InStep ==
  /\ BlockGaps = {Block}
  /\ UnbondingPeriods \subseteq {ChainUnbonding + Block}

\* What is undelegated arrives in full, and nobody sends coins to the hub.
Lossless == InFlightLosses = {} /\ Donations = {}

\* The chain has paid out batch b: it did at the end of an earlier block.
Arrives(b) == history[b].time + ChainUnbonding + Block <= now

\* A block takes some time.
LEMMA BlockType ==
  ASSUME InStep
  PROVE  Block \in Nat \ {0}
BY HubAssumption DEF InStep

\* A withdrawal releases exactly the batches the chain has paid out.
LEMMA ReleasesWhatArrived ==
  ASSUME InStep, OrderInv, NEW b \in DOMAIN history, ~history[b].released
  PROVE  b \in NewlyFinished <=> Arrives(b)
<1> DEFINE last == state.last_processed_batch
<1>1. /\ DOMAIN history = 1..Len(history) /\ Len(history) \in Nat
      /\ last \in Nat /\ now \in Nat /\ ChainUnbonding \in Nat /\ Block \in Nat
      /\ params.unbonding_period = ChainUnbonding + Block
  <2>1. state \in State /\ params \in Parameters /\ now \in Nat
          /\ DOMAIN history = 1..Len(history) /\ Len(history) \in Nat
    BY DEF OrderInv, TypeOK
  <2>2. params.unbonding_period = ChainUnbonding + Block
    BY <2>1 DEF Parameters, InStep
  <2>3. last \in Nat
    BY <2>1 DEF State
  <2>4. QED
    BY <2>1, <2>2, <2>3, HubAssumption, BlockType
<1>2. \A c \in DOMAIN history :
        /\ history[c].time \in Nat /\ history[c].released \in BOOLEAN
        /\ history[c].released <=> c <= last
        /\ c < b => history[c].time < history[b].time
  BY HistoryEntry DEF OrderInv, ProcessedInOrder, UnbondHistory
<1>3. \A c \in DOMAIN history : Finished(c) <=> Arrives(c) /\ ~history[c].released
  BY <1>1, <1>2 DEF Finished, HistoricalTime, Arrives
<1> HIDE DEF last
<1>4. last < b /\ b \in last + 1 .. b
  BY <1>1, <1>2
<1>5. b \in NewlyFinished => Arrives(b)
  <2> SUFFICES ASSUME b \in NewlyFinished PROVE Arrives(b)
    OBVIOUS
  <2>1. Finished(b)
    BY <1>4 DEF NewlyFinished, last
  <2>2. QED
    BY <1>3, <2>1
<1>6. ASSUME Arrives(b), NEW c \in last + 1 .. b PROVE Finished(c)
  <2>1. c \in DOMAIN history /\ ~(c <= last) /\ (c < b \/ c = b)
    BY <1>1, <1>4
  <2>2. ~history[c].released /\ history[c].time <= history[b].time
    BY <1>2, <2>1
  <2>3. Arrives(c)
    BY <1>1, <1>2, <1>6, <2>1, <2>2 DEF Arrives
  <2>4. QED
    BY <1>3, <2>1, <2>2, <2>3
<1>7. QED
  BY <1>4, <1>5, <1>6 DEF NewlyFinished, last

\* The entry that process_undelegations stores, and the coins it asks for.
LEMMA UndelegatedEntry ==
  ASSUME OrderInv, NEW u \in Users, NEW amount \in Requests, UnbondAndUndelegate(u, amount)
  PROVE  \E h \in UnbondHistory :
           /\ history' = Append(history, h) /\ inflight' = Append(inflight, Booked(h))
           /\ h.time = now /\ ~h.released
           /\ h.statom_withdraw_rate = h.statom_applied_exchange_rate
           /\ h.statom_amount = batch.requested_statom + amount
           /\ h.statom_amount # 0 /\ Booked(h) \in Nat
           /\ now' = now
<1> DEFINE requested == batch.requested_statom + amount
           rate == ActualState.statom_exchange_rate
           h == [time |-> now, statom_amount |-> requested,
                 statom_applied_exchange_rate |-> rate,
                 statom_withdraw_rate |-> rate, released |-> FALSE]
<1>1. /\ history' = Append(history, h) /\ inflight' = Append(inflight, Times(requested, rate))
      /\ now' = now /\ amount \in Nat \ {0}
  BY HubAssumption DEF UnbondAndUndelegate
<1>2. /\ batch.requested_statom \in Nat /\ now \in Nat /\ rate \in Nat
  BY ActualStateType DEF OrderInv, TypeOK, CurrentBatch, State
<1> HIDE DEF rate
<1>3. requested \in Nat /\ requested # 0
  BY <1>1, <1>2
<1>4. h \in UnbondHistory /\ Booked(h) = Times(requested, rate)
  BY <1>2, <1>3 DEF UnbondHistory, Booked
<1>5. Booked(h) \in Nat
  BY <1>4, BookedType
<1>6. QED
  BY <1>1, <1>3, <1>4, <1>5

\* What else the step leaves alone.
LEMMA ArrivalsUntouched ==
  ASSUME TypeOK, [Next]_vars,
         ~ \E u \in Users, amount \in Requests : UnbondAndUndelegate(u, amount),
         ~ \E u \in Users : WithdrawUnbonded(u),
         ~ EndBlock,
         ~ \E b \in DOMAIN inflight, loss \in InFlightLosses : SlashInFlight(b, loss),
         ~ \E coins \in Donations : Donate(coins)
  PROVE  /\ UNCHANGED <<now, history, inflight, balance>>
         /\ state'.prev_hub_balance = state.prev_hub_balance
<1>1. balance' = balance /\ state'.prev_hub_balance = state.prev_hub_balance
  BY PrevBalanceUntouched
<1>2. CASE \E payment \in Payments : Bond(payment)
  BY <1>1, <1>2 DEF Bond
<1>3. CASE \E payment \in Rewards : BondRewards(payment)
  BY <1>1, <1>3 DEF BondRewards
<1>4. CASE \E u \in Users, amount \in Requests : Unbond(u, amount)
  BY <1>1, <1>4 DEF Unbond, chain
<1>5. CASE \E amount \in Requests : Burn(amount)
  BY <1>1, <1>5 DEF Burn, chain
<1>6. CASE CheckSlashing
  BY <1>1, <1>6 DEF CheckSlashing, chain
<1>7. CASE OwnerTx
  BY <1>1, <1>7 DEF OwnerTx, UpdateParams, Pause, Unpause, chain
<1>8. CASE \E loss \in StakeLosses : SlashStake(loss)
  BY <1>1, <1>8 DEF SlashStake
<1>9. CASE UNCHANGED vars
  BY <1>1, <1>9 DEF vars
<1>10. QED
  BY <1>2, <1>3, <1>4, <1>5, <1>6, <1>7, <1>8, <1>9 DEF Next, UserTx, ChainStep

\* What the batches that are not released were booked at.
Unreleased == [b \in DOMAIN history |-> IF history[b].released THEN 0 ELSE Booked(history[b])]

\* Batch by batch: the chain owes what was booked or has paid it, and what is
\* released has been paid.
CoinsInv ==
  /\ OrderInv
  /\ BalanceCoversPrev
  /\ \A b \in DOMAIN history :
       /\ inflight[b] = IF Arrives(b) THEN 0 ELSE Booked(history[b])
       /\ history[b].released => Arrives(b)
       /\ history[b].statom_amount # 0
  /\ CoinsMatchBooks

\* The two sums that CoinsMatchBooks compares.
LEMMA CoinsType ==
  ASSUME OrderInv
  PROVE  /\ Len(history) \in Nat /\ Len(inflight) = Len(history)
         /\ DOMAIN history = 1..Len(history) /\ DOMAIN inflight = 1..Len(history)
         /\ \A b \in 1..Len(history) :
              /\ history[b] \in UnbondHistory /\ inflight[b] \in Nat
              /\ Booked(history[b]) \in Nat
              /\ Unreleased[b] = IF history[b].released THEN 0 ELSE Booked(history[b])
              /\ Unreleased[b] \in Nat
         /\ balance \in Nat /\ state.prev_hub_balance \in Nat /\ now \in Nat
         /\ ChainUnbonding \in Nat
<1>1. /\ Len(history) \in Nat /\ Len(inflight) = Len(history)
      /\ DOMAIN history = 1..Len(history) /\ DOMAIN inflight = 1..Len(history)
      /\ inflight \in Seq(Nat)
      /\ balance \in Nat /\ state.prev_hub_balance \in Nat /\ now \in Nat
      /\ ChainUnbonding \in Nat
  BY HubAssumption DEF OrderInv, TypeOK, ProcessedInOrder, State
<1>2. \A b \in 1..Len(history) : /\ history[b] \in UnbondHistory /\ Booked(history[b]) \in Nat
                                 /\ inflight[b] \in Nat
  BY <1>1, HistoryEntry, BookedType DEF OrderInv
<1>3. \A b \in 1..Len(history) :
        Unreleased[b] = IF history[b].released THEN 0 ELSE Booked(history[b])
  BY <1>1 DEF Unreleased
<1>4. QED
  BY <1>1, <1>2, <1>3

\* A batch is undelegated: the chain owes what is booked.
LEMMA CoinsUndelegate ==
  ASSUME InStep, CoinsInv, OrderInv', BalanceCoversPrev',
         NEW u \in Users, NEW amount \in Requests, UnbondAndUndelegate(u, amount)
  PROVE  CoinsInv'
<1> DEFINE n == Len(history)
<1>1. OrderInv /\ TypeOK /\ history \in Seq(UnbondHistory) /\ inflight \in Seq(Nat)
  BY DEF CoinsInv, OrderInv, TypeOK
<1>2. PICK h \in UnbondHistory :
           /\ history' = Append(history, h) /\ inflight' = Append(inflight, Booked(h))
           /\ h.time = now /\ ~h.released
           /\ h.statom_amount # 0 /\ Booked(h) \in Nat
           /\ now' = now
  BY <1>1, UndelegatedEntry
<1>3. balance' = balance /\ state'.prev_hub_balance = state.prev_hub_balance
  <2>1. balance' = balance
    BY DEF UnbondAndUndelegate
  <2>2. ~ \E v \in Users : WithdrawUnbonded(v)
    <3>1. \A v \in Users : WithdrawUnbonded(v) => Len(history') = Len(history)
      BY <1>1, ProcessedHistoryType DEF WithdrawUnbonded
    <3>2. Len(history') = Len(history) + 1 /\ Len(history) \in Nat
      BY <1>1, <1>2
    <3>3. QED
      BY <3>1, <3>2
  <2>3. QED
    BY <1>1, <2>1, <2>2, SetAsideKept DEF Next, UserTx
<1>4. /\ n \in Nat /\ Len(inflight) = n /\ ChainUnbonding \in Nat /\ now \in Nat
      /\ DOMAIN history = 1..n
      /\ \A b \in 1..n : Unreleased[b] \in Nat /\ inflight[b] \in Nat
      /\ Block \in Nat \ {0}
  BY <1>1, CoinsType, BlockType
<1>5. /\ Len(history') = n + 1 /\ Len(inflight') = n + 1 /\ DOMAIN history' = 1..(n + 1)
      /\ \A b \in 1..n : history'[b] = history[b] /\ inflight'[b] = inflight[b]
      /\ history'[n + 1] = h /\ inflight'[n + 1] = Booked(h)
  BY <1>1, <1>2, <1>4
<1> DEFINE U == Unreleased'
<1>6. U[n + 1] = Booked(h) /\ \A b \in 1..n : U[b] = Unreleased[b]
  BY <1>2, <1>4, <1>5, CoinsType DEF Unreleased
<1>7. Unreleased' = U
  OBVIOUS
<1> HIDE DEF U
<1>8. SumTo(inflight', n + 1) = SumTo(inflight, n) + Booked(h)
  <2>1. \A b \in 1..n : inflight[b] \in Nat /\ inflight'[b] = inflight[b]
    BY <1>4, <1>5
  <2>2. inflight'[n + 1] = Booked(h) /\ inflight'[n + 1] \in Nat
    BY <1>2, <1>5
  <2>3. SumTo(inflight', n + 1) = SumTo(inflight, n) + inflight'[n + 1]
    BY ONLY <2>1, <2>2, <1>4, SumToAppended
  <2>4. QED
    BY ONLY <2>2, <2>3
<1>9. SumTo(U, n + 1) = SumTo(Unreleased, n) + Booked(h)
  <2>1. \A b \in 1..n : Unreleased[b] \in Nat /\ U[b] = Unreleased[b]
    BY <1>4, <1>6
  <2>2. U[n + 1] = Booked(h) /\ U[n + 1] \in Nat
    BY <1>2, <1>6
  <2>3. SumTo(U, n + 1) = SumTo(Unreleased, n) + U[n + 1]
    BY ONLY <2>1, <2>2, <1>4, SumToAppended
  <2>4. QED
    BY ONLY <2>2, <2>3
<1>10. SumTo(inflight, n) \in Nat /\ SumTo(Unreleased, n) \in Nat
  BY <1>4, SumToType
<1>11. balance - state.prev_hub_balance + SumTo(inflight, n) = SumTo(Unreleased, n)
  BY <1>4 DEF CoinsInv, CoinsMatchBooks, Unreleased
<1>12. balance \in Nat /\ state.prev_hub_balance \in Nat
  BY <1>1, CoinsType
<1>13. balance' - state'.prev_hub_balance + SumTo(inflight', Len(inflight'))
         = SumTo(Unreleased', Len(history'))
  BY <1>2, <1>3, <1>5, <1>7, <1>8, <1>9, <1>10, <1>11, <1>12
<1>14. CoinsMatchBooks'
  BY <1>13 DEF CoinsMatchBooks, Unreleased
<1>15. ASSUME NEW b \in DOMAIN history'
       PROVE  /\ inflight'[b] = IF Arrives(b)' THEN 0 ELSE Booked(history'[b])
              /\ history'[b].released => Arrives(b)'
              /\ history'[b].statom_amount # 0
  <2>1. CASE b \in 1..n
    <3>1. Arrives(b)' = Arrives(b)
      BY <1>2, <1>5, <2>1 DEF Arrives
    <3>2. QED
      BY <1>4, <1>5, <2>1, <3>1 DEF CoinsInv
  <2>2. CASE b = n + 1
    <3>1. ~Arrives(b)'
      BY <1>2, <1>4, <1>5, <2>2 DEF Arrives
    <3>2. QED
      BY <1>2, <1>5, <2>2, <3>1
  <2>3. QED
    BY <1>4, <1>5, <2>1, <2>2
<1>16. QED
  BY <1>14, <1>15 DEF CoinsInv

\* A withdrawal takes all the coins that have arrived, and these are the coins
\* of the batches it releases.
LEMMA CoinsWithdraw ==
  ASSUME InStep, CoinsInv, OrderInv', BalanceCoversPrev', NEW u \in Users, WithdrawUnbonded(u)
  PROVE  CoinsInv'
<1> DEFINE n == Len(history)
           U == Unreleased'
<1>1. OrderInv /\ TypeOK
  BY DEF CoinsInv, OrderInv
<1>2. /\ history' = ProcessedHistory /\ inflight' = inflight /\ now' = now
      /\ balance' = balance - FinishedAmount(u, ProcessedHistory)
      /\ state'.prev_hub_balance = balance'
  BY <1>1 DEF WithdrawUnbonded, PrevBalance, TypeOK, State, chain
<1>3. /\ n \in Nat /\ Len(inflight) = n
      /\ DOMAIN history = 1..n
      /\ \A b \in 1..n : inflight[b] \in Nat
  BY <1>1, CoinsType
<1>4. Len(history') = n /\ DOMAIN history' = 1..n
      /\ \A b \in 1..n :
           /\ history'[b].time = history[b].time
           /\ history'[b].statom_amount = history[b].statom_amount
           /\ history'[b].released <=> history[b].released \/ b \in NewlyFinished
           /\ b \notin NewlyFinished => history'[b] = history[b]
  BY <1>1, <1>2, <1>3, ProcessedHistoryType
<1>5. \A b \in 1..n :
        /\ inflight[b] = IF Arrives(b) THEN 0 ELSE Booked(history[b])
        /\ history[b].released => Arrives(b)
        /\ history[b].statom_amount # 0
  BY <1>3 DEF CoinsInv
<1>6. \A b \in 1..n : history'[b].released <=> Arrives(b)
  <2> SUFFICES ASSUME NEW b \in 1..n PROVE history'[b].released <=> Arrives(b)
    OBVIOUS
  <2>1. CASE history[b].released
    BY <2>1, <1>4, <1>5
  <2>2. CASE ~history[b].released
    BY <2>2, <1>1, <1>3, <1>4, ReleasesWhatArrived
  <2>3. QED
    BY <2>1, <2>2
<1>7. \A b \in 1..n : Arrives(b)' <=> Arrives(b)
  BY <1>2, <1>4 DEF Arrives
<1>8. \A b \in 1..n : U[b] = IF history'[b].released THEN 0 ELSE Booked(history'[b])
  BY <1>4 DEF Unreleased
<1>9. Unreleased' = U
  OBVIOUS
<1> HIDE DEF U
<1>10. \A b \in 1..n : U[b] = inflight[b]
  BY <1>4, <1>5, <1>6, <1>8
<1>11. SumTo(U, n) = SumTo(inflight, n) /\ SumTo(inflight, n) \in Nat
  BY <1>3, <1>10, SumToSame, SumToType
<1>12. balance' \in Nat
  BY DEF OrderInv, TypeOK
<1>13. balance' - state'.prev_hub_balance + SumTo(inflight', Len(inflight'))
         = SumTo(Unreleased', Len(history'))
  BY <1>2, <1>3, <1>4, <1>9, <1>11, <1>12
<1>14. CoinsMatchBooks'
  BY <1>13 DEF CoinsMatchBooks, Unreleased
<1>15. \A b \in DOMAIN history' :
         /\ inflight'[b] = IF Arrives(b)' THEN 0 ELSE Booked(history'[b])
         /\ history'[b].released => Arrives(b)'
         /\ history'[b].statom_amount # 0
  BY <1>2, <1>4, <1>5, <1>6, <1>7
<1>16. QED
  BY <1>14, <1>15 DEF CoinsInv

\* A block ends: what has matured moves from the chain to the hub.
LEMMA CoinsEndBlock ==
  ASSUME InStep, CoinsInv, OrderInv', BalanceCoversPrev', EndBlock
  PROVE  CoinsInv'
<1> DEFINE n == Len(history)
           pay == [b \in DOMAIN inflight |-> IF Matured(b) THEN inflight[b] ELSE 0]
<1>1. OrderInv /\ TypeOK
  BY DEF CoinsInv, OrderInv
<1>2. /\ n \in Nat /\ Len(inflight) = n
      /\ DOMAIN history = 1..n /\ DOMAIN inflight = 1..n
      /\ \A b \in 1..n : /\ inflight[b] \in Nat /\ history[b].time \in Nat
                         /\ Unreleased[b] \in Nat
      /\ now \in Nat /\ ChainUnbonding \in Nat /\ Block \in Nat
      /\ balance \in Nat /\ state.prev_hub_balance \in Nat
  BY <1>1, CoinsType, BlockType DEF UnbondHistory
<1>3. /\ now' = now + Block /\ history' = history /\ state' = state
      /\ balance' = balance + SumTo(pay, n)
      /\ Len(inflight') = n
      /\ \A b \in 1..n : inflight'[b] = IF Matured(b) THEN 0 ELSE inflight[b]
  <2>1. Len(inflight') = Len(history')
    BY DEF OrderInv, ProcessedInOrder
  <2>2. now' = now + Block
    BY DEF EndBlock, InStep
  <2>3. QED
    BY <1>2, <2>1, <2>2 DEF EndBlock
<1>4. \A b \in 1..n : Arrives(b)' <=> Matured(b)
  BY <1>2, <1>3 DEF Arrives, Matured
<1>5. \A b \in 1..n : Arrives(b) => Arrives(b)'
  BY <1>2, <1>3 DEF Arrives
<1>6. \A b \in 1..n : /\ inflight'[b] \in Nat /\ pay[b] \in Nat
                      /\ inflight[b] = inflight'[b] + pay[b]
  BY <1>2, <1>3
<1> HIDE DEF pay
<1>7. SumTo(inflight, n) = SumTo(inflight', n) + SumTo(pay, n)
  BY ONLY <1>2, <1>6, SumToPlus
<1>8. SumTo(inflight', n) \in Nat /\ SumTo(pay, n) \in Nat /\ SumTo(Unreleased, n) \in Nat
  BY <1>2, <1>6, SumToType
<1>9. balance - state.prev_hub_balance + SumTo(inflight, n) = SumTo(Unreleased, n)
  BY <1>2 DEF CoinsInv, CoinsMatchBooks, Unreleased
<1>10. balance' - state'.prev_hub_balance + SumTo(inflight', Len(inflight'))
         = SumTo(Unreleased, Len(history'))
  BY <1>2, <1>3, <1>7, <1>8, <1>9
<1>11. CoinsMatchBooks'
  BY <1>3, <1>10 DEF CoinsMatchBooks, Unreleased
<1>12. \A b \in DOMAIN history' :
         /\ inflight'[b] = IF Arrives(b)' THEN 0 ELSE Booked(history'[b])
         /\ history'[b].released => Arrives(b)'
         /\ history'[b].statom_amount # 0
  BY <1>2, <1>3, <1>4, <1>5 DEF CoinsInv
<1>13. QED
  BY <1>11, <1>12 DEF CoinsInv

\* Without losses and donations no step parts the coins and the books.
LEMMA CoinsInvStep ==
  ASSUME InStep, Lossless, CoinsInv, BalanceCoversPrev', [Next]_vars
  PROVE  CoinsInv'
<1>1. OrderInv /\ OrderInv' /\ TypeOK
  BY OrderInvStep DEF CoinsInv, OrderInv
<1>2. CASE \E u \in Users, amount \in Requests : UnbondAndUndelegate(u, amount)
  BY <1>1, <1>2, CoinsUndelegate
<1>3. CASE \E u \in Users : WithdrawUnbonded(u)
  BY <1>1, <1>3, CoinsWithdraw
<1>4. CASE EndBlock
  BY <1>1, <1>4, CoinsEndBlock
<1>5. CASE /\ ~ \E u \in Users, amount \in Requests : UnbondAndUndelegate(u, amount)
           /\ ~ \E u \in Users : WithdrawUnbonded(u)
           /\ ~ EndBlock
  <2>1. /\ UNCHANGED <<now, history, inflight, balance>>
        /\ state'.prev_hub_balance = state.prev_hub_balance
    BY <1>1, <1>5, ArrivalsUntouched DEF Lossless
  <2>2. CoinsMatchBooks'
    BY <2>1 DEF CoinsInv, CoinsMatchBooks, Booked
  <2>3. \A b : Arrives(b)' = Arrives(b)
    BY <2>1 DEF Arrives
  <2>4. QED
    BY <1>1, <2>1, <2>2, <2>3 DEF CoinsInv
<1>6. QED
  BY <1>2, <1>3, <1>4, <1>5

\* There are no coins and no batches at first.
LEMMA CoinsInvInit ==
  ASSUME Init
  PROVE  CoinsInv
<1>1. OrderInv
  BY OrderInvInit
<1>2. history = <<>> /\ inflight = <<>> /\ balance = 0 /\ state.prev_hub_balance = 0
        /\ Len(history) = 0 /\ Len(inflight) = 0 /\ DOMAIN history = {}
  BY DEF Init
<1>3. \A f : SumTo(f, 0) = 0
  BY SumToZero
<1>4. CoinsMatchBooks
  BY <1>2, <1>3 DEF CoinsMatchBooks
<1>5. QED
  BY <1>1, <1>2, <1>4 DEF CoinsInv, BalanceCoversPrev

LEMMA CoinsInvAlways ==
  ASSUME InStep, Lossless
  PROVE  Spec => []CoinsInv
<1>1. Init => CoinsInv
  BY CoinsInvInit
<1>2. CoinsInv /\ BalanceCoversPrev' /\ [Next]_vars => CoinsInv'
  BY CoinsInvStep
<1>3. QED
  BY <1>1, <1>2, BalanceKept, PTL DEF Spec

\* Where the hub waits exactly as long as it has to and nothing is lost or
\* donated, the coins of the hub that are not set aside, and those the chain
\* owes it, are those of the batches not yet released.
THEOREM CoinsAreBooked ==
  InStep /\ Lossless => (Spec => []CoinsMatchBooks)
<1> SUFFICES ASSUME InStep, Lossless PROVE Spec => []CoinsMatchBooks
  OBVIOUS
<1>1. CoinsInv => CoinsMatchBooks
  BY DEF CoinsInv
<1>2. QED
  BY <1>1, CoinsInvAlways, PTL

\* What arrived is what the batches that a withdrawal releases were booked at.
LEMMA ArrivedInFull ==
  ASSUME InStep, CoinsInv
  PROVE  Arrived = NewlyAddedUnbonded
<1> DEFINE n == Len(history)
           v == [b \in DOMAIN history |-> IF b \in NewlyFinished THEN Booked(history[b]) ELSE 0]
<1>1. OrderInv /\ TypeOK
  BY DEF CoinsInv, OrderInv
<1>2. /\ n \in Nat /\ Len(inflight) = n
      /\ DOMAIN history = 1..n
      /\ \A b \in 1..n : /\ inflight[b] \in Nat /\ Booked(history[b]) \in Nat
                         /\ Unreleased[b] = IF history[b].released THEN 0 ELSE Booked(history[b])
      /\ balance \in Nat /\ state.prev_hub_balance \in Nat
  BY <1>1, CoinsType
<1>3. \A b \in 1..n : v[b] = IF b \in NewlyFinished THEN Booked(history[b]) ELSE 0
  BY <1>2
<1>4. NewlyAddedUnbonded = SumTo(v, n)
  BY DEF NewlyAddedUnbonded
<1> HIDE DEF v
<1>5. ASSUME NEW b \in 1..n
      PROVE  v[b] \in Nat /\ Unreleased[b] = v[b] + inflight[b]
  <2>1. /\ inflight[b] = IF Arrives(b) THEN 0 ELSE Booked(history[b])
        /\ history[b].released => Arrives(b)
    BY <1>2 DEF CoinsInv
  <2>2. CASE history[b].released
    <3>1. b \notin NewlyFinished
      BY <2>2, <1>1, NewlyFinishedBatch
    <3>2. QED
      BY <2>1, <2>2, <3>1, <1>2, <1>3
  <2>3. CASE ~history[b].released
    <3>1. b \in NewlyFinished <=> Arrives(b)
      BY <2>3, <1>1, <1>2, ReleasesWhatArrived
    <3>2. QED
      BY <2>1, <2>3, <3>1, <1>2, <1>3
  <2>4. QED
    BY <2>2, <2>3
<1>6. SumTo(Unreleased, n) = SumTo(v, n) + SumTo(inflight, n)
  <2>1. \A b \in 1..n : /\ v[b] \in Nat /\ inflight[b] \in Nat
                        /\ Unreleased[b] = v[b] + inflight[b]
    BY <1>2, <1>5
  <2>2. QED
    BY ONLY <2>1, <1>2, SumToPlus
<1>7. SumTo(v, n) \in Nat /\ SumTo(inflight, n) \in Nat
  BY <1>2, <1>5, SumToType
<1>8. balance - state.prev_hub_balance + SumTo(inflight, n) = SumTo(Unreleased, n)
  BY <1>2 DEF CoinsInv, CoinsMatchBooks, Unreleased
<1>9. Arrived = balance - state.prev_hub_balance
  BY DEF Arrived
<1> HIDE DEF n
<1>10. QED
  BY ONLY <1>2, <1>4, <1>6, <1>7, <1>8, <1>9

\* So calculate_new_withdraw_rate takes the batch to have unbonded what it was
\* booked at.
LEMMA RateOfBooked ==
  ASSUME InStep, CoinsInv, NEW b \in NewlyFinished
  PROVE  /\ history[b].statom_amount \in Nat \ {0} /\ Booked(history[b]) \in Nat
         /\ NewRate(b) = FromRatio(Booked(history[b]), history[b].statom_amount)
<1> DEFINE total == NewlyAddedUnbonded
           booked == Booked(history[b])
           none == [magnitude |-> 0, negative |-> FALSE]
<1>1. OrderInv /\ TypeOK /\ BalanceCoversPrev
  BY DEF CoinsInv, OrderInv
<1>2. b \in DOMAIN history /\ history[b].statom_amount \in Nat \ {0}
  BY <1>1, NewlyFinishedBatch DEF CoinsInv, UnbondHistory
<1>3. total \in Nat /\ booked \in Nat /\ SlashedAmount = FromSubtraction(total, Arrived)
  BY <1>1, ReleasedTotal
<1>4. SlashedAmount = none
  BY <1>3, ArrivedInFull DEF FromSubtraction
<1> HIDE DEF total, booked
<1>5. SlashedShare(booked, total, none) = 0
  <2>1. PICK weight \in Nat : SlashedShare(booked, total, none) = Times(0, weight)
    <3>1. total # 0 => FromRatio(booked, total) \in Nat
      BY <1>3, FromRatioBound
    <3>2. (IF total # 0 THEN FromRatio(booked, total) ELSE 0) \in Nat
      BY <3>1
    <3>3. SlashedShare(booked, total, none)
            = Times(0, IF total # 0 THEN FromRatio(booked, total) ELSE 0)
      BY DEF SlashedShare
    <3>4. QED
      BY <3>2, <3>3
  <2>2. Times(0, weight) \in Nat /\ DECIMAL_FRACTIONAL * Times(0, weight) <= 0 * weight
    BY TimesBound
  <2>3. 0 * weight = 0
    OBVIOUS
  <2>4. Times(0, weight) = 0
    BY <2>2, <2>3, ScaleAssumption
  <2>5. QED
    BY <2>1, <2>4
<1>6. ActualUnbonded(booked, total, none) = booked
  <2>1. ActualUnbonded(booked, total, none) = FromSubtraction(booked, 0).magnitude
    BY <1>5 DEF ActualUnbonded
  <2>2. QED
    BY <2>1, <1>3 DEF FromSubtraction
<1>7. NewRate(b) = FromRatio(ActualUnbonded(booked, total, none), history[b].statom_amount)
  BY <1>2, <1>4 DEF NewRate, NewWithdrawRate, Booked, booked, total
<1>8. QED
  BY <1>2, <1>3, <1>6, <1>7 DEF booked

\* Where the hub waits exactly as long as it has to and nothing is lost or
\* donated, a batch is paid out at the rate at which it was undelegated, but
\* for the truncation of that rate: what process_withdraw_rate makes of the
\* balance is not distorted by what other batches or users do.
THEOREM BookedValueIsPaid ==
  InStep /\ Lossless => (Spec => ReleasedAtBookedValue)
<1> SUFFICES ASSUME InStep, Lossless PROVE Spec => ReleasedAtBookedValue
  OBVIOUS
<1> DEFINE Paid == \A b \in DOMAIN history :
             NewlyReleased(b) =>
               Booked(history[b]) * DECIMAL_FRACTIONAL
                 \in history'[b].statom_withdraw_rate * history[b].statom_amount
                    .. (history'[b].statom_withdraw_rate + 1) * history[b].statom_amount - 1
<1>1. ASSUME CoinsInv, [Next]_vars PROVE Paid
  <2>1. OrderInv /\ TypeOK /\ history \in Seq(UnbondHistory)
    BY <1>1 DEF CoinsInv, OrderInv, TypeOK
  <2>2. SUFFICES ASSUME NEW b \in DOMAIN history, NewlyReleased(b)
                 PROVE  Booked(history[b]) * DECIMAL_FRACTIONAL
                 \in history'[b].statom_withdraw_rate * history[b].statom_amount
                    .. (history'[b].statom_withdraw_rate + 1) * history[b].statom_amount - 1
    OBVIOUS
  <2>3. \E u \in Users : WithdrawUnbonded(u)
    <3>1. CASE \E u \in Users, amount \in Requests : UnbondAndUndelegate(u, amount)
      <4>1. PICK h : history' = Append(history, h)
        BY <3>1 DEF UnbondAndUndelegate
      <4>2. history'[b] = history[b]
        BY <2>1, <4>1
      <4>3. QED
        BY <2>2, <4>2 DEF NewlyReleased
    <3>2. CASE /\ ~ \E u \in Users, amount \in Requests : UnbondAndUndelegate(u, amount)
               /\ ~ \E u \in Users : WithdrawUnbonded(u)
      BY <1>1, <2>1, <2>2, <3>2, ScheduleKept DEF Schedule, NewlyReleased
    <3>3. QED
      BY <3>1, <3>2
  <2>4. PICK u \in Users : WithdrawUnbonded(u)
    BY <2>3
  <2>5. history' = ProcessedHistory
    BY <2>4 DEF WithdrawUnbonded
  <2>6. b \in NewlyFinished
    BY <2>1, <2>2, <2>5, ProcessedHistoryType DEF NewlyReleased
  <2> DEFINE amount == history[b].statom_amount
             x == Booked(history[b]) * DECIMAL_FRACTIONAL
  <2>7. amount \in Nat \ {0} /\ Booked(history[b]) \in Nat
          /\ history'[b].statom_withdraw_rate = FromRatio(Booked(history[b]), amount)
    BY <1>1, <2>1, <2>5, <2>6, RateOfBooked, NewlyFinishedBatch
  <2>8. x \in Nat
    BY <2>7, ProductType, ScaleAssumption
  <2> DEFINE q == x \div amount
  <2>9. history'[b].statom_withdraw_rate = q
    BY <2>7 DEF FromRatio
  <2> HIDE DEF amount, x
  <2>10. q \in Nat /\ amount * q <= x /\ x < amount * q + amount
    BY <2>7, <2>8, Quotient
  <2> HIDE DEF q
  <2>11. q * amount = amount * q /\ (q + 1) * amount = amount * q + amount /\ amount * q \in Nat
    BY <2>7, <2>10
  <2>12. x \in q * amount .. (q + 1) * amount - 1
    BY <2>7, <2>8, <2>10, <2>11
  <2>13. QED
    BY <2>9, <2>12 DEF x, amount
<1>2. CoinsInv /\ [Next]_vars => [Paid]_vars
  BY <1>1
<1>3. QED
  BY <1>2, CoinsInvAlways, PTL DEF Spec, ReleasedAtBookedValue

-----------------------------------------------------------------------------
(***************************************************************************)
(* Where nothing is lost the claims are covered to the last coin.          *)
(***************************************************************************)
\* The batches of a release are paid no more than arrived.
LEMMA PaidWithinArrived ==
  ASSUME InStep, CoinsInv
  PROVE  SumTo(Payouts, Len(history)) \in Nat /\ SumTo(Payouts, Len(history)) <= Arrived
<1> DEFINE n == Len(history)
           v == [b \in DOMAIN history |-> IF b \in NewlyFinished THEN Booked(history[b]) ELSE 0]
<1>1. TypeOK /\ n \in Nat /\ DOMAIN history = 1..n
  BY CoinsType DEF CoinsInv, OrderInv
<1>2. NewlyAddedUnbonded = SumTo(v, n)
  BY DEF NewlyAddedUnbonded
<1>3. ASSUME NEW b \in 1..n
      PROVE  v[b] \in Nat /\ Payouts[b] \in Nat /\ Payouts[b] <= v[b]
  <2>1. CASE b \in NewlyFinished
    <3>1. v[b] = Booked(history[b]) /\ Payouts[b] = PaidOut(b)
      BY <2>1, <1>1 DEF Payouts
    <3>2. /\ history[b].statom_amount \in Nat \ {0} /\ Booked(history[b]) \in Nat
          /\ NewRate(b) = FromRatio(Booked(history[b]), history[b].statom_amount)
      BY <2>1, RateOfBooked
    <3>3. PaidOut(b) <= Booked(history[b])
      BY <3>2, TimesOfRatio DEF PaidOut
    <3>4. PaidOut(b) \in Nat
      BY <2>1, <1>1, NewlyFinishedBatch
    <3>5. QED
      BY <3>1, <3>2, <3>3, <3>4
  <2>2. CASE b \notin NewlyFinished
    BY <2>2, <1>1 DEF Payouts
  <2>3. QED
    BY <2>1, <2>2
<1> HIDE DEF v
<1>4. SumTo(Payouts, n) <= SumTo(v, n) /\ SumTo(Payouts, n) \in Nat
  BY <1>1, <1>3, SumToMonotone, SumToType
<1>5. QED
  BY <1>2, <1>4, ArrivedInFull DEF n

\* The claims, the coins that arrive, and that the ones cover the others.
FullInv == ClaimsInv /\ CoinsInv /\ Due <= state.prev_hub_balance

LEMMA FullInvStep ==
  ASSUME InStep, Lossless, FullInv, BalanceCoversPrev', [Next]_vars
  PROVE  FullInv'
<1>1. ClaimsInv' /\ CoinsInv' /\ ClaimsInv /\ CoinsInv /\ TypeOK /\ BalanceCoversPrev
  BY ClaimsInvStep, CoinsInvStep DEF FullInv, CoinsInv, OrderInv
<1>2. CASE \E u \in Users : WithdrawUnbonded(u)
  <2>1. PICK u \in Users : WithdrawUnbonded(u)
    BY <1>2
  <2>2. SumTo(Payouts, Len(history)) <= Arrived + 0
    <3>1. Arrived \in Nat
      BY <1>1, ReleasedTotal
    <3>2. QED
      BY <1>1, <3>1, PaidWithinArrived
  <2>3. Due <= state.prev_hub_balance + 0
    BY <1>1 DEF FullInv, TypeOK, State
  <2>4. Due' <= state'.prev_hub_balance + (0 + 0)
    BY <1>1, <2>1, <2>2, <2>3, DueWithdraw
  <2>5. state'.prev_hub_balance \in Nat
    BY <1>1 DEF CoinsInv, OrderInv, TypeOK, State
  <2>6. QED
    BY <1>1, <2>4, <2>5 DEF FullInv
<1>3. CASE ~ \E u \in Users : WithdrawUnbonded(u)
  <2>1. Due' = Due /\ state'.prev_hub_balance = state.prev_hub_balance
    BY <1>1, <1>3, DueUntouched, SetAsideKept
  <2>2. QED
    BY <1>1, <2>1 DEF FullInv
<1>4. QED
  BY <1>2, <1>3

LEMMA FullInvInit ==
  ASSUME Init
  PROVE  FullInv
<1>1. ClaimsInv /\ CoinsInv
  BY ClaimsInvInit, CoinsInvInit
<1>2. Len(history) = 0 /\ state.prev_hub_balance = 0
  BY DEF Init
<1>3. SumTo(Dues, 0) = 0
  BY SumToZero
<1>4. QED
  BY <1>1, <1>2, <1>3 DEF FullInv, Due

\* Whoever withdraws is paid from the coins that are there.
LEMMA WithdrawalCovered ==
  ASSUME InStep, FullInv, NEW u \in Users
  PROVE  FinishedAmount(u, ProcessedHistory) \in Nat
         /\ FinishedAmount(u, ProcessedHistory) <= balance
<1> DEFINE n == Len(history)
           due == Dues
           paid == [b \in DOMAIN ProcessedHistory |->
                      IF ProcessedHistory[b].released
                      THEN Times(wait[u][b], ProcessedHistory[b].statom_withdraw_rate) ELSE 0]
           y == [b \in 1..n |-> due[b] + Payouts[b]]
<1>1. TypeOK /\ OrderInv /\ RequestsMatchBatches /\ CoinsInv /\ BalanceCoversPrev
  BY DEF FullInv, ClaimsInv, CoinsInv, OrderInv
<1>2. /\ n \in Nat /\ DOMAIN history = 1..n /\ DOMAIN ProcessedHistory = 1..n
      /\ Len(ProcessedHistory) = n
      /\ \A b \in 1..n : /\ history[b] \in UnbondHistory /\ b \in BatchIds
                         /\ due[b] \in Nat
                         /\ due[b] = IF history[b].released
                                     THEN Times(Requested(b), history[b].statom_withdraw_rate)
                                     ELSE 0
      /\ balance \in Nat /\ state.prev_hub_balance \in Nat /\ Due \in Nat
  BY <1>1, DuesType, ProcessedHistoryType DEF ProcessedHistory, TypeOK, State
<1>3. \A b \in 1..n :
        /\ ProcessedHistory[b].released <=> history[b].released \/ b \in NewlyFinished
        /\ b \notin NewlyFinished => ProcessedHistory[b] = history[b]
        /\ paid[b] = IF ProcessedHistory[b].released
                     THEN Times(wait[u][b], ProcessedHistory[b].statom_withdraw_rate) ELSE 0
        /\ Payouts[b] = IF b \in NewlyFinished THEN PaidOut(b) ELSE 0
  BY <1>1, <1>2, ProcessedHistoryType DEF Payouts
<1>4. Due = SumTo(due, n) /\ FinishedAmount(u, ProcessedHistory) = SumTo(paid, n)
  BY <1>2 DEF Due, FinishedAmount
<1> HIDE DEF n, due, paid
<1>5. \A b \in 1..n : wait[u][b] \in Nat /\ Requested(b) \in Nat /\ wait[u][b] <= Requested(b)
  BY <1>1, <1>2, ClaimWithinRequested
<1>6. ASSUME NEW b \in 1..n
      PROVE  /\ paid[b] \in Nat /\ Payouts[b] \in Nat /\ due[b] \in Nat
             /\ paid[b] <= due[b] + Payouts[b]
  <2>1. CASE b \in NewlyFinished
    <3>1. /\ ~history[b].released /\ NewRate(b) \in Nat /\ PaidOut(b) \in Nat
          /\ ProcessedHistory[b].statom_withdraw_rate = NewRate(b)
      BY <2>1, <1>1, NewlyFinishedBatch
    <3>2. Requested(b) = history[b].statom_amount
      BY <3>1, <1>1, <1>2 DEF RequestsMatchBatches
    <3>3. paid[b] = Times(wait[u][b], NewRate(b)) /\ due[b] = 0
            /\ Payouts[b] = Times(Requested(b), NewRate(b))
      BY <2>1, <3>1, <3>2, <1>2, <1>3 DEF PaidOut
    <3>4. Times(wait[u][b], NewRate(b)) <= Times(Requested(b), NewRate(b))
            /\ Times(wait[u][b], NewRate(b)) \in Nat /\ Times(Requested(b), NewRate(b)) \in Nat
      BY <3>1, <1>5, TimesMonotone, TimesBound
    <3>5. QED
      BY <3>3, <3>4
  <2>2. CASE b \notin NewlyFinished /\ history[b].released
    <3>1. history[b].statom_withdraw_rate \in Nat
      BY <1>2 DEF UnbondHistory
    <3>2. paid[b] = Times(wait[u][b], history[b].statom_withdraw_rate) /\ Payouts[b] = 0
            /\ due[b] = Times(Requested(b), history[b].statom_withdraw_rate)
      BY <2>2, <1>2, <1>3
    <3>3. Times(wait[u][b], history[b].statom_withdraw_rate)
            <= Times(Requested(b), history[b].statom_withdraw_rate)
          /\ Times(wait[u][b], history[b].statom_withdraw_rate) \in Nat
      BY <3>1, <1>5, TimesMonotone, TimesBound
    <3>4. QED
      BY <3>2, <3>3, <1>2
  <2>3. CASE b \notin NewlyFinished /\ ~history[b].released
    <3>1. paid[b] = 0 /\ Payouts[b] = 0
      BY <2>3, <1>3
    <3>2. due[b] = 0
      BY <2>3, <1>2
    <3>3. QED
      BY <3>1, <3>2
  <2>4. QED
    BY <2>1, <2>2, <2>3
<1>7. \A b \in 1..n : /\ due[b] \in Nat /\ Payouts[b] \in Nat /\ y[b] = due[b] + Payouts[b]
                      /\ y[b] \in Nat /\ paid[b] \in Nat /\ paid[b] <= y[b]
  BY <1>6
<1> HIDE DEF y
<1>8. SumTo(y, n) = SumTo(due, n) + SumTo(Payouts, n)
  <2>1. /\ n \in Nat
        /\ \A b \in 1..n : due[b] \in Nat /\ Payouts[b] \in Nat /\ y[b] = due[b] + Payouts[b]
    BY <1>2, <1>7
  <2>2. QED
    BY ONLY <2>1, SumToPlus
<1>9. SumTo(paid, n) <= SumTo(y, n) /\ SumTo(paid, n) \in Nat
  BY ONLY <1>2, <1>7, SumToMonotone, SumToType
<1>10. SumTo(Payouts, n) \in Nat /\ SumTo(Payouts, n) <= Arrived
  BY <1>1, PaidWithinArrived DEF n
<1>11. Due <= state.prev_hub_balance /\ Arrived = balance - state.prev_hub_balance
  BY DEF FullInv, Arrived
<1>12. QED
  BY <1>2, <1>4, <1>8, <1>9, <1>10, <1>11

-----------------------------------------------------------------------------
(***************************************************************************)
(* There is no more stAtom than MaxSupply, in circulation or in a batch.   *)
(***************************************************************************)
\* There is less stAtom than the scale of the decimals.
FewTokens == MaxSupply \in Nat /\ MaxSupply <= DECIMAL_FRACTIONAL

TokensInv ==
  /\ Circulating <= MaxSupply
  /\ \A b \in DOMAIN history : history[b].statom_amount <= MaxSupply

LEMMA TokensStep ==
  ASSUME OrderInv, OrderInv', TokensInv, MaxSupply \in Nat, [Next]_vars
  PROVE  TokensInv'
<1>1. /\ supply \in Nat /\ batch \in CurrentBatch /\ batch.requested_statom \in Nat
      /\ history \in Seq(UnbondHistory) /\ Requests \subseteq Nat
      /\ Circulating \in Nat /\ Circulating <= MaxSupply
      /\ \A b \in DOMAIN history : history[b].statom_amount <= MaxSupply
  <2>1. supply \in Nat /\ batch \in CurrentBatch /\ history \in Seq(UnbondHistory)
    BY DEF OrderInv, TypeOK
  <2>2. batch.requested_statom \in Nat
    BY <2>1 DEF CurrentBatch
  <2>3. Circulating \in Nat
    BY <2>1, <2>2 DEF Circulating
  <2>4. QED
    BY <2>1, <2>2, <2>3, HubAssumption DEF TokensInv
<1>2. CASE \E payment \in Payments : Bond(payment)
  <2>1. PICK payment \in Payments : Bond(payment)
    BY <1>2
  <2>2. supply' + batch'.requested_statom <= MaxSupply /\ history' = history
    <3> DEFINE minted == DecimalDivision(payment, ActualState.statom_exchange_rate)
    <3>1. /\ supply + batch.requested_statom + minted <= MaxSupply
          /\ supply' = supply + minted /\ batch' = batch /\ history' = history
      BY <2>1 DEF Bond
    <3>2. minted \in Nat
      <4>1. ActualState.statom_exchange_rate \in Nat \ {0} /\ payment \in Nat
        BY <2>1, ActualStateType, HubAssumption DEF OrderInv, State, Bond
      <4>2. QED
        BY <4>1, DecimalDivisionBound
    <3> HIDE DEF minted
    <3>3. QED
      BY <3>1, <3>2, <1>1
  <2>3. QED
    BY <1>1, <2>2 DEF TokensInv, Circulating
<1>3. CASE \E u \in Users, amount \in Requests : Unbond(u, amount)
  <2>1. PICK u \in Users, amount \in Requests : Unbond(u, amount)
    BY <1>3
  <2>2. /\ supply' = supply - amount /\ amount \in Nat /\ amount <= supply /\ history' = history
        /\ batch'.requested_statom = batch.requested_statom + amount
    BY <1>1, <2>1 DEF Unbond, CurrentBatch
  <2>3. QED
    BY <1>1, <2>2 DEF TokensInv, Circulating
<1>4. CASE \E u \in Users, amount \in Requests : UnbondAndUndelegate(u, amount)
  <2>1. PICK u \in Users, amount \in Requests : UnbondAndUndelegate(u, amount)
    BY <1>4
  <2>2. /\ supply' = supply - amount /\ amount \in Nat /\ amount <= supply
        /\ batch'.requested_statom = 0
    BY <1>1, <2>1 DEF UnbondAndUndelegate
  <2>3. PICK h \in UnbondHistory : /\ history' = Append(history, h)
                                   /\ h.statom_amount = batch.requested_statom + amount
    BY <2>1, UndelegatedEntry
  <2>4. h.statom_amount <= MaxSupply
    BY <1>1, <2>2, <2>3 DEF Circulating
  <2>5. \A b \in DOMAIN history' : history'[b].statom_amount <= MaxSupply
    BY <1>1, <2>3, <2>4
  <2>6. QED
    BY <1>1, <2>2, <2>5 DEF TokensInv, Circulating
<1>5. CASE \E amount \in Requests : Burn(amount)
  <2>1. PICK amount \in Requests : Burn(amount)
    BY <1>5
  <2>2. /\ supply' = supply - amount /\ amount \in Nat /\ amount <= supply /\ history' = history
        /\ batch' = batch
    BY <1>1, <2>1 DEF Burn
  <2>3. QED
    BY <1>1, <2>2 DEF TokensInv, Circulating
<1>6. CASE \E u \in Users : WithdrawUnbonded(u)
  <2>1. PICK u \in Users : WithdrawUnbonded(u)
    BY <1>6
  <2>2. history' = ProcessedHistory /\ supply' = supply /\ batch' = batch
    BY <2>1 DEF WithdrawUnbonded
  <2>3. DOMAIN history' = DOMAIN history
          /\ \A b \in DOMAIN history : history'[b].statom_amount = history[b].statom_amount
    BY <2>2, ProcessedHistoryType DEF OrderInv
  <2>4. QED
    BY <1>1, <2>2, <2>3 DEF TokensInv, Circulating
<1>7. CASE (\E payment \in Rewards : BondRewards(payment)) \/ CheckSlashing \/ OwnerTx
             \/ ChainStep \/ UNCHANGED vars
  <2>1. supply' = supply /\ batch' = batch /\ history' = history
    BY <1>7 DEF BondRewards, CheckSlashing, OwnerTx, UpdateParams, Pause, Unpause, ChainStep,
                EndBlock, SlashStake, SlashInFlight, Donate, vars
  <2>2. QED
    BY <1>1, <2>1 DEF TokensInv, Circulating
<1>8. QED
  BY <1>2, <1>3, <1>4, <1>5, <1>6, <1>7 DEF Next, UserTx

-----------------------------------------------------------------------------
(***************************************************************************)
(* Where a slash leaves something, the claims are covered to the last coin *)
(* but for the batches that were undelegated for nothing.                  *)
(***************************************************************************)
\* The coins of a release are so few that the scale tells its shares apart: a
\* share loses less than a coin for each of the batches released with it.
FewBatches == MaxStake \in Nat /\ MaxBatch * (MaxBatch * MaxStake) <= DECIMAL_FRACTIONAL

\* The batches released by this withdrawal that are worth nothing.
NewlyWorthless == {b \in NewlyFinished : Booked(history[b]) = 0}

\* The other batches it releases.
NewlyWorthy == {b \in NewlyFinished : Booked(history[b]) # 0}

\* Together the batches of a release that are worth something are paid no more
\* than arrived, as long as something did.
LEMMA WorthyPaid ==
  ASSUME TypeOK, BalanceCoversPrev, Arrived # 0, NewlyAddedUnbonded # 0,
         Cardinality(NewlyWorthy) * NewlyAddedUnbonded <= DECIMAL_FRACTIONAL
  PROVE  LET c == [b \in 1..Len(history) |-> IF b \in NewlyWorthy THEN Payouts[b] ELSE 0]
         IN  SumTo(c, Len(history)) \in Nat /\ SumTo(c, Len(history)) <= Arrived
<1> DEFINE n == Len(history)
           total == NewlyAddedUnbonded
           k == Cardinality(NewlyWorthy)
           v == [b \in DOMAIN history |-> IF b \in NewlyFinished THEN Booked(history[b]) ELSE 0]
           one == [b \in 1..n |-> IF b \in NewlyWorthy THEN 1 ELSE 0]
           c == [b \in 1..n |-> IF b \in NewlyWorthy THEN Payouts[b] ELSE 0]
           kt == k * total
           ka == k * Arrived
           f == [b \in 1..n |-> kt * c[b]]
           g == [b \in 1..n |-> ka * v[b]]
           h == [b \in 1..n |-> total * one[b]]
           x == [b \in 1..n |-> f[b] + one[b]]
           y == [b \in 1..n |-> g[b] + h[b]]
<1>1. n \in Nat /\ DOMAIN history = 1..n /\ NewlyWorthy \in SUBSET (1..n)
        /\ NewlyWorthy \subseteq NewlyFinished
  BY DEF TypeOK, NewlyFinished, NewlyWorthy
<1>2. total \in Nat \ {0} /\ Arrived \in Nat \ {0} /\ total = SumTo(v, n)
  BY ReleasedTotal DEF NewlyAddedUnbonded
<1>3. k \in Nat /\ SumTo(one, n) = k
  BY <1>1, SumToCount
<1>4. \A b \in 1..n :
        /\ v[b] \in Nat
        /\ b \in NewlyWorthy => v[b] = Booked(history[b]) /\ v[b] # 0 /\ v[b] <= total
        /\ b \notin NewlyWorthy => v[b] = 0
        /\ one[b] \in Nat /\ one[b] = IF b \in NewlyWorthy THEN 1 ELSE 0
        /\ c[b] = IF b \in NewlyWorthy THEN Payouts[b] ELSE 0
        /\ c[b] \in Nat
        /\ b \in NewlyWorthy => c[b] = PaidOut(b)
  BY <1>1, ReleasedTotal, NewlyFinishedBatch DEF NewlyWorthy, Payouts
<1>5. k # 0
  <2>1. PICK b \in 1..n : v[b] # 0
    <3> HIDE DEF v
    <3> QED BY <1>1, <1>2, SumToZero
  <2>2. one[b] = 1
    BY <2>1, <1>4
  <2> HIDE DEF one, k
  <2>3. one[b] <= SumTo(one, n)
    BY <1>1, <1>4, SumToElement
  <2>4. QED
    BY <2>2, <2>3, <1>3
<1>6. k * total <= k * Arrived + DECIMAL_FRACTIONAL
  BY <1>2, <1>3, ProductType, ScaleAssumption
<1> HIDE DEF n, total, k, v, one, c
<1>7. kt \in Nat \ {0} /\ ka \in Nat
  <2>1. k * 1 <= k * total /\ k * total \in Nat /\ k * Arrived \in Nat
    BY <1>2, <1>3, ProductMonotone, ProductType
  <2>2. QED
    BY <2>1, <1>3, <1>5
<1>8. \A b \in 1..n : /\ f[b] = kt * c[b] /\ g[b] = ka * v[b] /\ h[b] = total * one[b]
                      /\ x[b] = f[b] + one[b] /\ y[b] = g[b] + h[b]
                      /\ f[b] \in Nat /\ g[b] \in Nat /\ h[b] \in Nat
                      /\ x[b] \in Nat /\ y[b] \in Nat
  BY <1>2, <1>4, <1>7, ProductType
<1>9. ASSUME NEW b \in NewlyWorthy PROVE kt * c[b] + 1 <= ka * v[b] + total
  <2> DEFINE actual == ActualUnbonded(v[b], total, FromSubtraction(total, Arrived))
  <2>1. b \in 1..n /\ b \in NewlyFinished
    BY <1>1
  <2>2. v[b] \in Nat \ {0} /\ v[b] <= total /\ v[b] = Booked(history[b]) /\ c[b] = PaidOut(b)
          /\ c[b] \in Nat
    BY <2>1, <1>4
  <2>3. actual \in Nat /\ k * (total * actual) < k * (v[b] * Arrived) + total
    BY <2>2, <1>2, <1>3, <1>5, <1>6, PaidShare
  <2>4. c[b] <= actual
    BY <2>1, <2>2, <2>3, PaidOutBound DEF total
  <2> HIDE DEF actual
  <2>5. kt * c[b] <= kt * actual
    BY <2>2, <2>3, <2>4, <1>7, ProductMonotone
  <2>6. kt * actual = k * (total * actual) /\ ka * v[b] = k * (v[b] * Arrived)
    BY <2>2, <2>3, <1>2, <1>3
  <2> DEFINE p == kt * c[b]  q == kt * actual  r == ka * v[b]
  <2>7. p \in Nat /\ q \in Nat /\ r \in Nat
    BY <2>2, <2>3, <1>7, ProductType
  <2>8. p <= q /\ q < r + total
    BY <2>3, <2>5, <2>6
  <2> HIDE DEF p, q, r
  <2>9. p + 1 <= r + total
    BY <2>7, <2>8, <1>2
  <2>10. QED
    BY <2>9 DEF p, r
<1>10. \A b \in 1..n : x[b] <= y[b]
  <2> SUFFICES ASSUME NEW b \in 1..n PROVE x[b] <= y[b]
    OBVIOUS
  <2>1. CASE b \in NewlyWorthy
    <3>1. one[b] = 1 /\ total * 1 = total
      BY <2>1, <1>2, <1>4
    <3>2. h[b] = total
      BY <3>1, <1>8
    <3>3. f[b] + 1 <= g[b] + total
      BY <2>1, <1>8, <1>9
    <3> HIDE DEF f, g, h, x, y
    <3>4. QED
      BY <3>1, <3>2, <3>3, <1>8
  <2>2. CASE b \notin NewlyWorthy
    <3>1. one[b] = 0 /\ c[b] = 0 /\ kt * 0 = 0
      BY <2>2, <1>4, <1>7
    <3>2. f[b] = 0
      BY <3>1, <1>8
    <3> HIDE DEF f, g, h, x, y
    <3>3. QED
      BY <3>1, <3>2, <1>8
  <2>3. QED
    BY <2>1, <2>2
<1> HIDE DEF f, g, h, x, y
<1>11. SumTo(f, n) = kt * SumTo(c, n) /\ SumTo(g, n) = ka * SumTo(v, n)
         /\ SumTo(h, n) = total * SumTo(one, n)
  <2>1. \A b \in 1..n : c[b] \in Nat /\ f[b] = kt * c[b]
    BY <1>4, <1>8
  <2>2. \A b \in 1..n : v[b] \in Nat /\ g[b] = ka * v[b]
    BY <1>4, <1>8
  <2>3. \A b \in 1..n : one[b] \in Nat /\ h[b] = total * one[b]
    BY <1>4, <1>8
  <2> HIDE DEF kt, ka
  <2>4. SumTo(f, n) = kt * SumTo(c, n)
    BY ONLY <2>1, <1>1, <1>7, SumToScaled
  <2>5. SumTo(g, n) = ka * SumTo(v, n)
    BY ONLY <2>2, <1>1, <1>7, SumToScaled
  <2>6. SumTo(h, n) = total * SumTo(one, n)
    <3>1. n \in Nat /\ total \in Nat
      BY <1>1, <1>2
    <3>2. QED
      BY ONLY <2>3, <3>1, SumToScaled
  <2>7. QED
    BY <2>4, <2>5, <2>6
<1>12. SumTo(x, n) = SumTo(f, n) + SumTo(one, n) /\ SumTo(y, n) = SumTo(g, n) + SumTo(h, n)
  <2>1. \A b \in 1..n : f[b] \in Nat /\ one[b] \in Nat /\ x[b] = f[b] + one[b]
    BY <1>4, <1>8
  <2>2. \A b \in 1..n : g[b] \in Nat /\ h[b] \in Nat /\ y[b] = g[b] + h[b]
    BY <1>8
  <2>3. SumTo(x, n) = SumTo(f, n) + SumTo(one, n)
    BY ONLY <2>1, <1>1, SumToPlus
  <2>4. SumTo(y, n) = SumTo(g, n) + SumTo(h, n)
    BY ONLY <2>2, <1>1, SumToPlus
  <2>5. QED
    BY <2>3, <2>4
<1>13. SumTo(x, n) <= SumTo(y, n)
  BY <1>1, <1>8, <1>10, SumToMonotone
<1> DEFINE s == SumTo(c, n)
<1>14. s \in Nat
  BY <1>1, <1>4, SumToType
<1> HIDE DEF s
<1>15. kt * s + k <= ka * total + total * k
  BY <1>2, <1>3, <1>11, <1>12, <1>13 DEF s
<1>16. kt * s < kt * (Arrived + 1)
  <2>1. ka * total + total * k = kt * (Arrived + 1)
    <3>1. (k * Arrived) * total + total * k = (k * total) * (Arrived + 1)
      BY <1>2, <1>3
    <3>2. QED
      BY <3>1
  <2>2. kt * s \in Nat /\ kt * (Arrived + 1) \in Nat
    <3>1. Arrived + 1 \in Nat
      BY <1>2
    <3>2. QED
      BY <3>1, <1>7, <1>14, ProductType
  <2> HIDE DEF kt, ka
  <2>3. QED
    BY <2>1, <2>2, <1>3, <1>5, <1>15
<1>17. s < Arrived + 1
  <2>1. Arrived + 1 \in Nat
    BY <1>2
  <2> HIDE DEF kt
  <2>2. QED
    BY <2>1, <1>7, <1>14, <1>16, ProductStrict
<1>18. s <= Arrived
  BY <1>2, <1>14, <1>17
<1>19. QED
  BY <1>14, <1>18 DEF s, c, n

\* All the batches of a release together are paid no more than arrived, and a
\* coin for each that is worth nothing.
LEMMA ReleasePaidHeld ==
  ASSUME TypeOK, BalanceCoversPrev, StakeInv, FewBatches,
         NewlyAddedUnbonded # 0 => Arrived # 0
  PROVE  /\ SumTo(Payouts, Len(history)) \in Nat
         /\ SumTo(Payouts, Len(history)) <= Arrived + Cardinality(NewlyWorthless)
         /\ Cardinality(NewlyWorthless) \in Nat
<1> DEFINE n == Len(history)
           total == NewlyAddedUnbonded
           c == [b \in 1..n |-> IF b \in NewlyWorthy THEN Payouts[b] ELSE 0]
           one == [b \in 1..n |-> IF b \in NewlyWorthless THEN 1 ELSE 0]
           x == [b \in 1..n |-> c[b] + one[b]]
<1>1. /\ n \in Nat /\ n <= MaxBatch /\ DOMAIN history = 1..n
      /\ NewlyWorthy \in SUBSET (1..n) /\ NewlyWorthless \in SUBSET (1..n)
      /\ NewlyFinished \in SUBSET (1..n)
      /\ MaxBatch \in Nat /\ MaxStake \in Nat
  BY HubAssumption DEF TypeOK, NewlyFinished, NewlyWorthy, NewlyWorthless, FewBatches
<1>2. total \in Nat /\ Arrived \in Nat
  BY ReleasedTotal
<1>3. Cardinality(NewlyWorthless) \in Nat /\ SumTo(one, n) = Cardinality(NewlyWorthless)
  BY <1>1, SumToCount
<1>4. \A b \in 1..n : /\ Payouts[b] \in Nat
                      /\ Payouts[b] = IF b \in NewlyFinished THEN PaidOut(b) ELSE 0
  BY <1>1, NewlyFinishedBatch DEF Payouts
<1>5. SumTo(Payouts, n) \in Nat
  BY <1>1, <1>4, SumToType
<1>6. CASE total = 0
  <2>1. \A b \in 1..n : Payouts[b] = 0
    BY <1>4, <1>6, PaidOutOfNothing
  <2>2. SumTo(Payouts, n) = 0
    BY <2>1, <1>1, SumToZero
  <2>3. QED
    BY <2>2, <1>2, <1>3, <1>5
<1>7. CASE total # 0
  <2> DEFINE k == Cardinality(NewlyWorthy)
             m == MaxBatch * MaxStake
  <2>1. k \in Nat /\ k <= n
    <3>1. IsFiniteSet(1..n) /\ Cardinality(1..n) = n
      <4>1. 0 \in Int /\ n \in Int /\ 1 \in Int
        BY <1>1
      <4>2. IsFiniteSet(1..n) /\ Cardinality(1..n) = (IF 1 > n THEN 0 ELSE n - 1 + 1)
        BY <4>1, FS_Interval
      <4>3. QED
        BY <4>2, <1>1
    <3>2. NewlyWorthy \in SUBSET (1..n)
      BY <1>1
    <3>3. IsFiniteSet(NewlyWorthy) /\ k <= Cardinality(1..n)
      BY ONLY <3>1, <3>2, FS_Subset
    <3>4. QED
      BY <3>1, <3>3, FS_CardinalityType
  <2>2. total <= m /\ m \in Nat
    BY <1>1, ReleaseBounded, ProductType
  <2>3. total <= DECIMAL_FRACTIONAL /\ k * total <= DECIMAL_FRACTIONAL
    <3> HIDE DEF k, m, total
    <3>1. k * total <= MaxBatch * total /\ MaxBatch * total <= MaxBatch * m
      <4>1. k <= MaxBatch
        BY <2>1, <1>1
      <4>2. QED
        BY <4>1, <2>1, <2>2, <1>1, <1>2, ProductMonotone
    <3>2. 1 * total <= MaxBatch * total
      <4>1. MaxBatch # 0
        <5>1. MaxBatch = 0 => m = 0
          BY <1>1 DEF m
        <5>2. QED
          BY <5>1, <2>2, <1>2, <1>7
      <4>2. 1 <= MaxBatch
        BY <4>1, <1>1
      <4>3. QED
        BY <4>2, <1>1, <1>2, ProductMonotone
    <3>3. k * total \in Nat /\ MaxBatch * total \in Nat /\ MaxBatch * m \in Nat
      BY <2>1, <2>2, <1>1, <1>2, ProductType
    <3>4. MaxBatch * m <= DECIMAL_FRACTIONAL
      BY DEF FewBatches, m
    <3>5. QED
      BY <3>1, <3>2, <3>3, <3>4, <1>2, ScaleAssumption
  <2> HIDE DEF k, m
  <2>4. SumTo(c, n) \in Nat /\ SumTo(c, n) <= Arrived
    BY <2>3, <1>7, WorthyPaid DEF k
  <2>5. ASSUME NEW b \in 1..n
        PROVE  /\ c[b] \in Nat /\ one[b] \in Nat /\ x[b] = c[b] + one[b]
               /\ Payouts[b] <= x[b] /\ x[b] \in Nat
    <3>1. /\ c[b] = IF b \in NewlyWorthy THEN Payouts[b] ELSE 0
          /\ one[b] = IF b \in NewlyWorthless THEN 1 ELSE 0
          /\ x[b] = c[b] + one[b]
      OBVIOUS
    <3> HIDE DEF c, one, x
    <3>2. CASE b \in NewlyWorthless
      <4>1. b \in NewlyFinished /\ Booked(history[b]) = 0 /\ b \notin NewlyWorthy
        BY <3>2 DEF NewlyWorthless, NewlyWorthy
      <4>2. ActualUnbonded(0, total, FromSubtraction(total, Arrived)) \in {0, 1}
        BY <1>2, <1>7, <2>3, PaidForNothing
      <4>3. PaidOut(b) <= ActualUnbonded(0, total, FromSubtraction(total, Arrived))
        BY <4>1, <4>2, PaidOutBound
      <4>4. Payouts[b] <= 1
        BY <4>1, <4>2, <4>3, <1>4
      <4>5. QED
        BY <4>1, <4>4, <3>1, <3>2, <1>4
    <3>3. CASE b \in NewlyWorthy
      <4>1. b \notin NewlyWorthless
        BY <3>3 DEF NewlyWorthless, NewlyWorthy
      <4>2. QED
        BY <4>1, <3>1, <3>3, <1>4
    <3>4. CASE b \notin NewlyFinished
      <4>1. b \notin NewlyWorthless /\ b \notin NewlyWorthy
        BY <3>4 DEF NewlyWorthless, NewlyWorthy
      <4>2. QED
        BY <4>1, <3>1, <3>4, <1>4
    <3>5. QED
      BY <3>2, <3>3, <3>4 DEF NewlyWorthless, NewlyWorthy
  <2> HIDE DEF c, one, x
  <2>6. SumTo(Payouts, n) <= SumTo(x, n)
    BY <2>5, <1>1, <1>4, SumToMonotone
  <2>7. SumTo(x, n) = SumTo(c, n) + SumTo(one, n)
    BY ONLY <2>5, <1>1, SumToPlus
  <2>8. QED
    BY <2>4, <2>6, <2>7, <1>2, <1>3, <1>5 DEF n
<1>8. QED
  BY <1>6, <1>7

-----------------------------------------------------------------------------
\* Where a slash leaves something, something arrives for each batch that is
\* worth something.
WorthArrives ==
  \A b \in DOMAIN history : ~history[b].released =>
    /\ history[b].statom_withdraw_rate = history[b].statom_applied_exchange_rate
    /\ Booked(history[b]) # 0 => IF Arrives(b) THEN Arrived # 0 ELSE inflight[b] # 0

\* A withdrawal leaves only batches that have not been paid out.
LEMMA WorthWithdraw ==
  ASSUME InStep, OrderInv, OrderInv', WorthArrives, NEW u \in Users, WithdrawUnbonded(u)
  PROVE  WorthArrives'
<1>1. /\ history' = ProcessedHistory /\ inflight' = inflight /\ now' = now
      /\ DOMAIN history' = DOMAIN history
      /\ \A b \in DOMAIN history :
           ~history'[b].released => /\ ~history[b].released /\ b \notin NewlyFinished
                                    /\ history'[b] = history[b]
  BY ProcessedHistoryType DEF OrderInv, WithdrawUnbonded, chain
<1>2. ASSUME NEW b \in DOMAIN history', ~history'[b].released
      PROVE  /\ history'[b].statom_withdraw_rate = history'[b].statom_applied_exchange_rate
             /\ Booked(history'[b]) # 0
                  => ~Arrives(b)' /\ inflight'[b] # 0
  <2>1. history'[b] = history[b] /\ ~Arrives(b) /\ ~history[b].released
    BY <1>1, <1>2, ReleasesWhatArrived
  <2>2. Arrives(b)' = Arrives(b)
    BY <1>1, <2>1 DEF Arrives
  <2>3. QED
    BY <1>1, <2>1, <2>2 DEF WorthArrives
<1>3. QED
  BY <1>2 DEF WorthArrives, Booked

\* The chain still owes the coins of a new batch.
LEMMA WorthUndelegate ==
  ASSUME InStep, OrderInv, OrderInv', WorthArrives,
         NEW u \in Users, NEW amount \in Requests, UnbondAndUndelegate(u, amount),
         state'.prev_hub_balance = state.prev_hub_balance
  PROVE  WorthArrives'
<1> DEFINE n == Len(history)
<1>1. history \in Seq(UnbondHistory) /\ inflight \in Seq(Nat) /\ n \in Nat /\ Len(inflight) = n
        /\ DOMAIN history = 1..n /\ now \in Nat /\ ChainUnbonding \in Nat
        /\ Block \in Nat \ {0}
  BY CoinsType, BlockType DEF OrderInv, TypeOK
<1>2. PICK h \in UnbondHistory :
           /\ history' = Append(history, h) /\ inflight' = Append(inflight, Booked(h))
           /\ h.time = now /\ ~h.released
           /\ h.statom_withdraw_rate = h.statom_applied_exchange_rate
           /\ now' = now
  BY UndelegatedEntry
<1>3. /\ DOMAIN history' = 1..(n + 1)
      /\ \A b \in 1..n : history'[b] = history[b] /\ inflight'[b] = inflight[b]
      /\ history'[n + 1] = h /\ inflight'[n + 1] = Booked(h)
  BY <1>1, <1>2
<1>4. balance' = balance
  BY DEF UnbondAndUndelegate
<1>5. Arrived' = Arrived
  BY <1>4 DEF Arrived
<1>6. ASSUME NEW b \in DOMAIN history', ~history'[b].released
      PROVE  /\ history'[b].statom_withdraw_rate = history'[b].statom_applied_exchange_rate
             /\ Booked(history'[b]) # 0
                  => IF Arrives(b)' THEN Arrived' # 0 ELSE inflight'[b] # 0
  <2>1. CASE b \in 1..n
    <3>1. Arrives(b)' = Arrives(b)
      BY <1>2, <1>3, <2>1 DEF Arrives
    <3>2. QED
      BY <1>1, <1>3, <1>5, <1>6, <2>1, <3>1 DEF WorthArrives
  <2>2. CASE b = n + 1
    <3>1. ~Arrives(b)'
      BY <1>1, <1>2, <1>3, <2>2 DEF Arrives
    <3>2. QED
      BY <1>2, <1>3, <2>2, <3>1
  <2>3. QED
    BY <1>1, <1>3, <2>1, <2>2
<1>7. QED
  BY <1>6 DEF WorthArrives, Booked

\* The coins of a batch that matures arrive, and what has arrived stays.
LEMMA WorthEndBlock ==
  ASSUME InStep, OrderInv, OrderInv', WorthArrives, BalanceCoversPrev, EndBlock
  PROVE  WorthArrives'
<1> DEFINE n == Len(history)
           pay == [b \in DOMAIN inflight |-> IF Matured(b) THEN inflight[b] ELSE 0]
<1>1. /\ n \in Nat /\ Len(inflight) = n
      /\ DOMAIN history = 1..n /\ DOMAIN inflight = 1..n
      /\ \A b \in 1..n : inflight[b] \in Nat /\ history[b].time \in Nat
      /\ now \in Nat /\ ChainUnbonding \in Nat /\ Block \in Nat
      /\ balance \in Nat /\ state.prev_hub_balance \in Nat
  BY CoinsType, BlockType DEF UnbondHistory
<1>2. /\ now' = now + Block /\ history' = history /\ state' = state
      /\ balance' = balance + SumTo(pay, n)
      /\ \A b \in 1..n : inflight'[b] = IF Matured(b) THEN 0 ELSE inflight[b]
  <2>1. now' = now + Block
    BY DEF EndBlock, InStep
  <2>2. QED
    BY <1>1, <2>1 DEF EndBlock
<1>3. \A b \in 1..n : (Arrives(b)' <=> Matured(b)) /\ (Arrives(b) => Arrives(b)')
  BY <1>1, <1>2 DEF Arrives, Matured
<1>4. \A b \in 1..n : pay[b] \in Nat /\ pay[b] = IF Matured(b) THEN inflight[b] ELSE 0
  BY <1>1
<1> HIDE DEF pay
<1>5. SumTo(pay, n) \in Nat /\ \A b \in 1..n : pay[b] <= SumTo(pay, n)
  BY <1>1, <1>4, SumToType, SumToElement
<1>6. Arrived' = Arrived + SumTo(pay, n) /\ Arrived \in Nat
  BY <1>1, <1>2, <1>5 DEF Arrived, BalanceCoversPrev
<1>7. ASSUME NEW b \in DOMAIN history', ~history'[b].released
      PROVE  /\ history'[b].statom_withdraw_rate = history'[b].statom_applied_exchange_rate
             /\ Booked(history'[b]) # 0
                  => IF Arrives(b)' THEN Arrived' # 0 ELSE inflight'[b] # 0
  <2>1. /\ b \in 1..n /\ history'[b] = history[b]
        /\ history[b].statom_withdraw_rate = history[b].statom_applied_exchange_rate
        /\ Booked(history[b]) # 0 => IF Arrives(b) THEN Arrived # 0 ELSE inflight[b] # 0
    BY <1>1, <1>2, <1>7 DEF WorthArrives
  <2>2. CASE ~Matured(b)
    BY <2>1, <2>2, <1>2, <1>3
  <2>3. CASE Matured(b) /\ Arrives(b)
    BY <2>1, <2>3, <1>3, <1>5, <1>6
  <2>4. CASE Matured(b) /\ ~Arrives(b)
    <3>1. pay[b] = inflight[b] /\ pay[b] <= SumTo(pay, n) /\ inflight[b] \in Nat
      BY <2>1, <2>4, <1>1, <1>4, <1>5
    <3>2. QED
      BY <2>1, <2>4, <3>1, <1>3, <1>5, <1>6
  <2>5. QED
    BY <2>2, <2>3, <2>4
<1>8. QED
  BY <1>7 DEF WorthArrives, Booked

\* No step takes the last coin of a batch that is worth something.
LEMMA WorthStep ==
  ASSUME InStep, ~TotalLoss, OrderInv, OrderInv', BalanceCoversPrev, WorthArrives, [Next]_vars
  PROVE  WorthArrives'
<1>1. TypeOK /\ balance \in Nat /\ state.prev_hub_balance \in Nat
        /\ DOMAIN inflight = DOMAIN history
        /\ \A b \in DOMAIN inflight : inflight[b] \in Nat
        /\ inflight \in Seq(Nat)
  BY CoinsType DEF OrderInv, TypeOK
<1>2. CASE \E u \in Users : WithdrawUnbonded(u)
  BY <1>2, WorthWithdraw
<1>3. CASE /\ \E u \in Users, amount \in Requests : UnbondAndUndelegate(u, amount)
           /\ ~ \E u \in Users : WithdrawUnbonded(u)
  BY <1>1, <1>3, WorthUndelegate, SetAsideKept
<1>4. CASE EndBlock
  BY <1>4, WorthEndBlock
<1>5. CASE \E b \in DOMAIN inflight, loss \in InFlightLosses : SlashInFlight(b, loss)
  <2>1. PICK b \in DOMAIN inflight, loss \in InFlightLosses : SlashInFlight(b, loss)
    BY <1>5
  <2>2. UNCHANGED <<now, history, state, balance>> /\ loss < inflight[b] /\ loss \in Nat
          /\ inflight' = [inflight EXCEPT ![b] = @ - loss]
    BY <2>1, HubAssumption DEF SlashInFlight
  <2>3. \A c \in DOMAIN history : inflight[c] # 0 => inflight'[c] # 0
    BY <1>1, <2>2
  <2>4. Arrived' = Arrived /\ \A c : Arrives(c)' = Arrives(c)
    BY <2>2 DEF Arrived, Arrives
  <2>5. QED
    BY <2>2, <2>3, <2>4 DEF WorthArrives, Booked
<1>6. CASE \E coins \in Donations : Donate(coins)
  <2>1. PICK coins \in Donations : Donate(coins)
    BY <1>6
  <2>2. UNCHANGED <<now, history, state, inflight>> /\ balance' = balance + coins /\ coins \in Nat
    BY <2>1, HubAssumption DEF Donate, chain
  <2>3. Arrived # 0 => Arrived' # 0
    BY <1>1, <2>2 DEF Arrived, BalanceCoversPrev
  <2>4. \A c : Arrives(c)' = Arrives(c)
    BY <2>2 DEF Arrives
  <2>5. QED
    BY <2>2, <2>3, <2>4 DEF WorthArrives, Booked
<1>7. CASE /\ ~ \E u \in Users, amount \in Requests : UnbondAndUndelegate(u, amount)
           /\ ~ \E u \in Users : WithdrawUnbonded(u)
           /\ ~ EndBlock
           /\ ~ \E b \in DOMAIN inflight, loss \in InFlightLosses : SlashInFlight(b, loss)
           /\ ~ \E coins \in Donations : Donate(coins)
  <2>1. /\ UNCHANGED <<now, history, inflight, balance>>
        /\ state'.prev_hub_balance = state.prev_hub_balance
    BY <1>1, <1>7, ArrivalsUntouched
  <2>2. Arrived' = Arrived /\ \A c : Arrives(c)' = Arrives(c)
    BY <2>1 DEF Arrived, Arrives
  <2>3. QED
    BY <2>1, <2>2 DEF WorthArrives, Booked
<1>8. QED
  BY <1>2, <1>3, <1>4, <1>5, <1>6, <1>7

\* The released batches that were undelegated for nothing.
WorthlessReleased == {b \in Released : Worthless(b)}

\* What makes Solvent inductive.
SolventInv ==
  /\ ClaimsInv
  /\ BalanceCoversPrev
  /\ StakeInv
  /\ WorthArrives
  /\ Due <= state.prev_hub_balance + Cardinality(WorthlessReleased)

\* The worthless batches that a withdrawal adds to the released ones.
LEMMA WorthlessWithdraw ==
  ASSUME OrderInv, WorthArrives, NEW u \in Users, WithdrawUnbonded(u),
         Released' = Released \union NewlyFinished
  PROVE  WorthlessReleased' = WorthlessReleased \union NewlyWorthless
<1>1. \A b \in NewlyFinished :
        /\ b \in DOMAIN history /\ ~history[b].released
        /\ history[b].statom_withdraw_rate = history[b].statom_applied_exchange_rate
  BY NewlyFinishedBatch DEF WorthArrives, OrderInv
<1>2. \A b \in NewlyFinished : Worthless(b) <=> Booked(history[b]) = 0
  BY <1>1 DEF Worthless, Booked
<1>3. \A b \in DOMAIN history :
        /\ history'[b].statom_amount = history[b].statom_amount
        /\ history'[b].statom_applied_exchange_rate = history[b].statom_applied_exchange_rate
  BY HistoryEntry DEF OrderInv, WithdrawUnbonded, ProcessedHistory, UnbondHistory
<1>4. \A b \in DOMAIN history : Worthless(b)' <=> Worthless(b)
  BY <1>3 DEF Worthless
<1>5. Released \union NewlyFinished \subseteq DOMAIN history
  BY <1>1 DEF Released
<1>6. WorthlessReleased' = {b \in Released \union NewlyFinished : Worthless(b)}
  <2>1. \A b \in Released' : Worthless(b)' <=> Worthless(b)
    BY <1>4, <1>5
  <2>2. WorthlessReleased' = {b \in Released' : Worthless(b)'}
    BY DEF WorthlessReleased
  <2> HIDE DEF WorthlessReleased, Worthless, Released
  <2>3. QED
    BY <2>1, <2>2
<1>7. QED
  BY <1>2, <1>6 DEF WorthlessReleased, NewlyWorthless

\* A withdrawal keeps what is owed covered.
LEMMA SolventWithdraw ==
  ASSUME InStep, FewBatches, SolventInv, ClaimsInv', NEW u \in Users, WithdrawUnbonded(u)
  PROVE  Due' <= state'.prev_hub_balance + Cardinality(WorthlessReleased')
<1>1. ClaimsInv /\ OrderInv /\ TypeOK /\ BalanceCoversPrev /\ StakeInv /\ WorthArrives
  BY DEF SolventInv, ClaimsInv, OrderInv
<1>2. NewlyAddedUnbonded # 0 => Arrived # 0
  <2> SUFFICES ASSUME Arrived = 0 PROVE NewlyAddedUnbonded = 0
    OBVIOUS
  <2> DEFINE v == [b \in DOMAIN history |-> IF b \in NewlyFinished THEN Booked(history[b]) ELSE 0]
  <2>1. Len(history) \in Nat /\ DOMAIN history = 1..Len(history)
    BY <1>1, CoinsType
  <2>2. ASSUME NEW b \in 1..Len(history) PROVE v[b] = 0
    <3>1. CASE b \in NewlyFinished
      <4>1. ~history[b].released
        BY <1>1, <3>1, NewlyFinishedBatch
      <4>2. Arrives(b)
        BY <1>1, <2>1, <3>1, <4>1, ReleasesWhatArrived
      <4>3. Booked(history[b]) = 0
        BY <1>1, <2>1, <4>1, <4>2 DEF WorthArrives
      <4>4. QED
        BY <2>1, <4>3
    <3>2. CASE b \notin NewlyFinished
      BY <2>1, <3>2
    <3>3. QED
      BY <3>1, <3>2
  <2>3. NewlyAddedUnbonded = SumTo(v, Len(history))
    BY DEF NewlyAddedUnbonded
  <2> HIDE DEF v
  <2>4. QED
    BY <2>1, <2>2, <2>3, SumToZero
<1>3. /\ SumTo(Payouts, Len(history)) <= Arrived + Cardinality(NewlyWorthless)
      /\ Cardinality(NewlyWorthless) \in Nat
  BY <1>1, <1>2, ReleasePaidHeld
<1>4. /\ Released' = Released \union NewlyFinished
      /\ Released \intersect NewlyFinished = {}
      /\ IsFiniteSet(Released) /\ IsFiniteSet(NewlyFinished)
  BY <1>1, DuePaid
<1>5. WorthlessReleased' = WorthlessReleased \union NewlyWorthless
  BY <1>1, <1>4, WorthlessWithdraw
<1>6. /\ WorthlessReleased \in SUBSET Released /\ NewlyWorthless \in SUBSET NewlyFinished
      /\ WorthlessReleased \intersect NewlyWorthless = {}
  BY <1>4 DEF WorthlessReleased, NewlyWorthless
<1>7. IsFiniteSet(WorthlessReleased) /\ IsFiniteSet(NewlyWorthless)
  BY <1>4, <1>6, FS_Subset
<1>8. /\ Cardinality(WorthlessReleased) \in Nat
      /\ Cardinality(WorthlessReleased \union NewlyWorthless)
           = Cardinality(WorthlessReleased) + Cardinality(NewlyWorthless)
  BY <1>6, <1>7, ReleasedCount
<1>9. Due <= state.prev_hub_balance + Cardinality(WorthlessReleased)
  BY DEF SolventInv
<1>10. Due' <= state'.prev_hub_balance
                + (Cardinality(WorthlessReleased) + Cardinality(NewlyWorthless))
  BY <1>1, <1>3, <1>8, <1>9, DueWithdraw
<1>11. QED
  BY <1>5, <1>8, <1>10

LEMMA SolventInvStep ==
  ASSUME InStep, FewBatches, ~TotalLoss, SolventInv, BalanceCoversPrev', [Next]_vars
  PROVE  SolventInv'
<1>1. ClaimsInv /\ ClaimsInv' /\ OrderInv /\ OrderInv' /\ TypeOK /\ BalanceCoversPrev
        /\ StakeInv /\ WorthArrives
  BY ClaimsInvStep DEF SolventInv, ClaimsInv, OrderInv
<1>2. StakeInv' /\ WorthArrives'
  BY <1>1, StakeStep, WorthStep DEF FewBatches
<1>3. CASE \E u \in Users : WithdrawUnbonded(u)
  <2>1. Due' <= state'.prev_hub_balance + Cardinality(WorthlessReleased')
    BY <1>1, <1>3, SolventWithdraw
  <2>2. QED
    BY <1>1, <1>2, <2>1 DEF SolventInv
<1>4. CASE ~ \E u \in Users : WithdrawUnbonded(u)
  <2>1. /\ Due' = Due /\ Released' = Released
        /\ \A b \in DOMAIN history : history'[b] = history[b]
    BY <1>1, <1>4, DueUntouched
  <2>2. state'.prev_hub_balance = state.prev_hub_balance
    BY <1>1, <1>4, SetAsideKept
  <2>3. \A b \in Released : Worthless(b)' <=> Worthless(b)
    BY <2>1 DEF Released, Worthless
  <2>4. WorthlessReleased' = {b \in Released' : Worthless(b)'}
    BY DEF WorthlessReleased
  <2>5. WorthlessReleased' = WorthlessReleased
    <3> HIDE DEF Worthless, Released
    <3> QED BY <2>1, <2>3, <2>4 DEF WorthlessReleased
  <2>6. Due' <= state'.prev_hub_balance + Cardinality(WorthlessReleased')
    BY <2>1, <2>2, <2>5 DEF SolventInv
  <2>7. QED
    BY <1>1, <1>2, <2>6 DEF SolventInv
<1>5. QED
  BY <1>3, <1>4

LEMMA SolventInvInit ==
  ASSUME FewBatches, Init
  PROVE  SolventInv
<1>1. ClaimsInv
  BY ClaimsInvInit
<1>2. history = <<>> /\ Len(history) = 0 /\ state.total_bond_statom_amount = 0
        /\ state.prev_hub_balance = 0 /\ balance = 0 /\ DOMAIN history = {}
  BY DEF Init
<1>3. BalanceCoversPrev /\ StakeInv /\ WorthArrives
  BY <1>2 DEF BalanceCoversPrev, StakeInv, BookedWithin, FewBatches, WorthArrives
<1>4. Due = 0
  <2>1. SumTo(Dues, 0) = 0
    BY SumToZero
  <2>2. QED
    BY <2>1, <1>2 DEF Due
<1>5. WorthlessReleased = {}
  BY <1>2 DEF Released, WorthlessReleased
<1>6. QED
  BY <1>1, <1>2, <1>3, <1>4, <1>5, FS_EmptySet DEF SolventInv

LEMMA SolventInvAlways ==
  ASSUME InStep, FewBatches, ~TotalLoss
  PROVE  Spec => []SolventInv
<1>1. Init => SolventInv
  BY SolventInvInit
<1>2. SolventInv /\ BalanceCoversPrev' /\ [Next]_vars => SolventInv'
  BY SolventInvStep
<1>3. QED
  BY <1>1, <1>2, BalanceKept, PTL DEF Spec

\* Where the hub waits exactly as long as it has to, and a slash never takes an
\* undelegation entirely: whatever is slashed, donated and truncated, and in
\* whatever order the users withdraw, the coins set aside pay every claim on
\* the released batches, but for one coin for each that was worth nothing.
THEOREM HubIsSolvent ==
  InStep /\ FewBatches => (Spec => []Solvent)
<1> SUFFICES ASSUME InStep, FewBatches PROVE Spec => []Solvent
  OBVIOUS
<1>1. CASE TotalLoss
  <2>1. Solvent
    BY <1>1 DEF Solvent
  <2>2. QED
    BY <2>1, PTL
<1>2. CASE ~TotalLoss
  <2>1. ASSUME SolventInv PROVE Solvent
    <3>1. OrderInv /\ TypeOK
      BY <2>1 DEF SolventInv, ClaimsInv, OrderInv
    <3>2. Owed <= Due /\ Due \in Nat /\ Owed \in Nat
      BY <3>1, OwedWithinDue, DuesType, OwedType
    <3>3. Cardinality(WorthlessReleased) \in Nat /\ state.prev_hub_balance \in Nat
      <4>1. IsFiniteSet(1..Len(history)) /\ WorthlessReleased \in SUBSET (1..Len(history))
        BY <3>1, DuesType, FS_Interval DEF Released, WorthlessReleased
      <4>2. QED
        BY <4>1, <3>1, FS_Subset, FS_CardinalityType DEF TypeOK, State
    <3>4. Due <= state.prev_hub_balance + Cardinality(WorthlessReleased)
      BY <2>1 DEF SolventInv
    <3>5. Owed <= state.prev_hub_balance + Cardinality(WorthlessReleased)
      BY <3>2, <3>3, <3>4
    <3>6. QED
      BY <3>5 DEF Solvent, WorthlessReleased
  <2>2. Spec => []SolventInv
    BY <1>2, SolventInvAlways
  <2>3. SolventInv => Solvent
    BY <2>1
  <2>4. QED
    BY <2>2, <2>3, PTL
<1>3. QED
  BY <1>1, <1>2

-----------------------------------------------------------------------------
(***************************************************************************)
(* The queries of the hub: the rate it quotes is backed, and the pages of  *)
(* the history cover it, for limits and histories of any length.           *)
(***************************************************************************)
\* A query changes nothing of the hub.
LEMMA QueriesStep ==
  QueriesNext => [Next]_vars
  BY DEF QueriesNext, ReadPage, Forget

\* So all that is proved of the hub holds while it is queried.
LEMMA QueriesBooks ==
  QueriesSpec => []BooksInv
<1>1. QueriesInit => BooksInv
  BY BooksInit DEF QueriesInit
<1>2. BooksInv /\ [QueriesNext]_queryVars => BooksInv'
  <2>1. UNCHANGED queryVars => UNCHANGED vars
    BY DEF queryVars, vars
  <2>2. QED
    BY <2>1, QueriesStep, BooksStep
<1>3. QED
  BY <1>1, <1>2, PTL DEF QueriesSpec

\* The quoted rate values all the stAtom at no more than what is delegated,
\* though slashes are not booked when the query is made.
THEOREM QuoteIsBacked ==
  QueriesSpec => []QuotedRateBacked
<1>1. BooksInv => QuotedRateBacked
  <2> SUFFICES ASSUME BooksInv, ~TotalLoss
               PROVE  ActualState.statom_exchange_rate * Circulating
                        <= staked * DECIMAL_FRACTIONAL
    BY DEF QuotedRateBacked, QueriedState, Circulating
  <2>1. QED
    BY ActualBooks DEF Backed
<1>2. QED
  BY <1>1, QueriesBooks, PTL

-----------------------------------------------------------------------------
(***************************************************************************)
(* Paging.                                                                 *)
(***************************************************************************)
\* What is read is a beginning of the history.
PagesInv ==
  /\ read \in Seq(Nat)
  /\ Len(read) <= Len(history)
  /\ PagesCoverHistory

\* The history never gets shorter.
LEMMA HistoryGrows ==
  ASSUME TypeOK, [Next]_vars
  PROVE  Len(history) <= Len(history')
<1>1. history \in Seq(UnbondHistory) /\ Len(history) \in Nat
  BY DEF TypeOK
<1>2. CASE \E u \in Users, amount \in Requests : UnbondAndUndelegate(u, amount)
  <2>1. PICK entry : history' = Append(history, entry)
    BY <1>2 DEF UnbondAndUndelegate
  <2>2. QED
    BY <1>1, <2>1
<1>3. CASE \E u \in Users : WithdrawUnbonded(u)
  <2>1. history' = ProcessedHistory
    BY <1>3 DEF WithdrawUnbonded
  <2>2. QED
    BY <1>1, <2>1, ProcessedHistoryType
<1>4. CASE /\ ~ \E u \in Users, amount \in Requests : UnbondAndUndelegate(u, amount)
           /\ ~ \E u \in Users : WithdrawUnbonded(u)
  BY <1>1, <1>4, ScheduleKept DEF Schedule
<1>5. QED
  BY <1>2, <1>3, <1>4

\* A page goes on where the last one ended, and is full or the last.
LEMMA PageGoesOn ==
  ASSUME TypeOK, PagesInv, NEW limit \in Limits, ReadPage(limit)
  PROVE  PagesInv'
<1> DEFINE n == Len(read)
           m == Len(history)
           k == AsMany(limit)
           start == IF read = <<>> THEN None ELSE read[n]
           last == Least(n + 1 + k - 1, m)
           page == [i \in 1..(last - n) |-> n + i]
<1>1. n \in Nat /\ m \in Nat /\ n <= m /\ read \in Seq(Nat)
        /\ \A i \in 1..n : read[i] = i
  BY DEF PagesInv, PagesCoverHistory, TypeOK
<1>2. k \in Nat
  BY QueriesAssumption DEF AsMany
<1>3. FirstListed(start) = n + 1
  <2>1. CASE read = <<>>
    BY <2>1 DEF FirstListed
  <2>2. CASE read # <<>>
    <3>1. n \in 1..n
      BY <1>1, <2>2
    <3>2. start = n
      BY <1>1, <2>2, <3>1
    <3>3. QED
      BY <1>1, <3>2, QueriesAssumption DEF FirstListed
  <2>3. QED
    BY <2>1, <2>2
<1> HIDE DEF k, start
<1>4. AllHistory(start, limit) = page
  <2>1. AllHistory(start, limit)
          = [i \in 1..(last - (n + 1) + 1) |-> n + 1 + i - 1]
    BY <1>3 DEF AllHistory, k
  <2>2. last \in Nat
    BY <1>1, <1>2 DEF Least
  <2> HIDE DEF last
  <2>3. last - (n + 1) + 1 = last - n
    BY <1>1, <2>2
  <2>4. \A i \in 1..(last - n) : n + 1 + i - 1 = n + i
    BY <1>1, <2>2
  <2>5. QED
    BY <2>1, <2>3, <2>4
<1>5. last \in Nat /\ n <= last /\ last <= m /\ (last - n < k => last = m)
  BY <1>1, <1>2 DEF Least
<1> HIDE DEF last
<1>6. page \in Seq(Nat) /\ Len(page) = last - n
  BY <1>1, <1>5
<1>7. read' = read \o page /\ complete' = (Len(page) < k) /\ history' = history
  BY <1>4 DEF ReadPage, start, k, vars
<1>8. read' \in Seq(Nat) /\ Len(read') = last
  BY <1>1, <1>5, <1>6, <1>7
<1>9. ASSUME NEW i \in DOMAIN read'
      PROVE  read'[i] = i
  <2>1. i \in 1..last
    BY <1>8, <1>9
  <2>2. CASE i <= n
    BY <1>1, <1>6, <1>7, <2>1, <2>2
  <2>3. CASE i > n
    <3>1. read'[i] = page[i - n] /\ i - n \in 1..(last - n)
      BY <1>1, <1>5, <1>6, <1>7, <2>1, <2>3
    <3>2. QED
      BY <1>1, <2>1, <3>1
  <2>4. QED
    BY <1>1, <2>1, <2>2, <2>3
<1>10. complete' => Len(read') = Len(history')
  BY <1>5, <1>6, <1>7, <1>8
<1>11. QED
  BY <1>5, <1>7, <1>8, <1>9, <1>10 DEF PagesInv, PagesCoverHistory

\* Every step keeps what is read a beginning of the history.
LEMMA PagesStep ==
  ASSUME OrderInv, PagesInv, [QueriesNext]_queryVars
  PROVE  PagesInv'
<1>1. TypeOK /\ Len(history) \in Nat /\ Len(read) \in Nat
  BY DEF OrderInv, TypeOK, PagesInv
<1>2. CASE Next /\ UNCHANGED read /\ complete' = FALSE
  <2>1. Len(history) <= Len(history') /\ Len(history') \in Nat
    <3>1. TypeOK'
      BY <1>2, OrderInvStep DEF OrderInv
    <3>2. QED
      BY <1>1, <1>2, <3>1, HistoryGrows DEF TypeOK
  <2>2. QED
    BY <1>1, <1>2, <2>1 DEF PagesInv, PagesCoverHistory
<1>3. CASE \E limit \in Limits : ReadPage(limit)
  BY <1>1, <1>3, PageGoesOn
<1>4. CASE Forget
  BY <1>1, <1>4 DEF Forget, vars, PagesInv, PagesCoverHistory
<1>5. CASE UNCHANGED queryVars
  BY <1>5 DEF queryVars, PagesInv, PagesCoverHistory
<1>6. QED
  BY <1>2, <1>3, <1>4, <1>5 DEF QueriesNext

\* Whatever limits a client asks for, and though batches are added between its
\* pages, it gets every batch once and in order, and is not told too early that
\* there are no more.
THEOREM PagesCover ==
  QueriesSpec => []PagesCoverHistory
<1>1. QueriesInit => PagesInv
  BY DEF QueriesInit, Init, PagesInv, PagesCoverHistory
<1>2. BooksInv => OrderInv
  BY DEF BooksInv
<1>3. BooksInv /\ PagesInv /\ [QueriesNext]_queryVars => PagesInv'
  BY <1>2, PagesStep
<1>4. PagesInv => PagesCoverHistory
  BY DEF PagesInv
<1>5. QED
  BY <1>1, <1>3, <1>4, QueriesBooks, PTL DEF QueriesSpec

-----------------------------------------------------------------------------
(***************************************************************************)
(* What the query says can be withdrawn.                                   *)
(***************************************************************************)
PromiseInv == FullInv /\ TokensInv

\* What is proved of the hub's own steps holds while it is queried.
LEMMA QueriesRefine ==
  QueriesSpec => Spec
<1>1. QueriesInit => Init
  BY DEF QueriesInit
<1>2. [QueriesNext]_queryVars => [Next]_vars
  BY QueriesStep DEF queryVars, vars
<1>3. QED
  BY <1>1, <1>2, PTL DEF QueriesSpec, Spec

\* Every step keeps the coins, the claims and the tokens bounded.
LEMMA PromiseStep ==
  ASSUME InStep, Lossless, FewTokens, PromiseInv, BalanceCoversPrev', [Next]_vars
  PROVE  PromiseInv'
<1>1. FullInv'
  BY FullInvStep DEF PromiseInv
<1>2. OrderInv /\ OrderInv'
  BY <1>1 DEF PromiseInv, FullInv, CoinsInv
<1>3. TokensInv'
  BY <1>2, TokensStep DEF PromiseInv, FewTokens
<1>4. QED
  BY <1>1, <1>3 DEF PromiseInv

\* For one batch, the query promises at most two coins more than a withdrawal
\* pays, and none when the batch is released already.
LEMMA PromisedForBatch ==
  ASSUME InStep, FewTokens, PromiseInv, NEW u \in Users, NEW b \in DOMAIN history
  PROVE  LET asked == IF QueriedFinished(b)
                      THEN Times(wait[u][b], history[b].statom_withdraw_rate) ELSE 0
             paid == IF ProcessedHistory[b].released
                     THEN Times(wait[u][b], ProcessedHistory[b].statom_withdraw_rate) ELSE 0
             one == IF b \in NewlyFinished THEN 1 ELSE 0
         IN  asked \in Nat /\ paid \in Nat /\ asked <= paid + 2 * one
<1> DEFINE w == wait[u][b]
           h == history[b]
           rate == h.statom_withdraw_rate
<1>1. OrderInv /\ TypeOK /\ CoinsInv /\ RequestsMatchBatches
  BY DEF PromiseInv, FullInv, ClaimsInv, CoinsInv, OrderInv
<1>2. /\ h \in UnbondHistory /\ rate \in Nat /\ h.time \in Nat /\ h.statom_amount \in Nat
      /\ b \in BatchIds /\ now \in Nat
      /\ h.released \in BOOLEAN /\ h.statom_amount <= MaxSupply /\ h.statom_amount # 0
  <2>1. h \in UnbondHistory /\ b \in 1..Len(history) /\ Len(history) <= MaxBatch
    BY <1>1, HistoryEntry DEF TypeOK
  <2>2. b \in BatchIds
    BY <1>1, <2>1, HubAssumption DEF TypeOK, BatchIds
  <2>3. QED
    BY <2>1, <2>2, <1>1 DEF UnbondHistory, PromiseInv, TokensInv, CoinsInv, TypeOK
<1>3. w \in Nat
  BY <1>1, <1>2 DEF TypeOK
<1>4. QueriedFinished(b) => Arrives(b)
  <2>1. params.unbonding_period = ChainUnbonding + Block /\ ChainUnbonding \in Nat /\ Block \in Nat
    BY <1>1, HubAssumption, BlockType DEF TypeOK, Parameters, InStep
  <2>2. QED
    BY <2>1, <1>2 DEF QueriedFinished, HistoricalTime, Arrives
<1>5. CASE h.released
  <2>1. b \notin NewlyFinished
    BY <1>5, <1>1, NewlyFinishedBatch
  <2>2. ProcessedHistory[b] = h
    BY <2>1 DEF ProcessedHistory
  <2>3. Times(w, rate) \in Nat
    BY <1>2, <1>3, TimesBound
  <2> HIDE DEF w, h, rate
  <2>4. QED
    BY <1>5, <2>1, <2>2, <2>3 DEF w, h, rate
<1>6. CASE ~h.released /\ b \in NewlyFinished
  <2> DEFINE a == h.statom_amount
             new == FromRatio(Times(a, rate), a)
  <2>1. NewRate(b) = new
    BY <1>1, <1>6, RateOfBooked DEF Booked
  <2>2. /\ ProcessedHistory[b].statom_withdraw_rate = NewRate(b) /\ NewRate(b) \in Nat
        /\ ProcessedHistory[b].released
    <3>1. ProcessedHistory[b].released
      BY <1>6, <1>1, ProcessedHistoryType
    <3>2. QED
      BY <3>1, <1>6, <1>1, NewlyFinishedBatch
  <2>3. w <= a
    <3>1. Requested(b) = a
      BY <1>6, <1>1 DEF RequestsMatchBatches
    <3>2. w <= Requested(b)
      BY <1>1, <1>2, ClaimWithinRequested
    <3>3. QED
      BY <3>1, <3>2
  <2>4. a \in Nat \ {0} /\ a <= DECIMAL_FRACTIONAL
    BY <1>2, ScaleAssumption DEF FewTokens
  <2>5. Times(w, rate) <= Times(w, new) + 2
    BY <2>3, <2>4, <1>2, <1>3, RateTruncatedTwice
  <2>6. Times(w, rate) \in Nat /\ Times(w, new) \in Nat
    BY <2>1, <2>2, <1>2, <1>3, TimesBound
  <2> HIDE DEF w, h, rate, a, new
  <2>7. QED
    BY <1>6, <2>1, <2>2, <2>5, <2>6 DEF w, h, rate
<1>7. CASE ~h.released /\ b \notin NewlyFinished
  <2>1. ~QueriedFinished(b)
    BY <1>7, <1>4, <1>1, ReleasesWhatArrived
  <2>2. ProcessedHistory[b] = h
    BY <1>7 DEF ProcessedHistory
  <2>3. QED
    BY <1>7, <2>1, <2>2
<1>8. QED
  BY <1>2, <1>5, <1>6, <1>7

\* The query keeps its promise in every state of the invariant.
LEMMA PromiseHolds ==
  ASSUME InStep, FewTokens, PromiseInv
  PROVE  PromiseKept
<1> SUFFICES ASSUME NEW u \in Users
             PROVE  /\ WithdrawableUnbonded(u)
                         <= FinishedAmount(u, ProcessedHistory) + 2 * Cardinality(NewlyFinished)
                    /\ FinishedAmount(u, ProcessedHistory) <= balance
  BY DEF PromiseKept
<1> DEFINE n == Len(history)
           asked == [b \in DOMAIN history |->
                       IF QueriedFinished(b)
                       THEN Times(wait[u][b], history[b].statom_withdraw_rate) ELSE 0]
           paid == [b \in DOMAIN ProcessedHistory |->
                      IF ProcessedHistory[b].released
                      THEN Times(wait[u][b], ProcessedHistory[b].statom_withdraw_rate) ELSE 0]
           one == [b \in 1..n |-> IF b \in NewlyFinished THEN 1 ELSE 0]
           two == [b \in 1..n |-> 2 * one[b]]
           sum == [b \in 1..n |-> paid[b] + two[b]]
<1>1. TypeOK /\ FullInv
  BY DEF PromiseInv, FullInv, CoinsInv, OrderInv
<1>2. /\ n \in Nat /\ DOMAIN history = 1..n /\ DOMAIN ProcessedHistory = 1..n
      /\ Len(ProcessedHistory) = n /\ NewlyFinished \in SUBSET (1..n)
  <2>1. n \in Nat /\ DOMAIN history = 1..n
    BY <1>1 DEF TypeOK
  <2>2. DOMAIN ProcessedHistory = DOMAIN history /\ Len(ProcessedHistory) = n
    BY <1>1, ProcessedHistoryType DEF ProcessedHistory
  <2>3. QED
    BY <2>1, <2>2 DEF NewlyFinished
<1>3. WithdrawableUnbonded(u) = SumTo(asked, n) /\ FinishedAmount(u, ProcessedHistory) = SumTo(paid, n)
  BY <1>2 DEF WithdrawableUnbonded, FinishedAmount
<1>4. \A b \in 1..n : /\ asked[b] \in Nat /\ paid[b] \in Nat /\ one[b] \in Nat
                      /\ asked[b] <= paid[b] + 2 * one[b]
  BY <1>2, PromisedForBatch
<1>5. SumTo(one, n) = Cardinality(NewlyFinished) /\ Cardinality(NewlyFinished) \in Nat
  BY <1>2, SumToCount
<1> HIDE DEF n, asked, paid, one
<1>6. \A b \in 1..n : /\ asked[b] \in Nat /\ paid[b] \in Nat /\ one[b] \in Nat
                      /\ two[b] = 2 * one[b] /\ two[b] \in Nat
                      /\ sum[b] = paid[b] + two[b] /\ sum[b] \in Nat /\ asked[b] <= sum[b]
  BY <1>4
<1> HIDE DEF two, sum
<1>7. SumTo(two, n) = 2 * SumTo(one, n)
  <2>1. \A b \in 1..n : one[b] \in Nat /\ two[b] = 2 * one[b]
    BY <1>6
  <2>2. n \in Nat /\ 2 \in Nat
    BY <1>2
  <2>3. QED
    BY ONLY <2>1, <2>2, SumToScaled
<1>8. SumTo(sum, n) = SumTo(paid, n) + SumTo(two, n)
  BY ONLY <1>2, <1>6, SumToPlus
<1>9. SumTo(asked, n) <= SumTo(sum, n)
  BY ONLY <1>2, <1>6, SumToMonotone
<1>10. FinishedAmount(u, ProcessedHistory) <= balance
  BY <1>1, WithdrawalCovered
<1>11. QED
  BY <1>3, <1>5, <1>7, <1>8, <1>9, <1>10

\* Where undelegations are paid in full and the hub waits as long as it has to:
\* whatever query_withdrawable_unbonded promises a user is there, and a
\* withdrawal at once pays it but for two coins for each batch it releases.
THEOREM QueryIsPaid ==
  InStep /\ Lossless /\ FewTokens => (QueriesSpec => []PromiseKept)
<1> SUFFICES ASSUME InStep, Lossless, FewTokens PROVE QueriesSpec => []PromiseKept
  OBVIOUS
<1>1. Init => PromiseInv
  <2> SUFFICES ASSUME Init PROVE TokensInv
    BY FullInvInit DEF PromiseInv
  <2>1. Circulating = 0 /\ DOMAIN history = {}
    BY DEF Init, Circulating
  <2>2. QED
    BY <2>1 DEF TokensInv, FewTokens
<1>2. PromiseInv /\ BalanceCoversPrev' /\ [Next]_vars => PromiseInv'
  BY PromiseStep
<1>3. PromiseInv => PromiseKept
  BY PromiseHolds
<1>4. QED
  BY <1>1, <1>2, <1>3, BalanceKept, QueriesRefine, PTL DEF Spec
=============================================================================
