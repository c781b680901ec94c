----------------------------- MODULE HubProofs -----------------------------
(***************************************************************************)
(* Theorems about the hub, for every number of users, batches and coins,   *)
(* every scale of the decimals and every period.                           *)
(***************************************************************************)
EXTENDS Hub, SumsProofs, DecimalsProofs

\* A bond or unbond transaction always works on a well-formed state after
\* slashing has been checked.
LEMMA SyncedType ==
  ASSUME NEW s \in State, NEW stake \in Nat, NEW records,
         NEW issued \in Nat, NEW requested \in Nat
  PROVE  Synced(s, stake, records, issued, requested) \in State
<1> DEFINE bonded == Least(s.total_bond_statom_amount, stake)
<1>1. bonded \in Nat
  BY DEF State, Least
<1>2. ExchangeRate(bonded, issued, requested) \in Nat
  BY <1>1, ExchangeRateType
<1> HIDE DEF bonded
<1>3. [s EXCEPT !.total_bond_statom_amount = bonded,
                !.statom_exchange_rate = ExchangeRate(bonded, issued, requested)] \in State
  BY <1>1, <1>2 DEF State
<1>4. QED
  BY <1>3 DEF Synced, bonded

\* query_actual_state returns a well-formed state.
LEMMA ActualStateType ==
  ASSUME TypeOK
  PROVE  ActualState \in State
  BY SyncedType DEF TypeOK, ActualState, CurrentBatch

-----------------------------------------------------------------------------
(***************************************************************************)
(* Releasing batches.                                                      *)
(***************************************************************************)
\* The value a batch was booked at is an amount.
LEMMA BookedType ==
  ASSUME NEW h \in UnbondHistory
  PROVE  Booked(h) \in Nat
  BY TimesBound DEF Booked, UnbondHistory

\* An entry of the history, and its batch id.
LEMMA HistoryEntry ==
  ASSUME TypeOK, NEW b \in DOMAIN history
  PROVE  /\ history[b] \in UnbondHistory
         /\ b \in Nat
         /\ DOMAIN history = 1..Len(history)
         /\ Len(history) \in Nat
  BY DEF TypeOK

\* What the newly finished batches were booked at is an amount.
LEMMA NewlyAddedUnbondedType ==
  ASSUME TypeOK
  PROVE  NewlyAddedUnbonded \in Nat
<1> DEFINE v == [b \in DOMAIN history |-> IF b \in NewlyFinished THEN Booked(history[b]) ELSE 0]
<1>1. Len(history) \in Nat /\ DOMAIN history = 1..Len(history)
  BY DEF TypeOK
<1>2. \A b \in 1..Len(history) : v[b] \in Nat
  BY <1>1, HistoryEntry, BookedType
<1> HIDE DEF v
<1>3. SumTo(v, Len(history)) \in Nat
  BY <1>1, <1>2, SumToType
<1>4. QED
  BY <1>3 DEF NewlyAddedUnbonded, v

\* What arrived differs from it by an amount and a sign.
LEMMA SlashedAmountType ==
  ASSUME TypeOK
  PROVE  SlashedAmount.magnitude \in Nat /\ SlashedAmount.negative \in BOOLEAN
<1>1. balance \in Nat /\ state.prev_hub_balance \in Nat
  BY DEF TypeOK, State
<1>2. FromSubtraction(balance, state.prev_hub_balance).magnitude \in Nat
  BY <1>1, FromSubtractionType
<1>3. QED
  BY <1>2, NewlyAddedUnbondedType, FromSubtractionType DEF SlashedAmount

\* Processing only gives withdraw rates to batches and marks them released.
LEMMA ProcessedHistoryType ==
  ASSUME TypeOK
  PROVE  /\ ProcessedHistory \in Seq(UnbondHistory)
         /\ DOMAIN ProcessedHistory = DOMAIN history
         /\ Len(ProcessedHistory) = Len(history)
         /\ \A b \in DOMAIN history :
              /\ ProcessedHistory[b].time = history[b].time
              /\ ProcessedHistory[b].statom_amount = history[b].statom_amount
              /\ ProcessedHistory[b].released <=> history[b].released \/ b \in NewlyFinished
              /\ b \notin NewlyFinished => ProcessedHistory[b] = history[b]
<1> DEFINE total == NewlyAddedUnbonded
           slashed == SlashedAmount
           rate(b) == NewWithdrawRate(history[b].statom_amount, history[b].statom_withdraw_rate,
                                      total, slashed)
           new(b) == IF b \in NewlyFinished
                     THEN [history[b] EXCEPT !.statom_withdraw_rate = rate(b), !.released = TRUE]
                     ELSE history[b]
           h == [b \in DOMAIN history |-> new(b)]
<1>1. ASSUME NEW b \in DOMAIN history
      PROVE  /\ new(b) \in UnbondHistory
             /\ new(b).time = history[b].time
             /\ new(b).statom_amount = history[b].statom_amount
             /\ new(b).released <=> history[b].released \/ b \in NewlyFinished
             /\ b \notin NewlyFinished => new(b) = history[b]
  <2>1. history[b] \in UnbondHistory
    BY HistoryEntry
  <2>2. rate(b) \in Nat
    <3>1. total \in Nat /\ slashed.magnitude \in Nat /\ slashed.negative \in BOOLEAN
      BY NewlyAddedUnbondedType, SlashedAmountType
    <3> HIDE DEF total, slashed
    <3>2. QED
      BY <2>1, <3>1, NewWithdrawRateType DEF UnbondHistory
  <2> HIDE DEF rate
  <2>3. QED
    BY <2>1, <2>2 DEF UnbondHistory
<1>2. ProcessedHistory = h
  BY DEF ProcessedHistory
<1>3. DOMAIN history = 1..Len(history) /\ Len(history) \in Nat
  BY DEF TypeOK
<1> HIDE DEF new
<1>4. h \in [1..Len(history) -> UnbondHistory]
  BY <1>1, <1>3
<1>5. h \in Seq(UnbondHistory) /\ Len(h) = Len(history)
  BY <1>3, <1>4
<1>6. QED
  BY <1>1, <1>2, <1>5

\* What a user can withdraw is an amount.
LEMMA FinishedAmountType ==
  ASSUME TypeOK, NEW u \in Users, NEW h \in Seq(UnbondHistory), Len(h) <= MaxBatch
  PROVE  FinishedAmount(u, h) \in Nat
<1> DEFINE v == [b \in DOMAIN h |->
                   IF h[b].released THEN Times(wait[u][b], h[b].statom_withdraw_rate) ELSE 0]
<1>1. Len(h) \in Nat /\ DOMAIN h = 1..Len(h)
  OBVIOUS
<1>2. ASSUME NEW b \in 1..Len(h)
      PROVE  v[b] \in Nat
  <2>1. h[b] \in UnbondHistory /\ b \in BatchIds
    BY HubAssumption, <1>1 DEF BatchIds
  <2>2. wait[u][b] \in Nat /\ h[b].statom_withdraw_rate \in Nat
    BY <2>1 DEF TypeOK, UnbondHistory
  <2>3. QED
    BY <1>1, <2>2, TimesBound
<1> HIDE DEF v
<1>3. SumTo(v, Len(h)) \in Nat
  BY <1>1, <1>2, SumToType
<1>4. QED
  BY <1>3 DEF FinishedAmount, v

\* The batches processed at once follow each other, up to the new
\* last_processed_batch.
LEMMA LastProcessedBound ==
  ASSUME TypeOK
  PROVE  /\ LastProcessed \in Nat
         /\ state.last_processed_batch <= LastProcessed
         /\ \A b \in DOMAIN history :
              b \in NewlyFinished <=> state.last_processed_batch < b /\ b <= LastProcessed
         /\ LastProcessed # state.last_processed_batch => LastProcessed <= Len(history)
<1>1. state.last_processed_batch \in Nat /\ Len(history) \in Nat
        /\ DOMAIN history = 1..Len(history)
  BY DEF TypeOK, State
<1>2. CASE NewlyFinished = {}
  <2>1. LastProcessed = state.last_processed_batch
    BY <1>2 DEF LastProcessed
  <2>2. QED
    BY <1>1, <1>2, <2>1
<1>3. CASE NewlyFinished # {}
  <2>1. NewlyFinished \subseteq 1..Len(history)
    BY <1>1 DEF NewlyFinished
  <2>2. \E b \in NewlyFinished : \A c \in NewlyFinished : c <= b
    BY <1>1, <1>3, <2>1, GreatestExists
  <2>3. LastProcessed \in NewlyFinished /\ \A c \in NewlyFinished : c <= LastProcessed
    BY <1>3, <2>2 DEF LastProcessed
  <2>4. LastProcessed \in 1..Len(history) /\ state.last_processed_batch < LastProcessed
    BY <1>1, <2>1, <2>3 DEF NewlyFinished
  <2>5. \A c \in state.last_processed_batch + 1 .. LastProcessed : Finished(c)
    BY <2>3 DEF NewlyFinished
  <2>6. ASSUME NEW b \in DOMAIN history, state.last_processed_batch < b, b <= LastProcessed
        PROVE  b \in NewlyFinished
    <3>1. \A c \in state.last_processed_batch + 1 .. b : Finished(c)
      BY <1>1, <2>4, <2>5, <2>6
    <3>2. QED
      BY <1>1, <2>6, <3>1 DEF NewlyFinished
  <2>7. \A b \in NewlyFinished : state.last_processed_batch < b /\ b <= LastProcessed
    BY <2>3, <1>1 DEF NewlyFinished
  <2>8. QED
    BY <1>1, <2>4, <2>6, <2>7
<1>4. QED
  BY <1>2, <1>3

-----------------------------------------------------------------------------
(***************************************************************************)
(* Types.                                                                  *)
(***************************************************************************)
LEMMA TypeInit ==
  ASSUME Init
  PROVE  TypeOK
<1>1. history \in Seq(UnbondHistory) /\ Len(history) = 0 /\ inflight \in Seq(Nat)
  BY DEF Init
<1>2. state \in State /\ batch \in CurrentBatch
  BY ScaleAssumption DEF Init, State, CurrentBatch, One
<1>3. params \in Parameters
  BY DEF Init, Parameters
<1>4. wait \in [Users -> [BatchIds -> Nat]]
  BY DEF Init
<1>5. now \in Nat /\ balance \in Nat /\ supply \in Nat /\ staked \in Nat
  BY DEF Init
<1>6. delegated \in BOOLEAN
  BY DEF Init
<1>7. QED
  BY <1>1, <1>2, <1>3, <1>4, <1>5, <1>6, HubAssumption DEF TypeOK

\* The requests of a user grow by what is sent, in the entry of the open batch.
LEMMA StoreWaitType ==
  ASSUME TypeOK, NEW u \in Users, NEW amount \in Nat, batch.id \in BatchIds,
         StoreWait(u, amount)
  PROVE  wait' \in [Users -> [BatchIds -> Nat]]
  BY DEF TypeOK, StoreWait

\* Bond keeps the types.
LEMMA TypeBond ==
  ASSUME TypeOK, NEW payment \in Payments, Bond(payment)
  PROVE  TypeOK'
<1> DEFINE s == ActualState
           minted == DecimalDivision(payment, s.statom_exchange_rate)
<1>1. s \in State
  BY ActualStateType
<1>2. payment \in Nat
  BY HubAssumption
<1> HIDE DEF s
<1>3. minted \in Nat
  BY <1>1, <1>2, DecimalDivisionBound DEF Bond, s, State
<1> HIDE DEF minted
<1>4. state' \in State
  BY <1>1, <1>2 DEF Bond, s, State
<1>5. supply' \in Nat /\ staked' \in Nat /\ delegated' \in BOOLEAN
  BY <1>2, <1>3 DEF Bond, TypeOK, minted, s
<1>6. QED
  BY <1>4, <1>5 DEF Bond, TypeOK

\* BondRewards keeps the types.
LEMMA TypeBondRewards ==
  ASSUME TypeOK, NEW payment \in Rewards, BondRewards(payment)
  PROVE  TypeOK'
<1> DEFINE s == ActualState
           bonded == s.total_bond_statom_amount + payment
           rate == ExchangeRate(bonded, TotalIssued, batch.requested_statom)
<1>1. s \in State
  BY ActualStateType
<1>2. payment \in Nat
  BY HubAssumption
<1> HIDE DEF s
<1>3. bonded \in Nat
  BY <1>1, <1>2 DEF State
<1> HIDE DEF bonded
<1>4. rate \in Nat
  BY <1>3, ExchangeRateType DEF TypeOK, TotalIssued, CurrentBatch
<1> HIDE DEF rate
<1>5. state' \in State
  BY <1>1, <1>3, <1>4 DEF BondRewards, s, bonded, rate, State
<1>6. staked' \in Nat /\ delegated' \in BOOLEAN
  BY <1>2 DEF BondRewards, TypeOK
<1>7. QED
  BY <1>5, <1>6 DEF BondRewards, TypeOK

\* Unbond keeps the types: it burns no more than there is.
LEMMA TypeUnbond ==
  ASSUME TypeOK, NEW u \in Users, NEW amount \in Requests, Unbond(u, amount)
  PROVE  TypeOK'
<1> DEFINE requested == batch.requested_statom + amount
<1>1. amount \in Nat
  BY HubAssumption
<1>2. requested \in Nat /\ batch' \in CurrentBatch /\ supply' \in Nat
  <2>1. batch \in CurrentBatch /\ supply \in Nat
    BY DEF TypeOK
  <2>2. batch' = [batch EXCEPT !.requested_statom = requested] /\ supply' = supply - amount
          /\ amount <= supply
    BY DEF Unbond
  <2>3. requested \in Nat
    BY <1>1, <2>1 DEF CurrentBatch
  <2> HIDE DEF requested
  <2>4. QED
    BY <1>1, <2>1, <2>2, <2>3 DEF CurrentBatch
<1>3. wait' \in [Users -> [BatchIds -> Nat]]
  BY <1>1, StoreWaitType DEF Unbond
<1>4. state' \in State
  <2>1. state' = Synced(ActualState, staked, delegated, supply - amount, requested)
    BY DEF Unbond
  <2>2. supply - amount \in Nat /\ staked \in Nat
    BY <1>1 DEF TypeOK, Unbond
  <2> HIDE DEF requested
  <2>3. QED
    BY <1>2, <2>1, <2>2, ActualStateType, SyncedType
<1>5. QED
  BY <1>2, <1>3, <1>4 DEF Unbond, TypeOK, chain

\* UnbondAndUndelegate keeps the types: it undelegates no more than there is,
\* and the new entry of the history has an id.
LEMMA TypeUnbondAndUndelegate ==
  ASSUME TypeOK, ProcessedInOrder,
         NEW u \in Users, NEW amount \in Requests, UnbondAndUndelegate(u, amount)
  PROVE  TypeOK'
<1> DEFINE s == ActualState
           requested == batch.requested_statom + amount
           undelegated == Times(requested, s.statom_exchange_rate)
           entry == [time |-> now, statom_amount |-> requested,
                     statom_applied_exchange_rate |-> s.statom_exchange_rate,
                     statom_withdraw_rate |-> s.statom_exchange_rate, released |-> FALSE]
           reduced == [s EXCEPT !.total_bond_statom_amount = @ - undelegated,
                                !.last_unbonded_time = now]
<1>1. amount \in Nat /\ s \in State
  BY HubAssumption, ActualStateType
<1>2. requested \in Nat
  BY <1>1 DEF TypeOK, CurrentBatch
<1>3. /\ batch.id \in BatchIds
      /\ StoreWait(u, amount)
      /\ history' = Append(history, entry)
      /\ inflight' = Append(inflight, undelegated)
      /\ batch' = [id |-> batch.id + 1, requested_statom |-> 0]
      /\ undelegated <= staked
      /\ undelegated <= s.total_bond_statom_amount
      /\ staked' = staked - undelegated
      /\ delegated' \in {staked' > 0, TRUE}
      /\ amount <= supply
      /\ supply' = supply - amount
      /\ state' = Synced(reduced, staked', delegated', supply - amount, 0)
      /\ UNCHANGED <<now, params, balance>>
  BY DEF UnbondAndUndelegate
<1> HIDE DEF s
<1>4. undelegated \in Nat
  BY <1>1, <1>2, TimesBound DEF State
<1> HIDE DEF requested, undelegated
<1>5. entry \in UnbondHistory
  BY <1>1, <1>2 DEF UnbondHistory, State, TypeOK
<1>6. reduced \in State
  <2>1. s.total_bond_statom_amount \in Nat
    BY <1>1 DEF State
  <2>2. undelegated <= s.total_bond_statom_amount
    BY <1>3
  <2>3. s.total_bond_statom_amount - undelegated \in Nat
    BY <1>4, <2>1, <2>2
  <2>4. now \in Nat
    BY DEF TypeOK
  <2>5. QED
    BY <1>1, <2>3, <2>4 DEF State
<1> HIDE DEF entry, reduced
<1>7. staked' \in Nat /\ supply' \in Nat /\ delegated' \in BOOLEAN
  <2>1. staked \in Nat /\ supply \in Nat
    BY DEF TypeOK
  <2>2. staked' \in Nat /\ supply' \in Nat
    BY <1>1, <1>3, <1>4, <2>1
  <2>3. delegated' \in BOOLEAN
    <3>1. delegated' = (staked' > 0) \/ delegated' = TRUE
      BY <1>3
    <3>2. (staked' > 0) \in BOOLEAN
      OBVIOUS
    <3>3. QED
      BY <3>1, <3>2
  <2>4. QED
    BY <2>2, <2>3
<1>8. history' \in Seq(UnbondHistory) /\ Len(history') = Len(history) + 1
        /\ inflight' \in Seq(Nat)
  BY <1>3, <1>4, <1>5 DEF TypeOK
<1>9. Len(history') <= MaxBatch
  BY <1>3, <1>8 DEF TypeOK, ProcessedInOrder, BatchIds
<1>10. batch' \in CurrentBatch
  BY <1>3 DEF CurrentBatch, TypeOK
<1>11. wait' \in [Users -> [BatchIds -> Nat]]
  BY <1>1, <1>3, StoreWaitType
<1>12. state' \in State
  BY <1>3, <1>6, <1>7, SyncedType
<1>13. QED
  BY <1>3, <1>7, <1>8, <1>9, <1>10, <1>11, <1>12 DEF TypeOK

\* WithdrawUnbonded keeps the types: it pays no more than the hub holds.
LEMMA TypeWithdrawUnbonded ==
  ASSUME TypeOK, NEW u \in Users, WithdrawUnbonded(u)
  PROVE  TypeOK'
<1> DEFINE withdrawn == FinishedAmount(u, ProcessedHistory)
           paid == [b \in BatchIds |-> IF b \in DOMAIN history /\ ProcessedHistory[b].released
                                       THEN 0 ELSE wait[u][b]]
<1>1. /\ withdrawn <= balance
      /\ history' = ProcessedHistory
      /\ wait' = [wait EXCEPT ![u] = paid]
      /\ balance' = balance - withdrawn
      /\ state' = [state EXCEPT !.last_processed_batch = LastProcessed,
                                !.prev_hub_balance = balance - withdrawn]
      /\ UNCHANGED <<now, params, batch, supply, chain>>
  BY DEF WithdrawUnbonded, PrevBalance, TypeOK
<1>2. ProcessedHistory \in Seq(UnbondHistory) /\ Len(ProcessedHistory) <= MaxBatch
  BY ProcessedHistoryType DEF TypeOK
<1>3. withdrawn \in Nat
  BY <1>2, FinishedAmountType
<1> HIDE DEF withdrawn
<1>4. balance' \in Nat
  BY <1>1, <1>3 DEF TypeOK
<1>5. state' \in State
  <2>1. state \in State /\ LastProcessed \in Nat /\ balance - withdrawn \in Nat
    BY <1>1, <1>3, LastProcessedBound DEF TypeOK
  <2>2. QED
    BY <1>1, <2>1 DEF State
<1>6. paid \in [BatchIds -> Nat]
  BY DEF TypeOK
<1> HIDE DEF paid
<1>7. wait' \in [Users -> [BatchIds -> Nat]]
  BY <1>1, <1>6 DEF TypeOK
<1>8. QED
  BY <1>1, <1>2, <1>4, <1>5, <1>7 DEF TypeOK, chain

\* Time goes on between two blocks.
LEMMA BlockTakesTime ==
  ASSUME now \in Nat, EndBlock
  PROVE  now' \in Nat /\ now < now'
<1>1. PICK gap \in BlockGaps : now' = now + gap
  BY DEF EndBlock
<1>2. QED
  BY <1>1, HubAssumption

\* The end of a block keeps the types.
LEMMA TypeEndBlock ==
  ASSUME TypeOK, EndBlock
  PROVE  TypeOK'
<1> DEFINE v == [b \in DOMAIN inflight |-> IF Matured(b) THEN inflight[b] ELSE 0]
           left == [b \in DOMAIN inflight |-> IF Matured(b) THEN 0 ELSE inflight[b]]
<1>1. Len(inflight) \in Nat /\ DOMAIN inflight = 1..Len(inflight)
  BY DEF TypeOK
<1>2. \A b \in 1..Len(inflight) : v[b] \in Nat /\ left[b] \in Nat
  BY <1>1 DEF TypeOK
<1>3. left \in Seq(Nat)
  <2>1. left \in [1..Len(inflight) -> Nat]
    BY <1>1, <1>2
  <2>2. QED
    BY <1>1, <2>1
<1>4. balance' = balance + SumTo(v, Len(inflight)) /\ inflight' = left
        /\ UNCHANGED <<params, state, batch, history, wait, supply, staked, delegated>>
  BY DEF EndBlock
<1> HIDE DEF v, left
<1>5. SumTo(v, Len(inflight)) \in Nat
  BY <1>1, <1>2, SumToType
<1>6. now' \in Nat
  BY BlockTakesTime DEF TypeOK
<1>7. QED
  BY <1>3, <1>4, <1>5, <1>6 DEF TypeOK

\* Every transaction and every step of the chain keeps the types.
LEMMA TypeStep ==
  ASSUME TypeOK, ProcessedInOrder, [Next]_vars
  PROVE  TypeOK'
<1>1. CASE \E payment \in Payments : Bond(payment)
  BY <1>1, TypeBond
<1>2. CASE \E payment \in Rewards : BondRewards(payment)
  BY <1>2, TypeBondRewards
<1>3. CASE \E u \in Users, amount \in Requests : Unbond(u, amount)
  BY <1>3, TypeUnbond
<1>4. CASE \E u \in Users, amount \in Requests : UnbondAndUndelegate(u, amount)
  BY <1>4, TypeUnbondAndUndelegate
<1>5. CASE \E amount \in Requests : Burn(amount)
  <2>1. PICK amount \in Requests : Burn(amount)
    BY <1>5
  <2>2. supply - amount \in Nat /\ supply' = supply - amount
    BY <2>1, HubAssumption DEF Burn, TypeOK
  <2>3. state' \in State
    BY <2>1, <2>2, SyncedType DEF Burn, TypeOK, CurrentBatch
  <2>4. QED
    BY <2>1, <2>2, <2>3 DEF Burn, TypeOK, chain
<1>6. CASE CheckSlashing
  BY <1>6, ActualStateType DEF CheckSlashing, TypeOK, chain
<1>7. CASE \E u \in Users : WithdrawUnbonded(u)
  BY <1>7, TypeWithdrawUnbonded
<1>8. CASE OwnerTx
  BY <1>8 DEF OwnerTx, UpdateParams, Pause, Unpause, TypeOK, Parameters, chain
<1>9. CASE EndBlock
  BY <1>9, TypeEndBlock
<1>10. CASE \E loss \in StakeLosses : SlashStake(loss)
  BY <1>10, HubAssumption DEF SlashStake, TypeOK
<1>11. CASE \E b \in DOMAIN inflight, loss \in InFlightLosses : SlashInFlight(b, loss)
  <2>1. PICK b \in DOMAIN inflight, loss \in InFlightLosses : SlashInFlight(b, loss)
    BY <1>11
  <2>2. inflight[b] \in Nat /\ loss \in Nat /\ loss <= inflight[b]
    <3>1. inflight \in Seq(Nat) /\ loss \in Nat /\ loss <= inflight[b]
      BY <2>1, HubAssumption DEF SlashInFlight, TypeOK
    <3>2. QED
      BY <3>1
  <2>3. inflight' \in Seq(Nat)
    <3>1. inflight \in Seq(Nat) /\ inflight' = [inflight EXCEPT ![b] = @ - loss]
      BY <2>1 DEF SlashInFlight, TypeOK
    <3>2. inflight[b] - loss \in Nat
      BY <2>2
    <3>3. QED
      BY <3>1, <3>2
  <2>4. QED
    BY <2>1, <2>3 DEF SlashInFlight, TypeOK
<1>12. CASE \E coins \in Donations : Donate(coins)
  BY <1>12, HubAssumption DEF Donate, TypeOK, chain
<1>13. CASE UNCHANGED vars
  BY <1>13 DEF TypeOK, vars
<1>14. QED
  BY <1>1, <1>2, <1>3, <1>4, <1>5, <1>6, <1>7, <1>8, <1>9, <1>10, <1>11, <1>12, <1>13
     DEF Next, UserTx, ChainStep

-----------------------------------------------------------------------------
(***************************************************************************)
(* Batches are released in order.                                          *)
(***************************************************************************)
\* slashing touches the bonded amount and the rate, nothing else.
LEMMA SyncedKeeps ==
  ASSUME NEW s \in State, NEW stake, NEW records, NEW issued, NEW requested
  PROVE  LET t == Synced(s, stake, records, issued, requested)
         IN  /\ t.prev_hub_balance = s.prev_hub_balance
             /\ t.last_unbonded_time = s.last_unbonded_time
             /\ t.last_processed_batch = s.last_processed_batch
  BY DEF Synced, State

\* The same for the check a handler begins with.
LEMMA ActualStateKeeps ==
  ASSUME TypeOK
  PROVE  /\ ActualState.prev_hub_balance = state.prev_hub_balance
         /\ ActualState.last_unbonded_time = state.last_unbonded_time
         /\ ActualState.last_processed_batch = state.last_processed_batch
  BY SyncedKeeps DEF TypeOK, ActualState

\* What decides the order of the batches.
Schedule == <<batch.id, history, Len(inflight), state.last_unbonded_time,
              state.last_processed_batch>>

\* Only undelegating a batch and withdrawing change it.
LEMMA ScheduleKept ==
  ASSUME TypeOK, [Next]_vars,
         ~ \E u \in Users, amount \in Requests : UnbondAndUndelegate(u, amount),
         ~ \E u \in Users : WithdrawUnbonded(u)
  PROVE  Schedule' = Schedule /\ now' \in Nat /\ now <= now'
<1>1. CASE \E payment \in Payments : Bond(payment)
  <2>1. ActualState \in State /\ now \in Nat
    BY ActualStateType DEF TypeOK
  <2>2. state'.last_unbonded_time = ActualState.last_unbonded_time
          /\ state'.last_processed_batch = ActualState.last_processed_batch
    BY <1>1, <2>1 DEF Bond, State
  <2>3. QED
    BY <1>1, <2>1, <2>2, ActualStateKeeps DEF Bond, Schedule
<1>2. CASE \E payment \in Rewards : BondRewards(payment)
  <2>1. ActualState \in State /\ now \in Nat
    BY ActualStateType DEF TypeOK
  <2>2. state'.last_unbonded_time = ActualState.last_unbonded_time
          /\ state'.last_processed_batch = ActualState.last_processed_batch
    BY <1>2, <2>1 DEF BondRewards, State
  <2>3. QED
    BY <1>2, <2>1, <2>2, ActualStateKeeps DEF BondRewards, Schedule
<1>3. CASE \E u \in Users, amount \in Requests : Unbond(u, amount)
  <2>1. PICK u \in Users, amount \in Requests : Unbond(u, amount)
    BY <1>3
  <2>2. state' = Synced(ActualState, staked, delegated, supply - amount,
                        batch.requested_statom + amount)
    BY <2>1 DEF Unbond
  <2>3. state'.last_unbonded_time = ActualState.last_unbonded_time
          /\ state'.last_processed_batch = ActualState.last_processed_batch
    BY <2>2, ActualStateType, SyncedKeeps
  <2>4. batch'.id = batch.id
    BY <2>1 DEF Unbond, TypeOK, CurrentBatch
  <2>5. QED
    BY <2>1, <2>3, <2>4, ActualStateKeeps DEF Unbond, Schedule, chain, TypeOK
<1>4. CASE \E amount \in Requests : Burn(amount)
  <2>1. PICK amount \in Requests : Burn(amount)
    BY <1>4
  <2>2. state'.last_unbonded_time = state.last_unbonded_time
          /\ state'.last_processed_batch = state.last_processed_batch
    BY <2>1, SyncedKeeps DEF Burn, TypeOK
  <2>3. QED
    BY <2>1, <2>2 DEF Burn, Schedule, chain, TypeOK
<1>5. CASE CheckSlashing
  BY <1>5, ActualStateKeeps DEF CheckSlashing, Schedule, chain, TypeOK
<1>6. CASE OwnerTx
  <2>1. UNCHANGED <<now, state, batch, history, inflight>>
    BY <1>6 DEF OwnerTx, UpdateParams, Pause, Unpause, chain
  <2>2. QED
    BY <2>1 DEF Schedule, TypeOK
<1>7. CASE EndBlock
  <2>1. Len(inflight') = Len(inflight)
    <3>1. Len(inflight) \in Nat /\ DOMAIN inflight = 1..Len(inflight)
      BY DEF TypeOK
    <3>2. DOMAIN inflight' = DOMAIN inflight
      BY <1>7 DEF EndBlock
    <3>3. inflight' \in Seq(Nat)
      BY <1>7, TypeEndBlock DEF TypeOK
    <3>4. Len(inflight') \in Nat /\ DOMAIN inflight' = 1..Len(inflight')
      BY <3>3
    <3>5. QED
      BY <3>1, <3>2, <3>4
  <2>2. now' \in Nat /\ now < now' /\ now \in Nat
    BY <1>7, BlockTakesTime DEF TypeOK
  <2>3. QED
    BY <1>7, <2>1, <2>2 DEF EndBlock, Schedule, TypeOK
<1>8. CASE \E loss \in StakeLosses : SlashStake(loss)
  BY <1>8 DEF SlashStake, Schedule, TypeOK
<1>9. CASE \E b \in DOMAIN inflight, loss \in InFlightLosses : SlashInFlight(b, loss)
  BY <1>9 DEF SlashInFlight, Schedule, TypeOK
<1>10. CASE \E coins \in Donations : Donate(coins)
  BY <1>10 DEF Donate, Schedule, chain, TypeOK
<1>11. CASE UNCHANGED vars
  BY <1>11 DEF vars, Schedule, TypeOK
<1>12. QED
  BY <1>1, <1>2, <1>3, <1>4, <1>5, <1>6, <1>7, <1>8, <1>9, <1>10, <1>11
     DEF Next, UserTx, ChainStep

\* A new batch is dated after every earlier one and not released.
LEMMA OrderUndelegate ==
  ASSUME TypeOK, ProcessedInOrder,
         NEW u \in Users, NEW amount \in Requests, UnbondAndUndelegate(u, amount)
  PROVE  ProcessedInOrder'
<1> DEFINE n == Len(history)
           reduced == [ActualState EXCEPT
                         !.total_bond_statom_amount =
                            @ - Times(batch.requested_statom + amount,
                                      ActualState.statom_exchange_rate),
                         !.last_unbonded_time = now]
<1>1. n \in Nat /\ now \in Nat /\ state \in State /\ DOMAIN history = 1..n
  BY DEF TypeOK
<1>2. PICK entry, coins :
        /\ history' = Append(history, entry)
        /\ inflight' = Append(inflight, coins)
        /\ entry.time = now
        /\ entry.released = FALSE
  BY DEF UnbondAndUndelegate
<1>3. Len(history') = n + 1 /\ Len(inflight') = n + 1 /\ DOMAIN history' = 1..(n + 1)
  BY <1>1, <1>2 DEF ProcessedInOrder, TypeOK
<1>4. history'[n + 1] = entry /\ \A b \in 1..n : history'[b] = history[b]
  BY <1>1, <1>2 DEF TypeOK
<1>5. batch'.id = n + 2 /\ now' = now
  BY <1>1 DEF UnbondAndUndelegate, ProcessedInOrder
<1>6. /\ state'.last_unbonded_time = now
      /\ state'.last_processed_batch = state.last_processed_batch
  <2>1. ActualState \in State
    BY ActualStateType
  <2>2. state' = Synced(reduced, staked', delegated', supply - amount, 0)
    BY DEF UnbondAndUndelegate
  <2>3. reduced.last_unbonded_time = now
          /\ reduced.last_processed_batch = state.last_processed_batch
    BY <2>1, ActualStateKeeps DEF State
  <2> HIDE DEF reduced
  <2>4. QED
    BY <2>2, <2>3 DEF Synced
<1>7. state.last_unbonded_time < now
  <2>1. params.epoch_period \in Nat /\ state.last_unbonded_time \in Nat
    BY HubAssumption DEF TypeOK, Parameters, State
  <2>2. now - state.last_unbonded_time > params.epoch_period
    BY DEF UnbondAndUndelegate, EpochPassed
  <2>3. QED
    BY <1>1, <2>1, <2>2
<1> HIDE DEF reduced
<1>8. QED
  <2>1. state'.last_processed_batch \in Nat /\ state'.last_processed_batch <= n
    BY <1>1, <1>6 DEF ProcessedInOrder, State
  <2>2. ASSUME NEW b \in 1..(n + 1)
        PROVE  /\ history'[b].released <=> b <= state'.last_processed_batch
               /\ history'[b].time <= now
    <3>1. CASE b = n + 1
      BY <1>1, <1>2, <1>4, <2>1, <3>1
    <3>2. CASE b \in 1..n
      <4>1. history[b].time \in Nat /\ state.last_unbonded_time \in Nat
        BY <1>1, <3>2, HistoryEntry DEF UnbondHistory, State
      <4>2. history[b].time <= state.last_unbonded_time
              /\ (history[b].released <=> b <= state.last_processed_batch)
        BY <1>1, <3>2 DEF ProcessedInOrder
      <4>3. QED
        BY <1>1, <1>4, <1>6, <1>7, <3>2, <4>1, <4>2
    <3>3. QED
      BY <1>1, <3>1, <3>2
  <2>3. ASSUME NEW b \in 1..(n + 1), NEW c \in 1..(n + 1), c < b
        PROVE  history'[c].time < history'[b].time
    <3>1. c \in 1..n /\ history'[c] = history[c] /\ history[c].time \in Nat
      BY <1>1, <1>4, <2>3, HistoryEntry DEF UnbondHistory
    <3>2. CASE b = n + 1
      <4>1. history[c].time <= state.last_unbonded_time /\ state.last_unbonded_time \in Nat
        BY <1>1, <3>1 DEF ProcessedInOrder, State
      <4>2. QED
        BY <1>1, <1>2, <1>4, <1>7, <3>1, <3>2, <4>1
    <3>3. CASE b \in 1..n
      BY <1>1, <1>4, <2>3, <3>1, <3>3 DEF ProcessedInOrder
    <3>4. QED
      BY <1>1, <3>2, <3>3
  <2>4. QED
    BY <1>1, <1>3, <1>5, <1>6, <2>1, <2>2, <2>3 DEF ProcessedInOrder

\* The batches released by a withdrawal are the next ones, without a gap.
LEMMA OrderWithdraw ==
  ASSUME TypeOK, ProcessedInOrder, NEW u \in Users, WithdrawUnbonded(u)
  PROVE  ProcessedInOrder'
<1>1. /\ Len(history) \in Nat /\ DOMAIN history = 1..Len(history)
      /\ state \in State
  BY DEF TypeOK
<1>2. /\ history' = ProcessedHistory
      /\ batch' = batch /\ inflight' = inflight /\ now' = now
  BY DEF WithdrawUnbonded, chain
<1>3. /\ state'.last_processed_batch = LastProcessed
      /\ state'.last_unbonded_time = state.last_unbonded_time
  BY <1>1 DEF WithdrawUnbonded, State
<1>4. DOMAIN history' = DOMAIN history /\ Len(history') = Len(history)
  BY <1>2, ProcessedHistoryType
<1>5. LastProcessed \in Nat /\ LastProcessed <= Len(history)
  BY <1>1, LastProcessedBound DEF ProcessedInOrder
<1>6. ASSUME NEW b \in DOMAIN history
      PROVE  /\ history'[b].time = history[b].time
             /\ history'[b].released <=> b <= LastProcessed
  <2>1. history'[b].released <=> history[b].released \/ b \in NewlyFinished
    BY <1>2, ProcessedHistoryType
  <2>2. history[b].released <=> b <= state.last_processed_batch
    BY DEF ProcessedInOrder
  <2>3. b \in NewlyFinished <=> state.last_processed_batch < b /\ b <= LastProcessed
    BY LastProcessedBound
  <2>4. /\ b \in Nat /\ state.last_processed_batch \in Nat
        /\ state.last_processed_batch <= LastProcessed
    BY <1>1, LastProcessedBound DEF State
  <2>5. history'[b].released <=> b <= LastProcessed
    BY <1>5, <2>1, <2>2, <2>3, <2>4
  <2>6. QED
    BY <1>2, <2>5, ProcessedHistoryType
<1>7. QED
  BY <1>2, <1>3, <1>4, <1>5, <1>6 DEF ProcessedInOrder

\* Every step keeps the order of the batches.
LEMMA OrderStep ==
  ASSUME TypeOK, ProcessedInOrder, [Next]_vars
  PROVE  ProcessedInOrder'
<1>1. CASE \E u \in Users, amount \in Requests : UnbondAndUndelegate(u, amount)
  BY <1>1, OrderUndelegate
<1>2. CASE \E u \in Users : WithdrawUnbonded(u)
  BY <1>2, OrderWithdraw
<1>3. CASE /\ ~ \E u \in Users, amount \in Requests : UnbondAndUndelegate(u, amount)
           /\ ~ \E u \in Users : WithdrawUnbonded(u)
  <2>1. Schedule' = Schedule /\ now' \in Nat /\ now <= now'
    BY <1>3, ScheduleKept
  <2>2. state.last_unbonded_time \in Nat /\ now \in Nat
    BY DEF TypeOK, State
  <2>3. state'.last_unbonded_time <= now'
    BY <2>1, <2>2 DEF Schedule, ProcessedInOrder
  <2>4. QED
    BY <2>1, <2>3 DEF Schedule, ProcessedInOrder
<1>4. QED
  BY <1>1, <1>2, <1>3

-----------------------------------------------------------------------------
(***************************************************************************)
(* The types are not inductive alone: that the sequence of batches stays   *)
(* within MaxBatch needs batch.id to count them.                           *)
(***************************************************************************)
OrderInv == TypeOK /\ ProcessedInOrder

\* There is no batch to begin with.
LEMMA OrderInvInit ==
  Init => OrderInv
<1> SUFFICES ASSUME Init PROVE ProcessedInOrder /\ TypeOK
  BY DEF OrderInv
<1>1. TypeOK
  BY TypeInit
<1>2. Len(history) = 0 /\ Len(inflight) = 0 /\ DOMAIN history = {}
  BY DEF Init
<1>3. QED
  BY <1>1, <1>2 DEF Init, ProcessedInOrder

\* Every step keeps the types and the order together.
LEMMA OrderInvStep ==
  OrderInv /\ [Next]_vars => OrderInv'
  BY TypeStep, OrderStep DEF OrderInv

\* The types and the order hold in every reachable state.
LEMMA OrderInvAlways ==
  Spec => []OrderInv
<1>1. QED
  BY OrderInvInit, OrderInvStep, PTL DEF Spec

\* The storage of the hub, the supply and the coins always have their types:
\* no handler subtracts more than there is.
THEOREM TypeCorrect ==
  Spec => []TypeOK
<1>1. OrderInv => TypeOK
  BY DEF OrderInv
<1>2. QED
  BY <1>1, OrderInvAlways, PTL

\* process_withdraw_rate releases the batches one after the other, whatever
\* the owner does to the periods and whoever withdraws.
THEOREM ReleasedInOrder ==
  Spec => []ProcessedInOrder
<1>1. OrderInv => ProcessedInOrder
  BY DEF OrderInv
<1>2. QED
  BY <1>1, OrderInvAlways, PTL

\* A released batch is never processed again.
THEOREM RateIsFinal ==
  Spec => ReleasedForGood
<1> DEFINE Kept == \A b \in DOMAIN history : history[b].released => history'[b] = history[b]
<1>1. ASSUME OrderInv, [Next]_vars PROVE Kept
  <2>1. DOMAIN history = 1..Len(history) /\ Len(history) \in Nat /\ state \in State
    BY <1>1 DEF OrderInv, TypeOK
  <2>2. CASE \E u \in Users, amount \in Requests : UnbondAndUndelegate(u, amount)
    BY <1>1, <2>1, <2>2 DEF UnbondAndUndelegate, OrderInv, TypeOK
  <2>3. CASE \E u \in Users : WithdrawUnbonded(u)
    <3>1. history' = ProcessedHistory
      BY <2>3 DEF WithdrawUnbonded
    <3>2. SUFFICES ASSUME NEW b \in DOMAIN history, history[b].released
                   PROVE  history'[b] = history[b]
      OBVIOUS
    <3>3. b <= state.last_processed_batch
      BY <1>1, <3>2 DEF OrderInv, ProcessedInOrder
    <3>4. b \notin NewlyFinished
      BY <2>1, <3>3 DEF NewlyFinished, State
    <3>5. QED
      BY <1>1, <3>1, <3>4, ProcessedHistoryType DEF OrderInv
  <2>4. CASE /\ ~ \E u \in Users, amount \in Requests : UnbondAndUndelegate(u, amount)
             /\ ~ \E u \in Users : WithdrawUnbonded(u)
    BY <1>1, <2>4, ScheduleKept DEF OrderInv, Schedule
  <2>5. QED
    BY <2>2, <2>3, <2>4
<1>2. OrderInv /\ [Next]_vars => [Kept]_vars
  BY <1>1
<1>3. QED
  BY <1>2, OrderInvAlways, PTL DEF Spec, ReleasedForGood

-----------------------------------------------------------------------------
(***************************************************************************)
(* The money of the hub: what its books say against what is delegated, and *)
(* what the exchange rate promises against the books.                      *)
(***************************************************************************)
\* All the stAtom a rate has to be paid on.
Circulating == supply + batch.requested_statom

\* The rate in s values t stAtom at no more than is bonded.
Backed(s, t) ==
  /\ s.total_bond_statom_amount = 0 => t = 0
  /\ s.statom_exchange_rate * t <= s.total_bond_statom_amount * DECIMAL_FRACTIONAL

(***************************************************************************)
(* RateBacked and RateFallsOnlyAfterSlash are not inductive: they need     *)
(* that a delegation is never slashed to nothing unnoticed and that the    *)
(* rate starts over at one when the last stAtom goes.                      *)
(***************************************************************************)
RateInv ==
  ~TotalLoss =>
    /\ Backed(state, Circulating)
    /\ staked = 0 => state.total_bond_statom_amount = 0
    /\ Circulating = 0 /\ state.total_bond_statom_amount # 0 => state.statom_exchange_rate = One

BooksInv == OrderInv /\ BooksCoverStake /\ RateInv

-----------------------------------------------------------------------------
(***************************************************************************)
(* Arithmetic of a mint, of an undelegation and of a burn.                 *)
(***************************************************************************)
\* What is minted for a payment is worth no more than the payment.
LEMMA MintBacked ==
  ASSUME NEW rate \in Nat, NEW t \in Nat, NEW total \in Nat, NEW minted \in Nat,
         NEW payment \in Nat, NEW f \in Nat,
         rate * t <= total * f, rate * minted <= payment * f
  PROVE  rate * (t + minted) <= (total + payment) * f
<1>1. rate * (t + minted) = rate * t + rate * minted /\ (total + payment) * f = total * f + payment * f
  OBVIOUS
<1>2. rate * t \in Nat /\ rate * minted \in Nat /\ total * f \in Nat /\ payment * f \in Nat
  BY ProductType
<1> DEFINE a == rate * t  b == rate * minted  c == total * f  d == payment * f
<1>3. a \in Nat /\ b \in Nat /\ c \in Nat /\ d \in Nat /\ a <= c /\ b <= d
  BY <1>2
<1> HIDE DEF a, b, c, d
<1>4. a + b <= c + d
  BY <1>3
<1>5. QED
  BY <1>1, <1>4 DEF a, b, c, d

\* What is undelegated for a batch is worth no more than the batch, so the
\* rest of the coins backs the rest of the stAtom.
LEMMA UndelegationBacked ==
  ASSUME NEW rate \in Nat, NEW t \in Nat, NEW total \in Nat, NEW requested \in Nat,
         NEW coins \in Nat, NEW f \in Nat, requested <= t, coins <= total,
         rate * t <= total * f, f * coins <= requested * rate
  PROVE  rate * (t - requested) <= (total - coins) * f
<1>1. PICK rest \in Nat : t = requested + rest
  <2>1. t - requested \in Nat /\ t = requested + (t - requested)
    OBVIOUS
  <2>2. QED
    BY <2>1
<1>2. PICK left \in Nat : total = coins + left
  <2>1. total - coins \in Nat /\ total = coins + (total - coins)
    OBVIOUS
  <2>2. QED
    BY <2>1
<1>3. t - requested = rest /\ total - coins = left
  BY <1>1, <1>2
<1>4. rate * t = rate * requested + rate * rest /\ total * f = f * coins + left * f
        /\ requested * rate = rate * requested
  BY <1>1, <1>2
<1>5. rate * requested \in Nat /\ rate * rest \in Nat /\ f * coins \in Nat /\ left * f \in Nat
  BY ProductType
<1> DEFINE a == rate * requested  b == rate * rest  c == f * coins  d == left * f
<1>6. a \in Nat /\ b \in Nat /\ c \in Nat /\ d \in Nat /\ a + b <= c + d /\ c <= a
  BY <1>4, <1>5
<1> HIDE DEF a, b, c, d
<1>7. b <= d
  BY <1>6
<1>8. QED
  BY <1>3, <1>7 DEF b, d

\* Less stAtom needs no more coins.
LEMMA BurnBacked ==
  ASSUME NEW s \in State, NEW t \in Nat, NEW u \in Nat, u <= t, Backed(s, t)
  PROVE  Backed(s, u)
<1> DEFINE r == s.statom_exchange_rate
           c == s.total_bond_statom_amount * DECIMAL_FRACTIONAL
<1>1. r \in Nat /\ c \in Nat
  BY ProductType, ScaleAssumption DEF State
<1>2. r * u <= r * t
  BY <1>1, ProductMonotone
<1>3. r * t <= c
  BY DEF Backed
<1>4. r * u \in Nat /\ r * t \in Nat
  BY <1>1, ProductType
<1>5. r * u <= c
  <2> DEFINE x == r * u  y == r * t
  <2>1. x \in Nat /\ y \in Nat /\ x <= y /\ y <= c
    BY <1>2, <1>3, <1>4
  <2> HIDE DEF x, y, c
  <2>2. x <= c
    BY <1>1, <2>1
  <2>3. QED
    BY <2>2 DEF x
<1>6. s.total_bond_statom_amount = 0 => u = 0
  BY DEF Backed
<1>7. QED
  BY <1>5, <1>6 DEF Backed

-----------------------------------------------------------------------------
(***************************************************************************)
(* What a check for slashing achieves.                                     *)
(***************************************************************************)
\* The books become exactly what is delegated.
LEMMA SyncedBooks ==
  ASSUME NEW s \in State, NEW stake \in Nat, NEW records,
         NEW issued \in Nat, NEW requested \in Nat,
         stake <= s.total_bond_statom_amount,
         ~records => s.total_bond_statom_amount = 0
  PROVE  Synced(s, stake, records, issued, requested).total_bond_statom_amount = stake
<1>1. s.total_bond_statom_amount \in Nat
  BY DEF State
<1>2. CASE ~records \/ s.total_bond_statom_amount = 0
  <2>1. s.total_bond_statom_amount = 0
    BY <1>2
  <2>2. Synced(s, stake, records, issued, requested) = s
    BY <1>2 DEF Synced
  <2>3. QED
    BY <1>1, <2>1, <2>2
<1>3. CASE ~(~records \/ s.total_bond_statom_amount = 0)
  <2>1. Least(s.total_bond_statom_amount, stake) = stake
    BY <1>1 DEF Least
  <2>2. QED
    BY <1>3, <2>1 DEF Synced, State
<1>4. QED
  BY <1>2, <1>3

\* The rate becomes one that is backed, and one when nothing is issued.
LEMMA SyncedBacked ==
  ASSUME NEW s \in State, NEW stake \in Nat, NEW records,
         NEW issued \in Nat, NEW requested \in Nat,
         stake <= s.total_bond_statom_amount,
         ~records => s.total_bond_statom_amount = 0,
         stake = 0 => s.total_bond_statom_amount = 0,
         Backed(s, issued + requested)
  PROVE  LET new == Synced(s, stake, records, issued, requested)
         IN  /\ Backed(new, issued + requested)
             /\ issued + requested = 0 /\ new.total_bond_statom_amount # 0
                  => new.statom_exchange_rate = One
<1> DEFINE new == Synced(s, stake, records, issued, requested)
<1>1. CASE ~records \/ s.total_bond_statom_amount = 0
  BY <1>1 DEF Synced
<1>2. CASE ~(~records \/ s.total_bond_statom_amount = 0)
  <2>1. new.total_bond_statom_amount = stake
    BY SyncedBooks
  <2>2. new.statom_exchange_rate = ExchangeRate(stake, issued, requested)
    <3>1. Least(s.total_bond_statom_amount, stake) = stake
      BY DEF Least, State
    <3>2. QED
      BY <1>2, <3>1 DEF Synced, State
  <2>3. stake # 0
    BY <1>2
  <2> HIDE DEF new
  <2>4. ExchangeRate(stake, issued, requested) * (issued + requested)
          <= stake * DECIMAL_FRACTIONAL
    BY <2>3, ExchangeRateBound
  <2>5. issued + requested = 0 => ExchangeRate(stake, issued, requested) = One
    BY DEF ExchangeRate
  <2>6. QED
    BY <2>1, <2>2, <2>3, <2>4, <2>5 DEF Backed, new
<1>3. QED
  BY <1>1, <1>2

\* Without a loss to book, the rate does not fall.
LEMMA SyncedRises ==
  ASSUME NEW s \in State, NEW stake \in Nat, NEW records,
         NEW issued \in Nat, NEW requested \in Nat,
         stake = s.total_bond_statom_amount,
         Backed(s, issued + requested), issued + requested # 0
  PROVE  s.statom_exchange_rate <= Synced(s, stake, records, issued, requested).statom_exchange_rate
<1>1. s.statom_exchange_rate \in Nat /\ s.total_bond_statom_amount \in Nat
  BY DEF State
<1>2. CASE ~records \/ s.total_bond_statom_amount = 0
  BY <1>1, <1>2 DEF Synced
<1>3. CASE ~(~records \/ s.total_bond_statom_amount = 0)
  <2>1. Least(s.total_bond_statom_amount, stake) = stake
    BY <1>1 DEF Least
  <2>2. Synced(s, stake, records, issued, requested).statom_exchange_rate
          = ExchangeRate(stake, issued, requested)
    BY <1>3, <2>1 DEF Synced, State
  <2>3. s.statom_exchange_rate <= ExchangeRate(stake, issued, requested)
    BY <1>1, <1>3, ExchangeRateGreatest DEF Backed
  <2>4. QED
    BY <2>2, <2>3
<1>4. QED
  BY <1>2, <1>3

\* The amounts the books and the rate are about are natural numbers.
LEMMA CirculatingType ==
  ASSUME TypeOK
  PROVE  /\ Circulating \in Nat /\ supply \in Nat /\ batch.requested_statom \in Nat
         /\ staked \in Nat /\ delegated \in BOOLEAN /\ state \in State
         /\ state.total_bond_statom_amount \in Nat /\ state.statom_exchange_rate \in Nat
  BY DEF Circulating, TypeOK, CurrentBatch, State

\* What a handler works on after it has called slashing.
LEMMA ActualBooks ==
  ASSUME BooksInv
  PROVE  /\ ActualState \in State
         /\ ActualState.total_bond_statom_amount = staked
         /\ ~TotalLoss =>
              /\ Backed(ActualState, Circulating)
              /\ Circulating = 0 /\ staked # 0 => ActualState.statom_exchange_rate = One
              /\ staked = state.total_bond_statom_amount
                   => state.statom_exchange_rate <= ActualState.statom_exchange_rate
<1>1. TypeOK
  BY DEF BooksInv, OrderInv
<1>2. staked <= state.total_bond_statom_amount
        /\ (~delegated => state.total_bond_statom_amount = 0)
  BY DEF BooksInv, BooksCoverStake
<1>3. ActualState \in State /\ ActualState.total_bond_statom_amount = staked
  BY <1>1, <1>2, ActualStateType, CirculatingType, SyncedBooks DEF ActualState
<1>4. ASSUME ~TotalLoss
      PROVE  /\ Backed(ActualState, Circulating)
             /\ Circulating = 0 /\ staked # 0 => ActualState.statom_exchange_rate = One
             /\ staked = state.total_bond_statom_amount
                  => state.statom_exchange_rate <= ActualState.statom_exchange_rate
  <2>1. /\ Backed(state, Circulating)
        /\ staked = 0 => state.total_bond_statom_amount = 0
        /\ Circulating = 0 /\ state.total_bond_statom_amount # 0
             => state.statom_exchange_rate = One
    BY <1>4 DEF BooksInv, RateInv
  <2>2. Backed(ActualState, Circulating)
          /\ (Circulating = 0 /\ ActualState.total_bond_statom_amount # 0
                => ActualState.statom_exchange_rate = One)
    <3>1. /\ state \in State /\ staked \in Nat /\ supply \in Nat
          /\ batch.requested_statom \in Nat
      BY <1>1, CirculatingType
    <3>2. Backed(state, supply + batch.requested_statom)
      BY <2>1 DEF Circulating
    <3>3. LET new == Synced(state, staked, delegated, supply, batch.requested_statom)
          IN  /\ Backed(new, supply + batch.requested_statom)
              /\ supply + batch.requested_statom = 0 /\ new.total_bond_statom_amount # 0
                   => new.statom_exchange_rate = One
      BY <1>2, <2>1, <3>1, <3>2, SyncedBacked
    <3>4. QED
      BY <3>3 DEF ActualState, Circulating
  <2>3. ASSUME staked = state.total_bond_statom_amount
        PROVE  state.statom_exchange_rate <= ActualState.statom_exchange_rate
    <3>1. CASE Circulating # 0
      BY <1>1, <2>1, <2>3, <3>1, CirculatingType, SyncedRises DEF ActualState, Circulating
    <3>2. CASE Circulating = 0 /\ staked # 0
      BY <1>1, <1>3, <2>1, <2>2, <2>3, <3>2, CirculatingType
    <3>3. CASE staked = 0
      BY <1>1, <2>3, <3>3, CirculatingType DEF ActualState, Synced
    <3>4. QED
      BY <3>1, <3>2, <3>3
  <2>4. QED
    BY <1>3, <2>2, <2>3
<1>5. QED
  BY <1>3, <1>4

-----------------------------------------------------------------------------
(***************************************************************************)
(* One lemma per transaction and step of the chain.                        *)
(***************************************************************************)
\* The steps RateFallsOnlyAfterSlash and PricedAfterSlashing allow.
RateHolds ==
  ~TotalLoss /\ state'.statom_exchange_rate < state.statom_exchange_rate
    => \/ staked < state.total_bond_statom_amount
       \/ supply' + batch'.requested_statom = 0

Priced ==
  supply' # supply \/ batch' # batch => state'.total_bond_statom_amount = staked'

BooksKept == BooksCoverStake' /\ RateInv' /\ RateHolds /\ Priced

\* Bond raises the books and the delegation alike, and mints at a rate that
\* stays backed.
LEMMA BooksBond ==
  ASSUME BooksInv, NEW payment \in Payments, Bond(payment)
  PROVE  BooksKept
<1> DEFINE s == ActualState
           minted == DecimalDivision(payment, s.statom_exchange_rate)
<1>1. /\ s \in State
      /\ s.total_bond_statom_amount = staked
      /\ ~TotalLoss =>
           /\ Backed(s, Circulating)
           /\ staked = state.total_bond_statom_amount
                => state.statom_exchange_rate <= s.statom_exchange_rate
  BY ActualBooks
<1>2. /\ s.statom_exchange_rate # 0
      /\ minted > 0
      /\ state' = [s EXCEPT !.total_bond_statom_amount = @ + payment]
      /\ staked' = staked + payment
      /\ delegated' = TRUE
      /\ supply' = supply + minted
      /\ batch' = batch
  BY DEF Bond
<1>3. payment \in Nat \ {0} /\ TypeOK
  BY HubAssumption DEF BooksInv, OrderInv
<1> HIDE DEF s
<1>4. minted \in Nat /\ s.statom_exchange_rate * minted <= payment * DECIMAL_FRACTIONAL
  BY <1>1, <1>2, <1>3, DecimalDivisionBound DEF State
<1> HIDE DEF minted
<1>5. state'.total_bond_statom_amount = staked + payment
        /\ state'.statom_exchange_rate = s.statom_exchange_rate
  BY <1>1, <1>2 DEF State
<1>6. staked \in Nat /\ supply \in Nat /\ batch.requested_statom \in Nat /\ Circulating \in Nat
        /\ s.statom_exchange_rate \in Nat /\ state.total_bond_statom_amount \in Nat
        /\ state.statom_exchange_rate \in Nat
  BY <1>1, <1>3, CirculatingType DEF State
<1>7. staked' # 0 /\ Circulating' = Circulating + minted
  BY <1>2, <1>3, <1>4, <1>6 DEF Circulating
<1>8. BooksCoverStake' /\ Priced
  BY <1>2, <1>3, <1>5, <1>6 DEF BooksCoverStake, Priced
<1>9. ASSUME ~TotalLoss PROVE RateInv' /\ RateHolds
  <2>1. s.statom_exchange_rate * (Circulating + minted)
          <= (staked + payment) * DECIMAL_FRACTIONAL
    BY <1>1, <1>3, <1>4, <1>6, <1>9, MintBacked, ScaleAssumption DEF Backed
  <2>2. Backed(state', Circulating')
    BY <1>3, <1>5, <1>6, <1>7, <2>1 DEF Backed
  <2>3. Circulating' # 0
    BY <1>2, <1>4, <1>6, <1>7
  <2>4. RateInv'
    BY <1>7, <2>2, <2>3 DEF RateInv
  <2>5. staked <= state.total_bond_statom_amount
    BY DEF BooksInv, BooksCoverStake
  <2>6. RateHolds
    BY <1>1, <1>5, <1>6, <1>9, <2>5 DEF RateHolds
  <2>7. QED
    BY <2>4, <2>6
<1>10. QED
  BY <1>8, <1>9 DEF BooksKept, RateInv, RateHolds

\* BondRewards recomputes the rate: nothing is minted, so it only rises.  The
\* supply it uses is 0 only where the supply is 0.
LEMMA BooksBondRewards ==
  ASSUME BooksInv, NEW payment \in Rewards, BondRewards(payment)
  PROVE  BooksKept
<1> DEFINE s == ActualState
           bonded == s.total_bond_statom_amount + payment
           rate == ExchangeRate(bonded, TotalIssued, batch.requested_statom)
<1>1. /\ s \in State
      /\ s.total_bond_statom_amount = staked
      /\ ~TotalLoss =>
           /\ Backed(s, Circulating)
           /\ staked = state.total_bond_statom_amount
                => state.statom_exchange_rate <= s.statom_exchange_rate
  BY ActualBooks
<1>2. /\ state' = [s EXCEPT !.total_bond_statom_amount = bonded, !.statom_exchange_rate = rate]
      /\ staked' = staked + payment
      /\ delegated' = TRUE
      /\ supply' = supply
      /\ batch' = batch
  BY DEF BondRewards
<1>3. payment \in Nat \ {0} /\ TypeOK
  BY HubAssumption DEF BooksInv, OrderInv
<1> HIDE DEF s
<1>4. bonded = staked + payment
  BY <1>1
<1> HIDE DEF bonded, rate
<1>5. state'.total_bond_statom_amount = bonded /\ state'.statom_exchange_rate = rate
  BY <1>1, <1>2 DEF State
<1>6. staked \in Nat /\ supply \in Nat /\ batch.requested_statom \in Nat /\ Circulating \in Nat
        /\ s.statom_exchange_rate \in Nat /\ state.total_bond_statom_amount \in Nat
        /\ state.statom_exchange_rate \in Nat
  BY <1>1, <1>3, CirculatingType DEF State
<1>7. bonded \in Nat \ {0} /\ staked' = bonded /\ Circulating' = Circulating
  BY <1>2, <1>3, <1>4, <1>6 DEF Circulating
<1>8. BooksCoverStake' /\ Priced
  BY <1>2, <1>5, <1>7 DEF BooksCoverStake, Priced
<1>9. ASSUME ~TotalLoss PROVE RateInv' /\ RateHolds
  <2>1. TotalIssued = supply
    <3>1. CASE ~delegated \/ state.total_bond_statom_amount = 0
      <4>1. state.total_bond_statom_amount = 0
        BY <3>1 DEF BooksInv, BooksCoverStake
      <4>2. Circulating = 0
        BY <1>9, <4>1 DEF BooksInv, RateInv, Backed
      <4>3. QED
        BY <1>6, <3>1, <4>2 DEF Circulating, TotalIssued
    <3>2. QED
      BY <3>1 DEF TotalIssued
  <2>2. rate = ExchangeRate(bonded, supply, batch.requested_statom)
    BY <2>1 DEF rate
  <2>3. rate * Circulating <= bonded * DECIMAL_FRACTIONAL
    BY <1>6, <1>7, <2>2, ExchangeRateBound DEF Circulating
  <2>4. Backed(state', Circulating')
    BY <1>5, <1>7, <2>3 DEF Backed
  <2>5. Circulating = 0 => rate = One
    BY <2>2 DEF Circulating, ExchangeRate
  <2>6. RateInv'
    BY <1>5, <1>7, <2>4, <2>5 DEF RateInv
  <2>7. Circulating # 0 => s.statom_exchange_rate <= rate
    <3>1. SUFFICES ASSUME Circulating # 0 PROVE s.statom_exchange_rate <= rate
      OBVIOUS
    <3>2. s.statom_exchange_rate * Circulating <= staked * DECIMAL_FRACTIONAL
      BY <1>1, <1>9 DEF Backed
    <3>3. s.statom_exchange_rate * Circulating <= bonded * DECIMAL_FRACTIONAL
      <4>1. s.statom_exchange_rate * (Circulating + 0)
              <= (staked + payment) * DECIMAL_FRACTIONAL
        BY <1>3, <1>6, <3>2, MintBacked, ScaleAssumption
      <4>2. QED
        BY <1>4, <1>6, <4>1
    <3>4. QED
      BY <1>6, <1>7, <2>2, <3>1, <3>3, ExchangeRateGreatest DEF Circulating
  <2>8. staked <= state.total_bond_statom_amount
    BY DEF BooksInv, BooksCoverStake
  <2>9. rate \in Nat
    BY <1>6, <1>7, <2>2, ExchangeRateType
  <2>10. RateHolds
    BY <1>1, <1>2, <1>5, <1>6, <1>9, <2>7, <2>8, <2>9 DEF RateHolds, Circulating
  <2>11. QED
    BY <2>6, <2>10
<1>10. QED
  BY <1>8, <1>9 DEF BooksKept, RateInv, RateHolds

\* A step that ends with a check for slashing, from books s that are backed
\* for the stAtom left.
LEMMA BooksAfterCheck ==
  ASSUME TypeOK, TypeOK', NEW s \in State,
         state' = Synced(s, staked', delegated', supply', batch'.requested_statom),
         staked' <= s.total_bond_statom_amount,
         ~delegated' => s.total_bond_statom_amount = 0,
         ~TotalLoss => /\ Backed(s, Circulating')
                       /\ staked' = 0 => s.total_bond_statom_amount = 0
  PROVE  BooksCoverStake' /\ RateInv' /\ Priced
<1>1. /\ staked' \in Nat /\ supply' \in Nat /\ batch'.requested_statom \in Nat
  BY DEF TypeOK, CurrentBatch
<1>2. state'.total_bond_statom_amount = staked'
  BY <1>1, SyncedBooks
<1>3. BooksCoverStake' /\ Priced
  <2>1. ~delegated' => staked' = 0
    BY <1>1
  <2>2. QED
    BY <1>1, <1>2, <2>1 DEF BooksCoverStake, Priced
<1>4. ASSUME ~TotalLoss PROVE RateInv'
  <2>1. Backed(s, supply' + batch'.requested_statom)
    BY <1>4 DEF Circulating
  <2>2. LET new == Synced(s, staked', delegated', supply', batch'.requested_statom)
        IN  /\ Backed(new, supply' + batch'.requested_statom)
            /\ supply' + batch'.requested_statom = 0 /\ new.total_bond_statom_amount # 0
                 => new.statom_exchange_rate = One
    BY <1>1, <1>4, <2>1, SyncedBacked
  <2>3. Backed(state', Circulating')
    BY <2>2 DEF Circulating
  <2>4. Circulating' = 0 /\ state'.total_bond_statom_amount # 0
          => state'.statom_exchange_rate = One
    BY <2>2 DEF Circulating
  <2>5. QED
    BY <1>2, <2>3, <2>4 DEF RateInv
<1>5. QED
  BY <1>3, <1>4 DEF RateInv

\* Such a step does not lower the rate unless it has a loss to book.
LEMMA RateAfterCheck ==
  ASSUME TypeOK, TypeOK', NEW s \in State,
         state' = Synced(s, staked', delegated', supply', batch'.requested_statom),
         staked' = s.total_bond_statom_amount, Backed(s, Circulating'),
         Circulating' # 0
  PROVE  s.statom_exchange_rate <= state'.statom_exchange_rate
<1>1. staked' \in Nat /\ supply' \in Nat /\ batch'.requested_statom \in Nat
  BY DEF TypeOK, CurrentBatch
<1>2. QED
  BY <1>1, SyncedRises DEF Circulating

\* A request moves stAtom from the supply to the batch, at the same rate.
LEMMA BooksUnbond ==
  ASSUME BooksInv, TypeOK', NEW u \in Users, NEW amount \in Requests, Unbond(u, amount)
  PROVE  BooksKept
<1>1. /\ TypeOK
      /\ staked <= state.total_bond_statom_amount
      /\ ~delegated => state.total_bond_statom_amount = 0
  BY DEF BooksInv, OrderInv, BooksCoverStake
<1>2. /\ state' = Synced(ActualState, staked', delegated', supply', batch'.requested_statom)
      /\ staked' = staked /\ delegated' = delegated
      /\ Circulating' = Circulating
  <2>1. /\ batch \in CurrentBatch /\ supply \in Nat /\ amount \in Nat
        /\ batch' = [batch EXCEPT !.requested_statom = batch.requested_statom + amount]
        /\ supply' = supply - amount
        /\ state' = Synced(ActualState, staked, delegated, supply - amount,
                           batch.requested_statom + amount)
        /\ UNCHANGED <<staked, delegated>>
    BY <1>1, HubAssumption DEF Unbond, chain, TypeOK
  <2>2. batch'.requested_statom = batch.requested_statom + amount
          /\ batch.requested_statom \in Nat
    BY <2>1 DEF CurrentBatch
  <2>3. QED
    BY <2>1, <2>2 DEF Circulating
<1>3. ActualState \in State /\ ActualState.total_bond_statom_amount = staked
        /\ staked \in Nat /\ state.total_bond_statom_amount \in Nat
        /\ state.statom_exchange_rate \in Nat /\ ActualState.statom_exchange_rate \in Nat
        /\ state' \in State
  BY <1>1, ActualBooks, CirculatingType DEF State, TypeOK
<1>4. BooksCoverStake' /\ RateInv' /\ Priced
  BY <1>1, <1>2, <1>3, ActualBooks, BooksAfterCheck
<1>5. RateHolds
  <2>1. SUFFICES ASSUME ~TotalLoss, staked = state.total_bond_statom_amount, Circulating' # 0
                 PROVE  state.statom_exchange_rate <= state'.statom_exchange_rate
    BY <1>1, <1>3 DEF RateHolds, Circulating, State
  <2>2. ActualState.statom_exchange_rate <= state'.statom_exchange_rate
    BY <1>1, <1>2, <1>3, <2>1, ActualBooks, RateAfterCheck
  <2>3. state.statom_exchange_rate <= ActualState.statom_exchange_rate
    BY <2>1, ActualBooks
  <2>4. QED
    BY <1>3, <2>2, <2>3 DEF State
<1>6. QED
  BY <1>4, <1>5 DEF BooksKept

\* An undelegation takes no more coins than the batch is worth.
LEMMA BooksUnbondAndUndelegate ==
  ASSUME BooksInv, TypeOK', NEW u \in Users, NEW amount \in Requests,
         UnbondAndUndelegate(u, amount)
  PROVE  BooksKept
<1> DEFINE s == ActualState
           requested == batch.requested_statom + amount
           undelegated == Times(requested, s.statom_exchange_rate)
           reduced == [s EXCEPT !.total_bond_statom_amount = @ - undelegated,
                                !.last_unbonded_time = now]
<1>1. /\ TypeOK
      /\ staked <= state.total_bond_statom_amount
  BY DEF BooksInv, OrderInv, BooksCoverStake
<1>2. /\ amount <= supply
      /\ supply' = supply - amount
      /\ undelegated <= staked
      /\ batch' = [id |-> batch.id + 1, requested_statom |-> 0]
      /\ staked' = staked - undelegated
      /\ delegated' \in {staked' > 0, TRUE}
      /\ state' = Synced(reduced, staked', delegated', supply - amount, 0)
  BY DEF UnbondAndUndelegate
<1>3. /\ s \in State
      /\ s.total_bond_statom_amount = staked
      /\ ~TotalLoss =>
           /\ Backed(s, Circulating)
           /\ staked = state.total_bond_statom_amount
                => state.statom_exchange_rate <= s.statom_exchange_rate
  BY ActualBooks
<1>4. /\ staked \in Nat /\ supply \in Nat /\ batch.requested_statom \in Nat /\ amount \in Nat
      /\ s.statom_exchange_rate \in Nat /\ requested \in Nat /\ state' \in State /\ now \in Nat
      /\ state.statom_exchange_rate \in Nat /\ state.total_bond_statom_amount \in Nat
  <2>1. staked \in Nat /\ supply \in Nat /\ batch.requested_statom \in Nat /\ amount \in Nat
          /\ state.statom_exchange_rate \in Nat /\ state.total_bond_statom_amount \in Nat
    BY <1>1, CirculatingType, HubAssumption
  <2>2. state' \in State /\ now \in Nat
    BY <1>1 DEF TypeOK
  <2>3. s.statom_exchange_rate \in Nat
    BY <1>3 DEF State
  <2>4. QED
    BY <2>1, <2>2, <2>3
<1> HIDE DEF s
<1>5. undelegated \in Nat
        /\ DECIMAL_FRACTIONAL * undelegated <= requested * s.statom_exchange_rate
  BY <1>4, TimesBound
<1>6. requested <= Circulating /\ Circulating' = Circulating - requested /\ Circulating \in Nat
  BY <1>2, <1>4 DEF Circulating
<1> HIDE DEF requested, undelegated
<1>7. /\ reduced \in State
      /\ reduced.total_bond_statom_amount = staked'
      /\ reduced.statom_exchange_rate = s.statom_exchange_rate
  <2>1. staked - undelegated \in Nat
    BY <1>2, <1>4, <1>5
  <2>2. QED
    BY <1>2, <1>3, <1>4, <2>1 DEF State
<1>8. ASSUME ~TotalLoss PROVE Backed(reduced, Circulating')
  <2>1. s.statom_exchange_rate * (Circulating - requested)
          <= (staked - undelegated) * DECIMAL_FRACTIONAL
    BY <1>2, <1>3, <1>4, <1>5, <1>6, <1>8, UndelegationBacked, ScaleAssumption DEF Backed
  <2>2. ASSUME staked' = 0 PROVE Circulating' = 0
    <3>1. CASE s.statom_exchange_rate = 0
      <4>1. DECIMAL_FRACTIONAL * undelegated <= 0
        BY <1>4, <1>5, <3>1
      <4>2. undelegated = 0
        BY <1>5, <4>1, ScaleAssumption
      <4>3. Circulating = 0
        BY <1>2, <1>3, <1>4, <1>8, <2>2, <4>2 DEF Backed
      <4>4. QED
        BY <1>4, <1>6, <4>3
    <3>2. CASE s.statom_exchange_rate # 0
      <4>1. s.statom_exchange_rate * (Circulating - requested) <= 0
        BY <1>2, <1>4, <1>5, <2>1, <2>2, ScaleAssumption
      <4>2. Circulating - requested \in Nat
        BY <1>4, <1>6
      <4>3. QED
        BY <1>4, <1>6, <3>2, <4>1, <4>2
    <3>3. QED
      BY <3>1, <3>2
  <2> HIDE DEF reduced
  <2>3. QED
    BY <1>2, <1>6, <1>7, <2>1, <2>2 DEF Backed
<1>9. state' = Synced(reduced, staked', delegated', supply', batch'.requested_statom)
  BY <1>2
<1>10. ~delegated' => staked' = 0
  <2>1. staked' \in Nat
    BY <1>2, <1>4, <1>5
  <2>2. delegated' = (staked' > 0) \/ delegated' = TRUE
    BY <1>2
  <2>3. staked' # 0 => staked' > 0
    BY <2>1
  <2>4. staked' # 0 => delegated' = TRUE
    BY <2>2, <2>3
  <2>5. QED
    BY <2>4
<1> HIDE DEF reduced
<1>11. staked' \in Nat
  BY <1>2, <1>4, <1>5
<1>12. BooksCoverStake' /\ RateInv' /\ Priced
  BY <1>1, <1>7, <1>8, <1>9, <1>10, <1>11, BooksAfterCheck
<1>13. RateHolds
  <2>1. SUFFICES ASSUME ~TotalLoss, staked = state.total_bond_statom_amount, Circulating' # 0
                 PROVE  state.statom_exchange_rate <= state'.statom_exchange_rate
    BY <1>1, <1>4 DEF RateHolds, Circulating, State
  <2>2. reduced.statom_exchange_rate <= state'.statom_exchange_rate
    BY <1>1, <1>7, <1>8, <1>9, <2>1, RateAfterCheck
  <2>3. QED
    BY <1>3, <1>4, <1>7, <2>1, <2>2 DEF State
<1>14. QED
  BY <1>12, <1>13 DEF BooksKept

\* A burn leaves the same coins to less stAtom.
LEMMA BooksBurn ==
  ASSUME BooksInv, TypeOK', NEW amount \in Requests, Burn(amount)
  PROVE  BooksKept
<1>1. /\ TypeOK
      /\ staked <= state.total_bond_statom_amount
      /\ ~delegated => state.total_bond_statom_amount = 0
  BY DEF BooksInv, OrderInv, BooksCoverStake
<1>2. /\ amount \in Nat /\ amount <= supply
      /\ supply' = supply - amount
      /\ state' = Synced(state, staked', delegated', supply', batch'.requested_statom)
      /\ staked' = staked /\ delegated' = delegated /\ batch' = batch
  BY HubAssumption DEF Burn, chain
<1>3. /\ staked \in Nat /\ supply \in Nat /\ batch.requested_statom \in Nat
      /\ state \in State /\ state' \in State /\ Circulating \in Nat
      /\ state.total_bond_statom_amount \in Nat
  BY <1>1, CirculatingType DEF TypeOK
<1>4. Circulating' \in Nat /\ Circulating' <= Circulating
  BY <1>2, <1>3 DEF Circulating
<1>5. ASSUME ~TotalLoss
      PROVE  Backed(state, Circulating') /\ (staked' = 0 => state.total_bond_statom_amount = 0)
  BY <1>2, <1>3, <1>4, <1>5, BurnBacked DEF BooksInv, RateInv
<1>6. BooksCoverStake' /\ RateInv' /\ Priced
  BY <1>1, <1>2, <1>3, <1>5, BooksAfterCheck
<1>7. RateHolds
  <2>1. SUFFICES ASSUME ~TotalLoss, staked = state.total_bond_statom_amount, Circulating' # 0
                 PROVE  state.statom_exchange_rate <= state'.statom_exchange_rate
    BY <1>1, <1>3 DEF RateHolds, Circulating, State
  <2>2. QED
    BY <1>1, <1>2, <1>3, <1>5, <2>1, RateAfterCheck
<1>8. QED
  BY <1>6, <1>7 DEF BooksKept

\* CheckSlashing books the losses, and that is all.
LEMMA BooksCheckSlashing ==
  ASSUME BooksInv, TypeOK', CheckSlashing
  PROVE  BooksKept
<1>1. /\ TypeOK
      /\ staked <= state.total_bond_statom_amount
      /\ ~delegated => state.total_bond_statom_amount = 0
  BY DEF BooksInv, OrderInv, BooksCoverStake
<1>2. /\ state' = Synced(state, staked', delegated', supply', batch'.requested_statom)
      /\ state' = ActualState
      /\ staked' = staked /\ delegated' = delegated /\ batch' = batch /\ supply' = supply
      /\ Circulating' = Circulating
  BY DEF CheckSlashing, ActualState, chain, Circulating
<1>3. /\ staked \in Nat /\ state \in State /\ state' \in State
      /\ state.total_bond_statom_amount \in Nat
  BY <1>1, CirculatingType DEF TypeOK
<1>4. BooksCoverStake' /\ RateInv' /\ Priced
  BY <1>1, <1>2, <1>3, BooksAfterCheck DEF BooksInv, RateInv
<1>5. RateHolds
  BY <1>1, <1>2, <1>3, ActualBooks DEF RateHolds, State
<1>6. QED
  BY <1>4, <1>5 DEF BooksKept

\* A step that touches neither the stAtom nor the delegations.
LEMMA BooksUntouched ==
  ASSUME BooksInv,
         state'.total_bond_statom_amount = state.total_bond_statom_amount,
         state'.statom_exchange_rate = state.statom_exchange_rate,
         UNCHANGED <<supply, batch, staked, delegated>>
  PROVE  BooksKept
<1>1. state.statom_exchange_rate \in Nat
  BY CirculatingType DEF BooksInv, OrderInv
<1>2. QED
  BY <1>1 DEF BooksInv, BooksKept, BooksCoverStake, RateInv, RateHolds, Priced, Backed, Circulating

\* A slash lowers what is delegated under what is booked.
LEMMA BooksSlashStake ==
  ASSUME BooksInv, NEW loss \in StakeLosses, SlashStake(loss)
  PROVE  BooksKept
<1>1. /\ loss \in Nat \ {0}
      /\ staked' = staked - loss /\ loss <= staked
      /\ ~TotalLoss => loss < staked
      /\ UNCHANGED <<state, supply, batch, delegated>>
  <2>1. loss \in Nat \ {0} /\ staked \in Nat
    BY HubAssumption, CirculatingType DEF BooksInv, OrderInv
  <2>2. QED
    BY <2>1 DEF SlashStake
<1>2. staked \in Nat /\ state.total_bond_statom_amount \in Nat
        /\ state.statom_exchange_rate \in Nat
  BY CirculatingType DEF BooksInv, OrderInv
<1>3. BooksCoverStake'
  BY <1>1, <1>2 DEF BooksInv, BooksCoverStake
<1>4. RateInv'
  <2>1. Circulating' = Circulating
    BY <1>1 DEF Circulating
  <2>2. ~TotalLoss => staked' # 0
    BY <1>1, <1>2
  <2>3. QED
    BY <1>1, <2>1, <2>2 DEF BooksInv, RateInv, Backed
<1>5. RateHolds /\ Priced
  BY <1>1, <1>2 DEF RateHolds, Priced
<1>6. QED
  BY <1>3, <1>4, <1>5 DEF BooksKept

\* Every step keeps the strengthened invariant and satisfies both action
\* properties.
LEMMA BooksStep ==
  ASSUME BooksInv, [Next]_vars
  PROVE  BooksInv' /\ RateHolds /\ Priced
<1>1. OrderInv' /\ TypeOK' /\ state \in State
  BY OrderInvStep DEF BooksInv, OrderInv, TypeOK
<1>2. CASE \E payment \in Payments : Bond(payment)
  BY <1>1, <1>2, BooksBond DEF BooksInv, BooksKept
<1>3. CASE \E payment \in Rewards : BondRewards(payment)
  BY <1>1, <1>3, BooksBondRewards DEF BooksInv, BooksKept
<1>4. CASE \E u \in Users, amount \in Requests : Unbond(u, amount)
  BY <1>1, <1>4, BooksUnbond DEF BooksInv, BooksKept
<1>5. CASE \E u \in Users, amount \in Requests : UnbondAndUndelegate(u, amount)
  BY <1>1, <1>5, BooksUnbondAndUndelegate DEF BooksInv, BooksKept
<1>6. CASE \E amount \in Requests : Burn(amount)
  BY <1>1, <1>6, BooksBurn DEF BooksInv, BooksKept
<1>7. CASE CheckSlashing
  BY <1>1, <1>7, BooksCheckSlashing DEF BooksInv, BooksKept
<1>8. CASE \E u \in Users : WithdrawUnbonded(u)
  <2>1. PICK u \in Users : WithdrawUnbonded(u)
    BY <1>8
  <2>2. state'.total_bond_statom_amount = state.total_bond_statom_amount
          /\ state'.statom_exchange_rate = state.statom_exchange_rate
    BY <1>1, <2>1 DEF WithdrawUnbonded, State
  <2>3. UNCHANGED <<supply, batch, staked, delegated>>
    BY <2>1 DEF WithdrawUnbonded, chain
  <2>4. QED
    BY <1>1, <2>2, <2>3, BooksUntouched DEF BooksInv, BooksKept
<1>9. CASE OwnerTx
  <2>1. UNCHANGED <<state, supply, batch, staked, delegated>>
    BY <1>9 DEF OwnerTx, UpdateParams, Pause, Unpause, chain
  <2>2. QED
    BY <1>1, <2>1, BooksUntouched DEF BooksInv, BooksKept
<1>10. CASE EndBlock
  BY <1>1, <1>10, BooksUntouched DEF EndBlock, BooksInv, BooksKept
<1>11. CASE \E loss \in StakeLosses : SlashStake(loss)
  BY <1>1, <1>11, BooksSlashStake DEF BooksInv, BooksKept
<1>12. CASE \E b \in DOMAIN inflight, loss \in InFlightLosses : SlashInFlight(b, loss)
  BY <1>1, <1>12, BooksUntouched DEF SlashInFlight, BooksInv, BooksKept
<1>13. CASE \E coins \in Donations : Donate(coins)
  BY <1>1, <1>13, BooksUntouched DEF Donate, chain, BooksInv, BooksKept
<1>14. CASE UNCHANGED vars
  BY <1>1, <1>14, BooksUntouched DEF vars, BooksInv, BooksKept
<1>15. QED
  BY <1>2, <1>3, <1>4, <1>5, <1>6, <1>7, <1>8, <1>9, <1>10, <1>11, <1>12, <1>13, <1>14
     DEF Next, UserTx, ChainStep

-----------------------------------------------------------------------------
\* An empty hub with the rate at one is backed.
LEMMA BooksInit ==
  Init => BooksInv
<1> SUFFICES ASSUME Init PROVE BooksCoverStake /\ RateInv /\ OrderInv
  BY DEF BooksInv
<1>1. OrderInv
  BY OrderInvInit
<1>2. state.total_bond_statom_amount = 0 /\ staked = 0 /\ Circulating = 0
        /\ state.statom_exchange_rate = One
  BY DEF Init, Circulating
<1>3. QED
  BY <1>1, <1>2, ScaleAssumption DEF BooksCoverStake, RateInv, Backed, One

\* The strengthened invariant holds in every reachable state.
LEMMA BooksAlways ==
  Spec => []BooksInv
<1>1. BooksInv /\ [Next]_vars => BooksInv'
  BY BooksStep
<1>2. QED
  BY BooksInit, <1>1, PTL DEF Spec

\* However validators are slashed, the hub never books less than is delegated
\* for it, and books nothing once its last delegation is gone.
THEOREM BooksCover ==
  Spec => []BooksCoverStake
<1>1. BooksInv => BooksCoverStake
  BY DEF BooksInv
<1>2. QED
  BY <1>1, BooksAlways, PTL

\* As long as a slash leaves something, the stored exchange rate is backed by
\* the bonded coins: the stale rate of Bond and the truncations never favour
\* a bonder or an unbonder over the others.
THEOREM RateIsBacked ==
  Spec => []RateBacked
<1>1. BooksInv => RateBacked
  BY DEF BooksInv, RateInv, Backed, RateBacked, Circulating
<1>2. QED
  BY <1>1, BooksAlways, PTL

\* Only a slash lowers the exchange rate.
THEOREM RateFalls ==
  Spec => RateFallsOnlyAfterSlash
<1>1. BooksInv /\ [Next]_vars => [RateHolds]_vars
  BY BooksStep
<1>2. QED
  BY <1>1, BooksAlways, PTL DEF Spec, RateFallsOnlyAfterSlash, RateHolds

\* No stAtom is minted, burnt or requested at a rate from before a slash.
THEOREM SlashingComesFirst ==
  Spec => PricedAfterSlashing
<1>1. BooksInv /\ [Next]_vars => [Priced]_vars
  BY BooksStep
<1>2. QED
  BY <1>1, BooksAlways, PTL DEF Spec, PricedAfterSlashing, Priced

-----------------------------------------------------------------------------
\* A block only adds to the balance of the hub.
LEMMA EndBlockPays ==
  ASSUME TypeOK, EndBlock
  PROVE  balance <= balance'
<1> DEFINE v == [b \in DOMAIN inflight |-> IF Matured(b) THEN inflight[b] ELSE 0]
<1>1. Len(inflight) \in Nat /\ DOMAIN inflight = 1..Len(inflight) /\ balance \in Nat
  BY DEF TypeOK
<1>2. \A b \in 1..Len(inflight) : v[b] \in Nat
  BY <1>1 DEF TypeOK
<1>3. balance' = balance + SumTo(v, Len(inflight))
  BY DEF EndBlock
<1> HIDE DEF v
<1>4. SumTo(v, Len(inflight)) \in Nat
  BY <1>1, <1>2, SumToType
<1>5. QED
  BY <1>1, <1>3, <1>4

\* Only a withdrawal, the end of a block and a donation move the balance, and
\* only a withdrawal moves prev_hub_balance.
LEMMA PrevBalanceUntouched ==
  ASSUME TypeOK, [Next]_vars,
         ~ \E u \in Users : WithdrawUnbonded(u),
         ~ EndBlock,
         ~ \E coins \in Donations : Donate(coins)
  PROVE  balance' = balance /\ state'.prev_hub_balance = state.prev_hub_balance
<1>1. ActualState \in State /\ state \in State
        /\ ActualState.prev_hub_balance = state.prev_hub_balance
  BY ActualStateType, ActualStateKeeps DEF TypeOK
<1>2. CASE \E payment \in Payments : Bond(payment)
  BY <1>1, <1>2 DEF Bond, State
<1>3. CASE \E payment \in Rewards : BondRewards(payment)
  BY <1>1, <1>3 DEF BondRewards, State
<1>4. CASE \E u \in Users, amount \in Requests : Unbond(u, amount)
  BY <1>1, <1>4, SyncedKeeps DEF Unbond
<1>5. CASE \E u \in Users, amount \in Requests : UnbondAndUndelegate(u, amount)
  <2>1. PICK u \in Users, amount \in Requests : UnbondAndUndelegate(u, amount)
    BY <1>5
  <2>2. PICK less : state' = Synced([ActualState EXCEPT !.total_bond_statom_amount = less,
                                                         !.last_unbonded_time = now],
                                    staked', delegated', supply - amount, 0)
    BY <1>1, <2>1 DEF UnbondAndUndelegate, State
  <2>3. balance' = balance
    BY <2>1 DEF UnbondAndUndelegate
  <2>4. QED
    BY <1>1, <2>2, <2>3 DEF Synced, State
<1>6. CASE \E amount \in Requests : Burn(amount)
  BY <1>1, <1>6, SyncedKeeps DEF Burn
<1>7. CASE CheckSlashing
  BY <1>1, <1>7 DEF CheckSlashing
<1>8. CASE OwnerTx
  BY <1>8 DEF OwnerTx, UpdateParams, Pause, Unpause
<1>9. CASE \E loss \in StakeLosses : SlashStake(loss)
  BY <1>9 DEF SlashStake
<1>10. CASE \E b \in DOMAIN inflight, loss \in InFlightLosses : SlashInFlight(b, loss)
  BY <1>10 DEF SlashInFlight
<1>11. CASE UNCHANGED vars
  BY <1>11 DEF vars
<1>12. QED
  BY <1>2, <1>3, <1>4, <1>5, <1>6, <1>7, <1>8, <1>9, <1>10, <1>11
     DEF Next, UserTx, ChainStep

\* The coins set aside by the last withdrawal stay: the sign that
\* process_withdraw_rate drops is never negative.
THEOREM BalanceKept ==
  Spec => []BalanceCoversPrev
<1>1. Init => BalanceCoversPrev
  BY DEF Init, BalanceCoversPrev
<1>2. ASSUME OrderInv, BalanceCoversPrev, [Next]_vars PROVE BalanceCoversPrev'
  <2>1. TypeOK /\ TypeOK' /\ state \in State /\ balance \in Nat /\ state.prev_hub_balance \in Nat
    BY <1>2, OrderInvStep DEF OrderInv, TypeOK, State
  <2>2. CASE \E u \in Users : WithdrawUnbonded(u)
    <3>1. PICK u \in Users : WithdrawUnbonded(u)
      BY <2>2
    <3>2. balance' \in Nat
      BY <2>1 DEF TypeOK
    <3>3. state'.prev_hub_balance = balance'
      BY <2>1, <3>1 DEF WithdrawUnbonded, PrevBalance, State
    <3>4. QED
      BY <3>2, <3>3 DEF BalanceCoversPrev
  <2>3. CASE EndBlock
    <3>1. balance <= balance'
      BY <1>2, <2>3, EndBlockPays DEF OrderInv
    <3>2. state' = state /\ balance' \in Nat
      BY <2>1, <2>3 DEF EndBlock, TypeOK
    <3>3. QED
      BY <1>2, <2>1, <3>1, <3>2 DEF BalanceCoversPrev
  <2>4. CASE \E coins \in Donations : Donate(coins)
    BY <1>2, <2>1, <2>4, HubAssumption DEF Donate, BalanceCoversPrev
  <2>5. CASE /\ ~ \E u \in Users : WithdrawUnbonded(u)
             /\ ~ EndBlock
             /\ ~ \E coins \in Donations : Donate(coins)
    <3>1. balance' = balance /\ state'.prev_hub_balance = state.prev_hub_balance
      BY <1>2, <2>1, <2>5, PrevBalanceUntouched
    <3>2. QED
      BY <1>2, <3>1 DEF BalanceCoversPrev
  <2>6. QED
    BY <2>2, <2>3, <2>4, <2>5
<1>3. QED
  BY <1>1, <1>2, OrderInvAlways, PTL DEF Spec

-----------------------------------------------------------------------------
(***************************************************************************)
(* What a bonder keeps.                                                    *)
(***************************************************************************)
\* One stAtom more than what is minted is worth more than the payment.
LEMMA MintedIsGreatest ==
  ASSUME NEW payment \in Nat, NEW rate \in Nat \ {0}
  PROVE  payment * DECIMAL_FRACTIONAL < rate * (DecimalDivision(payment, rate) + 1)
<1>1. payment * DECIMAL_FRACTIONAL \in Nat
  BY ProductType, ScaleAssumption
<1> DEFINE q == (payment * DECIMAL_FRACTIONAL) \div rate
<1>2. q \in Nat /\ payment * DECIMAL_FRACTIONAL < rate * q + rate
  BY <1>1, Quotient
<1> HIDE DEF q
<1>3. rate * q + rate = rate * (q + 1)
  BY <1>2
<1>4. QED
  BY <1>2, <1>3 DEF DecimalDivision, q

\* Where the rate is backed, so many stAtom are as large a share as the payment.
LEMMA ShareOfPayment ==
  ASSUME NEW rate \in Nat, NEW t \in Nat, NEW stake \in Nat, NEW n \in Nat,
         NEW payment \in Nat, NEW f \in Nat \ {0},
         rate * t <= stake * f, payment * f <= rate * n
  PROVE  payment * t <= n * stake
<1>1. (payment * f) * t <= (rate * n) * t
  BY ProductMonotone, ProductType
<1>2. n * (rate * t) <= n * (stake * f)
  BY ProductMonotone, ProductType
<1>3. (rate * n) * t = n * (rate * t)
  OBVIOUS
<1>4. (payment * f) * t = f * (payment * t) /\ n * (stake * f) = f * (n * stake)
  OBVIOUS
<1> DEFINE x == payment * t  y == n * stake  z == n * (rate * t)
<1>5. x \in Nat /\ y \in Nat /\ z \in Nat
  BY ProductType
<1>6. f * x <= z /\ z <= f * y
  BY <1>1, <1>2, <1>3, <1>4
<1> HIDE DEF x, y, z
<1>7. f * x \in Nat /\ f * y \in Nat
  BY <1>5, ProductType
<1>8. f * x <= f * y
  BY <1>5, <1>6, <1>7
<1>9. SUFFICES ASSUME y + 1 <= x PROVE FALSE
  BY <1>5 DEF x, y
<1>10. f * (y + 1) <= f * x
  BY <1>5, <1>9, ProductMonotone
<1>11. f * (y + 1) = f * y + f
  BY <1>5
<1>12. QED
  BY <1>7, <1>8, <1>10, <1>11

\* The step BonderKeepsWorth allows.
WorthKept ==
  supply' > supply /\ ~AllLost =>
    (supply' - supply + 1) * staked' > (staked' - staked) * (supply' + batch'.requested_statom)

\* The rate a handler works on never overvalues what is issued, unless
\* everything was lost.
LEMMA ActualRateBacked ==
  ASSUME BooksInv, ~AllLost
  PROVE  ActualState.statom_exchange_rate * Circulating <= staked * DECIMAL_FRACTIONAL
<1>1. /\ Circulating \in Nat /\ supply \in Nat /\ batch.requested_statom \in Nat
      /\ staked \in Nat /\ state \in State /\ state.total_bond_statom_amount \in Nat
  BY CirculatingType DEF BooksInv, OrderInv
<1>2. ActualState \in State /\ ActualState.total_bond_statom_amount = staked
  BY ActualBooks
<1>3. staked = 0 => Circulating = 0
  BY <1>1, <1>2 DEF AllLost, Circulating
<1>4. ActualState.statom_exchange_rate \in Nat /\ staked * DECIMAL_FRACTIONAL \in Nat
  BY <1>1, <1>2, ProductType, ScaleAssumption DEF State
<1>5. CASE Circulating = 0
  BY <1>4, <1>5
<1>6. CASE Circulating # 0
  <2>1. delegated /\ state.total_bond_statom_amount # 0
    <3>1. staked # 0 /\ staked <= state.total_bond_statom_amount
            /\ (~delegated => state.total_bond_statom_amount = 0)
      BY <1>3, <1>6 DEF BooksInv, BooksCoverStake
    <3>2. QED
      BY <1>1, <3>1
  <2>2. ActualState.statom_exchange_rate = ExchangeRate(staked, supply, batch.requested_statom)
    <3>1. staked <= state.total_bond_statom_amount
      BY DEF BooksInv, BooksCoverStake
    <3>2. Least(state.total_bond_statom_amount, staked) = staked
      BY <1>1, <3>1 DEF Least
    <3>3. QED
      BY <1>1, <2>1, <3>2 DEF ActualState, Synced, State
  <2>3. ExchangeRate(staked, supply, batch.requested_statom) * Circulating
          <= staked * DECIMAL_FRACTIONAL
    BY <1>1, <1>3, ExchangeRateBound DEF Circulating
  <2>4. QED
    BY <2>2, <2>3
<1>7. QED
  BY <1>5, <1>6

\* What a bond leaves to the bonder.
LEMMA WorthKeptBond ==
  ASSUME BooksInv, NEW payment \in Payments, Bond(payment)
  PROVE  WorthKept
<1> SUFFICES ASSUME ~AllLost PROVE WorthKept
  BY DEF WorthKept
<1> DEFINE rate == ActualState.statom_exchange_rate
           minted == DecimalDivision(payment, rate)
<1>1. payment \in Nat \ {0} /\ staked \in Nat /\ supply \in Nat /\ Circulating \in Nat
        /\ batch.requested_statom \in Nat
  BY HubAssumption, CirculatingType DEF BooksInv, OrderInv
<1>2. rate # 0 /\ staked' = staked + payment /\ supply' = supply + minted /\ batch' = batch
  BY DEF Bond
<1>3. rate \in Nat \ {0}
  BY <1>2, ActualBooks DEF State
<1>4. rate * Circulating <= staked * DECIMAL_FRACTIONAL
  BY ActualRateBacked
<1> HIDE DEF rate
<1>5. minted \in Nat /\ payment * DECIMAL_FRACTIONAL < rate * (minted + 1)
  BY <1>1, <1>3, DecimalDivisionBound, MintedIsGreatest
<1> HIDE DEF minted
<1>6. payment * Circulating <= (minted + 1) * staked
  <2>1. payment * DECIMAL_FRACTIONAL <= rate * (minted + 1)
    <3>1. payment * DECIMAL_FRACTIONAL \in Nat /\ rate * (minted + 1) \in Nat
      BY <1>1, <1>3, <1>5, ProductType, ScaleAssumption
    <3>2. QED
      BY <1>5, <3>1
  <2>2. QED
    BY <1>1, <1>3, <1>4, <1>5, <2>1, ShareOfPayment, ScaleAssumption
<1>7. (minted + 1) * (staked + payment) = (minted + 1) * staked + minted * payment + payment
        /\ payment * (Circulating + minted) = payment * Circulating + minted * payment
  BY <1>1, <1>5
<1>8. (minted + 1) * (staked + payment) > payment * (Circulating + minted)
  <2> DEFINE a == payment * Circulating  b == (minted + 1) * staked  c == minted * payment
  <2>1. a \in Nat /\ b \in Nat /\ c \in Nat /\ a <= b
    BY <1>1, <1>5, <1>6, ProductType
  <2> HIDE DEF a, b, c
  <2>2. b + c + payment > a + c
    BY <1>1, <2>1
  <2>3. QED
    BY <1>7, <2>2 DEF a, b, c
<1>9. /\ supply' - supply + 1 = minted + 1
      /\ staked' - staked = payment
      /\ supply' + batch'.requested_statom = Circulating + minted
  BY <1>1, <1>2, <1>5 DEF Circulating
<1>10. QED
  BY <1>2, <1>8, <1>9 DEF WorthKept

\* Nothing but a bond issues stAtom.
LEMMA WorthKeptStep ==
  ASSUME BooksInv, [Next]_vars
  PROVE  WorthKept
<1>1. supply \in Nat
  BY CirculatingType DEF BooksInv, OrderInv
<1>2. CASE \E payment \in Payments : Bond(payment)
  BY <1>2, WorthKeptBond
<1>3. ASSUME supply' = supply PROVE WorthKept
  BY <1>1, <1>3 DEF WorthKept
<1>4. ASSUME NEW amount \in Requests, amount <= supply, supply' = supply - amount
      PROVE  WorthKept
  <2>1. amount \in Nat
    BY HubAssumption
  <2>2. QED
    BY <1>1, <1>4, <2>1 DEF WorthKept
<1>5. CASE \E payment \in Rewards : BondRewards(payment)
  BY <1>3, <1>5 DEF BondRewards
<1>6. CASE \E u \in Users, amount \in Requests : Unbond(u, amount)
  BY <1>4, <1>6 DEF Unbond
<1>7. CASE \E u \in Users, amount \in Requests : UnbondAndUndelegate(u, amount)
  BY <1>4, <1>7 DEF UnbondAndUndelegate
<1>8. CASE \E amount \in Requests : Burn(amount)
  BY <1>4, <1>8 DEF Burn
<1>9. CASE CheckSlashing
  BY <1>3, <1>9 DEF CheckSlashing
<1>10. CASE \E u \in Users : WithdrawUnbonded(u)
  BY <1>3, <1>10 DEF WithdrawUnbonded
<1>11. CASE OwnerTx
  <2>1. supply' = supply
    BY <1>11, Zenon DEF OwnerTx, UpdateParams, Pause, Unpause
  <2>2. QED
    BY <1>3, <2>1
<1>12. CASE ChainStep
  <2>1. EndBlock => supply' = supply
    BY DEF EndBlock
  <2>2. \A loss \in StakeLosses : SlashStake(loss) => supply' = supply
    BY DEF SlashStake
  <2>3. \A b \in DOMAIN inflight, loss \in InFlightLosses :
          SlashInFlight(b, loss) => supply' = supply
    BY DEF SlashInFlight
  <2>4. \A coins \in Donations : Donate(coins) => supply' = supply
    BY DEF Donate
  <2>5. QED
    BY <1>3, <1>12, <2>1, <2>2, <2>3, <2>4 DEF ChainStep
<1>13. CASE UNCHANGED vars
  BY <1>3, <1>13 DEF vars
<1>14. QED
  BY <1>2, <1>5, <1>6, <1>7, <1>8, <1>9, <1>10, <1>11, <1>12, <1>13 DEF Next, UserTx

\* A bonder's share of the stAtom is the share of the delegation the payment
\* makes, but for less than one stAtom, at any scale of the decimals and with
\* any loss before the bond that left something.
THEOREM BonderIsNotDiluted ==
  Spec => BonderKeepsWorth
<1>1. BooksInv /\ [Next]_vars => [WorthKept]_vars
  BY WorthKeptStep
<1>2. QED
  BY <1>1, BooksAlways, PTL DEF Spec, BonderKeepsWorth, WorthKept
=============================================================================
