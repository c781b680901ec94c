-------------------------------- MODULE Hub --------------------------------
(***************************************************************************)
(* The hub contract (contracts/lido_cosmos_hub) at the level of            *)
(* transactions.  A transaction runs a handler and then the messages it    *)
(* returns, and reverts as a whole when any of them fails; so one action   *)
(* is a handler with all the messages it causes, and a failing             *)
(* transaction is no step.  The token contract appears as its total        *)
(* supply: transfers move stAtom freely between holders, so a holder of    *)
(* any part of it may act.  The staking module of the chain appears as the *)
(* total it has delegated for the hub and the undelegations it is still    *)
(* paying out.                                                             *)
(***************************************************************************)
EXTENDS Decimals, Sums, Sequences

CONSTANTS
  Users,             \* accounts with an unbond wait list
  EpochPeriods,      \* values the owner may give params.epoch_period
  UnbondingPeriods,  \* values the owner may give params.unbonding_period
  ChainUnbonding,    \* time the chain takes to pay out an undelegation
  BlockGaps,         \* times that may pass between two blocks
  Payments,          \* amounts bonded
  Requests,          \* amounts of stAtom unbonded or burnt
  Rewards,           \* rewards left after the dispatcher's fee
  Donations,         \* coins sent to the hub by anybody
  StakeLosses,       \* amounts slashed from the delegations
  InFlightLosses,    \* amounts slashed from an undelegation
  TotalLoss,         \* whether a slash may leave nothing
  OwnerActs,         \* whether the owner pauses and changes parameters
  MaxTime,           \* bound on now
  MaxBatch,          \* bound on the batch ids
  MaxStake,          \* bound on what is bonded
  MaxSupply,         \* bound on the stAtom issued and not yet undelegated
  MaxBalance         \* bound on a balance raised by donations

ASSUME HubAssumption ==
  /\ IsFiniteSet(Users)
  /\ EpochPeriods \subseteq Nat
  /\ UnbondingPeriods \subseteq Nat
  /\ ChainUnbonding \in Nat
  /\ BlockGaps \subseteq Nat \ {0} /\ BlockGaps # {}
  /\ Payments \subseteq Nat \ {0}
  /\ Requests \subseteq Nat \ {0}
  /\ Rewards \subseteq Nat \ {0}
  /\ Donations \subseteq Nat \ {0}
  /\ StakeLosses \subseteq Nat \ {0}
  /\ InFlightLosses \subseteq Nat \ {0}
  /\ TotalLoss \in BOOLEAN
  /\ OwnerActs \in BOOLEAN
  /\ MaxBatch \in Nat
  /\ MaxTime \in Nat

VARIABLES
  now,       \* block time
  params,    \* PARAMETERS: epoch_period, unbonding_period, paused
  state,     \* STATE
  batch,     \* CURRENT_BATCH: id, requested_statom
  history,   \* UNBOND_HISTORY_MAP, by batch id
  wait,      \* PREFIX_WAIT_MAP: stAtom by user and batch id, 0 for no entry
  balance,   \* coins the hub holds
  supply,    \* total supply of the stAtom token
  staked,    \* sum of the hub's delegations
  delegated, \* whether the hub has a delegation record at all
  inflight   \* by batch id, coins the chain has still to pay out

vars == <<now, params, state, batch, history, wait, balance, supply, staked,
          delegated, inflight>>
chain == <<staked, delegated, inflight>>

BatchIds == 1..MaxBatch

Parameters == [epoch_period : EpochPeriods, unbonding_period : UnbondingPeriods,
               paused : BOOLEAN]

State == [statom_exchange_rate : Nat, total_bond_statom_amount : Nat,
          prev_hub_balance : Nat, last_unbonded_time : Nat,
          last_processed_batch : Nat]

CurrentBatch == [id : Nat \ {0}, requested_statom : Nat]

UnbondHistory == [time : Nat, statom_amount : Nat, statom_applied_exchange_rate : Nat,
                  statom_withdraw_rate : Nat, released : BOOLEAN]

Init ==
  /\ now = 0
  /\ params \in [epoch_period : EpochPeriods, unbonding_period : UnbondingPeriods,
                 paused : {FALSE}]
  /\ state = [statom_exchange_rate |-> One, total_bond_statom_amount |-> 0,
              prev_hub_balance |-> 0, last_unbonded_time |-> now,
              last_processed_batch |-> 0]
  /\ batch = [id |-> 1, requested_statom |-> 0]
  /\ history = <<>>
  /\ wait = [u \in Users |-> [b \in BatchIds |-> 0]]
  /\ balance = 0
  /\ supply = 0
  /\ staked = 0
  /\ delegated = FALSE
  /\ inflight = <<>>

-----------------------------------------------------------------------------
(***************************************************************************)
(* slashing / query_actual_state: without a delegation record or with      *)
(* nothing bonded the stored state is left as it is, stale rate included;  *)
(* otherwise the books are cut down to what is still delegated and the     *)
(* rate is recomputed.  The arguments are the values at the moment of the  *)
(* call, which may be in the middle of a transaction.                      *)
(***************************************************************************)
Synced(s, stake, records, issued, requested) ==
  IF ~records \/ s.total_bond_statom_amount = 0
  THEN s
  ELSE LET bonded == Least(s.total_bond_statom_amount, stake)
       IN  [s EXCEPT !.total_bond_statom_amount = bonded,
                     !.statom_exchange_rate = ExchangeRate(bonded, issued, requested)]

UnsyncedState == state  \* mutant: slashing is not checked

\* What every handler that calls slashing first works on.
ActualState == Synced(state, staked, delegated, supply, batch.requested_statom)

\* total_statom_issued, which is not stored: the supply if the call to
\* slashing asked the token for it, and the default 0 if it returned early.
TotalIssued == IF ~delegated \/ state.total_bond_statom_amount = 0 THEN 0 ELSE supply

BondUnbooked(payment) ==  \* mutant: the payment is delegated, not booked
  LET s == ActualState
      minted == DecimalDivision(payment, s.statom_exchange_rate)
  IN  /\ ~params.paused
      /\ s.statom_exchange_rate # 0
      /\ minted > 0
      /\ supply + batch.requested_statom + minted <= MaxSupply
      /\ state' = s
      /\ staked' = staked + payment
      /\ delegated' = TRUE
      /\ supply' = supply + minted
      /\ UNCHANGED <<now, params, batch, history, wait, balance, inflight>>

\* execute_bond for BondType::StAtom: the rate is left to the next caller of
\* slashing.  A mint of nothing is refused by the token.
Bond(payment) ==
  LET s == ActualState
      minted == DecimalDivision(payment, s.statom_exchange_rate)
  IN  /\ ~params.paused
      /\ s.statom_exchange_rate # 0
      /\ minted > 0
      /\ s.total_bond_statom_amount + payment <= MaxStake
      /\ supply + batch.requested_statom + minted <= MaxSupply
      /\ state' = [s EXCEPT !.total_bond_statom_amount = @ + payment]
      /\ staked' = staked + payment
      /\ delegated' = TRUE
      /\ supply' = supply + minted
      /\ UNCHANGED <<now, params, batch, history, wait, balance, inflight>>

\* execute_bond for BondType::BondRewards, which the dispatcher calls: the
\* rate rises at once and nothing is minted.
BondRewards(payment) ==
  LET s == ActualState
      bonded == s.total_bond_statom_amount + payment
  IN  /\ ~params.paused
      /\ bonded <= MaxStake
      /\ state' = [s EXCEPT
           !.total_bond_statom_amount = bonded,
           !.statom_exchange_rate = ExchangeRate(bonded, TotalIssued, batch.requested_statom)]
      /\ staked' = staked + payment
      /\ delegated' = TRUE
      /\ UNCHANGED <<now, params, batch, history, wait, balance, supply, inflight>>

-----------------------------------------------------------------------------
EpochReached ==  \* mutant: it suffices that the period is over
  now - state.last_unbonded_time >= params.epoch_period

EpochPassed == now - state.last_unbonded_time > params.epoch_period

StoreWaitOver(u, amount) ==  \* mutant: the entry is replaced, not added to
  wait' = [wait EXCEPT ![u][batch.id] = amount]

\* store_unbond_wait_list
StoreWait(u, amount) == wait' = [wait EXCEPT ![u][batch.id] = @ + amount]

\* execute_unbond_statom within the epoch: the request joins the batch.  The
\* Burn it returns has the token burn the stAtom and call CheckSlashing.
Unbond(u, amount) ==
  LET requested == batch.requested_statom + amount
  IN  /\ ~params.paused
      /\ amount <= supply
      /\ batch.id \in BatchIds
      /\ ~EpochPassed
      /\ StoreWait(u, amount)
      /\ batch' = [batch EXCEPT !.requested_statom = requested]
      /\ supply' = supply - amount
      /\ state' = Synced(ActualState, staked, delegated, supply - amount, requested)
      /\ UNCHANGED <<now, params, history, balance, chain>>

\* execute_unbond_statom when the epoch has passed (process_undelegations):
\* the whole batch is undelegated at the current rate, and fails if there is
\* no delegation or too little of it.  The staking module drops a record
\* whose last coin leaves; one slashed to nothing stays.
UnbondAndUndelegate(u, amount) ==
  LET s == ActualState
      requested == batch.requested_statom + amount
      undelegated == Times(requested, s.statom_exchange_rate)
  IN  /\ ~params.paused
      /\ amount <= supply
      /\ batch.id \in BatchIds
      /\ EpochPassed
      /\ delegated
      /\ undelegated <= staked
      /\ undelegated <= s.total_bond_statom_amount
      /\ StoreWait(u, amount)
      /\ history' = Append(history,
           [time |-> now, statom_amount |-> requested,
            statom_applied_exchange_rate |-> s.statom_exchange_rate,
            statom_withdraw_rate |-> s.statom_exchange_rate, released |-> FALSE])
      /\ inflight' = Append(inflight, undelegated)
      /\ batch' = [id |-> batch.id + 1, requested_statom |-> 0]
      /\ staked' = staked - undelegated
      /\ delegated' \in {staked' > 0, TRUE}
      /\ supply' = supply - amount
      /\ state' = Synced([s EXCEPT !.total_bond_statom_amount = @ - undelegated,
                                   !.last_unbonded_time = now],
                         staked', delegated', supply - amount, 0)
      /\ UNCHANGED <<now, params, balance>>

\* Burn and BurnFrom of the token by anybody but the hub: CheckSlashing
\* follows the burn, and the second one a Burn sends finds nothing to do.
Burn(amount) ==
  /\ ~params.paused
  /\ amount <= supply
  /\ supply' = supply - amount
  /\ state' = Synced(state, staked, delegated, supply - amount, batch.requested_statom)
  /\ UNCHANGED <<now, params, batch, history, wait, balance, chain>>

\* execute_slashing, open to anybody
CheckSlashing ==
  /\ ~params.paused
  /\ state' = ActualState
  /\ UNCHANGED <<now, params, batch, history, wait, balance, supply, chain>>

-----------------------------------------------------------------------------
Booked(h) == Times(h.statom_amount, h.statom_withdraw_rate)

HistoricalTime == now - params.unbonding_period

FinishedEarly(b) ==  \* mutant: released a block early
  history[b].time <= HistoricalTime + 1 /\ ~history[b].released

FinishedLate(b) ==  \* mutant: < for <=
  history[b].time < HistoricalTime /\ ~history[b].released

\* A batch the two loops of process_withdraw_rate go over.
Finished(b) == history[b].time <= HistoricalTime /\ ~history[b].released

FinishedAgain ==  \* mutant: the loops start over at the first batch
  {b \in DOMAIN history : \A c \in 1..b : history[c].time <= HistoricalTime}

\* The batches they reach before one that is not finished stops them.
NewlyFinished ==
  {b \in DOMAIN history : /\ b > state.last_processed_batch
                          /\ \A c \in state.last_processed_batch + 1 .. b : Finished(c)}

\* calculate_newly_added_unbonded_amount
NewlyAddedUnbonded ==
  SumTo([b \in DOMAIN history |-> IF b \in NewlyFinished THEN Booked(history[b]) ELSE 0],
        Len(history))

SlashedOffBalance ==  \* mutant: all the hub holds is taken for new
  FromSubtraction(NewlyAddedUnbonded, balance)

\* The two from_subtractions of process_withdraw_rate: what arrived since the
\* last withdrawal, and how far that is from what was booked.
SlashedAmount ==
  FromSubtraction(NewlyAddedUnbonded,
                  FromSubtraction(balance, state.prev_hub_balance).magnitude)

\* process_withdraw_rate: every newly finished batch gets its withdraw rate.
ProcessedHistory ==
  LET total == NewlyAddedUnbonded
      slashed == SlashedAmount
  IN  [b \in DOMAIN history |->
         IF b \in NewlyFinished
         THEN [history[b] EXCEPT
                 !.statom_withdraw_rate =
                    NewWithdrawRate(history[b].statom_amount, @, total, slashed),
                 !.released = TRUE]
         ELSE history[b]]

FirstProcessed ==  \* mutant: last_processed_batch stops at the first batch
  IF NewlyFinished = {} THEN state.last_processed_batch
  ELSE CHOOSE b \in NewlyFinished : \A c \in NewlyFinished : b <= c

LastProcessed ==
  IF NewlyFinished = {} THEN state.last_processed_batch
  ELSE CHOOSE b \in NewlyFinished : \A c \in NewlyFinished : c <= b

\* get_finished_amount: what user u is owed from the released batches of h.
FinishedAmount(u, h) ==
  SumTo([b \in DOMAIN h |->
           IF h[b].released THEN Times(wait[u][b], h[b].statom_withdraw_rate) ELSE 0],
        Len(h))

PrevBalanceKept(withdrawn) == balance  \* mutant: the payment is not deducted

\* prev_balance of execute_withdraw_unbonded
PrevBalance(withdrawn) == balance - withdrawn

\* execute_withdraw_unbonded.  Nothing to withdraw is an error, which also
\* undoes the processing.
WithdrawUnbonded(u) ==
  LET processed == ProcessedHistory
      withdrawn == FinishedAmount(u, processed)
  IN  /\ ~params.paused
      /\ params.unbonding_period <= now
      /\ withdrawn # 0
      /\ withdrawn <= balance
      /\ history' = processed
      /\ wait' = [wait EXCEPT ![u] = [b \in BatchIds |->
                    IF b \in DOMAIN history /\ processed[b].released THEN 0 ELSE @[b]]]
      /\ balance' = balance - withdrawn
      /\ state' = [state EXCEPT !.last_processed_batch = LastProcessed,
                                !.prev_hub_balance = PrevBalance(withdrawn)]
      /\ UNCHANGED <<now, params, batch, supply, chain>>

-----------------------------------------------------------------------------
\* execute_update_params by the owner, paused or not
UpdateParams(epoch, unbonding) ==
  /\ params' = [params EXCEPT !.epoch_period = epoch, !.unbonding_period = unbonding]
  /\ UNCHANGED <<now, state, batch, history, wait, balance, supply, chain>>

\* execute_pause_contracts by the owner or a guardian
Pause ==
  /\ params' = [params EXCEPT !.paused = TRUE]
  /\ UNCHANGED <<now, state, batch, history, wait, balance, supply, chain>>

\* execute_unpause_contracts by the owner
Unpause ==
  /\ params' = [params EXCEPT !.paused = FALSE]
  /\ UNCHANGED <<now, state, batch, history, wait, balance, supply, chain>>

-----------------------------------------------------------------------------
(***************************************************************************)
(* The chain.                                                              *)
(***************************************************************************)
Matured(b) == history[b].time + ChainUnbonding <= now

\* A block ends: the staking module pays out the undelegations that have
\* matured, after the transactions of the block; those of the next block see
\* its time, which is later by any gap.
EndBlock ==
  /\ now' \in {now + gap : gap \in BlockGaps}
  /\ now' <= MaxTime
  /\ balance' = balance + SumTo([b \in DOMAIN inflight |-> IF Matured(b) THEN inflight[b] ELSE 0],
                                Len(inflight))
  /\ inflight' = [b \in DOMAIN inflight |-> IF Matured(b) THEN 0 ELSE inflight[b]]
  /\ UNCHANGED <<params, state, batch, history, wait, supply, staked, delegated>>

\* A validator is slashed: its delegations shrink, and so do undelegations.
SlashStake(loss) ==
  /\ IF TotalLoss THEN loss <= staked ELSE loss < staked
  /\ staked' = staked - loss
  /\ UNCHANGED <<now, params, state, batch, history, wait, balance, supply, delegated, inflight>>

SlashInFlight(b, loss) ==
  /\ IF TotalLoss THEN loss <= inflight[b] ELSE loss < inflight[b]
  /\ inflight' = [inflight EXCEPT ![b] = @ - loss]
  /\ UNCHANGED <<now, params, state, batch, history, wait, balance, supply, staked, delegated>>

Donate(coins) ==
  /\ balance + coins <= MaxBalance
  /\ balance' = balance + coins
  /\ UNCHANGED <<now, params, state, batch, history, wait, supply, chain>>

-----------------------------------------------------------------------------
UserTx ==
  \/ \E payment \in Payments : Bond(payment)
  \/ \E payment \in Rewards : BondRewards(payment)
  \/ \E u \in Users, amount \in Requests : Unbond(u, amount)
  \/ \E u \in Users, amount \in Requests : UnbondAndUndelegate(u, amount)
  \/ \E amount \in Requests : Burn(amount)
  \/ CheckSlashing
  \/ \E u \in Users : WithdrawUnbonded(u)

OwnerTx ==
  /\ OwnerActs
  /\ \/ \E epoch \in EpochPeriods, unbonding \in UnbondingPeriods : UpdateParams(epoch, unbonding)
     \/ Pause
     \/ Unpause

ChainStep ==
  \/ EndBlock
  \/ \E loss \in StakeLosses : SlashStake(loss)
  \/ \E b \in DOMAIN inflight, loss \in InFlightLosses : SlashInFlight(b, loss)
  \/ \E coins \in Donations : Donate(coins)

Next == UserTx \/ OwnerTx \/ ChainStep

Spec == Init /\ [][Next]_vars

\* The chain keeps producing blocks, and a user keeps sending WithdrawUnbonded
\* until it succeeds.  Nobody has to bond or unbond.
Fairness == WF_vars(EndBlock) /\ \A u \in Users : WF_vars(WithdrawUnbonded(u))

FairSpec == Spec /\ Fairness
-----------------------------------------------------------------------------
(***************************************************************************)
(* Invariants.                                                             *)
(***************************************************************************)
\* Every item of the hub's storage and every coin count has its type.
TypeOK ==
  /\ now \in Nat
  /\ params \in Parameters
  /\ state \in State
  /\ batch \in CurrentBatch
  /\ history \in Seq(UnbondHistory)
  /\ Len(history) <= MaxBatch
  /\ wait \in [Users -> [BatchIds -> Nat]]
  /\ balance \in Nat
  /\ supply \in Nat
  /\ staked \in Nat
  /\ delegated \in BOOLEAN
  /\ inflight \in Seq(Nat)

Requested(b) == SumOver([u \in Users |-> wait[u][b]], Users)

\* The wait lists of the users and the batches they wait for are two records
\* of the same requests: they agree on the open batch and on every batch not
\* yet released; a released batch is only ever drawn down.
RequestsMatchBatches ==
  /\ batch.id \in BatchIds => Requested(batch.id) = batch.requested_statom
  /\ \A b \in DOMAIN history :
       IF history[b].released
       THEN Requested(b) <= history[b].statom_amount
       ELSE Requested(b) = history[b].statom_amount
  /\ \A b \in BatchIds : b > batch.id => Requested(b) = 0

\* Batches are numbered and dated in the order they are undelegated, and
\* released in that order: last_processed_batch is exactly the last released
\* one, so that neither loop of process_withdraw_rate can stop early at a
\* released batch, skip one or take one twice.
ProcessedInOrder ==
  /\ batch.id = Len(history) + 1
  /\ Len(inflight) = Len(history)
  /\ state.last_processed_batch <= Len(history)
  /\ state.last_unbonded_time <= now
  /\ \A b \in DOMAIN history :
       /\ history[b].released <=> b <= state.last_processed_batch
       /\ history[b].time <= state.last_unbonded_time
       /\ \A c \in DOMAIN history : c < b => history[c].time < history[b].time

\* The balance never drops below the one the last withdrawal left, so the
\* sign that process_withdraw_rate drops from hub_balance - prev_hub_balance
\* is never negative.
BalanceCoversPrev == state.prev_hub_balance <= balance

\* The hub never believes it has less bonded than is delegated for it, and
\* believes nothing is bonded when there is no delegation: the early return
\* of query_actual_state never leaves a wrong amount in the books.
BooksCoverStake ==
  /\ staked <= state.total_bond_statom_amount
  /\ ~delegated => state.total_bond_statom_amount = 0

\* As long as a slash leaves something: the stored rate never values the
\* stAtom in circulation and in the open batch above the bonded coins, though
\* Bond leaves the rate stale and truncates the mint.
RateBacked ==
  ~TotalLoss =>
    /\ state.total_bond_statom_amount = 0 => supply + batch.requested_statom = 0
    /\ state.statom_exchange_rate * (supply + batch.requested_statom)
         <= state.total_bond_statom_amount * DECIMAL_FRACTIONAL

\* All that the users can still withdraw from released batches.
Owed == SumOver([u \in Users |-> FinishedAmount(u, history)], Users)

Released == {b \in DOMAIN history : history[b].released}
Worthless(b) == Times(history[b].statom_amount, history[b].statom_applied_exchange_rate) = 0

\* The coins set aside at the last withdrawal pay every claim on the released
\* batches, whoever withdraws first, as long as a slash leaves something; a
\* batch undelegated for nothing may be owed one coin it never brought.
Solvent ==
  ~TotalLoss => Owed <= state.prev_hub_balance + Cardinality({b \in Released : Worthless(b)})

\* Whatever is lost, donated or released too early, the claims on the released
\* batches exceed the coins set aside by at most one coin for each batch.
SolventUpToDust == Owed <= state.prev_hub_balance + Cardinality(Released)

\* Without losses and donations, every coin the chain owes the hub or has paid
\* it since the last withdrawal belongs to a batch not yet released: what
\* process_withdraw_rate takes for the coins of the batches it releases is
\* nothing else.
CoinsMatchBooks ==
  balance - state.prev_hub_balance + SumTo(inflight, Len(inflight))
    = SumTo([b \in DOMAIN history |-> IF history[b].released THEN 0 ELSE Booked(history[b])],
            Len(history))

-----------------------------------------------------------------------------
(***************************************************************************)
(* Action properties.                                                      *)
(***************************************************************************)
\* The exchange rate falls only when a slash has not been booked yet, or when
\* the last stAtom is gone and the rate starts over.
RateFallsOnlyAfterSlash ==
  [][~TotalLoss /\ state'.statom_exchange_rate < state.statom_exchange_rate
     => \/ staked < state.total_bond_statom_amount
        \/ supply' + batch'.requested_statom = 0]_vars

\* Whatever mints, burns or requests stAtom books pending slashes first: after
\* such a step the books are exactly what is delegated.
PricedAfterSlashing ==
  [][supply' # supply \/ batch' # batch => state'.total_bond_statom_amount = staked']_vars

\* What is bonded stays the bonder's: whatever is stale when the price is made,
\* the minted stAtom, with less than one more, are as large a share of all
\* stAtom as the payment is of all that is delegated.  Only who bonds after
\* everything was lost, while stAtom is still issued, shares with its holders.
AllLost == ActualState.total_bond_statom_amount = 0 /\ supply + batch.requested_statom > 0

BonderKeepsWorth ==
  [][supply' > supply /\ ~AllLost =>
       (supply' - supply + 1) * staked'
         > (staked' - staked) * (supply' + batch'.requested_statom)]_vars

\* The withdraw rate of a released batch is final.
ReleasedForGood ==
  [][\A b \in DOMAIN history : history[b].released => history'[b] = history[b]]_vars

NewlyReleased(b) == history'[b].released /\ ~history[b].released

\* Where coins neither get lost nor appear by themselves, a batch is paid out
\* at the rate it was undelegated at, but for the truncation of that rate.
ReleasedAtBookedValue ==
  [][\A b \in DOMAIN history :
       NewlyReleased(b) =>
         Booked(history[b]) * DECIMAL_FRACTIONAL
           \in history'[b].statom_withdraw_rate * history[b].statom_amount
              .. (history'[b].statom_withdraw_rate + 1) * history[b].statom_amount - 1]_vars

\* A batch is never paid out at more than it was booked at when the coins that
\* arrived fall short.
ShortfallNeverRaisesPayout ==
  [][\A b \in DOMAIN history :
       NewlyReleased(b) /\ ~SlashedAmount.negative
         => Booked(history'[b]) <= Booked(history[b])]_vars

-----------------------------------------------------------------------------
\* A request whose batch is undelegated early enough before MaxTime is paid
\* out, if its user keeps asking.
ClaimsArePaid ==
  \A u \in Users, b \in BatchIds :
    b \in DOMAIN history /\ history[b].time + params.unbonding_period <= MaxTime
      /\ wait[u][b] > 0
    ~> wait[u][b] = 0
=============================================================================
