------------------------------ MODULE Protocol ------------------------------
(***************************************************************************)
(* The contracts and the chain together, message by message.  A signed     *)
(* message opens a transaction; its handler changes the contract's storage *)
(* and answers with messages, which are carried out in order, each with    *)
(* all that it answers before the next; the transaction is committed when  *)
(* none is left, and at any message before it may abort, for an error or   *)
(* for want of gas, and leave no trace.  Module Hub claims that each of    *)
(* its actions is such a transaction, and module Registry likewise:        *)
(* ImplementsHub and ImplementsRegistry compare them.                      *)
(***************************************************************************)
EXTENDS Decimals, Distribution

CONSTANTS
  Users,
  Validators,      \* a set of numbers, in the order of their addresses
  EpochPeriod,
  UnbondingPeriod,
  ChainUnbonding,  \* time the chain takes to pay out an undelegation
  BlockGaps,       \* times that may pass between two blocks
  MaxEntries,      \* undelegations in flight the chain allows a validator
  FeeRate,         \* lido_fee_rate of the dispatcher, a Decimal
  Sent,            \* types of the messages that are signed in this instance
  Payments,        \* amounts bonded
  Amounts,         \* other amounts in messages
  Losses,          \* amounts slashed at once; never all that is there
  Wealth,          \* coins of a user at the start
  MaxCoins,        \* bound on all the coins, which rewards raise
  MaxAllowance,    \* bound on an allowance
  MaxTime,         \* bound on now
  MaxBatch         \* bound on the batch ids

\* The accounts that are not users: the contracts, and the owner of them all.
Contracts == {"hub", "dispatcher", "fees", "token", "registry", "owner"}

ASSUME ProtocolAssumption ==
  /\ IsFiniteSet(Users) /\ Users \intersect Contracts = {}
  /\ Validators \subseteq Nat /\ IsFiniteSet(Validators)
  /\ {EpochPeriod, UnbondingPeriod, ChainUnbonding, FeeRate, Wealth, MaxCoins,
      MaxAllowance, MaxTime, MaxBatch} \subseteq Nat
  /\ BlockGaps \subseteq Nat \ {0} /\ BlockGaps # {}
  /\ MaxEntries \in Nat \ {0}
  /\ Payments \union Amounts \union Losses \subseteq Nat \ {0}

\* There are no more coins at the start than there may ever be.
ASSUME WealthAssumption == SumOver([u \in Users |-> Wealth], Users) <= MaxCoins

VARIABLES
  now,        \* block time
  queue,      \* the messages the current transaction has still to carry out
  work,       \* all storage and all coins, as the current transaction left them
  committed   \* the same as of the last committed transaction

vars == <<now, queue, work, committed>>

Accounts == Users \union {"hub", "dispatcher", "fees"}
Holders == Users \union {"hub"}

Supply(w) == SumOver(w.tokens, Holders)
Staked(w) == SumOver(w.delegation, Validators)

\* What the chain has still to pay out for each batch: an undelegation is
\* known by its validator and its time, and so is a batch by its time.
InFlight(w) ==
  [b \in DOMAIN w.history |->
     SumOver([v \in Validators |-> w.entries[v][w.history[b].time]], Validators)]

AllCoins(w) ==
  SumOver(w.coins, Accounts) + Staked(w) + SumOver(w.rewards, Validators)
    + SumOver([v \in Validators |-> SumOver(w.entries[v], 0..MaxTime)], Validators)

H == INSTANCE Hub WITH
       EpochPeriods <- {EpochPeriod}, UnbondingPeriods <- {UnbondingPeriod},
       Requests <- 1..MaxCoins, Rewards <- 1..MaxCoins, Donations <- 1..MaxCoins,
       StakeLosses <- Losses, InFlightLosses <- Losses,
       TotalLoss <- FALSE, OwnerActs <- TRUE,
       MaxStake <- MaxCoins, MaxSupply <- MaxCoins * DECIMAL_FRACTIONAL, MaxBalance <- MaxCoins,
       params <- committed.params, state <- committed.state, batch <- committed.batch,
       history <- committed.history, wait <- committed.wait,
       balance <- committed.coins["hub"], supply <- Supply(committed),
       staked <- Staked(committed), delegated <- Staked(committed) > 0,
       inflight <- InFlight(committed)

R == INSTANCE Registry WITH
       Amounts <- 1..MaxCoins, MaxTotal <- MaxCoins,
       registry <- committed.registry, delegation <- committed.delegation,
       receiving <- committed.receiving, paused <- committed.params.paused

\* The same in the middle of a transaction, for what the handlers compute.
HW == INSTANCE Hub WITH
       EpochPeriods <- {EpochPeriod}, UnbondingPeriods <- {UnbondingPeriod},
       Requests <- 1..MaxCoins, Rewards <- 1..MaxCoins, Donations <- 1..MaxCoins,
       StakeLosses <- Losses, InFlightLosses <- Losses,
       TotalLoss <- FALSE, OwnerActs <- TRUE,
       MaxStake <- MaxCoins, MaxSupply <- MaxCoins * DECIMAL_FRACTIONAL, MaxBalance <- MaxCoins,
       params <- work.params, state <- work.state, batch <- work.batch,
       history <- work.history, wait <- work.wait,
       balance <- work.coins["hub"], supply <- Supply(work),
       staked <- Staked(work), delegated <- Staked(work) > 0,
       inflight <- InFlight(work)

RW == INSTANCE Registry WITH
       Amounts <- 1..MaxCoins, MaxTotal <- MaxCoins,
       registry <- work.registry, delegation <- work.delegation,
       receiving <- work.receiving, paused <- work.params.paused

\* Every contract is deployed and registered with the others.
Init ==
  /\ now = 0
  /\ queue = <<>>
  /\ committed =
       [params |-> [epoch_period |-> EpochPeriod, unbonding_period |-> UnbondingPeriod,
                    paused |-> FALSE],
        state |-> [statom_exchange_rate |-> One, total_bond_statom_amount |-> 0,
                   prev_hub_balance |-> 0, last_unbonded_time |-> 0,
                   last_processed_batch |-> 0],
        batch |-> [id |-> 1, requested_statom |-> 0],
        history |-> <<>>,
        wait |-> [u \in Users |-> [b \in 1..MaxBatch |-> 0]],
        tokens |-> [a \in Holders |-> 0],
        allowance |-> [u \in Users |-> [s \in Users |-> 0]],
        registry |-> Validators,
        coins |-> [a \in Accounts |-> IF a \in Users THEN Wealth ELSE 0],
        delegation |-> [v \in Validators |-> 0],
        receiving |-> {},
        entries |-> [v \in Validators |-> [t \in 0..MaxTime |-> 0]],
        rewards |-> [v \in Validators |-> 0]]
  /\ work = committed

-----------------------------------------------------------------------------
(***************************************************************************)
(* Transactions.                                                           *)
(***************************************************************************)
Idle == queue = <<>> /\ work = committed

Submit(message) ==
  /\ Idle
  /\ message.type \in Sent
  /\ queue' = <<message>>
  /\ UNCHANGED <<now, work, committed>>

Commit ==
  /\ queue = <<>>
  /\ work # committed
  /\ committed' = work
  /\ UNCHANGED <<now, queue, work>>

Abort ==
  /\ queue # <<>>
  /\ queue' = <<>>
  /\ work' = committed
  /\ UNCHANGED <<now, committed>>

Message == Head(queue)
Handling(types) == queue # <<>> /\ Message.type \in types

\* A handler's answer is carried out before what was waiting.
Answer(messages) ==
  /\ queue' = messages \o Tail(queue)
  /\ UNCHANGED <<now, committed>>

\* After each element of seq, those so far that are at a position in S.
Picked(seq, S) ==
  LET picked[i \in 0..Len(seq)] ==
        IF i = 0 THEN <<>>
        ELSE IF i \in S THEN Append(picked[i - 1], seq[i]) ELSE picked[i - 1]
  IN  picked

Chosen(seq, S) == Picked(seq, S)[Len(seq)]

Nonzero(messages) == Chosen(messages, {i \in DOMAIN messages : messages[i].amount # 0})

Moved(holdings, from, to, amount) ==
  LET less == [holdings EXCEPT ![from] = @ - amount]
  IN  [less EXCEPT ![to] = @ + amount]

-----------------------------------------------------------------------------
(***************************************************************************)
(* The hub.                                                                *)
(***************************************************************************)
DelegateUnsorted(amount) ==  \* mutant: in the order of the registry
  LET validators == RW!Ascending(work.registry, [v \in Validators |-> 0])
      delegations == Delegations(amount, RW!TotalsOf(validators, work.delegation))
  IN  Nonzero([i \in DOMAIN validators |->
        [type |-> "Delegate", validator |-> validators[i], amount |-> delegations[i]]])

DelegateEven(amount) ==  \* mutant: what is left of even shares is not delegated
  LET validators == RW!Ascending(work.registry, work.delegation)
  IN  Nonzero([i \in DOMAIN validators |->
        [type |-> "Delegate", validator |-> validators[i], amount |-> amount \div Len(validators)]])

DelegateMessages(amount) ==
  LET validators == RW!Ascending(work.registry, work.delegation)
      delegations == Delegations(amount, RW!TotalsOf(validators, work.delegation))
  IN  Nonzero([i \in DOMAIN validators |->
        [type |-> "Delegate", validator |-> validators[i], amount |-> delegations[i]]])

\* execute_bond
Bond ==
  LET m == Message
      s == HW!ActualState
      minted == IF m.type = "BondRewards" THEN 0
                ELSE DecimalDivision(m.amount, s.statom_exchange_rate)
      bonded == s.total_bond_statom_amount + m.amount
  IN  /\ Handling({"BondForStAtom", "BondRewards"})
      /\ ~work.params.paused
      /\ m.type = "BondRewards" => m.sender = "dispatcher"
      /\ m.amount <= work.coins[m.sender]
      /\ m.type = "BondForStAtom" => s.statom_exchange_rate # 0
      /\ CanDelegate(m.amount, RW!TotalsOf(RW!Ascending(work.registry, work.delegation),
                                           work.delegation))
      /\ work' = [work EXCEPT
           !.coins = Moved(@, m.sender, "hub", m.amount),
           !.state = [s EXCEPT
             !.total_bond_statom_amount = bonded,
             !.statom_exchange_rate =
                IF m.type = "BondRewards"
                THEN ExchangeRate(bonded, HW!TotalIssued + minted, work.batch.requested_statom)
                ELSE @]]
      /\ Answer(DelegateMessages(m.amount) \o
                IF m.type = "BondRewards" THEN <<>>
                ELSE <<[type |-> "Mint", sender |-> "hub", to |-> m.sender, amount |-> minted]>>)

UndelegateMessages(claim) ==
  LET validators == RW!Descending(RW!Delegated, work.delegation)
      undelegations == Undelegations(claim, RW!TotalsOf(validators, work.delegation))
  IN  Nonzero([i \in DOMAIN validators |->
        [type |-> "Undelegate", validator |-> validators[i], amount |-> undelegations[i]]])

AnyContract(sender) == TRUE  \* mutant: anybody may say that tokens were sent

\* Only the token contract can execute Receive.
FromToken(sender) == sender = "token"

\* What the Burn that ends an unbonding burns.
BurntByUnbond(amount) == amount

\* receive_cw20 and execute_unbond_statom, with process_undelegations and
\* undelegate once the epoch has passed.
ReceiveUnbond ==
  LET m == Message
      s == HW!ActualState
      requested == work.batch.requested_statom + m.amount
      claim == Times(requested, s.statom_exchange_rate)
      waiting == [work EXCEPT !.wait[m.user][work.batch.id] = @ + m.amount]
      burn == <<[type |-> "Burn", sender |-> "hub", amount |-> BurntByUnbond(m.amount)]>>
  IN  /\ Handling({"Receive"})
      /\ ~work.params.paused
      /\ FromToken(m.sender)
      /\ work.batch.id <= MaxBatch
      /\ \/ /\ ~HW!EpochPassed
            /\ work' = [waiting EXCEPT !.state = s, !.batch.requested_statom = requested]
            /\ Answer(burn)
         \/ /\ HW!EpochPassed
            /\ CanUndelegate(claim, RW!TotalsOf(RW!Descending(RW!Delegated, work.delegation),
                                                work.delegation))
            /\ claim <= s.total_bond_statom_amount
            /\ work' = [waiting EXCEPT
                 !.state = [s EXCEPT !.total_bond_statom_amount = @ - claim,
                                     !.last_unbonded_time = now],
                 !.batch = [id |-> @.id + 1, requested_statom |-> 0],
                 !.history = Append(@,
                   [time |-> now, statom_amount |-> requested,
                    statom_applied_exchange_rate |-> s.statom_exchange_rate,
                    statom_withdraw_rate |-> s.statom_exchange_rate, released |-> FALSE])]
            /\ Answer(UndelegateMessages(claim) \o burn)

\* execute_withdraw_unbonded
WithdrawUnbonded ==
  LET u == Message.sender
      processed == HW!ProcessedHistory
      withdrawn == HW!FinishedAmount(u, processed)
  IN  /\ Handling({"WithdrawUnbonded"})
      /\ ~work.params.paused
      /\ UnbondingPeriod <= now
      /\ withdrawn # 0
      /\ withdrawn <= work.coins["hub"]
      /\ work' = [work EXCEPT
           !.history = processed,
           !.wait[u] = [b \in 1..MaxBatch |->
              IF b \in DOMAIN processed /\ processed[b].released THEN 0 ELSE @[b]],
           !.state.last_processed_batch = HW!LastProcessed,
           !.state.prev_hub_balance = work.coins["hub"] - withdrawn]
      /\ Answer(<<[type |-> "BankSend", sender |-> "hub", to |-> u, amount |-> withdrawn]>>)

\* execute_slashing
CheckSlashing ==
  /\ Handling({"CheckSlashing"})
  /\ ~work.params.paused
  /\ work' = [work EXCEPT !.state = HW!ActualState]
  /\ Answer(<<>>)

WithdrawRewardMessages ==
  LET validators == RW!Ascending(RW!Delegated, [v \in Validators |-> 0])
  IN  [i \in DOMAIN validators |->
        [type |-> "WithdrawDelegatorReward", validator |-> validators[i]]]

DispatchAgain ==  \* mutant: the hub's own DispatchRewards is called
  WithdrawRewardMessages \o <<[type |-> "WithdrawAndDispatch"]>>

DispatchFirst ==  \* mutant: dispatched before the rewards are withdrawn
  <<[type |-> "DispatchRewards", sender |-> "hub"]>> \o WithdrawRewardMessages

\* The messages of execute_dispatch_rewards.
WithdrawAndDispatch ==
  WithdrawRewardMessages \o <<[type |-> "DispatchRewards", sender |-> "hub"]>>

\* execute_dispatch_rewards of the hub, open to anybody.
WithdrawAllRewards ==
  /\ Handling({"WithdrawAndDispatch"})
  /\ ~work.params.paused
  /\ Answer(WithdrawAndDispatch)
  /\ UNCHANGED work

\* execute_redelegate_proxy, paused or not.  redelegations is a sequence of
\* pairs of a validator and an amount.
RedelegateProxy ==
  LET m == Message
  IN  /\ Handling({"RedelegateProxy"})
      /\ m.sender \in {"registry", "owner"}
      /\ Answer([i \in DOMAIN m.redelegations |->
           [type |-> "Redelegate", src |-> m.src, validator |-> m.redelegations[i][1],
            amount |-> m.redelegations[i][2]]])
      /\ UNCHANGED work

\* execute_pause_contracts and execute_unpause_contracts
SetPaused ==
  /\ Handling({"PauseContracts", "UnpauseContracts"})
  /\ work' = [work EXCEPT !.params.paused = Message.type = "PauseContracts"]
  /\ Answer(<<>>)

HubHandler ==
  \/ Bond
  \/ ReceiveUnbond
  \/ WithdrawUnbonded
  \/ CheckSlashing
  \/ WithdrawAllRewards
  \/ RedelegateProxy
  \/ SetPaused

-----------------------------------------------------------------------------
(***************************************************************************)
(* The token: cw20-base, whose messages are refused while the hub is       *)
(* paused, with checks for slashing after a burn.                          *)
(***************************************************************************)
TokenOpen(types) == Handling(types) /\ ~work.params.paused

\* cw20_mint; the hub is the minter, and nothing cannot be minted.
Mint ==
  LET m == Message
  IN  /\ TokenOpen({"Mint"})
      /\ m.sender = "hub"
      /\ m.amount > 0
      /\ work' = [work EXCEPT !.tokens[m.to] = @ + m.amount]
      /\ Answer(<<>>)

IncreaseAllowance ==
  LET m == Message
  IN  /\ TokenOpen({"IncreaseAllowance"})
      /\ m.spender # m.sender
      /\ work.allowance[m.sender][m.spender] + m.amount <= MaxAllowance
      /\ work' = [work EXCEPT !.allowance[m.sender][m.spender] = @ + m.amount]
      /\ Answer(<<>>)

\* An allowance that is used up is removed; without one this is an error, too.
DecreaseAllowance ==
  LET m == Message
      allowed == work.allowance[m.sender][m.spender]
  IN  /\ TokenOpen({"DecreaseAllowance"})
      /\ m.spender # m.sender
      /\ allowed > 0
      /\ work' = [work EXCEPT
           !.allowance[m.sender][m.spender] = IF m.amount < @ THEN @ - m.amount ELSE 0]
      /\ Answer(<<>>)

AllowedOnly(m) ==  \* mutant: the balance is not looked at
  m.sender # m.owner => m.amount <= work.allowance[m.owner][m.sender]

\* The tokens of m.owner that a message moves or burns are the sender's, or
\* the owner has allowed the sender so much.
Allowed(m) ==
  /\ m.amount <= work.tokens[m.owner]
  /\ m.sender # m.owner => m.amount <= work.allowance[m.owner][m.sender]

Charged(m) ==
  IF m.sender = m.owner THEN work
  ELSE [work EXCEPT !.allowance[m.owner][m.sender] = @ - m.amount]

\* cw20_transfer and cw20_transfer_from
Transfer ==
  LET m == Message
  IN  /\ TokenOpen({"Transfer", "TransferFrom"})
      /\ Allowed(m)
      /\ work' = [Charged(m) EXCEPT !.tokens = Moved(@, m.owner, m.to, m.amount)]
      /\ Answer(<<>>)

\* The hook of cw20_send and cw20_send_from names the sender, not the owner.
ReceiveMessages(m) ==
  <<[type |-> "Receive", sender |-> "token", user |-> m.sender, amount |-> m.amount]>>

\* cw20_send and cw20_send_from to the hub, with the message to unbond.
Send ==
  LET m == Message
  IN  /\ TokenOpen({"Send", "SendFrom"})
      /\ Allowed(m)
      /\ work' = [Charged(m) EXCEPT !.tokens = Moved(@, m.owner, "hub", m.amount)]
      /\ Answer(ReceiveMessages(m))

NoCheck(m) == <<>>  \* mutant: slashing is not checked after a burn

\* What execute_burn and execute_burn_from have the hub check.
CheckMessages(m) ==
  LET check == [type |-> "CheckSlashing"]
  IN  IF m.type = "Burn" /\ m.sender # "hub" THEN <<check, check>> ELSE <<check>>

\* cw20_burn and cw20_burn_from.  The hub burns its own.
Burn ==
  LET m == Message
      owner == IF m.type = "Burn" THEN m.sender ELSE m.owner
  IN  /\ TokenOpen({"Burn", "BurnFrom"})
      /\ m.amount <= work.tokens[owner]
      /\ m.type = "BurnFrom" => Allowed(m)
      /\ work' = [(IF m.type = "BurnFrom" THEN Charged(m) ELSE work)
                    EXCEPT !.tokens[owner] = @ - m.amount]
      /\ Answer(CheckMessages(m))

TokenHandler ==
  \/ Mint
  \/ IncreaseAllowance
  \/ DecreaseAllowance
  \/ Transfer
  \/ Send
  \/ Burn

-----------------------------------------------------------------------------
(***************************************************************************)
(* The rewards dispatcher.                                                 *)
(***************************************************************************)
\* compute_lido_fee
LidoFee(rewards) == Times(rewards, FeeRate)

\* execute_dispatch_rewards: the hub bonds what the fee leaves.
DispatchRewards ==
  LET rewards == work.coins["dispatcher"]
      fee == LidoFee(rewards)
  IN  /\ Handling({"DispatchRewards"})
      /\ ~work.params.paused
      /\ Message.sender = "hub"
      /\ fee <= rewards
      /\ Answer(Nonzero(
           <<[type |-> "BondRewards", sender |-> "dispatcher", amount |-> rewards - fee],
             [type |-> "BankSend", sender |-> "dispatcher", to |-> "fees", amount |-> fee]>>))
      /\ UNCHANGED work

-----------------------------------------------------------------------------
(***************************************************************************)
(* The validators registry.                                                *)
(***************************************************************************)
\* add_validator by the owner
AddValidator ==
  /\ Handling({"AddValidator"})
  /\ work' = [work EXCEPT !.registry = @ \union {Message.validator}]
  /\ Answer(<<>>)

\* remove_validator by the owner
RemoveValidator ==
  LET v == Message.validator
      rest == RW!Ascending(work.registry \ {v}, work.delegation)
      totals == RW!TotalsOf(rest, work.delegation)
      shares == Delegations(work.delegation[v], totals)
      pairs == [i \in DOMAIN rest |-> <<rest[i], shares[i]>>]
  IN  /\ Handling({"RemoveValidator"})
      /\ work.registry \ {v} # {}
      /\ work' = [work EXCEPT !.registry = @ \ {v}]
      /\ IF v \notin RW!Delegated \/ v \in work.receiving
         THEN Answer(<<>>)
         ELSE /\ CanDelegate(work.delegation[v], totals)
              /\ Answer(<<[type |-> "RedelegateProxy", sender |-> "registry", src |-> v,
                           redelegations |-> Chosen(pairs, {i \in DOMAIN pairs : pairs[i][2] # 0})],
                          [type |-> "WithdrawAndDispatch"]>>)

-----------------------------------------------------------------------------
(***************************************************************************)
(* The chain.  Whenever a delegation changes, it pays its rewards to the   *)
(* withdraw address of the delegator, which is the dispatcher.             *)
(***************************************************************************)
PaidOut(w, validators) ==
  [w EXCEPT !.coins["dispatcher"] = @ + SumOver(w.rewards, validators),
            !.rewards = [v \in Validators |-> IF v \in validators THEN 0 ELSE @[v]]]

Delegate ==
  LET m == Message
  IN  /\ Handling({"Delegate"})
      /\ m.amount <= work.coins["hub"]
      /\ work' = [PaidOut(work, {m.validator}) EXCEPT
                    !.coins["hub"] = @ - m.amount,
                    !.delegation[m.validator] = @ + m.amount]
      /\ Answer(<<>>)

Entries(w, v) == {t \in 0..MaxTime : w.entries[v][t] > 0}

Undelegate ==
  LET m == Message
  IN  /\ Handling({"Undelegate"})
      /\ m.amount <= work.delegation[m.validator]
      /\ Cardinality(Entries(work, m.validator)) < MaxEntries
      /\ work' = [PaidOut(work, {m.validator}) EXCEPT
                    !.delegation[m.validator] = @ - m.amount,
                    !.entries[m.validator][now] = @ + m.amount]
      /\ Answer(<<>>)

\* Coins that are still arriving at the source cannot be redelegated.
Redelegate ==
  LET m == Message
  IN  /\ Handling({"Redelegate"})
      /\ m.src # m.validator
      /\ m.src \notin work.receiving
      /\ m.amount <= work.delegation[m.src]
      /\ work' = [PaidOut(work, {m.src, m.validator}) EXCEPT
                    !.delegation = Moved(@, m.src, m.validator, m.amount),
                    !.receiving = @ \union {m.validator}]
      /\ Answer(<<>>)

WithdrawDelegatorReward ==
  /\ Handling({"WithdrawDelegatorReward"})
  /\ work' = PaidOut(work, {Message.validator})
  /\ Answer(<<>>)

BankSend ==
  LET m == Message
  IN  /\ Handling({"BankSend"})
      /\ m.amount <= work.coins[m.sender]
      /\ work' = [work EXCEPT !.coins = Moved(@, m.sender, m.to, m.amount)]
      /\ Answer(<<>>)

ChainHandler ==
  Delegate \/ Undelegate \/ Redelegate \/ WithdrawDelegatorReward \/ BankSend

\* Between transactions.
Happens(w) ==
  /\ Idle
  /\ work' = w
  /\ committed' = w
  /\ UNCHANGED queue

EndBlock ==
  LET matured == {t \in 0..MaxTime : t + ChainUnbonding <= now}
  IN  /\ now' \in {now + gap : gap \in BlockGaps}
      /\ now' <= MaxTime
      /\ Happens([work EXCEPT
           !.coins["hub"] =
              @ + SumOver([v \in Validators |-> SumOver(work.entries[v], matured)], Validators),
           !.entries = [v \in Validators |-> [t \in 0..MaxTime |->
                          IF t \in matured THEN 0 ELSE @[v][t]]]])

SlashStake(v, loss) ==
  /\ loss < work.delegation[v]
  /\ Happens([work EXCEPT !.delegation[v] = @ - loss])
  /\ UNCHANGED now

SlashEntry(v, t, loss) ==
  /\ loss < work.entries[v][t]
  /\ Happens([work EXCEPT !.entries[v][t] = @ - loss])
  /\ UNCHANGED now

\* A validator earns rewards for what is delegated to it.
Reward(v, amount) ==
  /\ work.delegation[v] > 0
  /\ AllCoins(work) + amount <= MaxCoins
  /\ Happens([work EXCEPT !.rewards[v] = @ + amount])
  /\ UNCHANGED now

RedelegationCompletes(v) ==
  /\ v \in work.receiving
  /\ Happens([work EXCEPT !.receiving = @ \ {v}])
  /\ UNCHANGED now

ChainStep ==
  \/ EndBlock
  \/ \E v \in Validators, loss \in Losses : SlashStake(v, loss)
  \/ \E v \in Validators, t \in 0..MaxTime, loss \in Losses : SlashEntry(v, t, loss)
  \/ \E v \in Validators : "Reward" \in Sent /\ Reward(v, 1)
  \/ \E v \in Validators : RedelegationCompletes(v)

-----------------------------------------------------------------------------
\* What can be signed: by a user, for good and, by somebody who pretends to be
\* a contract, for nothing; and by the owner.
Signed ==
  UNION {
    [type : {"BondForStAtom"}, sender : Users, amount : Payments],
    [type : {"BondRewards"}, sender : Users, amount : Amounts],
    [type : {"Receive"}, sender : Users, user : Users, amount : Amounts],
    [type : {"WithdrawUnbonded"}, sender : Users],
    [type : {"CheckSlashing", "WithdrawAndDispatch"}],
    [type : {"DispatchRewards"}, sender : Users],
    [type : {"Mint"}, sender : Users, to : Users, amount : Amounts],
    {m \in [type : {"Transfer", "TransferFrom"}, sender : Users, owner : Users, to : Holders,
            amount : Amounts] : (m.type = "Transfer") = (m.sender = m.owner)},
    {m \in [type : {"Send", "SendFrom", "BurnFrom"}, sender : Users, owner : Users,
            amount : Amounts] : (m.type = "Send") = (m.sender = m.owner)},
    [type : {"Burn"}, sender : Users, amount : Amounts],
    [type : {"IncreaseAllowance", "DecreaseAllowance"}, sender : Users, spender : Users, amount : Amounts],
    [type : {"BankSend"}, sender : Users, to : {"hub"}, amount : Amounts],
    [type : {"PauseContracts", "UnpauseContracts"}],
    [type : {"AddValidator", "RemoveValidator"}, validator : Validators],
    [type : {"RedelegateProxy"}, sender : Users \union {"owner"}, src : Validators,
     redelegations : {<<>>} \union {<<<<v, n>>>> : v \in Validators, n \in Amounts}]}

Next ==
  \/ \E message \in Signed : Submit(message)
  \/ HubHandler
  \/ TokenHandler
  \/ DispatchRewards
  \/ AddValidator
  \/ RemoveValidator
  \/ ChainHandler
  \/ Commit
  \/ Abort
  \/ ChainStep

Spec == Init /\ [][Next]_vars

\* The chain carries a transaction through once it has begun.
Handle ==
  HubHandler \/ TokenHandler \/ DispatchRewards \/ AddValidator \/ RemoveValidator
    \/ ChainHandler \/ Commit \/ Abort

FairSpec == Spec /\ WF_vars(Handle)

-----------------------------------------------------------------------------
\* What a transaction leaves behind, and what it works on, are storage and
\* coins of the types the contracts and the chain give them.
TypeOK ==
  /\ now \in 0..MaxTime
  /\ \A w \in {work, committed} :
       /\ w.params \in H!Parameters
       /\ w.state \in H!State
       /\ w.batch \in H!CurrentBatch
       /\ w.history \in Seq(H!UnbondHistory)
       /\ w.wait \in [Users -> [1..MaxBatch -> Nat]]
       /\ w.tokens \in [Holders -> Nat]
       /\ w.allowance \in [Users -> [Users -> Nat]]
       /\ w.registry \subseteq Validators
       /\ w.coins \in [Accounts -> Nat]
       /\ w.delegation \in [Validators -> Nat]
       /\ w.receiving \subseteq Validators
       /\ w.entries \in [Validators -> [0..MaxTime -> Nat]]
       /\ w.rewards \in [Validators -> Nat]

\* Every transaction of the contracts, from the signed message to the last
\* message it causes, is an action of module Hub, or none of its business: the
\* order of the messages, the checks for slashing between them, the coins that
\* travel with them and the ways to abort add nothing that Hub leaves out.
ImplementsHub == H!Spec

\* The same for module Registry: what it says of bonds, undelegations and
\* removals is what the messages to the validators add up to.
ImplementsRegistry == R!Spec

\* An unbonding burns what was sent with it and nothing else: stAtom that was
\* transferred to the hub without a message stays there, nobody's claim.
HubTokensKept == [][committed'.tokens["hub"] >= committed.tokens["hub"]]_vars

Undispatched(w) == w.coins["dispatcher"] + SumOver(w.rewards, Validators)
Fees(w) == w.coins["fees"]

\* Whoever causes it, and when a validator is removed too, a dispatch takes all
\* the rewards there are: the fee goes out, the rest is delegated, and nothing
\* is left with the dispatcher or the validators.
DispatchTakesAll ==
  [][\/ Fees(committed') > Fees(committed)
     \/ /\ Staked(committed') > Staked(committed)
        /\ \A u \in Users : committed'.coins[u] = committed.coins[u]
     => /\ Undispatched(committed') = 0
        /\ Fees(committed') - Fees(committed) = Times(Undispatched(committed), FeeRate)
        /\ Staked(committed') - Staked(committed)
             = Undispatched(committed) - Times(Undispatched(committed), FeeRate)]_vars

\* Epochs long enough for the chain: epoch_period is exceeded, not reached, by a
\* second at least; and what has matured is paid out at the end of a block, so
\* that a transaction may still find it for as long as a block takes.
EpochsSuffice ==
  \A gap \in BlockGaps : ChainUnbonding + gap <= MaxEntries * (EpochPeriod + 1)

\* With such epochs, however the blocks come, a batch that is due never finds a
\* validator with no undelegation left.
NeverOutOfEntries ==
  (EpochsSuffice /\ Idle /\ H!EpochPassed)
    => \A v \in Validators : Cardinality(Entries(committed, v)) < MaxEntries

\* No contract calls back for ever: a transaction that has begun is committed
\* or aborted after finitely many messages.
TransactionsEnd == ~Idle ~> Idle
=============================================================================
