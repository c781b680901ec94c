# A verification project for Lido on Cosmos

The repository holds four CosmWasm contracts of a liquid-staking protocol: users bond coins and
receive stAtom, whose exchange rate against the bonded coins rises with rewards and falls with
slashing; they send stAtom back to unbond, wait for the chain's unbonding time, and withdraw coins.
This directory holds TLA+ models of the contracts, TLC configurations that check them on small
instances, and proofs by TLAPS for every instance.

## The system

| part | state | operations |
|---|---|---|
| hub, `contracts/lido_cosmos_hub` | `STATE` (exchange rate, bonded amount, balance left by the last withdrawal, last undelegation, last processed batch), `CURRENT_BATCH`, `UNBOND_HISTORY_MAP`, `PREFIX_WAIT_MAP`, `PARAMETERS`, `CONFIG`, `GUARDIANS` | BondForStAtom, BondRewards, unbonding through `Receive`, WithdrawUnbonded, CheckSlashing, DispatchRewards, RedelegateProxy, UpdateParams, UpdateConfig, PauseContracts, UnpauseContracts, Add/RemoveGuardians, queries |
| stAtom token, `contracts/lido_cosmos_token_statom` | cw20 balances, allowances and supply | mint (hub only), burn and burn_from, each of which has the hub check for slashing, transfers and sends; all stop while the hub is paused |
| validators registry, `contracts/lido_cosmos_validators_registry` | `REGISTRY`, `CONFIG` | add_validator, remove_validator (redelegates), queries; `common.rs` splits amounts over validators for the hub too |
| rewards dispatcher, `contracts/lido_cosmos_rewards_dispatcher` | `CONFIG` | DispatchRewards: takes the fee, bonds the rest as BondRewards |
| libraries, `packages/*` | none | messages and types, the exchange rate, `SignedInt` |
| the chain (outside the repository) | delegations, undelegations and redelegations in progress, balances, time | delegate, undelegate, redelegate, slash, pay out at the end of a block |

How they interact: a transaction runs one handler, then the messages it returned, in order and each
with all that it returns before the next; if any of them fails everything is undone. A bond runs
through hub, chain and token; an unbonding through token, hub, chain, token and hub again; a removal
of a validator through registry, hub, chain, hub, dispatcher and hub. No other transaction comes in
between, but every handler sees the storage and the coins the previous messages left. What is hard:

- slashing happens silently. The hub learns of it when a handler compares its books with the
  delegations, and until then its exchange rate is stale;
- coins of finished undelegations arrive silently and unlabelled, and anybody can send coins too. The
  hub takes the change of its balance since the last withdrawal for the coins of the batches it is
  releasing;
- handlers that change the rate, the books and the supply do so partly themselves and partly by the
  messages they return, with a second check for slashing at the end of the burn;
- handlers look at other contracts and at the chain in the middle of a transaction (the dispatcher at
  its balance, the hub at the supply of the token and at its delegations, the registry at the hub's),
  so that the order of the messages decides what they see;
- every division truncates, and the losses by truncation are meant to fall on the side of the protocol;
- the owner changes periods, pauses and rewires the contracts at any time, guardians pause, and
  validators come and go while coins are delegated to them;
- clients query between transactions and act on the answer.

What makes each part correct, in a line: the books never claim less than is delegated; the rate is
backed by the books; every price is asked after losses are booked; batches are released once, in
order; what is released can be paid; wait lists and batches are the same requests; an undelegated
request is paid in the end; every amount can be split over the validators and drawn from them;
removing a validator loses no coins; the token and the hub burn only what was sent for it; a dispatch
takes all the rewards there are and they go to one dispatcher; a query promises what a transaction
keeps; the owner prevails over guardians.

The hazards behind these properties, each with its line, are under `hazards` in `PROJECT.json`.

## Modules

| module | models | code |
|---|---|---|
| `Decimals` | fixed-point arithmetic with its truncations, differences with a sign, the exchange rate, the withdraw rate of a batch | `math.rs`, `signed_integer.rs`, `basset/src/hub.rs`, `unbond.rs` |
| `Sums` | sums over batch ids or validators, as a recursive function | |
| `Hub` | the hub contract with the supply of the token, and the chain as it sees it | `bond.rs`, `unbond.rs`, `state.rs`, `config.rs`, `contract.rs`, token `handler.rs` |
| `HubMC` | `HubQueries`, and so `Hub`, with the symmetry of users, for the `Hub*.cfg` but `HubLive.cfg` | |
| `Distribution` | `calculate_delegations`, `calculate_undelegations` | registry `common.rs` |
| `Registry` | the registry, and the hub's delegations by validator | registry `contract.rs`, `bond.rs`, `unbond.rs` |
| `Protocol` | all contracts and the chain, message by message; implements `Hub` and `Registry` | all four contracts |
| `Administration` | owners, guardians, configurations, and where rewards and stAtom go when the contracts are rewired | `config.rs`, `contract.rs` of hub, dispatcher and registry |
| `HubQueries` | the queries of the hub next to its transactions, a client that pages | `contract.rs`, `state.rs` |
| `SumsProofs`, `DecimalsProofs` | lemmas about the two libraries | |
| `HubProofs`, `HubClaimsProofs` | theorems about `Hub`: types, order, books and rate; claims, the coins that arrive, and `HubQueries` | |
| `RegistryProofs`, `AdministrationProofs` | theorems about `Registry` with `Distribution`, and `Administration` | |
| `ProtocolProofs` | theorems about `Protocol`, from the lemmas about `Hub` and `Registry` it computes with | |
| `TransactionProofs` | that `Protocol` implements `Registry`, and that a dispatch takes all rewards | |

`Protocol` composes: it has instances of `Hub` and `Registry`, once with the storage in the middle of a
transaction, for what the handlers compute (`HW`, `RW`), and once with the storage as committed, for
what the protocol implements (`H`, `R`). `HubQueries` extends `Hub`. `Administration` stands beside
them: it is about the wiring, which `Hub` and `Protocol` take as complete.

### Hub

An action is a transaction: the handler and all the messages it causes. A guard that fails stands for
a transaction that is undone. The variables are the items of storage under the names of the code
(`params`, `state`, `batch`, `history`, `wait`), the token's `supply`, the hub's coins (`balance`),
and of the chain `now`, `staked` (the sum of the delegations), `delegated` (whether the list of
delegations is not empty) and `inflight` (by batch, what is still to be paid out).

- `Bond`, `BondRewards`: `execute_bond`. `ActualState` is the state after the check for slashing both
  begin with. `Bond` does not recompute the rate; `BondRewards` does, with `TotalIssued`, which is 0
  after an early return of `query_actual_state`.
- `Unbond`, `UnbondAndUndelegate`: `execute_unbond_statom` before and after the epoch has passed. The
  burn it returns makes the token call CheckSlashing, with the supply, the batch and the delegations of
  that moment: the outer `Synced`.
- `Burn`: somebody else burns stAtom. `CheckSlashing`: `execute_slashing`.
- `WithdrawUnbonded`: both loops of `process_withdraw_rate` (`NewlyFinished` is where they stop), the
  withdraw rates (`ProcessedHistory`), the payment and the entries removed.
- `UpdateParams`, `Pause`, `Unpause`: the owner.
- `EndBlock`, `SlashStake`, `SlashInFlight`, `Donate`: the chain and strangers.

What is abstracted: stAtom moves freely between holders, so that the model keeps the supply and lets
any user unbond any amount of it; the reward a dispatcher bonds is any member of `Rewards`; the
registry is not empty (module `Registry` says what happens then); times are seconds, scaled down; a
block is later than the one before by any of `BlockGaps`, all its transactions see its time, and what has
matured is paid out after them; a
delegation record with no coins may be listed or not (`delegated'` in `UnbondAndUndelegate`), since
the chain drops a record with no shares and keeps one that was slashed to nothing. Balances, allowances,
undelegations by validator with the chain's limit on them, and who is allowed to call what are in
`Protocol` and `Administration`. Not modelled: the width of integers, the denomination of coins.

### Distribution and Registry

`DelegationRoom` and `UndelegationRoom` are what a validator could take or give, `Leftovers` the walk
over the validators that cuts them to what is left. One pass of the loop of `calculate_undelegations`
is modelled; that there is no second one is the invariant `UndelegationsArePlaced`.
`Registry` keeps the delegation by validator. `remove_validator` is two actions: `RemoveOnly`, where
there is nothing to redelegate or the chain would refuse because coins are still arriving at the
validator, and `RemoveAndRedelegate` with the redelegation proxy of the hub and the rewards that are
dispatched and bonded at the end of the same transaction. `RedelegateProxy` is the owner moving coins
by hand, to any validator. The registry may be empty at first, as
instantiated without validators. Redelegation leaves the completion time to `RedelegationCompletes`.

### Protocol

The state is `work`, a record of the storage of all contracts and of all coins, next to `committed`,
the same as the last transaction left it, and `queue`, the messages still to be carried out. `Submit`
puts a signed message into the empty queue. A handler is an action that is enabled when its message is
first in the queue and the checks of the code pass; it changes `work` and puts the messages of its
`Response` before what was waiting (`Answer`), which is the order of the chain. `Commit` copies `work`
when the queue is empty. `Abort` is possible at every message and restores `committed`: it stands for a
check that fails, in this handler or in a message it causes, and for running out of gas. What can be
signed (`Signed`) includes messages that only a contract may send.

- hub: `Bond`, `ReceiveUnbond`, `WithdrawUnbonded`, `CheckSlashing`, `WithdrawAllRewards`,
  `RedelegateProxy`, `SetPaused`. `DelegateMessages` and `UndelegateMessages` match amounts with
  validators by position, in the orders of the registry and of `undelegate`.
- token: `Mint`, `Transfer`, `Send`, `Burn` with their `_from` variants (`Allowed`, `Charged`),
  `IncreaseAllowance`, `DecreaseAllowance`. `ReceiveMessages` names the sender of `send_from`, not the
  owner, as cw20 does; `CheckMessages` are the checks for slashing after a burn.
- dispatcher: `DispatchRewards`. Registry: `AddValidator`, `RemoveValidator`.
- chain: `Delegate`, `Undelegate` (with the limit `MaxEntries`), `Redelegate`,
  `WithdrawDelegatorReward`, `BankSend`; between transactions `EndBlock`, slashing of delegations and
  of undelegations, rewards, the completion of redelegations. A delegation that changes pays its
  rewards to the dispatcher first (`PaidOut`).

The refinement mapping is the same for both: the variables of `Hub` and `Registry` are the committed
storage, with sums over holders and validators where `Hub` keeps totals (`Supply`, `Staked`), and
undelegations by batch found by their time (`InFlight`). Every step inside a transaction is then a
stutter, and `Commit` must be one action of `Hub` or a stutter: this is what makes it sound that an
action of `Hub` is a handler with all its messages, including the early burn, the second check for
slashing and the rewards that are bonded at the end of a removal. Unreachable from `Protocol`, and so
not compared, are UpdateParams and slashes that take everything, which `Hub` has in addition. `Hub`
asks for no registered validator, and `Registry` for no epoch: each leaves out guards of the other,
and both must hold.

### Administration

An action is a transaction. `UpdateHubConfig`, `UpdateDispatcherConfig` and `UpdateRegistryConfig`
take every combination of given and missing fields (`None` keeps the value); the hub's sends
SetWithdrawAddress to the chain when a dispatcher is given, and refuses a second token. The owners of the
three contracts are different fields that drift apart. `AddGuardians`, `RemoveGuardians`,
`PauseContracts` and `UnpauseContracts` are the hub's. What is bonded, issued and earned is counted as
far as the wiring decides where it goes: `Paid` gives the rewards earned to whoever is the chain's
withdraw address whenever a delegation changes; `Dispatched` is DispatchRewards of the hub and of the
dispatcher it calls, which obeys the hub it knows of; a wrong `hub_contract` makes the query for the
pause fail (`NotPaused`). Fee rates are unlimited, as in the code: with a rate above one no dispatch
succeeds and no validator with coins can be removed (`FeeCovered`).

### HubQueries

`QueriedState` is query_state, `WithdrawableUnbonded` is query_withdrawable_unbonded, and `AllHistory`
pages as `all_unbond_history` with `convert` do; the batch and the wait lists that the other queries
return are the variables themselves. A client (`ReadPage`) goes on after the last batch it knows and
thinks it is done when a page is not full; any transaction, which makes it doubt that, may come
between two pages.

## What the runs show

Every run explores its instance completely. In all hub runs `DECIMAL_FRACTIONAL` is 20, so that rates
such as 1/2, 2/3 or 4/3 are truncated or not, and the truncation reaches the coins; amounts are below
7. Two batches (`MaxBatch`) are the least that can overlap, be released together, or be confused. Times
let the second batch be released (`MaxTime`). The bounds of the guards are `MaxStake`, `MaxSupply`,
`MaxBalance`, `MaxBatch`, `MaxTime` and `MaxTotal`. Runs keep deadlock checking on: the steps of the
chain or CheckSlashing are always possible. The hub runs are of `HubQueries`, so that what is quoted is
checked next to what is stored; only `hub_live` has a client that pages (`Limits`), the others leave
`read` empty.

In the runs of `Protocol` the coins are finite (`Wealth`, and `MaxCoins` where rewards are earned) and
`Sent` names the messages that are signed in an instance, so that the size of a run goes where its
question is. Two validators are the least that can be confused or taken in the wrong order; two users
and an allowance of two the least that can overdraw one. `protocol_unbond` allows two undelegations in
flight where the chain allows seven: an epoch is exceeded after two seconds, an undelegation matures
after two and is paid out at the end of a block, which may be two seconds after another one; four seconds
are exactly what two entries can carry, and blocks come every one or two seconds in every mixture, so that
a batch falls due in the block that pays one out, too. In `administration` two dispatchers and two tokens are
the least that can be replaced, two people the least that can hand over or be owner and guardian, and
the fee rates are a half and five halves, of which the second can never be paid.

| run | question | result |
|---|---|---|
| `hub_aligned` | when what is undelegated arrives in full, is every coin that arrives attributed to its batch, is a batch released at the rate it was undelegated at, do wait lists and batches agree, can what the hub says can be withdrawn be withdrawn? Blocks are regular and the unbonding period is a block more than the chain's, the only setting in which the change of the balance is unambiguous. A slash may take all that is delegated: can the books fall behind the delegations, stAtom be priced before the slash is booked, or a bonder be diluted? | yes, but for two coins a batch in the promise; no, but for the bond after all was lost |
| `hub_slashed` | does the stale rate of `Bond` or any truncation ever promise more than is bonded, does the rate ever fall without a slash, is the rate the hub quotes backed between a slash and the transaction that books it? Can the last user withdraw when undelegations were slashed? `Solvent` allows one coin for each batch booked at nothing. | no, no, yes; yes |
| `hub_owner` | can a change of the periods, a pause or a gift make a batch be released twice, out of order, or never again? With irregular blocks, batches that lose everything, gifts and batches released before their coins come, how far can claims exceed the coins set aside? | no; one coin a batch |
| `hub_live` | is an undelegated request paid, with the blocks and periods of `hub_aligned`? Does a client that pages while batches are added miss one, or think it has all too early? | yes; no |
| `hub_shortfall` | is a loss shared in proportion? | no, see below |
| `hub_misaligned` | is the unbonded amount accurate when blocks are irregular and the hub waits just so long that no batch is released before its coins are there? | no, see below |
| `registry` | can every amount be spread over and drawn from the validators, whatever their imbalance; does bonding only level; does removal lose a coin? | yes; yes; no |
| `registry_equal` | is a bond shared equally? | no, see below |
| `protocol_unbond` | is every committed transaction of bonding, unbonding over two validators, withdrawing and burning an action of `Hub`, with aborts at every message? When the epochs are just long enough for the chain's limit of undelegations and for the time between blocks, can a batch that is due fail for it? | yes; no |
| `protocol_rewards` | is a transaction that removes a validator, redelegates or dispatches an action of `Hub`, with the rewards that are bonded in it, and does it change the delegations as `Registry` says? Does a dispatch leave a reward behind? Can the contracts call one another for ever? | yes; no; no |
| `protocol_token` | can allowances, or messages that pretend to come from a contract, move or burn what is not the sender's? | no |
| `administration` | can rewiring strand stAtom, or send rewards to a dispatcher the hub does not call? Can a guardian keep the contracts paused against the owner? | no; no |

`BonderKeepsWorth` asks whether a bonder keeps the worth of the payment, whatever was stale when the
price was made: the new stAtom and less than one unit more are as large a share of
all stAtom as the payment is of all that is delegated. The exception, which the property names, is a
bond after everything was lost while stAtom is still issued: the rate then starts over at one and the
bonder shares with the holders of stAtom that was worth nothing.

`PromiseKept` is about undelegations that arrive in full, and allows two coins a batch: the value of a
batch is truncated when its coins are counted, and the rate that is derived from them once more. At a
scale of 20, 13 stAtom at a rate of 15/20 are worth 9 coins, which makes a rate of 13/20: a claim of 12
is quoted at 9 coins and paid 7. With losses in flight the query promises too much until somebody
withdraws, because it multiplies with the rate from before `process_withdraw_rate`.

`NeverOutOfEntries` supposes epochs of a sufficient length (`EpochsSuffice`). Batches are an
`epoch_period` and a second apart at least, since it must be exceeded and not reached (`unbond.rs:305`).
An undelegation is in flight longer than the chain's unbonding time: it matures between two blocks, is
paid out at the end of the next one, and the transactions of that block still find it. So `MaxEntries`
epochs of a second more must be as long as the unbonding time and the time between two blocks together.
For the chain's seven entries, epochs of three days against an unbonding time of 21 days leave seven
seconds for the blocks: that is enough if no block is later than that, and no longer. When the epochs
are shorter, the chain refuses the undelegation and the unbonding is aborted, which the model includes.

Fairness is assumed in three runs. In `hub_live`, blocks keep being produced (`WF_vars(EndBlock)`), as the chain does, and
a user keeps sending WithdrawUnbonded until it succeeds (`WF_vars(WithdrawUnbonded(u))`), as a claimant
can; it suffices that it is weak, because a withdrawal that can be made stays possible until it is made
or until somebody else's withdrawal, which releases the same batches. Nothing makes anybody unbond, so
the claim begins when the batch has been undelegated. Requests are as large as one stAtom there and
worth a coin: a claim that is worth nothing is refused for ever by design. This is why blocks are regular
there: with those of `hub_misaligned` a batch whose coins went to an earlier one is released with nothing,
and its claims are never paid. In `protocol_rewards`, the
chain carries a transaction through once it has begun (`WF_vars(Handle)`): it executes messages one
after the other until the transaction is committed or has failed; nobody has to sign anything, and
`Abort` alone does not make the property true, since it need not happen while handlers do. In
`administration`, the owner, whoever that is, dismisses the guardians one by one and unpauses (`WF_vars`
of each); `OwnerPrevails` supposes that from some time on nobody is appointed and nobody pauses who is
not a guardian. That guardians stop is not assumed, they may pause as often as they can.

### Findings

1. `hub_shortfall`: on a shortfall each batch is charged its share and one unit more, and the sign of
   the difference is dropped (`unbond.rs:162`). A batch booked at 0 coins is so paid 1, out of another
   batch that was slashed. `Solvent` counts such batches, and `SolventUpToDust` bounds the harm.
2. `hub_misaligned`: the hub attributes all coins that arrived since the last withdrawal to the batches
   it releases (`unbond.rs:193`). If its unbonding period is longer than the chain's, a later batch's
   coins are paid to an earlier batch. No period avoids this when blocks are irregular: one that is
   shorter than the chain's and the longest time between two blocks together releases a batch before its
   coins are there, one that is longer than the chain's and the shortest time together leaves blocks in
   which a later batch has been paid out and is not finished. The run takes the least period with which
   no batch is early.
3. `registry_equal`: a bond works against imbalance and is not shared equally as the message's comment
   says (`basset/src/hub.rs:87`); of two validators with the same delegation one may receive all.

## What is proved

For any set of users, validators, amounts, periods, scale of the decimals and bounds, from the
assumptions `ScaleAssumption` (the scale is a positive number), `HubAssumption`, `RegistryAssumption`,
`QueriesAssumption`, `AdministrationAssumption` and `ProtocolAssumption` (constants have their types;
there are finitely many users and validators, and no user has the address of a contract) and
`WealthAssumption` (there are no more coins at the start than `MaxCoins`), and from what the fourth column names:

| theorem | of the runs' property | inductive invariant | supposes |
|---|---|---|---|
| `HubProofs!TypeCorrect` | `TypeOK` | `OrderInv` | |
| `HubProofs!ReleasedInOrder` | `ProcessedInOrder` | `OrderInv` | |
| `HubProofs!RateIsFinal` | `ReleasedForGood` | `OrderInv` | |
| `HubProofs!BooksCover` | `BooksCoverStake` | `BooksInv` | |
| `HubProofs!RateIsBacked` | `RateBacked` | `BooksInv` | |
| `HubProofs!RateFalls` | `RateFallsOnlyAfterSlash` | `BooksInv` | |
| `HubProofs!SlashingComesFirst` | `PricedAfterSlashing` | `BooksInv` | |
| `HubProofs!BalanceKept` | `BalanceCoversPrev` | `OrderInv` with itself | |
| `HubProofs!BonderIsNotDiluted` | `BonderKeepsWorth` | `BooksInv` | |
| `HubClaimsProofs!RequestsBookedTwice` | `RequestsMatchBatches` | `ClaimsInv` | |
| `HubClaimsProofs!ClaimsAreCovered` | `SolventUpToDust` | `DuesInv` | `FewCoins` |
| `HubClaimsProofs!CoinsAreBooked` | `CoinsMatchBooks` | `CoinsInv` | `InStep`, `Lossless` |
| `HubClaimsProofs!BookedValueIsPaid` | `ReleasedAtBookedValue` | `CoinsInv` | `InStep`, `Lossless` |
| `HubClaimsProofs!HubIsSolvent` | `Solvent` | `SolventInv` | `InStep`, `FewBatches` |
| `HubClaimsProofs!QuoteIsBacked` | `QuotedRateBacked` | `BooksInv` | |
| `HubClaimsProofs!PagesCover` | `PagesCoverHistory` | `PagesInv` | |
| `HubClaimsProofs!QueryIsPaid` | `PromiseKept` | `PromiseInv` | `InStep`, `Lossless`, `FewTokens` |
| `RegistryProofs!TypeCorrect` | `TypeOK` of `Registry` | itself | |
| `RegistryProofs!EveryBondIsPlaced` | `BondsArePlaced` | `TypeOK` | |
| `RegistryProofs!EveryUndelegationIsPlaced` | `UndelegationsArePlaced` | `TypeOK` | |
| `RegistryProofs!CoinsStayRegistered` | `OnlyRegisteredGain` | `TypeOK` | |
| `RegistryProofs!RemovalKeepsCoins` | `RemovalMovesEverything` | `TypeOK` | |
| `RegistryProofs!BondsLevel` | `BondOnlyLevels` | `TypeOK` | |
| `AdministrationProofs!ConfigurationTypes` | `TypeOK` of `Administration` | `WiringInv` | |
| `AdministrationProofs!TokenIsForGood` | `IssuedCanUnbond` | `WiringInv` | |
| `AdministrationProofs!DispatcherIsPaid` | `RewardsReachTheDispatcher` | `WiringInv` | |
| `ProtocolProofs!TypeCorrect` | `TypeOK` of `Protocol` | `Typed` | |
| `ProtocolProofs!HubKeepsTokens` | `HubTokensKept` | `Typed`, `Announced` | |
| `ProtocolProofs!EntriesSuffice` | `NeverOutOfEntries` | `Typed`, `EntriesSpaced` | |
| `TransactionProofs!RegistryImplemented` | `ImplementsRegistry` | `Typed`, `Bounded`, `Stage` | |
| `TransactionProofs!DispatchIsComplete` | `DispatchTakesAll` | `Typed`, `Earned`, `Taking` | |

### What is supposed, and why

- `InStep`: blocks come at regular intervals, of any length, and the owner may choose no unbonding
  period but the chain's and one block more. It is the only setting in which the hub's way of counting
  what arrived is exact, and an idealisation: the blocks of a real chain are not regular, and with
  others no period does (finding 2). The theorems that suppose it say what the hub's books are worth in
  the best case; those that do not hold with any blocks.
- `Lossless`: undelegations arrive in full and nobody sends the hub coins. The three properties are
  about that case, as `hub_aligned` is; `ClaimsAreCovered` and `HubIsSolvent` are about the others.
- `FewCoins`, `FewTokens`: there are fewer coins (times the number of batches), and fewer stAtom, than
  the scale of the decimals. The scale is 10^18 and the chain has some 10^14 of its smallest coins. With
  more, the truncation of a rate would lose more than one coin of a batch: the tolerances of a coin a
  batch and two coins a batch are then too small. The runs are within these bounds: at a scale of 20,
  two batches of at most three coins and three stAtom.
- `FewBatches`: coins times the square of the number of batches are fewer than the scale. What is
  needed is that the number of batches released at once, times their coins, is; the model bounds neither
  but by all batches there can be. It is sufficient, and not claimed to be necessary.

### The arguments

`OrderInv` is `TypeOK` with `ProcessedInOrder`: the bound on the length of the history, which the type
of the wait lists relies on, needs that batch ids count the batches. That batches are released in order
rests on `LastProcessedBound`: the batches processed at once are exactly those between the old and the
new `last_processed_batch`, which needs that a finite set of ids has a greatest element
(`GreatestExists`).

`BooksInv` adds the money. `BooksCoverStake` gives that a check for slashing makes the books exactly the
delegation (`SyncedBooks`), whichever of its early returns is taken. `RateInv` strengthens `RateBacked`
by two facts it needs to be inductive: a delegation is never slashed to nothing (that is the
assumption `~TotalLoss`), so books are never cut to 0 under stAtom still issued; and with no stAtom in
circulation and coins bonded the rate is one, so that a first bond does not lower it. The steps then
come down to three inequalities: what is minted is worth no more than the payment (`MintBacked`), what
is undelegated is worth no more than the batch (`UndelegationBacked`), and burning needs nothing
(`BurnBacked`); the rate recomputed is the greatest that is backed (`ExchangeRateGreatest`), hence it
does not fall.

`BonderIsNotDiluted` uses `BooksInv` and one more inequality: what is minted is the greatest amount that
the payment is worth at the rate (`MintedIsGreatest`), so that one more unit is worth more, and a rate
that is backed (`ActualRateBacked`) gives the share (`ShareOfPayment`). `QuoteIsBacked` is the same fact
seen by a query.

`ClaimsInv` is `OrderInv` with `RequestsMatchBatches` itself: a step changes at most one entry of one
user's list, and the sum over users with it (`RequestedStored`); a withdrawal takes entries of released
batches only, of which nothing is claimed.

Solvency is proved batch by batch. `Dues` is by released batch what its claims are worth together, and
`Due` their sum. What one user is owed, truncated for each claim, is no more (`OwedWithinDue`), and so
it suffices to bound `Due`. A release pays each batch at most its share of what arrived and a coin
(`PaidOutShare`, where the scale is large enough for the weights of the batches), and so all of them
what arrived and a coin each (`ReleasePaid`). `DuesInv` therefore allows a coin for each released batch,
and a payment takes the same from both sides (`DuePaid`). For `SolventInv` that coin is found to be due
only to a batch booked at nothing: a batch worth something is charged a coin more than its share of the
loss, which outweighs what all weights of the release lose by truncation (`WorthyPaid`, from
`FewBatches`). That needs that if such a batch is released, something arrived (`WorthArrives`), which
only a slash of all that is in flight would prevent.

`CoinsInv` says where the coins of a batch are: in flight until the block in which the chain pays,
then in the balance, and released batches have been paid. With `InStep` the release takes exactly the
batches that arrived since the last one (`ReleasesWhatArrived`), so that the change of the balance is
what they are booked at. `FullInv` adds that `Due` never exceeds the coins set aside: without losses a
batch is released at no more than its booked value. `PromisedForBatch` then compares what the query
multiplies with what the release stores, for one batch: the two truncations (`RateTruncatedTwice`).

In `Registry` the algorithms carry the weight. What a pass over the validators leaves over is the amount
less the room of all of them, or nothing (`LeftoversSum`), and even shares add up to the total
(`EvenSharesSum`): the room is the total with the amount less what is there, wherever a validator above
its share only adds room, so that the amount fits (`DelegationsPlaced`, `UndelegationsPlaced`). No
property of the order is used, except that a sort lists every validator once: the ranks of a finite set
under a linear order are the numbers up to its size (`RankExists`, `AscendingLists`), and sums over the
set and over the list are the same (`SumOverEnumerated`). `RemoveStep` puts two of these together: the coins moved
are those of the removed validator, and the rewards are bonded after they have moved.

`PagesInv`: what the client has read is the numbers 1 to n in order, n is at most the length of the
history, and is that length when the client thinks it is done; a transaction only appends to the
history, and takes the doubt back.

`WiringInv` is `TypeOK` of `Administration` with `IssuedCanUnbond` and the one relation between three
contracts and the chain that the rest hangs on: once the hub knows a dispatcher the chain pays to it,
and as long as it knows none nothing is delegated and no rewards are earned, so that there is nothing
the chain could pay to the hub.

`Typed` is `TypeOK` of `Protocol` with two things it needs: the type of every message that can be
waiting (`Messages`), and that batches are numbered and undelegated within the bounds (`Numbered`). The
handlers compute with instances of `Hub` and `Registry`, and so does the proof: what `HubProofs` and
`RegistryProofs` say of their operators is carried over (`HubComputes`, `ValidatorsListed`). Most
handlers are `Quiet`: they take no stAtom from the hub, leave the undelegations alone and answer with
messages that do the same. That leaves four to look at (`StepCases`).

`Announced`: a message that will take stAtom from the hub, the token's `Receive` and the hub's `Burn`,
is the last of its transaction, and the hub holds so much more than when the transaction began. A send
opens a transaction and is alone in it. A user who signs `Receive` or `Burn` is not the token or the
hub, which is where the assumption on addresses is used.

`EntriesSpaced`: the undelegations in flight of a validator are more than an epoch apart from one another
and from the next batch, and what is still to be undelegated belongs to the batch closed in this block;
and one that matured is found until the block that pays it out has ended (`Pending`), which is where the
time between two blocks comes in. Numbers that are `EpochPeriod + 1` apart and lie in less than
`MaxEntries` times that are fewer than `MaxEntries` (`FewSpaced`).

`RegistryImplemented` is the refinement: a transaction of `Protocol`, with any number of validators and
messages, is one action of `Registry` or none of its business. `Ahead` is what the validators will have
when the messages to the chain that are waiting have been carried out, as sums over the queue (`Due`).
Carrying one out moves its coins from the queue to the validators and leaves `Ahead` as it is
(`LeafStep`), whatever the checks, payments and mints in between do. So the effect of a transaction is
known as soon as its last contract has answered, and `Stage` says where it is: only `Opened`, and nothing
has happened; `Removing`, with the removal itself done and the redelegation to come; `Dispatching` and
`Bonding`, where the removal's redelegation is ahead or done (`Prepared`) and the rewards are still to be
withdrawn, split and bonded; `Settling`, where what is ahead is `Reached`, the effect of one action of
`Registry`. That the messages of a handler add up to what `Registry` computes at once is proved for each
of the three lists of messages, by position in a sorted list (`DelegatesLand`, `UndelegatesLand`,
`RedelegatesLand`; a message for nothing is left out, `DueChosen`). `ReachedIsStep` adds the bounds
`Registry` puts on its amounts, which hold because coins are made by rewards only (`Bounded`: a
conservation law over accounts, delegations, undelegations and rewards, through every handler). At
`Commit` nothing is ahead (`CommitIsStep`). With it every theorem of `RegistryProofs` holds of the
composed contracts.

`DispatchIsComplete` follows the rewards through a transaction. `Taking` says how far it has come: `Idling`,
nothing is delegated and no fee is paid; `Signing` and `Paying`, a user's bond, for which the user's coins
have become fewer; and for a dispatch `Preparing`, the redelegations of a removal before it; `Withdrawing`,
every validator that owes rewards is still to be asked; `Splitting`, the dispatcher has them all;
`Delegating`, what is delegated and what is still to be is the hub's part (`DelegatesAll`: the shares of the
validators add up to the amount), and the fee waits behind; `Dispatched`. Until the split the sum of what
the dispatcher and the validators have stays what it was when the transaction began (`AllThere`), for
whatever the chain pays out on the way goes to the dispatcher (`PaidToDispatcher`), the source and the
target of a redelegation included. The hub asks only validators with a delegation; that these are all
that owe rewards is `Earned`, an invariant of its own: whenever a delegation changes its rewards are paid.

Sums are recursive functions, and that they exist and are natural numbers is proved by induction over
sets of numbers (`NatSetInduction`), without the library's induction theorems. Sums over users or
validators follow from an enumeration of the set (`SumOverSupport`).

Only model-checked:

- liveness (`ClaimsArePaid`, `TransactionsEnd`, `OwnerPrevails`), which is out of the prover's reach;
- of `Protocol`, the refinement `ImplementsHub`: it needs an invariant as `Stage` is for the registry, that
  says of every message that can be waiting what those before it have done to the coins and the books.

## Not modelled, and the plan

Left out, with the reason:

- `migrate` of each contract is empty; schemas, test helpers and build artifacts are generated or not
  part of the program;
- the token's marketing text and logo, and the expiry of allowances: cw20_base keeps them and nothing
  here reads them;
- denominations, several coins in one payment, addresses that are not valid: an error each, before
  anything is stored; hence `Abort`;
- the width of integers: amounts are bounded by the coins there are, far below 128 bits;
- the keys of the wait lists as text: the lists are read as a set of batches here, and no order of
  theirs reaches a result, since amounts are added and entries removed;
- UpdateParams in the middle of `Protocol`: it is an action of `Hub`, with the periods it gives;
- an abstract vault of claims and coins above `Hub`: truncation, charged to every batch, makes a claim
  worth a coin more or less at every step, so that such a specification would either repeat the
  arithmetic or promise nothing. `Solvent`, `PromiseKept` and `BonderKeepsWorth` say with which
  tolerance the promises of a vault are kept.

What is left to do is proof about `Protocol`: for every kind of transaction, what `work` is to the hub
when a message of it is first in the queue, as `Stage` says it of the validators. From that follow,
transaction by transaction, the steps of `ImplementsHub`.
