\* Rewards are dispatched, by whoever asks and by the removal of a validator,
\* while validators are slashed and coins redelegated.
SPECIFICATION FairSpec
CONSTANTS
  DECIMAL_FRACTIONAL = 20
  Users = {u1}
  Validators = {1, 2}
  EpochPeriod = 0
  UnbondingPeriod = 1
  ChainUnbonding = 1
  BlockGaps = {1}
  MaxEntries = 7
  FeeRate = 10
  Sent = {"BondForStAtom", "Reward", "WithdrawAndDispatch", "AddValidator", "RemoveValidator", "RedelegateProxy", "PauseContracts", "UnpauseContracts"}
  Payments = {3}
  Amounts = {1}
  Losses = {1}
  Wealth = 3
  MaxCoins = 5
  MaxAllowance = 1
  MaxTime = 0
  MaxBatch = 2
PROPERTIES ImplementsHub ImplementsRegistry DispatchTakesAll TransactionsEnd
