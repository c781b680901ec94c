\* Two users, allowances, and messages sent by somebody who is not their contract.
SPECIFICATION Spec
CONSTANTS
  DECIMAL_FRACTIONAL = 20
  Users = {u1, u2}
  Validators = {1}
  EpochPeriod = 0
  UnbondingPeriod = 2
  ChainUnbonding = 1
  BlockGaps = {1}
  MaxEntries = 7
  FeeRate = 5
  Sent = {"BondForStAtom", "BondRewards", "Receive", "DispatchRewards", "Mint", "Transfer", "TransferFrom", "Send", "SendFrom", "BurnFrom", "IncreaseAllowance", "DecreaseAllowance"}
  Payments = {1}
  Amounts = {1, 2}
  Losses = {}
  Wealth = 2
  MaxCoins = 4
  MaxAllowance = 2
  MaxTime = 1
  MaxBatch = 1
INVARIANTS TypeOK
PROPERTIES HubTokensKept
