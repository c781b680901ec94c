\* Bonding, unbonding over two validators and withdrawing, with slashes.  The
\* epochs are just long enough for two undelegations in flight and for blocks
\* that are up to two seconds apart.
SPECIFICATION Spec
CONSTANTS
  DECIMAL_FRACTIONAL = 20
  Users = {u1, u2}
  Validators = {1, 2}
  EpochPeriod = 1
  UnbondingPeriod = 3
  ChainUnbonding = 2
  BlockGaps = {1, 2}
  MaxEntries = 2
  FeeRate = 5
  Sent = {"BondForStAtom", "Send", "WithdrawUnbonded", "Burn", "CheckSlashing", "BankSend"}
  Payments = {2}
  Amounts = {1}
  Losses = {1}
  Wealth = 2
  MaxCoins = 4
  MaxAllowance = 1
  MaxTime = 5
  MaxBatch = 2
 
PROPERTIES ImplementsHub
