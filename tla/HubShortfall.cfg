\* Undelegations are slashed: is the loss shared in proportion?
SPECIFICATION QueriesSpec
CONSTANTS
  DECIMAL_FRACTIONAL = 20
  Users = {u1, u2}
  EpochPeriods = {0}
  UnbondingPeriods = {3}
  ChainUnbonding = 2
  BlockGaps = {1}
  Payments = {3}
  Requests = {1, 2}
  Rewards = {}
  Donations = {}
  StakeLosses = {1}
  InFlightLosses = {1}
  TotalLoss = FALSE
  OwnerActs = FALSE
  MaxTime = 7
  MaxBatch = 2
  MaxStake = 3
  MaxSupply = 3
  MaxBalance = 4
  Limits = {}
  None = None
  DEFAULT_LIMIT = 1
  MAX_LIMIT = 2
SYMMETRY Symmetry
PROPERTIES ShortfallNeverRaisesPayout
