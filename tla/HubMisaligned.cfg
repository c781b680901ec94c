\* Nothing is lost and no batch is released before its coins arrive, but the
\* blocks are not equally far apart.
SPECIFICATION QueriesSpec
CONSTANTS
  DECIMAL_FRACTIONAL = 20
  Users = {u1, u2}
  EpochPeriods = {1}
  UnbondingPeriods = {4}
  ChainUnbonding = 2
  BlockGaps = {1, 2}
  Payments = {2}
  Requests = {1, 2}
  Rewards = {}
  Donations = {}
  StakeLosses = {}
  InFlightLosses = {}
  TotalLoss = FALSE
  OwnerActs = FALSE
  MaxTime = 9
  MaxBatch = 2
  MaxStake = 4
  MaxSupply = 4
  MaxBalance = 4
  Limits = {}
  None = None
  DEFAULT_LIMIT = 1
  MAX_LIMIT = 2
SYMMETRY Symmetry
PROPERTIES ReleasedAtBookedValue
