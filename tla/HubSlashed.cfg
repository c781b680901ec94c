\* Delegations and undelegations are slashed but never lost entirely; rewards
\* are bonded; nobody reads the history.
SPECIFICATION QueriesSpec
CONSTANTS
  DECIMAL_FRACTIONAL = 20
  Users = {u1, u2}
  EpochPeriods = {0}
  UnbondingPeriods = {3}
  ChainUnbonding = 2
  BlockGaps = {1}
  Payments = {1, 2}
  Requests = {1}
  Rewards = {1}
  Donations = {}
  StakeLosses = {1}
  InFlightLosses = {1}
  TotalLoss = FALSE
  OwnerActs = FALSE
  MaxTime = 5
  MaxBatch = 2
  MaxStake = 3
  MaxSupply = 3
  MaxBalance = 4
  Limits = {}
  None = None
  DEFAULT_LIMIT = 1
  MAX_LIMIT = 2
SYMMETRY Symmetry
INVARIANTS RateBacked QuotedRateBacked Solvent
PROPERTIES RateFallsOnlyAfterSlash
