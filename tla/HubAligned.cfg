\* Regular blocks, and an unbonding period that is a block longer than the
\* chain's.  What is undelegated arrives in full; a slash may take all that
\* is delegated.  No donations; nobody reads the history.
SPECIFICATION QueriesSpec
CONSTANTS
  DECIMAL_FRACTIONAL = 20
  Users = {u1, u2}
  EpochPeriods = {0}
  UnbondingPeriods = {5}
  ChainUnbonding = 3
  BlockGaps = {2}
  Payments = {2}
  Requests = {1, 2}
  Rewards = {1}
  Donations = {}
  StakeLosses = {1}
  InFlightLosses = {}
  TotalLoss = TRUE
  OwnerActs = FALSE
  MaxTime = 10
  MaxBatch = 2
  MaxStake = 3
  MaxSupply = 3
  MaxBalance = 4
  Limits = {}
  None = None
  DEFAULT_LIMIT = 1
  MAX_LIMIT = 2
SYMMETRY Symmetry
INVARIANTS RequestsMatchBatches CoinsMatchBooks PromiseKept BooksCoverStake
PROPERTIES ReleasedAtBookedValue PricedAfterSlashing BonderKeepsWorth
