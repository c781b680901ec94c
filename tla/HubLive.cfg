\* No losses; regular blocks and withdrawals that keep coming, with the periods
\* of HubAligned.cfg, while a client reads the history in pages
\* of at most two batches.
SPECIFICATION QueriesFairSpec
CONSTANTS
  DECIMAL_FRACTIONAL = 20
  Users = {u1, u2}
  EpochPeriods = {0}
  UnbondingPeriods = {3}
  ChainUnbonding = 2
  BlockGaps = {1}
  Payments = {2}
  Requests = {1}
  Rewards = {}
  Donations = {}
  StakeLosses = {}
  InFlightLosses = {}
  TotalLoss = FALSE
  OwnerActs = FALSE
  MaxTime = 5
  MaxBatch = 2
  MaxStake = 2
  MaxSupply = 2
  MaxBalance = 4
  Limits = {None, 3}
  None = None
  DEFAULT_LIMIT = 1
  MAX_LIMIT = 2
INVARIANTS PagesCoverHistory
PROPERTIES ClaimsArePaid
