\* The owner pauses the contracts and changes periods that do not match the
\* chain, so that batches are released before their coins arrive; the blocks are
\* not equally far apart; anybody sends coins to the hub, and a slash may take
\* everything that is in flight.
SPECIFICATION QueriesSpec
CONSTANTS
  DECIMAL_FRACTIONAL = 20
  Users = {u1, u2}
  EpochPeriods = {0}
  UnbondingPeriods = {1, 3}
  ChainUnbonding = 2
  BlockGaps = {1, 2}
  Payments = {3}
  Requests = {1, 2}
  Rewards = {}
  Donations = {1}
  StakeLosses = {}
  InFlightLosses = {1}
  TotalLoss = TRUE
  OwnerActs = TRUE
  MaxTime = 6
  MaxBatch = 2
  MaxStake = 3
  MaxSupply = 3
  MaxBalance = 1
  Limits = {}
  None = None
  DEFAULT_LIMIT = 1
  MAX_LIMIT = 2
SYMMETRY Symmetry
INVARIANTS TypeOK ProcessedInOrder BalanceCoversPrev SolventUpToDust
PROPERTIES ReleasedForGood
