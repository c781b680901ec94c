\* The owners rewire the contracts while they are used.
SPECIFICATION FairSpec
CONSTANTS
  DECIMAL_FRACTIONAL = 2
  Accounts = {a, b}
  Dispatchers = {d1, d2}
  Tokens = {t1, t2}
  None = None
  FeeRates = {1, 5}
  MaxStaked = 1
  MaxRewards = 2
INVARIANTS TypeOK IssuedCanUnbond
PROPERTIES RewardsReachTheDispatcher OwnerPrevails
