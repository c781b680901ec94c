SPECIFICATION Spec
CONSTANTS
  Validators = {1, 2, 3}
  Amounts = {1, 2, 5}
  Losses = {1, 2}
  MaxTotal = 9
INVARIANTS TypeOK BondsArePlaced UndelegationsArePlaced
PROPERTIES BondOnlyLevels OnlyRegisteredGain RemovalMovesEverything
