\* Is what is bonded shared equally?
SPECIFICATION Spec
CONSTANTS
  Validators = {1, 2, 3}
  Amounts = {1, 2, 5}
  Losses = {1, 2}
  MaxTotal = 9
PROPERTIES BondedEqually
