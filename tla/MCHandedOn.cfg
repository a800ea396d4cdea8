CONSTANTS
  Jobs <- HandedOn
  Inputs <- SmallInputs
  Rounds = 2
  Fuel = 12
SPECIFICATION Spec
INVARIANTS NoDangling
CHECK_DEADLOCK FALSE
