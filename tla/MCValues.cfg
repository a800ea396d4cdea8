CONSTANTS
  Jobs <- AllJobs
  Inputs <- SmallInputs
  Rounds = 2
  Fuel = 12
SPECIFICATION Spec
INVARIANTS SameValues NoDangling
CHECK_DEADLOCK FALSE
