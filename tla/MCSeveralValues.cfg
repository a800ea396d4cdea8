CONSTANTS
  Jobs <- SeveralValues
  MaxRounds = 5
  Fuel = 12
  MaxTodo = 40
  CheckHint <- Checks
SPECIFICATION Spec
INVARIANTS SameBehaviour
CHECK_DEADLOCK FALSE
