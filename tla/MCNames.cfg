SPECIFICATION Spec
CONSTANTS
  Programs <- SmallPrograms
  MaxDepth = 10
INVARIANTS CyclesReported ArgumentsKept ExactChosen
PROPERTY Ends
CHECK_DEADLOCK FALSE
