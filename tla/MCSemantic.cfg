CONSTANTS
  Programs <- Sound
SPECIFICATION Spec
INVARIANTS
  ErrorsHandled
  MarksKept
CHECK_DEADLOCK FALSE
