CONSTANTS
  Jobs <- AllJobs
  MaxRounds = 5
  Fuel = 12
  MaxTodo = 40
  CheckHint <- Checks
SPECIFICATION FairSpec
INVARIANTS SameBehaviour LoweringAccepted StaysAccepted NoLostJump UniqueLabels
PROPERTIES EntryStays Finishes
CHECK_DEADLOCK FALSE
