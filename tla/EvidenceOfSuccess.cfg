SPECIFICATION StrictSpecE
CONSTANTS
  w1 = w1
  w2 = w2
  lookup = lookup
  publish = publish
  c1 = c1
  f1 = f1
  FINAL_STEP_ID = FINAL_STEP_ID
  None = None
  Workers = {w1, w2}
  Tools = {lookup}
  SideEffecting = {}
  NeedsApproval = {}
  MaxRetries <- NoRetries
  Criteria = {}
  FinalCriteria = {}
  MaxSteps = 1
  MaxPlanVersion = 1
  MaxAttempt = 1
  MaxSnapshots = 0
CHECK_DEADLOCK FALSE
SYMMETRY WorkerSymmetry
INVARIANT SucceededIsPublished
PROPERTY OnlyPendingSucceeds
