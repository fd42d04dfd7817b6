SPECIFICATION Spec
CONSTANTS
  w1 = w1
  w2 = w2
  lookup = lookup
  publish = publish
  c1 = c1
  f1 = f1
  FINAL_STEP_ID = FINAL_STEP_ID
  None = None
  Workers = {w1}
  Tools = {lookup}
  SideEffecting = {}
  NeedsApproval = {}
  MaxRetries <- NoRetries
  Criteria = {}
  FinalCriteria = {f1}
  MaxSteps = 1
  MaxPlanVersion = 1
  MaxAttempt = 1
CHECK_DEADLOCK FALSE
INVARIANT CheckpointedStepsSucceeded
