SPECIFICATION LiveSpec
CONSTANTS
  w1 = w1
  w2 = w2
  lookup = lookup
  publish = publish
  c1 = c1
  f1 = f1
  FINAL_STEP_ID = FINAL_STEP_ID
  None = None
  Workers = {w1, w2}
  Tools = {publish}
  SideEffecting = {publish}
  NeedsApproval = {publish}
  MaxRetries <- OneRetry
  Criteria = {c1}
  FinalCriteria = {f1}
  MaxSteps = 1
  MaxPlanVersion = 1
  MaxAttempt = 3
CHECK_DEADLOCK FALSE
PROPERTY RunSettles
