SPECIFICATION LiveSpecJ
CONSTANTS
  w1 = w1
  w2 = w2
  train = train
  clean = clean
  c1 = c1
  f1 = f1
  FINAL_STEP_ID = FINAL_STEP_ID
  None = None
  Workers = {w1}
  Tools = {clean, train}
  SideEffecting = {train}
  NeedsApproval = {}
  JobTools = {clean, train}
  MaxRetries <- NoRetries
  Criteria = {c1}
  FinalCriteria = {}
  MaxSteps = 2
  MaxPlanVersion = 1
  MaxAttempt = 2
CHECK_DEADLOCK FALSE
INVARIANT WaitingHasJob
PROPERTY WaitEnds
