SPECIFICATION Spec
CONSTANTS
  w1 = w1
  w2 = w2
  lookup = lookup
  publish = publish
  c1 = c1
  f1 = f1
  FINAL_STEP_ID = FINAL_STEP_ID
  None = None
  Workers = {w1, w2}
  Tools = {lookup, publish}
  SideEffecting = {publish}
  NeedsApproval = {}
  MaxRetries <- NoRetries
  Criteria = {c1}
  FinalCriteria = {}
  MaxSteps = 1
  MaxPlanVersion = 2
  MaxAttempt = 2
SYMMETRY WorkerSymmetry
CHECK_DEADLOCK FALSE
INVARIANT TypeOK
INVARIANT SideEffectBudget
INVARIANT LeaseHolderWorksOnPlan
INVARIANT NoStaleRequest
PROPERTY ImplementsLog
