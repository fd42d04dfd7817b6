SPECIFICATION Spec
CONSTANTS
  w1 = w1
  w2 = w2
  lookup = lookup
  publish = publish
  c1 = c1
  f1 = f1
  FINAL_STEP_ID = FINAL_STEP_ID
  None = None
  Workers = {w1}
  Tools = {lookup, publish}
  SideEffecting = {}
  NeedsApproval = {publish}
  MaxRetries <- NoRetries
  Criteria = {c1}
  FinalCriteria = {f1}
  MaxSteps = 2
  MaxPlanVersion = 2
  MaxAttempt = 0
CHECK_DEADLOCK FALSE
INVARIANT SucceededMeansVerified
INVARIANT ApprovalBinding
PROPERTY PrefixImmutable
PROPERTY ImplementsLog
