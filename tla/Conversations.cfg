SPECIFICATION LiveSpec
CONSTANTS
  p1 = p1
  p2 = p2
  d1 = d1
  d2 = d2
  m1 = m1
  m2 = m2
  m3 = m3
  u1 = u1
  u2 = u2
  x1 = x1
  a1 = a1
  a2 = a2
  None = None
  Contents = {m1, m2}
  Claims = {"user.preference"}
  Users = {u1, u2}
  Admins = {u2}
  Events = {1, 2}
  Calls = {p1, p2}
  Owner = u1
  Secrets = {m2}
  MaxEvents = 2
  MaxCheckpoints = 2
  Deliveries = {d1, d2}
  Documents = {x1}
  Answers = {a1, a2}
  MaxFaults = 1
CHECK_DEADLOCK FALSE
INVARIANT ConversationsTypeOK
INVARIANT OneApprovedPerClaim
INVARIANT HandoffIsComplete
INVARIANT ClosedIsDistilled
INVARIANT OneAnswerPerRequest
INVARIANT NoRevokedAnswers
PROPERTY DecisionsAreFinal
PROPERTY RequestSettles
