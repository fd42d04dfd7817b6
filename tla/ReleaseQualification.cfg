SPECIFICATION Spec
CONSTANTS
  a1 = a1
  a2 = a2
  x1 = x1
  d1 = d1
  d2 = d2
  e1 = e1
  e2 = e2
  t1 = t1
  t2 = t2
  r1 = r1
  r2 = r2
  u1 = u1
  u2 = u2
  q1 = q1
  s1 = s1
  s2 = s2
  Decision = Decision
  None = None
  Annotations = {a1, a2}
  Snapshots = {x1}
  Adapters = {d1}
  Evaluations = {e1, e2}
  Trials = {t1}
  Releases = {r1}
  Users = {u1, u2}
  Qualifications = {q1}
  Sessions = {s1}
  Revocable = {}
  RequiredTrials = 1
CHECK_DEADLOCK FALSE
SYMMETRY JudgingSymmetry
INVARIANT VerifiedIsMeasured
INVARIANT QualifiedIsMeasured
