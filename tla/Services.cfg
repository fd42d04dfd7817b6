SPECIFICATION LiveSpec
CONSTANTS
  s1 = s1
  s2 = s2
  a1 = a1
  a2 = a2
  c1 = c1
  c2 = c2
  p1 = p1
  p2 = p2
  p3 = p3
  r1 = r1
  r2 = r2
  r3 = r3
  g1 = g1
  g2 = g2
  y1 = y1
  y2 = y2
  f1 = f1
  t1 = t1
  t2 = t2
  t3 = t3
  w1 = w1
  Scripts = {s1, s2}
  Attempts = {a1, a2}
  Configs = {c1, c2}
  MaxDeaths = 1
  Pods = {p1, p2, p3}
  NFiles = 2
  NCases = 2
  Requests = {r1, r2, r3}
  Settings = {g1, g2}
  MaxBatch = 2
  MaxShutdowns = 1
  Syncs = {y1, y2}
  Files = {f1}
  MaxCommits = 3
  PerPage = 2
  Tasks = {t1, t2, t3}
  Suites <- MCSuites
  Authors = {w1}
  Measurements <- MCMeasurements
  Reviewed <- MCReviewed
  Labellers <- MCLabellers
  Editions <- MCEditions
  MaxLabels = 2
  MaxReviews = 2
  MaxFailures = 1
CHECK_DEADLOCK FALSE
INVARIANT ServicesTypeOK
INVARIANT RegisteredIsOneRun
INVARIANT OneRevisionPerFile
INVARIANT LearningIsGrounded
INVARIANT WaitingIsServed
PROPERTY AttemptSettles
