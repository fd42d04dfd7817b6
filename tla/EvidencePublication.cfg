SPECIFICATION LiveSpec
CONSTANTS
  c1 = c1
  c2 = c2
  c3 = c3
  None = None
  Callers = {c1, c2, c3}
  Outcomes = {"succeeded", "failed"}
  MaxSnapshots = 3
INVARIANT OnePublisher
INVARIANT PublishedIsIntact
INVARIANT DeletedIsGone
PROPERTY EventuallyPublished
