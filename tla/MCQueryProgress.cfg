SPECIFICATION Spec
CONSTANTS
  Threads = {t1, t2}
  Builders = {b1, b2}
  Cells = {c1, c2}
  Queries = {q1, bad}
  DefaultQuery = q1
  BadQueries = {bad}
  old = old
  new = new
  forked = forked
  Snapshots = {old, forked}
  KeyOf <- MCLineages
  None = None
  BuilderOps = {}
  MaxRuns = 3
INVARIANTS
  AnswersFit
PROPERTIES
  RunFinishes
