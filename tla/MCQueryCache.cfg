SPECIFICATION Spec
CONSTANTS
  Threads = {t1, t2}
  Builders = {b1, b2}
  Cells = {c1, c2}
  Queries = {q1, q2}
  DefaultQuery = q1
  BadQueries = {}
  old = old
  new = new
  forked = forked
  Snapshots = {old, new}
  KeyOf <- MCVersions
  None = None
  BuilderOps = {"clone", "modify unshared"}
  MaxRuns = 3
SYMMETRY ThreadSymmetry
INVARIANTS
  TypeOK
  AnswersFit
  CachesFit
