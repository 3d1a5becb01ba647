SPECIFICATION Spec
CONSTANTS
  x1 = x1  x2 = x2  x3 = x3
  o1 = o1  o2 = o2  o3 = o3  o4 = o4  o5 = o5
  m1 = m1  m2 = m2  m3 = m3  i1 = i1  i2 = i2  v1 = v1  v2 = v2
  Ids = {i1}
  Callers = {x1, x2}
  Objs = {o1, o2, o3}
  Mutexes = {m1, m2}
  Versions = {v1, v2}
  None = None
  Ops <- OperatorAndEditor
  Locking = TRUE  Migrate = TRUE  Async = FALSE  FailFast = TRUE
  Failures = {"build", "acquire", "crash"}
SYMMETRY Symmetry
INVARIANT LocksFollowRuns
PROPERTIES LockedNotEdited LaunchedOnce
