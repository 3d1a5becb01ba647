SPECIFICATION Spec
CHECK_DEADLOCK FALSE
CONSTANTS
  e1 = e1  e2 = e2  e3 = e3  k1 = k1  k2 = k2  w1 = w1  w2 = w2  w3 = w3
  None = None
  Events = {e1, e2}  Keys = {k1, k2}  Writers = {w1, w2}
  Options <- Endless
INVARIANT UnackedIsRetried
