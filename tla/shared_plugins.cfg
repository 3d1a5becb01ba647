SPECIFICATION FairSpec
CHECK_DEADLOCK FALSE
CONSTANTS
  p1 = p1  p2 = p2  e1 = e1  e2 = e2  e3 = e3
  None = None  Absent = Absent
  Pipes = {p1, p2}  Config <- MCConfig  Types <- MCTypes  Events <- MCEvents  KeyOf <- MCKeyOf
  Copies = {1, 2}  MaxStarts <- MCStarts  MaxFaults = 1  Attempts <- MCAttempts
INVARIANTS InUseIsOpen StoppedIsFree OneOriginal
PROPERTY StatsReported
