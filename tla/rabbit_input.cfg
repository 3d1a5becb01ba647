SPECIFICATION FairSpec
CHECK_DEADLOCK FALSE
CONSTANTS
  q1 = q1  q2 = q2
  Queues = {q1, q2}  Length = 2  Bad <- Second  MaxEvents = 2
  MaxUndelivered = 1  Policies = {"drop", "reject", "requeue", "consume"}  Faults = 1
INVARIANT DoneIsClean
PROPERTIES Leaves AllConsumed SourceSpec
