SPECIFICATION FairSpec
CHECK_DEADLOCK FALSE
CONSTANTS
  p1 = p1  p2 = p2
  Parts = {p1, p2}  Length = 2  MaxEvents = 2
  MaxUncommitted = 2  Generations = 2
INVARIANTS DoneIsClean
PROPERTIES CommitSpec QueueMoves Leaves
