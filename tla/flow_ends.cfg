SPECIFICATION FairSpec
CHECK_DEADLOCK FALSE
CONSTANTS
  i1 = i1 i2 = i2 l1 = l1 l2 = l2 e1 = e1 e2 = e2 t1 = t1 t2 = t2 t3 = t3 t4 = t4
  None = None
  Inputs = {i1, i2}  Lines = {l1, l2}  Stages = 3  Outs = 1
  Filtered = {"processor"}
  MixStage = 2  Cap = 1  Batch = 2  Clones = 0
  Events = {e1}  Tokens = {t1}
INVARIANT NoSendOnClosed
PROPERTY EventsAcknowledged
PROPERTY Stops
