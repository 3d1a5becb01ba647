SPECIFICATION Spec
SYMMETRY Symmetry
CHECK_DEADLOCK FALSE
CONSTANTS
  i1 = i1 i2 = i2 l1 = l1 l2 = l2 e1 = e1 e2 = e2 t1 = t1 t2 = t2 t3 = t3 t4 = t4
  None = None
  Inputs = {i1}  Lines = {l1}  Stages = 1  Outs = 2
  Filtered = {"input", "processor", "output"}
  MixStage = 0  Cap = 1  Batch = 2  Clones = 1
  Events = {e1, e2}  Tokens = {t1, t2, t3}
INVARIANT DutyIsCopies
PROPERTY DeliverySpec
