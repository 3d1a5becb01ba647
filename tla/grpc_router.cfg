SPECIFICATION FairSpec
CHECK_DEADLOCK FALSE
CONSTANTS
  r1 = r1  r2 = r2  c1 = c1  c2 = c2
  None = None
  Rpcs = {r1}  Clients = {c1, c2}  Events = 2
INVARIANT DeliveredOnce
PROPERTIES NobodyLeftOut EventsReported Returns
