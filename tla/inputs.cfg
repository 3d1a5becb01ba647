SPECIFICATION FairIngest
CHECK_DEADLOCK FALSE
CONSTANTS
  a1 = a1  a2 = a2  r1 = r1  None = None
  Kinds = {"http", "httpl", "beats", "unary", "stream", "subscriber", "sql", "cronjob"}
  Cuttable = {"stream", "sql"}
  Tries = {a1, a2}  Requests = {r1}  MaxRows = 2  NumWorkers = 2
  MaxCopies = 2  Careless = FALSE
  Lines <- MCLines
INVARIANT HandedOn
PROPERTIES SourceSpec Answered Ends
