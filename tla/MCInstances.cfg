CONSTANTS
  w = w
  v = v
  s = s
  Instance = {w, v, s}
  Engine <- Engines
  Top <- Programs
  Code <- Statements
  Entries = {"spend", "keep", "dive", "hidden"}
  Inputs = {"typed"}
  MaxSteps = 12
  MaxMemory = 3
  MaxCallDepth = 2
  MemoryCadence = 3
  MaxBatch = 2
  MaxRequests = 4
SPECIFICATION Spec
INVARIANTS TypeOK GuardExact AtRest EntriesAreFinal AsIfAlone
PROPERTIES ValuesFit FailFast OperationsEnd
CHECK_DEADLOCK FALSE
