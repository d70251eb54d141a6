SPECIFICATION Spec
CONSTANTS
  Threads = {w1, w2}
  Statements = {q1, k1}
  Copies = {k1}
  JobIds = {j1, j2}
  NoWork = NoWork
  NoThread = NoThread
  Retries = 1
  CancelFaults = TRUE
SYMMETRY IdSymmetry
INVARIANTS
  TypeOK
PROPERTIES
  ImplementsEffects
  ClosedMeansAsked
  RetriesRunOut
CHECK_DEADLOCK FALSE
