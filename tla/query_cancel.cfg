SPECIFICATION Spec
CONSTANTS
  Threads = {w1, w2}
  Statements = {q1, q2}
  Copies = {}
  JobIds = {j1, j2}
  NoWork = NoWork
  NoThread = NoThread
  Retries = 1
  CancelFaults = FALSE
INVARIANTS
  CancelReachesOthers
CHECK_DEADLOCK FALSE
