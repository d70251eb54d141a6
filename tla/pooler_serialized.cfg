SPECIFICATION Spec
CONSTANTS
  Tables = {t1}
  Calls = {c1, c2}
  Partitions = {p1}
  NullPartition = NullPartition
  Everything = Everything
  NoCall = NoCall
  NoRequest = NoRequest
  Faults = {}
  Owners = {}
  Kinds = {"missing", "plain", "partitioned"}
  Ends = {0, 1}
  Questions <- SerializedQuestions
  MaxTime = 2
  MaxWrites = 1
  MaxErrors = 1
  MaxCheckpoints = 3
SYMMETRY CallSymmetry
INVARIANTS
  TypeOK
  PoolsOnLatest
  WindowsTile
  RejectedOnlyOnFailure
PROPERTIES
  RefinesLedger
