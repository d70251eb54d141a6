SPECIFICATION Spec
CONSTANTS
  Tables = {t1}
  Calls = {c1}
  Partitions = {p1, NullPartition}
  NullPartition = NullPartition
  Everything = Everything
  NoCall = NoCall
  NoRequest = NoRequest
  Faults = {}
  Owners = {}
  Kinds = {"partitioned"}
  Ends = {0}
  Questions <- NullQuestions
  MaxTime = 2
  MaxWrites = 1
  MaxErrors = 0
  MaxCheckpoints = 3
INVARIANTS
  EmptyMeansNoChanges
