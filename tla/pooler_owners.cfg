SPECIFICATION FairSpec
CONSTANTS
  Tables = {t1}
  Calls = {c1, c2}
  Partitions = {p1}
  NullPartition = NullPartition
  Everything = Everything
  NoCall = NoCall
  NoRequest = NoRequest
  Faults = {}
  Owners = {"schema", "registry"}
  Kinds = {"missing", "partitioned"}
  Ends = {0}
  Questions <- OwnerQuestions
  MaxTime = 1
  MaxWrites = 0
  MaxErrors = 1
  MaxCheckpoints = 3
PROPERTIES
  OnlyOwnerReenables
  CallsEnd
