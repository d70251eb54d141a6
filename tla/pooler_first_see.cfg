SPECIFICATION Spec
CONSTANTS
  Tables = {t1}
  Calls = {c1}
  Partitions = {p1}
  NullPartition = NullPartition
  Everything = Everything
  NoCall = NoCall
  NoRequest = NoRequest
  Faults = {}
  Owners = {}
  Kinds = {"partitioned"}
  Ends = {0}
  Questions <- InitialQuestions
  MaxTime = 1
  MaxWrites = 1
  MaxErrors = 1
  MaxCheckpoints = 3
INVARIANTS
  FirstSeeMeansEntireTable
