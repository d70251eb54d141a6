SPECIFICATION Spec
CONSTANTS
  Tables = {t1}
  Calls = {c1, c2}
  Partitions = {p1}
  NullPartition = NullPartition
  Everything = Everything
  NoCall = NoCall
  NoRequest = NoRequest
  Faults = {"session", "clock"}
  Owners = {}
  Kinds = {"partitioned"}
  Ends = {0}
  Questions <- FaultyQuestions
  MaxTime = 2
  MaxWrites = 1
  MaxErrors = 0
  MaxCheckpoints = 3
SYMMETRY CallSymmetry
INVARIANTS
  AnswerCoversChanges
