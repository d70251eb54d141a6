SPECIFICATION MCSpec
CONSTANTS
  Day = 2
  MaxRuns = 2
  MaxSets = 2
  Threads = 0
  Places = {0, 1, 2}
  Old = Old
  Models <- MCModels
  Lists <- MCLists
  MaxRelists = 1
INVARIANTS ExtTypeOK CheckpointCoversSets BucketsDoNotRace RowsOnce SuccessReplaces
           PoolGoesOn
PROPERTIES NeverEmptied RunsSettle
CHECK_DEADLOCK FALSE
