SPECIFICATION MCSpec
CONSTANTS
  Projects <- MCProjects
  Methods <- MCMethods
  Subject <- MCSubject
  Deadline = 1
  Columns = {"c", "s"}
  Fields = {"x", "y"}
  Schemas <- MCSchemas
  OwnerActs = TRUE
INVARIANTS IMTypeOK SuccessRanItsCode MergesItsOwnRows DoneMeansAligned
PROPERTIES AppendOnlyAdds ModelsSettle
CHECK_DEADLOCK FALSE
