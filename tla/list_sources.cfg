SPECIFICATION Spec
CONSTANTS
  Lists = {"SourcesList"}
  PageSizes = {0, 1, 2}
  Parents = {1, 2, 3}
  TypeID <- MCTypeID
  FirstID = 8
  MaxID = 11
INVARIANTS AllSources
CHECK_DEADLOCK FALSE
