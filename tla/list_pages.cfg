SPECIFICATION Spec
CONSTANTS
  Lists = {"ArtifactsList", "IsDependencyList", "IsDependencyListOf", "SourcesList", "SourcesListOf", "PackagesList", "PackagesListOf"}
  PageSizes = {0, 1, 2}
  Parents = {1, 2, 3}
  TypeID <- MCTypeID
  FirstID = 8
  MaxID = 11
INVARIANTS ListTypeOK ListedOnce PromisedPage
PROPERTIES PagingEnds
CHECK_DEADLOCK FALSE
