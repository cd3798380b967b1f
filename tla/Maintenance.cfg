SPECIFICATION Maintained
CONSTANTS
  Versions <- MCVersions
  MaxCommits = 8
  MaxMishaps = 2
  Slips = {"names", "manifests", "pin", "changelog", "lock"}
  Beginnings <- MCBeginnings
  Watches <- MCWatches
  Releases = {1, 2, 3, 4}
  MaxOthers = 1
  MaxClosed = 1
  RecentIssues = 1
  MaxTrouble = 2
INVARIANTS
  PushedTagIsWhatMerged
  PointerIsProven
  IssuesAreFiledOnce
  SuccessMeansTracked
PROPERTIES
  PointerOnlyAdvances
CHECK_DEADLOCK FALSE
