SPECIFICATION FairSpec
CONSTANTS
  Requests <- MCRequests
  Jobs <- MCJobs
  Keys = {"k"}
  NoKey = "nokey"
  Args = {"a", "b"}
  Profiles <- MCProfiles
  MaxEntries = 2
  PageLimit = 1
INVARIANTS
  SharedRunSurvives
  AnswersAreTrue
  TaskMapKeepsNewest
  PagingIsComplete
PROPERTIES
  CancelledSpendStops
  LateStartIsRecorded
