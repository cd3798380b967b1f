SPECIFICATION FairSpec
CONSTANTS
  s1 = s1
  s2 = s2
  t1 = t1
  t2 = t2
  NoThread = NoThread
  NoServer = NoServer
  Servers = {s1, s2}
  Threads = {t1, t2}
  Home <- MCHome
  MaxJobs = 1
  MaxCount = 1
  Results = {"valid"}
  UsesTree = {1}
  Calls = {"start", "status", "cancel"}
  Events = {"deadline", "tree"}
INVARIANTS
  LeftTreeIsReported
PROPERTIES
  OverdueJobsEnd
