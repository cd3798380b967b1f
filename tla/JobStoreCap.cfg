SPECIFICATION Spec
CONSTANTS
  s1 = s1
  s2 = s2
  t1 = t1
  t2 = t2
  NoThread = NoThread
  NoServer = NoServer
  Servers = {s1, s2}
  Threads = {t1, t2}
  Home <- MCHome
  MaxJobs = 2
  MaxCount = 1
  Results = {"valid", "foreign"}
  UsesTree = {}
  Calls = {"start", "fetch", "list"}
  Events = {"publish", "popen", "kept"}
INVARIANTS
  CapHolds
  RunningIsTracked
PROPERTIES
  UnreturnedResultKept
