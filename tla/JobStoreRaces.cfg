SPECIFICATION Spec
CONSTANTS
  s1 = s1
  s2 = s2
  t1 = t1
  t2 = t2
  NoThread = NoThread
  NoServer = NoServer
  Servers = {s1, s2}
  Threads = {t1, t2}
  Home <- MCHome
  MaxJobs = 1
  MaxCount = 1
  Results = {"valid"}
  UsesTree = {}
  Calls = {"start", "status", "cancel", "consume"}
  Events = {"eio", "crash", "oom", "unlocked", "kept", "deadline", "ttl", "reuse"}
INVARIANTS
  StoppedMeansStopped
  DoneKeepsItsResult
  ConsumedFailureIsFinal
  UnownedPidUntouched
PROPERTIES
  OutcomesStand
