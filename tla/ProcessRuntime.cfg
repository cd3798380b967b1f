SPECIFICATION FairSpec
CHECK_DEADLOCK FALSE
CONSTANTS
  Sep = ";"
  Ellipsis = "~"
  Char = {"x"}
  Commands <- MCCommands
  Cap <- MCCap
  PipeSize = 1
  ChunkSize = 2
  QueueItems = 1
  QueueBytes = 3
INVARIANTS
  CaptureIsHeadAndTail
  NoSilentLoss
  NothingLeftRunning
PROPERTIES
  DeadlineEndsCall
  FloodDoesNotStall
