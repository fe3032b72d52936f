CONSTANTS
  Process = {p1, p2}
  Selection = {a, b}
  NoProcess = NoProcess
  NoSelection = NoSelection
  Commands = {"start", "stop", "switch", "queue", "cancel", "execute", "watch"}
  MaxStarts = 2
  MaxCommands = 2
  MaxRuns = 1
  MaxCrashes = 1
  Denials = FALSE
SPECIFICATION FairSpec
CHECK_DEADLOCK FALSE
INVARIANTS TypeOK RunPinned RunningIsSelected StopIdle
PROPERTY IdleApplies
