CONSTANTS
  Process = {p1}
  Run = {r1, r2}
  Plan = {a}
  NoProcess = NoProcess
  NoRun = NoRun
  NoPlan = NoPlan
  Blank = Blank
  Commands = {"approve", "execute", "watch", "resume", "status", "cancel", "qa", "archive"}
  MaxRounds = 2
  MaxWorkflows = 1
  MaxEdits = 0
  MaxCrashes = 1
  MaxOutages = 1
SPECIFICATION FairSpec
PROPERTIES HoldKept OutstandingResolves
