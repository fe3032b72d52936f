CONSTANTS
  Process = {p1, p2}
  Run = {r1, r2}
  Plan = {a}
  NoProcess = NoProcess
  NoRun = NoRun
  NoPlan = NoPlan
  Blank = Blank
  Commands = {"approve", "execute", "legacy"}
  MaxRounds = 2
  MaxWorkflows = 1
  MaxEdits = 0
  MaxCrashes = 2
  MaxOutages = 1
SPECIFICATION Spec
SYMMETRY Symmetry
INVARIANT OneExecutor
