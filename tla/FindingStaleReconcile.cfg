CONSTANTS
  Process = {p1, p2}
  Run = {r1, r2}
  Plan = {a}
  NoProcess = NoProcess
  NoRun = NoRun
  NoPlan = NoPlan
  Blank = Blank
  Commands = {"approve", "execute", "status"}
  MaxRounds = 2
  MaxWorkflows = 1
  MaxEdits = 0
  MaxCrashes = 0
  MaxOutages = 0
SPECIFICATION Spec
SYMMETRY Symmetry
PROPERTY ClearedWhenOver
