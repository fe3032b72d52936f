CONSTANTS
  Process = {p1, p2}
  Run = {r1, r2}
  Plan = {a, b}
  NoProcess = NoProcess
  NoRun = NoRun
  NoPlan = NoPlan
  Blank = Blank
  Commands = {"approve", "execute"}
  MaxRounds = 2
  MaxWorkflows = 1
  MaxEdits = 2
  MaxCrashes = 1
  MaxOutages = 1
SPECIFICATION Spec
SYMMETRY Alike
INVARIANT OpenIsOutstanding
PROPERTIES RoundKept ClearedWhenOver
