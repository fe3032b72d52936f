CONSTANTS
  Process = {p1}
  Run = {r1, r2}
  Plan = {a, b}
  NoProcess = NoProcess
  NoRun = NoRun
  NoPlan = NoPlan
  Blank = Blank
  Commands = {"approve", "execute", "watch", "resume", "status", "cancel", "qa", "archive"}
  MaxRounds = 1
  MaxWorkflows = 2
  MaxEdits = 1
  MaxCrashes = 1
  MaxOutages = 1
SPECIFICATION Spec
SYMMETRY Symmetry
INVARIANTS TypeOK NothingForgotten PointerReserved BudgetKept QAOnlyCompleted
