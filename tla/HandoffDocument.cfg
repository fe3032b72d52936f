CONSTANTS
  Template <- MCTemplate
  Typed <- MCTyped
  QAFiles <- MCQAFiles
  MaxRuns = 1
  MaxEdits = 2
  MaxLines = 9
SPECIFICATION Spec
INVARIANTS PlannerTextKept NotRouted VerdictStands
CHECK_DEADLOCK FALSE
