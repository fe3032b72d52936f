CONSTANTS
  Template <- MCTemplate
  Typed <- MCTyped
  QAFiles <- MCQAFiles
  MaxRuns = 1
  MaxEdits = 1
  MaxLines = 9
SPECIFICATION Spec
INVARIANT AcceptedCanBeJudged
CHECK_DEADLOCK FALSE
