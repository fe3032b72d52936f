CONSTANTS
  Descendant = {d1, d2}
SPECIFICATION FairSpec
INVARIANTS TypeOK Emptied StrangerSpared
PROPERTIES StopEmpties
CHECK_DEADLOCK FALSE
