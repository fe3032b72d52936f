CONSTANTS
  Process = {p1, p2}
  NoProcess = NoProcess
  Absent = Absent
  NotManaged = NotManaged
  Mode = {drive, watch}
  Commands = {"init", "skill", "mode"}
  MaxCommands = 2
  MaxFaults = 1
SPECIFICATION Spec
SYMMETRY Alike
CHECK_DEADLOCK FALSE
INVARIANTS TypeOK MarkedComplete
PROPERTIES SettingsRecoverable RolledBack SetupIsAtomic
