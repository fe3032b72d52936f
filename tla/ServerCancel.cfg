SPECIFICATION FairSpec
CONSTANTS
  e1 = e1
  e2 = e2
  NoExecution = NoExecution
  Execution <- One
  Cancelable <- One
  MaxCrashes = 2
  CaptureFails = TRUE
INVARIANTS TypeOK LaunchProtocol SettledIsStopped OutcomesAgree ReportedUnlocked
PROPERTIES LaunchedOnce OutcomeFinal DispatchedSettles CancelAnswered TaskSettles
