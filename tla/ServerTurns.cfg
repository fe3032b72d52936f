SPECIFICATION Spec
CONSTANTS
  e1 = e1
  e2 = e2
  NoExecution = NoExecution
  Execution <- Both
  Cancelable <- Nothing
  MaxCrashes = 2
  CaptureFails = TRUE
INVARIANT WorkerReserved
PROPERTY ReservationKept
