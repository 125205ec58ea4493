SPECIFICATION Spec
CONSTANTS
  Clients = {c1, c2}
  Options <- MCOptions
  IntSize = 2
  MaxLength = 2
  Cap = 3
  NULL = NULL
INVARIANT InStep
INVARIANT ServerSurvives
PROPERTY Completes
CHECK_DEADLOCK FALSE
