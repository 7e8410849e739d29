CONSTANT
  Workloads <- MCWorkloads
SPECIFICATION Spec
INVARIANTS
  AnswersAreSound
  ToolsAreTold
  CancelledIsDropped
  ResidueIsTold
CHECK_DEADLOCK FALSE
