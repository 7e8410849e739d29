\* The stages of one job, the store of their results and the program's end.
CONSTANTS
  SourceCount = 2
  Workloads <- MCWorkloads
SPECIFICATION PipelineSpec
INVARIANTS
  ClosedIsQuiet
PROPERTIES
  ResultsAreCurrent
  CommitsAreCurrent
  NothingPaidTwice
CHECK_DEADLOCK FALSE
