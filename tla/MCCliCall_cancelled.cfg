\* Two calls, two letters, a cancellation and no failure.
CONSTANTS
  c1 = c1
  c2 = c2
  Calls = {c1, c2}
  Drives = {1, 2}
  Workloads <- MCCancelled
  None = None
SPECIFICATION Spec
INVARIANT
  CancellationIsClean
CHECK_DEADLOCK FALSE
