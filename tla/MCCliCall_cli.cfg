\* Two calls, two letters.
CONSTANTS
  c1 = c1
  c2 = c2
  Calls = {c1, c2}
  Drives = {1, 2}
  Workloads <- MCWorkloads
  None = None
SPECIFICATION Spec
INVARIANTS
  UsersAreMapped
  LeftoversAreTold
PROPERTY
  CallsEnd
CHECK_DEADLOCK FALSE
