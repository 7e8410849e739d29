\* Three requests, an HTTP provider and a command-line one.
CONSTANTS
  r1 = r1
  r2 = r2
  r3 = r3
  Requests = {r1, r2, r3}
  Media <- MCMedia
  Statuses = {200, 302, 400, 503}
  Feature <- MCFeature
  Features = {"study", "answer"}
  Providers = {"openai_api", "codex_cli"}
  Workloads <- MCWorkloads
  Models = {"m1", "m2"}
  CliOutcomes = {"ok", "TIMEOUT"}
  MaxCloses = 1
  None = None
SPECIFICATION Spec
INVARIANTS
  SlotsHeld
  RowsTellTruth
  NothingLeftBehind
PROPERTIES
  VerdictsAreFresh
  KeepsCallPromise
CHECK_DEADLOCK FALSE
