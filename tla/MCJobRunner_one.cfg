\* One queue bundle, singleton layout: every fault, crash and edit of its life.
CONSTANTS
  Jobs = {1}
  LocalJobs = {}
  SingletonJobs = {1}
  Fingerprint <- MCFingerprint
  Place <- MCPlace
  Results = {r1, r2}
  MaxAutomaticRetries = 1
  MaxReadyJobsPerPoll = 1
  MaxRecoverableJobsPerRun = 1
  MaxCleanupRetriesPerPoll = 1
  MaxDisturbances = 4
  NoRow = NoRow
  NoJob = NoJob
  NoResult = NoResult
  NoArtifact = NoArtifact
SPECIFICATION Spec
INVARIANTS
  ReceiptIsTrue
  SourceKept
PROPERTIES
  KeepsPromise
