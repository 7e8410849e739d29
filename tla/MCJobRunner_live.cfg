\* A bundle and a local selection of the same sources, and a bundle of another course,
\* taken up one per run, with fair scheduling.
CONSTANTS
  Jobs = {1, 2, 3}
  LocalJobs = {2}
  SingletonJobs = {3}
  Fingerprint <- MCFingerprint
  Place <- MCPlace
  Results = {r1}
  MaxAutomaticRetries = 1
  MaxReadyJobsPerPoll = 1
  MaxRecoverableJobsPerRun = 1
  MaxCleanupRetriesPerPoll = 1
  MaxDisturbances = 1
  NoRow = NoRow
  NoJob = NoJob
  NoResult = NoResult
  NoArtifact = NoArtifact
SPECIFICATION FairSpec
PROPERTIES
  BundlesSettle
  JobsSettle
  CleanupConverges
