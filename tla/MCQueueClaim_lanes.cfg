\* One job id in both lanes, with any three disturbances.
SPECIFICATION FairSpec
CONSTANTS
  Data = {good, bad}
  Unsound = {bad}
  Deliveries = {"icloud", "icloud_course"}
  MaxStamp = 2
  Entries = 2
  f1 = f1
  f2 = f2
  f3 = f3
  NoFile = NoFile
  Files <- ThreeFiles
  Disturbances = {"crash", "fault", "change", "withdraw"}
  MaxDisturbances = 3

INVARIANTS ClaimIsBacked
PROPERTIES OnlyTheClaimedIsDeleted CommitIsAtomic BundleSettles CleanupResumes
