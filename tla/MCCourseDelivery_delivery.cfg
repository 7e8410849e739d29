\* The phone and the courses of the PC.
CONSTANTS
  r1 = r1
  r2 = r2
  biology = biology
  chemistry = chemistry
  f1 = f1
  f2 = f2
  Courses = {c1, c2, c3}
  Old = {c3}
  Names = {biology, chemistry}
  Folders = {f1, f2}
  FolderOf <- MCFolderOf
  Runs = {r1, r2}
  j1 = j1
  j2 = j2
  Jobs = {j1, j2}
  Count = 2
  MaxTries = 3
  Place <- MCPlace
  MaxReadyJobsPerPoll = 1
  Workloads <- MCWorkloads
  None = None
SPECIFICATION Spec
INVARIANTS
  CatalogTellsRows
  TellsTruth
  PublishedIsACut
PROPERTIES
  RefusalsAreEarned
  DeliveriesSettle
CHECK_DEADLOCK FALSE
