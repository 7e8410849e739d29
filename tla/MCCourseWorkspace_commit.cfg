SPECIFICATION FairSpec
CONSTANTS
  c1 = c1
  c2 = c2
  j1 = j1
  j2 = j2
  j3 = j3
  inbox1 = inbox1
  memory2 = memory2
  hub1 = hub1
  hub2 = hub2
  Courses = {c1, c2}
  Jobs = {j1, j2, j3}
  CourseOf <- MCCourseOf
  Notes = {inbox1, memory2}
  Inboxes = {inbox1}
  Writes <- MCWrites
  Hub <- MCHub
  Dashboard = Dashboard
  NoFile = NoFile
  Stranger = Stranger
  MaxEdits = 1
  MaxFaults = 1
PROPERTIES SectionsKept JobsCommitted
CHECK_DEADLOCK FALSE
