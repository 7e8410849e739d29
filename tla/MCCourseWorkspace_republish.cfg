\* One job, one edit of the user and one failure behind the commit.
SPECIFICATION FairSpec
CONSTANTS
  c1 = c1
  c2 = c2
  j1 = j1
  j2 = j2
  j3 = j3
  inbox1 = inbox1
  memory2 = memory2
  hub1 = hub1
  hub2 = hub2
  Courses = {c1}
  Jobs = {j1}
  CourseOf <- MCCourseOf
  Notes = {inbox1}
  Inboxes = {inbox1}
  Writes <- MCWrites
  Hub <- MCHub
  Dashboard = Dashboard
  NoFile = NoFile
  Stranger = Stranger
  MaxEdits = 1
  MaxFaults = 1
PROPERTIES JobsComplete
CHECK_DEADLOCK FALSE
