------------------------- MODULE MCCourseWorkspace -------------------------
(* CourseWorkspace with values for the model checker.                      *)
EXTENDS CourseWorkspace

CONSTANTS c1, c2, inbox1, memory2, hub1, hub2, j1, j2, j3

\* Jobs 1 and 2 are of one course.
MCCourseOf == [j \in Jobs |-> IF j = j3 THEN c2 ELSE c1]
MCWrites == [j \in Jobs |-> IF j = j3 THEN {memory2} ELSE {inbox1}]
MCHub == [c \in Courses |-> IF c = c1 THEN hub1 ELSE hub2]
=============================================================================
