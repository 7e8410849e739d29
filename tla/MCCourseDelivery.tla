-------------------------- MODULE MCCourseDelivery --------------------------
(* Values of CourseDelivery's constants for the model checker. *)
EXTENDS CourseDelivery

CONSTANTS r1, r2, j1, j2, biology, chemistry, f1, f2

MCFolderOf == [n \in Names |-> IF n = biology THEN f1 ELSE f2]

\* The lanes are listed in the order of the ids.
MCPlace == [j \in Jobs |-> IF j = j1 THEN 1 ELSE 2]

\* Two runs of the script at once; one of them with all that may go wrong on
\* either side; and the PC alone with the user.
MCWorkloads ==
  {[runs |-> {r1, r2}, edits |-> 0, faults |-> 0, commands |-> 0, looks |-> FALSE],
   [runs |-> {r1}, edits |-> 1, faults |-> 1, commands |-> 0, looks |-> FALSE],
   [runs |-> {r1}, edits |-> 0, faults |-> 1, commands |-> 1, looks |-> FALSE],
   [runs |-> {r1}, edits |-> 0, faults |-> 1, commands |-> 0, looks |-> TRUE],
   [runs |-> {}, edits |-> 1, faults |-> 2, commands |-> 2, looks |-> FALSE]}
=============================================================================
