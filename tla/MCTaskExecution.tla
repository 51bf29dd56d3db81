---------------------------- MODULE MCTaskExecution ----------------------------
(***************************************************************************)
(* Values for the runs of TaskExecution: two rows of one task whose id is  *)
(* the id of the second row, and a row of a task the enum Task does not    *)
(* know.  A task that cannot fail would only do less.                      *)
(***************************************************************************)
EXTENDS TaskExecution

ThreeRows == 1 .. 3
ThreeTasks == <<2, 2, 12>>
OneKnown == {2}

=============================================================================
