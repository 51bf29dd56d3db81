------------------------------ MODULE TaskBoard -------------------------------
(***************************************************************************)
(* What the task list promises its operator, without requests or threads:  *)
(* a row is enabled or not as the operator set it last; runs of a row are  *)
(* started and finish one way or the other; a finished run may be shown,   *)
(* once, on its own row, with the result it had.                           *)
(***************************************************************************)
EXTENDS Integers, Sequences

CONSTANTS Rows

VARIABLES
  enabled,   \* rows the operator enabled
  runs,      \* all runs so far, in the order of their start
  shown      \* for each row the run its times are of, and that run's result

boardVars == <<enabled, runs, shown>>

Results == {"done", "failed"}

NoRun == [run |-> 0, result |-> "none"]

BoardInit ==
  /\ enabled \in SUBSET Rows
  /\ runs = << >>
  /\ shown = [r \in Rows |-> NoRun]

Toggle ==
  /\ enabled' \in SUBSET Rows
  /\ UNCHANGED <<runs, shown>>

Start ==
  /\ \E r \in Rows :
       runs' = Append(runs, [row |-> r, result |-> "running", told |-> FALSE])
  /\ UNCHANGED <<enabled, shown>>

Finish ==
  /\ \E n \in DOMAIN runs, result \in Results :
       /\ runs[n].result = "running"
       /\ runs' = [runs EXCEPT ![n].result = result]
  /\ UNCHANGED <<enabled, shown>>

Tell ==
  /\ \E n \in DOMAIN runs :
       /\ runs[n].result \in Results /\ ~ runs[n].told
       /\ runs' = [runs EXCEPT ![n].told = TRUE]
       /\ shown' = [shown EXCEPT ![runs[n].row] =
                     [run |-> n, result |-> runs[n].result]]
  /\ UNCHANGED enabled

BoardNext == Toggle \/ Start \/ Finish \/ Tell

BoardSpec == BoardInit /\ [][BoardNext]_boardVars

=============================================================================
