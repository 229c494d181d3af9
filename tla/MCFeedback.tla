----------------------------- MODULE MCFeedback ------------------------------
(* Small instances of Feedback for TLC. *)
EXTENDS Feedback, TLC

\* Every run is of the first day.
MCRunDay == [r \in Runs |-> 0]
=============================================================================
