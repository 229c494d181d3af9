---------------------------- MODULE RunLifecycle ----------------------------
(***************************************************************************)
(* What a decision run promises to whoever polls GET /runs/{id}: a row that *)
(* appears as "pending", moves forward only, and shows its final decision   *)
(* together with "done".  RunPipeline implements this specification.        *)
(***************************************************************************)
CONSTANTS
    Runs,          \* the runs that may ever exist
    Retractable    \* TRUE: a finished run may still be turned into "failed"

VARIABLES
    status,        \* decision_runs.status, "absent" before the row exists
    verdict        \* final_decision and completed_at are set

vars == <<status, verdict>>

Status == {"absent", "pending", "running", "done", "failed"}

TypeOK == /\ status \in [Runs -> Status]
          /\ verdict \in [Runs -> BOOLEAN]

Init == /\ status = [r \in Runs |-> "absent"]
        /\ verdict = [r \in Runs |-> FALSE]

Move(r, from, to) == /\ status[r] \in from
                     /\ status' = [status EXCEPT ![r] = to]

\* The request is answered 202: the row exists.
Accept(r) == Move(r, {"absent"}, "pending") /\ UNCHANGED verdict

\* The background task has picked the run up.
Begin(r) == Move(r, {"pending"}, "running") /\ UNCHANGED verdict

\* All four agents answered: status and decision change in one step.
Finish(r) == /\ Move(r, {"running"}, "done")
             /\ verdict' = [verdict EXCEPT ![r] = TRUE]

\* An error on the way.
Fail(r) == Move(r, {"pending", "running"}, "failed") /\ UNCHANGED verdict

\* Only where a commit's outcome may be misjudged by the caller.
Retract(r) == Retractable /\ Move(r, {"done"}, "failed") /\ UNCHANGED verdict

Next == \E r \in Runs : \/ Accept(r) \/ Begin(r) \/ Finish(r)
                        \/ Fail(r) \/ Retract(r)

Spec == Init /\ [][Next]_vars
=============================================================================
