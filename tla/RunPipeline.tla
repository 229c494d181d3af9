----------------------------- MODULE RunPipeline -----------------------------
(***************************************************************************)
(* POST /problems/{id}/runs and the background task it starts               *)
(* (services/run_service.py), with the calls they make into the prompt      *)
(* classifier and the monitoring service, the problem's deletion and        *)
(* visibility (routers/all_routers.py), and the death of a worker process.  *)
(*                                                                          *)
(* Every await on PostgreSQL or on Ollama is a point where the event loop   *)
(* (or another worker) may run something else, so every database call and   *)
(* every model call is an action of its own.  PostgreSQL runs at READ       *)
(* COMMITTED: a SELECT sees the rows committed when it executes, and what   *)
(* a session has only added is seen by nobody until it commits.             *)
(*                                                                          *)
(* A request and the run it may produce share one identifier.  The agents   *)
(* are called in a fixed order, so the answers held and the rows stored     *)
(* are numbers from 0 to 4.                                                 *)
(***************************************************************************)
EXTENDS Integers, FiniteSets

CONSTANTS
    Runs,      \* the requests that may be made, and the runs they produce
    Problems,  \* the problems that exist
    NoProblem, \* marks a request that was not made yet
    Users,     \* the users who may ask for a run
    Owner,     \* Owner[p]: the user who owns problem p
    LostAcks,  \* TRUE: a COMMIT may take effect though the caller gets an error
    MaxHits    \* bound: database faults and process deaths that hit one run

ASSUME RunsAssumption == IsFiniteSet(Runs)
ASSUME NoProblemAssumption == NoProblem \notin Problems
ASSUME OwnerAssumption == Owner \in [Problems -> Users]
ASSUME LostAcksAssumption == LostAcks \in BOOLEAN
ASSUME MaxHitsAssumption == MaxHits \in Nat

NAgents == 4   \* sales, operations, finance, hades

VARIABLES
    (* the database, as committed *)
    deleted,      \* problems with is_deleted set
    private,      \* problems whose visibility is "private"
    status,       \* decision_runs.status; "absent": no such row
    version,      \* decision_runs.version
    outputs,      \* number of agent_outputs rows of the run
    decided,      \* final_decision and completed_at are set
    usage,        \* runs with a "run_triggered" usage event
    promptFlags,  \* requests with an "unethical_prompt" monitoring flag
    runFlags,     \* runs with a "failed_run" monitoring flag
    (* the processes *)
    req,          \* where create_run is, or how the request was answered
    on,           \* the problem the request is about
    task,         \* where _execute_run is
    replies,      \* agent outputs added to the task's session, uncommitted
    (* history and bounds *)
    seen,         \* the runs counted when the request chose its version
    hits          \* faults and deaths that hit the run so far

problemVars == <<deleted, private>>
runVars == <<status, version, outputs, decided>>
noteVars == <<usage, promptFlags, runFlags>>
requestVars == <<req, on, seen>>
taskVars == <<task, replies>>
vars == <<problemVars, runVars, noteVars, requestVars, taskVars, hits>>

\* create_run while it runs, and its answers.
ReqLive == {"classify", "report", "count", "insert", "spawn"}
ReqOver == {"accepted", "refused", "blocked", "error"}
ReqPC == {"idle"} \cup ReqLive \cup ReqOver

\* _execute_run while it runs; "none": not started, "over": it has ended.
TaskLive == {"fetch", "start", "configs", "agents", "verdict",
             "rescue", "mark", "flag"}
TaskPC == {"none", "over"} \cup TaskLive

Status == {"absent", "pending", "running", "done", "failed"}

TypeOK ==
    /\ deleted \subseteq Problems /\ private \subseteq Problems
    /\ status \in [Runs -> Status]
    /\ version \in [Runs -> Nat]
    /\ outputs \in [Runs -> 0..NAgents]
    /\ decided \in [Runs -> BOOLEAN]
    /\ usage \subseteq Runs /\ promptFlags \subseteq Runs
    /\ runFlags \subseteq Runs
    /\ req \in [Runs -> ReqPC]
    /\ on \in [Runs -> Problems \cup {NoProblem}]
    /\ task \in [Runs -> TaskPC]
    /\ replies \in [Runs -> 0..NAgents]
    /\ seen \in [Runs -> SUBSET Runs]
    /\ hits \in [Runs -> Nat]

Init ==
    /\ deleted = {} /\ private \in SUBSET Problems
    /\ status = [r \in Runs |-> "absent"]
    /\ version = [r \in Runs |-> 0]
    /\ outputs = [r \in Runs |-> 0]
    /\ decided = [r \in Runs |-> FALSE]
    /\ usage = {} /\ promptFlags = {} /\ runFlags = {}
    /\ req = [r \in Runs |-> "idle"]
    /\ on = [r \in Runs |-> NoProblem]
    /\ task = [r \in Runs |-> "none"]
    /\ replies = [r \in Runs |-> 0]
    /\ seen = [r \in Runs |-> {}]
    /\ hits = [r \in Runs |-> 0]

-----------------------------------------------------------------------------
(* Helpers.  Definitions named "wrong variant" are not used: put in the     *)
(* place of the next definition of the same kind they break a property,     *)
(* which shows what the property says about the code.                       *)

Committed(p) == {r \in Runs : status[r] # "absent" /\ on[r] = p}

\* Wrong variant of Readable: is_deleted is not looked at.
ReadableThoughDeleted(u, p) == Owner[p] = u \/ p \notin private

\* get_problem_or_404: 404 when deleted, 403 when private and not the user's.
Readable(u, p) == p \notin deleted /\ (Owner[p] = u \/ p \notin private)

SetStatus(r, new) == status' = [status EXCEPT ![r] = new]

\* A fault strikes the runs of S.
Hit(S) == /\ \A r \in S : hits[r] < MaxHits
          /\ hits' = [r \in Runs |-> IF r \in S THEN hits[r] + 1 ELSE hits[r]]

\* The request (the task) of r goes from one await to the next ...
ReqStep(r, from, to) == req[r] = from /\ req' = [req EXCEPT ![r] = to]
TaskStep(r, from, to) == task[r] \in from /\ task' = [task EXCEPT ![r] = to]

\* ... by a commit that takes effect, and returns or, with LostAcks, raises.
ReqCommit(r, from, to) ==
    \/ ReqStep(r, from, to) /\ UNCHANGED hits
    \/ LostAcks /\ ReqStep(r, from, "error") /\ Hit({r})
TaskCommit(r, from, to, handler) ==
    \/ TaskStep(r, {from}, to) /\ UNCHANGED hits
    \/ LostAcks /\ TaskStep(r, {from}, handler) /\ Hit({r})

\* What steps of a request and of a task leave alone.
OthersIdle == UNCHANGED <<problemVars, taskVars, hits>>
RowsKept == UNCHANGED <<problemVars, runVars, noteVars>>
OnlyStatus == UNCHANGED <<problemVars, version, outputs, decided, noteVars>>

-----------------------------------------------------------------------------
(* The problem's owner and the org admin.  Each handler reads, then commits *)
(* when it returns; what others can see of it happens at the commit.        *)

UpdateVisibility(p) ==
    /\ p \notin deleted
    /\ private' = IF p \in private THEN private \ {p} ELSE private \cup {p}
    /\ UNCHANGED <<deleted, runVars, noteVars, requestVars, taskVars, hits>>

Delete(S) ==
    /\ deleted' = deleted \cup S
    /\ UNCHANGED <<private, runVars, noteVars, requestVars, taskVars, hits>>

\* DELETE /problems/{id}: a deleted problem answers 404.
DeleteProblem(p) == p \notin deleted /\ Delete({p})

\* DELETE /org-admin/members/{id}: every problem of that user.
DeleteMemberData(u) == Delete({p \in Problems : Owner[p] = u})

-----------------------------------------------------------------------------
(* create_run *)

\* User u asks for a run of p; get_problem_or_404 lets it through or not.
TriggerRun(r, u, p) ==
    /\ ReqStep(r, "idle", IF Readable(u, p) THEN "classify" ELSE "refused")
    /\ on' = [on EXCEPT ![r] = p]
    /\ OthersIdle /\ UNCHANGED <<runVars, noteVars, seen>>

\* classify_prompt: keyword scan and, if it finds nothing, the model, which
\* fails open.  A prompt found harmful is reported and answered 422.
Classify(r) ==
    /\ \E next \in {"count", "report"} : ReqStep(r, "classify", next)
    /\ OthersIdle /\ UNCHANGED <<runVars, noteVars, on, seen>>

\* _write_flag, in a session of its own; an error there is swallowed.
Report(r, next) ==
    /\ ReqStep(r, "report", next)
    /\ promptFlags' \in {promptFlags, promptFlags \cup {r}}
    /\ OthersIdle /\ UNCHANGED <<runVars, usage, runFlags, on, seen>>

\* Wrong variant of ReportPrompt: the prompt is reported, but let through.
ReportPromptOnly(r) == Report(r, "count")

ReportPrompt(r) == Report(r, "blocked")

Number(r, counted) ==
    /\ ReqStep(r, "count", "insert")
    /\ seen' = [seen EXCEPT ![r] = Committed(on[r])]
    /\ version' = [version EXCEPT ![r] = Cardinality(counted) + 1]
    /\ OthersIdle /\ UNCHANGED <<status, outputs, decided, noteVars, on>>

\* Wrong variant of CountRuns: failed runs are not counted.
CountRunsNotFailed(r) ==
    Number(r, {q \in Committed(on[r]) : status[q] # "failed"})

\* SELECT count(*): the next version is one more than the rows there are.
CountRuns(r) == Number(r, Committed(on[r]))

\* flush and commit of the run and its usage event; only the commit shows.
CommitRun(r) ==
    /\ ReqCommit(r, "insert", "spawn")
    /\ SetStatus(r, "pending")
    /\ usage' = usage \cup {r}
    /\ UNCHANGED <<problemVars, version, outputs, decided, promptFlags,
                   runFlags, on, seen, taskVars>>

\* asyncio.create_task; then the handler returns and the answer is 202.
Spawn(r, from, next) ==
    /\ ReqStep(r, from, next)
    /\ TaskStep(r, {"none"}, "fetch")
    /\ RowsKept /\ UNCHANGED <<on, seen, replies, hits>>

\* Wrong variant of SpawnTask: create_task comes before the commit.
SpawnTaskEarly(r) == \E pc \in {"insert", "spawn"} : Spawn(r, pc, pc)

SpawnTask(r) == Spawn(r, "spawn", "accepted")

\* A database call of the request fails: get_db rolls back, the answer is 500.
RequestFault(r) ==
    /\ \E pc \in {"count", "insert"} : ReqStep(r, pc, "error")
    /\ Hit({r})
    /\ RowsKept /\ UNCHANGED <<on, seen, taskVars>>

-----------------------------------------------------------------------------
(* _execute_run *)

\* SELECT the run; scalar_one raises when there is no such row.
FetchRun(r) ==
    /\ TaskStep(r, {"fetch"}, IF status[r] = "absent" THEN "rescue" ELSE "start")
    /\ RowsKept /\ UNCHANGED <<requestVars, replies, hits>>

\* Wrong variant of StartRun: "running" is not committed.
StartRunSilently(r) ==
    /\ TaskCommit(r, "start", "configs", "rescue")
    /\ RowsKept /\ UNCHANGED <<requestVars, replies>>

StartRun(r) ==
    /\ TaskCommit(r, "start", "configs", "rescue")
    /\ SetStatus(r, "running")
    /\ OnlyStatus /\ UNCHANGED <<requestVars, replies>>

\* _get_active_configs
LoadConfigs(r) ==
    /\ TaskStep(r, {"configs"}, "agents")
    /\ RowsKept /\ UNCHANGED <<requestVars, replies, hits>>

\* _call_ollama returns; its output is added to the session and the next
\* agent is called, or after the last one the decision is committed.
Reply(r) ==
    /\ TaskStep(r, {"agents"}, IF replies[r] + 1 = NAgents THEN "verdict" ELSE "agents")
    /\ replies' = [replies EXCEPT ![r] = @ + 1]
    /\ UNCHANGED <<problemVars, status, version, decided, noteVars,
                   requestVars, hits>>

\* Wrong variant of AgentReplies: every output is committed when it arrives.
AgentRepliesStored(r) ==
    Reply(r) /\ outputs' = [outputs EXCEPT ![r] = replies[r] + 1]

AgentReplies(r) == Reply(r) /\ UNCHANGED outputs

\* Wrong variants of AgentFails: the exception ends the task; the calls are
\* made again, without a limit.
AgentFailsUncaught(r) == /\ TaskStep(r, {"agents"}, "over") /\ RowsKept
                         /\ UNCHANGED <<requestVars, replies, hits>>
AgentFailsRetry(r) == /\ TaskStep(r, {"agents"}, "agents") /\ RowsKept
                      /\ replies' = [replies EXCEPT ![r] = 0]
                      /\ UNCHANGED <<requestVars, hits>>

\* _call_ollama raises: connection error, HTTP error, 120 s timeout, bad JSON.
AgentFails(r) ==
    /\ TaskStep(r, {"agents"}, "rescue")
    /\ RowsKept /\ UNCHANGED <<requestVars, replies, hits>>

\* The commit of the four outputs and the decision.
StoreVerdict(r, decision) ==
    /\ TaskCommit(r, "verdict", "over", "rescue")
    /\ SetStatus(r, "done")
    /\ decided' = [decided EXCEPT ![r] = decision]
    /\ outputs' = [outputs EXCEPT ![r] = @ + replies[r]]
    /\ replies' = [replies EXCEPT ![r] = 0]
    /\ UNCHANGED <<problemVars, version, noteVars, requestVars>>

\* Wrong variant of CommitVerdict: the decision is not stored.
CommitOutputsOnly(r) == StoreVerdict(r, FALSE)

CommitVerdict(r) == StoreVerdict(r, TRUE)

\* A database call inside the try block fails and changes nothing.
TaskFault(r) ==
    /\ TaskStep(r, {"fetch", "start", "configs", "verdict"}, "rescue")
    /\ Hit({r})
    /\ RowsKept /\ UNCHANGED <<requestVars, replies>>

\* The except block: rollback (what was added is dropped), SELECT the run.
Rescue(r, next) ==
    /\ TaskStep(r, {"rescue"}, next)
    /\ replies' = [replies EXCEPT ![r] = 0]
    /\ RowsKept /\ UNCHANGED <<requestVars, hits>>

\* Wrong variant of RescueRun: flagged without "failed" being stored.
RescueRunFlagOnly(r) == Rescue(r, "flag")

RescueRun(r) == Rescue(r, IF status[r] = "absent" THEN "flag" ELSE "mark")

MarkFailed(r) ==
    /\ TaskCommit(r, "mark", "flag", "over")
    /\ SetStatus(r, "failed")
    /\ OnlyStatus /\ UNCHANGED <<requestVars, replies>>

\* A database call of the except block fails: the exception leaves the task.
RescueFault(r) ==
    /\ TaskStep(r, {"rescue", "mark"}, "over")
    /\ Hit({r})
    /\ replies' = [replies EXCEPT ![r] = 0]
    /\ RowsKept /\ UNCHANGED requestVars

\* flag_failed_run, in a session of its own; an error there is swallowed.
FlagRun(r) ==
    /\ TaskStep(r, {"flag"}, "over")
    /\ runFlags' \in {runFlags, runFlags \cup {r}}
    /\ UNCHANGED <<problemVars, runVars, usage, promptFlags, requestVars,
                   replies, hits>>

-----------------------------------------------------------------------------
(* A worker process ends, by a crash or a shutdown, with the requests and   *)
(* tasks it carries.  The lifespan of a new process picks none of them up.  *)

Carried(r) == req[r] \in ReqLive \/ task[r] \in TaskLive

Crash(S) ==
    /\ S # {} /\ \A r \in S : Carried(r)
    /\ Hit(S)
    /\ req' = [r \in Runs |-> IF r \in S /\ req[r] \in ReqLive THEN "error"
                                                               ELSE req[r]]
    /\ task' = [r \in Runs |-> IF r \in S /\ task[r] \in TaskLive THEN "over"
                                                                  ELSE task[r]]
    /\ replies' = [r \in Runs |-> IF r \in S THEN 0 ELSE replies[r]]
    /\ RowsKept /\ UNCHANGED <<on, seen>>

-----------------------------------------------------------------------------
(* The steps the event loop takes for one request, and for one task. *)

RequestStep(r) == \/ Classify(r) \/ ReportPrompt(r) \/ CountRuns(r)
                  \/ CommitRun(r) \/ SpawnTask(r) \/ RequestFault(r)

ExecuteStep(r) == \/ FetchRun(r) \/ StartRun(r) \/ LoadConfigs(r)
                  \/ AgentReplies(r) \/ AgentFails(r) \/ CommitVerdict(r)
                  \/ TaskFault(r) \/ RescueRun(r) \/ MarkFailed(r)
                  \/ RescueFault(r) \/ FlagRun(r)

Next ==
    \/ \E p \in Problems : UpdateVisibility(p) \/ DeleteProblem(p)
    \/ \E u \in Users : DeleteMemberData(u)
    \/ \E r \in Runs : \/ \E u \in Users, p \in Problems : TriggerRun(r, u, p)
                       \/ RequestStep(r) \/ ExecuteStep(r)
    \/ \E S \in SUBSET Runs : Crash(S)

Spec == Init /\ [][Next]_vars

\* The event loop resumes every coroutine whose await is over; every await
\* is over some day: Ollama is called with a timeout, and a database that
\* does not answer is a failed call.
FairSpec == Spec /\ \A r \in Runs : /\ WF_vars(RequestStep(r))
                                    /\ WF_vars(ExecuteStep(r))

-----------------------------------------------------------------------------
(* Safety *)

Unsettled(r) == status[r] \in {"pending", "running"}

\* The decision and its four agent outputs are stored together with "done",
\* by the one commit that ends _execute_run's try block, and a run that is
\* not done has none of them.  Only a commit whose acknowledgement was lost
\* leaves them behind in a run that the except block then marks "failed".
VerdictAtomic == \A r \in Runs :
    /\ outputs[r] \in {0, NAgents}
    /\ decided[r] <=> outputs[r] = NAgents
    /\ status[r] = "done" => decided[r]
    /\ decided[r] => status[r] \in (IF LostAcks THEN {"done", "failed"}
                                                ELSE {"done"})

\* _execute_run's docstring: the row is committed before the task fires, so
\* scalar_one always finds it.  Also, the task is the only one to move the
\* status on: until it started the run, the run is pending.
TaskFindsRow == \A r \in Runs :
    /\ task[r] # "none" => status[r] # "absent"
    /\ task[r] \in {"none", "fetch", "start"} =>
          status[r] \in {"absent", "pending"}

\* create_run numbers versions by counting rows without a lock.  Two runs of
\* a problem may get one number, but only when their requests overlapped: a
\* run that was there when another was numbered has the smaller number.
VersionsIncrease == \A r, q \in Runs :
    r \in seen[q] => version[r] < version[q]

\* What the caller was told agrees with the rows: 202 means that the run and
\* its usage event are stored, 403, 404 and 422 that nothing is; every run
\* has its usage event, and a prompt reported as harmful never became a run.
AnswersMatchRows ==
    /\ \A r \in Runs : /\ req[r] = "accepted" => status[r] # "absent"
                       /\ req[r] \in {"refused", "blocked"} => status[r] = "absent"
    /\ usage = {r \in Runs : status[r] # "absent"}
    /\ \A r \in promptFlags : status[r] = "absent"

\* The failed_run flag is raised after the rollback and the commit of
\* "failed": no run that is flagged may be anything else, then or later.
FlagMeansFailed == \A r \in runFlags : status[r] = "failed"

\* A run that is not settled has a request about to spawn its task, or the
\* task itself, unless a database fault or a process death hit it.
NoOrphanWithoutHit == \A r \in Runs :
    Unsettled(r) /\ ~ Carried(r) => hits[r] > 0

\* The check of the problem in create_run is not repeated after the model
\* call.  Work on a problem may therefore go on after its deletion, but none
\* is added: what is in flight on a deleted problem only decreases.
InFlight(p) == {r \in Runs : on[r] = p /\ Carried(r)}

DeletedGetsNoWork ==
    [][\A p \in deleted : InFlight(p)' \subseteq InFlight(p)]_vars

\* The pipeline shows its callers the life of a run that RunLifecycle states.
Lifecycle == INSTANCE RunLifecycle WITH Retractable <- LostAcks,
                                        verdict <- decided
ImplementsLifecycle == Lifecycle!Spec

-----------------------------------------------------------------------------
(* Liveness *)

Settled(r) == status[r] \in {"done", "failed"}

\* A run that was stored ends "done" or "failed", whatever the agents do,
\* unless a database fault or a process death hits it.
SettlesUnlessHit ==
    \A r \in Runs : status[r] = "pending" ~> Settled(r) \/ hits[r] > 0

\* Deletion of a problem is followed by the end of all work on it.
DeletedDrains == \A p \in Problems : p \in deleted ~> InFlight(p) = {}

-----------------------------------------------------------------------------
(* What the documentation says, and the code does not do *)

\* README.md, Step 3: "Repeat until status is "done" or "failed"".  A poller
\* that repeats until then ends.
EveryRunSettles == \A r \in Runs : status[r] = "pending" ~> Settled(r)
=============================================================================
