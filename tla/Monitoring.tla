----------------------------- MODULE Monitoring -----------------------------
(***************************************************************************)
(* What the operators see of the requests: the middleware stack that a      *)
(* request goes through (main.py, middleware/payload_guard.py), the log and  *)
(* the flags that are written after the answer                              *)
(* (middleware/request_logger.py, services/monitor_service.py), the flags'  *)
(* resolution (routers/superadmin_router.py) and the nightly purges that    *)
(* every worker process starts (core/scheduler.py).                         *)
(*                                                                          *)
(* From the outside in, the stack is: the handler of unhandled exceptions,  *)
(* PayloadGuard, RateLimiter, RequestLogger, the handlers of known errors,  *)
(* the endpoint.                                                            *)
(***************************************************************************)
EXTENDS Integers, FiniteSets

CONSTANTS
    Requests,    \* the requests that may be made; also their log rows
    Addresses,   \* the addresses they may come from
    Threshold,   \* the 401s from one address that make a flag
    Workers      \* the worker processes that run the jobs

ASSUME RequestsAssumption == IsFiniteSet(Requests)
ASSUME ThresholdAssumption == Threshold \in Nat \ {0}

VARIABLES
    (* the requests *)
    from,        \* the address that each comes from
    answer,      \* what the caller was answered, "none" before
    task,        \* where the task that writes its log and flags is
    recent,      \* the 401s counted in the last minute
    (* the tables *)
    logs,        \* request_logs
    flags,       \* monitoring_flags: the request; the answer gives the type
    resolved,    \* the flags that are resolved
    (* the purges *)
    job,         \* the table that each worker's job is purging, or "idle"
    listed,      \* the rows of its preview, for the detail of its log
    deleted,     \* the workers whose job has executed its DELETE
    doomed,      \* the rows that it has deleted and not committed
    (* history *)
    excess,      \* the sum of rows_affected in scheduler_logs, less the
                 \* number of rows that were deleted
    unreported,  \* the rows deleted by jobs that logged an error
    lost         \* requests whose task was hit: the process ended or the
                 \* database failed while a flag was written

pathVars == <<from, answer, task, recent>>
flagVars == <<flags, resolved>>
jobVars == <<job, listed, deleted, doomed, excess, unreported>>
vars == <<pathVars, logs, flagVars, jobVars, lost>>

Tables == {"request_logs", "monitoring_flags"}

\* "bad" is a 5xx or a slow answer: each of these has a flag of its own (for an
\* answer that is slow and a 401 as well, "bad" leaves out the count).
Responses == {"ok", "401", "bad"}
RowsOf(S, table) == S \X {table}
Rows == RowsOf(logs, "request_logs") \cup RowsOf(flags, "monitoring_flags")

TypeOK ==
    /\ from \in [Requests -> Addresses]
    /\ answer \in [Requests -> Responses \cup {"raised", "refused", "none"}]
    /\ task \in [Requests -> {"none", "log", "flag", "over"}]
    /\ recent \subseteq Requests
    /\ logs \subseteq Requests
    /\ flags \subseteq Requests /\ resolved \subseteq Requests
    /\ job \in [Workers -> Tables \cup {"idle"}] /\ deleted \subseteq Workers
    /\ listed \in [Workers -> SUBSET (Requests \X Tables)]
    /\ doomed \in [Workers -> SUBSET Rows]
    /\ excess \in Int /\ unreported \in Nat
    /\ lost \subseteq Requests

Init ==
    /\ from \in [Requests -> Addresses]
    /\ answer = [x \in Requests |-> "none"]
    /\ task = [x \in Requests |-> "none"] /\ recent = {}
    /\ logs = {} /\ flags = {} /\ resolved = {}
    /\ job = [w \in Workers |-> "idle"] /\ deleted = {}
    /\ listed = [w \in Workers |-> {}] /\ doomed = [w \in Workers |-> {}]
    /\ excess = 0 /\ unreported = 0 /\ lost = {}

-----------------------------------------------------------------------------
(* Helpers.  Definitions named "wrong variant" are not used: put in the     *)
(* place of the next definition of the same kind they break a property,     *)
(* which shows what the property says about the code.                       *)

Goto(x, pc) == task' = [task EXCEPT ![x] = pc]

-----------------------------------------------------------------------------
(* The way in *)

Receive(x, reply, pc) ==
    /\ answer[x] = "none" /\ answer' = [answer EXCEPT ![x] = reply]
    /\ Goto(x, pc)
    /\ UNCHANGED <<from, recent, logs, flagVars, jobVars, lost>>

\* PayloadGuard or RateLimiter answers, outside of the logger.
Refuse(x) == Receive(x, "refused", "over")

\* The endpoint raises: the exception passes through the logger's call_next.
Raise(x) == Receive(x, "raised", "over")

\* The logger has a response, and starts the task that writes.
Respond(x, reply) == reply \in Responses /\ Receive(x, reply, "log")

-----------------------------------------------------------------------------
(* _write_log_and_flags: each row in a session of its own *)

InsertLog(x) ==
    /\ task[x] = "log" /\ Goto(x, "flag") /\ logs' = logs \cup {x}
    /\ UNCHANGED <<from, answer, recent, flagVars, jobVars, lost>>

\* Wrong variant of LogFault: the error ends the task.
LogFaultEnds(x) ==
    /\ task[x] = "log" /\ Goto(x, "over")
    /\ UNCHANGED <<from, answer, recent, logs, flagVars, jobVars, lost>>

\* The error is swallowed, and the flags are seen to.
LogFault(x) ==
    /\ task[x] = "log" /\ Goto(x, "flag")
    /\ UNCHANGED <<from, answer, recent, logs, flagVars, jobVars, lost>>

\* A flag that is due is written; an error while it is written is swallowed.
WriteFlag(x, due) ==
    /\ task[x] = "flag" /\ Goto(x, "over")
    /\ \/ due /\ flags' = flags \cup {x} /\ UNCHANGED lost
       \/ due /\ lost' = lost \cup {x} /\ UNCHANGED flags
       \/ ~due /\ UNCHANGED <<flags, lost>>
    /\ UNCHANGED <<from, answer, logs, resolved, jobVars>>

\* flag_http_5xx and flag_slow_request.
FlagAnswer(x) ==
    /\ answer[x] # "401" /\ WriteFlag(x, answer[x] = "bad")
    /\ UNCHANGED recent

CountFailure(x, failures) ==
    /\ answer[x] = "401" /\ recent' = recent \cup {x}
    /\ WriteFlag(x, Cardinality(failures \cup {x}) >= Threshold)

\* Wrong variant of FlagRepeated: the addresses are not told apart.
FlagRepeatedAnywhere(x) == CountFailure(x, recent)

\* _check_repeated_401: this one and those of the last minute.
FlagRepeated(x) == CountFailure(x, {y \in recent : from[y] = from[x]})

\* A minute has passed since the 401 was counted.
Forget(x) ==
    /\ x \in recent /\ recent' = recent \ {x}
    /\ UNCHANGED <<from, answer, task, logs, flagVars, jobVars, lost>>

\* The process that serves the requests ends: tasks and counts are gone.
Crash ==
    /\ task' = [x \in Requests |-> IF answer[x] = "none" THEN "none" ELSE "over"]
    /\ lost' = lost \cup {x \in Requests : task[x] \notin {"none", "over"}}
    /\ recent' = {}
    /\ UNCHANGED <<from, answer, logs, flagVars, jobVars>>

-----------------------------------------------------------------------------
(* resolve_flag *)

\* Between its SELECT and its commit a purge may delete the flag only if
\* another request has resolved it: the UPDATE fails.
ResolveFlag(f) ==
    /\ f \in flags /\ resolved' = resolved \cup {f}
    /\ UNCHANGED <<pathVars, logs, flags, jobVars, lost>>

-----------------------------------------------------------------------------
(* The purges.  A worker's jobs run at different times; those of standard   *)
(* and of error logs differ in nothing else.                                *)

\* Rows that may have passed the time after which they go, at least 30 days:
\* the task and the minute of their request are long over.
Old(S) == {x \in S : task[x] = "over" /\ x \notin recent}

Purgeable(table) == RowsOf(Old(IF table = "request_logs" THEN logs ELSE resolved), table)

\* The preview: some or all (up to 500) of the rows that have passed their time,
\* which is left open.
PreviewPurge(w, table, rows) ==
    /\ job[w] = "idle" /\ job' = [job EXCEPT ![w] = table]
    /\ listed' = [listed EXCEPT ![w] = rows]
    /\ UNCHANGED <<pathVars, logs, flagVars, deleted, doomed, excess, unreported, lost>>

Delete(w, rows) ==
    /\ job[w] # "idle" /\ w \notin deleted /\ deleted' = deleted \cup {w}
    /\ doomed' = [doomed EXCEPT ![w] = rows]
    /\ UNCHANGED <<pathVars, logs, flagVars, job, listed, excess, unreported, lost>>

Held(w) == UNION {doomed[v] : v \in Workers \ {w}}

\* Wrong variant of PurgeRows: rows that another job holds are skipped.
PurgeUnlocked(w, rows) ==
    /\ listed[w] \cap Purgeable(job[w]) \subseteq rows \cup Held(w)
    /\ Delete(w, rows \ Held(w))

\* The DELETE, with the time of the preview: what was listed and is still there,
\* rows beyond the 500, and flags that were resolved since.  Rows that another
\* job has deleted and not yet committed are waited for.
PurgeRows(w, rows) ==
    /\ listed[w] \cap Purgeable(job[w]) \subseteq rows
    /\ rows \cap Held(w) = {}
    /\ Delete(w, rows)

EndPurge(w) ==
    /\ job[w] # "idle" /\ job' = [job EXCEPT ![w] = "idle"]
    /\ listed' = [listed EXCEPT ![w] = {}] /\ doomed' = [doomed EXCEPT ![w] = {}]
    /\ deleted' = deleted \ {w}
    /\ UNCHANGED <<pathVars, lost>>

\* _write_log commits the deletion with a row of scheduler_logs that counts as
\* many rows: "success", "skipped" (if there were none), or "error".
Report(w, count) ==
    /\ w \in deleted /\ EndPurge(w)
    /\ LET purged(table) == {x \in Requests : <<x, table>> \in doomed[w]}
       IN  /\ logs' = logs \ purged("request_logs")
           /\ flags' = flags \ purged("monitoring_flags")
           /\ resolved' = resolved \ purged("monitoring_flags")
    /\ excess' = excess + count - Cardinality(doomed[w] \cap Rows)

\* Wrong variant of CommitPurge: the rows of the preview are counted.
CommitPurgeListed(w) == Report(w, Cardinality(listed[w])) /\ UNCHANGED unreported

\* The count is that of the DELETE; the detail is the preview's.
CommitPurge(w) == Report(w, Cardinality(doomed[w])) /\ UNCHANGED unreported

\* An exception after the DELETE that leaves the transaction alive: the log of
\* the error says 0, and commits the deletion, too.
PurgeError(w) ==
    /\ Report(w, 0)
    /\ unreported' = unreported + Cardinality(doomed[w] \cap Rows)

\* The database fails, or the process ends: nothing is deleted, and the log of
\* the error, if it can be written at all, says 0.
PurgeFault(w) == EndPurge(w) /\ UNCHANGED <<logs, flagVars, excess, unreported>>

-----------------------------------------------------------------------------
Purge(w) ==
    \/ \E table \in Tables : \E rows \in SUBSET Purgeable(table) :
          PreviewPurge(w, table, rows)
    \/ \E rows \in SUBSET Purgeable(job[w]) : PurgeRows(w, rows)
    \/ CommitPurge(w) \/ PurgeError(w) \/ PurgeFault(w)

TaskStep(x) == InsertLog(x) \/ LogFault(x) \/ FlagAnswer(x) \/ FlagRepeated(x)

Next ==
    \/ \E x \in Requests : \/ Refuse(x) \/ Raise(x) \/ TaskStep(x) \/ Forget(x)
                           \/ \E reply \in Responses : Respond(x, reply)
                           \/ ResolveFlag(x)
    \/ Crash
    \/ \E w \in Workers : Purge(w)

Spec == Init /\ [][Next]_vars

\* A task that was started is continued by the event loop.
FairSpec == Spec /\ \A x \in Requests : WF_vars(TaskStep(x))

-----------------------------------------------------------------------------
(* Properties *)

\* A flag for repeated 401s, however late its task came to count them, says
\* the truth: so many were answered to that address (_check_repeated_401).
RepeatedIsTrue == \A x \in flags : answer[x] = "401" =>
    Cardinality({y \in Requests : answer[y] = "401" /\ from[y] = from[x]})
        >= Threshold

\* The jobs of all the workers together count each deleted row once, whichever
\* of them come at the same time or fail (rowcount of the DELETE, not of the
\* preview; deletion and log in one commit), but for the rows that a job
\* deletes and answers for with an error.
DeletedOnceReported == excess + unreported = 0

\* The rows in a report's detail are gone, although another job may have deleted
\* them (the DELETE waits for the rows that other jobs hold).
ListedAreGone ==
    [][\A w \in Workers : CommitPurge(w) => listed[w] \cap Rows' = {}]_vars

\* A flag that no one has resolved is never deleted (purge_monitoring_flags).
UnresolvedKept == [][flags \ resolved \subseteq flags']_vars

\* A 5xx that the logger saw is flagged, even when its log could not be
\* written, unless the process ends or the flag's own write fails.
SeenErrorsFlagged == \A x \in Requests :
    answer[x] = "bad" /\ task[x] = "log" ~> x \in lost \/ x \in flags

-----------------------------------------------------------------------------
(* What the documentation says, and the code does not do *)

\* monitor_service.py: request_logger has flags written for 5xx and for 429.
ServerErrorsFlagged == \A x \in Requests :
    answer[x] = "raised" \/ (answer[x] = "bad" /\ task[x] = "log")
        ~> x \in lost \/ x \in flags
=============================================================================
