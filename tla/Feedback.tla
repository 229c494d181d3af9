------------------------------ MODULE Feedback -------------------------------
(***************************************************************************)
(* What members say about the answers to their runs, and the numbers made   *)
(* of it: feedback and the analytics computed from it, kept in a cache of   *)
(* each worker process (routers/all_routers.py, middleware/cache.py), and   *)
(* the nightly roll-up into agent_trust_scores that every worker process    *)
(* starts (aggregate_trust_scores in core/scheduler.py).                    *)
(*                                                                          *)
(* agent_trust_scores has a unique key on organisation, agent and period;   *)
(* it is declared in the models, which are not part of the source, and is   *)
(* what ON CONFLICT DO NOTHING speaks of.                                   *)
(***************************************************************************)
EXTENDS Integers, FiniteSets

CONSTANTS
    Runs, RunDay,   \* RunDay[r]: the day on which run r was created
    Users,          \* those who give feedback
    Agents,         \* the agents that may be chosen as the best
    Submissions,    \* the requests that may be made; also their feedback rows
    Workers, Readers,
    LastDay,        \* the days that are looked at are 0 to LastDay
    NoRun, NoUser, NoAgent, NoWorker

ASSUME LastDayAssumption == LastDay \in Nat
ASSUME RunDayAssumption == RunDay \in [Runs -> 0..LastDay]

VARIABLES
    day,       \* the date; roll-ups are started at 01:00
    (* feedback: the requests and, of those that are stored, the rows *)
    sub,       \* where submit_feedback is for each
    run, user, chosen,
    stored,    \* stored[x]: the day on which x was committed, or -1
    (* agent_trust_scores: the feedback that a row counts, {} for no row *)
    score,
    (* aggregate_trust_scores *)
    job,       \* where each worker's job is
    period,    \* the day that it rolls up
    fresh,     \* the rows it has inserted and not yet committed
    fired,     \* the day on which the worker's job was last due
    (* the analytics cache and those who read it *)
    cache,     \* cache[w]: what is kept: feedback and scores, or NoAgent
    rd, at,
    got,       \* the feedback that a reader has seen, on its way
    (* history *)
    rolled,    \* the days that a job has rolled up
    crossed    \* <<run, user>> whose submissions have overlapped

subVars == <<sub, run, user, chosen, stored, crossed>>
jobVars == <<job, period, fresh, fired, rolled>>
readVars == <<rd, at, got>>
vars == <<day, subVars, score, jobVars, cache, readVars>>

Days == 0..LastDay
Rows == [Agents -> SUBSET Submissions]
NoRows == [a \in Agents |-> {}]
Stored == {x \in Submissions : stored[x] >= 0}

TypeOK ==
    /\ day \in Days
    /\ sub \in [Submissions -> {"idle", "commit", "over"}]
    /\ run \in [Submissions -> Runs \cup {NoRun}]
    /\ user \in [Submissions -> Users \cup {NoUser}]
    /\ chosen \in [Submissions -> Agents \cup {NoAgent}]
    /\ stored \in [Submissions -> Days \cup {-1}]
    /\ score \in [Days -> Rows]
    /\ job \in [Workers -> {"idle", "insert", "commit", "invalidate"}]
    /\ period \in [Workers -> Days]
    /\ fresh \in [Workers -> Rows]
    /\ fired \in [Workers -> Days]
    /\ cache \in [Workers -> {NoAgent} \cup ((SUBSET Submissions) \X [Days -> Rows])]
    /\ rd \in [Readers -> {"idle", "feedback", "scores"}]
    /\ at \in [Readers -> Workers \cup {NoWorker}]
    /\ got \in [Readers -> SUBSET Submissions]
    /\ rolled \subseteq Days
    /\ crossed \subseteq Runs \X Users

Init ==
    /\ day = 0
    /\ sub = [x \in Submissions |-> "idle"]
    /\ run = [x \in Submissions |-> NoRun] /\ user = [x \in Submissions |-> NoUser]
    /\ chosen = [x \in Submissions |-> NoAgent]
    /\ stored = [x \in Submissions |-> -1]
    /\ score = [d \in Days |-> NoRows]
    /\ job = [w \in Workers |-> "idle"] /\ period = [w \in Workers |-> 0]
    /\ fresh = [w \in Workers |-> NoRows] /\ fired = [w \in Workers |-> 0]
    /\ cache = [w \in Workers |-> NoAgent]
    /\ rd = [r \in Readers |-> "idle"] /\ at = [r \in Readers |-> NoWorker]
    /\ got = [r \in Readers |-> {}]
    /\ rolled = {} /\ crossed = {}

-----------------------------------------------------------------------------
(* Helpers.  Definitions named "wrong variant" are not used: put in the     *)
(* place of the next definition of the same kind they break a property,     *)
(* which shows what the property says about the code.                       *)

FeedbackOf(r, u) == {x \in Stored : run[x] = r /\ user[x] = u}

\* The feedback that names agent a, on the runs created on day d.
Counted(d, a) == {x \in Stored : chosen[x] = a /\ RunDay[run[x]] = d}

-----------------------------------------------------------------------------
(* submit_feedback *)

\* The row is flushed, and the organisation's analytics are dropped from the
\* worker's cache, before the commit.
Flush(x, w, r, u, a) ==
    /\ sub[x] = "idle" /\ sub' = [sub EXCEPT ![x] = "commit"]
    /\ day >= RunDay[r]
    /\ run' = [run EXCEPT ![x] = r] /\ user' = [user EXCEPT ![x] = u]
    /\ chosen' = [chosen EXCEPT ![x] = a]
    /\ cache' = [cache EXCEPT ![w] = NoAgent]
    /\ UNCHANGED <<day, stored, crossed, score, jobVars, readVars>>

\* Wrong variant of Submit: it is left to the database, which has no such key.
SubmitUnchecked(x, w, r, u, a) == Flush(x, w, r, u, a)

\* SELECT the user's feedback on the run: a row answers 409, several make the
\* request fail.
Submit(x, w, r, u, a) == FeedbackOf(r, u) = {} /\ Flush(x, w, r, u, a)

CommitFeedback(x) ==
    /\ sub[x] = "commit" /\ sub' = [sub EXCEPT ![x] = "over"]
    /\ stored' = [stored EXCEPT ![x] = day]
    /\ crossed' = crossed \cup {<<run[x], user[x]>> : y \in
          {y \in Submissions \ {x} : sub[y] = "commit" /\ run[y] = run[x]
                                                       /\ user[y] = user[x]}}
    /\ UNCHANGED <<day, run, user, chosen, score, jobVars, cache, readVars>>

SubmitFault(x) ==
    /\ sub[x] = "commit" /\ sub' = [sub EXCEPT ![x] = "over"]
    /\ run' = [run EXCEPT ![x] = NoRun] /\ user' = [user EXCEPT ![x] = NoUser]
    /\ chosen' = [chosen EXCEPT ![x] = NoAgent]
    /\ UNCHANGED <<day, stored, crossed, score, jobVars, cache, readVars>>

-----------------------------------------------------------------------------
(* aggregate_trust_scores, in every worker process *)

\* The job for a day's runs is begun.
Start(w, d) ==
    /\ job[w] = "idle" /\ job' = [job EXCEPT ![w] = "insert"]
    /\ fired' = [fired EXCEPT ![w] = day]
    /\ period' = [period EXCEPT ![w] = d]
    /\ UNCHANGED <<day, subVars, score, fresh, rolled, cache, readVars>>

\* Wrong variant of StartJob: late in the evening, for the same day's runs.
StartJobSameDay(w) == fired[w] <= day /\ Start(w, day)

\* 01:00, once a day for each worker that is up; a job that is not started
\* within the hour is dropped.
StartJob(w) == fired[w] < day /\ Start(w, day - 1)

\* INSERT ... SELECT: a row for each agent that feedback on runs of the day
\* names.  A row that exists is left as it is; one that another worker has
\* inserted and not committed is waited for.
RollUp(w) ==
    LET d == period[w]
        new == [a \in Agents |-> IF score[d][a] # {} THEN {} ELSE Counted(d, a)]
    IN  /\ job[w] = "insert" /\ job' = [job EXCEPT ![w] = "commit"]
        /\ \A v \in Workers \ {w} : job[v] = "commit" /\ period[v] = d =>
              \A a \in Agents : new[a] = {} \/ fresh[v][a] = {}
        /\ fresh' = [fresh EXCEPT ![w] = new]
        /\ UNCHANGED <<day, subVars, score, period, fired, rolled, cache, readVars>>

\* The job's commit: the scores of the day become those of new.
Store(w, new) ==
    /\ job[w] = "commit" /\ job' = [job EXCEPT ![w] = "invalidate"]
    /\ score' = [score EXCEPT ![period[w]] = new]
    /\ fresh' = [fresh EXCEPT ![w] = NoRows]
    /\ rolled' = rolled \cup {period[w]}
    /\ UNCHANGED <<day, subVars, period, fired, cache, readVars>>

\* Wrong variant of CommitScores: rows that exist are replaced.
CommitScoresAgain(w) == Store(w, [a \in Agents |-> Counted(period[w], a)])

\* The scores and the row of scheduler_logs, in one commit.
CommitScores(w) ==
    Store(w, [a \in Agents |-> score[period[w]][a] \cup fresh[w][a]])

\* Only this worker's cache is emptied.
InvalidateAll(w) ==
    /\ job[w] = "invalidate" /\ job' = [job EXCEPT ![w] = "idle"]
    /\ cache' = [cache EXCEPT ![w] = NoAgent]
    /\ UNCHANGED <<day, subVars, score, period, fresh, fired, rolled, readVars>>

\* The INSERT fails, and with it the log that the except block would write in
\* the same transaction: nothing is stored and the cache is left alone.
InsertFault(w) ==
    /\ job[w] = "insert" /\ job' = [job EXCEPT ![w] = "idle"]
    /\ UNCHANGED <<day, subVars, score, period, fresh, fired, rolled, cache, readVars>>

\* The commit fails: the error is logged in a new transaction.
CommitFault(w) ==
    /\ job[w] = "commit" /\ job' = [job EXCEPT ![w] = "invalidate"]
    /\ fresh' = [fresh EXCEPT ![w] = NoRows]
    /\ UNCHANGED <<day, subVars, score, period, fired, rolled, cache, readVars>>

\* The process ends and is started again, at any time of the day: the job is
\* due again tomorrow, and the cache is empty.
Restart(w) ==
    /\ job' = [job EXCEPT ![w] = "idle"] /\ fresh' = [fresh EXCEPT ![w] = NoRows]
    /\ fired' = [fired EXCEPT ![w] = day]
    /\ cache' = [cache EXCEPT ![w] = NoAgent]
    /\ LET lost == {r \in Readers : at[r] = w}
       IN  /\ rd' = [r \in Readers |-> IF r \in lost THEN "idle" ELSE rd[r]]
           /\ got' = [r \in Readers |-> IF r \in lost THEN {} ELSE got[r]]
           /\ at' = [r \in Readers |-> IF r \in lost THEN NoWorker ELSE at[r]]
    /\ UNCHANGED <<day, subVars, score, period, rolled>>

Midnight ==
    /\ day < LastDay /\ day' = day + 1
    /\ UNCHANGED <<subVars, score, jobVars, cache, readVars>>

-----------------------------------------------------------------------------
(* org_analytics *)

\* What is kept is the answer.
Ask(r, w) ==
    /\ rd[r] = "idle" /\ cache[w] = NoAgent
    /\ rd' = [rd EXCEPT ![r] = "feedback"] /\ at' = [at EXCEPT ![r] = w]
    /\ UNCHANGED <<day, subVars, score, jobVars, cache, got>>

\* The average rating is of all feedback.
ReadFeedback(r) ==
    /\ rd[r] = "feedback" /\ rd' = [rd EXCEPT ![r] = "scores"]
    /\ got' = [got EXCEPT ![r] = Stored]
    /\ UNCHANGED <<day, subVars, score, jobVars, cache, at>>

\* The most trusted agent is from the scores; the whole answer is kept.
ReadScores(r) ==
    /\ rd[r] = "scores" /\ rd' = [rd EXCEPT ![r] = "idle"]
    /\ cache' = [cache EXCEPT ![at[r]] = <<got[r], score>>]
    /\ got' = [got EXCEPT ![r] = {}] /\ at' = [at EXCEPT ![r] = NoWorker]
    /\ UNCHANGED <<day, subVars, score, jobVars>>

Drop(w) ==
    /\ cache[w] # NoAgent /\ cache' = [cache EXCEPT ![w] = NoAgent]
    /\ UNCHANGED <<day, subVars, score, jobVars, readVars>>

\* Wrong variant of EntryExpires: an entry stays until it is invalidated.
EntryStays(w) == FALSE /\ Drop(w)

\* An answer is kept for ten minutes.
EntryExpires(w) == Drop(w)

-----------------------------------------------------------------------------
SubStep(x) == CommitFeedback(x) \/ SubmitFault(x)
JobStep(w) == RollUp(w) \/ CommitScores(w) \/ InvalidateAll(w)
                  \/ InsertFault(w) \/ CommitFault(w)
ReadStep(r) == ReadFeedback(r) \/ ReadScores(r)

Next ==
    \/ \E x \in Submissions :
          \/ \E w \in Workers, r \in Runs, u \in Users, a \in Agents :
                Submit(x, w, r, u, a)
          \/ SubStep(x)
    \/ \E w \in Workers : StartJob(w) \/ JobStep(w) \/ Restart(w) \/ EntryExpires(w)
    \/ \E r \in Readers : ReadStep(r) \/ \E w \in Workers : Ask(r, w)
    \/ Midnight

Spec == Init /\ [][Next]_vars

\* Requests and jobs that have begun go on, and entries age.
FairSpec ==
    /\ Spec
    /\ \A x \in Submissions : WF_vars(SubStep(x))
    /\ \A w \in Workers : WF_vars(JobStep(w)) /\ WF_vars(EntryExpires(w))
    /\ \A r \in Readers : WF_vars(ReadStep(r))

-----------------------------------------------------------------------------
(* Properties *)

\* A user has two rows for one run, which make get_my_feedback fail, only if
\* two of his submissions overlapped between their check and their commit.
OneFeedbackUnlessCrossed == \A r \in Runs, u \in Users :
    Cardinality(FeedbackOf(r, u)) > 1 => <<r, u>> \in crossed

\* aggregate_trust_scores: "Idempotent - ON CONFLICT DO NOTHING means reruns
\* are safe".  The other workers' jobs change no row that one has stored.
RerunsChangeNothing == [][\A d \in Days, a \in Agents :
    score[d][a] # {} => score'[d][a] = score[d][a]]_vars

\* A day that was rolled up counts all the feedback on its runs that was given
\* by the end of the day, for each agent.
OnTimeFeedbackCounted == \A d \in rolled, x \in Stored :
    RunDay[run[x]] = d /\ stored[x] <= d => x \in score[d][chosen[x]]

\* When nothing more is submitted or rolled up, no worker goes on answering
\* with old numbers: invalidation reaches one worker, the ten minutes all.
AnalyticsFade == <>[](\A w \in Workers :
    cache[w] \in {NoAgent, <<Stored, score>>})
=============================================================================
