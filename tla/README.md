# Judges of Hades: specifications, model checking and proofs

TLA+ models of the backend (`api/`) and of the browser client that depends on
it (`static/`), TLC configurations that check them on small instances, and TLAPS
proofs about them. Names of definitions follow the source where TLA+ allows it;
`PROJECT.json` maps every definition to the lines it stands for.

Contents: 1 the system, 2 the modules, 3 `RunPipeline`, 4 `AgentConfigs`,
5 `RefreshTokens`, 6 `OrgRoles`, 7 `SharedRuns`, 8 `Feedback`, 9 `RateLimiter`,
10 `Monitoring`, 11 `AgentChat`, 12 what is proved, 13 what is left out,
14 what disagrees with the documentation, 15 how to run it.

## 1. The system

FastAPI on one asyncio event loop per worker process (several processes in
production), PostgreSQL through SQLAlchemy sessions, Ollama over HTTP, an
in-process scheduler, and a browser client that polls. There are no locks over
the database and no queue: a handler runs to its next `await` undisturbed, and
anything may happen during an `await`. Sessions run at READ COMMITTED;
`get_db` (`core/database.py`) commits **after** the handler has returned, and
rolls back when it raises; whether that is before or after the answer is sent
depends on FastAPI's version (before 0.118, or since), and `requirements.txt`
allows both. The ORM models are not in the repository, so no
uniqueness constraint is assumed except those that `ON CONFLICT` clauses rely on.

| Component | State it keeps | Operations | Talks to |
|---|---|---|---|
| Run pipeline (`run_service.py`) | `decision_runs`, `agent_outputs`, `usage_events`; one background task per run with its own session | `create_run`, `_execute_run`, reads | classifier, configurations, Ollama, monitoring |
| Prompt classifier | `monitoring_flags` rows | `classify_prompt`, `_write_flag` | Ollama, own session |
| Monitoring (`monitor_service.py`) | `monitoring_flags` | `flag_*`, errors swallowed | own session, email stub |
| Problems (`all_routers.py`) | `problems.is_deleted`, `.visibility` | create, update, delete, delete a member's data | read by every run operation |
| Agent configurations | `agent_configs`, cache per worker (300 s) | create, activate, `_get_active_configs` | runs, chat |
| Authentication (`auth_service.py`, `middleware/auth.py`) | `users`, `refresh_tokens`, `banned_users` | register, login, refresh, logout, ban check | every request |
| Organisation roles (`superadmin_router.py`) | `users.role`, `.org_id`, `banned_users` | handoff, role changes, bans | authentication |
| Sharing | `decision_shares`, cache per worker (120 s) | create, get, revoke, view | runs |
| Feedback, analytics | `feedback`, `agent_trust_scores`, cache (600 s) | submit, aggregate, read | scheduler |
| Rate limiter, request logger | sliding windows in memory, `rate_limit_windows`, `request_logs` | check, flush, count 401s | every request, scheduler |
| Scheduler (`core/scheduler.py`) | `scheduler_logs` | four purges, trust scores | most tables |
| Chat (`chat_service.py`) | `agent_chat_messages` | send, history | runs, configurations, Ollama |
| Browser client (`static/app.js`, pages) | tokens and the active run in `localStorage`, timers, callbacks | request with refresh, `RunWatcher` | all routes |
| Comments, payload guard, error handler, config, email stub | single rows, or none | | |

**What is hard here.** Read-then-write without locks (version numbers,
activation, role changes, feedback, bans); commits that come after a side effect
which should have followed them (cache invalidation); a task whose row is
committed before it exists, and which nothing restarts; errors in error
handlers; commits whose outcome the caller misjudges; values read before an
`await` and used after it; caches with a time to live and one copy per process;
a client whose timers and callbacks outlive what they were made for.

**What makes each component correct.** Pipeline: a run has its decision, its
four outputs and `done` together or not at all; it moves forward only; it
settles; versions follow the order of creation. Configurations: one active per
agent after an activation, and later runs use it. Tokens: one successor per
refresh token. Roles: at most one admin per organisation. Sharing: a revoked or
expired link stops working, within a stated delay. Rate limiter: never more than
the limit in any window. Feedback: one per user and run, counted once.
Connections: a request that waits for one eventually gets it or fails.

The hazards at their lines, with the properties that cover them or the reason why
none does, are listed under `hazards` in `PROJECT.json`.

## 2. The modules

| Module | Models | Composes / implements |
|---|---|---|
| `RunLifecycle` | what pollers of a run may rely on | abstract |
| `RunPipeline` (+ `Proofs`) | request, task, errors, crashes | implements `RunLifecycle` |
| `AgentConfigs` (+ `Proofs`) | creation, activation, caches, readers | feeds `LoadConfigs` of the pipeline |
| `RefreshTokens` (+ `Proofs`) | login, rotation, logout, the client's automatic refresh | server and client |
| `OrgRoles` (+ `Proofs`) | registration, ban check, handoff, role changes, bans | the requests of several users |
| `SharedRuns` (+ `Proofs`) | links, their expiry and revocation, views, caches | runs that live as `RunLifecycle` says |
| `Feedback` (+ `Proofs`) | submission, analytics cache, nightly roll-up | handlers, scheduler, readers |
| `RateLimiter` (+ `MiddlewareProofs`) | sliding windows, chain of checks, flush | |
| `Monitoring` (+ `MiddlewareProofs`) | middleware stack, log task, flags, purges | logger, monitor service, scheduler, resolution |
| `AgentChat` (+ `Proofs`) | messages around a model call, creation of runs, the pool | chat, classifier, sessions |

Each has an `MC` module and one configuration of its own name. They take their
sets as `CONSTANT`s with named assumptions, have one action per step between two
`await`s (reads that no other step can tell apart are one), and declare no
`RECURSIVE` operator. Still worth doing: a model of
`RunWatcher`, the browser's poller.

## 3. RunPipeline

`RunPipeline.tla` models `POST /problems/{id}/runs` and the task it starts.

| State | Code |
|---|---|
| `deleted`, `private` | `problems.is_deleted`, `.visibility` |
| `status`, `version`, `decided` | columns of `decision_runs`; `decided` stands for `final_decision` and `completed_at` |
| `outputs`, `usage`, `promptFlags`, `runFlags` | rows of `agent_outputs`, `usage_events`, `monitoring_flags` |
| `req`, `on` | where `create_run` is, and for which problem |
| `task`, `replies` | where `_execute_run` is; outputs added to its session |
| `seen` | history: the runs counted when the version was chosen |
| `hits` | faults and process deaths so far (bounded by `MaxHits`) |

A request goes `classify -> count -> insert -> spawn -> accepted`, or to
`report -> blocked`, `refused`, `error`. A task goes
`fetch -> start -> configs -> agents -> verdict -> over`, and on an exception
`rescue -> mark -> flag -> over`. Each arrow is one action and ends at an
`await`. A database call may fail (`RequestFault`, `TaskFault`, `RescueFault`);
with `LostAcks`, a commit may also take effect while the caller gets an error
(`ReqCommit`, `TaskCommit`), as when the connection is lost before the reply.
`Crash(S)` ends the worker process that carries the requests and tasks of `S`.
The order of the four agents is fixed, so answers and rows are counted. The
flush and the commit of `create_run` are one action, since only the commit can
be seen by others. The problem's owner and the org admin act at their commit.
Calls of `_write_flag` and `flag_failed_run` use a session of their own and
swallow errors, hence may or may not leave a row.

`RunLifecycle.tla` is the life of a run for those who poll it:
`absent -> pending -> running -> done`, or `failed` before `done`, the decision
together with `done`. `Retractable` admits `done -> failed`, and is set to
`LostAcks`: the acknowledgement of `CommitVerdict` is lost, and the except block
follows.

*Run* `pipeline`: 2 requests, 1 problem, its owner and another reader, lost
acknowledgements, up to 2 faults or deaths per run, `FairSpec`. Runs only
interact through the count of rows and the problem, and 2 hits let the error
handler fail as well. It checks `VersionsIncrease` (two runs share a number only
if their requests overlapped), `VerdictAtomic`, `TaskFindsRow`,
`AnswersMatchRows`, `FlagMeansFailed`, `NoOrphanWithoutHit`, the refinement
`ImplementsLifecycle`, `DeletedGetsNoWork`, and with fairness `SettlesUnlessHit`
and `DeletedDrains`. Larger numbers of requests and problems are covered by the
proofs of section 12.

*Fairness* (`FairSpec`): weak fairness of the steps of each request and of each
task. The event loop resumes every coroutine whose `await` is over, and each
`await` ends: `_call_ollama` has a timeout of 120 s, the classifier one of 30 s,
and a database that does not answer ends in an exception. Nothing is assumed
about owners or callers; faults are never required, only possible.

## 4. AgentConfigs

`AgentConfigs.tla` models the rows of one organisation and, per worker process,
the cache entries for its agents.

| Action | Code |
|---|---|
| `ReadLastVersion`, `CommitCreate` | `admin_create_config`: `max(version)`, then the insert with `get_db`'s commit |
| `LoadConfig` | `admin_activate_config`: SELECT by id; the session remembers `is_active` |
| `ReadPrev` | SELECT of the active rows, the marks in the session and the invalidation: no `await` in between |
| `CommitActivate` | `get_db`'s commit. SQLAlchemy writes only what differs from what was loaded: the target is written only if it was loaded as inactive, and is not deactivated even if it is among the rows read |
| `LookUp`, `QueryActive`, `Fill` | `_get_active_configs`, cut at its one `await`: cache, query, cache |
| `Expire` | `TTLCache` drops an entry (300 s, or to make room) |

`met`, `last`, `mixed` and `raced` are history: which activations overlapped,
which one committed last, which readers and entries an activation overlapped.

*Run* `configs`: 1 agent, 3 configurations, 2 activations, 1 reader, 2 workers,
`FairSpec`. `OneActiveUnlessOverlap`: an activation without overlap leaves
exactly its configuration active, whatever was active before;
`VersionsHaveNoGaps`; `StaleOnlyAfterRace`; `CacheHeals`: every cache is fresh
for good some time after the last activation. A second reader would only fill
the same entries; activations of different agents do not meet in the database,
and drop each other's cache entries only.

*Fairness*: the steps of a request or reader that has begun (as above) and the
aging of entries, which is the clock's. Nobody is assumed to activate or read.

## 5. RefreshTokens

`RefreshTokens.tla` composes the server's three token handlers with the client
that calls them: one user, a browser whose tabs share `localStorage`, and a
network. A call of `api.request` is in one of the states of `call` (the client's
side) and of `msg` (its request, the server's work on it, or its answer); the two
part ways when a page is left, which ends scripts but not handlers.

| Action | Code |
|---|---|
| `Send` | `api.request`, and `logout()`, which reads the refresh token for its body once |
| `Rejected`, `ServeApi`, `ServeLogout`, `ServeLogin` | `get_current_user` (expired token: 401) and the handlers |
| `FindRow`, `Rotate` | `refresh`: SELECT of the unrevoked row; then the revocation, the new row and the answer |
| `Finish` (part of `Rotate`, `ServeLogin`, `ServeLogout`) | the handler returns: committed and answered, or answered with its transaction left in `open` |
| `Commit`, `CommitFault` | `get_db`'s commit after the answer; it fails, or the process ends before it |
| `Refresh`, `Resend`, `GiveUp` | `Auth.refreshToken` after the first 401: send it, save the pair and repeat the call, or clear and go to the login page |
| `Return`, `LogOut` | the call is over; `doLogin` saves the tokens, `logout()` clears them |
| `Fault` | an error answer (403, 5xx), a lost request or a lost answer |
| `ExpireAccess`, `ExpireRefresh` | time; tokens expire in the order of issue |

Pairs of tokens are numbered in the order of issue. `parent`, `shared` and `calm`
are history: which token was spent for which pair, which tokens two calls had
sent at the same time, and whether something has happened that may leave a token
on one side only (a fault, a commit that fails after its answer, a token that
comes to the server before its row is committed, a login over a session or among
other calls, a page left during a refresh, a logout sent a second time). A token
whose revocation waits for its commit counts as sent at the same time, too: a call
that sends it then finds it unrevoked.

*Run* `tokens`: a call and a logout of one page, a login in another tab, 5 pairs.
`BrowserMatchesServer`: when all is quiet the server honours the browser's token
and no other. `SessionKept`: without the events named and within thirty days,
only a logout makes the browser forget its tokens. Both say nothing once `calm`
is lost, and it never comes back. `SpentStaysSpent` does: after faults, failed
commits and early tokens, too. What follows such an event is explored for the
logout and the login only (the constraint `TwoOnceSeparated`), which is enough to
send a token twice; all three calls would have twenty times the states. *Run*
`tokens_one_time`: section 14; it shows what the tokens in `shared` lead to.

Five pairs are all that these calls can use up, so the bound never stops anything.
Parallel refreshes need two calls, and each call refreshes at most once.

## 6. OrgRoles

The accounts, their roles and organisations, the ban rows, and any number of
requests by any of them. A request is cut at its queries: `Begin` loads the
caller (`get_current_user`), `CheckBan` looks for ban rows and checks the role
asked for, `LoadTarget` loads the user it is about and answers the refusals,
`LoadAdmins`, `LoadBan` and `LoadRow` read what else it decides by, and the
`Commit...` actions are `get_db`'s commit with the columns that the session
changed. A column given the value it was loaded with is not written (`Given`).
`Refuse` stands for every refusal and every failed query. Roles are `member`,
`admin` and `super_admin`; the initial states are any roles in any
organisations, so also those that earlier overlapping requests have left.

`orderly`, `met` and `crossed` are history: no change of roles has been overtaken
by another or made by a call that ignores the rule (`change_member_role` and
`admin_update_user` may make a second admin, a super admin's handoff leaves the
organisation's), and users whom two overlapping requests have banned.

*Run* `org_roles`: 3 users, 2 organisations, 2 requests, with symmetry.
`SoleAdminWhenOrderly`, `OneBanRowUnlessCrossed` (two rows shut a user out for
good, since every later look-up raises), `PromotionHeals`. Two requests are what
it takes to overlap, and the initial states stand for any number of earlier ones;
three users are an admin, the one handed over to, and one more admin. The
organisation that `register` joins is given; its creation is left out.

## 7. SharedRuns

Links, the cache of each worker process, the steps of `view_shared` (cache, row,
run) and of `revoke_share` (row and invalidation, commit). The runs are an
instance of `RunLifecycle`, whose steps interleave with all of it. `wasDone`,
`mixed`, `raced`, `older` and `servedBy` are history.

*Run* `shares`: 1 run, 2 links, 2 workers, 1 viewer, 1 revocation at a time,
`FairSpec`. `ViewSeesVerdict`: only finished runs are kept.
`RevokedKeptOnlyAfterRace`: in the process that served a revocation the link is
in the cache only if a view overlapped it. `RevokeLeavesOnlyNewer`: no link that
was there before answers after a revocation that succeeded (two links make it
fail). `DeadLinksFade`: neither expiry nor revocation is seen through the caches
for ever. Two viewers at once only fill the same entry. *Fairness*: views that
have begun, and the aging of entries.

## 8. Feedback

`submit_feedback` in two steps (check, flush and invalidation; commit), the
analytics of an organisation as the rows they are made of, and
`aggregate_trust_scores` in every worker process: `StartJob` at 01:00 of the day
after, `RollUp` (the INSERT with its conflicts, which waits for a row another
worker has inserted), `CommitScores`, `InvalidateAll`, its two kinds of fault,
and `Restart` of the process. `day` is the date of the database.

*Run* `feedback`: 1 run of the first day, 1 user, 2 submissions, 2 agents, 2
workers, 1 reader, 2 days, `FairSpec`. `OneFeedbackUnlessCrossed`;
`RerunsChangeNothing` (the docstring's "reruns are safe"); `OnTimeFeedbackCounted`:
a day that was rolled up counts all feedback of that day; `AnalyticsFade`: no
worker keeps old numbers for good. Feedback given after the roll-up is counted
nowhere, which the second of these implies. One user and one run are the case
where rows can be doubled; the roll-up tells agents and days apart only.

## 9. RateLimiter

One process. Time is in ticks, and time stamps are represented by their age up
to the length of the window, which makes the model finite. `Request` runs the
chain of checks of one caller (no `await` in between), `BeginFlush` and
`StoreFlush` are the two parts of `_flush_to_db`, `Tick` is the clock.

*Run* `limiter`: 2 members of one organisation with limits 2 and 1, the
organisation's 2, windows of 2 seconds in half-second ticks, a flush every
second, at most 2 flushes under way. `LimiterInit`, `LimiterNext` and
`LimiterTypeOK` are named apart from those of `Monitoring`, since one module of
proofs takes in both. `WindowBound`: the limits of the README, in
any stretch as long as the window; `RetryAfterHonest`: the answer's `Retry-After`
suffices and is not a second too long; `LastPaysForServed`: what the
organisation's window counts are requests that were let through, though a
member's also counts those that the organisation's refused;
`StoredCountsGrow`: counts of a window only grow in the table, unless a flush was
overtaken. The small limits fill every window, and half seconds make the cut-off
of `int()` visible. All windows have one length here. With several processes each
has limits of its own, so that the organisation's is multiplied by their number.

## 10. Monitoring

A request is answered by an outer middleware (`Refuse`), by the handler of
unhandled exceptions (`Raise`), or through the logger (`Respond`), which starts
the task of `_write_log_and_flags`: `InsertLog` or `LogFault`, then `FlagAnswer`
(5xx, slow) or `FlagRepeated` (401), each in a session of its own with its errors
swallowed. `Forget` is the minute of the 401s, `Crash` the end of the process.

The purges run in every worker process, on any of the rows that may be old
(`Purgeable`):

| Action | Code |
|---|---|
| `PreviewPurge` | the SELECT of up to 500 rows, for the detail of the log (`listed`) |
| `PurgeRows` | the DELETE, which waits for rows that another job holds, and removes at least what was listed and is still there |
| `CommitPurge` | `_write_log`: the deletion and its log ("success", or "skipped" for no rows) in one commit; the count is the DELETE's, the rows listed are the preview's |
| `PurgeError` | an exception after the DELETE that leaves the transaction alive: the error's log counts 0 and commits the deletion |
| `PurgeFault` | a statement or the commit fails, or the process ends: nothing is deleted |

*Run* `monitoring`: 2 requests from one address or two, a threshold of 2, 2
workers, `FairSpec`. `RepeatedIsTrue`: a flag for repeated 401s is never raised by
other addresses' requests. `SeenErrorsFlagged`: a 5xx that the logger saw is
flagged, also when its log could not be written. `DeletedOnceReported`: however the
workers' jobs overlap or fail, each deleted row is counted once, or belongs to a
job that answered with an error. `ListedAreGone`: what a committed report lists has
been deleted, by that job or by another; two reports may list the same rows (section
14). Two requests reach the threshold or fail to, and leave up to two rows in each
table. *Fairness*: tasks that were started go on. *Run* `monitoring_server_errors`:
section 14.

## 11. AgentChat

Requests that hold a pooled connection while they wait for Ollama: chat messages
(`SaveMessage` flushes the user's, `CommitReply` commits both and then answers)
and creations of runs, whose refused prompt asks the pool for a second
connection (`Connect` at `flag`). `PoolTimeout` is the pool's thirty seconds.
`FlagFault` is any other error of the flag's session (its connection, the INSERT,
the commit, or only the commit's acknowledgement), which `_write_flag` swallows;
history `unwritten` keeps the creations whose flag met with an error.

*Run* `chat`: 2 chats, 2 creations, a pool of 2, `FairSpec`; deadlock is not
checked since requests end. `MessagesPaired`, `AnswersRemembered` (only
overlapping messages miss each other), `RefusedIsFlagged` (only an error of its own
session loses a refused prompt's flag, not the rollback of its request),
`PoolRefills`: all connections come back, however the requests end. With a pool of 2, two creations
hold all there is and wait for more. *Fairness*: every step of a request that has
begun, since the model call and the pool have timeouts. Runs being executed also
use the pool; they hold one connection at most and never ask for a second.

## 12. What is proved

`RunPipelineProofs.tla`, checked by TLAPS, for every finite set of requests, all
sets of problems and users, every `MaxHits`, and both values of `LostAcks`:

| Theorem | Statement |
|---|---|
| `Invariance` | `Spec => []IInv` |
| `TypeCorrect`, `VerdictIsAtomic`, `TaskAlwaysFindsRow`, `VersionsAlwaysIncrease`, `AnswersAlwaysMatchRows`, `FlagAlwaysMeansFailed`, `NoOrphans` | the type invariant and the invariants of `pipeline` |
| `DeletedNeverGetsWork` | the action property of `pipeline` |
| `PipelineImplementsLifecycle` | `Spec => Lifecycle!Spec` |

*Assumptions*: `Runs` is finite (sizes of counted sets), `Owner` maps problems to
users, `LostAcks` is Boolean, `MaxHits` is a natural number, `NoProblem` is no
problem.

*The argument.* None of the invariants is inductive. `IInv` adds, for each run,
where the request must be for the row to exist (`RequestInv`), which status goes
with which point of the task (`TaskInv`), what the session holds at each point
(`OutputInv`: exactly four outputs when the decision is committed, none at the
start), and for the versions that the counted sets are nested: whoever was
counted was stored, for the same problem, and had itself counted a subset that
does not contain it (`SeenInv`). Version numbers are sizes of these sets plus
one, so a strictly smaller set gives a strictly smaller number. The proof has
one lemma per conjunct and one step per action; the refinement has one step per
action, most of which stutter.

`RefreshTokensProofs.tla`, for every set of calls of any kinds and tabs and every
`MaxPairs`: `Invariance`, `TypeCorrect`, and `SpentAlwaysStaysSpent`
(`SpentStaysSpent`). Its `IInv` says that whoever rotates a token has seen it
unrevoked, and that it can only have been revoked since by a call that had it at
the same time (`RotateInv`), which holds because two calls about to spend one
token are always noticed when the second sends it (`ShareInv`), as is whoever
sends one whose revocation is not yet committed (`OpenInv`). `CalmInvariance`
adds where each token is while nothing has separated the two sides (`CalmInv`). It
counts a token as spent from the end of the handler on, whether its transaction is
committed or waits for that (`Spent`), since with or without the answer in front
the outcome is the same: each pair has its row or a transaction that will insert
it (`RowInv`), a refresh under way is of the stored pair and of one call only, a
logout spends what is stored, and an unspent pair (`Lasting`) is stored or in the
one answer that brings it. When no transaction is open, the unspent pairs are
those the server honours. `BrowserAlwaysMatches` (`BrowserMatchesServer`) and
`SessionAlwaysKept` (`SessionKept`) follow. *Assumptions*: `Kind` gives each call
its kind, and `MaxPairs` is a positive number.

`AgentConfigsProofs.tla`, for all agents, workers, activations and readers:
`TypeCorrect`, `OneActive` (`OneActiveUnlessOverlap`), `NoGaps`
(`VersionsHaveNoGaps`) and `StaleEntries` (`StaleOnlyAfterRace`). The `IInv` has
three independent parts. A number about to be inserted is 1 or follows one that is
there (`NumberInv`); no row is ever deleted. An activation that has met no other
that took effect knows the table as it is: the target's state and the rows to be
deactivated (`KnowsAt`); two that are under way have met (`MetInv`). Between an
invalidation and its commit the entries there are counted as raced (`InvalidInv`),
and a reader that no activation overlapped fills in rows that are active
(`ReaderAt`). *Assumptions*: `AgentOf` gives each configuration its agent,
`NoConfig` is none, and there are finitely many configurations (the database's
`max` exists).

`OrgRolesProofs.tla`, for all organisations, requests and finite sets of users,
from any roles: `TypeCorrect`, `SoleAdmin` (`SoleAdminWhenOrderly`), `OneBanRow`
(`OneBanRowUnlessCrossed`) and `PromotionLeavesOne` (`PromotionHeals`). The `IInv`
says that a request which no change of roles has overtaken holds the roles and
organisations of its caller and its target as they are, and, when it promotes, all
the admins it must demote (`KnowsInv`), and which requests have met at the ban row
they are about to insert (`BanInv`). *Assumption*: `Users` is finite, since admins
are counted.

`SharedRunsProofs.tla`, for all runs, links, workers, viewers and revocations:
`TypeCorrect`, `VerdictSeen` (`ViewSeesVerdict`), `RevokedKept`
(`RevokedKeptOnlyAfterRace`) and `RevokeLeavesNewer` (`RevokeLeavesOnlyNewer`). The
`IInv` says that a run seen done is settled from then on, which is what
`RunLifecycle` promises (`ViewAt`), and that a view which can still fill in a link
under revocation has met it (`OverlapAt`). It needs no assumptions but those of
`RunLifecycle`.

`FeedbackProofs.tla`, for all users, runs, submissions, workers and readers and any
number of days: `TypeCorrect`, `OneFeedback` (`OneFeedbackUnlessCrossed`),
`RerunsSafe` (`RerunsChangeNothing`) and `FeedbackCounted` (`OnTimeFeedbackCounted`).
The `IInv` says which submissions have crossed (`CrossAt`), that a job is about a day
that is over, and that what it has inserted together with what is stored counts all
feedback of that day (`JobAt`), no row of it inserted by two jobs (`ApartAt`).
*Assumptions*: `LastDay` is a natural number and `RunDay` gives each run its day.

`AgentChatProofs.tla`, for all sets of chats and creations and every positive pool
size: `TypeCorrect` (no request holds more than two connections),
`MessagesAlwaysPaired`, `AnswersAlwaysRemembered` and `RefusedAlwaysFlagged` (a
refused prompt has its flag, or its flag met with an error). Its
`IInv` adds how many connections a request holds at each point (`PointInv`) and
that an exchange which was answered, or is about to be, is stored (`StoredInv`):
the prompt of a message is built from the table, which then holds it.
*Assumptions*: a chat is not a creation, the pool has a connection.

`MiddlewareProofs.tla` about `Monitoring`, for every finite set of requests, all
addresses and workers and every positive threshold: `TypeCorrect`, `RepeatedAlwaysTrue`,
`DeletedAlwaysOnceReported` (`DeletedOnceReported`), `ListedAlwaysGone`
(`ListedAreGone`) and `UnresolvedAlwaysKept` (a purge never removes a flag
that nobody has resolved, which no run checks). Its `IInv` says that a counted 401
belongs to an answer that stays (`PathInv`), so that the counted ones are among
those answered, and that a row which a job has deleted and not committed is still
in its table, with no other job, and resolved if it is a flag (`DoomedInv`): what a
commit removes is then exactly what the job has counted. A row that a job lists
stays one that may be purged, and after the DELETE it is gone or among what the
job has deleted (`ListedInv`).

`MiddlewareProofs.tla` about `RateLimiter`, for all windows, limits, chains of
callers, flushes and lengths of time: `LimiterInvariance`, `LimiterTypeCorrect`
(`LimiterTypeOK`), `WindowsBounded` (`WindowBound`), `RetryAlwaysHonest`
(`RetryAfterHonest`), `LastAlwaysPaysForServed` (`LastPaysForServed`) and
`StoredAlwaysGrow` (`StoredCountsGrow`). The invariant `LimiterInv` says that
stamps are in order, so that those pruned are the first, and at most as many as the
limit; that, counted from the youngest, each request let through within the window
has a stamp that is no older (`Covers`), which bounds the requests by the stamps;
and that a window which has refused is full, its oldest stamp leaving it when
`Retry-After` is over or less than a second before (`RefusedAt`), which is where
the cut-off and the added second of the code come in. For the counts, `CountInv`
compares what is stored, or about to be, with the stamps there now: as long as its
start is within the window, a count is of stamps that are still there and no older
than that start, so that a snapshot taken later with the same start counts no fewer;
and unless one was overtaken, no snapshot under way counts fewer than are stored.
*Assumption* (`LimiterAssumption`): limits and times are positive, the window is a
whole number of seconds, and the windows in a caller's chain differ.

*Only model-checked*: the liveness properties (`SettlesUnlessHit`, `DeletedDrains`,
`CacheHeals`, `DeadLinksFade`, `AnalyticsFade`, `SeenErrorsFlagged`, `PoolRefills`),
which are out of the reach of the prover. Every invariant and every action property
that a passing run checks is also the conclusion of a theorem. The type invariants
are proved, and no run checks them.

## 13. What is left out

Prompts, model texts, latencies and timestamps are data no property depends on.
Reads that change nothing (`list_runs`, `get_run_or_404`, `get_agent_outputs`,
`get_share`, `get_my_feedback`, the lists of the admin and super admin pages)
appear through what they would see. Users are never deleted, so "User not found"
is left out of `RefreshTokens`, and reading a row and the end of the handler are
one action in `logout`, as no other step between them would be noticed. The role checks of the
admin calls on configurations and on a member's data are not modelled. A faulty
database call changes nothing in `AgentConfigs` (lost acknowledgements are in
`RunPipeline` only). A cached configuration is taken as usable in `AgentConfigs`:
that a rollback of the session that loaded it expires the ORM object, and leaves it
unreadable for later runs, is a hazard without a property. The fairness of all
modules assumes that every `await` of the database ends, in a result or an error,
and that the tasks which `create_task` returned to nobody (`run_service.py:131`,
`request_logger.py:98`) are kept alive until they are done.

*Not modelled*: comments (operations on single rows), the choice of the
organisation in `register`, organisations' names and plans, the personal analytics
and the table of agents (cached reads like those of `Feedback`, of which the
personal ones are never invalidated), the purge of `rate_limit_windows` (rows that
nothing but a page reads), the checks that the payload guard makes of one request,
configuration and the email stub. `RunWatcher` and the pages' callbacks keep
timers and lists in the browser only; they are the largest stateful part without
a model, and a hazard names their lines. The rest of the pages is rendering.

## 14. Disagreements with the documentation

Each of these is a run that TLC must find violated.

| Run | Documentation | Code |
|---|---|---|
| `pipeline_unsettled` | README:295, poll until `done` or `failed`; README:318 | nothing settles a run whose process ended, or whose error handler failed |
| `tokens_one_time` | README:454, refresh tokens are for one-time use | two refreshes at once both get a successor |
| `monitoring_server_errors` | `monitor_service.py:3`, 5xx and 429 are flagged | an exception nobody handles passes by the logger; 429 is answered outside of it |

Others have no run of their own; the condition of a property states where they
begin.

| Documentation | Code | Property |
|---|---|---|
| README:421, activation deactivates any previous version | overlapping activations leave two active, or none when one was active already (README:395) | `OneActiveUnlessOverlap` |
| `all_routers.py:578`, README:426, in effect for the next run | invalidated before the commit, in one process: refilled or kept with the old one | `StaleOnlyAfterRace` |
| README:455, logout revokes the refresh token | after an automatic refresh the logout is sent again with the old one | `BrowserMatchesServer` (`calm`) |
| `superadmin_router.py:244`, one admin per organisation at any time | overlapping changes, and three calls that do not heed the rule | `SoleAdminWhenOrderly` |
| `all_routers.py:311`, the token stops working at once | invalidated before the commit, in one process | `RevokedKeptOnlyAfterRace` |
| README:452, a refresh token is valid for 30 days, "Send to `POST /auth/refresh` to get a new pair" | from FastAPI 0.118 on the pair is answered before `get_db` commits it (`database.py:27`): whoever uses it before that, or after that commit has failed, is answered 401, and the browser forgets its session | `SessionKept` (`calm`) |
| `scheduler.py:8`, detail is the "full JSON list of affected rows" | it lists the preview: two workers list the same rows, and the one that deleted none reports them in a log that says "skipped" | `ListedAreGone` |
| README:359, one feedback per user and run | overlapping submissions store two, and reading them then fails | `OneFeedbackUnlessCrossed` |
| README:373, `410` if expired | a cached view is answered without a look at the expiry, up to the entry's two minutes | `DeadLinksFade` |
| README:310-314, each answer persisted before the next call | all four rows are committed with the decision | `VerdictAtomic` |

## 15. Running it

    tlc -config RunPipeline.cfg MCRunPipeline.tla
    tlc -config Monitoring.cfg MCMonitoring.tla
    tlc -config RefreshTokensOneTime.cfg MCRefreshTokens.tla
    tlapm RunPipelineProofs.tla MiddlewareProofs.tla

and in the same way for the other modules; `PROJECT.json` lists the runs.
Definitions introduced as *wrong variants* are not part of the specifications.
Putting one in the place of the definition it varies makes TLC report the
property `PROJECT.json` names beside it (`mutants`).
