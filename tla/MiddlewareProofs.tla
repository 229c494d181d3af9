-------------------------- MODULE MiddlewareProofs --------------------------
(***************************************************************************)
(* Proofs about the middlewares: Monitoring, for any requests, addresses,   *)
(* threshold and workers, and RateLimiter, for any windows, limits, chains  *)
(* and lengths of time.  They share no state.                               *)
(*                                                                          *)
(* The inductive invariant of Monitoring has three parts: what is known of  *)
(* a request from where its task is; that rows which a job has deleted and  *)
(* not committed are still in their table, and in that of one job only; and *)
(* that listed rows are gone, or will be with the job that lists them.      *)
(*                                                                          *)
(* That of RateLimiter compares the stamps of a window, from the youngest   *)
(* on, with the requests let through and with those that a row or a flush   *)
(* has counted: each of these has a stamp that is no older.                 *)
(***************************************************************************)
EXTENDS Monitoring, RateLimiter, FiniteSetTheorems, WellFoundedInduction, TLAPS

-----------------------------------------------------------------------------
(* Monitoring *)

\* A task that was started, a flag and a counted 401 belong to an answer.
AnswerAt(x) ==
    /\ task[x] # "none" => answer[x] # "none"
    /\ x \in flags => answer[x] # "none"
    /\ x \in recent => answer[x] = "401"

PathInv ==
    /\ from \in [Requests -> Addresses]
    /\ answer \in [Requests -> Responses \cup {"raised", "refused", "none"}]
    /\ task \in [Requests -> {"none", "log", "flag", "over"}]
    /\ recent \subseteq Requests /\ lost \subseteq Requests
    /\ \A x \in Requests : AnswerAt(x)

\* Deleted rows that wait for their commit belong to one job each, and a flag
\* among them is resolved.
DoomedInv ==
    /\ \A w \in Workers, x \in Requests :
          /\ <<x, "request_logs">> \in doomed[w] => x \in logs
          /\ <<x, "monitoring_flags">> \in doomed[w] => x \in resolved
    /\ \A v, w \in Workers : v # w => doomed[v] \cap doomed[w] = {}

TableInv ==
    /\ logs \subseteq Requests /\ flags \subseteq Requests /\ resolved \subseteq flags
    /\ doomed \in [Workers -> SUBSET (Requests \X Tables)]
    /\ DoomedInv
    /\ excess \in Int /\ unreported \in Nat /\ DeletedOnceReported

\* No task touches the rows of a request any more.
Settled(x) == task[x] = "over" /\ x \notin recent

\* A listed row is settled; a listed flag stays resolved; and the DELETE leaves
\* none of them but what other jobs have deleted.
ListedAt(w, x) ==
    /\ <<x, "request_logs">> \in listed[w] =>
          /\ job[w] = "request_logs" /\ Settled(x)
          /\ w \in deleted /\ x \in logs => <<x, "request_logs">> \in doomed[w]
    /\ <<x, "monitoring_flags">> \in listed[w] =>
          /\ job[w] = "monitoring_flags" /\ Settled(x) /\ (x \in flags => x \in resolved)
          /\ w \in deleted /\ x \in flags => <<x, "monitoring_flags">> \in doomed[w]

ListedInv ==
    /\ job \in [Workers -> Tables \cup {"idle"}] /\ deleted \subseteq Workers
    /\ listed \in [Workers -> SUBSET (Requests \X Tables)]
    /\ \A w \in deleted : job[w] # "idle"
    /\ \A w \in Workers, x \in Requests : ListedAt(w, x)

IInv == PathInv /\ TableInv /\ ListedInv /\ RepeatedIsTrue

Failures(x) == {y \in Requests : answer[y] = "401" /\ from[y] = from[x]}

\* No request has been made.
LEMMA InitInvariant == Init => IInv
BY DEF Init, IInv, PathInv, AnswerAt, TableInv, DoomedInv, DeletedOnceReported, RepeatedIsTrue,
       ListedInv, ListedAt

\* A subset of the rows is a finite set.
LEMMA RowsFinite ==
    ASSUME NEW S \in SUBSET (Requests \X Tables)
    PROVE  IsFiniteSet(S)
<1>1. IsFiniteSet({"request_logs"}) /\ Tables = {"request_logs"} \cup {"monitoring_flags"}
  BY FS_Singleton DEF Tables
<1>2. IsFiniteSet(Tables)
  BY <1>1, FS_AddElement
<1>3. IsFiniteSet(Requests \X Tables)
  BY <1>2, FS_Product, RequestsAssumption
<1> QED
  BY <1>3, FS_Subset

\* What a job has deleted is still in the tables.
LEMMA DoomedRows ==
    ASSUME TableInv, NEW w \in Workers
    PROVE  doomed[w] \subseteq Rows
<1> SUFFICES ASSUME NEW e \in doomed[w] PROVE e \in Rows
  OBVIOUS
<1>1. PICK x \in Requests, table \in Tables : e = <<x, table>>
  BY DEF TableInv
<1>2. CASE table = "request_logs"
  <2>1. x \in logs
    BY <1>1, <1>2 DEF TableInv, DoomedInv
  <2> QED
    BY <1>1, <1>2, <2>1 DEF Rows, RowsOf
<1>3. CASE table = "monitoring_flags"
  <2>1. x \in flags
    BY <1>1, <1>3 DEF TableInv, DoomedInv
  <2> QED
    BY <1>1, <1>3, <2>1 DEF Rows, RowsOf
<1> QED
  BY <1>1, <1>2, <1>3 DEF Tables

\* Rows are added and flags resolved while the jobs are left alone.
LEMMA TablesGrow ==
    ASSUME TableInv, UNCHANGED jobVars,
           logs \subseteq logs', logs' \subseteq Requests,
           flags' \subseteq Requests, resolved \subseteq resolved',
           resolved' \subseteq flags'
    PROVE  TableInv'
BY DEF TableInv, DoomedInv, DeletedOnceReported, jobVars

\* The rows that a job deletes are in their table, and in no other job.
LEMMA PurgeStep ==
    ASSUME TableInv, NEW w \in Workers, NEW table \in Tables \cup {"idle"}, table # "idle",
           NEW gone \in SUBSET Purgeable(table), PurgeRows(w, gone)
    PROVE  TableInv'
<1>1. gone \subseteq Requests \X Tables
  BY DEF Purgeable, RowsOf, Old, TableInv
<1>2. \A x \in Requests : /\ <<x, "request_logs">> \in gone => x \in logs
                          /\ <<x, "monitoring_flags">> \in gone => x \in resolved
  BY DEF Purgeable, RowsOf, Old, Tables
<1>3. /\ doomed' = [doomed EXCEPT ![w] = gone]
      /\ UNCHANGED <<logs, flags, resolved, excess, unreported>>
      /\ \A v \in Workers \ {w} : doomed[v] \cap gone = {}
  BY DEF PurgeRows, Delete, Held, flagVars
<1>4. \A v \in Workers : doomed'[v] = IF v = w THEN gone ELSE doomed[v]
  BY <1>3 DEF TableInv
<1>5. doomed' \in [Workers -> SUBSET (Requests \X Tables)]
  BY <1>1, <1>3 DEF TableInv
<1>6. DoomedInv'
  <2>1. ASSUME NEW v \in Workers, NEW x \in Requests
        PROVE  /\ <<x, "request_logs">> \in doomed'[v] => x \in logs'
               /\ <<x, "monitoring_flags">> \in doomed'[v] => x \in resolved'
    <3>1. CASE v = w
      <4>1. doomed'[v] = gone
        BY <1>4, <3>1
      <4>2. logs' = logs /\ resolved' = resolved
        BY <1>3
      <4> QED
        BY <1>2, <4>1, <4>2
    <3>2. CASE v # w
      BY <1>3, <1>4, <3>2 DEF TableInv, DoomedInv
    <3> QED
      BY <3>1, <3>2
  <2>2. \A v, u \in Workers : v # u => doomed'[v] \cap doomed'[u] = {}
    <3>1. ASSUME NEW v \in Workers, NEW u \in Workers, v # u
          PROVE  doomed'[v] \cap doomed'[u] = {}
      <4>1. doomed[v] \cap doomed[u] = {}
        BY <3>1 DEF TableInv, DoomedInv
      <4> QED
        BY <1>3, <1>4, <3>1, <4>1
    <3> QED
      BY <3>1
  <2> QED
    BY <2>1, <2>2 DEF DoomedInv
<1> QED
  BY <1>3, <1>5, <1>6 DEF TableInv, DeletedOnceReported

\* Committed or given up, a job leaves the rows of the others as they are; one
\* that commits counts as many rows as it deletes, or logs an error.
LEMMA EndPurgeStep ==
    ASSUME TableInv, NEW w \in Workers, CommitPurge(w) \/ PurgeError(w) \/ PurgeFault(w)
    PROVE  TableInv'
<1>1. doomed' = [doomed EXCEPT ![w] = {}]
  BY DEF CommitPurge, PurgeError, Report, PurgeFault, EndPurge
<1>2. \A v \in Workers : doomed'[v] = IF v = w THEN {} ELSE doomed[v]
  BY <1>1 DEF TableInv
<1>3. doomed' \in [Workers -> SUBSET (Requests \X Tables)]
  BY <1>1 DEF TableInv
<1>4. CASE PurgeFault(w)
  <2>1. UNCHANGED <<logs, flags, resolved, excess, unreported>>
    BY <1>4 DEF PurgeFault, flagVars
  <2>2. DoomedInv'
    BY <1>2, <2>1 DEF TableInv, DoomedInv
  <2> QED
    BY <1>3, <2>1, <2>2 DEF TableInv, DeletedOnceReported
<1>5. CASE CommitPurge(w) \/ PurgeError(w)
  <2> DEFINE purged(table) == {x \in Requests : <<x, table>> \in doomed[w]}
  <2>1. /\ logs' = logs \ purged("request_logs")
        /\ flags' = flags \ purged("monitoring_flags")
        /\ resolved' = resolved \ purged("monitoring_flags")
    BY <1>5 DEF CommitPurge, PurgeError, Report
  <2>2. ASSUME NEW v \in Workers, NEW e, e \in doomed'[v]
        PROVE  e \in doomed[v] /\ e \notin doomed[w]
    BY <1>2, <2>2 DEF TableInv, DoomedInv
  <2>3. DoomedInv'
    <3>1. ASSUME NEW v \in Workers, NEW x \in Requests
          PROVE  /\ <<x, "request_logs">> \in doomed'[v] => x \in logs'
                 /\ <<x, "monitoring_flags">> \in doomed'[v] => x \in resolved'
      BY <2>1, <2>2 DEF TableInv, DoomedInv
    <3>2. \A v, u \in Workers : v # u => doomed'[v] \cap doomed'[u] = {}
      BY <1>2 DEF TableInv, DoomedInv
    <3> QED
      BY <3>1, <3>2 DEF DoomedInv
  <2>4. excess' \in Int /\ unreported' \in Nat /\ excess' + unreported' = 0
    <3>1. doomed[w] \cap Rows = doomed[w]
      BY DoomedRows
    <3>2. Cardinality(doomed[w]) \in Nat
      BY RowsFinite, FS_CardinalityType DEF TableInv
    <3>3. CASE CommitPurge(w)
      <4>1. /\ excess' = excess + Cardinality(doomed[w]) - Cardinality(doomed[w])
            /\ unreported' = unreported
        BY <3>1, <3>3 DEF CommitPurge, Report
      <4> QED
        BY <3>2, <4>1 DEF TableInv, DeletedOnceReported
    <3>4. CASE PurgeError(w)
      <4>1. /\ excess' = excess + 0 - Cardinality(doomed[w])
            /\ unreported' = unreported + Cardinality(doomed[w])
        BY <3>1, <3>4 DEF PurgeError, Report
      <4> QED
        BY <3>2, <4>1 DEF TableInv, DeletedOnceReported
    <3> QED
      BY <1>5, <3>3, <3>4
  <2>5. logs' \subseteq Requests /\ flags' \subseteq Requests /\ resolved' \subseteq flags'
    BY <2>1 DEF TableInv
  <2> QED
    BY <1>3, <2>3, <2>4, <2>5 DEF TableInv, DeletedOnceReported
<1> QED
  BY <1>4, <1>5

LEMMA TableStep == IInv /\ [Next]_vars => TableInv'
<1> SUFFICES ASSUME IInv, [Next]_vars PROVE TableInv'
  OBVIOUS
<1>1. TableInv
  BY DEF IInv
<1>2. ASSUME NEW x \in Requests, Refuse(x) \/ Raise(x) \/ \E reply \in Responses : Respond(x, reply)
      PROVE  TableInv'
  <2>1. UNCHANGED <<logs, flags, resolved, jobVars>>
    BY <1>2 DEF Refuse, Raise, Respond, Receive, flagVars
  <2> QED
    BY <1>1, <2>1, TablesGrow DEF TableInv
<1>3. ASSUME NEW x \in Requests, TaskStep(x) PROVE TableInv'
  <2>1. /\ UNCHANGED <<resolved, jobVars>>
        /\ logs' = logs \/ logs' = logs \cup {x}
        /\ flags' = flags \/ flags' = flags \cup {x}
    BY <1>3 DEF TaskStep, InsertLog, LogFault, FlagAnswer, FlagRepeated, CountFailure,
                WriteFlag, flagVars
  <2> QED
    BY <1>1, <2>1, TablesGrow DEF TableInv
<1>4. ASSUME NEW x \in Requests, Forget(x) PROVE TableInv'
  <2>1. UNCHANGED <<logs, flags, resolved, jobVars>>
    BY <1>4 DEF Forget, flagVars
  <2> QED
    BY <1>1, <2>1, TablesGrow DEF TableInv
<1>5. ASSUME NEW f \in Requests, ResolveFlag(f) PROVE TableInv'
  <2>1. UNCHANGED <<logs, flags, jobVars>> /\ resolved' = resolved \cup {f} /\ f \in flags
    BY <1>5 DEF ResolveFlag
  <2> QED
    BY <1>1, <2>1, TablesGrow DEF TableInv
<1>6. CASE Crash
  <2>1. UNCHANGED <<logs, flags, resolved, jobVars>>
    BY <1>6 DEF Crash, flagVars
  <2> QED
    BY <1>1, <2>1, TablesGrow DEF TableInv
<1>7. ASSUME UNCHANGED vars PROVE TableInv'
  <2>1. UNCHANGED <<logs, flags, resolved, jobVars>>
    BY <1>7 DEF vars, flagVars
  <2> QED
    BY <1>1, <2>1, TablesGrow DEF TableInv
<1>8. ASSUME NEW w \in Workers, Purge(w) PROVE TableInv'
  <2>1. CASE \E table, gone : PreviewPurge(w, table, gone)
    <3>1. UNCHANGED <<logs, flags, resolved, doomed, excess, unreported>>
      BY <2>1 DEF PreviewPurge, flagVars
    <3> QED
      BY <1>1, <3>1 DEF TableInv, DoomedInv, DeletedOnceReported
  <2>2. CASE \E gone \in SUBSET Purgeable(job[w]) : PurgeRows(w, gone)
    <3>1. job[w] \in Tables \cup {"idle"} /\ job[w] # "idle"
      BY <2>2 DEF IInv, ListedInv, PurgeRows, Delete
    <3> QED
      BY <1>1, <2>2, <3>1, PurgeStep
  <2> QED
    BY <1>1, <1>8, <2>1, <2>2, EndPurgeStep DEF Purge
<1> QED
  BY <1>2, <1>3, <1>4, <1>5, <1>6, <1>7, <1>8 DEF Next

\* A job's steps are no business of the requests, and add no flag.
LEMMA PurgeApart ==
    ASSUME NEW w \in Workers, Purge(w)
    PROVE  /\ UNCHANGED <<from, answer, task, recent, lost>>
           /\ logs' \subseteq logs /\ flags' \subseteq flags
<1>1. CASE \E table, gone : PreviewPurge(w, table, gone)
  BY <1>1 DEF PreviewPurge, pathVars, flagVars
<1>2. CASE \E gone : PurgeRows(w, gone)
  BY <1>2 DEF PurgeRows, Delete, pathVars, flagVars
<1>3. CASE CommitPurge(w) \/ PurgeError(w)
  BY <1>3 DEF CommitPurge, PurgeError, Report, EndPurge, pathVars
<1>4. CASE PurgeFault(w)
  BY <1>4 DEF PurgeFault, EndPurge, pathVars, flagVars
<1> QED
  BY <1>1, <1>2, <1>3, <1>4 DEF Purge

\* An answer stays what it is; a task goes on only after its answer.
LEMMA PathStep == IInv /\ [Next]_vars => PathInv'
<1> SUFFICES ASSUME IInv, [Next]_vars PROVE PathInv'
  OBVIOUS
<1>1. PathInv
  BY DEF IInv
<1>2. ASSUME NEW x \in Requests, NEW reply \in Responses \cup {"raised", "refused"},
             NEW pc \in {"log", "over"}, Receive(x, reply, pc)
      PROVE  PathInv'
  <2>1. /\ answer' = [answer EXCEPT ![x] = reply] /\ task' = [task EXCEPT ![x] = pc]
        /\ answer[x] = "none" /\ UNCHANGED <<from, recent, flags, lost>>
    BY <1>2 DEF Receive, Goto, flagVars
  <2>2. ASSUME NEW y \in Requests PROVE AnswerAt(y)'
    <3>1. AnswerAt(y)
      BY <1>1 DEF PathInv
    <3>2. CASE y = x
      BY <1>1, <2>1, <3>1, <3>2 DEF PathInv, AnswerAt, Responses
    <3>3. CASE y # x
      BY <1>1, <2>1, <3>1, <3>3 DEF PathInv, AnswerAt
    <3> QED
      BY <3>2, <3>3
  <2> QED
    BY <1>1, <2>1, <2>2 DEF PathInv, Responses
<1>3. ASSUME NEW x \in Requests, Refuse(x) \/ Raise(x) \/ \E reply \in Responses : Respond(x, reply)
      PROVE  PathInv'
  BY <1>2, <1>3 DEF Refuse, Raise, Respond
<1>4. ASSUME NEW x \in Requests, InsertLog(x) \/ LogFault(x) PROVE PathInv'
  BY <1>1, <1>4 DEF InsertLog, LogFault, Goto, PathInv, AnswerAt, flagVars
<1>5. ASSUME NEW x \in Requests, FlagAnswer(x) \/ FlagRepeated(x) PROVE PathInv'
  <2>1. /\ task[x] = "flag" /\ task' = [task EXCEPT ![x] = "over"]
        /\ UNCHANGED <<from, answer>>
        /\ flags' \subseteq flags \cup {x} /\ lost' \subseteq lost \cup {x}
        /\ recent' = recent \/ (recent' = recent \cup {x} /\ answer[x] = "401")
    BY <1>5 DEF FlagAnswer, FlagRepeated, CountFailure, WriteFlag, Goto
  <2>2. ASSUME NEW y \in Requests PROVE AnswerAt(y)'
    BY <1>1, <2>1 DEF PathInv, AnswerAt
  <2> QED
    BY <1>1, <2>1, <2>2 DEF PathInv
<1>6. ASSUME NEW x \in Requests, Forget(x) PROVE PathInv'
  BY <1>1, <1>6 DEF Forget, PathInv, AnswerAt, flagVars
<1>7. ASSUME NEW f \in Requests, ResolveFlag(f) PROVE PathInv'
  BY <1>1, <1>7 DEF ResolveFlag, PathInv, AnswerAt, pathVars
<1>8. CASE Crash
  BY <1>1, <1>8 DEF Crash, PathInv, AnswerAt, flagVars
<1>9. ASSUME UNCHANGED <<pathVars, lost>>, flags' \subseteq flags PROVE PathInv'
  <2>1. UNCHANGED <<from, answer, task, recent, lost>>
    BY <1>9 DEF pathVars
  <2>2. ASSUME NEW y \in Requests PROVE AnswerAt(y)'
    BY <1>1, <1>9, <2>1 DEF PathInv, AnswerAt
  <2> QED
    BY <1>1, <2>1, <2>2 DEF PathInv
<1>10. ASSUME NEW w \in Workers, Purge(w) PROVE PathInv'
  BY <1>9, <1>10, PurgeApart DEF pathVars
<1>11. ASSUME UNCHANGED vars PROVE PathInv'
  BY <1>9, <1>11 DEF vars, flagVars
<1> QED
  BY <1>3, <1>4, <1>5, <1>6, <1>7, <1>8, <1>10, <1>11 DEF Next, TaskStep

\* Settled requests stay so, while the jobs are left alone: their rows do not
\* come back.
LEMMA ListedKept ==
    ASSUME IInv, UNCHANGED <<job, listed, deleted, doomed>>, resolved \subseteq resolved',
           \A x \in Requests : Settled(x) =>
              Settled(x)' /\ (x \in logs' => x \in logs) /\ (x \in flags' => x \in flags)
    PROVE  ListedInv'
BY DEF IInv, ListedInv, ListedAt

\* What is listed is gone when its job is done, whichever job deleted it.
LEMMA ListedStep == IInv /\ [Next]_vars => ListedInv'
<1> SUFFICES ASSUME IInv, [Next]_vars PROVE ListedInv'
  OBVIOUS
<1> USE DEF jobVars, flagVars, Settled
<1>1. ASSUME NEW x \in Requests, Refuse(x) \/ Raise(x) \/ \E reply \in Responses : Respond(x, reply)
      PROVE  ListedInv'
  <2>1. /\ task[x] = "none" /\ \A y \in Requests \ {x} : task'[y] = task[y]
        /\ UNCHANGED <<recent, logs, flags, resolved, jobVars>>
    BY <1>1 DEF Refuse, Raise, Respond, Receive, Goto, IInv, PathInv, AnswerAt
  <2> QED
    BY <2>1, ListedKept
<1>2. ASSUME NEW x \in Requests, TaskStep(x) PROVE ListedInv'
  <2>1. /\ task[x] \in {"log", "flag"} /\ \A y \in Requests \ {x} : task'[y] = task[y]
        /\ recent' \subseteq recent \cup {x} /\ logs' \subseteq logs \cup {x}
        /\ flags' \subseteq flags \cup {x} /\ UNCHANGED <<resolved, jobVars>>
    BY <1>2 DEF TaskStep, InsertLog, LogFault, FlagAnswer, FlagRepeated, CountFailure,
                WriteFlag, Goto, IInv, PathInv
  <2> QED
    BY <2>1, ListedKept
<1>3. ASSUME NEW x \in Requests, Forget(x) \/ ResolveFlag(x) PROVE ListedInv'
  <2>1. /\ recent' \subseteq recent /\ resolved \subseteq resolved'
        /\ UNCHANGED <<task, logs, flags, jobVars>>
    BY <1>3 DEF Forget, ResolveFlag, pathVars
  <2> QED
    BY <2>1, ListedKept
<1>4. CASE Crash
  <2>1. \A x \in Requests : task[x] = "over" => task'[x] = "over"
    BY <1>4 DEF Crash, IInv, PathInv, AnswerAt
  <2>2. recent' = {} /\ UNCHANGED <<logs, flags, resolved, jobVars>>
    BY <1>4 DEF Crash
  <2> QED
    BY <2>1, <2>2, ListedKept
<1>5. CASE UNCHANGED vars
  BY <1>5, ListedKept DEF vars, pathVars
<1>6. ASSUME NEW w \in Workers, Purge(w) PROVE ListedInv'
  <2>1. UNCHANGED <<task, recent>> /\ logs' \subseteq logs /\ flags' \subseteq flags
    BY <1>6, PurgeApart
  <2>2. ASSUME NEW table \in Tables, NEW gone \in SUBSET Purgeable(table),
               PreviewPurge(w, table, gone)
        PROVE  ListedInv'
    <3>1. /\ job[w] = "idle" /\ job' = [job EXCEPT ![w] = table]
          /\ listed' = [listed EXCEPT ![w] = gone]
          /\ UNCHANGED <<logs, flags, resolved, deleted, doomed>>
      BY <2>2 DEF PreviewPurge
    <3>2. w \notin deleted
      BY <3>1 DEF IInv, ListedInv
    <3>3. gone \subseteq Requests \X Tables
      BY <2>2 DEF Purgeable, RowsOf, Old, IInv, TableInv
    <3>4. ASSUME NEW v \in Workers, NEW x \in Requests PROVE ListedAt(v, x)'
      <4>1. CASE v = w
        BY <2>1, <2>2, <3>1, <3>2, <4>1
           DEF ListedAt, Purgeable, RowsOf, Old, Tables, IInv, ListedInv
      <4>2. CASE v # w
        BY <2>1, <3>1, <4>2 DEF ListedAt, IInv, ListedInv
      <4> QED
        BY <4>1, <4>2
    <3> QED
      BY <3>1, <3>3, <3>4 DEF IInv, ListedInv
  <2>3. ASSUME NEW gone \in SUBSET Purgeable(job[w]), PurgeRows(w, gone)
        PROVE  ListedInv'
    <3>1. /\ deleted' = deleted \cup {w} /\ doomed' = [doomed EXCEPT ![w] = gone]
          /\ job[w] # "idle"
          /\ listed[w] \cap Purgeable(job[w]) \subseteq gone
          /\ UNCHANGED <<logs, flags, resolved, job, listed>>
      BY <2>3 DEF PurgeRows, Delete
    <3>2. ASSUME NEW v \in Workers, NEW x \in Requests PROVE ListedAt(v, x)'
      <4>1. CASE v = w
        <5>1. <<x, "request_logs">> \in listed[w] /\ x \in logs =>
                  <<x, "request_logs">> \in gone
          BY <3>1 DEF ListedAt, Purgeable, RowsOf, Old, IInv, ListedInv
        <5>2. <<x, "monitoring_flags">> \in listed[w] /\ x \in flags =>
                  <<x, "monitoring_flags">> \in gone
          BY <3>1 DEF ListedAt, Purgeable, RowsOf, Old, IInv, ListedInv
        <5> QED
          BY <2>1, <3>1, <4>1, <5>1, <5>2 DEF ListedAt, IInv, ListedInv, TableInv
      <4>2. CASE v # w
        BY <2>1, <3>1, <4>2 DEF ListedAt, IInv, ListedInv, TableInv
      <4> QED
        BY <4>1, <4>2
    <3> QED
      BY <3>1, <3>2 DEF IInv, ListedInv
  <2>4. ASSUME CommitPurge(w) \/ PurgeError(w) \/ PurgeFault(w)
        PROVE  ListedInv'
    <3>1. /\ job' = [job EXCEPT ![w] = "idle"] /\ listed' = [listed EXCEPT ![w] = {}]
          /\ doomed' = [doomed EXCEPT ![w] = {}] /\ deleted' = deleted \ {w}
      BY <2>4 DEF CommitPurge, PurgeError, Report, PurgeFault, EndPurge
    <3>2. \A x \in Requests : x \in flags' /\ x \in resolved => x \in resolved'
      BY <2>4 DEF CommitPurge, PurgeError, Report, PurgeFault
    <3>3. ASSUME NEW v \in Workers, NEW x \in Requests PROVE ListedAt(v, x)'
      <4>1. CASE v = w
        BY <3>1, <4>1 DEF ListedAt, IInv, ListedInv
      <4>2. CASE v # w
        BY <2>1, <3>1, <3>2, <4>2 DEF ListedAt, IInv, ListedInv, TableInv
      <4> QED
        BY <4>1, <4>2
    <3> QED
      BY <3>1, <3>3 DEF IInv, ListedInv
  <2> QED
    BY <1>6, <2>2, <2>3, <2>4 DEF Purge
<1> QED
  BY <1>1, <1>2, <1>3, <1>4, <1>5, <1>6 DEF Next

\* Answers are never taken back, and a new flag counts some that were given.
LEMMA RepeatedStep == IInv /\ [Next]_vars => RepeatedIsTrue'
<1> SUFFICES ASSUME IInv, [Next]_vars, NEW x \in flags', answer'[x] = "401"
             PROVE  Cardinality(Failures(x)') >= Threshold
  BY DEF RepeatedIsTrue, Failures
<1>1. PathInv /\ PathInv'
  BY PathStep DEF IInv
<1>2. x \in Requests
  BY TableStep DEF TableInv
<1>3. ASSUME NEW S \in SUBSET Failures(x)', Cardinality(S) >= Threshold
      PROVE  Cardinality(Failures(x)') >= Threshold
  <2>1. IsFiniteSet(Failures(x)')
    BY RequestsAssumption, FS_Subset DEF Failures
  <2>2. IsFiniteSet(S) /\ Cardinality(S) <= Cardinality(Failures(x)')
    BY <2>1, FS_Subset
  <2> QED
    BY <1>3, <2>1, <2>2, ThresholdAssumption, FS_CardinalityType
<1>4. from' = from /\ \A y \in Requests : answer[y] # "none" => answer'[y] = answer[y]
  <2>1. ASSUME NEW y \in Requests, Refuse(y) \/ Raise(y) \/ \E reply \in Responses : Respond(y, reply)
        PROVE  from' = from /\ \A z \in Requests : answer[z] # "none" => answer'[z] = answer[z]
    BY <1>1, <2>1 DEF Refuse, Raise, Respond, Receive, PathInv
  <2>2. ASSUME NEW y \in Requests, TaskStep(y) \/ Forget(y) \/ ResolveFlag(y)
        PROVE  UNCHANGED <<from, answer>>
    BY <2>2 DEF TaskStep, InsertLog, LogFault, FlagAnswer, FlagRepeated, CountFailure,
                WriteFlag, Forget, ResolveFlag, pathVars
  <2>3. ASSUME NEW w \in Workers, Purge(w) PROVE UNCHANGED <<from, answer>>
    BY <2>3, PurgeApart
  <2>4. Crash \/ UNCHANGED vars => UNCHANGED <<from, answer>>
    BY DEF Crash, vars, pathVars
  <2> QED
    BY <2>1, <2>2, <2>3, <2>4 DEF Next
<1>5. CASE x \in flags
  <2>1. answer[x] = "401"
    <3>1. AnswerAt(x)
      BY <1>1, <1>2 DEF PathInv
    <3> QED
      BY <1>2, <1>4, <1>5, <3>1 DEF AnswerAt
  <2>2. Cardinality(Failures(x)) >= Threshold
    BY <1>5, <2>1 DEF IInv, RepeatedIsTrue, Failures
  <2>3. Failures(x) \subseteq Failures(x)'
    BY <1>4 DEF Failures
  <2> QED
    BY <1>3, <2>2, <2>3
<1>6. CASE x \notin flags
  <2>1. FlagRepeated(x)
    <3>1. ASSUME NEW y \in Requests, FlagAnswer(y) PROVE FALSE
      <4>1. answer[y] # "401" /\ answer' = answer /\ flags' \subseteq flags \cup {y}
        BY <3>1 DEF FlagAnswer, WriteFlag
      <4> QED
        BY <1>6, <4>1
    <3>2. ASSUME NEW y \in Requests, FlagRepeated(y) PROVE y = x
      <4>1. flags' \subseteq flags \cup {y}
        BY <3>2 DEF FlagRepeated, CountFailure, WriteFlag
      <4> QED
        BY <1>6, <4>1
    <3>3. ASSUME NEW y \in Requests,
                 \/ Refuse(y) \/ Raise(y) \/ Forget(y) \/ ResolveFlag(y)
                 \/ InsertLog(y) \/ LogFault(y) \/ \E reply \in Responses : Respond(y, reply)
          PROVE  flags' = flags
      BY <3>3 DEF Refuse, Raise, Respond, Receive, Forget, ResolveFlag, InsertLog, LogFault,
                  flagVars
    <3>4. ASSUME NEW w \in Workers, Purge(w) PROVE flags' \subseteq flags
      BY <3>4, PurgeApart
    <3>5. Crash \/ UNCHANGED vars => flags' = flags
      BY DEF Crash, vars, flagVars
    <3> QED
      BY <1>6, <3>1, <3>2, <3>3, <3>4, <3>5 DEF Next, TaskStep
  <2> DEFINE S == {y \in recent : from[y] = from[x]} \cup {x}
  <2>2. answer' = answer /\ answer[x] = "401" /\ Cardinality(S) >= Threshold
    BY <1>6, <2>1 DEF FlagRepeated, CountFailure, WriteFlag
  <2>3. ASSUME NEW y \in recent PROVE y \in Requests /\ answer[y] = "401"
    BY <1>1 DEF PathInv, AnswerAt
  <2>4. S \subseteq Failures(x)'
    BY <1>2, <1>4, <2>2, <2>3 DEF Failures
  <2> QED
    BY <1>3, <2>2, <2>4
<1> QED
  BY <1>5, <1>6

LEMMA Invariance == Spec => []IInv
<1>1. IInv /\ [Next]_vars => IInv'
  BY PathStep, TableStep, ListedStep, RepeatedStep DEF IInv
<1> QED
  BY InitInvariant, <1>1, PTL DEF Spec

\* Every variable keeps its type; in particular what a job has deleted and not
\* yet committed is still in the tables.
THEOREM TypeCorrect == Spec => []TypeOK
<1>1. IInv => TypeOK
  <2> SUFFICES ASSUME IInv PROVE TypeOK
    OBVIOUS
  <2>1. doomed \in [Workers -> SUBSET Rows]
    BY DoomedRows DEF IInv, TableInv
  <2> QED
    BY <2>1 DEF IInv, PathInv, TableInv, ListedInv, TypeOK
<1> QED
  BY Invariance, <1>1, PTL

\* A flag for repeated 401s tells the truth, whatever the order and the faults
\* of the tasks that count them.
THEOREM RepeatedAlwaysTrue == Spec => []RepeatedIsTrue
<1>1. IInv => RepeatedIsTrue
  BY DEF IInv
<1> QED
  BY Invariance, <1>1, PTL

\* The purges of any number of workers count each deleted row once, or have
\* answered for it with an error (rowcount, and one commit for deletion and log).
THEOREM DeletedAlwaysOnceReported == Spec => []DeletedOnceReported
<1>1. IInv => DeletedOnceReported
  BY DEF IInv, TableInv
<1> QED
  BY Invariance, <1>1, PTL

\* What a purge's report lists is gone, whichever of the workers has deleted it.
THEOREM ListedAlwaysGone == Spec => ListedAreGone
<1>1. ASSUME IInv, NEW w \in Workers, CommitPurge(w) PROVE listed[w] \cap Rows' = {}
  <2> SUFFICES ASSUME NEW e \in listed[w], e \in Rows' PROVE FALSE
    OBVIOUS
  <2>1. PICK x \in Requests, table \in Tables : e = <<x, table>>
    BY <1>1 DEF IInv, ListedInv
  <2>2. /\ w \in deleted
        /\ logs' = logs \ {y \in Requests : <<y, "request_logs">> \in doomed[w]}
        /\ flags' = flags \ {y \in Requests : <<y, "monitoring_flags">> \in doomed[w]}
    BY <1>1 DEF CommitPurge, Report
  <2>3. ListedAt(w, x)
    BY <1>1 DEF IInv, ListedInv
  <2>4. CASE table = "request_logs"
    <3>1. x \in logs'
      BY <2>1, <2>4 DEF Rows, RowsOf
    <3> QED
      BY <2>1, <2>2, <2>3, <2>4, <3>1 DEF ListedAt
  <2>5. CASE table = "monitoring_flags"
    <3>1. x \in flags'
      BY <2>1, <2>5 DEF Rows, RowsOf
    <3> QED
      BY <2>1, <2>2, <2>3, <2>5, <3>1 DEF ListedAt
  <2> QED
    BY <2>4, <2>5 DEF Tables
<1>2. IInv /\ [Next]_vars =>
          [\A w \in Workers : CommitPurge(w) => listed[w] \cap Rows' = {}]_vars
  BY <1>1
<1> QED
  BY Invariance, <1>2, PTL DEF Spec, ListedAreGone

\* No purge deletes a flag that is not resolved when its deletion is committed.
THEOREM UnresolvedAlwaysKept == Spec => UnresolvedKept
<1>1. IInv /\ [Next]_vars => [flags \ resolved \subseteq flags']_vars
  <2> SUFFICES ASSUME IInv, Next PROVE flags \ resolved \subseteq flags'
    OBVIOUS
  <2>1. ASSUME NEW w \in Workers, CommitPurge(w) \/ PurgeError(w)
        PROVE  flags \ resolved \subseteq flags'
    BY <2>1 DEF CommitPurge, PurgeError, Report, IInv, TableInv, DoomedInv
  <2>2. ASSUME NEW w \in Workers,
               \/ PurgeFault(w)
               \/ \E gone : PurgeRows(w, gone) \/ \E table : PreviewPurge(w, table, gone)
        PROVE  flags' = flags
    BY <2>2 DEF PurgeFault, PurgeRows, PreviewPurge, Delete, flagVars
  <2>3. ASSUME NEW y \in Requests,
               \/ Refuse(y) \/ Raise(y) \/ Forget(y) \/ ResolveFlag(y)
               \/ TaskStep(y) \/ \E reply \in Responses : Respond(y, reply)
        PROVE  flags \subseteq flags'
    BY <2>3 DEF Refuse, Raise, Respond, Receive, Forget, ResolveFlag, TaskStep, InsertLog,
                LogFault, FlagAnswer, FlagRepeated, CountFailure, WriteFlag, flagVars
  <2>4. Crash => flags' = flags
    BY DEF Crash, flagVars
  <2> QED
    BY <2>1, <2>2, <2>3, <2>4 DEF Next, Purge
<1> QED
  BY Invariance, <1>1, PTL DEF Spec, UnresolvedKept

-----------------------------------------------------------------------------
(* The rate limiter *)

\* Stamps are in order, the oldest first; old ones are at most as many.
Sorted(s) == \A i, j \in 1..Len(s) : i <= j => s[j] <= s[i]
\* The windows s hold, from the youngest on, a stamp for each request in t that
\* is not older.
Covers(s, t) ==
    /\ Len(t) <= Len(s)
    /\ \A j \in 0..(Len(t) - 1) : s[Len(s) - j] <= t[Len(t) - j]

WindowAt(k) ==
    /\ Len(stamps[k]) <= Limit[k] /\ Sorted(stamps[k]) /\ Sorted(served[k])
    /\ Covers(stamps[k], served[k])
WindowInv ==
    /\ stamps \in [Keys -> Seq(0..Window)] /\ served \in [Keys -> Seq(Ages)]
    /\ \A k \in Keys : WindowAt(k)

\* A window that has refused has been pruned, is full, and its oldest stamp
\* leaves it when Retry-After is over, or less than a second before.
RefusedAt(k) ==
    /\ Len(stamps[k]) = Limit[k]
    /\ refusal.left <= Window - stamps[k][1] + Unit
    /\ stamps[k][1] < Window => Window - stamps[k][1] < refusal.left
RefusalInv ==
    /\ refusal \in [key : Keys \cup {"none"}, left : 0..(Window + Unit)]
    /\ refusal.key # "none" => RefusedAt(refusal.key)

\* A flush stores counts within the limits.
FlushInv ==
    /\ due \in BOOLEAN /\ crossed \in BOOLEAN /\ lastFlush \in 0..Interval
    /\ flush \in Seq([Keys -> [start : 0..Window, count : Nat]])
    /\ Len(flush) <= MaxFlushes
    /\ \A i \in 1..Len(flush), k \in Keys : flush[i][k].count <= Limit[k]
    /\ rows \in [Keys -> [Ages -> Nat]]
    /\ \A k \in Keys, a \in Ages : rows[k][a] <= Limit[k]

\* As many stamps of the same age.
Alike(n, a) == [j \in 1..n |-> a]
\* Each count, stored or to be stored, is of stamps that are still there and not
\* older than the start of their window; a later flush has not counted fewer, and
\* none under way fewer than are stored unless it was overtaken.
Open(i, k) == flush[i][k].start \in Ages
CountAt(k) ==
    /\ \A a \in Ages : Covers(stamps[k], Alike(rows[k][a], a))
    /\ \A i \in 1..Len(flush) : Open(i, k) =>
          /\ Covers(stamps[k], Alike(flush[i][k].count, flush[i][k].start))
          /\ ~crossed => rows[k][flush[i][k].start] <= flush[i][k].count
          /\ \A j \in i..Len(flush) : flush[j][k].start = flush[i][k].start =>
                flush[i][k].count <= flush[j][k].count
CountInv == \A k \in Keys : CountAt(k)

LimiterInv == WindowInv /\ RefusalInv /\ FlushInv /\ CountInv /\ LastPaysForServed

\* A set of numbers has a least one.
LEMMA LeastNumber ==
    ASSUME NEW T \in SUBSET Nat, T # {}
    PROVE  \E m \in T : \A n \in T : m <= n
<1> DEFINE R == OpToRel(<, Nat)
<1>1. IsWellFoundedOn(R, Nat)
  BY NatLessThanWellFounded
<1>2. PICK m \in T : \A n \in T : ~ (<<n, m>> \in R)
  <2> HIDE DEF R
  <2> QED
    BY <1>1, WFMin
<1>3. \A n \in T : ~ (n < m)
  BY <1>2, Zenon DEF OpToRel
<1> QED
  BY <1>3

\* FiniteSetsExt's Max and Min are what they are called.
LEMMA GreatestIndex ==
    ASSUME NEW n \in Nat, NEW S \in SUBSET (0..n), 0 \in S
    PROVE  Max(S) \in S /\ \A u \in S : u <= Max(S)
<1> DEFINE T == {n - u : u \in S}
<1>1. T \in SUBSET Nat /\ T # {}
  OBVIOUS
<1>2. PICK m \in T : \A v \in T : m <= v
  BY <1>1, LeastNumber
<1>3. PICK x \in S : m = n - x
  BY <1>2
<1>4. ASSUME NEW u \in S PROVE x >= u
  <2>1. n - u \in T /\ u \in Nat /\ x \in Nat
    BY <1>4
  <2>2. n - x <= n - u
    BY <1>2, <1>3, <2>1
  <2> QED
    BY <2>1, <2>2
<1>5. \E y \in S : \A u \in S : y >= u
  BY <1>4
<1> QED
  BY <1>5 DEF Max

\* The same for the least.
LEMMA LeastIndex ==
    ASSUME NEW S \in SUBSET Nat, S # {}
    PROVE  Min(S) \in S /\ \A u \in S : Min(S) <= u
<1>1. \E y \in S : \A u \in S : y <= u
  BY LeastNumber
<1> QED
  BY <1>1 DEF Min

\* What the pruning leaves: the stamps after the last one that is too old.
LEMMA Pruned ==
    ASSUME NEW s \in Seq(0..Window), Sorted(s), Window \in Nat
    PROVE  \E e \in 0..Len(s) :
              /\ Young(s) \in Seq(Ages)
              /\ Len(Young(s)) = Len(s) - e
              /\ \A i \in 1..(Len(s) - e) : Young(s)[i] = s[e + i]
              /\ \A i \in 1..e : s[i] = Window
              /\ \A i \in (e + 1)..Len(s) : s[i] < Window
<1> DEFINE old == {i \in DOMAIN s : s[i] >= Window}
           e == Max({0} \cup old)
<1>0. Len(s) \in Nat /\ DOMAIN s = 1..Len(s)
  OBVIOUS
<1>1. e \in {0} \cup old /\ \A u \in {0} \cup old : u <= e
  <2>1. {0} \cup old \in SUBSET (0..Len(s)) /\ 0 \in {0} \cup old
    BY <1>0
  <2> HIDE DEF old
  <2> QED
    BY <1>0, <2>1, GreatestIndex
<1>2. e \in 0..Len(s)
  BY <1>0, <1>1
<1>3. \A i \in 1..e : s[i] = Window
  BY <1>0, <1>1, <1>2 DEF Sorted
<1>4. \A i \in (e + 1)..Len(s) : s[i] < Window
  BY <1>0, <1>1, <1>2
<1>5. Young(s) = SubSeq(s, e + 1, Len(s))
  BY DEF Young
<1> HIDE DEF e
<1>6. /\ Len(Young(s)) = Len(s) - e
      /\ \A i \in 1..(Len(s) - e) : Young(s)[i] = s[e + i]
  <2> DEFINE n == Len(s)
  <2>1. SubSeq(s, e + 1, n) = [i \in 1..(n - e) |-> s[e + i]]
    BY <1>0, <1>2
  <2>2. Young(s) = [i \in 1..(n - e) |-> s[e + i]] /\ n - e \in Nat
    BY <1>0, <1>2, <1>5, <2>1
  <2> QED
    BY <2>2
<1>7. Young(s) \in Seq(0..Window)
  BY <1>0, <1>2, <1>5
<1>8. \A i \in 1..Len(Young(s)) : Young(s)[i] \in Ages
  BY <1>0, <1>2, <1>4, <1>6, <1>7 DEF Ages
<1>9. Young(s) \in Seq(Ages)
  BY <1>7, <1>8
<1> QED
  BY <1>2, <1>3, <1>4, <1>6, <1>9

\* Pruning keeps the order and covers what is young.
LEMMA PrunedCovers ==
    ASSUME NEW s \in Seq(0..Window), Sorted(s), Window \in Nat
    PROVE  /\ Young(s) \in Seq(Ages) /\ Sorted(Young(s))
           /\ Len(Young(s)) <= Len(s)
           /\ \A t \in Seq(Ages) : Covers(s, t) => Covers(Young(s), t)
           /\ \A u \in Seq(0..Window) : Covers(u, s) => Covers(u, Young(s))
<1> DEFINE y == Young(s)
<1>1. PICK e \in 0..Len(s) :
              /\ y \in Seq(Ages) /\ Len(y) = Len(s) - e
              /\ \A i \in 1..(Len(s) - e) : y[i] = s[e + i]
              /\ \A i \in 1..e : s[i] = Window
              /\ \A i \in (e + 1)..Len(s) : s[i] < Window
  BY Pruned
<1> HIDE DEF y
<1>2. Len(s) \in Nat /\ Len(y) \in Nat /\ e \in Nat
  OBVIOUS
<1>3. Sorted(y)
  <2> SUFFICES ASSUME NEW i \in 1..Len(y), NEW j \in 1..Len(y), i <= j PROVE y[j] <= y[i]
    BY DEF Sorted
  <2>1. /\ e + i \in 1..Len(s) /\ e + j \in 1..Len(s) /\ e + i <= e + j
        /\ i \in 1..(Len(s) - e) /\ j \in 1..(Len(s) - e)
    BY <1>1, <1>2
  <2>2. s[e + j] <= s[e + i]
    BY <2>1 DEF Sorted
  <2> QED
    BY <1>1, <2>1, <2>2
<1>4. ASSUME NEW t \in Seq(Ages), Covers(s, t) PROVE Covers(y, t)
  <2>1. Len(t) \in Nat /\ \A i \in 1..Len(t) : t[i] \in 0..(Window - 1)
    BY DEF Ages
  <2>2. ASSUME NEW j \in 0..(Len(t) - 1) PROVE Len(s) - j > e
    <3> DEFINE m == Len(s) - j
               n == Len(t) - j
    <3>1. m \in 1..Len(s) /\ n \in 1..Len(t)
      BY <1>2, <1>4, <2>1 DEF Covers
    <3>2. s[m] <= t[n]
      BY <1>4 DEF Covers
    <3> HIDE DEF m, n
    <3>3. s[m] \in 0..Window /\ t[n] \in 0..(Window - 1)
      BY <2>1, <3>1
    <3>4. s[m] # Window
      BY <3>2, <3>3
    <3>5. m > e
      BY <1>1, <1>2, <3>1, <3>4
    <3> QED
      BY <3>5 DEF m
  <2>3. Len(t) <= Len(y)
    <3>1. CASE Len(t) = 0
      BY <1>2, <3>1
    <3>2. CASE Len(t) # 0
      <4>1. Len(t) - 1 \in 0..(Len(t) - 1)
        BY <2>1, <3>2
      <4>2. Len(s) - (Len(t) - 1) > e
        BY <2>2, <4>1
      <4> QED
        BY <1>1, <1>2, <2>1, <4>2
    <3> QED
      BY <3>1, <3>2
  <2>4. ASSUME NEW j \in 0..(Len(t) - 1) PROVE y[Len(y) - j] = s[Len(s) - j]
    <3>1. /\ Len(y) - j \in 1..(Len(s) - e)
          /\ e + (Len(y) - j) = Len(s) - j
      BY <1>1, <1>2, <2>1, <2>3
    <3> QED
      BY <1>1, <3>1
  <2> QED
    BY <1>4, <2>3, <2>4 DEF Covers
<1>5. ASSUME NEW u \in Seq(0..Window), Covers(u, s) PROVE Covers(u, y)
  <2>1. ASSUME NEW j \in 0..(Len(y) - 1) PROVE y[Len(y) - j] = s[Len(s) - j]
    <3>1. /\ Len(y) - j \in 1..(Len(s) - e)
          /\ e + (Len(y) - j) = Len(s) - j
      BY <1>1, <1>2
    <3> QED
      BY <1>1, <3>1
  <2> QED
    BY <1>1, <1>2, <1>5, <2>1 DEF Covers
<1> QED
  BY <1>1, <1>2, <1>3, <1>4, <1>5 DEF y

\* Young stamps are not pruned.
LEMMA YoungKept ==
    ASSUME NEW s \in Seq(Ages), Sorted(s), Window \in Nat
    PROVE  Young(s) = s
<1>1. s \in Seq(0..Window) /\ \A i \in 1..Len(s) : s[i] # Window
  BY DEF Ages
<1>2. PICK e \in 0..Len(s) :
              /\ Young(s) \in Seq(Ages)
              /\ Len(Young(s)) = Len(s) - e
              /\ \A i \in 1..(Len(s) - e) : Young(s)[i] = s[e + i]
              /\ \A i \in 1..e : s[i] = Window
  BY <1>1, Pruned
<1>3. e = 0
  BY <1>1, <1>2
<1> HIDE DEF Young
<1>4. Len(Young(s)) = Len(s) /\ \A i \in 1..Len(s) : Young(s)[i] = s[i]
  BY <1>2, <1>3
<1> QED
  BY <1>2, <1>4

\* A stamp that is new is the youngest.
LEMMA Stamped ==
    ASSUME Window \in Nat \ {0}, NEW s \in Seq(0..Window), Sorted(s)
    PROVE  /\ Append(s, 0) \in Seq(0..Window) /\ Sorted(Append(s, 0))
           /\ Len(Append(s, 0)) = Len(s) + 1
           /\ s \in Seq(Ages) => Append(s, 0) \in Seq(Ages)
           /\ \A t \in Seq(Ages) : Covers(s, t) =>
                  Covers(Append(s, 0), t) /\ Covers(Append(s, 0), Append(t, 0))
<1> DEFINE a == Append(s, 0)
<1>1. /\ Len(s) \in Nat /\ Len(a) = Len(s) + 1 /\ a[Len(s) + 1] = 0
      /\ \A i \in 1..Len(s) : a[i] = s[i] /\ s[i] \in 0..Window
  OBVIOUS
<1>2. a \in Seq(0..Window) /\ (s \in Seq(Ages) => a \in Seq(Ages))
  BY DEF Ages
<1> HIDE DEF a
<1>3. Sorted(a)
  <2> SUFFICES ASSUME NEW i \in 1..Len(a), NEW j \in 1..Len(a), i <= j PROVE a[j] <= a[i]
    BY DEF Sorted
  <2>1. \A h \in 1..Len(a) : a[h] \in 0..Window
    BY <1>1
  <2>2. CASE j = Len(s) + 1
    <3>1. a[j] = 0 /\ a[i] \in 0..Window
      BY <1>1, <2>1, <2>2
    <3> QED
      BY <3>1
  <2>3. CASE j # Len(s) + 1
    <3>1. i \in 1..Len(s) /\ j \in 1..Len(s)
      BY <1>1, <2>3
    <3>2. s[j] <= s[i]
      BY <3>1 DEF Sorted
    <3> QED
      BY <1>1, <3>1, <3>2
  <2> QED
    BY <2>2, <2>3
<1>4. ASSUME NEW t \in Seq(Ages), Covers(s, t)
      PROVE  Covers(a, t) /\ Covers(a, Append(t, 0))
  <2>1. /\ Len(t) \in Nat /\ Len(Append(t, 0)) = Len(t) + 1
        /\ Append(t, 0)[Len(t) + 1] = 0
        /\ \A i \in 1..Len(t) : Append(t, 0)[i] = t[i] /\ t[i] \in 0..Window
    BY DEF Ages
  <2>2. Len(t) <= Len(s)
    BY <1>4 DEF Covers
  <2>3. ASSUME NEW j \in 0..(Len(t) - 1) PROVE a[Len(a) - j] <= t[Len(t) - j]
    <3>1. a[Len(a) - j] <= s[Len(s) - j]
      <4>1. CASE j = 0
        BY <1>1, <2>1, <2>2, <4>1
      <4>2. CASE j # 0
        <5>1. /\ Len(a) - j \in 1..Len(s) /\ Len(s) - j \in 1..Len(s)
              /\ Len(s) - j <= Len(a) - j
          BY <1>1, <2>1, <2>2, <4>2
        <5> QED
          BY <1>1, <5>1 DEF Sorted
      <4> QED
        BY <4>1, <4>2
    <3>2. s[Len(s) - j] <= t[Len(t) - j]
      BY <1>4 DEF Covers
    <3>3. Len(s) - j \in 1..Len(s) /\ Len(t) - j \in 1..Len(t) /\ Len(a) - j \in 1..Len(a)
      BY <1>1, <2>1, <2>2
    <3>4. s[Len(s) - j] \in 0..Window
      BY <1>1, <3>3
    <3>5. t[Len(t) - j] \in 0..Window
      BY <2>1, <3>3
    <3>6. a[Len(a) - j] \in 0..Window
      <4> DEFINE m == Len(a) - j
      <4>1. m = Len(s) + 1 \/ m \in 1..Len(s)
        BY <1>1, <3>3
      <4> HIDE DEF m
      <4>2. a[m] = 0 \/ a[m] \in 0..Window
        BY <1>1, <4>1
      <4>3. a[m] \in 0..Window
        BY <4>2
      <4> QED
        BY <4>3 DEF m
    <3> QED
      BY <3>1, <3>2, <3>4, <3>5, <3>6
  <2>4. ASSUME NEW j \in 0..Len(t)
        PROVE  a[Len(a) - j] <= Append(t, 0)[Len(t) + 1 - j]
    <3>1. CASE j = 0
      BY <1>1, <2>1, <3>1
    <3>2. CASE j # 0
      <4>1. j - 1 \in 0..(Len(t) - 1)
        BY <2>1, <3>2
      <4>2. s[Len(s) - (j - 1)] <= t[Len(t) - (j - 1)]
        BY <1>4, <4>1 DEF Covers
      <4>3. Len(a) - j = Len(s) - (j - 1) /\ Len(t) + 1 - j = Len(t) - (j - 1)
        BY <1>1, <2>1
      <4>4. Len(s) - (j - 1) \in 1..Len(s) /\ Len(t) - (j - 1) \in 1..Len(t)
        BY <1>1, <2>1, <2>2, <4>1
      <4> QED
        BY <1>1, <2>1, <4>2, <4>3, <4>4
    <3> QED
      BY <3>1, <3>2
  <2> QED
    BY <1>1, <2>1, <2>2, <2>3, <2>4 DEF Covers
<1> QED
  BY <1>1, <1>2, <1>3, <1>4 DEF a
\* Time passes for all stamps alike.
LEMMA Aged ==
    ASSUME Window \in Nat \ {0}, NEW s \in Seq(0..Window), Sorted(s)
    PROVE  LET o == Older(s, Window) IN
           /\ o \in Seq(0..Window) /\ Sorted(o) /\ Len(o) = Len(s)
           /\ \A i \in 1..Len(s) : o[i] = IF s[i] < Window THEN s[i] + 1 ELSE Window
           /\ \A t \in Seq(0..Window) :
                  Covers(s, t) => Covers(o, Older(t, Window))
<1> DEFINE older(t) == Older(t, Window)
<1>1. ASSUME NEW t \in Seq(0..Window)
      PROVE  /\ older(t) \in Seq(0..Window) /\ Len(older(t)) = Len(t) /\ Len(t) \in Nat
             /\ \A i \in 1..Len(t) : /\ t[i] \in 0..Window
                    /\ older(t)[i] = IF t[i] < Window THEN t[i] + 1 ELSE Window
  <2> DEFINE n == Len(t)
  <2>1. n \in Nat /\ DOMAIN t = 1..n /\ \A i \in 1..n : t[i] \in 0..Window
    OBVIOUS
  <2> HIDE DEF n
  <2>2. older(t) = [i \in 1..n |-> IF t[i] + 1 < Window THEN t[i] + 1 ELSE Window]
    BY <2>1 DEF Older
  <2>3. \A i \in 1..n : (IF t[i] + 1 < Window THEN t[i] + 1 ELSE Window) \in 0..Window
    BY <2>1
  <2>4. older(t) \in [1..n -> 0..Window]
    BY <2>2, <2>3
  <2>5. older(t) \in Seq(0..Window) /\ Len(older(t)) = n
    BY <2>1, <2>4
  <2>6. \A i \in 1..n : older(t)[i] = IF t[i] < Window THEN t[i] + 1 ELSE Window
    <3> SUFFICES ASSUME NEW i \in 1..n
                 PROVE  older(t)[i] = IF t[i] < Window THEN t[i] + 1 ELSE Window
      OBVIOUS
    <3>1. older(t)[i] = IF t[i] + 1 < Window THEN t[i] + 1 ELSE Window
      BY <2>2
    <3>2. t[i] \in 0..Window
      BY <2>1
    <3> QED
      BY <3>1, <3>2
  <2> QED
    BY <2>1, <2>5, <2>6 DEF n
<1> HIDE DEF older
<1>2. Sorted(older(s))
  <2> SUFFICES ASSUME NEW i \in 1..Len(s), NEW j \in 1..Len(s), i <= j
               PROVE  older(s)[j] <= older(s)[i]
    BY <1>1 DEF Sorted
  <2>1. s[j] <= s[i] /\ s[i] \in 0..Window /\ s[j] \in 0..Window
    BY <1>1 DEF Sorted
  <2> QED
    BY <1>1, <2>1
<1>3. ASSUME NEW t \in Seq(0..Window), Covers(s, t) PROVE Covers(older(s), older(t))
  <2>1. Len(t) <= Len(s) /\ Len(s) \in Nat /\ Len(t) \in Nat
    BY <1>1, <1>3 DEF Covers
  <2>2. ASSUME NEW j \in 0..(Len(t) - 1)
        PROVE  older(s)[Len(s) - j] <= older(t)[Len(t) - j]
    <3>1. Len(s) - j \in 1..Len(s) /\ Len(t) - j \in 1..Len(t)
      BY <2>1
    <3>2. s[Len(s) - j] <= t[Len(t) - j]
      BY <1>3 DEF Covers
    <3>3. s[Len(s) - j] \in 0..Window /\ t[Len(t) - j] \in 0..Window
      BY <1>1, <3>1
    <3>4. older(s)[Len(s) - j] = IF s[Len(s) - j] < Window THEN s[Len(s) - j] + 1 ELSE Window
      BY <1>1, <3>1
    <3>5. older(t)[Len(t) - j] = IF t[Len(t) - j] < Window THEN t[Len(t) - j] + 1 ELSE Window
      BY <1>1, <3>1
    <3> DEFINE x == s[Len(s) - j]
               z == t[Len(t) - j]
    <3>6. /\ x <= z /\ x \in 0..Window /\ z \in 0..Window
          /\ older(s)[Len(s) - j] = IF x < Window THEN x + 1 ELSE Window
          /\ older(t)[Len(t) - j] = IF z < Window THEN z + 1 ELSE Window
      BY <3>2, <3>3, <3>4, <3>5
    <3> HIDE DEF x, z
    <3> QED
      BY <3>6
  <2> QED
    BY <1>1, <2>1, <2>2 DEF Covers
<1> QED
  BY <1>1, <1>2, <1>3 DEF older

\* Pruning before time passes makes no difference to what is left after it.
LEMMA PrunedAged ==
    ASSUME Window \in Nat \ {0}, NEW s \in Seq(0..Window), Sorted(s)
    PROVE  Young(Older(s, Window))
               = Young(Older(Young(s), Window))
<1> DEFINE y == Young(s)
           o == Older(s, Window)
           p == Older(y, Window)
<1>1. PICK e \in 0..Len(s) :
              /\ y \in Seq(Ages) /\ Len(y) = Len(s) - e
              /\ \A i \in 1..(Len(s) - e) : y[i] = s[e + i]
              /\ \A i \in 1..e : s[i] = Window
  BY Pruned
<1>2. y \in Seq(0..Window) /\ Sorted(y)
  BY <1>1, PrunedCovers DEF Ages
<1>3. /\ o \in Seq(0..Window) /\ Sorted(o) /\ Len(o) = Len(s)
      /\ \A i \in 1..Len(s) : o[i] = IF s[i] < Window THEN s[i] + 1 ELSE Window
  BY Aged
<1>4. /\ p \in Seq(0..Window) /\ Sorted(p) /\ Len(p) = Len(y)
      /\ \A i \in 1..Len(y) : p[i] = IF y[i] < Window THEN y[i] + 1 ELSE Window
  BY <1>2, Aged
<1> HIDE DEF y, o, p
<1>5. PICK f \in 0..Len(o) :
              /\ Young(o) \in Seq(Ages) /\ Len(Young(o)) = Len(o) - f
              /\ \A i \in 1..(Len(o) - f) : Young(o)[i] = o[f + i]
              /\ \A i \in 1..f : o[i] = Window
              /\ \A i \in (f + 1)..Len(o) : o[i] < Window
  BY <1>3, Pruned
<1>6. PICK g \in 0..Len(p) :
              /\ Young(p) \in Seq(Ages) /\ Len(Young(p)) = Len(p) - g
              /\ \A i \in 1..(Len(p) - g) : Young(p)[i] = p[g + i]
              /\ \A i \in 1..g : p[i] = Window
              /\ \A i \in (g + 1)..Len(p) : p[i] < Window
  BY <1>4, Pruned
<1>7. Len(s) \in Nat /\ Len(y) \in Nat /\ e \in Nat /\ f \in Nat /\ g \in Nat
  BY <1>1, <1>3, <1>4
<1>8. ASSUME NEW i \in 1..Len(p) PROVE e + i \in 1..Len(o) /\ p[i] = o[e + i]
  <2>1. i \in 1..Len(y) /\ i \in 1..(Len(s) - e) /\ e + i \in 1..Len(s)
    BY <1>1, <1>4, <1>7
  <2>2. y[i] = s[e + i]
    BY <1>1, <2>1
  <2>3. p[i] = IF s[e + i] < Window THEN s[e + i] + 1 ELSE Window
    BY <1>4, <2>1, <2>2
  <2> QED
    BY <1>3, <2>1, <2>3
<1>9. ASSUME NEW i \in 1..e PROVE i \in 1..Len(o) /\ o[i] = Window
  <2>1. i \in 1..Len(s) /\ s[i] = Window
    BY <1>1, <1>7
  <2> QED
    BY <1>3, <2>1
<1>10. f >= e
  <2> SUFFICES ASSUME f < e PROVE FALSE
    BY <1>7
  <2>1. f + 1 \in 1..e /\ f + 1 \in (f + 1)..Len(o)
    BY <1>3, <1>7
  <2>2. o[f + 1] = Window /\ o[f + 1] < Window
    BY <1>5, <1>9, <2>1
  <2> QED
    BY <2>2
<1>11. f = e + g
  <2>1. ASSUME f < e + g PROVE FALSE
    <3>1. f + 1 - e \in 1..g /\ f + 1 - e \in 1..Len(p) /\ f + 1 \in (f + 1)..Len(o)
      BY <1>1, <1>3, <1>4, <1>7, <1>10, <2>1
    <3>2. p[f + 1 - e] = Window /\ p[f + 1 - e] = o[e + (f + 1 - e)]
      BY <1>6, <1>8, <3>1
    <3>3. e + (f + 1 - e) = f + 1
      BY <1>7
    <3>4. o[f + 1] < Window
      BY <1>5, <3>1
    <3> QED
      BY <3>2, <3>3, <3>4
  <2>2. ASSUME f > e + g PROVE FALSE
    <3>1. /\ g + 1 \in (g + 1)..Len(p) /\ g + 1 \in 1..Len(p)
          /\ e + (g + 1) \in 1..f
      BY <1>1, <1>3, <1>4, <1>7, <2>2
    <3>2. p[g + 1] < Window /\ p[g + 1] = o[e + (g + 1)]
      BY <1>6, <1>8, <3>1
    <3>3. o[e + (g + 1)] = Window
      BY <1>5, <3>1
    <3> QED
      BY <3>2, <3>3
  <2> QED
    BY <1>7, <2>1, <2>2
<1>12. Len(Young(o)) = Len(Young(p))
  BY <1>1, <1>3, <1>4, <1>5, <1>6, <1>7, <1>11
<1>13. ASSUME NEW i \in 1..Len(Young(o))
       PROVE  Young(o)[i] = Young(p)[i]
  <2>1. /\ i \in 1..(Len(o) - f) /\ i \in 1..(Len(p) - g)
        /\ g + i \in 1..Len(p) /\ e + (g + i) = f + i
    BY <1>5, <1>6, <1>7, <1>11, <1>12, <1>3, <1>4
  <2> QED
    BY <1>5, <1>6, <1>8, <2>1
<1> HIDE DEF Young
<1>14. Young(o) = Young(p)
  <2> DEFINE u == Young(o)
             v == Young(p)
  <2>1. u \in Seq(Ages) /\ v \in Seq(Ages)
    BY <1>5, <1>6
  <2>2. Len(u) = Len(v) /\ \A i \in 1..Len(u) : u[i] = v[i]
    BY <1>12, <1>13
  <2> HIDE DEF u, v
  <2>3. u = v
    <3>1. u = [i \in 1..Len(u) |-> u[i]] /\ v = [i \in 1..Len(v) |-> v[i]]
      BY <2>1
    <3>2. [i \in 1..Len(u) |-> u[i]] = [i \in 1..Len(v) |-> v[i]]
      BY <2>2
    <3> QED
      BY <3>1, <3>2
  <2> QED
    BY <2>3 DEF u, v
<1> QED
  BY <1>14 DEF o, p, y
\* The windows of the chain that are looked at, and whether all have room.
Seen(c) == {Chain[c][i] : i \in {i \in DOMAIN Chain[c] :
               \A j \in 1..(i - 1) : ~ Full(Chain[c][j])}}
Room(c) == \A i \in DOMAIN Chain[c] : ~ Full(Chain[c][i])

\* What a request does to the windows.
LEMMA RequestEffect ==
    ASSUME NEW c \in Callers, Request(c), NEW k \in Keys
    PROVE  /\ stamps' \in [Keys -> {stamps'[x] : x \in Keys}]
           /\ served' \in [Keys -> {served'[x] : x \in Keys}]
           /\ k \notin Seen(c) => stamps'[k] = stamps[k]
           /\ k \in Seen(c) /\ Full(k) => stamps'[k] = Young(stamps[k])
           /\ k \in Seen(c) /\ ~ Full(k) =>
                  stamps'[k] = Append(Young(stamps[k]), 0)
           /\ Room(c) /\ k \in Range(Chain[c]) =>
                  served'[k] = Append(served[k], 0) /\ k \in Seen(c) /\ ~ Full(k)
           /\ ~ (Room(c) /\ k \in Range(Chain[c])) => served'[k] = served[k]
<1>1. /\ DOMAIN Chain[c] = 1..Len(Chain[c]) /\ Len(Chain[c]) \in Nat
      /\ \A i \in DOMAIN Chain[c] : Chain[c][i] \in Keys
  BY LimiterAssumption
<1>2. stamps' = [x \in Keys |->
                   IF x \notin Seen(c) THEN stamps[x]
                   ELSE IF Full(x) THEN Young(stamps[x])
                   ELSE Append(Young(stamps[x]), 0)]
  BY DEF Request, Stamp, Seen
<1>3. Room(c) <=> {i \in DOMAIN Chain[c] : Full(Chain[c][i])} = {}
  BY DEF Room
<1>4. served' = [x \in Keys |-> IF Room(c) /\ x \in Range(Chain[c])
                                THEN Append(served[x], 0) ELSE served[x]]
  BY <1>3 DEF Request, Decide
<1>5. Room(c) /\ k \in Range(Chain[c]) => k \in Seen(c) /\ ~ Full(k)
  BY <1>1 DEF Room, Seen, Range
<1> QED
  BY <1>2, <1>4, <1>5

\* The windows stay in order, within their limits, and cover what was let through:
\* a request is let through only where its stamp is left behind.
LEMMA WindowStep ==
    ASSUME WindowInv, [LimiterNext]_limiterVars
    PROVE  WindowInv'
<1> USE DEF WindowInv
<1>0. /\ Window \in Nat \ {0} /\ Limit \in [Keys -> Nat \ {0}]
      /\ \A s \in Seq(Ages) : s \in Seq(0..Window)
  BY LimiterAssumption DEF Ages
<1>1. CASE \E c \in Callers : Request(c)
  <2>1. PICK c \in Callers : Request(c)
    BY <1>1
  <2>2. ASSUME NEW k \in Keys
        PROVE  /\ stamps'[k] \in Seq(0..Window) /\ served'[k] \in Seq(Ages)
               /\ WindowAt(k)'
    <3> DEFINE s == stamps[k]
               y == Young(s)
               t == served[k]
    <3>1. /\ s \in Seq(0..Window) /\ t \in Seq(Ages) /\ Sorted(s) /\ Sorted(t)
          /\ Covers(s, t) /\ Len(s) <= Limit[k]
      BY DEF WindowAt
    <3>2. /\ y \in Seq(Ages) /\ Sorted(y) /\ Covers(y, t) /\ Len(y) <= Len(s)
      BY <1>0, <3>1, PrunedCovers
    <3>3. /\ Append(y, 0) \in Seq(Ages) /\ Sorted(Append(y, 0))
          /\ Len(Append(y, 0)) = Len(y) + 1
          /\ Covers(Append(y, 0), t) /\ Covers(Append(y, 0), Append(t, 0))
      BY <1>0, <3>1, <3>2, Stamped
    <3>4. Append(t, 0) \in Seq(Ages) /\ Sorted(Append(t, 0))
      BY <1>0, <3>1, Stamped
    <3>5. ~ Full(k) => Len(y) < Limit[k]
      <4>1. Len(y) \in Nat /\ Limit[k] \in Nat
        BY <1>0, <3>2
      <4> QED
        BY <4>1 DEF Full
    <3>6. Limit[k] \in Nat /\ Len(y) \in Nat /\ Len(s) \in Nat
      BY <1>0, <3>1, <3>2
    <3>7. \/ stamps'[k] = s /\ served'[k] = t
          \/ stamps'[k] = y /\ served'[k] = t
          \/ stamps'[k] = Append(y, 0) /\ Len(y) < Limit[k] /\ served'[k] \in {t, Append(t, 0)}
      BY <2>1, <3>5, RequestEffect
    <3> HIDE DEF s, y, t
    <3>8. CASE stamps'[k] = s /\ served'[k] = t
      BY <3>1, <3>8 DEF WindowAt
    <3>9. CASE stamps'[k] = y /\ served'[k] = t
      <4>1. y \in Seq(0..Window) /\ Len(y) <= Limit[k]
        BY <1>0, <3>1, <3>2, <3>6
      <4> QED
        BY <3>1, <3>2, <3>9, <4>1 DEF WindowAt
    <3>10. CASE /\ stamps'[k] = Append(y, 0) /\ Len(y) < Limit[k]
                /\ served'[k] \in {t, Append(t, 0)}
      <4>1. Append(y, 0) \in Seq(0..Window) /\ Len(Append(y, 0)) <= Limit[k]
        BY <1>0, <3>3, <3>6, <3>10
      <4>2. CASE served'[k] = t
        BY <3>1, <3>3, <3>10, <4>1, <4>2 DEF WindowAt
      <4>3. CASE served'[k] = Append(t, 0)
        BY <3>3, <3>4, <3>10, <4>1, <4>3 DEF WindowAt
      <4> QED
        BY <3>10, <4>2, <4>3
    <3> QED
      BY <3>7, <3>8, <3>9, <3>10
  <2>3. /\ stamps' \in [Keys -> {stamps'[x] : x \in Keys}]
        /\ served' \in [Keys -> {served'[x] : x \in Keys}]
    BY <2>1, RequestEffect DEF Request, Stamp, Decide
  <2> QED
    BY <2>2, <2>3
<1>2. CASE Tick
  <2>1. ASSUME NEW k \in Keys
        PROVE  /\ stamps'[k] \in Seq(0..Window) /\ served'[k] \in Seq(Ages)
               /\ WindowAt(k)'
    <3> DEFINE s == stamps[k]
               t == served[k]
               o == Older(s, Window)
               p == Older(t, Window)
               q == Young(p)
    <3>1. /\ s \in Seq(0..Window) /\ t \in Seq(0..Window) /\ Sorted(s) /\ Sorted(t)
          /\ Covers(s, t) /\ Len(s) <= Limit[k]
      BY <1>0 DEF WindowAt
    <3>2. o \in Seq(0..Window) /\ Sorted(o) /\ Len(o) = Len(s) /\ Covers(o, p)
      BY <1>0, <3>1, Aged
    <3>3. p \in Seq(0..Window) /\ Sorted(p)
      BY <1>0, <3>1, Aged
    <3>4. q \in Seq(Ages) /\ Sorted(q) /\ Covers(o, q)
      BY <1>0, <3>2, <3>3, PrunedCovers
    <3>5. stamps'[k] = o /\ served'[k] = q
      BY <1>2 DEF Tick
    <3> HIDE DEF s, t, o, p, q
    <3> QED
      BY <1>0, <3>1, <3>2, <3>4, <3>5 DEF WindowAt
  <2>2. /\ stamps' \in [Keys -> {stamps'[x] : x \in Keys}]
        /\ served' \in [Keys -> {served'[x] : x \in Keys}]
    BY <1>2 DEF Tick
  <2> QED
    BY <2>1, <2>2
<1>3. CASE UNCHANGED <<stamps, served>>
  BY <1>3 DEF WindowAt
<1> QED
  BY <1>1, <1>2, <1>3
     DEF LimiterNext, limiterVars, BeginFlush, Begin, StoreFlush,
         FlushFault, EndFlush
\* A number of whole units, cut off.
LEMMA Division ==
    ASSUME NEW u \in Nat \ {0}, NEW x \in Nat
    PROVE  /\ x \div u \in Nat /\ u * (x \div u) \in Nat
           /\ u * (x \div u) <= x /\ x < u * (x \div u) + u
           /\ u * (x \div u + 1) = u * (x \div u) + u
<1>1. x \div u \in Nat
  OBVIOUS
<1>2. u * (x \div u) <= x /\ x < u * (x \div u) + u
  OBVIOUS
<1>3. \A q \in Nat : u * q \in Nat /\ u * (q + 1) = u * q + u
  OBVIOUS
<1> QED
  BY <1>1, <1>2, <1>3

\* The first element of a sequence.
LEMMA First ==
    ASSUME NEW S, NEW s \in Seq(S), Len(s) >= 1
    PROVE  1 \in 1..Len(s) /\ s[1] \in S
<1>1. 1 \in 1..Len(s)
  OBVIOUS
<1> QED
  BY <1>1

\* A refusal tells when the oldest stamp of the window leaves it: whole seconds,
\* cut off, and one more, which is less than a second too long.
LEMMA RefusalStep ==
    ASSUME WindowInv, RefusalInv, [LimiterNext]_limiterVars
    PROVE  RefusalInv'
<1>0. /\ Window \in Nat \ {0} /\ Unit \in Nat \ {0} /\ Limit \in [Keys -> Nat \ {0}]
      /\ \A s \in Seq(Ages) : s \in Seq(0..Window)
  BY LimiterAssumption DEF Ages
<1>1. CASE \E c \in Callers : Request(c)
  <2>1. PICK c \in Callers : Request(c)
    BY <1>1
  <2> DEFINE full == {i \in DOMAIN Chain[c] : Full(Chain[c][i])}
             m == Min(full)
             k == Chain[c][m]
             y == Young(stamps[k])
             d == (Window - y[1]) \div Unit
  <2>2. DOMAIN Chain[c] = 1..Len(Chain[c]) /\ \A i \in DOMAIN Chain[c] : Chain[c][i] \in Keys
    BY LimiterAssumption
  <2>3. CASE full = {}
    <3>1. refusal' = [key |-> "none", left |-> 0]
      BY <2>1, <2>3 DEF Request, Decide, Served
    <3> QED
      BY <1>0, <3>1 DEF RefusalInv
  <2>4. CASE full # {}
    <3>1. m \in full /\ \A i \in full : m <= i
      <4>1. full \in SUBSET Nat
        BY <2>2
      <4> HIDE DEF full
      <4> QED
        BY <2>4, <4>1, LeastIndex
    <3>2. k \in Keys /\ Full(k) /\ k \in Seen(c)
      <4>1. m \in DOMAIN Chain[c] /\ Full(k)
        BY <3>1
      <4>2. ASSUME NEW j \in 1..(m - 1) PROVE ~ Full(Chain[c][j])
        <5>1. j \in DOMAIN Chain[c] /\ ~ (m <= j)
          BY <2>2, <4>1
        <5> QED
          BY <3>1, <5>1
      <4> QED
        BY <2>2, <4>1, <4>2 DEF Seen
    <3>3. refusal' = [key |-> k, left |-> Unit * (d + 1)]
      BY <2>1, <2>4 DEF Request, Decide, RetryAfter
    <3> HIDE DEF k, m, full
    <3>4. stamps'[k] = y
      BY <2>1, <3>2, RequestEffect
    <3>5. /\ stamps[k] \in Seq(0..Window) /\ Sorted(stamps[k])
          /\ Len(stamps[k]) <= Limit[k] /\ Limit[k] \in Nat \ {0}
      BY <1>0, <3>2 DEF WindowInv, WindowAt
    <3>6. y \in Seq(Ages) /\ Len(y) <= Len(stamps[k])
      BY <1>0, <3>5, PrunedCovers
    <3>7. Len(y) >= Limit[k]
      BY <3>2 DEF Full
    <3> HIDE DEF y
    <3>8. Len(y) = Limit[k] /\ 1 \in 1..Len(y)
      BY <3>5, <3>6, <3>7
    <3>9. y[1] \in 0..(Window - 1)
      <4>1. Len(y) >= 1
        BY <3>5, <3>8
      <4>2. y[1] \in Ages
        BY <3>6, <4>1, First
      <4> QED
        BY <4>2 DEF Ages
    <3> HIDE DEF d
    <3>10. /\ Unit * (d + 1) \in Nat /\ Window - y[1] < Unit * (d + 1)
           /\ Unit * (d + 1) <= Window - y[1] + Unit
      <4> DEFINE x == Window - y[1]
      <4>1. x \in Nat /\ d = x \div Unit
        BY <1>0, <3>9 DEF d
      <4> HIDE DEF x
      <4>2. /\ d \in Nat /\ Unit * d \in Nat /\ Unit * d <= x /\ x < Unit * d + Unit
            /\ Unit * (d + 1) = Unit * d + Unit
        BY <1>0, <4>1, Division
      <4>3. /\ Unit * (d + 1) \in Nat /\ x < Unit * (d + 1) /\ Unit * (d + 1) <= x + Unit
        <5> DEFINE z == Unit * d
        <5>1. /\ z \in Nat /\ z <= x /\ x < z + Unit /\ Unit * (d + 1) = z + Unit
          BY <4>2
        <5> HIDE DEF z
        <5> QED
          BY <1>0, <4>1, <5>1
      <4> QED
        BY <4>3 DEF x
    <3> DEFINE r == Unit * (d + 1)
    <3>11. r \in 0..(Window + Unit)
      <4>1. r \in Nat /\ r <= Window - y[1] + Unit
        BY <3>10
      <4> HIDE DEF r
      <4> QED
        BY <1>0, <3>9, <4>1
    <3>12. /\ refusal'.key = k /\ refusal'.left = r
           /\ refusal' \in [key : Keys \cup {"none"}, left : 0..(Window + Unit)]
      BY <3>2, <3>3, <3>11
    <3> QED
      BY <3>4, <3>8, <3>10, <3>12 DEF RefusalInv, RefusedAt
  <2> QED
    BY <2>3, <2>4
<1>2. CASE Tick
  <2>1. /\ refusal.key \in Keys \cup {"none"} /\ refusal.left \in 0..(Window + Unit)
        /\ refusal' = [refusal EXCEPT !.left = IF @ > 0 THEN @ - 1 ELSE 0]
        /\ refusal \in [key : Keys \cup {"none"}, left : 0..(Window + Unit)]
    BY <1>2 DEF Tick, RefusalInv
  <2>2. /\ refusal'.key = refusal.key
        /\ refusal'.left = IF refusal.left > 0 THEN refusal.left - 1 ELSE 0
    BY <2>1
  <2>3. (IF refusal.left > 0 THEN refusal.left - 1 ELSE 0) \in 0..(Window + Unit)
    BY <1>0, <2>1
  <2>4. refusal' \in [key : Keys \cup {"none"}, left : 0..(Window + Unit)]
    BY <2>1, <2>3
  <2>5. ASSUME NEW k \in Keys, k = refusal.key, k # "none" PROVE RefusedAt(k)'
    <3> DEFINE s == stamps[k]
               o == Older(s, Window)
    <3>1. k \in Keys /\ RefusedAt(k)
      BY <2>1, <2>5 DEF RefusalInv
    <3>2. s \in Seq(0..Window) /\ Sorted(s) /\ Limit[k] \in Nat \ {0} /\ Len(s) = Limit[k]
      BY <1>0, <3>1 DEF WindowInv, WindowAt, RefusedAt
    <3>3. 1 \in 1..Len(s) /\ s[1] \in 0..Window
      <4>1. Len(s) >= 1 /\ s \in Seq(0..Window)
        BY <3>2
      <4> HIDE DEF s
      <4> QED
        BY <4>1, First
    <3>4. Len(o) = Len(s) /\ o[1] = IF s[1] < Window THEN s[1] + 1 ELSE Window
      BY <1>0, <3>2, <3>3, Aged
    <3>5. stamps'[k] = o
      BY <1>2, <3>1 DEF Tick
    <3>6. /\ refusal.left <= Window - s[1] + Unit
          /\ s[1] < Window => Window - s[1] < refusal.left
      BY <3>1 DEF RefusedAt
    <3> HIDE DEF s, o
    <3>7. /\ refusal'.left <= Window - o[1] + Unit
          /\ o[1] < Window => Window - o[1] < refusal'.left
      BY <1>0, <2>1, <2>2, <3>3, <3>4, <3>6
    <3> QED
      BY <2>2, <3>2, <3>4, <3>5, <3>7 DEF RefusedAt
  <2>6. refusal'.key # "none" => RefusedAt(refusal.key)'
    BY <2>1, <2>2, <2>5 DEF RefusedAt
  <2> QED
    BY <2>4, <2>6 DEF RefusalInv
<1>3. CASE UNCHANGED <<stamps, refusal>>
  BY <1>3 DEF RefusalInv, RefusedAt
<1> QED
  BY <1>1, <1>2, <1>3
     DEF LimiterNext, limiterVars, BeginFlush, Begin, StoreFlush,
         FlushFault, EndFlush
\* In the window that is checked last, a stamp is left only by a request that all
\* the others have let through; pruning and time do the same to both.
LEMMA LastStep ==
    ASSUME WindowInv, LastPaysForServed,
           [LimiterNext]_limiterVars
    PROVE  LastPaysForServed'
<1> SUFFICES ASSUME NEW k \in Keys,
                    \A c \in Callers :
                        k \in Range(Chain[c]) => k = Last(Chain[c])
             PROVE  Young(stamps'[k]) = served'[k]
  BY DEF LastPaysForServed, Young
<1> DEFINE s == stamps[k]
           y == Young(s)
           t == served[k]
<1>0. /\ Window \in Nat \ {0} /\ s \in Seq(0..Window) /\ Sorted(s)
      /\ \A x \in Seq(Ages) : x \in Seq(0..Window)
  BY LimiterAssumption DEF WindowInv, WindowAt, Ages
<1>1. y = t
  BY DEF LastPaysForServed
<1>2. y \in Seq(Ages) /\ Sorted(y)
  BY <1>0, PrunedCovers
<1>3. CASE \E c \in Callers : Request(c)
  <2>1. PICK c \in Callers : Request(c)
    BY <1>3
  <2>2. Young(y) = y
    BY <1>0, <1>2, YoungKept
  <2>3. Young(Append(y, 0)) = Append(y, 0)
    <3>1. Append(y, 0) \in Seq(Ages) /\ Sorted(Append(y, 0))
      BY <1>0, <1>2, Stamped
    <3> QED
      BY <1>0, <3>1, YoungKept
  <2>4. k \in Seen(c) /\ ~ Full(k) => Room(c) /\ k \in Range(Chain[c])
    <3> SUFFICES ASSUME k \in Seen(c), ~ Full(k)
                 PROVE  Room(c) /\ k \in Range(Chain[c])
      OBVIOUS
    <3>1. /\ DOMAIN Chain[c] = 1..Len(Chain[c]) /\ Len(Chain[c]) \in Nat
          /\ \A i, j \in DOMAIN Chain[c] : Chain[c][i] = Chain[c][j] => i = j
      BY LimiterAssumption DEF IsInjective
    <3>2. PICK i \in DOMAIN Chain[c] :
              k = Chain[c][i] /\ \A j \in 1..(i - 1) : ~ Full(Chain[c][j])
      BY DEF Seen
    <3>3. k \in Range(Chain[c])
      BY <3>2 DEF Range
    <3>4. k = Chain[c][Len(Chain[c])] /\ Len(Chain[c]) \in DOMAIN Chain[c]
      BY <3>1, <3>2, <3>3 DEF Last
    <3>5. i = Len(Chain[c])
      BY <3>1, <3>2, <3>4
    <3>6. ASSUME NEW j \in DOMAIN Chain[c] PROVE ~ Full(Chain[c][j])
      <4>1. j = i \/ j \in 1..(i - 1)
        BY <3>1, <3>5
      <4> QED
        BY <3>2, <4>1
    <3> QED
      BY <3>3, <3>6 DEF Room
  <2>5. \/ stamps'[k] = s /\ served'[k] = t
        \/ stamps'[k] = y /\ served'[k] = t
        \/ stamps'[k] = Append(y, 0) /\ served'[k] = Append(t, 0)
    BY <2>1, <2>4, RequestEffect
  <2> HIDE DEF s, y, t
  <2>6. Young(s) = y
    BY DEF y
  <2> QED
    BY <1>1, <2>2, <2>3, <2>5, <2>6
<1>4. CASE Tick
  <2>1. /\ stamps'[k] = Older(s, Window)
        /\ served'[k] = Young(Older(t, Window))
    BY <1>4 DEF Tick
  <2> QED
    BY <1>0, <1>1, <2>1, PrunedAged
<1>5. CASE UNCHANGED <<stamps, served>>
  BY <1>1, <1>5
<1> QED
  BY <1>3, <1>4, <1>5
     DEF LimiterNext, limiterVars, BeginFlush, Begin, StoreFlush,
         FlushFault, EndFlush

\* What RemoveAt leaves are the others, in their order.
LEMMA Removed ==
    ASSUME NEW S, NEW s \in Seq(S), NEW i \in 1..Len(s)
    PROVE  /\ RemoveAt(s, i) \in Seq(S)
           /\ Len(RemoveAt(s, i)) = Len(s) - 1
           /\ \A j \in 1..(Len(s) - 1) :
                  RemoveAt(s, i)[j] = s[IF j < i THEN j ELSE j + 1]
<1> DEFINE u == SubSeq(s, 1, i - 1)
           v == SubSeq(s, i + 1, Len(s))
<1>0. Len(s) \in Nat
  OBVIOUS
<1>1. u \in Seq(S) /\ Len(u) = i - 1 /\ \A j \in 1..(i - 1) : u[j] = s[j]
  <2>1. u = [j \in 1..(i - 1) |-> s[j]]
    BY <1>0
  <2> QED
    BY <1>0, <2>1
<1>2. v \in Seq(S) /\ Len(v) = Len(s) - i /\ \A j \in 1..(Len(s) - i) : v[j] = s[i + j]
  <2>1. v = [j \in 1..(Len(s) - i) |-> s[i + j]]
    BY <1>0
  <2> QED
    BY <1>0, <2>1
<1>3. RemoveAt(s, i) = u \o v
  BY DEF RemoveAt
<1> HIDE DEF u, v
<1>4. u \o v \in Seq(S) /\ Len(u \o v) = Len(s) - 1
  <2>0. u \in Seq(S) /\ v \in Seq(S)
    BY <1>1, <1>2
  <2>1. u \o v \in Seq(S)
    BY <2>0
  <2>2. Len(u \o v) = Len(u) + Len(v)
    BY <2>0
  <2> QED
    BY <1>0, <1>1, <1>2, <2>1, <2>2
<1>5. ASSUME NEW j \in 1..(Len(s) - 1)
      PROVE  (u \o v)[j] = s[IF j < i THEN j ELSE j + 1]
  <2>1. CASE j < i
    <3>1. (u \o v)[j] = u[j] /\ u[j] = s[j]
      BY <1>0, <1>1, <1>2, <2>1
    <3> QED
      BY <2>1, <3>1
  <2>2. CASE ~ (j < i)
    <3>1. j - (i - 1) \in 1..(Len(s) - i) /\ i + (j - (i - 1)) = j + 1
      BY <1>0, <2>2
    <3>2. (u \o v)[j] = v[j - (i - 1)]
      BY <1>0, <1>1, <1>2, <2>2
    <3>3. v[j - (i - 1)] = s[i + (j - (i - 1))]
      BY <1>2, <3>1
    <3> QED
      BY <2>2, <3>1, <3>2, <3>3
  <2> QED
    BY <2>1, <2>2
<1> QED
  BY <1>3, <1>4, <1>5

\* What a flush is to store.
Snapshot == [Keys -> [start : 0..Window, count : Nat]]
\* A snapshot counts the young stamps of a window, of which there are at most as
\* many as its limit.
LEMMA FlushStep ==
    ASSUME WindowInv, FlushInv, [LimiterNext]_limiterVars
    PROVE  FlushInv'
<1> USE DEF FlushInv
<1>0. /\ Window \in Nat \ {0} /\ Interval \in Nat \ {0} /\ MaxFlushes \in Nat
      /\ Limit \in [Keys -> Nat \ {0}] /\ Len(flush) \in Nat
      /\ DOMAIN flush = 1..Len(flush)
      /\ Ages = 0..(Window - 1)
  BY LimiterAssumption DEF Ages
<1>1. CASE \E c \in Callers : Request(c)
  BY <1>1 DEF Request, Decide
<1>2. CASE BeginFlush
  <2> DEFINE snapshot == [k \in Keys |-> Counts(Young(stamps[k]))]
  <2>1. ASSUME NEW k \in Keys
        PROVE  /\ Counts(Young(stamps[k])) \in [start : 0..Window, count : Nat]
               /\ Counts(Young(stamps[k])).count <= Limit[k]
    <3> DEFINE y == Young(stamps[k])
    <3>1. /\ y \in Seq(Ages) /\ Len(y) <= Len(stamps[k])
          /\ Len(stamps[k]) <= Limit[k] /\ stamps[k] \in Seq(0..Window)
      BY <1>0, PrunedCovers DEF WindowInv, WindowAt
    <3> HIDE DEF y
    <3>2. Len(y) \in Nat /\ Len(y) <= Limit[k]
      BY <1>0, <3>1
    <3>3. (IF y = <<>> THEN Window ELSE y[1]) \in 0..Window
      <4>1. CASE y = <<>>
        BY <1>0, <4>1
      <4>2. CASE y # <<>>
        <5>1. Len(y) >= 1
          BY <3>1, <4>2
        <5>2. y[1] \in 0..(Window - 1)
          BY <1>0, <3>1, <5>1, First
        <5> QED
          BY <1>0, <4>2, <5>2
      <4> QED
        BY <4>1, <4>2
    <3> QED
      BY <3>2, <3>3 DEF Counts, y
  <2>2. snapshot \in Snapshot /\ \A k \in Keys : snapshot[k].count <= Limit[k]
    BY <2>1 DEF Snapshot
  <2>3. /\ due' = FALSE /\ UNCHANGED <<rows, crossed>>
        /\ \/ UNCHANGED <<lastFlush, flush>>
           \/ lastFlush' = 0 /\ Len(flush) < MaxFlushes /\ flush' = Append(flush, snapshot)
    BY <1>2 DEF BeginFlush, Begin
  <2> HIDE DEF snapshot
  <2>4. CASE UNCHANGED <<lastFlush, flush>>
    BY <2>3, <2>4
  <2>5. CASE lastFlush' = 0 /\ Len(flush) < MaxFlushes /\ flush' = Append(flush, snapshot)
    <3>0. flush \in Seq(Snapshot)
      BY DEF Snapshot
    <3> HIDE DEF FlushInv, Snapshot
    <3>1. flush' \in Seq(Snapshot) /\ Len(flush') = Len(flush) + 1
      BY <2>2, <2>5, <3>0
    <3>2. ASSUME NEW i \in 1..Len(flush')
          PROVE  flush'[i] = snapshot \/ (i \in 1..Len(flush) /\ flush'[i] = flush[i])
      <4>1. CASE i \in 1..Len(flush)
        BY <2>5, <3>0, <4>1
      <4>2. CASE i = Len(flush) + 1
        BY <2>5, <3>0, <4>2
      <4> QED
        BY <1>0, <3>1, <4>1, <4>2
    <3> USE DEF FlushInv
    <3>3. \A i \in 1..Len(flush'), k \in Keys : flush'[i][k].count <= Limit[k]
      BY <2>2, <3>2
    <3>4. Len(flush') <= MaxFlushes /\ lastFlush' \in 0..Interval
      BY <1>0, <2>5, <3>1
    <3> QED
      BY <2>3, <3>1, <3>3, <3>4 DEF Snapshot
  <2> QED
    BY <2>3, <2>4, <2>5
<1>3. CASE \E i \in DOMAIN flush : StoreFlush(i) \/ FlushFault(i)
  <2>1. PICK i \in 1..Len(flush) : StoreFlush(i) \/ FlushFault(i)
    BY <1>0, <1>3
  <2>2. /\ flush' = RemoveAt(flush, i) /\ UNCHANGED <<due, lastFlush>>
        /\ crossed' \in BOOLEAN
    BY <2>1 DEF StoreFlush, FlushFault, EndFlush
  <2>3. /\ flush' \in Seq(Snapshot) /\ Len(flush') = Len(flush) - 1
        /\ \A j \in 1..Len(flush') : \E h \in 1..Len(flush) : flush'[j] = flush[h]
    <3>1. flush \in Seq(Snapshot)
      BY DEF Snapshot
    <3> HIDE DEF FlushInv, Snapshot
    <3>2. i \in 1..Len(flush)
      OBVIOUS
    <3>3. RemoveAt(flush, i) \in Seq(Snapshot)
      BY <3>1, <3>2, Removed
    <3>4. Len(RemoveAt(flush, i)) = Len(flush) - 1
      BY <3>1, <3>2, Removed
    <3>5. \A j \in 1..(Len(flush) - 1) :
             \E h \in 1..Len(flush) : RemoveAt(flush, i)[j] = flush[h]
      <4> SUFFICES ASSUME NEW j \in 1..(Len(flush) - 1)
                   PROVE  \E h \in 1..Len(flush) : RemoveAt(flush, i)[j] = flush[h]
        OBVIOUS
      <4> DEFINE h == IF j < i THEN j ELSE j + 1
      <4>1. RemoveAt(flush, i)[j] = flush[h]
        BY <3>1, <3>2, Removed
      <4>2. h \in 1..Len(flush)
        BY <1>0, <3>2
      <4> HIDE DEF h
      <4> QED
        BY <4>1, <4>2
    <3> QED
      BY <2>2, <3>3, <3>4, <3>5
  <2>4. /\ Len(flush') <= MaxFlushes
        /\ \A j \in 1..Len(flush'), k \in Keys : flush'[j][k].count <= Limit[k]
    <3>1. Len(flush') \in Nat /\ Len(flush) <= MaxFlushes
      BY <2>3
    <3>2. \A j \in 1..Len(flush'), k \in Keys : flush'[j][k].count <= Limit[k]
      BY <2>3
    <3>3. Len(flush') <= MaxFlushes
      BY <1>0, <2>3, <3>1
    <3> QED
      BY <3>2, <3>3
  <2>5. /\ rows' \in [Keys -> [Ages -> Nat]]
        /\ \A k \in Keys, a \in Ages : rows'[k][a] <= Limit[k]
    <3>1. CASE FlushFault(i)
      BY <3>1 DEF FlushFault
    <3>2. CASE StoreFlush(i)
      <4> DEFINE w(k) == flush[i][k]
                 row(k) == IF w(k).start = Window THEN rows[k]
                           ELSE [rows[k] EXCEPT ![w(k).start] = w(k).count]
      <4>1. rows' = [k \in Keys |-> row(k)]
        BY <3>2 DEF StoreFlush
      <4>2. ASSUME NEW k \in Keys
            PROVE  row(k) \in [Ages -> Nat] /\ \A a \in Ages : row(k)[a] <= Limit[k]
        <5>1. w(k) \in [start : 0..Window, count : Nat] /\ w(k).count <= Limit[k]
          BY <1>0
        <5>2. rows[k] \in [Ages -> Nat] /\ \A a \in Ages : rows[k][a] <= Limit[k]
          OBVIOUS
        <5> HIDE DEF w
        <5> QED
          BY <5>1, <5>2
      <4> HIDE DEF row
      <4> QED
        BY <4>1, <4>2
    <3> QED
      BY <2>1, <3>1, <3>2
  <2> QED
    BY <2>2, <2>3, <2>4, <2>5 DEF Snapshot
<1>4. CASE Tick
  <2> DEFINE older(r) == [r EXCEPT !.start = IF @ < Window THEN @ + 1 ELSE @]
  <2>1. ASSUME NEW r \in [start : 0..Window, count : Nat]
        PROVE  older(r) \in [start : 0..Window, count : Nat] /\ older(r).count = r.count
    <3>1. r = [start |-> r.start, count |-> r.count] /\ r.start \in 0..Window /\ r.count \in Nat
      OBVIOUS
    <3>2. older(r) = [start |-> IF r.start < Window THEN r.start + 1 ELSE r.start,
                      count |-> r.count]
      BY <3>1
    <3>3. (IF r.start < Window THEN r.start + 1 ELSE r.start) \in 0..Window
      BY <1>0, <3>1
    <3> HIDE DEF older
    <3> QED
      BY <3>1, <3>2, <3>3
  <2>2. flush' = [i \in 1..Len(flush) |-> [k \in Keys |-> older(flush[i][k])]]
    BY <1>0, <1>4 DEF Tick
  <2> HIDE DEF older
  <2>3. ASSUME NEW i \in 1..Len(flush), NEW k \in Keys
        PROVE  /\ flush[i][k] \in [start : 0..Window, count : Nat]
               /\ flush[i][k].count <= Limit[k]
    BY <1>0
  <2>4. flush' \in [1..Len(flush) -> Snapshot]
    BY <2>1, <2>2, <2>3 DEF Snapshot
  <2>5. flush' \in Seq(Snapshot) /\ Len(flush') = Len(flush)
    <3> DEFINE n == Len(flush)
    <3>1. n \in Nat /\ flush' \in [1..n -> Snapshot]
      BY <1>0, <2>4
    <3> HIDE DEF n, Snapshot, FlushInv
    <3>2. flush' \in Seq(Snapshot) /\ Len(flush') = n
      BY <3>1
    <3> QED
      BY <3>2 DEF n
  <2>6. \A i \in 1..Len(flush'), k \in Keys : flush'[i][k].count <= Limit[k]
    BY <2>1, <2>2, <2>3, <2>5
  <2>7. lastFlush' \in 0..Interval /\ UNCHANGED <<due, crossed>>
    BY <1>0, <1>4 DEF Tick
  <2>8. /\ rows' \in [Keys -> [Ages -> Nat]]
        /\ \A k \in Keys, a \in Ages : rows'[k][a] <= Limit[k]
    <3>1. rows' = [k \in Keys |-> [a \in Ages |-> IF a = 0 THEN 0 ELSE rows[k][a - 1]]]
      BY <1>4 DEF Tick
    <3>2. ASSUME NEW k \in Keys, NEW a \in Ages
          PROVE  /\ (IF a = 0 THEN 0 ELSE rows[k][a - 1]) \in Nat
                 /\ (IF a = 0 THEN 0 ELSE rows[k][a - 1]) <= Limit[k]
      <4>1. CASE a = 0
        BY <1>0, <4>1
      <4>2. CASE a # 0
        <5>1. a - 1 \in Ages
          BY <1>0, <4>2
        <5> QED
          BY <4>2, <5>1
      <4> QED
        BY <4>1, <4>2
    <3> QED
      BY <3>1, <3>2
  <2> QED
    BY <2>5, <2>6, <2>7, <2>8 DEF Snapshot
<1>5. CASE UNCHANGED <<due, lastFlush, flush, rows, crossed>>
  BY <1>5
<1> QED
  BY <1>1, <1>2, <1>3, <1>4, <1>5 DEF LimiterNext, limiterVars
\* Stamps of one age.
LEMMA AlikeStamps ==
    ASSUME NEW n \in Nat, NEW S, NEW a \in S
    PROVE  /\ Alike(n, a) \in Seq(S) /\ Len(Alike(n, a)) = n
           /\ \A j \in 1..n : Alike(n, a)[j] = a
BY DEF Alike

\* What a request leaves of a window covers the same counts.
LEMMA CountKept ==
    ASSUME NEW s \in Seq(0..Window), Sorted(s), NEW n \in Nat, NEW a \in Ages,
           Covers(s, Alike(n, a))
    PROVE  Covers(Young(s), Alike(n, a)) /\ Covers(Append(Young(s), 0), Alike(n, a))
<1> DEFINE y == Young(s)
           t == Alike(n, a)
<1>1. Window \in Nat \ {0} /\ \A u \in Seq(Ages) : u \in Seq(0..Window)
  BY LimiterAssumption DEF Ages
<1>2. t \in Seq(Ages)
  BY AlikeStamps
<1>3. y \in Seq(Ages) /\ Sorted(y) /\ Covers(y, t)
  BY <1>1, <1>2, PrunedCovers
<1>4. Covers(Append(y, 0), t)
  BY <1>1, <1>2, <1>3, Stamped
<1> QED
  BY <1>3, <1>4

\* The same when time has passed.
LEMMA CountAged ==
    ASSUME NEW s \in Seq(0..Window), Sorted(s), NEW n \in Nat, NEW a \in Ages,
           Covers(s, Alike(n, a))
    PROVE  Covers(Older(s, Window), Alike(n, a + 1))
<1> DEFINE t == Alike(n, a)
<1>1. Window \in Nat \ {0} /\ a \in 0..(Window - 1) /\ a \in 0..Window
  BY LimiterAssumption DEF Ages
<1>2. t \in Seq(0..Window)
  BY <1>1, AlikeStamps
<1>3. Covers(Older(s, Window), Older(t, Window))
  BY <1>1, <1>2, Aged
<1>4. Older(t, Window) = Alike(n, a + 1)
  <2>1. DOMAIN t = 1..n /\ \A j \in 1..n : t[j] = a
    BY DEF Alike
  <2>2. Older(t, Window) = [j \in 1..n |-> IF t[j] + 1 < Window THEN t[j] + 1 ELSE Window]
    BY <2>1 DEF Older
  <2>3. (IF a + 1 < Window THEN a + 1 ELSE Window) = a + 1
    BY <1>1
  <2> HIDE DEF t
  <2>4. \A j \in 1..n : (IF t[j] + 1 < Window THEN t[j] + 1 ELSE Window) = a + 1
    BY <2>1, <2>3
  <2> QED
    BY <2>2, <2>4 DEF Alike
<1> QED
  BY <1>3, <1>4

\* A snapshot counts all the stamps within the window: no other count for the same
\* start is larger.
LEMMA SnapshotCount ==
    ASSUME NEW s \in Seq(0..Window), Sorted(s), Young(s) # <<>>
    PROVE  /\ Young(s)[1] \in Ages /\ Len(Young(s)) \in Nat
           /\ Covers(s, Alike(Len(Young(s)), Young(s)[1]))
           /\ \A n \in Nat : Covers(s, Alike(n, Young(s)[1])) => n <= Len(Young(s))
<1> DEFINE y == Young(s)
           m == Len(y)
           a == y[1]
<1>1. Window \in Nat
  BY LimiterAssumption
<1>2. PICK e \in 0..Len(s) :
         /\ y \in Seq(Ages) /\ Len(y) = Len(s) - e
         /\ \A i \in 1..(Len(s) - e) : y[i] = s[e + i]
  BY <1>1, Pruned
<1>3. Sorted(y)
  BY <1>1, PrunedCovers
<1> HIDE DEF y
<1>4. Len(s) \in Nat /\ e \in Nat /\ m \in Nat /\ m >= 1
  BY <1>2 DEF y
<1>5. a \in Ages
  BY <1>2, <1>4, First
<1>6. ASSUME NEW j \in 0..(m - 1) PROVE s[Len(s) - j] <= a
  <2>1. m - j \in 1..(Len(s) - e) /\ e + (m - j) = Len(s) - j /\ 1 \in 1..m /\ m - j \in 1..m
    BY <1>2, <1>4
  <2>2. y[m - j] <= y[1]
    BY <1>3, <2>1 DEF Sorted
  <2> QED
    BY <1>2, <2>1, <2>2
<1> HIDE DEF m, a
<1>7. Covers(s, Alike(m, a))
  <2>1. Len(Alike(m, a)) = m /\ \A j \in 1..m : Alike(m, a)[j] = a
    BY <1>4, <1>5, AlikeStamps
  <2>2. m <= Len(s)
    BY <1>2, <1>4 DEF m
  <2>3. \A j \in 0..(m - 1) : m - j \in 1..m
    BY <1>4
  <2> QED
    BY <1>6, <2>1, <2>2, <2>3 DEF Covers
<1>8. ASSUME NEW n \in Nat, Covers(s, Alike(n, a)) PROVE n <= m
  <2>1. Alike(n, a) \in Seq(Ages) /\ Len(Alike(n, a)) = n
    BY <1>5, AlikeStamps
  <2>2. Covers(y, Alike(n, a))
    BY <1>1, <1>8, <2>1, PrunedCovers DEF y
  <2> QED
    BY <2>1, <2>2 DEF Covers, m
<1> QED
  BY <1>4, <1>5, <1>7, <1>8 DEF a, m, y

\* The counts are natural numbers, and starts are ages or outside of the window.
LEMMA CountTypes ==
    ASSUME FlushInv
    PROVE  /\ Len(flush) \in Nat /\ DOMAIN flush = 1..Len(flush) /\ flush \in Seq(Snapshot)
           /\ \A k \in Keys, a \in Ages : rows[k][a] \in Nat
           /\ \A i \in 1..Len(flush), k \in Keys :
                 flush[i][k].count \in Nat /\ flush[i][k].start \in 0..Window
<1>1. flush \in Seq(Snapshot)
  BY DEF FlushInv, Snapshot
<1>2. Len(flush) \in Nat /\ DOMAIN flush = 1..Len(flush)
  BY <1>1
<1>3. \A k \in Keys, a \in Ages : rows[k][a] \in Nat
  BY DEF FlushInv
<1>4. ASSUME NEW i \in 1..Len(flush), NEW k \in Keys
      PROVE  flush[i][k].count \in Nat /\ flush[i][k].start \in 0..Window
  <2>1. flush[i] \in Snapshot
    BY <1>1
  <2>2. flush[i][k] \in [start : 0..Window, count : Nat]
    BY <2>1 DEF Snapshot
  <2> QED
    BY <2>2
<1> QED
  BY <1>1, <1>2, <1>3, <1>4

\* A request and the clock leave the counts as they are, or age them all.
LEMMA RequestCount ==
    ASSUME WindowInv, FlushInv, CountInv, NEW c \in Callers, Request(c)
    PROVE  CountInv'
<1> SUFFICES ASSUME NEW k \in Keys PROVE CountAt(k)'
  BY DEF CountInv
<1> DEFINE s == stamps[k]
<1>1. CountAt(k) /\ s \in Seq(0..Window) /\ Sorted(s)
  BY DEF CountInv, WindowInv, WindowAt
<1>2. stamps'[k] \in {s, Young(s), Append(Young(s), 0)}
  BY RequestEffect
<1>3. UNCHANGED <<flush, rows, crossed>>
  BY DEF Request, Decide
<1> HIDE DEF s
<1>4. ASSUME NEW n \in Nat, NEW a \in Ages, Covers(s, Alike(n, a))
      PROVE  Covers(stamps'[k], Alike(n, a))
  BY <1>1, <1>2, <1>4, CountKept
<1>5. \A a \in Ages : Covers(stamps'[k], Alike(rows'[k][a], a))
  BY <1>1, <1>3, <1>4, CountTypes DEF CountAt, s
<1>6. ASSUME NEW i \in 1..Len(flush), Open(i, k)
      PROVE  Covers(stamps'[k], Alike(flush[i][k].count, flush[i][k].start))
  BY <1>1, <1>4, <1>6, CountTypes DEF CountAt, Open, s
<1> QED
  BY <1>1, <1>3, <1>5, <1>6 DEF CountAt, Open

LEMMA TickCount ==
    ASSUME WindowInv, FlushInv, CountInv, Tick
    PROVE  CountInv'
<1> SUFFICES ASSUME NEW k \in Keys PROVE CountAt(k)'
  BY DEF CountInv
<1> DEFINE s == stamps[k]
           o == Older(s, Window)
           older(w) == IF w < Window THEN w + 1 ELSE w
<1>0. Window \in Nat \ {0} /\ Ages = 0..(Window - 1)
  BY LimiterAssumption DEF Ages
<1>1. CountAt(k) /\ s \in Seq(0..Window) /\ Sorted(s)
  BY DEF CountInv, WindowInv, WindowAt
<1>2. stamps'[k] = o /\ UNCHANGED crossed
  BY DEF Tick
<1>3. Len(flush') = Len(flush) /\ \A i \in 1..Len(flush) :
         /\ flush'[i][k].start = older(flush[i][k].start)
         /\ flush'[i][k].count = flush[i][k].count
  <2> DEFINE aged(w) == [w EXCEPT !.start = IF @ < Window THEN @ + 1 ELSE @]
  <2>1. flush' = [i \in 1..Len(flush) |-> [x \in Keys |-> aged(flush[i][x])]]
    BY CountTypes DEF Tick
  <2>2. ASSUME NEW w \in [start : 0..Window, count : Nat]
        PROVE  aged(w).start = older(w.start) /\ aged(w).count = w.count
    OBVIOUS
  <2>3. \A i \in 1..Len(flush) : flush[i][k] \in [start : 0..Window, count : Nat]
    BY DEF FlushInv
  <2> HIDE DEF aged, older
  <2>4. \A i \in 1..Len(flush) : flush'[i][k] = aged(flush[i][k])
    BY <2>1
  <2>5. Len(flush') = Len(flush)
    <3> DEFINE n == Len(flush)
    <3>1. n \in Nat /\ flush' = [i \in 1..n |-> [x \in Keys |-> aged(flush[i][x])]]
      BY <2>1, CountTypes
    <3> HIDE DEF n
    <3>2. Len(flush') = n
      BY <3>1
    <3> QED
      BY <3>2 DEF n
  <2> QED
    BY <2>2, <2>3, <2>4, <2>5
<1>4. \A a \in Ages : rows'[k][a] = IF a = 0 THEN 0 ELSE rows[k][a - 1]
  BY DEF Tick
<1> HIDE DEF s, o
<1>5. ASSUME NEW n \in Nat, NEW a \in Ages, Covers(s, Alike(n, a))
      PROVE  Covers(o, Alike(n, a + 1))
  BY <1>1, <1>5, CountAged DEF o
<1>6. ASSUME NEW a \in Ages PROVE Covers(o, Alike(rows'[k][a], a))
  <2>1. CASE a = 0
    <3>1. rows'[k][a] = 0 /\ Len(o) \in Nat
      BY <1>0, <1>1, <1>4, <2>1, Aged DEF o
    <3>2. Len(Alike(0, a)) = 0
      BY AlikeStamps
    <3> QED
      BY <3>1, <3>2 DEF Covers
  <2>2. CASE a # 0
    <3>1. a - 1 \in Ages /\ (a - 1) + 1 = a
      BY <1>0, <2>2
    <3>2. rows'[k][a] = rows[k][a - 1] /\ rows[k][a - 1] \in Nat
      BY <1>4, <2>2, <3>1, CountTypes
    <3>3. Covers(s, Alike(rows[k][a - 1], a - 1))
      BY <1>1, <3>1 DEF CountAt, s
    <3> QED
      BY <1>5, <3>1, <3>2, <3>3
  <2> QED
    BY <2>1, <2>2
<1>7. ASSUME NEW i \in 1..Len(flush), Open(i, k)'
      PROVE  /\ Open(i, k) /\ flush'[i][k].start = flush[i][k].start + 1
             /\ flush[i][k].start \in Ages /\ flush[i][k].start + 1 \in Ages
  <2>1. flush[i][k].start \in 0..Window
    BY CountTypes
  <2>2. flush'[i][k].start \in Ages /\ flush'[i][k].start = older(flush[i][k].start)
    BY <1>3, <1>7 DEF Open
  <2> DEFINE w == flush[i][k].start
  <2>3. w \in 0..Window /\ older(w) \in Ages /\ flush'[i][k].start = older(w)
    BY <2>1, <2>2
  <2> HIDE DEF w
  <2>4. w \in Ages /\ older(w) = w + 1
    BY <1>0, <2>3
  <2> QED
    BY <2>3, <2>4 DEF w, Open
<1>8. ASSUME NEW i \in 1..Len(flush), Open(i, k)'
      PROVE  /\ Covers(o, Alike(flush'[i][k].count, flush'[i][k].start))
             /\ ~crossed => rows'[k][flush'[i][k].start] <= flush'[i][k].count
             /\ \A j \in i..Len(flush) : flush'[j][k].start = flush'[i][k].start =>
                   flush'[i][k].count <= flush'[j][k].count
  <2> DEFINE a == flush[i][k].start
             n == flush[i][k].count
  <2>1. /\ a \in Ages /\ a + 1 \in Ages /\ flush'[i][k].start = a + 1
        /\ Open(i, k) /\ flush'[i][k].count = n /\ n \in Nat
    BY <1>3, <1>7, <1>8, CountTypes
  <2>2. /\ Covers(s, Alike(n, a))
        /\ ~crossed => rows[k][a] <= n
        /\ \A j \in i..Len(flush) : flush[j][k].start = a => n <= flush[j][k].count
    BY <1>1, <2>1 DEF CountAt, s
  <2> HIDE DEF a, n
  <2>3. Covers(o, Alike(n, a + 1))
    BY <1>5, <2>1, <2>2
  <2>4. rows'[k][a + 1] = rows[k][a]
    <3>1. a + 1 # 0 /\ (a + 1) - 1 = a
      BY <1>0, <2>1
    <3> QED
      BY <1>4, <2>1, <3>1
  <2>5. ASSUME NEW j \in i..Len(flush), flush'[j][k].start = a + 1
        PROVE  n <= flush'[j][k].count
    <3>1. j \in 1..Len(flush)
      BY CountTypes
    <3>2. Open(j, k)'
      BY <2>1, <2>5 DEF Open
    <3>3. flush'[j][k].start = flush[j][k].start + 1 /\ flush[j][k].start \in Ages
      BY <1>7, <3>1, <3>2
    <3>4. flush[j][k].start = a
      <4> DEFINE b == flush[j][k].start
      <4>1. b + 1 = a + 1 /\ b \in Ages
        BY <2>5, <3>3
      <4> HIDE DEF b
      <4>2. b = a
        BY <1>0, <2>1, <4>1
      <4> QED
        BY <4>2 DEF b
    <3> QED
      BY <1>3, <2>2, <3>1, <3>4
  <2> QED
    BY <2>1, <2>2, <2>3, <2>4, <2>5
<1> QED
  BY <1>2, <1>3, <1>6, <1>8 DEF CountAt

\* The snapshot that a new flush takes has counted as much as any flush before it.
LEMMA BeginCount ==
    ASSUME WindowInv, FlushInv, CountInv, BeginFlush
    PROVE  CountInv'
<1> SUFFICES ASSUME NEW k \in Keys PROVE CountAt(k)'
  BY DEF CountInv
<1> DEFINE s == stamps[k]
           y == Young(s)
           snapshot == [x \in Keys |-> Counts(Young(stamps[x]))]
<1>0. Window \in Nat \ {0} /\ Ages = 0..(Window - 1)
  BY LimiterAssumption DEF Ages
<1>1. CountAt(k) /\ s \in Seq(0..Window) /\ Sorted(s)
  BY DEF CountInv, WindowInv, WindowAt
<1>2. /\ UNCHANGED <<stamps, rows, crossed>>
      /\ flush' = flush \/ flush' = Append(flush, snapshot)
  BY DEF BeginFlush, Begin
<1>3. CASE flush' = flush
  BY <1>1, <1>2, <1>3 DEF CountAt, Open
<1>4. CASE flush' = Append(flush, snapshot)
  <2> DEFINE w == snapshot[k]
             m == Len(flush)
  <2>1. w.start = (IF y = <<>> THEN Window ELSE y[1]) /\ w.count = Len(y)
    BY DEF Counts
  <2>2. w.start \in Ages => /\ w.count \in Nat /\ Covers(s, Alike(w.count, w.start))
                            /\ \A n \in Nat : Covers(s, Alike(n, w.start)) => n <= w.count
    <3>1. w.start \in Ages => y # <<>>
      BY <1>0, <2>1
    <3> QED
      BY <1>1, <2>1, <3>1, SnapshotCount
  <2>3. m \in Nat /\ Len(flush') = m + 1 /\ flush'[m + 1] = snapshot
        /\ \A i \in 1..m : flush'[i] = flush[i]
    <3>1. flush \in Seq(Snapshot)
      BY CountTypes
    <3> HIDE DEF snapshot
    <3> QED
      BY <1>4, <3>1
  <2>4. \A i \in 1..m : flush'[i][k] = flush[i][k]
    BY <2>3
  <2>5. flush'[m + 1][k] = w
    BY <2>3
  <2> HIDE DEF s, y, w, snapshot, m
  <2>6. ASSUME NEW a \in Ages PROVE Covers(s, Alike(rows[k][a], a))
    BY <1>1 DEF CountAt, s
  <2>7. ASSUME NEW i \in 1..m, Open(i, k)
        PROVE  /\ Covers(s, Alike(flush[i][k].count, flush[i][k].start))
               /\ ~crossed => rows[k][flush[i][k].start] <= flush[i][k].count
               /\ \A j \in i..m : flush[j][k].start = flush[i][k].start =>
                     flush[i][k].count <= flush[j][k].count
               /\ flush[i][k].count \in Nat
    BY <1>1, <2>7, CountTypes DEF CountAt, m, s
  <2>8. ASSUME NEW i \in 1..(m + 1), Open(i, k)'
        PROVE  /\ Covers(s, Alike(flush'[i][k].count, flush'[i][k].start))
               /\ ~crossed => rows[k][flush'[i][k].start] <= flush'[i][k].count
               /\ \A j \in i..(m + 1) : flush'[j][k].start = flush'[i][k].start =>
                     flush'[i][k].count <= flush'[j][k].count
    <3>1. CASE i \in 1..m
      <4>1. Open(i, k) /\ flush'[i][k] = flush[i][k] /\ flush[i][k].start \in Ages
        BY <2>4, <2>8, <3>1 DEF Open
      <4>2. ASSUME NEW j \in i..(m + 1), flush'[j][k].start = flush[i][k].start
            PROVE  flush[i][k].count <= flush'[j][k].count
        <5>1. CASE j \in i..m
          <6>1. j \in 1..m
            BY <2>3, <3>1, <5>1
          <6> QED
            BY <2>4, <2>7, <3>1, <4>1, <4>2, <5>1, <6>1
        <5>2. CASE j = m + 1
          <6>1. w.start = flush[i][k].start /\ w.start \in Ages
            BY <2>5, <4>1, <4>2, <5>2
          <6>2. Covers(s, Alike(flush[i][k].count, w.start)) /\ flush[i][k].count \in Nat
            BY <2>7, <3>1, <4>1, <6>1
          <6> QED
            BY <2>2, <2>5, <5>2, <6>1, <6>2
        <5>3. j \in i..m \/ j = m + 1
          BY <2>3, <3>1
        <5> QED
          BY <5>1, <5>2, <5>3
      <4> QED
        BY <2>7, <3>1, <4>1, <4>2
    <3>2. CASE i = m + 1
      <4>1. w.start \in Ages /\ flush'[i][k] = w
        BY <2>5, <2>8, <3>2 DEF Open
      <4>2. rows[k][w.start] <= w.count
        BY <2>2, <2>6, <4>1, CountTypes
      <4>3. \A j \in i..(m + 1) : flush'[j][k] = w
        BY <2>3, <2>5, <3>2
      <4> QED
        BY <2>2, <4>1, <4>2, <4>3
    <3>3. i \in 1..m \/ i = m + 1
      BY <2>3
    <3> QED
      BY <3>1, <3>2, <3>3
  <2> QED
    BY <1>2, <2>3, <2>6, <2>8 DEF CountAt, s
<1> QED
  BY <1>2, <1>3, <1>4

\* A flush that ends is of the oldest snapshot, or counts as overtaken.
LEMMA EndCount ==
    ASSUME WindowInv, FlushInv, CountInv,
           NEW i \in 1..Len(flush), StoreFlush(i) \/ FlushFault(i)
    PROVE  CountInv'
<1> SUFFICES ASSUME NEW k \in Keys PROVE CountAt(k)'
  BY DEF CountInv
<1> DEFINE s == stamps[k]
           m == Len(flush)
           w == flush[i][k]
           at(j) == IF j < i THEN j ELSE j + 1
<1>1. /\ m \in Nat /\ flush \in Seq(Snapshot) /\ w.count \in Nat
      /\ \A a \in Ages : rows[k][a] \in Nat
  BY CountTypes
<1>2. /\ UNCHANGED stamps /\ flush' = RemoveAt(flush, i)
      /\ crossed' = (m > 1 /\ (crossed \/ i > 1))
  BY DEF StoreFlush, FlushFault, EndFlush
<1>3. Len(flush') = m - 1 /\ \A j \in 1..(m - 1) : flush'[j] = flush[at(j)]
  <2>1. Len(RemoveAt(flush, i)) = Len(flush) - 1
    BY <1>1, Removed
  <2>2. \A j \in 1..(Len(flush) - 1) :
           RemoveAt(flush, i)[j] = flush[IF j < i THEN j ELSE j + 1]
    BY <1>1, Removed
  <2> QED
    BY <1>2, <2>1, <2>2
<1>4. \A j \in 1..(m - 1) : flush'[j][k] = flush[at(j)][k]
  BY <1>3
<1>5. ASSUME NEW j \in 1..(m - 1)
      PROVE  at(j) \in 1..m /\ \A h \in j..(m - 1) : at(h) \in at(j)..m
  BY <1>1
<1>6. ASSUME NEW a \in Ages
      PROVE  rows'[k][a] = rows[k][a] \/ (a = w.start /\ rows'[k][a] = w.count)
  <2>1. CASE FlushFault(i)
    BY <2>1 DEF FlushFault
  <2>2. CASE StoreFlush(i)
    <3>1. rows'[k] = IF w.start = Window THEN rows[k]
                     ELSE [rows[k] EXCEPT ![w.start] = w.count]
      BY <2>2 DEF StoreFlush
    <3>2. rows[k] \in [Ages -> Nat]
      BY DEF FlushInv
    <3> HIDE DEF w
    <3> QED
      BY <3>1, <3>2
  <2> QED
    BY <2>1, <2>2
<1>7. ASSUME NEW j \in 1..m, Open(j, k)
      PROVE  /\ Covers(s, Alike(flush[j][k].count, flush[j][k].start))
             /\ ~crossed => rows[k][flush[j][k].start] <= flush[j][k].count
             /\ \A h \in j..m : flush[h][k].start = flush[j][k].start =>
                   flush[j][k].count <= flush[h][k].count
  BY <1>7 DEF CountInv, CountAt
<1>8. \A a \in Ages : Covers(s, Alike(rows[k][a], a))
  BY DEF CountInv, CountAt
<1> HIDE DEF s, m, at
<1>9. ASSUME NEW a \in Ages PROVE Covers(s, Alike(rows'[k][a], a))
  <2>1. CASE rows'[k][a] = rows[k][a]
    BY <1>8, <2>1
  <2>2. CASE a = w.start /\ rows'[k][a] = w.count
    <3>1. i \in 1..m /\ Open(i, k)
      BY <2>2 DEF Open, m
    <3> QED
      BY <1>7, <2>2, <3>1
  <2> QED
    BY <1>6, <2>1, <2>2
<1>10. ASSUME NEW j \in 1..(m - 1), Open(j, k)'
       PROVE  /\ Covers(s, Alike(flush'[j][k].count, flush'[j][k].start))
              /\ ~crossed' => rows'[k][flush'[j][k].start] <= flush'[j][k].count
              /\ \A h \in j..(m - 1) : flush'[h][k].start = flush'[j][k].start =>
                    flush'[j][k].count <= flush'[h][k].count
  <2> DEFINE g == at(j)
             v == flush[g][k]
  <2>1. g \in 1..m /\ flush'[j][k] = v /\ v.start \in Ages
    BY <1>4, <1>5, <1>10 DEF Open
  <2>2. Open(g, k)
    BY <2>1 DEF Open
  <2> HIDE DEF g
  <2>3. /\ Covers(s, Alike(v.count, v.start))
        /\ ~crossed => rows[k][v.start] <= v.count
        /\ \A h \in g..m : flush[h][k].start = v.start => v.count <= flush[h][k].count
    BY <1>7, <2>1, <2>2
  <2>4. ASSUME ~crossed' PROVE rows'[k][v.start] <= v.count
    <3>1. m > 1
      BY <1>1
    <3>2. ~crossed /\ i = 1 /\ 1 \in 1..m
      <4>1. ~crossed /\ ~ (i > 1)
        BY <1>2, <2>4, <3>1, Zenon
      <4>2. i \in 1..m
        BY DEF m
      <4> QED
        BY <1>1, <4>1, <4>2
    <3>3. CASE rows'[k][v.start] = rows[k][v.start]
      BY <2>3, <3>2, <3>3
    <3>4. CASE v.start = w.start /\ rows'[k][v.start] = w.count
      <4>1. Open(i, k) /\ w.start \in Ages
        BY <2>1, <3>4 DEF Open
      <4>2. i \in 1..m /\ g \in i..m
        BY <1>1, <2>1, <3>2
      <4> QED
        BY <1>7, <3>4, <4>1, <4>2
    <3> QED
      BY <1>6, <2>1, <3>3, <3>4
  <2>5. ASSUME NEW h \in j..(m - 1), flush'[h][k].start = v.start
        PROVE  v.count <= flush'[h][k].count
    <3>1. h \in 1..(m - 1) /\ at(h) \in g..m
      BY <1>1, <1>5 DEF g
    <3>2. flush'[h][k] = flush[at(h)][k]
      BY <1>4, <3>1
    <3> QED
      BY <2>3, <2>5, <3>1, <3>2
  <2> QED
    BY <2>1, <2>3, <2>4, <2>5
<1> QED
  BY <1>2, <1>3, <1>9, <1>10 DEF CountAt, s

\* The table is empty and no flush is under way.
LEMMA CountInit ==
    ASSUME LimiterInit
    PROVE  CountInv
<1> SUFFICES ASSUME NEW k \in Keys PROVE CountAt(k)
  BY DEF CountInv
<1>1. stamps[k] = <<>> /\ Len(flush) = 0 /\ \A a \in Ages : rows[k][a] = 0
  BY DEF LimiterInit
<1>2. ASSUME NEW a \in Ages PROVE Covers(<<>>, Alike(0, a))
  <2>1. Len(Alike(0, a)) = 0 /\ Len(<<>>) = 0
    BY AlikeStamps
  <2> QED
    BY <2>1 DEF Covers
<1> QED
  BY <1>1, <1>2 DEF CountAt

\* Every step keeps the counts.
LEMMA CountStep ==
    ASSUME WindowInv, FlushInv, CountInv, [LimiterNext]_limiterVars
    PROVE  CountInv'
<1>1. CASE \E c \in Callers : Request(c)
  BY <1>1, RequestCount
<1>2. CASE BeginFlush
  BY <1>2, BeginCount
<1>3. CASE \E i \in DOMAIN flush : StoreFlush(i) \/ FlushFault(i)
  BY <1>3, EndCount, CountTypes
<1>4. CASE Tick
  BY <1>4, TickCount
<1>5. CASE UNCHANGED limiterVars
  BY <1>5 DEF limiterVars, CountInv, CountAt, Open
<1> QED
  BY <1>1, <1>2, <1>3, <1>4, <1>5 DEF LimiterNext

\* No request has been made: the windows are empty.
LEMMA EmptyWindow ==
    ASSUME Window \in Nat
    PROVE  /\ Sorted(<<>>) /\ Covers(<<>>, <<>>) /\ Len(<<>>) = 0
           /\ Young(<<>>) = <<>>
<1>1. Len(<<>>) = 0 /\ \A S : <<>> \in Seq(S)
  OBVIOUS
<1>2. Sorted(<<>>)
  BY <1>1 DEF Sorted
<1>3. Covers(<<>>, <<>>)
  BY <1>1 DEF Covers
<1>4. Young(<<>>) = <<>>
  BY <1>1, <1>2, YoungKept
<1> QED
  BY <1>1, <1>2, <1>3, <1>4

\* The invariant holds before the first request.
LEMMA LimiterInitInvariant ==
    ASSUME LimiterInit
    PROVE  LimiterInv
<1>0. /\ Window \in Nat \ {0} /\ Unit \in Nat \ {0} /\ Interval \in Nat /\ MaxFlushes \in Nat
      /\ Limit \in [Keys -> Nat \ {0}]
  BY LimiterAssumption
<1>1. \A S : <<>> \in Seq(S)
  OBVIOUS
<1>2. WindowInv
  BY <1>0, <1>1, EmptyWindow DEF LimiterInit, WindowInv, WindowAt
<1>3. RefusalInv
  BY <1>0 DEF LimiterInit, Served, RefusalInv
<1>4. FlushInv
  <2>1. flush = <<>> /\ Len(flush) = 0 /\ flush \in Seq([Keys -> [start : 0..Window, count : Nat]])
    BY <1>1 DEF LimiterInit
  <2>2. /\ rows = [k \in Keys |-> [a \in Ages |-> 0]]
        /\ due = FALSE /\ crossed = FALSE /\ lastFlush = Interval
    BY DEF LimiterInit
  <2>3. \A k \in Keys, a \in Ages : rows[k][a] = 0
    BY <2>2
  <2>4. rows \in [Keys -> [Ages -> Nat]]
    BY <2>2
  <2>5. \A k \in Keys, a \in Ages : rows[k][a] <= Limit[k]
    BY <1>0, <2>3
  <2>6. /\ \A i \in 1..Len(flush), k \in Keys : flush[i][k].count <= Limit[k]
        /\ Len(flush) <= MaxFlushes
    BY <1>0, <2>1
  <2>7. due \in BOOLEAN /\ crossed \in BOOLEAN
    BY <2>2
  <2>8. lastFlush \in 0..Interval
    <3>1. lastFlush = Interval
      BY <2>2
    <3> QED
      BY <1>0, <3>1
  <2> QED
    BY <2>1, <2>4, <2>5, <2>6, <2>7, <2>8 DEF FlushInv
<1>5. LastPaysForServed
  BY <1>0, EmptyWindow DEF LimiterInit, LastPaysForServed, Young
<1> QED
  BY <1>2, <1>3, <1>4, <1>5, CountInit DEF LimiterInv

\* The invariant of the limiter: no step of a request, a flush or the clock disturbs it.
THEOREM LimiterInvariance == LimiterSpec => []LimiterInv
<1>1. LimiterInit => LimiterInv
  BY LimiterInitInvariant
<1>2. LimiterInv /\ [LimiterNext]_limiterVars => LimiterInv'
  BY WindowStep, RefusalStep, FlushStep, CountStep, LastStep DEF LimiterInv
<1> QED
  BY <1>1, <1>2, PTL DEF LimiterSpec

\* Property WindowBound, for every limit and window: _sliding_window_check lets no
\* more requests through in any stretch as long as the window than its limit.
THEOREM WindowsBounded == LimiterSpec => []WindowBound
<1>1. LimiterInv => WindowBound
  <2> SUFFICES ASSUME WindowInv, NEW k \in Keys PROVE Len(served[k]) <= Limit[k]
    BY DEF LimiterInv, WindowBound
  <2>1. /\ Len(served[k]) <= Len(stamps[k]) /\ Len(stamps[k]) <= Limit[k]
        /\ Len(served[k]) \in Nat /\ Len(stamps[k]) \in Nat /\ Limit[k] \in Nat
    BY LimiterAssumption DEF WindowInv, WindowAt, Covers
  <2> QED
    BY <2>1
<1> QED
  BY LimiterInvariance, <1>1, PTL

\* Property RetryAfterHonest: a client that waits as long as the 429 says finds
\* room, and one that asks more than a second earlier does not.
THEOREM RetryAlwaysHonest ==
    LimiterSpec => []RetryAfterHonest
<1>1. LimiterInv => RetryAfterHonest
  <2> SUFFICES ASSUME LimiterInv, refusal.key # "none"
               PROVE  /\ refusal.left = 0 => ~ Full(refusal.key)
                      /\ refusal.left > Unit => Full(refusal.key)
    BY DEF RetryAfterHonest
  <2> DEFINE k == refusal.key
             s == stamps[k]
             y == Young(s)
  <2>1. /\ k \in Keys /\ RefusedAt(k) /\ refusal.left \in 0..(Window + Unit)
        /\ Window \in Nat /\ Unit \in Nat /\ Limit[k] \in Nat \ {0}
    BY LimiterAssumption DEF LimiterInv, RefusalInv
  <2>2. s \in Seq(0..Window) /\ Sorted(s) /\ Len(s) = Limit[k]
    BY <2>1 DEF LimiterInv, WindowInv, WindowAt, RefusedAt
  <2>3. PICK e \in 0..Len(s) :
           /\ Len(y) = Len(s) - e
           /\ \A i \in 1..e : s[i] = Window
           /\ \A i \in (e + 1)..Len(s) : s[i] < Window
    BY <2>1, <2>2, Pruned
  <2>4. 1 \in 1..Len(s) /\ s[1] \in 0..Window
    <3>1. Len(s) >= 1
      BY <2>1, <2>2
    <3> HIDE DEF s
    <3> QED
      BY <2>2, <3>1, First
  <2>5. /\ refusal.left <= Window - s[1] + Unit
        /\ s[1] < Window => Window - s[1] < refusal.left
    BY <2>1 DEF RefusedAt
  <2>6. Full(k) <=> Len(y) >= Limit[k]
    BY DEF Full
  <2> HIDE DEF k, s, y
  <2>7. ASSUME refusal.left = 0 PROVE ~ Full(k)
    <3>1. s[1] = Window
      BY <2>1, <2>4, <2>5, <2>7
    <3>2. e # 0
      <4> SUFFICES ASSUME e = 0 PROVE FALSE
        OBVIOUS
      <4>1. 1 \in (e + 1)..Len(s)
        BY <2>4
      <4>2. s[1] < Window
        BY <2>3, <4>1
      <4> QED
        BY <2>1, <3>1, <4>2
    <3> QED
      BY <2>1, <2>2, <2>3, <2>6, <3>2
  <2>8. ASSUME refusal.left > Unit PROVE Full(k)
    <3>1. s[1] # Window
      BY <2>1, <2>4, <2>5, <2>8
    <3>2. e = 0
      <4> SUFFICES ASSUME e # 0 PROVE FALSE
        OBVIOUS
      <4>1. 1 \in 1..e
        BY <2>2
      <4> QED
        BY <2>3, <3>1, <4>1
    <3> QED
      BY <2>1, <2>2, <2>3, <2>6, <3>2
  <2> QED
    BY <2>7, <2>8 DEF k
<1> QED
  BY LimiterInvariance, <1>1, PTL

\* Property LastPaysForServed: the window that dispatch checks last holds the
\* stamps of the requests that were let through, and of no others.
THEOREM LastAlwaysPaysForServed ==
    LimiterSpec => []LastPaysForServed
<1>1. LimiterInv => LastPaysForServed
  BY DEF LimiterInv
<1> QED
  BY LimiterInvariance, <1>1, PTL

\* Property TypeOK of the limiter: windows, rows counts and Retry-After are
\* within their bounds.
THEOREM LimiterTypeCorrect == LimiterSpec => []LimiterTypeOK
<1>1. LimiterInv => LimiterTypeOK
  <2> SUFFICES ASSUME LimiterInv PROVE LimiterTypeOK
    OBVIOUS
  <2>0. /\ Window \in Nat \ {0} /\ Unit \in Nat \ {0} /\ Limit \in [Keys -> Nat \ {0}]
    BY LimiterAssumption
  <2>1. ASSUME NEW k \in Keys PROVE stamps[k] \in BoundedSeq(0..Window, Limit[k])
    <3> DEFINE s == stamps[k]
               n == Len(s)
               W == 0..Window
    <3>1. s \in Seq(W) /\ n <= Limit[k] /\ n \in Nat
      BY DEF LimiterInv, WindowInv, WindowAt
    <3> HIDE DEF s, W
    <3>2. s \in [1..n -> W]
      BY <3>1
    <3>3. n \in 0..Limit[k]
      BY <2>0, <3>1
    <3> HIDE DEF n
    <3>4. s \in UNION {[1..m -> W] : m \in 0..Limit[k]}
      BY <3>2, <3>3
    <3> QED
      BY <3>4, Zenon DEF s, W, BoundedSeq, SeqOf
  <2>2. refusal.key \in Keys \cup {"none"} /\ refusal.left \in 0..(Window + Unit)
    BY DEF LimiterInv, RefusalInv
  <2>3. ASSUME NEW k \in Keys PROVE rows[k] \in [Ages -> 0..Limit[k]]
    <3>1. rows[k] \in [Ages -> Nat] /\ \A a \in Ages : rows[k][a] <= Limit[k]
      BY DEF LimiterInv, FlushInv
    <3>2. \A a \in Ages : rows[k][a] \in 0..Limit[k]
      BY <2>0, <3>1
    <3> QED
      BY <3>1, <3>2
  <2> QED
    BY <2>1, <2>2, <2>3 DEF LimiterTypeOK, LimiterInv, FlushInv
<1> QED
  BY LimiterInvariance, <1>1, PTL

\* Property StoredCountsGrow: _flush_to_db replaces a window's row by a count that is
\* not smaller, as long as the flushes are stored in the order they were begun.
THEOREM StoredAlwaysGrow == LimiterSpec => StoredCountsGrow
<1>1. ASSUME LimiterInv, NEW i \in DOMAIN flush, StoreFlush(i), ~crossed,
             NEW k \in Keys, NEW a \in Ages
      PROVE  rows'[k][a] >= rows[k][a]
  <2> DEFINE w == flush[i][k]
  <2>1. /\ i \in 1..Len(flush) /\ rows[k] \in [Ages -> Nat] /\ rows[k][a] \in Nat
        /\ w.count \in Nat
    BY <1>1, CountTypes DEF LimiterInv, FlushInv
  <2>2. rows'[k] = IF w.start = Window THEN rows[k]
                   ELSE [rows[k] EXCEPT ![w.start] = w.count]
    BY <1>1 DEF StoreFlush
  <2>3. a = w.start => rows[k][a] <= w.count
    BY <1>1, <2>1 DEF LimiterInv, CountInv, CountAt, Open
  <2> HIDE DEF w
  <2> QED
    BY <2>1, <2>2, <2>3
<1>2. LimiterInv /\ [LimiterNext]_limiterVars =>
          [\A i \in DOMAIN flush : StoreFlush(i) /\ ~crossed =>
              \A k \in Keys, a \in Ages : rows'[k][a] >= rows[k][a]]_limiterVars
  BY <1>1
<1> QED
  BY LimiterInvariance, <1>2, PTL DEF LimiterSpec, StoredCountsGrow
=============================================================================
