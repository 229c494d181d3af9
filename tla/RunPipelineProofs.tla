-------------------------- MODULE RunPipelineProofs --------------------------
(***************************************************************************)
(* Proofs about RunPipeline, for every set of requests, problems and users, *)
(* for every number of faults, and whether or not acknowledgements may be   *)
(* lost.                                                                    *)
(***************************************************************************)
EXTENDS RunPipeline, FiniteSetTheorems, TLAPS

-----------------------------------------------------------------------------
(* The inductive invariant *)

\* How the request of r, its row and its task go together.
RequestInv(r) ==
    /\ req[r] = "idle" => seen[r] = {}
    /\ req[r] \in ReqPC \ {"spawn", "accepted", "error"} => status[r] = "absent"
    /\ req[r] \in {"spawn", "accepted"} => status[r] # "absent"
    /\ task[r] # "none" <=> req[r] = "accepted"
    /\ req[r] = "error" => hits[r] > 0
    /\ r \in usage <=> status[r] # "absent"
    /\ r \in promptFlags => req[r] = "blocked"

\* How the task of r and its row go together.
TaskInv(r) ==
    /\ task[r] \in {"none", "fetch", "start"} => status[r] \in {"absent", "pending"}
    /\ task[r] \in {"configs", "agents", "verdict"} => status[r] = "running"
    /\ task[r] \in {"rescue", "mark"} => status[r] # "failed"
    /\ task[r] = "flag" => status[r] = "failed"
    /\ task[r] = "over" => Settled(r) \/ hits[r] > 0
    /\ r \in runFlags => task[r] = "over" /\ status[r] = "failed"

\* What the task's session holds and what its commits have stored.
OutputInv(r) ==
    /\ task[r] \in {"none", "fetch", "start", "configs"} => replies[r] = 0
    /\ task[r] = "agents" => replies[r] < NAgents
    /\ task[r] = "verdict" => replies[r] = NAgents
    /\ outputs[r] \in {0, NAgents}
    /\ decided[r] <=> outputs[r] = NAgents
    /\ status[r] = "done" => decided[r]
    /\ decided[r] => status[r] \in {"done", "failed"}
    /\ decided[r] /\ ~ LostAcks => status[r] = "done" /\ task[r] = "over"

\* What a request counted: stored runs of its problem, and with each of them
\* the runs which that one had counted.
SeenInv(r) ==
    /\ r \notin seen[r]
    /\ \A x \in seen[r] : /\ status[x] # "absent"
                          /\ on[x] = on[r]
                          /\ seen[x] \subseteq seen[r]
    /\ status[r] # "absent" \/ seen[r] # {} \/ req[r] = "insert" =>
          version[r] = Cardinality(seen[r]) + 1

IInv == /\ TypeOK
        /\ \A r \in Runs : RequestInv(r) /\ TaskInv(r) /\ OutputInv(r)
        /\ \A r \in Runs : SeenInv(r)
-----------------------------------------------------------------------------
(* In every proof below, the tuples of variables and the operators that     *)
(* abbreviate a part of an action are expanded.                             *)

USE DEF problemVars, runVars, noteVars, requestVars, taskVars, ReqStep,
        TaskStep, SetStatus, Hit, ReqCommit, TaskCommit, OthersIdle, RowsKept,
        OnlyStatus

\* A set of runs has a size.
LEMMA RunsCounted ==
    ASSUME NEW S \in SUBSET Runs
    PROVE  IsFiniteSet(S) /\ Cardinality(S) \in Nat
BY RunsAssumption, FS_Subset, FS_CardinalityType

\* Every step of the specification keeps the types.
LEMMA TypeStep == IInv /\ [Next]_vars => TypeOK'
<1> SUFFICES ASSUME IInv, [Next]_vars PROVE TypeOK'
  OBVIOUS
<1> USE OwnerAssumption
    DEF IInv, TypeOK, OutputInv, ReqPC, ReqLive, ReqOver, TaskPC, TaskLive,
        Status, NAgents
<1>1. CASE UNCHANGED vars
  BY <1>1 DEF vars
<1>2. CASE \E p \in Problems : UpdateVisibility(p)
  BY <1>2 DEF UpdateVisibility
<1>3. CASE \E p \in Problems : DeleteProblem(p)
  BY <1>3 DEF DeleteProblem, Delete
<1>4. CASE \E u \in Users : DeleteMemberData(u)
  BY <1>4 DEF DeleteMemberData, Delete
<1>5. CASE \E r \in Runs, u \in Users, p \in Problems : TriggerRun(r, u, p)
  BY <1>5 DEF TriggerRun
<1>6. CASE \E r \in Runs : Classify(r)
  BY <1>6 DEF Classify
<1>7. CASE \E r \in Runs : ReportPrompt(r)
  BY <1>7 DEF ReportPrompt, Report
<1>8. CASE \E r \in Runs : CountRuns(r)
  <2> SUFFICES ASSUME NEW r \in Runs, CountRuns(r) PROVE TypeOK'
    BY <1>8
  <2>1. Committed(on[r]) \in SUBSET Runs
    BY DEF Committed
  <2>2. Cardinality(Committed(on[r])) \in Nat
    BY <2>1, RunsCounted
  <2> QED
    BY <2>1, <2>2 DEF CountRuns, Number
<1>9. CASE \E r \in Runs : CommitRun(r)
  BY <1>9 DEF CommitRun
<1>10. CASE \E r \in Runs : SpawnTask(r)
  BY <1>10 DEF SpawnTask, Spawn
<1>11. CASE \E r \in Runs : RequestFault(r)
  BY <1>11 DEF RequestFault
<1>12. CASE \E r \in Runs : FetchRun(r)
  BY <1>12 DEF FetchRun
<1>13. CASE \E r \in Runs : StartRun(r)
  BY <1>13 DEF StartRun
<1>14. CASE \E r \in Runs : LoadConfigs(r)
  BY <1>14 DEF LoadConfigs
<1>15. CASE \E r \in Runs : AgentReplies(r)
  BY <1>15 DEF AgentReplies, Reply
<1>16. CASE \E r \in Runs : AgentFails(r)
  BY <1>16 DEF AgentFails
<1>17. CASE \E r \in Runs : CommitVerdict(r)
  <2> SUFFICES ASSUME NEW r \in Runs, CommitVerdict(r) PROVE TypeOK'
    BY <1>17
  <2>1. outputs[r] = 0 /\ replies[r] = NAgents
    BY DEF CommitVerdict, StoreVerdict, TaskInv
  <2> QED
    BY <2>1 DEF CommitVerdict, StoreVerdict
<1>18. CASE \E r \in Runs : TaskFault(r)
  BY <1>18 DEF TaskFault
<1>19. CASE \E r \in Runs : RescueRun(r)
  BY <1>19 DEF RescueRun, Rescue
<1>20. CASE \E r \in Runs : MarkFailed(r)
  BY <1>20 DEF MarkFailed
<1>21. CASE \E r \in Runs : RescueFault(r)
  BY <1>21 DEF RescueFault
<1>22. CASE \E r \in Runs : FlagRun(r)
  BY <1>22 DEF FlagRun
<1>23. CASE \E S \in SUBSET Runs : Crash(S)
  <2> SUFFICES ASSUME NEW S \in SUBSET Runs, Crash(S) PROVE TypeOK'
    BY <1>23
  <2>1. UNCHANGED <<problemVars, runVars, noteVars, on, seen>>
    BY DEF Crash
  <2>2. hits' \in [Runs -> Nat] /\ replies' \in [Runs -> 0..NAgents]
    BY DEF Crash
  <2>3. req' \in [Runs -> ReqPC]
    BY DEF Crash
  <2>4. task' \in [Runs -> TaskPC]
    BY DEF Crash
  <2> QED
    BY <2>1, <2>2, <2>3, <2>4
<1> QED
  BY <1>1, <1>2, <1>3, <1>4, <1>5, <1>6, <1>7, <1>8, <1>9, <1>10,
     <1>11, <1>12, <1>13, <1>14, <1>15, <1>16, <1>17, <1>18, <1>19,
     <1>20, <1>21, <1>22, <1>23
     DEF Next, RequestStep, ExecuteStep

\* Every step keeps each run's request, row, task and outputs in agreement.
LEMMA RunStep ==
    IInv /\ [Next]_vars =>
        \A x \in Runs : (RequestInv(x) /\ TaskInv(x) /\ OutputInv(x))'
<1> SUFFICES ASSUME IInv, [Next]_vars, NEW x \in Runs
             PROVE  (RequestInv(x) /\ TaskInv(x) /\ OutputInv(x))'
  OBVIOUS
<1> USE LostAcksAssumption
    DEF IInv, TypeOK, RequestInv, TaskInv, OutputInv, ReqPC, ReqLive, ReqOver,
        TaskPC, TaskLive, Status, NAgents, Settled
<1>1. CASE UNCHANGED vars
  BY <1>1 DEF vars
<1>2. CASE \E p \in Problems : UpdateVisibility(p)
  BY <1>2 DEF UpdateVisibility
<1>3. CASE \E p \in Problems : DeleteProblem(p)
  BY <1>3 DEF DeleteProblem, Delete
<1>4. CASE \E u \in Users : DeleteMemberData(u)
  BY <1>4 DEF DeleteMemberData, Delete
<1>5. CASE \E r \in Runs, u \in Users, p \in Problems : TriggerRun(r, u, p)
  BY <1>5 DEF TriggerRun
<1>6. CASE \E r \in Runs : Classify(r)
  BY <1>6 DEF Classify
<1>7. CASE \E r \in Runs : ReportPrompt(r)
  BY <1>7 DEF ReportPrompt, Report
<1>8. CASE \E r \in Runs : CountRuns(r)
  BY <1>8 DEF CountRuns, Number
<1>9. CASE \E r \in Runs : CommitRun(r)
  BY <1>9 DEF CommitRun
<1>10. CASE \E r \in Runs : SpawnTask(r)
  BY <1>10 DEF SpawnTask, Spawn
<1>11. CASE \E r \in Runs : RequestFault(r)
  BY <1>11 DEF RequestFault
<1>12. CASE \E r \in Runs : FetchRun(r)
  BY <1>12 DEF FetchRun
<1>13. CASE \E r \in Runs : StartRun(r)
  BY <1>13 DEF StartRun
<1>14. CASE \E r \in Runs : LoadConfigs(r)
  BY <1>14 DEF LoadConfigs
<1>15. CASE \E r \in Runs : AgentReplies(r)
  BY <1>15 DEF AgentReplies, Reply
<1>16. CASE \E r \in Runs : AgentFails(r)
  BY <1>16 DEF AgentFails
<1>17. CASE \E r \in Runs : CommitVerdict(r)
  BY <1>17 DEF CommitVerdict, StoreVerdict
<1>18. CASE \E r \in Runs : TaskFault(r)
  BY <1>18 DEF TaskFault
<1>19. CASE \E r \in Runs : RescueRun(r)
  BY <1>19 DEF RescueRun, Rescue
<1>20. CASE \E r \in Runs : MarkFailed(r)
  BY <1>20 DEF MarkFailed
<1>21. CASE \E r \in Runs : RescueFault(r)
  BY <1>21 DEF RescueFault
<1>22. CASE \E r \in Runs : FlagRun(r)
  BY <1>22 DEF FlagRun
<1>23. CASE \E S \in SUBSET Runs : Crash(S)
  <2> SUFFICES ASSUME NEW S \in SUBSET Runs, Crash(S)
               PROVE  (RequestInv(x) /\ TaskInv(x) /\ OutputInv(x))'
    BY <1>23
  <2>1. UNCHANGED <<problemVars, runVars, noteVars, on, seen>>
    BY DEF Crash
  <2>2. CASE x \in S
    <3>1. hits'[x] > 0 /\ replies'[x] = 0
      BY <2>2 DEF Crash
    <3>2. req'[x] = IF req[x] \in ReqLive THEN "error" ELSE req[x]
      BY <2>2 DEF Crash
    <3>3. task'[x] = IF task[x] \in TaskLive THEN "over" ELSE task[x]
      BY <2>2 DEF Crash
    <3>4. \/ req[x] \in ReqLive
          \/ task[x] \in TaskLive
      BY <2>2 DEF Crash, Carried
    <3> QED
      BY <2>1, <3>1, <3>2, <3>3, <3>4
  <2>3. CASE x \notin S
    <3>1. /\ hits'[x] = hits[x] /\ req'[x] = req[x]
          /\ task'[x] = task[x] /\ replies'[x] = replies[x]
      BY <2>3 DEF Crash
    <3> QED
      BY <2>1, <3>1
  <2> QED
    BY <2>2, <2>3
<1> QED
  BY <1>1, <1>2, <1>3, <1>4, <1>5, <1>6, <1>7, <1>8, <1>9, <1>10,
     <1>11, <1>12, <1>13, <1>14, <1>15, <1>16, <1>17, <1>18, <1>19,
     <1>20, <1>21, <1>22, <1>23
     DEF Next, RequestStep, ExecuteStep
\* A step that numbers no version and admits no request keeps SeenInv.
LEMMA SeenKept ==
    ASSUME IInv, UNCHANGED <<on, seen, version>>,
           \A r \in Runs : status[r] # "absent" => status'[r] # "absent",
           \A r \in Runs : status'[r] # "absent" \/ req'[r] = "insert" =>
               status[r] # "absent" \/ req[r] = "insert"
    PROVE  \A x \in Runs : SeenInv(x)'
BY DEF IInv, TypeOK, SeenInv

\* Every step keeps the counted sets nested and the numbers equal to them.
LEMMA SeenStep == IInv /\ [Next]_vars => \A x \in Runs : SeenInv(x)'
<1> SUFFICES ASSUME IInv, [Next]_vars PROVE \A x \in Runs : SeenInv(x)'
  OBVIOUS
<1>1. CASE \E r \in Runs, u \in Users, p \in Problems : TriggerRun(r, u, p)
  <2> SUFFICES ASSUME NEW r \in Runs, NEW u \in Users, NEW p \in Problems,
                      TriggerRun(r, u, p), NEW x \in Runs
               PROVE  SeenInv(x)'
    BY <1>1
  <2>1. seen[r] = {} /\ status[r] = "absent" /\ SeenInv(x) /\ SeenInv(r)
    BY DEF TriggerRun, IInv, RequestInv, TypeOK, ReqPC
  <2> QED
    BY <2>1 DEF TriggerRun, SeenInv, IInv, TypeOK
<1>2. CASE \E r \in Runs : CountRuns(r)
  <2> SUFFICES ASSUME NEW r \in Runs, CountRuns(r), NEW x \in Runs
               PROVE  SeenInv(x)'
    BY <1>2
  <2>1. status[r] = "absent"
    BY DEF CountRuns, Number, IInv, RequestInv, ReqPC, ReqLive
  <2>2. r \notin seen[x]
    BY <2>1 DEF IInv, SeenInv
  <2>3. /\ seen'[r] = Committed(on[r])
        /\ version'[r] = Cardinality(Committed(on[r])) + 1
    BY DEF CountRuns, Number, IInv, TypeOK
  <2>4. \A y \in Committed(on[r]) : /\ y \in Runs /\ y # r
                                    /\ status[y] # "absent" /\ on[y] = on[r]
                                    /\ seen[y] \subseteq Committed(on[r])
    BY <2>1 DEF Committed, IInv, SeenInv, TypeOK
  <2>5. CASE x = r
    BY <2>1, <2>3, <2>4, <2>5 DEF CountRuns, Number, SeenInv, IInv, TypeOK
  <2>6. CASE x # r
    BY <2>2, <2>6 DEF CountRuns, Number, SeenInv, IInv, TypeOK
  <2> QED
    BY <2>5, <2>6
<1>3. CASE /\ ~ \E r \in Runs : CountRuns(r)
           /\ ~ \E r \in Runs, u \in Users, p \in Problems : TriggerRun(r, u, p)
  <2>1. UNCHANGED <<on, seen, version>>
    BY <1>3 DEF Next, RequestStep, ExecuteStep, vars, UpdateVisibility,
       DeleteProblem, DeleteMemberData, Delete, Classify, ReportPrompt, Report,
       CommitRun, SpawnTask, Spawn,
       RequestFault, FetchRun, StartRun, LoadConfigs,
       AgentReplies, Reply, AgentFails, CommitVerdict,
       StoreVerdict, TaskFault, RescueRun, Rescue, MarkFailed,
       RescueFault, FlagRun, Crash
  <2>2. \A r \in Runs : status[r] # "absent" => status'[r] # "absent"
    BY <1>3 DEF IInv, TypeOK, Next, RequestStep, ExecuteStep, vars,
       UpdateVisibility, DeleteProblem, DeleteMemberData, Delete, Classify,
       ReportPrompt, Report, CommitRun, SpawnTask, Spawn,
       RequestFault, FetchRun, StartRun, LoadConfigs,
       AgentReplies, Reply, AgentFails, CommitVerdict,
       StoreVerdict, TaskFault, RescueRun, Rescue, MarkFailed,
       RescueFault, FlagRun, Crash
  <2>3. \A r \in Runs : status'[r] # "absent" \/ req'[r] = "insert" =>
            status[r] # "absent" \/ req[r] = "insert"
    BY <1>3 DEF IInv, TypeOK, RequestInv, TaskInv, Next, RequestStep, ExecuteStep, vars,
       UpdateVisibility, DeleteProblem, DeleteMemberData, Delete, Classify,
       ReportPrompt, Report, CommitRun, SpawnTask, Spawn,
       RequestFault, FetchRun, StartRun, LoadConfigs,
       AgentReplies, Reply, AgentFails, CommitVerdict,
       StoreVerdict, TaskFault, RescueRun, Rescue, MarkFailed,
       RescueFault, FlagRun, Crash, ReqPC
  <2> QED
    BY <2>1, <2>2, <2>3, SeenKept
<1> QED
  BY <1>1, <1>2, <1>3

\* The invariant holds at the start.
LEMMA InitInv == Init => IInv
<1> SUFFICES ASSUME Init PROVE IInv
  OBVIOUS
<1>1. TypeOK
  BY DEF Init, TypeOK, ReqPC, TaskPC, Status, NAgents
<1>2. ASSUME NEW r \in Runs
      PROVE  RequestInv(r) /\ TaskInv(r) /\ OutputInv(r) /\ SeenInv(r)
  BY DEF Init, RequestInv, TaskInv, OutputInv, SeenInv, NAgents, ReqPC,
         ReqLive, ReqOver
<1> QED
  BY <1>1, <1>2 DEF IInv

-----------------------------------------------------------------------------
(* Theorems *)

\* Everything below rests on this: in every reachable state the request, the
\* row, the task, its session and the counted sets agree as IInv says.
THEOREM Invariance == Spec => []IInv
<1>1. Init => IInv
  BY InitInv
<1>2. IInv /\ [Next]_vars => IInv'
  BY TypeStep, RunStep, SeenStep DEF IInv
<1> QED
  BY <1>1, <1>2, PTL DEF Spec

\* Every variable keeps its type; in particular no run has more than the
\* outputs of the four agents.
THEOREM TypeCorrect == Spec => []TypeOK
<1>1. IInv => TypeOK
  BY DEF IInv
<1> QED
  BY <1>1, Invariance, PTL

\* The decision, its outputs and "done" are stored together (the commit that
\* ends the try block of _execute_run).
THEOREM VerdictIsAtomic == Spec => []VerdictAtomic
<1>1. IInv => VerdictAtomic
  BY LostAcksAssumption DEF IInv, OutputInv, VerdictAtomic
<1> QED
  BY <1>1, Invariance, PTL

\* The task finds its row (the docstring of _execute_run).
THEOREM TaskAlwaysFindsRow == Spec => []TaskFindsRow
<1>1. IInv => TaskFindsRow
  BY DEF IInv, TaskFindsRow, RequestInv, TaskInv
<1> QED
  BY <1>1, Invariance, PTL

\* Version numbers grow along the order in which runs could see one another
\* (the count in create_run): the sets that were counted are nested, hence
\* their sizes ordered.
THEOREM VersionsAlwaysIncrease == Spec => []VersionsIncrease
<1>1. ASSUME IInv PROVE VersionsIncrease
  <2> SUFFICES ASSUME NEW r \in Runs, NEW q \in Runs, r \in seen[q]
               PROVE  version[r] < version[q]
    BY DEF VersionsIncrease
  <2>1. /\ status[r] # "absent"
        /\ seen[r] \subseteq seen[q] /\ r \notin seen[r]
        /\ seen[r] \in SUBSET Runs /\ seen[q] \in SUBSET Runs
    BY <1>1 DEF IInv, TypeOK, SeenInv
  <2>2. /\ version[r] = Cardinality(seen[r]) + 1
        /\ version[q] = Cardinality(seen[q]) + 1
    BY <1>1, <2>1 DEF IInv, SeenInv
  <2>3. IsFiniteSet(seen[q])
    BY <2>1, RunsCounted
  <2>4. seen[r] # seen[q]
    BY <2>1
  <2>5. Cardinality(seen[r]) < Cardinality(seen[q])
    BY <2>1, <2>3, <2>4, FS_Subset, RunsCounted
  <2> QED
    BY <2>1, <2>2, <2>5, RunsCounted
<1> QED
  BY <1>1, Invariance, PTL

\* What callers are told agrees with what is stored (create_run's answers).
THEOREM AnswersAlwaysMatchRows == Spec => []AnswersMatchRows
<1>1. ASSUME IInv PROVE AnswersMatchRows
  <2>1. \A r \in Runs : RequestInv(r) /\ req[r] \in ReqPC
    BY <1>1 DEF IInv, TypeOK
  <2>2. usage \subseteq Runs /\ promptFlags \subseteq Runs
    BY <1>1 DEF IInv, TypeOK
  <2> QED
    BY <2>1, <2>2 DEF RequestInv, AnswersMatchRows, ReqPC, ReqOver
<1> QED
  BY <1>1, Invariance, PTL

\* A flagged run has failed (the order of the except block).
THEOREM FlagAlwaysMeansFailed == Spec => []FlagMeansFailed
<1>1. IInv => FlagMeansFailed
  BY DEF IInv, TypeOK, FlagMeansFailed, TaskInv
<1> QED
  BY <1>1, Invariance, PTL

\* Only a fault or a process death leaves a run unsettled with nobody at work
\* on it.
THEOREM NoOrphans == Spec => []NoOrphanWithoutHit
<1>1. ASSUME IInv PROVE NoOrphanWithoutHit
  <2> SUFFICES ASSUME NEW r \in Runs, Unsettled(r), ~ Carried(r)
               PROVE  hits[r] > 0
    BY DEF NoOrphanWithoutHit
  <2>1. RequestInv(r) /\ TaskInv(r) /\ req[r] \in ReqPC /\ task[r] \in TaskPC
    BY <1>1 DEF IInv, TypeOK
  <2>2. status[r] # "absent" /\ ~ Settled(r)
    BY DEF Unsettled, Settled
  <2>3. req[r] \in {"accepted", "error"}
    BY <2>1, <2>2 DEF RequestInv, Carried, ReqPC, ReqOver, ReqLive
  <2>4. req[r] = "accepted" => task[r] = "over"
    BY <2>1 DEF RequestInv, Carried, TaskPC
  <2> QED
    BY <2>1, <2>2, <2>3, <2>4 DEF RequestInv, TaskInv
<1> QED
  BY <1>1, Invariance, PTL

\* No action but TriggerRun brings work to a problem.
LEMMA WorkComesByTrigger ==
    ASSUME IInv, [Next]_vars, NEW x \in Runs, Carried(x)',
           ~ \E r \in Runs, u \in Users, p \in Problems : TriggerRun(r, u, p)
    PROVE  on'[x] = on[x] /\ Carried(x)
<1> USE DEF Carried, IInv, TypeOK, ReqLive, TaskLive
<1>1. CASE UNCHANGED vars
  BY <1>1 DEF vars
<1>2. CASE \E p \in Problems : UpdateVisibility(p)
  BY <1>2 DEF UpdateVisibility
<1>3. CASE \E p \in Problems : DeleteProblem(p)
  BY <1>3 DEF DeleteProblem, Delete
<1>4. CASE \E u \in Users : DeleteMemberData(u)
  BY <1>4 DEF DeleteMemberData, Delete
<1>5. CASE \E r \in Runs, u \in Users, p \in Problems : TriggerRun(r, u, p)
  BY <1>5 DEF TriggerRun
<1>6. CASE \E r \in Runs : Classify(r)
  BY <1>6 DEF Classify
<1>7. CASE \E r \in Runs : ReportPrompt(r)
  BY <1>7 DEF ReportPrompt, Report
<1>8. CASE \E r \in Runs : CountRuns(r)
  BY <1>8 DEF CountRuns, Number
<1>9. CASE \E r \in Runs : CommitRun(r)
  BY <1>9 DEF CommitRun
<1>10. CASE \E r \in Runs : SpawnTask(r)
  BY <1>10 DEF SpawnTask, Spawn, RequestInv
<1>11. CASE \E r \in Runs : RequestFault(r)
  BY <1>11 DEF RequestFault
<1>12. CASE \E r \in Runs : FetchRun(r)
  BY <1>12 DEF FetchRun
<1>13. CASE \E r \in Runs : StartRun(r)
  BY <1>13 DEF StartRun
<1>14. CASE \E r \in Runs : LoadConfigs(r)
  BY <1>14 DEF LoadConfigs
<1>15. CASE \E r \in Runs : AgentReplies(r)
  BY <1>15 DEF AgentReplies, Reply
<1>16. CASE \E r \in Runs : AgentFails(r)
  BY <1>16 DEF AgentFails
<1>17. CASE \E r \in Runs : CommitVerdict(r)
  BY <1>17 DEF CommitVerdict, StoreVerdict
<1>18. CASE \E r \in Runs : TaskFault(r)
  BY <1>18 DEF TaskFault
<1>19. CASE \E r \in Runs : RescueRun(r)
  BY <1>19 DEF RescueRun, Rescue
<1>20. CASE \E r \in Runs : MarkFailed(r)
  BY <1>20 DEF MarkFailed
<1>21. CASE \E r \in Runs : RescueFault(r)
  BY <1>21 DEF RescueFault
<1>22. CASE \E r \in Runs : FlagRun(r)
  BY <1>22 DEF FlagRun
<1>23. CASE \E S \in SUBSET Runs : Crash(S)
  BY <1>23 DEF Crash
<1> QED
  BY <1>1, <1>2, <1>3, <1>4, <1>5, <1>6, <1>7, <1>8, <1>9, <1>10,
     <1>11, <1>12, <1>13, <1>14, <1>15, <1>16, <1>17, <1>18, <1>19,
     <1>20, <1>21, <1>22, <1>23
     DEF Next, RequestStep, ExecuteStep

\* Work on a deleted problem only decreases (create_run looks the problem up
\* before anything else, and nobody takes up a run a second time).
THEOREM DeletedNeverGetsWork == Spec => DeletedGetsNoWork
<1>1. ASSUME IInv, [Next]_vars, NEW p \in deleted
      PROVE  InFlight(p)' \subseteq InFlight(p)
  <2> SUFFICES ASSUME NEW x \in Runs, on'[x] = p, Carried(x)'
               PROVE  on[x] = p /\ Carried(x)
    BY DEF InFlight
  <2>1. CASE \E r \in Runs, u \in Users, q \in Problems : TriggerRun(r, u, q)
    <3>1. PICK r \in Runs, u \in Users, q \in Problems : TriggerRun(r, u, q)
      BY <2>1
    <3>2. CASE x = r
      <4>1. q = p /\ req'[x] = "refused"
        BY <1>1, <3>1, <3>2 DEF TriggerRun, Readable, IInv, TypeOK
      <4>2. task'[x] = "none"
        BY <1>1, <3>1, <3>2 DEF TriggerRun, IInv, RequestInv
      <4> QED
        BY <4>1, <4>2 DEF Carried, ReqLive, TaskLive
    <3>3. CASE x # r
      BY <1>1, <3>1, <3>3 DEF TriggerRun, Carried, IInv, TypeOK
    <3> QED
      BY <3>2, <3>3
  <2>2. CASE ~ \E r \in Runs, u \in Users, q \in Problems : TriggerRun(r, u, q)
    BY <1>1, <2>2, WorkComesByTrigger
  <2> QED
    BY <2>1, <2>2
<1>2. IInv /\ [Next]_vars =>
          [\A p \in deleted : InFlight(p)' \subseteq InFlight(p)]_vars
  BY <1>1
<1> QED
  BY <1>2, Invariance, PTL DEF Spec, DeletedGetsNoWork

-----------------------------------------------------------------------------
(* The pipeline implements RunLifecycle *)

\* Every step is a step of the lifecycle or leaves it alone.
LEMMA LifecycleStep == IInv /\ [Next]_vars => [Lifecycle!Next]_(Lifecycle!vars)
<1> SUFFICES ASSUME IInv, [Next]_vars PROVE [Lifecycle!Next]_(Lifecycle!vars)
  OBVIOUS
<1> USE DEF IInv, TypeOK, RequestInv, TaskInv, OutputInv, Status, Lifecycle!Next, Lifecycle!vars,
        Lifecycle!Accept, Lifecycle!Begin, Lifecycle!Finish, Lifecycle!Fail,
        Lifecycle!Retract, Lifecycle!Move, NAgents
<1>1. CASE UNCHANGED vars
  BY <1>1 DEF vars
<1>2. CASE \E p \in Problems : UpdateVisibility(p)
  BY <1>2 DEF UpdateVisibility
<1>3. CASE \E p \in Problems : DeleteProblem(p)
  BY <1>3 DEF DeleteProblem, Delete
<1>4. CASE \E u \in Users : DeleteMemberData(u)
  BY <1>4 DEF DeleteMemberData, Delete
<1>5. CASE \E r \in Runs, u \in Users, p \in Problems : TriggerRun(r, u, p)
  BY <1>5 DEF TriggerRun
<1>6. CASE \E r \in Runs : Classify(r)
  BY <1>6 DEF Classify
<1>7. CASE \E r \in Runs : ReportPrompt(r)
  BY <1>7 DEF ReportPrompt, Report
<1>8. CASE \E r \in Runs : CountRuns(r)
  BY <1>8 DEF CountRuns, Number
<1>9. CASE \E r \in Runs : CommitRun(r)
  BY <1>9 DEF CommitRun
<1>10. CASE \E r \in Runs : SpawnTask(r)
  BY <1>10 DEF SpawnTask, Spawn
<1>11. CASE \E r \in Runs : RequestFault(r)
  BY <1>11 DEF RequestFault
<1>12. CASE \E r \in Runs : FetchRun(r)
  BY <1>12 DEF FetchRun
<1>13. CASE \E r \in Runs : StartRun(r)
  BY <1>13 DEF StartRun
<1>14. CASE \E r \in Runs : LoadConfigs(r)
  BY <1>14 DEF LoadConfigs
<1>15. CASE \E r \in Runs : AgentReplies(r)
  BY <1>15 DEF AgentReplies, Reply
<1>16. CASE \E r \in Runs : AgentFails(r)
  BY <1>16 DEF AgentFails
<1>17. CASE \E r \in Runs : CommitVerdict(r)
  BY <1>17 DEF CommitVerdict, StoreVerdict
<1>18. CASE \E r \in Runs : TaskFault(r)
  BY <1>18 DEF TaskFault
<1>19. CASE \E r \in Runs : RescueRun(r)
  BY <1>19 DEF RescueRun, Rescue
<1>20. CASE \E r \in Runs : MarkFailed(r)
  BY <1>20 DEF MarkFailed
<1>21. CASE \E r \in Runs : RescueFault(r)
  BY <1>21 DEF RescueFault
<1>22. CASE \E r \in Runs : FlagRun(r)
  BY <1>22 DEF FlagRun
<1>23. CASE \E S \in SUBSET Runs : Crash(S)
  BY <1>23 DEF Crash
<1> QED
  BY <1>1, <1>2, <1>3, <1>4, <1>5, <1>6, <1>7, <1>8, <1>9, <1>10,
     <1>11, <1>12, <1>13, <1>14, <1>15, <1>16, <1>17, <1>18, <1>19,
     <1>20, <1>21, <1>22, <1>23
     DEF Next, RequestStep, ExecuteStep

\* Pollers see each run live as RunLifecycle says: forward only, with the
\* decision together with "done" (create_run and _execute_run).
THEOREM PipelineImplementsLifecycle == Spec => ImplementsLifecycle
<1>1. Init => Lifecycle!Init
  BY DEF Init, Lifecycle!Init
<1>2. IInv /\ [Next]_vars => [Lifecycle!Next]_(Lifecycle!vars)
  BY LifecycleStep
<1> QED
  BY <1>1, <1>2, Invariance, PTL DEF Spec, ImplementsLifecycle, Lifecycle!Spec
=============================================================================
