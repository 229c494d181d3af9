--------------------------- MODULE FeedbackProofs ---------------------------
(***************************************************************************)
(* Proofs about Feedback, for any days, runs, users, submissions, workers   *)
(* and readers.  The inductive invariant says which submissions can meet,   *)
(* that a roll-up is of a day that is over, and that what it has inserted    *)
(* and not yet committed, with what is stored, is all the feedback of a day. *)
(***************************************************************************)
EXTENDS Feedback, FiniteSetTheorems, TLAPS

\* A submission under way and a row have their fields; a row is not of a day
\* to come.
SubAt(x) ==
    /\ x \in Stored => sub[x] = "over" /\ stored[x] <= day
    /\ sub[x] = "commit" \/ x \in Stored =>
          run[x] \in Runs /\ user[x] \in Users /\ chosen[x] \in Agents
\* A row and another of the same user on the same run, there or to come.
CrossAt(x, y) ==
    /\ x # y /\ x \in Stored /\ (sub[y] = "commit" \/ y \in Stored)
    /\ run[x] = run[y] /\ user[x] = user[y]
    => <<run[x], user[x]>> \in crossed
SubInv == \A x \in Submissions : SubAt(x) /\ \A y \in Submissions : CrossAt(x, y)

\* The feedback on the runs of day d that was given by the end of it.
OnTime(d, a) == {x \in Stored : /\ chosen[x] = a
                                /\ RunDay[run[x]] = d /\ stored[x] <= d}

\* What a job has inserted are rows that were not there, and with those that
\* were there they count what was given on time.
JobAt(w) ==
    /\ job[w] # "idle" => period[w] < day
    /\ job[w] = "commit" => \A a \in Agents :
          /\ fresh[w][a] # {} => score[period[w]][a] = {}
          /\ OnTime(period[w], a) \subseteq score[period[w]][a] \cup fresh[w][a]
\* Two jobs have not inserted the same row.
ApartAt(w, v) == w # v /\ job[w] = "commit" /\ job[v] = "commit"
                       /\ period[w] = period[v]
    => \A a \in Agents : fresh[w][a] = {} \/ fresh[v][a] = {}
JobInv == \A w \in Workers : JobAt(w) /\ \A v \in Workers : ApartAt(w, v)

\* A row that is stored, and a day that is rolled up, counts what was given on
\* time.
ScoreAt(d) ==
    /\ d \in rolled => d < day
    /\ \A a \in Agents : score[d][a] # {} => d < day
    /\ \A a \in Agents : d \in rolled \/ score[d][a] # {} =>
                             OnTime(d, a) \subseteq score[d][a]
ScoreInv == \A d \in Days : ScoreAt(d)

IInv == TypeOK /\ SubInv /\ JobInv /\ ScoreInv

-----------------------------------------------------------------------------
\* The first day: no feedback, no score and no job.
LEMMA InitInvariant == Init => IInv
<1> SUFFICES ASSUME Init PROVE IInv
  OBVIOUS
<1> USE DEF Init
<1>1. 0 \in Days
  BY LastDayAssumption DEF Days
<1>2. TypeOK
  BY <1>1 DEF TypeOK, Rows, NoRows
<1>3. Stored = {}
  BY DEF Stored
<1>4. SubInv
  BY <1>3 DEF SubInv, SubAt, CrossAt
<1>5. JobInv
  BY DEF JobInv, JobAt, ApartAt
<1>6. ScoreInv
  BY DEF ScoreInv, ScoreAt, NoRows
<1> QED
  BY <1>2, <1>4, <1>5, <1>6 DEF IInv

-----------------------------------------------------------------------------
(* The types *)

\* The parts of TypeOK: the date, the submissions, the jobs, the readers.
DayOK == day \in Days
SubsOK ==
    /\ sub \in [Submissions -> {"idle", "commit", "over"}]
    /\ run \in [Submissions -> Runs \cup {NoRun}]
    /\ user \in [Submissions -> Users \cup {NoUser}]
    /\ chosen \in [Submissions -> Agents \cup {NoAgent}]
    /\ stored \in [Submissions -> Days \cup {-1}]
    /\ crossed \subseteq Runs \X Users
JobsOK ==
    /\ score \in [Days -> Rows]
    /\ job \in [Workers -> {"idle", "insert", "commit", "invalidate"}]
    /\ period \in [Workers -> Days] /\ fresh \in [Workers -> Rows]
    /\ fired \in [Workers -> Days] /\ rolled \subseteq Days
ReadsOK ==
    /\ cache \in [Workers -> {NoAgent} \cup ((SUBSET Submissions) \X [Days -> Rows])]
    /\ rd \in [Readers -> {"idle", "feedback", "scores"}]
    /\ at \in [Readers -> Workers \cup {NoWorker}]
    /\ got \in [Readers -> SUBSET Submissions]

\* TypeOK has these parts.
LEMMA Parts == TypeOK <=> DayOK /\ SubsOK /\ JobsOK /\ ReadsOK
BY DEF TypeOK, DayOK, SubsOK, JobsOK, ReadsOK

\* The date does not go back, nor beyond the last day.
LEMMA DayStep == IInv /\ [Next]_vars => DayOK' /\ day <= day'
<1> SUFFICES ASSUME IInv, [Next]_vars PROVE DayOK' /\ day <= day'
  OBVIOUS
<1>1. day \in 0..LastDay /\ LastDay \in Nat
  BY LastDayAssumption DEF IInv, TypeOK, Days
<1>2. CASE Midnight
  BY <1>1, <1>2 DEF Midnight, DayOK, Days
<1>3. CASE UNCHANGED day
  BY <1>1, <1>3 DEF DayOK, Days
<1> QED
  BY <1>2, <1>3
     DEF Next, Submit, Flush, SubStep, CommitFeedback, SubmitFault, StartJob, Start,
         JobStep, RollUp, CommitScores, Store, InvalidateAll, InsertFault, CommitFault,
         Restart, EntryExpires, Drop, ReadStep, ReadFeedback, ReadScores, Ask, vars

\* A submission is flushed, committed or rolled back.
LEMMA SubsStep == IInv /\ [Next]_vars => SubsOK'
<1> SUFFICES ASSUME IInv, [Next]_vars PROVE SubsOK'
  OBVIOUS
<1>1. SubsOK /\ DayOK
  BY Parts DEF IInv
<1>2. ASSUME NEW x \in Submissions, NEW w \in Workers, NEW r \in Runs, NEW u \in Users,
             NEW a \in Agents, Submit(x, w, r, u, a)
      PROVE  SubsOK'
  BY <1>1, <1>2 DEF SubsOK, Submit, Flush
<1>3. ASSUME NEW x \in Submissions, CommitFeedback(x) PROVE SubsOK'
  <2>1. <<run[x], user[x]>> \in Runs \X Users
    BY <1>3 DEF IInv, SubInv, SubAt, CommitFeedback
  <2>2. crossed' \subseteq Runs \X Users
    BY <1>1, <1>3, <2>1 DEF SubsOK, CommitFeedback
  <2>3. stored' \in [Submissions -> Days \cup {-1}]
    BY <1>1, <1>3 DEF SubsOK, DayOK, CommitFeedback
  <2> QED
    BY <1>1, <1>3, <2>2, <2>3 DEF SubsOK, CommitFeedback
<1>4. ASSUME NEW x \in Submissions, SubmitFault(x) PROVE SubsOK'
  BY <1>1, <1>4 DEF SubsOK, SubmitFault
<1>5. CASE UNCHANGED subVars
  BY <1>1, <1>5 DEF SubsOK, subVars
<1> QED
  BY <1>2, <1>3, <1>4, <1>5
     DEF Next, SubStep, StartJob, Start, JobStep, RollUp, CommitScores, Store,
         InvalidateAll, InsertFault, CommitFault, Restart, EntryExpires, Drop,
         ReadStep, ReadFeedback, ReadScores, Ask, Midnight, vars

\* A job begins for the day before, and stores rows of feedback.
LEMMA JobsStep == IInv /\ [Next]_vars => JobsOK'
<1> SUFFICES ASSUME IInv, [Next]_vars PROVE JobsOK'
  OBVIOUS
<1>1. JobsOK /\ day \in Days
  BY Parts DEF IInv, DayOK
<1>2. ASSUME NEW w \in Workers, StartJob(w) PROVE JobsOK'
  <2>1. day - 1 \in Days
    <3>1. fired[w] \in 0..LastDay /\ day \in 0..LastDay /\ fired[w] < day
      BY <1>1, <1>2 DEF JobsOK, StartJob, Days
    <3>2. LastDay \in Nat
      BY LastDayAssumption
    <3> QED
      BY <3>1, <3>2 DEF Days
  <2> QED
    BY <1>1, <1>2, <2>1 DEF JobsOK, StartJob, Start
<1>3. ASSUME NEW w \in Workers, RollUp(w) PROVE JobsOK'
  <2> DEFINE new == [a \in Agents |-> IF score[period[w]][a] # {} THEN {}
                                      ELSE Counted(period[w], a)]
  <2>1. new \in Rows
    BY DEF Rows, Counted, Stored
  <2>2. fresh' = [fresh EXCEPT ![w] = new]
    BY <1>3 DEF RollUp
  <2> HIDE DEF new
  <2>3. fresh' \in [Workers -> Rows]
    BY <1>1, <2>1, <2>2 DEF JobsOK
  <2> QED
    BY <1>1, <1>3, <2>3 DEF JobsOK, RollUp
<1>4. ASSUME NEW w \in Workers, CommitScores(w) PROVE JobsOK'
  <2> DEFINE new == [a \in Agents |-> score[period[w]][a] \cup fresh[w][a]]
  <2>1. period[w] \in Days /\ score[period[w]] \in Rows /\ fresh[w] \in Rows
    BY <1>1 DEF JobsOK
  <2>2. new \in Rows /\ NoRows \in Rows
    BY <2>1 DEF Rows, NoRows
  <2>3. Store(w, new)
    BY <1>4 DEF CommitScores
  <2> HIDE DEF new
  <2> QED
    BY <1>1, <2>1, <2>2, <2>3 DEF JobsOK, Store
<1>5. ASSUME NEW w \in Workers,
             InvalidateAll(w) \/ InsertFault(w) \/ CommitFault(w) \/ Restart(w)
      PROVE  JobsOK'
  <2>1. NoRows \in Rows
    BY DEF Rows, NoRows
  <2> QED
    BY <1>1, <1>5, <2>1 DEF JobsOK, InvalidateAll, InsertFault, CommitFault, Restart
<1>6. CASE UNCHANGED <<score, jobVars>>
  BY <1>1, <1>6 DEF JobsOK, jobVars
<1> QED
  BY <1>2, <1>3, <1>4, <1>5, <1>6
     DEF Next, Submit, Flush, SubStep, CommitFeedback, SubmitFault, JobStep,
         EntryExpires, Drop, ReadStep, ReadFeedback, ReadScores, Ask, Midnight, vars

\* An answer that is kept is made of feedback and scores.
LEMMA ReadsStep == IInv /\ [Next]_vars => ReadsOK'
<1> SUFFICES ASSUME IInv, [Next]_vars PROVE ReadsOK'
  OBVIOUS
<1>1. ReadsOK /\ score \in [Days -> Rows] /\ SubsOK
  BY Parts DEF IInv, JobsOK
<1>2. ASSUME cache' = cache \/ \E w \in Workers : cache' = [cache EXCEPT ![w] = NoAgent],
             UNCHANGED readVars
      PROVE  ReadsOK'
  BY <1>1, <1>2 DEF ReadsOK, readVars
<1>3. ASSUME NEW w \in Workers, Restart(w) PROVE ReadsOK'
  BY <1>1, <1>3 DEF ReadsOK, Restart
<1>4. ASSUME NEW r \in Readers, NEW w \in Workers, Ask(r, w) PROVE ReadsOK'
  BY <1>1, <1>4 DEF ReadsOK, Ask
<1>5. ASSUME NEW r \in Readers, ReadFeedback(r) PROVE ReadsOK'
  BY <1>1, <1>5 DEF ReadsOK, ReadFeedback, Stored
<1>6. ASSUME NEW r \in Readers, ReadScores(r) PROVE ReadsOK'
  BY <1>1, <1>6 DEF ReadsOK, ReadScores
<1>7. ASSUME NEW x \in Submissions, NEW w \in Workers, NEW r \in Runs, NEW u \in Users,
             NEW a \in Agents, Submit(x, w, r, u, a)
      PROVE  ReadsOK'
  BY <1>2, <1>7 DEF Submit, Flush
<1>8. ASSUME NEW w \in Workers, InvalidateAll(w) \/ EntryExpires(w) PROVE ReadsOK'
  BY <1>2, <1>8 DEF InvalidateAll, EntryExpires, Drop
<1>9. CASE UNCHANGED <<cache, readVars>>
  BY <1>2, <1>9
<1> QED
  BY <1>3, <1>4, <1>5, <1>6, <1>7, <1>8, <1>9
     DEF Next, SubStep, CommitFeedback, SubmitFault, StartJob, Start, JobStep, RollUp,
         CommitScores, Store, InsertFault, CommitFault, ReadStep, Midnight, vars

\* The parts are kept, and so is the whole.
LEMMA TypeStep == IInv /\ [Next]_vars => TypeOK'
<1> SUFFICES ASSUME IInv, [Next]_vars PROVE TypeOK'
  OBVIOUS
<1>1. DayOK' /\ SubsOK' /\ JobsOK' /\ ReadsOK'
  BY DayStep, SubsStep, JobsStep, ReadsStep
<1> QED
  BY <1>1 DEF TypeOK, DayOK, SubsOK, JobsOK, ReadsOK

-----------------------------------------------------------------------------
(* The submissions *)

\* A submission passes the check only if there is no row yet.
LEMMA SubmitKeeps ==
    ASSUME IInv, NEW x \in Submissions, NEW w \in Workers, NEW r \in Runs,
           NEW u \in Users, NEW a \in Agents, Submit(x, w, r, u, a)
    PROVE  SubInv' /\ Stored' = Stored /\ x \notin Stored
<1>1. SubsOK /\ SubInv
  BY Parts DEF IInv
<1>2. /\ sub[x] = "idle" /\ sub' = [sub EXCEPT ![x] = "commit"]
      /\ run' = [run EXCEPT ![x] = r] /\ user' = [user EXCEPT ![x] = u]
      /\ chosen' = [chosen EXCEPT ![x] = a] /\ UNCHANGED <<day, stored, crossed>>
      /\ FeedbackOf(r, u) = {}
  BY DEF Submit, Flush
<1>3. Stored' = Stored /\ x \notin Stored
  BY <1>1, <1>2 DEF Stored, SubInv, SubAt
<1>4. ASSUME NEW y \in Submissions, y # x
      PROVE  /\ sub'[y] = sub[y] /\ run'[y] = run[y] /\ user'[y] = user[y]
             /\ chosen'[y] = chosen[y]
  BY <1>1, <1>2, <1>4 DEF SubsOK
<1>5. sub'[x] = "commit" /\ run'[x] = r /\ user'[x] = u /\ chosen'[x] = a
  BY <1>1, <1>2 DEF SubsOK
<1>6. ASSUME NEW y \in Submissions PROVE SubAt(y)'
  BY <1>1, <1>2, <1>3, <1>4, <1>5 DEF SubInv, SubAt
<1>7. ASSUME NEW y \in Submissions, NEW z \in Submissions PROVE CrossAt(y, z)'
  <2> SUFFICES ASSUME y # z, y \in Stored, sub'[z] = "commit" \/ z \in Stored,
                      run'[y] = run'[z], user'[y] = user'[z]
               PROVE  <<run'[y], user'[y]>> \in crossed
    BY <1>2, <1>3 DEF CrossAt
  <2>1. y # x /\ run'[y] = run[y] /\ user'[y] = user[y]
    BY <1>3, <1>4
  <2>2. CASE z = x
    <3>1. y \in FeedbackOf(r, u)
      BY <1>5, <2>1, <2>2 DEF FeedbackOf
    <3> QED
      BY <1>2, <3>1
  <2>3. CASE z # x
    BY <1>1, <1>4, <2>1, <2>3 DEF SubInv, CrossAt
  <2> QED
    BY <2>2, <2>3
<1> QED
  BY <1>3, <1>6, <1>7 DEF SubInv

\* A commit that meets another submission of the same user is noted.
LEMMA CommitKeeps ==
    ASSUME IInv, NEW x \in Submissions, CommitFeedback(x)
    PROVE  SubInv' /\ Stored' = Stored \cup {x} /\ x \notin Stored
<1>1. SubsOK /\ SubInv /\ day \in Days
  BY Parts DEF IInv, DayOK
<1>2. /\ sub[x] = "commit" /\ sub' = [sub EXCEPT ![x] = "over"]
      /\ stored' = [stored EXCEPT ![x] = day] /\ UNCHANGED <<day, run, user, chosen>>
      /\ crossed' = crossed \cup {<<run[x], user[x]>> : y \in
            {y \in Submissions \ {x} : sub[y] = "commit" /\ run[y] = run[x]
                                                         /\ user[y] = user[x]}}
  BY DEF CommitFeedback
<1>3. day >= 0 /\ day <= day
  BY <1>1, LastDayAssumption DEF Days
<1>4. x \notin Stored
  BY <1>1, <1>2 DEF SubInv, SubAt
<1>5. stored'[x] = day /\ \A y \in Submissions : y # x =>
          stored'[y] = stored[y] /\ sub'[y] = sub[y]
  BY <1>1, <1>2 DEF SubsOK
<1>6. Stored' = Stored \cup {x}
  BY <1>3, <1>5 DEF Stored
<1>7. sub'[x] = "over" /\ crossed \subseteq crossed'
  BY <1>1, <1>2 DEF SubsOK
<1>8. ASSUME NEW y \in Submissions PROVE SubAt(y)'
  <2>1. CASE y = x
    BY <1>1, <1>2, <1>3, <1>5, <1>7, <2>1 DEF SubInv, SubAt
  <2>2. CASE y # x
    BY <1>1, <1>2, <1>5, <1>6, <2>2 DEF SubInv, SubAt
  <2> QED
    BY <2>1, <2>2
<1>9. ASSUME NEW y \in Submissions, NEW z \in Submissions PROVE CrossAt(y, z)'
  <2> SUFFICES ASSUME y # z, y \in Stored', sub'[z] = "commit" \/ z \in Stored',
                      run[y] = run[z], user[y] = user[z]
               PROVE  <<run[y], user[y]>> \in crossed'
    BY <1>2 DEF CrossAt
  <2>1. CASE y = x
    <3>1. CASE sub[z] = "commit"
      BY <1>2, <2>1, <3>1
    <3>2. CASE z \in Stored
      <4>1. CrossAt(z, x)
        BY <1>1 DEF SubInv
      <4> QED
        BY <1>2, <1>7, <2>1, <3>2, <4>1 DEF CrossAt
    <3> QED
      BY <1>5, <1>6, <2>1, <3>1, <3>2
  <2>2. CASE y # x
    <3>1. y \in Stored /\ CrossAt(y, z)
      BY <1>1, <1>6, <2>2 DEF SubInv
    <3>2. sub[z] = "commit" \/ z \in Stored
      BY <1>2, <1>5, <1>6, <1>7
    <3> QED
      BY <1>7, <3>1, <3>2 DEF CrossAt
  <2> QED
    BY <2>1, <2>2
<1> QED
  BY <1>4, <1>6, <1>8, <1>9 DEF SubInv

\* A submission that is rolled back was no row.
LEMMA FaultKeeps ==
    ASSUME IInv, NEW x \in Submissions, SubmitFault(x)
    PROVE  SubInv' /\ Stored' = Stored /\ x \notin Stored
<1>1. SubsOK /\ SubInv
  BY Parts DEF IInv
<1>2. /\ sub[x] = "commit" /\ sub' = [sub EXCEPT ![x] = "over"]
      /\ run' = [run EXCEPT ![x] = NoRun] /\ user' = [user EXCEPT ![x] = NoUser]
      /\ chosen' = [chosen EXCEPT ![x] = NoAgent] /\ UNCHANGED <<day, stored, crossed>>
  BY DEF SubmitFault
<1>3. Stored' = Stored /\ x \notin Stored
  BY <1>1, <1>2 DEF Stored, SubInv, SubAt
<1>4. ASSUME NEW y \in Submissions, y # x
      PROVE  /\ sub'[y] = sub[y] /\ run'[y] = run[y] /\ user'[y] = user[y]
             /\ chosen'[y] = chosen[y]
  BY <1>1, <1>2, <1>4 DEF SubsOK
<1>5. sub'[x] = "over"
  BY <1>1, <1>2 DEF SubsOK
<1>6. ASSUME NEW y \in Submissions PROVE SubAt(y)'
  BY <1>1, <1>2, <1>3, <1>4, <1>5 DEF SubInv, SubAt
<1>7. ASSUME NEW y \in Submissions, NEW z \in Submissions PROVE CrossAt(y, z)'
  BY <1>1, <1>2, <1>3, <1>4, <1>5 DEF SubInv, CrossAt
<1> QED
  BY <1>3, <1>6, <1>7 DEF SubInv

\* Nothing else touches a submission; the days go by.
LEMMA SubStepInv == IInv /\ [Next]_vars => SubInv'
<1> SUFFICES ASSUME IInv, [Next]_vars PROVE SubInv'
  OBVIOUS
<1>1. SubInv /\ SubsOK /\ day \in Days
  BY Parts DEF IInv, DayOK
<1>2. CASE UNCHANGED subVars
  <2>1. UNCHANGED <<sub, run, user, chosen, stored, crossed>> /\ Stored' = Stored
    BY <1>2 DEF subVars, Stored
  <2>2. day <= day' /\ day' \in Days
    BY DayStep DEF DayOK
  <2>3. ASSUME NEW x \in Submissions PROVE SubAt(x)'
    <3>1. x \in Stored => stored[x] <= day'
      <4> SUFFICES ASSUME x \in Stored PROVE stored[x] <= day'
        OBVIOUS
      <4>1. stored[x] \in Int /\ stored[x] <= day /\ day \in Int /\ day' \in Int
        BY <1>1, <2>2, LastDayAssumption DEF SubInv, SubAt, SubsOK, Days
      <4> QED
        BY <2>2, <4>1
    <3> QED
      BY <1>1, <2>1, <3>1 DEF SubInv, SubAt
  <2> QED
    BY <1>1, <2>1, <2>3 DEF SubInv, CrossAt
<1> QED
  BY <1>2, SubmitKeeps, CommitKeeps, FaultKeeps
     DEF Next, SubStep, StartJob, Start, JobStep, RollUp, CommitScores, Store,
         InvalidateAll, InsertFault, CommitFault, Restart, EntryExpires, Drop,
         ReadStep, ReadFeedback, ReadScores, Ask, Midnight, vars

-----------------------------------------------------------------------------
(* The roll-ups *)

\* What was given on time for a day that is over is not added to.
LEMMA OnTimeStays ==
    ASSUME IInv, [Next]_vars, NEW d \in Days, NEW a \in Agents, d < day
    PROVE  OnTime(d, a)' \subseteq OnTime(d, a)
<1>1. SubsOK /\ day \in Days /\ SubInv
  BY Parts DEF IInv, DayOK
<1>2. ASSUME NEW x \in Submissions, Stored' = Stored, x \notin Stored, stored' = stored,
             \A y \in Submissions : y # x => run'[y] = run[y] /\ chosen'[y] = chosen[y]
      PROVE  OnTime(d, a)' \subseteq OnTime(d, a)
  BY <1>2 DEF OnTime, Stored
<1>3. ASSUME NEW x \in Submissions, CommitFeedback(x)
      PROVE  OnTime(d, a)' \subseteq OnTime(d, a)
  <2>1. Stored' = Stored \cup {x}
    BY <1>3, CommitKeeps
  <2>2. /\ UNCHANGED <<run, chosen>> /\ stored'[x] = day
        /\ \A y \in Submissions : y # x => stored'[y] = stored[y]
    BY <1>1, <1>3 DEF CommitFeedback, SubsOK
  <2>3. ~ (day <= d)
    BY <1>1, LastDayAssumption DEF Days
  <2> QED
    BY <2>1, <2>2, <2>3 DEF OnTime, Stored
<1>4. ASSUME NEW x \in Submissions, NEW w \in Workers, NEW r \in Runs, NEW u \in Users,
             NEW b \in Agents, Submit(x, w, r, u, b)
      PROVE  OnTime(d, a)' \subseteq OnTime(d, a)
  <2>1. Stored' = Stored /\ x \notin Stored
    BY <1>4, SubmitKeeps
  <2>2. stored' = stored /\ \A y \in Submissions :
            y # x => run'[y] = run[y] /\ chosen'[y] = chosen[y]
    BY <1>1, <1>4 DEF Submit, Flush, SubsOK
  <2> QED
    BY <1>2, <2>1, <2>2
<1>5. ASSUME NEW x \in Submissions, SubmitFault(x)
      PROVE  OnTime(d, a)' \subseteq OnTime(d, a)
  <2>1. Stored' = Stored /\ x \notin Stored
    BY <1>5, FaultKeeps
  <2>2. stored' = stored /\ \A y \in Submissions :
            y # x => run'[y] = run[y] /\ chosen'[y] = chosen[y]
    BY <1>1, <1>5 DEF SubmitFault, SubsOK
  <2> QED
    BY <1>2, <2>1, <2>2
<1>6. CASE UNCHANGED subVars
  BY <1>6 DEF subVars, OnTime, Stored
<1> QED
  BY <1>3, <1>4, <1>5, <1>6
     DEF Next, SubStep, StartJob, Start, JobStep, RollUp, CommitScores, Store,
         InvalidateAll, InsertFault, CommitFault, Restart, EntryExpires, Drop,
         ReadStep, ReadFeedback, ReadScores, Ask, Midnight, vars

\* A job's commit adds what it has inserted to the rows of its day.
LEMMA ScoresStored ==
    ASSUME IInv, NEW w \in Workers, CommitScores(w)
    PROVE  /\ period[w] \in Days /\ period[w] < day /\ job[w] = "commit"
           /\ job' = [job EXCEPT ![w] = "invalidate"] /\ rolled' = rolled \cup {period[w]}
           /\ fresh' = [fresh EXCEPT ![w] = NoRows] /\ UNCHANGED <<day, subVars, period>>
           /\ \A a \in Agents :
                 score'[period[w]][a] = score[period[w]][a] \cup fresh[w][a]
           /\ \A d \in Days : d # period[w] => score'[d] = score[d]
<1> DEFINE new == [a \in Agents |-> score[period[w]][a] \cup fresh[w][a]]
<1>1. JobsOK /\ JobInv
  BY Parts DEF IInv
<1>2. Store(w, new)
  BY DEF CommitScores
<1>3. period[w] \in Days /\ job[w] = "commit" /\ period[w] < day
  BY <1>1, <1>2 DEF JobsOK, Store, JobInv, JobAt
<1>4. score' = [score EXCEPT ![period[w]] = new]
  BY <1>2 DEF Store
<1>5. \A a \in Agents : new[a] = score[period[w]][a] \cup fresh[w][a]
  OBVIOUS
<1> HIDE DEF new
<1>6. score'[period[w]] = new /\ \A d \in Days : d # period[w] => score'[d] = score[d]
  BY <1>1, <1>3, <1>4 DEF JobsOK
<1>7. /\ job' = [job EXCEPT ![w] = "invalidate"] /\ rolled' = rolled \cup {period[w]}
      /\ fresh' = [fresh EXCEPT ![w] = NoRows] /\ UNCHANGED <<day, subVars, period>>
  BY <1>2 DEF Store
<1> QED
  BY <1>3, <1>5, <1>6, <1>7

\* No step but a job's commit changes the scores, or the days rolled up.
LEMMA ScoresChange ==
    ASSUME [Next]_vars
    PROVE  (\E w \in Workers : CommitScores(w)) \/ UNCHANGED <<score, rolled>>
BY DEF Next, Submit, Flush, SubStep, CommitFeedback, SubmitFault, StartJob, Start,
       JobStep, RollUp, InvalidateAll, InsertFault, CommitFault, Restart, EntryExpires,
       Drop, ReadStep, ReadFeedback, ReadScores, Ask, Midnight, jobVars, vars

\* The rows that are stored are complete, and stay so.
LEMMA ScoreStep == IInv /\ [Next]_vars => ScoreInv'
<1> SUFFICES ASSUME IInv, [Next]_vars, NEW d \in Days PROVE ScoreAt(d)'
  BY DEF ScoreInv
<1>1. ScoreAt(d) /\ JobInv /\ JobsOK
  BY Parts DEF IInv, ScoreInv
<1>2. d < day => d < day'
  <2>1. d \in Int /\ day \in Int /\ day' \in Int /\ day <= day'
    BY Parts, DayStep, LastDayAssumption DEF IInv, DayOK, Days
  <2> QED
    BY <2>1
<1>3. ASSUME NEW a \in Agents, d < day PROVE OnTime(d, a)' \subseteq OnTime(d, a)
  BY <1>3, OnTimeStays
<1>4. ASSUME NEW w \in Workers, CommitScores(w) PROVE ScoreAt(d)'
  <2>1. CASE d = period[w]
    <3>1. d < day
      BY <1>4, <2>1, ScoresStored
    <3>2. ASSUME NEW a \in Agents PROVE OnTime(d, a)' \subseteq score'[d][a]
      <4>1. OnTime(d, a) \subseteq score[d][a] \cup fresh[w][a]
        BY <1>1, <1>4, <2>1, ScoresStored DEF JobInv, JobAt
      <4>2. score'[d][a] = score[d][a] \cup fresh[w][a]
        BY <1>4, <2>1, ScoresStored
      <4> QED
        BY <1>3, <3>1, <4>1, <4>2
    <3> QED
      BY <1>2, <3>1, <3>2 DEF ScoreAt
  <2>2. CASE d # period[w]
    <3>1. score'[d] = score[d] /\ (d \in rolled' <=> d \in rolled)
      BY <1>4, <2>2, ScoresStored
    <3> QED
      BY <1>1, <1>2, <1>3, <3>1 DEF ScoreAt
  <2> QED
    BY <2>1, <2>2
<1>5. CASE UNCHANGED <<score, rolled>>
  BY <1>1, <1>2, <1>3, <1>5 DEF ScoreAt
<1> QED
  BY <1>4, <1>5, ScoresChange

\* A job that goes on keeps what it knows, if the rows of its day only grow and
\* those it has inserted are not among them.
LEMMA JobKept ==
    ASSUME IInv, [Next]_vars, NEW v \in Workers, period'[v] = period[v],
           job'[v] # "idle" => job[v] # "idle",
           job'[v] = "commit" => job[v] = "commit" /\ fresh'[v] = fresh[v],
           job'[v] = "commit" => \A a \in Agents :
              /\ score[period[v]][a] \subseteq score'[period[v]][a]
              /\ fresh[v][a] # {} => score'[period[v]][a] = score[period[v]][a]
    PROVE  JobAt(v)'
<1>1. JobAt(v) /\ JobsOK
  BY Parts DEF IInv, JobInv
<1>2. period[v] \in Days
  BY <1>1 DEF JobsOK
<1>3. period[v] < day => period[v] < day'
  <2>1. period[v] \in Int /\ day \in Int /\ day' \in Int /\ day <= day'
    BY <1>2, Parts, DayStep, LastDayAssumption DEF IInv, DayOK, Days
  <2> QED
    BY <2>1
<1>4. ASSUME job'[v] = "commit", NEW a \in Agents
      PROVE  /\ fresh'[v][a] # {} => score'[period[v]][a] = {}
             /\ OnTime(period[v], a)' \subseteq score'[period[v]][a] \cup fresh'[v][a]
  <2>1. /\ fresh[v][a] # {} => score[period[v]][a] = {}
        /\ OnTime(period[v], a) \subseteq score[period[v]][a] \cup fresh[v][a]
        /\ period[v] < day
    BY <1>1, <1>4 DEF JobAt
  <2>2. PICK d \in Days : d = period[v]
    BY <1>2
  <2>3. OnTime(d, a)' \subseteq OnTime(d, a)
    BY <2>1, <2>2, OnTimeStays
  <2>4. OnTime(period[v], a)' = OnTime(d, a)'
    BY <2>2 DEF OnTime
  <2> QED
    BY <1>4, <2>1, <2>2, <2>3, <2>4
<1> QED
  BY <1>1, <1>3, <1>4 DEF JobAt, OnTime

\* Two jobs that go on stay apart.
LEMMA ApartKept ==
    ASSUME IInv, NEW v \in Workers, NEW u \in Workers,
           \A t \in {u, v} : /\ period'[t] = period[t]
                             /\ job'[t] = "commit" => job[t] = "commit"
                                                      /\ fresh'[t] = fresh[t]
    PROVE  ApartAt(v, u)'
BY DEF IInv, JobInv, ApartAt

\* The insertion takes the rows that are not there, and waits for another's.
LEMMA RollUpKeepsJobs ==
    ASSUME IInv, [Next]_vars, NEW w \in Workers, RollUp(w)
    PROVE  JobInv'
<1> DEFINE new == [a \in Agents |-> IF score[period[w]][a] # {} THEN {}
                                    ELSE Counted(period[w], a)]
<1>1. JobsOK /\ JobInv /\ ScoreInv
  BY Parts DEF IInv
<1>2. /\ job[w] = "insert" /\ job' = [job EXCEPT ![w] = "commit"]
      /\ \A v \in Workers \ {w} : job[v] = "commit" /\ period[v] = period[w] =>
            \A a \in Agents : new[a] = {} \/ fresh[v][a] = {}
      /\ fresh' = [fresh EXCEPT ![w] = new]
      /\ UNCHANGED <<day, subVars, score, period>>
  BY DEF RollUp
<1>3. ASSUME NEW a \in Agents
      PROVE  /\ new[a] # {} => score[period[w]][a] = {}
             /\ OnTime(period[w], a) \subseteq score[period[w]][a] \cup new[a]
  <2>1. period[w] \in Days
    BY <1>1 DEF JobsOK
  <2>2. score[period[w]][a] # {} => OnTime(period[w], a) \subseteq score[period[w]][a]
    BY <1>1, <2>1 DEF ScoreInv, ScoreAt
  <2>3. OnTime(period[w], a) \subseteq Counted(period[w], a)
    BY DEF OnTime, Counted
  <2> QED
    BY <2>2, <2>3
<1> HIDE DEF new
<1>4. /\ job'[w] = "commit" /\ fresh'[w] = new
      /\ \A v \in Workers : v # w => job'[v] = job[v] /\ fresh'[v] = fresh[v]
  BY <1>1, <1>2 DEF JobsOK
<1>5. ASSUME NEW v \in Workers PROVE JobAt(v)'
  <2>1. CASE v = w
    <3>1. \A a \in Agents : OnTime(period[w], a)' = OnTime(period[w], a)
      BY <1>2 DEF OnTime, Stored, subVars
    <3>2. period[w] < day
      BY <1>1, <1>2 DEF JobInv, JobAt
    <3> QED
      BY <1>2, <1>3, <1>4, <2>1, <3>1, <3>2 DEF JobAt
  <2>2. CASE v # w
    BY <1>2, <1>4, <2>2, JobKept
  <2> QED
    BY <2>1, <2>2
<1>6. ASSUME NEW v \in Workers, NEW u \in Workers PROVE ApartAt(v, u)'
  <2>1. CASE v # w /\ u # w
    BY <1>2, <1>4, <2>1, ApartKept
  <2>2. CASE v = w \/ u = w
    BY <1>2, <1>4, <2>2 DEF ApartAt
  <2> QED
    BY <2>1, <2>2
<1> QED
  BY <1>5, <1>6 DEF JobInv

\* A commit adds rows that no other job has inserted.
LEMMA CommitKeepsJobs ==
    ASSUME IInv, [Next]_vars, NEW w \in Workers, CommitScores(w)
    PROVE  JobInv'
<1>1. JobsOK /\ JobInv
  BY Parts DEF IInv
<1>2. /\ job[w] = "commit" /\ job'[w] = "invalidate" /\ period' = period
      /\ \A v \in Workers : v # w => job'[v] = job[v] /\ fresh'[v] = fresh[v]
  BY <1>1, ScoresStored DEF JobsOK
<1>3. ASSUME NEW v \in Workers, v # w, job[v] = "commit", NEW a \in Agents
      PROVE  /\ score[period[v]][a] \subseteq score'[period[v]][a]
             /\ fresh[v][a] # {} => score'[period[v]][a] = score[period[v]][a]
  <2>1. period[v] \in Days
    BY <1>1 DEF JobsOK
  <2>2. CASE period[v] = period[w]
    <3>1. score'[period[v]][a] = score[period[v]][a] \cup fresh[w][a]
      BY <2>2, ScoresStored
    <3>2. fresh[v][a] # {} => fresh[w][a] = {}
      BY <1>1, <1>2, <1>3, <2>2 DEF JobInv, ApartAt
    <3> QED
      BY <3>1, <3>2
  <2>3. CASE period[v] # period[w]
    BY <2>1, <2>3, ScoresStored
  <2> QED
    BY <2>2, <2>3
<1>4. ASSUME NEW v \in Workers PROVE JobAt(v)'
  <2>1. CASE v = w
    BY <1>2, <2>1, JobKept
  <2>2. CASE v # w
    BY <1>2, <1>3, <2>2, JobKept
  <2> QED
    BY <2>1, <2>2
<1>5. ASSUME NEW v \in Workers, NEW u \in Workers PROVE ApartAt(v, u)'
  BY <1>2, ApartKept
<1> QED
  BY <1>4, <1>5 DEF JobInv

\* The jobs of all the workers.
LEMMA JobStepInv == IInv /\ [Next]_vars => JobInv'
<1> SUFFICES ASSUME IInv, [Next]_vars PROVE JobInv'
  OBVIOUS
<1>1. JobsOK /\ DayOK
  BY Parts DEF IInv
<1>2. ASSUME \A v \in Workers : /\ period'[v] = period[v]
                                /\ job'[v] # "idle" => job[v] # "idle"
                                /\ job'[v] = "commit" => job[v] = "commit"
                                                         /\ fresh'[v] = fresh[v],
             score' = score
      PROVE  JobInv'
  BY <1>2, JobKept, ApartKept DEF JobInv
<1>3. ASSUME NEW w \in Workers, StartJob(w) PROVE JobInv'
  <2>1. /\ job'[w] = "insert" /\ period'[w] = day - 1 /\ UNCHANGED <<score, day>>
        /\ \A v \in Workers : /\ fresh'[v] = fresh[v]
                              /\ v # w => job'[v] = job[v] /\ period'[v] = period[v]
    BY <1>1, <1>3 DEF StartJob, Start, JobsOK
  <2>2. day - 1 < day
    BY <1>1, LastDayAssumption DEF DayOK, Days
  <2>3. ASSUME NEW v \in Workers PROVE JobAt(v)'
    <3>1. CASE v = w
      BY <2>1, <2>2, <3>1 DEF JobAt
    <3>2. CASE v # w
      BY <2>1, <3>2, JobKept
    <3> QED
      BY <3>1, <3>2
  <2>4. ASSUME NEW v \in Workers, NEW u \in Workers PROVE ApartAt(v, u)'
    <3>1. CASE v = w \/ u = w
      BY <2>1, <3>1 DEF ApartAt
    <3>2. CASE v # w /\ u # w
      BY <2>1, <3>2, ApartKept
    <3> QED
      BY <3>1, <3>2
  <2> QED
    BY <2>3, <2>4 DEF JobInv
<1>4. ASSUME NEW w \in Workers, RollUp(w) PROVE JobInv'
  BY <1>4, RollUpKeepsJobs
<1>5. ASSUME NEW w \in Workers, CommitScores(w) PROVE JobInv'
  BY <1>5, CommitKeepsJobs
<1>6. ASSUME NEW w \in Workers,
             InvalidateAll(w) \/ InsertFault(w) \/ CommitFault(w) \/ Restart(w)
      PROVE  JobInv'
  <2>1. /\ score' = score /\ period' = period
        /\ job'[w] # "idle" => job[w] # "idle"
        /\ job'[w] # "commit"
        /\ \A v \in Workers : v # w => job'[v] = job[v] /\ fresh'[v] = fresh[v]
    BY <1>1, <1>6 DEF JobsOK, InvalidateAll, InsertFault, CommitFault, Restart
  <2> QED
    BY <1>2, <2>1
<1>7. CASE UNCHANGED <<score, jobVars>>
  BY <1>2, <1>7 DEF jobVars
<1> QED
  BY <1>3, <1>4, <1>5, <1>6, <1>7
     DEF Next, Submit, Flush, SubStep, CommitFeedback, SubmitFault, JobStep,
         EntryExpires, Drop, ReadStep, ReadFeedback, ReadScores, Ask, Midnight, vars

-----------------------------------------------------------------------------
\* The inductive invariant holds of every behaviour.
LEMMA Invariance == Spec => []IInv
<1>1. IInv /\ [Next]_vars => IInv'
  BY TypeStep, SubStepInv, JobStepInv, ScoreStep DEF IInv
<1> QED
  BY InitInvariant, <1>1, PTL DEF Spec

\* Every variable keeps its type, whatever the days, runs, users and requests.
THEOREM TypeCorrect == Spec => []TypeOK
<1>1. IInv => TypeOK
  BY DEF IInv
<1> QED
  BY Invariance, <1>1, PTL

\* A set whose elements are all the same has at most one.
LEMMA OneElement ==
    ASSUME NEW S, \A x, y \in S : x = y
    PROVE  Cardinality(S) = 0 \/ Cardinality(S) = 1
<1>1. CASE S = {}
  BY <1>1, FS_EmptySet
<1>2. CASE S # {}
  <2>1. PICK x \in S : S = {x}
    BY <1>2
  <2> QED
    BY <2>1, FS_Singleton
<1> QED
  BY <1>1, <1>2

\* A user has two rows for one run only if two of his submissions overlapped
\* (submit_feedback looks for a row, and the table has no key).
THEOREM OneFeedback == Spec => []OneFeedbackUnlessCrossed
<1>1. ASSUME IInv, NEW r \in Runs, NEW u \in Users, <<r, u>> \notin crossed
      PROVE  ~ (Cardinality(FeedbackOf(r, u)) > 1)
  <2>1. \A x, y \in FeedbackOf(r, u) : x = y
    BY <1>1 DEF IInv, SubInv, CrossAt, FeedbackOf, Stored
  <2>2. Cardinality(FeedbackOf(r, u)) = 0 \/ Cardinality(FeedbackOf(r, u)) = 1
    BY <2>1, OneElement
  <2> QED
    BY <2>2
<1>2. IInv => OneFeedbackUnlessCrossed
  BY <1>1 DEF OneFeedbackUnlessCrossed
<1> QED
  BY Invariance, <1>2, PTL

\* However many workers roll a day up, and whatever they repeat, a score that
\* is stored does not change (ON CONFLICT DO NOTHING).
THEOREM RerunsSafe == Spec => RerunsChangeNothing
<1>1. ASSUME IInv, [Next]_vars, NEW d \in Days, NEW a \in Agents, score[d][a] # {}
      PROVE  score'[d][a] = score[d][a]
  <2>1. ASSUME NEW w \in Workers, CommitScores(w) PROVE score'[d][a] = score[d][a]
    <3>1. CASE d = period[w]
      <4>1. score'[d][a] = score[d][a] \cup fresh[w][a]
        BY <1>1, <2>1, <3>1, ScoresStored
      <4>2. fresh[w][a] = {}
        BY <1>1, <2>1, <3>1, ScoresStored DEF IInv, JobInv, JobAt
      <4> QED
        BY <4>1, <4>2
    <3>2. CASE d # period[w]
      BY <1>1, <2>1, <3>2, ScoresStored
    <3> QED
      BY <3>1, <3>2
  <2> QED
    BY <1>1, <2>1, ScoresChange
<1>2. IInv /\ [Next]_vars =>
          \A d \in Days, a \in Agents : score[d][a] # {} => score'[d][a] = score[d][a]
  BY <1>1
<1> QED
  BY Invariance, <1>2, PTL DEF Spec, RerunsChangeNothing

\* A day that was rolled up counts all the feedback on its runs that was given
\* by the end of it (the job of a day begins when the day is over).
THEOREM FeedbackCounted == Spec => []OnTimeFeedbackCounted
<1>1. ASSUME IInv, NEW d \in rolled, NEW x \in Stored,
             RunDay[run[x]] = d, stored[x] <= d
      PROVE  x \in score[d][chosen[x]]
  <2>1. d \in Days /\ x \in Submissions
    BY <1>1 DEF IInv, TypeOK, Stored
  <2>2. chosen[x] \in Agents
    BY <1>1, <2>1 DEF IInv, SubInv, SubAt
  <2>3. OnTime(d, chosen[x]) \subseteq score[d][chosen[x]]
    BY <1>1, <2>1, <2>2 DEF IInv, ScoreInv, ScoreAt
  <2> QED
    BY <1>1, <2>3 DEF OnTime
<1>2. IInv => OnTimeFeedbackCounted
  BY <1>1 DEF OnTimeFeedbackCounted
<1> QED
  BY Invariance, <1>2, PTL

=============================================================================
