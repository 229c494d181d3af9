-------------------------- MODULE SharedRunsProofs --------------------------
(***************************************************************************)
(* Proofs about SharedRuns, for any runs, links, workers, viewers and       *)
(* revokers.  The inductive invariant says what a request holds at each     *)
(* point, that a run once done stays settled, and that a view which overlaps *)
(* a revocation is known to do so for as long as it can fill a cache.       *)
(***************************************************************************)
EXTENDS SharedRuns, TLAPS

\* A link that was made belongs to a run.
LinkAt(l) == link[l] # "absent" => runOf[l] \in Runs
\* A viewer's request is for a link that was made; what was done then is
\* settled since.
ViewAt(v) ==
    /\ view[v] # "idle" \/ v \in wasDone =>
          /\ opens[v] \in Links /\ at[v] \in Workers
          /\ link[opens[v]] # "absent"
    /\ v \in wasDone => /\ status[runOf[opens[v]]] \in {"done", "failed"}
                        /\ shown[v] \notin {"pending", "running"}
\* A revocation deletes the one row that its run had.
RevAt(x) == rev[x] = "commit" =>
    found[x] \in Links /\ link[found[x]] # "absent" /\ older[x] \subseteq {found[x]}

\* The views that can still fill in a link that is being, or was, revoked have
\* met the revocation, and the entries they made are known.
Dead(l) == Revoking(l) \/ link[l] = "revoked"
OverlapAt(l) ==
    /\ \A v \in Viewers : opens[v] = l =>
          /\ Revoking(l) /\ view[v] # "idle" => v \in mixed
          /\ link[l] = "revoked" /\ view[v] = "run" => v \in mixed
    /\ Dead(l) => /\ servedBy[l] \in Workers
                  /\ cache[servedBy[l]][l] # "absent" => <<servedBy[l], l>> \in raced

PointInv ==
    /\ \A l \in Links : LinkAt(l)
    /\ \A v \in Viewers : ViewAt(v)
    /\ \A x \in Revokers : RevAt(x)
OverlapInv == \A l \in Links : OverlapAt(l)

IInv == TypeOK /\ PointInv /\ OverlapInv

-----------------------------------------------------------------------------
\* Nothing has been shared, and nobody looks.
LEMMA InitInvariant == Init => IInv
<1> SUFFICES ASSUME Init PROVE IInv
  OBVIOUS
<1> USE DEF Init
<1>1. Run!TypeOK
  BY DEF Run!Init, Run!TypeOK, Run!Status
<1>2. TypeOK
  BY <1>1 DEF TypeOK, Run!Status
<1>3. PointInv
  BY DEF PointInv, LinkAt, ViewAt, RevAt
<1>4. OverlapInv
  BY DEF OverlapInv, OverlapAt, Dead, Revoking
<1> QED
  BY <1>2, <1>3, <1>4 DEF IInv

-----------------------------------------------------------------------------
(* The types *)

\* The parts of TypeOK: the links and caches, the views, the revocations.
LinksOK ==
    /\ link \in [Links -> {"absent", "live", "expired", "revoked"}]
    /\ runOf \in [Links -> Runs \cup {NoRun}]
    /\ cache \in [Workers -> [Links -> {"absent", "done"}]]
    /\ raced \subseteq Workers \X Links
ViewsOK ==
    /\ view \in [Viewers -> {"idle", "share", "run"}]
    /\ opens \in [Viewers -> Links \cup {NoLink}]
    /\ at \in [Viewers -> Workers \cup {NoWorker}]
    /\ shown \in [Viewers -> Run!Status]
    /\ wasDone \subseteq Viewers /\ mixed \subseteq Viewers
RevsOK ==
    /\ rev \in [Revokers -> {"idle", "commit"}]
    /\ found \in [Revokers -> Links \cup {NoLink}]
    /\ older \in [Revokers -> SUBSET Links]
    /\ servedBy \in [Links -> Workers \cup {NoWorker}]

\* TypeOK has these parts.
LEMMA Parts == TypeOK <=> Run!TypeOK /\ LinksOK /\ ViewsOK /\ RevsOK
BY DEF TypeOK, LinksOK, ViewsOK, RevsOK

\* A run goes from one status to another; once done it stays settled.
LEMMA RunMoves ==
    ASSUME Run!TypeOK, Run!Next
    PROVE  /\ Run!TypeOK'
           /\ \A r \in Runs : status[r] \in {"done", "failed"} =>
                                  status'[r] \in {"done", "failed"}
BY DEF Run!TypeOK, Run!Next, Run!Accept, Run!Begin, Run!Finish, Run!Fail,
       Run!Retract, Run!Move, Run!Status

\* Only a run's own steps change it.
LEMMA RunTypeStep == IInv /\ [Next]_vars => Run!TypeOK'
<1> SUFFICES ASSUME IInv, [Next]_vars PROVE Run!TypeOK'
  OBVIOUS
<1>1. Run!TypeOK
  BY DEF IInv, TypeOK
<1>2. CASE RunStep
  BY <1>1, <1>2, RunMoves DEF RunStep
<1>3. CASE UNCHANGED runVars
  BY <1>1, <1>3 DEF runVars, Run!TypeOK
<1> QED
  BY <1>2, <1>3
     DEF Next, CreateShare, LinkExpires, FindShare, Find, CommitRevoke, RevokeFault,
         Open, ViewStep, SelectShare, SelectRun, Answer, EntryExpires, DropEntry, vars

\* Links are made, expire and are deleted; entries are kept and dropped.
LEMMA LinksStep == IInv /\ [Next]_vars => LinksOK'
<1> SUFFICES ASSUME IInv, [Next]_vars PROVE LinksOK'
  OBVIOUS
<1>1. LinksOK
  BY DEF IInv, TypeOK, LinksOK
<1>2. ASSUME NEW l \in Links, NEW r \in Runs, CreateShare(l, r) PROVE LinksOK'
  BY <1>1, <1>2 DEF LinksOK, CreateShare, raceVars
<1>3. ASSUME NEW l \in Links, LinkExpires(l) PROVE LinksOK'
  BY <1>1, <1>3 DEF LinksOK, LinkExpires, raceVars
<1>4. ASSUME NEW x \in Revokers, NEW w \in Workers, NEW r \in Runs, FindShare(x, w, r)
      PROVE  LinksOK'
  BY <1>1, <1>4 DEF LinksOK, FindShare, Find, LinksOf, linkVars
<1>5. ASSUME NEW x \in Revokers, CommitRevoke(x) PROVE LinksOK'
  BY <1>1, <1>5 DEF LinksOK, CommitRevoke, raceVars
<1>6. ASSUME NEW v \in Viewers, SelectRun(v) PROVE LinksOK'
  <2>1. opens[v] \in Links /\ at[v] \in Workers
    BY <1>6 DEF IInv, PointInv, ViewAt, SelectRun, Answer
  <2> QED
    BY <1>1, <1>6, <2>1 DEF LinksOK, SelectRun, Answer, linkVars
<1>7. ASSUME NEW w \in Workers, NEW l \in Links, EntryExpires(w, l) PROVE LinksOK'
  BY <1>1, <1>7 DEF LinksOK, EntryExpires, DropEntry, linkVars
<1>8. CASE UNCHANGED <<linkVars, cache, raced>>
  BY <1>1, <1>8 DEF LinksOK, linkVars
<1> QED
  BY <1>2, <1>3, <1>4, <1>5, <1>6, <1>7, <1>8
     DEF Next, RunStep, RevokeFault, Open, ViewStep, SelectShare, vars, raceVars

\* A view is shown what a cache has, or the status of a run.
LEMMA ViewsStep == IInv /\ [Next]_vars => ViewsOK'
<1> SUFFICES ASSUME IInv, [Next]_vars PROVE ViewsOK'
  OBVIOUS
<1>1. ViewsOK /\ LinksOK /\ Run!TypeOK
  BY Parts DEF IInv
<1>2. ASSUME NEW v \in Viewers, NEW w \in Workers, NEW l \in Links, Open(v, w, l)
      PROVE  ViewsOK'
  <2>1. cache[w][l] \in Run!Status
    BY <1>1 DEF LinksOK, Run!Status
  <2> QED
    BY <1>1, <1>2, <2>1 DEF ViewsOK, Open
<1>3. ASSUME NEW v \in Viewers, SelectShare(v) PROVE ViewsOK'
  BY <1>1, <1>3 DEF ViewsOK, SelectShare, raceVars
<1>4. ASSUME NEW v \in Viewers, SelectRun(v) PROVE ViewsOK'
  <2>1. runOf[opens[v]] \in Runs
    BY <1>4 DEF IInv, PointInv, ViewAt, LinkAt, SelectRun, Answer
  <2>2. status[runOf[opens[v]]] \in Run!Status
    BY <1>1, <2>1 DEF Run!TypeOK
  <2> QED
    BY <1>1, <1>4, <2>2 DEF ViewsOK, SelectRun, Answer
<1>5. ASSUME NEW x \in Revokers, NEW w \in Workers, NEW r \in Runs, FindShare(x, w, r)
      PROVE  ViewsOK'
  BY <1>1, <1>5 DEF ViewsOK, FindShare, Find, viewVars
<1>6. CASE UNCHANGED <<viewVars, mixed>>
  BY <1>1, <1>6 DEF ViewsOK, viewVars
<1> QED
  BY <1>2, <1>3, <1>4, <1>5, <1>6
     DEF Next, RunStep, CreateShare, LinkExpires, CommitRevoke, RevokeFault, ViewStep,
         EntryExpires, DropEntry, vars, raceVars

\* A revocation finds a row, and ends.
LEMMA RevsStep == IInv /\ [Next]_vars => RevsOK'
<1> SUFFICES ASSUME IInv, [Next]_vars PROVE RevsOK'
  OBVIOUS
<1>1. RevsOK
  BY Parts DEF IInv
<1>2. ASSUME NEW x \in Revokers, NEW w \in Workers, NEW r \in Runs, FindShare(x, w, r)
      PROVE  RevsOK'
  BY <1>1, <1>2 DEF RevsOK, FindShare, Find, LinksOf
<1>3. ASSUME NEW x \in Revokers, CommitRevoke(x) \/ RevokeFault(x) PROVE RevsOK'
  BY <1>1, <1>3 DEF RevsOK, CommitRevoke, RevokeFault
<1>4. CASE UNCHANGED revVars
  BY <1>1, <1>4 DEF RevsOK, revVars
<1> QED
  BY <1>2, <1>3, <1>4
     DEF Next, RunStep, CreateShare, LinkExpires, Open, ViewStep, SelectShare,
         SelectRun, Answer, EntryExpires, DropEntry, vars

\* The parts are kept, and so is the whole.
LEMMA TypeStep == IInv /\ [Next]_vars => TypeOK'
<1> SUFFICES ASSUME IInv, [Next]_vars PROVE TypeOK'
  OBVIOUS
<1>1. Run!TypeOK' /\ LinksOK' /\ ViewsOK' /\ RevsOK'
  BY RunTypeStep, LinksStep, ViewsStep, RevsStep
<1> QED
  BY <1>1 DEF TypeOK, LinksOK, ViewsOK, RevsOK

-----------------------------------------------------------------------------
(* What a request holds *)

\* A link that was made stays, with its run; a settled run stays settled.
Lasting ==
    /\ \A l \in Links : link[l] # "absent" =>
          link'[l] # "absent" /\ runOf'[l] = runOf[l]
    /\ \A r \in Runs : status[r] \in {"done", "failed"} =>
          status'[r] \in {"done", "failed"}

\* No step takes back what a request has read.
LEMMA LastingStep == IInv /\ [Next]_vars => Lasting /\ \A l \in Links : LinkAt(l)'
<1> SUFFICES ASSUME IInv, [Next]_vars PROVE Lasting /\ \A l \in Links : LinkAt(l)'
  OBVIOUS
<1>1. LinksOK /\ RevsOK /\ Run!TypeOK /\ PointInv
  BY Parts DEF IInv
<1>2. CASE RunStep
  BY <1>1, <1>2, RunMoves DEF RunStep, Lasting, linkVars, PointInv, LinkAt
<1>3. ASSUME NEW l \in Links, NEW r \in Runs, CreateShare(l, r)
      PROVE  Lasting /\ \A k \in Links : LinkAt(k)'
  BY <1>1, <1>3 DEF LinksOK, CreateShare, Lasting, runVars, PointInv, LinkAt
<1>4. ASSUME NEW l \in Links, LinkExpires(l)
      PROVE  Lasting /\ \A k \in Links : LinkAt(k)'
  BY <1>1, <1>4 DEF LinksOK, LinkExpires, Lasting, runVars, PointInv, LinkAt
<1>5. ASSUME NEW x \in Revokers, CommitRevoke(x)
      PROVE  Lasting /\ \A k \in Links : LinkAt(k)'
  <2>1. found[x] \in Links /\ link[found[x]] # "absent"
    BY <1>1, <1>5 DEF PointInv, RevAt, CommitRevoke
  <2> QED
    BY <1>1, <1>5, <2>1 DEF LinksOK, CommitRevoke, Lasting, runVars, PointInv, LinkAt
<1>6. CASE UNCHANGED <<runVars, linkVars>>
  BY <1>1, <1>6 DEF Lasting, runVars, linkVars, PointInv, LinkAt
<1> QED
  BY <1>2, <1>3, <1>4, <1>5, <1>6
     DEF Next, FindShare, Find, RevokeFault, Open, ViewStep, SelectShare, SelectRun,
         Answer, EntryExpires, DropEntry, vars

\* A view opens a link that was made, and is shown a run that is done, or was.
LEMMA ViewStepInv == IInv /\ [Next]_vars => \A v \in Viewers : ViewAt(v)'
<1> SUFFICES ASSUME IInv, [Next]_vars PROVE \A v \in Viewers : ViewAt(v)'
  OBVIOUS
<1>1. LinksOK /\ ViewsOK /\ PointInv /\ Lasting
  BY Parts, LastingStep DEF IInv
<1>3. ASSUME NEW v \in Viewers,
             view'[v] # "idle" \/ v \in wasDone' => view[v] # "idle" \/ v \in wasDone,
             v \in wasDone' => v \in wasDone /\ shown'[v] \notin {"pending", "running"},
             opens'[v] = opens[v], at'[v] = at[v]
      PROVE  ViewAt(v)'
  <2> SUFFICES ASSUME view[v] # "idle" \/ v \in wasDone PROVE ViewAt(v)'
    BY <1>3 DEF ViewAt
  <2>1. /\ opens[v] \in Links /\ at[v] \in Workers /\ link[opens[v]] # "absent"
        /\ runOf[opens[v]] \in Runs
        /\ v \in wasDone => status[runOf[opens[v]]] \in {"done", "failed"}
    BY <1>1 DEF PointInv, ViewAt, LinkAt
  <2>2. link'[opens[v]] # "absent" /\ runOf'[opens[v]] = runOf[opens[v]]
    BY <1>1, <2>1 DEF Lasting
  <2>3. v \in wasDone => status'[runOf'[opens[v]]] \in {"done", "failed"}
    BY <1>1, <2>1, <2>2 DEF Lasting
  <2> QED
    BY <1>3, <2>1, <2>2, <2>3 DEF ViewAt
<1>4. ASSUME NEW v \in Viewers, view'[v] = view[v], opens'[v] = opens[v],
             at'[v] = at[v], shown'[v] = shown[v], v \in wasDone' <=> v \in wasDone
      PROVE  ViewAt(v)'
  <2>1. v \in wasDone => shown[v] \notin {"pending", "running"}
    BY <1>1 DEF PointInv, ViewAt
  <2> QED
    BY <1>3, <1>4, <2>1
<1>5. ASSUME NEW v \in Viewers, NEW w \in Workers, NEW l \in Links, Open(v, w, l),
             NEW u \in Viewers
      PROVE  ViewAt(u)'
  <2>1. CASE u = v
    <3>1. /\ opens'[v] = l /\ at'[v] = w /\ link'[l] # "absent" /\ link[l] # "absent"
          /\ shown'[v] \in {"absent", "done"}
          /\ v \in wasDone' => status[runOf[l]] = "done"
          /\ UNCHANGED <<status, runOf>>
      BY <1>1, <1>5 DEF Open, ViewsOK, LinksOK, linkVars, runVars
    <3>2. runOf[l] \in Runs
      BY <1>1, <3>1 DEF PointInv, LinkAt
    <3> QED
      BY <2>1, <3>1, <3>2 DEF ViewAt
  <2>2. CASE u # v
    BY <1>1, <1>4, <1>5, <2>2 DEF Open, ViewsOK
  <2> QED
    BY <2>1, <2>2
<1>6. ASSUME NEW v \in Viewers, SelectShare(v), NEW u \in Viewers PROVE ViewAt(u)'
  <2>1. /\ opens' = opens /\ at' = at /\ shown' = shown /\ wasDone' = wasDone
        /\ view[v] # "idle" /\ (u # v => view'[u] = view[u])
    BY <1>1, <1>6 DEF SelectShare, ViewsOK
  <2>2. u \in wasDone => shown[u] \notin {"pending", "running"}
    BY <1>1 DEF PointInv, ViewAt
  <2> QED
    BY <1>3, <2>1, <2>2
<1>7. ASSUME NEW v \in Viewers, SelectRun(v), NEW u \in Viewers PROVE ViewAt(u)'
  <2>1. /\ opens' = opens /\ at' = at /\ wasDone' = wasDone /\ view[v] = "run"
        /\ shown'[v] = status[runOf[opens[v]]]
        /\ u # v => view'[u] = view[u] /\ shown'[u] = shown[u]
    BY <1>1, <1>7 DEF SelectRun, Answer, ViewsOK
  <2>2. CASE u = v
    <3>1. u \in wasDone => shown'[u] \notin {"pending", "running"}
      BY <1>1, <2>1, <2>2 DEF PointInv, ViewAt
    <3> QED
      BY <1>3, <2>1, <2>2, <3>1
  <2>3. CASE u # v
    BY <1>4, <2>1, <2>3
  <2> QED
    BY <2>2, <2>3
<1>8. ASSUME UNCHANGED viewVars, NEW u \in Viewers PROVE ViewAt(u)'
  BY <1>4, <1>8 DEF viewVars
<1> QED
  BY <1>5, <1>6, <1>7, <1>8
     DEF Next, RunStep, CreateShare, LinkExpires, FindShare, Find, CommitRevoke,
         RevokeFault, ViewStep, EntryExpires, DropEntry, vars

\* A revocation goes on only if its run had one row, the one it has found.
LEMMA RevStepInv == IInv /\ [Next]_vars => \A x \in Revokers : RevAt(x)'
<1> SUFFICES ASSUME IInv, [Next]_vars, NEW x \in Revokers PROVE RevAt(x)'
  OBVIOUS
<1>1. LinksOK /\ RevsOK /\ PointInv /\ Lasting
  BY Parts, LastingStep DEF IInv
<1>2. ASSUME rev'[x] = "commit" => /\ rev[x] = "commit"
                                   /\ found'[x] = found[x] /\ older'[x] = older[x]
      PROVE  RevAt(x)'
  BY <1>1, <1>2 DEF PointInv, RevAt, Lasting
<1>3. ASSUME NEW y \in Revokers, NEW w \in Workers, NEW r \in Runs, FindShare(y, w, r)
      PROVE  RevAt(x)'
  <2>1. PICK l \in LinksOf(r) : LinksOf(r) = {l} /\ Find(y, w, l, {w})
    BY <1>3 DEF FindShare
  <2>2. CASE x = y
    <3>1. l \in Links /\ link[l] # "absent" /\ runOf[l] = r /\ link' = link
      BY <2>1 DEF LinksOf, RowExists, Find, linkVars
    <3>2. found'[x] = l /\ older'[x] = {l}
      BY <1>1, <2>1, <2>2, <3>1 DEF Find, RevsOK
    <3> QED
      BY <3>1, <3>2 DEF RevAt
  <2>3. CASE x # y
    BY <1>1, <1>2, <2>1, <2>3 DEF Find, RevsOK
  <2> QED
    BY <2>2, <2>3
<1>4. ASSUME NEW y \in Revokers, CommitRevoke(y) \/ RevokeFault(y) PROVE RevAt(x)'
  BY <1>1, <1>2, <1>4 DEF CommitRevoke, RevokeFault, RevsOK
<1>5. CASE UNCHANGED revVars
  BY <1>2, <1>5 DEF revVars
<1> QED
  BY <1>3, <1>4, <1>5
     DEF Next, RunStep, CreateShare, LinkExpires, Open, ViewStep, SelectShare,
         SelectRun, Answer, EntryExpires, DropEntry, vars

\* Links, views and revocations keep what they hold.
LEMMA PointStep == IInv /\ [Next]_vars => PointInv'
BY LastingStep, ViewStepInv, RevStepInv DEF PointInv

-----------------------------------------------------------------------------
(* Revocations and the views that overlap them *)

\* A step that starts no revocation of l and no view of it, and fills in no
\* entry of it, keeps what is known of l.
LEMMA OverlapKept ==
    ASSUME IInv, NEW l \in Links, servedBy'[l] = servedBy[l],
           Revoking(l)' => Revoking(l), link'[l] = "revoked" => Dead(l),
           \A v \in Viewers : opens'[v] = l /\ view'[v] # "idle" =>
               /\ opens[v] = l /\ view[v] # "idle" /\ (v \in mixed => v \in mixed')
               /\ view'[v] = "run" => view[v] = "run" \/ link[l] = "live",
           cache'[servedBy[l]][l] # "absent" =>
               \/ /\ cache[servedBy[l]][l] # "absent"
                  /\ <<servedBy[l], l>> \in raced => <<servedBy[l], l>> \in raced'
               \/ <<servedBy[l], l>> \in raced'
               \/ ~ Dead(l)
    PROVE  OverlapAt(l)'
<1>1. OverlapAt(l)
  BY DEF IInv, OverlapInv
<1>2. Dead(l)' => Dead(l)
  BY DEF Dead
<1>3. ASSUME NEW v \in Viewers, opens'[v] = l
      PROVE  /\ Revoking(l)' /\ view'[v] # "idle" => v \in mixed'
             /\ link'[l] = "revoked" /\ view'[v] = "run" => v \in mixed'
  BY <1>1, <1>3 DEF OverlapAt, Dead
<1>4. Dead(l)' => /\ servedBy'[l] \in Workers
                  /\ cache'[servedBy'[l]][l] # "absent" => <<servedBy'[l], l>> \in raced'
  BY <1>1, <1>2 DEF OverlapAt
<1> QED
  BY <1>3, <1>4 DEF OverlapAt

\* Requests that revoke: one finds its row, commits or fails.
LEMMA RevokeKeepsOverlap ==
    ASSUME IInv, NEW x \in Revokers, NEW k \in Links,
           \/ \E w \in Workers, r \in Runs : FindShare(x, w, r)
           \/ CommitRevoke(x) \/ RevokeFault(x)
    PROVE  OverlapAt(k)'
<1>1. LinksOK /\ RevsOK /\ PointInv
  BY Parts DEF IInv
<1>2. ASSUME NEW w \in Workers, NEW r \in Runs, FindShare(x, w, r) PROVE OverlapAt(k)'
  <2>1. PICK l \in LinksOf(r) : Find(x, w, l, {w})
    BY <1>2 DEF FindShare
  <2>2. /\ l \in Links /\ link[l] # "revoked"
        /\ UNCHANGED <<view, opens, link>>
        /\ servedBy' = [servedBy EXCEPT ![l] = w] /\ found' = [found EXCEPT ![x] = l]
        /\ rev' = [rev EXCEPT ![x] = "commit"] /\ rev[x] = "idle"
        /\ cache' = [u \in Workers |-> IF u \in {w} THEN [cache[u] EXCEPT ![l] = "absent"]
                                                    ELSE cache[u]]
        /\ raced' = {e \in raced : ~(e[1] \in {w} /\ e[2] = l)}
        /\ mixed' = mixed \cup {v \in Viewers : view[v] # "idle" /\ opens[v] = l}
    BY <2>1 DEF LinksOf, RowExists, Find, linkVars, viewVars
  <2>3. CASE k = l
    <3>1. servedBy'[l] = w /\ cache'[w][l] = "absent"
      BY <1>1, <2>2 DEF LinksOK, RevsOK
    <3>2. link'[l] # "revoked"
      BY <2>2
    <3>3. \A v \in Viewers : opens'[v] = l /\ view'[v] # "idle" => v \in mixed'
      BY <2>2
    <3> QED
      BY <2>3, <3>1, <3>2, <3>3 DEF OverlapAt
  <2>4. CASE k # l
    <3>1. servedBy'[k] = servedBy[k]
      BY <1>1, <2>2, <2>4 DEF RevsOK
    <3>2. Revoking(k)' => Revoking(k)
      BY <1>1, <2>2, <2>4 DEF Revoking, RevsOK
    <3>3. OverlapAt(k)
      BY DEF IInv, OverlapInv
    <3>4. ASSUME NEW u \in Workers
          PROVE  cache'[u][k] = cache[u][k] /\ (<<u, k>> \in raced => <<u, k>> \in raced')
      BY <1>1, <2>2, <2>4 DEF LinksOK
    <3>5. Dead(k) => servedBy[k] \in Workers
      BY <3>3 DEF OverlapAt
    <3>6. link'[k] = "revoked" => Dead(k)
      BY <2>2 DEF Dead
    <3>7. \A v \in Viewers : opens'[v] = k /\ view'[v] # "idle" =>
               /\ opens[v] = k /\ view[v] # "idle" /\ (v \in mixed => v \in mixed')
               /\ view'[v] = "run" => view[v] = "run" \/ link[k] = "live"
      BY <2>2
    <3> QED
      BY <3>1, <3>2, <3>4, <3>5, <3>6, <3>7, OverlapKept
  <2> QED
    BY <2>3, <2>4
<1>3. ASSUME CommitRevoke(x) \/ RevokeFault(x) PROVE OverlapAt(k)'
  <2>1. /\ UNCHANGED <<view, opens, servedBy, cache, mixed, raced>> /\ rev[x] = "commit"
        /\ rev' = [rev EXCEPT ![x] = "idle"] /\ found' = [found EXCEPT ![x] = NoLink]
        /\ link' = link \/ link' = [link EXCEPT ![found[x]] = "revoked"]
    BY <1>3 DEF CommitRevoke, RevokeFault, viewVars, raceVars, linkVars
  <2>2. Revoking(k)' => Revoking(k)
    BY <1>1, <2>1 DEF Revoking, RevsOK
  <2>3. link'[k] = "revoked" => Dead(k)
    BY <1>1, <2>1 DEF Dead, Revoking, LinksOK
  <2> QED
    BY <2>1, <2>2, <2>3, OverlapKept
<1> QED
  BY <1>2, <1>3

\* Requests that view: one opens a link, reads the row, or reads the run.
LEMMA ViewKeepsOverlap ==
    ASSUME IInv, NEW v \in Viewers, NEW k \in Links,
           \/ \E w \in Workers, l \in Links : Open(v, w, l)
           \/ ViewStep(v)
    PROVE  OverlapAt(k)'
<1>1. LinksOK /\ RevsOK /\ ViewsOK /\ PointInv /\ OverlapAt(k)
  BY Parts DEF IInv, OverlapInv
<1>2. ASSUME NEW w \in Workers, NEW l \in Links, Open(v, w, l) PROVE OverlapAt(k)'
  <2>1. /\ UNCHANGED <<link, cache, rev, found, servedBy, raced>>
        /\ view'[v] # "run" /\ opens'[v] = l
        /\ \A u \in Viewers : u # v => /\ view'[u] = view[u] /\ opens'[u] = opens[u]
                                       /\ (u \in mixed' <=> u \in mixed)
        /\ mixed' = IF Revoking(l) THEN mixed \cup {v} ELSE mixed \ {v}
    BY <1>1, <1>2 DEF Open, ViewsOK, linkVars, revVars
  <2>2. Revoking(k)' <=> Revoking(k)
    BY <2>1 DEF Revoking
  <2>3. Dead(k)' => /\ servedBy'[k] \in Workers
                    /\ cache'[servedBy'[k]][k] # "absent" => <<servedBy'[k], k>> \in raced'
    BY <1>1, <2>1, <2>2 DEF OverlapAt, Dead
  <2>4. ASSUME NEW u \in Viewers, opens'[u] = k
        PROVE  /\ Revoking(k)' /\ view'[u] # "idle" => u \in mixed'
               /\ link'[k] = "revoked" /\ view'[u] = "run" => u \in mixed'
    <3>1. CASE u = v
      BY <2>1, <2>2, <2>4, <3>1
    <3>2. CASE u # v
      BY <1>1, <2>1, <2>2, <2>4, <3>2 DEF OverlapAt
    <3> QED
      BY <3>1, <3>2
  <2> QED
    BY <2>3, <2>4 DEF OverlapAt
<1>3. ASSUME SelectShare(v) PROVE OverlapAt(k)'
  <2>1. /\ UNCHANGED <<link, cache, opens, rev, found, servedBy, raced, mixed>>
        /\ view[v] = "share"
        /\ view' = [view EXCEPT ![v] = IF link[opens[v]] = "live" THEN "run" ELSE "idle"]
    BY <1>3 DEF SelectShare, linkVars, revVars, raceVars
  <2>2. Revoking(k)' => Revoking(k)
    BY <2>1 DEF Revoking
  <2>3. link'[k] = "revoked" => Dead(k)
    BY <2>1 DEF Dead
  <2>4. \A u \in Viewers : opens'[u] = k /\ view'[u] # "idle" =>
             /\ opens[u] = k /\ view[u] # "idle" /\ (u \in mixed => u \in mixed')
             /\ view'[u] = "run" => view[u] = "run" \/ link[k] = "live"
    BY <1>1, <2>1 DEF ViewsOK
  <2> QED
    BY <2>1, <2>2, <2>3, <2>4, OverlapKept
<1>4. ASSUME SelectRun(v) PROVE OverlapAt(k)'
  <2>1. /\ UNCHANGED <<link, opens, rev, found, servedBy, mixed>> /\ view[v] = "run"
        /\ view' = [view EXCEPT ![v] = "idle"]
        /\ \/ cache' = cache /\ raced' = raced
           \/ /\ cache' = [cache EXCEPT ![at[v]][opens[v]] = "done"]
              /\ raced' = (raced \ {<<at[v], opens[v]>>})
                      \cup (IF v \in mixed THEN {<<at[v], opens[v]>>} ELSE {})
    BY <1>4 DEF SelectRun, Answer, linkVars, revVars
  <2>2. Revoking(k)' => Revoking(k)
    BY <2>1 DEF Revoking
  <2>3. link'[k] = "revoked" => Dead(k)
    BY <2>1 DEF Dead
  <2>4. \A u \in Viewers : opens'[u] = k /\ view'[u] # "idle" =>
             /\ opens[u] = k /\ view[u] # "idle" /\ (u \in mixed => u \in mixed')
             /\ view'[u] = "run" => view[u] = "run" \/ link[k] = "live"
    BY <1>1, <2>1 DEF ViewsOK
  <2>5. ASSUME Dead(k), cache'[servedBy[k]][k] # "absent"
        PROVE  \/ /\ cache[servedBy[k]][k] # "absent"
                  /\ <<servedBy[k], k>> \in raced => <<servedBy[k], k>> \in raced'
               \/ <<servedBy[k], k>> \in raced'
    <3>1. servedBy[k] \in Workers
      BY <1>1, <2>5 DEF OverlapAt
    <3>2. CASE opens[v] = k /\ at[v] = servedBy[k]
      <4>1. v \in mixed
        BY <1>1, <2>1, <2>5, <3>2 DEF OverlapAt, Dead
      <4> QED
        BY <2>1, <2>5, <3>2, <4>1
    <3>3. CASE ~ (opens[v] = k /\ at[v] = servedBy[k])
      <4>1. cache'[servedBy[k]][k] = cache[servedBy[k]][k]
        BY <1>1, <2>1, <3>1, <3>3 DEF LinksOK
      <4>2. <<servedBy[k], k>> \in raced => <<servedBy[k], k>> \in raced'
        BY <2>1, <3>3
      <4> QED
        BY <2>5, <4>1, <4>2
    <3> QED
      BY <3>2, <3>3
  <2> QED
    BY <2>1, <2>2, <2>3, <2>4, <2>5, OverlapKept
<1> QED
  BY <1>2, <1>3, <1>4 DEF ViewStep

\* Nothing else touches a revocation, a view or an entry.
LEMMA OverlapStep == IInv /\ [Next]_vars => OverlapInv'
<1> SUFFICES ASSUME IInv, [Next]_vars, NEW k \in Links PROVE OverlapAt(k)'
  BY DEF OverlapInv
<1>1. LinksOK /\ OverlapAt(k)
  BY Parts DEF IInv, OverlapInv
<1>2. ASSUME NEW x \in Revokers,
             \/ \E w \in Workers, r \in Runs : FindShare(x, w, r)
             \/ CommitRevoke(x) \/ RevokeFault(x)
      PROVE  OverlapAt(k)'
  BY <1>2, RevokeKeepsOverlap
<1>3. ASSUME NEW v \in Viewers,
             (\E w \in Workers, l \in Links : Open(v, w, l)) \/ ViewStep(v)
      PROVE  OverlapAt(k)'
  BY <1>3, ViewKeepsOverlap
<1>4. ASSUME UNCHANGED <<cache, viewVars, revVars, raceVars>>,
             link'[k] = "revoked" => link[k] = "revoked"
      PROVE  OverlapAt(k)'
  BY <1>1, <1>4 DEF OverlapAt, Dead, Revoking, viewVars, revVars, raceVars
<1>5. ASSUME NEW l \in Links, NEW r \in Runs, CreateShare(l, r) PROVE OverlapAt(k)'
  BY <1>1, <1>4, <1>5 DEF CreateShare, LinksOK
<1>6. ASSUME NEW l \in Links, LinkExpires(l) PROVE OverlapAt(k)'
  BY <1>1, <1>4, <1>6 DEF LinkExpires, LinksOK
<1>7. ASSUME NEW w \in Workers, NEW l \in Links, EntryExpires(w, l) PROVE OverlapAt(k)'
  <2>1. /\ cache' = [cache EXCEPT ![w][l] = "absent"] /\ raced' = raced \ {<<w, l>>}
        /\ UNCHANGED <<link, view, opens, rev, found, servedBy, mixed>>
    BY <1>7 DEF EntryExpires, DropEntry, linkVars, viewVars, revVars
  <2>2. ASSUME NEW u \in Workers, cache'[u][k] # "absent"
        PROVE  cache[u][k] # "absent" /\ (<<u, k>> \in raced => <<u, k>> \in raced')
    BY <1>1, <2>1, <2>2 DEF LinksOK
  <2> QED
    BY <1>1, <2>1, <2>2 DEF OverlapAt, Dead, Revoking
<1>8. CASE RunStep
  BY <1>4, <1>8 DEF RunStep, linkVars
<1>9. CASE UNCHANGED vars
  BY <1>4, <1>9 DEF vars, linkVars
<1> QED
  BY <1>2, <1>3, <1>5, <1>6, <1>7, <1>8, <1>9 DEF Next

-----------------------------------------------------------------------------
\* The inductive invariant holds of every behaviour.
LEMMA Invariance == Spec => []IInv
<1>1. IInv /\ [Next]_vars => IInv'
  BY TypeStep, PointStep, OverlapStep DEF IInv
<1> QED
  BY InitInvariant, <1>1, PTL DEF Spec

\* Every variable keeps its type, whatever the runs, links and requests.
THEOREM TypeCorrect == Spec => []TypeOK
<1>1. IInv => TypeOK
  BY DEF IInv
<1> QED
  BY Invariance, <1>1, PTL

\* A link opened after its run was done never shows it unfinished
\* (view_shared keeps only finished runs in the cache).
THEOREM VerdictSeen == Spec => []ViewSeesVerdict
<1>1. IInv => ViewSeesVerdict
  BY DEF IInv, TypeOK, PointInv, ViewAt, ViewSeesVerdict
<1> QED
  BY Invariance, <1>1, PTL

\* In the process that served its revocation, a revoked link is cached only by
\* a view that overlapped the revocation (revoke_share drops the entry before
\* the row's deletion commits).
THEOREM RevokedKept == Spec => []RevokedKeptOnlyAfterRace
<1>1. IInv => RevokedKeptOnlyAfterRace
  BY DEF IInv, OverlapInv, OverlapAt, Dead, RevokedKeptOnlyAfterRace
<1> QED
  BY Invariance, <1>1, PTL

\* A revocation leaves its run no link that is older than its look-up
\* (scalar_one_or_none in revoke_share raises when there are several rows).
THEOREM RevokeLeavesNewer == Spec => RevokeLeavesOnlyNewer
<1>1. ASSUME IInv, NEW x \in Revokers, CommitRevoke(x), NEW l \in older[x]
      PROVE  link'[l] = "revoked"
  <2>1. found[x] \in Links /\ l = found[x]
    BY <1>1 DEF IInv, PointInv, RevAt, CommitRevoke
  <2> QED
    BY <1>1, <2>1 DEF IInv, TypeOK, CommitRevoke
<1>2. IInv => \A x \in Revokers :
          CommitRevoke(x) => \A l \in older[x] : link'[l] = "revoked"
  BY <1>1
<1> QED
  BY Invariance, <1>2, PTL DEF RevokeLeavesOnlyNewer

=============================================================================
