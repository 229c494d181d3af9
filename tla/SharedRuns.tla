----------------------------- MODULE SharedRuns -----------------------------
(***************************************************************************)
(* The links by which a run is shared with people who have no account: made *)
(* and revoked by members, viewed by anybody (routers/all_routers.py), with  *)
(* the finished runs kept in a cache of each worker process                 *)
(* (middleware/cache.py).  The runs themselves live as RunLifecycle says.   *)
(*                                                                          *)
(* A handler's deletion takes effect when get_db commits, after the handler *)
(* has returned; what it does to the cache takes effect at once.            *)
(***************************************************************************)
EXTENDS Integers, FiniteSets

CONSTANTS
    Runs,         \* the runs that may be shared
    Links,        \* the rows of decision_shares that may be created
    Workers,      \* the worker processes, each with a cache of its own
    Viewers,      \* those who open links, one at a time each
    Revokers,     \* those who revoke shares, one at a time each
    NoRun, NoLink, NoWorker

VARIABLES
    status, verdict, \* the runs
    link,       \* "absent", "live", "expired" or, once deleted, "revoked"
    runOf,      \* run_id of the row
    cache,      \* cache[w][l]: the status of the run kept for l, or "absent"
    (* view_shared *)
    view,       \* where each viewer's request is
    opens,      \* the link it opens
    at,         \* the worker process that serves it
    shown,      \* the status of the run it was shown, "absent" if refused
    (* revoke_share *)
    rev,        \* where each revocation is
    found,      \* the row it has found, to delete
    (* history *)
    older,      \* the rows that the run had when the revocation looked
    servedBy,   \* the worker whose cache the revocation of l has invalidated
    wasDone,    \* viewers whose link's run was done when they began
    mixed,      \* viewers who met a revocation of their link under way
    raced       \* cache entries <<w, l>> that such a viewer's request made

runVars == <<status, verdict>>
linkVars == <<link, runOf>>
viewVars == <<view, opens, at, shown, wasDone>>
revVars == <<rev, found, older, servedBy>>
raceVars == <<mixed, raced>>
vars == <<runVars, linkVars, cache, viewVars, revVars, raceVars>>

Run == INSTANCE RunLifecycle WITH Retractable <- TRUE

TypeOK ==
    /\ Run!TypeOK
    /\ link \in [Links -> {"absent", "live", "expired", "revoked"}]
    /\ runOf \in [Links -> Runs \cup {NoRun}]
    /\ cache \in [Workers -> [Links -> {"absent", "done"}]]
    /\ view \in [Viewers -> {"idle", "share", "run"}]
    /\ opens \in [Viewers -> Links \cup {NoLink}]
    /\ at \in [Viewers -> Workers \cup {NoWorker}]
    /\ shown \in [Viewers -> Run!Status]
    /\ rev \in [Revokers -> {"idle", "commit"}]
    /\ found \in [Revokers -> Links \cup {NoLink}]
    /\ older \in [Revokers -> SUBSET Links]
    /\ servedBy \in [Links -> Workers \cup {NoWorker}]
    /\ wasDone \subseteq Viewers /\ mixed \subseteq Viewers
    /\ raced \subseteq Workers \X Links

Init ==
    /\ Run!Init
    /\ link = [l \in Links |-> "absent"] /\ runOf = [l \in Links |-> NoRun]
    /\ cache = [w \in Workers |-> [l \in Links |-> "absent"]]
    /\ view = [v \in Viewers |-> "idle"] /\ opens = [v \in Viewers |-> NoLink]
    /\ at = [v \in Viewers |-> NoWorker] /\ shown = [v \in Viewers |-> "absent"]
    /\ rev = [x \in Revokers |-> "idle"] /\ found = [x \in Revokers |-> NoLink]
    /\ older = [x \in Revokers |-> {}]
    /\ servedBy = [l \in Links |-> NoWorker]
    /\ wasDone = {} /\ mixed = {} /\ raced = {}

-----------------------------------------------------------------------------
(* Helpers.  Definitions named "wrong variant" are not used: put in the     *)
(* place of the next definition of the same kind they break a property,     *)
(* which shows what the property says about the code.                       *)

RowExists(l) == link[l] \in {"live", "expired"}
LinksOf(r) == {l \in Links : RowExists(l) /\ runOf[l] = r}
Revoking(l) == \E x \in Revokers : rev[x] = "commit" /\ found[x] = l

RunStep == Run!Next /\ UNCHANGED <<linkVars, cache, viewVars, revVars, raceVars>>

-----------------------------------------------------------------------------
(* create_share: a run may be shared any number of times *)

CreateShare(l, r) ==
    /\ link[l] = "absent" /\ status[r] # "absent"
    /\ link' = [link EXCEPT ![l] = "live"]
    /\ runOf' = [runOf EXCEPT ![l] = r]
    /\ UNCHANGED <<runVars, cache, viewVars, revVars, raceVars>>

\* The time that the link was given is over; the row stays.
LinkExpires(l) ==
    /\ link[l] = "live" /\ link' = [link EXCEPT ![l] = "expired"]
    /\ UNCHANGED <<runVars, runOf, cache, viewVars, revVars, raceVars>>

-----------------------------------------------------------------------------
(* revoke_share *)

\* The run's only row is found, and the entries of the workers in W dropped.
Find(x, w, l, W) ==
    /\ rev[x] = "idle" /\ rev' = [rev EXCEPT ![x] = "commit"]
    /\ found' = [found EXCEPT ![x] = l]
    /\ older' = [older EXCEPT ![x] = LinksOf(runOf[l])]
    /\ servedBy' = [servedBy EXCEPT ![l] = w]
    /\ cache' = [u \in Workers |-> IF u \in W THEN [cache[u] EXCEPT ![l] = "absent"]
                                              ELSE cache[u]]
    /\ raced' = {e \in raced : ~(e[1] \in W /\ e[2] = l)}
    /\ mixed' = mixed \cup {v \in Viewers : view[v] # "idle" /\ opens[v] = l}
    /\ UNCHANGED <<runVars, linkVars, viewVars>>

\* Wrong variant of FindShare: the cache is left alone.
FindShareOnly(x, w, r) == \E l \in LinksOf(r) : LinksOf(r) = {l} /\ Find(x, w, l, {})

\* Wrong variant of FindShare: the first of the rows is taken.
FindFirstShare(x, w, r) == \E l \in LinksOf(r) : Find(x, w, l, {w})

\* No row answers 404; more than one make scalar_one_or_none raise.
FindShare(x, w, r) == \E l \in LinksOf(r) : LinksOf(r) = {l} /\ Find(x, w, l, {w})

CommitRevoke(x) ==
    /\ rev[x] = "commit" /\ rev' = [rev EXCEPT ![x] = "idle"]
    /\ link' = [link EXCEPT ![found[x]] = "revoked"]
    /\ found' = [found EXCEPT ![x] = NoLink]
    /\ older' = [older EXCEPT ![x] = {}]
    /\ UNCHANGED <<runVars, runOf, cache, viewVars, servedBy, raceVars>>

\* A database call fails: the session is rolled back.
RevokeFault(x) ==
    /\ rev[x] = "commit" /\ rev' = [rev EXCEPT ![x] = "idle"]
    /\ found' = [found EXCEPT ![x] = NoLink]
    /\ older' = [older EXCEPT ![x] = {}]
    /\ UNCHANGED <<runVars, linkVars, cache, viewVars, servedBy, raceVars>>

-----------------------------------------------------------------------------
(* view_shared *)

\* The cache is asked first: an entry is the answer, whatever the row says.
Open(v, w, l) ==
    LET hit == cache[w][l] # "absent"
    IN  /\ view[v] = "idle" /\ link[l] # "absent"
        /\ view' = [view EXCEPT ![v] = IF hit THEN "idle" ELSE "share"]
        /\ shown' = [shown EXCEPT ![v] = cache[w][l]]
        /\ opens' = [opens EXCEPT ![v] = l] /\ at' = [at EXCEPT ![v] = w]
        /\ wasDone' = IF status[runOf[l]] = "done" THEN wasDone \cup {v}
                                                   ELSE wasDone \ {v}
        /\ mixed' = IF Revoking(l) THEN mixed \cup {v} ELSE mixed \ {v}
        /\ UNCHANGED <<runVars, linkVars, cache, revVars, raced>>

\* SELECT the row: none answers 404, an expired one 410.
SelectShare(v) ==
    /\ view[v] = "share"
    /\ view' = [view EXCEPT ![v] = IF link[opens[v]] = "live" THEN "run" ELSE "idle"]
    /\ UNCHANGED <<runVars, linkVars, cache, opens, at, shown, wasDone,
                   revVars, raceVars>>

\* SELECT the run, keep it if its status is in Keep, and answer with it.
Answer(v, Keep) ==
    LET l == opens[v]
        now == status[runOf[l]]
    IN  /\ view[v] = "run" /\ view' = [view EXCEPT ![v] = "idle"]
        /\ shown' = [shown EXCEPT ![v] = now]
        /\ cache' = IF now \in Keep THEN [cache EXCEPT ![at[v]][l] = now] ELSE cache
        /\ raced' = IF now \in Keep
                    THEN (raced \ {<<at[v], l>>})
                            \cup (IF v \in mixed THEN {<<at[v], l>>} ELSE {})
                    ELSE raced
        /\ UNCHANGED <<runVars, linkVars, opens, at, wasDone, revVars, mixed>>

\* Wrong variant of SelectRun: runs are kept whatever their status.
SelectRunAny(v) == Answer(v, Run!Status)

\* Only finished runs are kept.
SelectRun(v) == Answer(v, {"done"})

-----------------------------------------------------------------------------
(* The cache's own clock: an entry is kept for two minutes *)

DropEntry(w, l) ==
    /\ cache[w][l] # "absent" /\ cache' = [cache EXCEPT ![w][l] = "absent"]
    /\ raced' = raced \ {<<w, l>>}
    /\ UNCHANGED <<runVars, linkVars, viewVars, revVars, mixed>>

\* Wrong variant of EntryExpires: each use of an entry renews its time.
EntryExpiresUnused(w, l) ==
    (\A v \in Viewers : at[v] # w \/ opens[v] # l) /\ DropEntry(w, l)

EntryExpires(w, l) == DropEntry(w, l)

-----------------------------------------------------------------------------
ViewStep(v) == SelectShare(v) \/ SelectRun(v)

Next ==
    \/ RunStep
    \/ \E l \in Links : LinkExpires(l) \/ \E r \in Runs : CreateShare(l, r)
    \/ \E x \in Revokers : \/ \E w \in Workers, r \in Runs : FindShare(x, w, r)
                           \/ CommitRevoke(x) \/ RevokeFault(x)
    \/ \E v \in Viewers : \/ \E w \in Workers, l \in Links : Open(v, w, l)
                          \/ ViewStep(v)
    \/ \E w \in Workers, l \in Links : EntryExpires(w, l)

Spec == Init /\ [][Next]_vars

\* Requests that have begun go on, and entries age; nobody need do anything.
FairSpec ==
    /\ Spec
    /\ \A v \in Viewers : WF_vars(ViewStep(v))
    /\ \A w \in Workers, l \in Links : WF_vars(EntryExpires(w, l))

-----------------------------------------------------------------------------
(* Properties *)

\* A link opened after its run was done shows it settled, never what a cache
\* has kept from before (view_shared keeps finished runs only).
ViewSeesVerdict == \A v \in wasDone : shown[v] \notin {"pending", "running"}

\* A revocation leaves its run no link that is older than its look-up: it
\* does not answer 204 while another link goes on showing the run
\* (scalar_one_or_none in revoke_share raises when there are several).
RevokeLeavesOnlyNewer == [][\A x \in Revokers :
    CommitRevoke(x) => \A l \in older[x] : link'[l] = "revoked"]_vars

\* In the worker process that served a revocation, the revoked link is in the
\* cache only if a view overlapped the revocation: it began, or was between
\* its look-up and its answer, while the revocation was between its
\* invalidation and its commit.
RevokedKeptOnlyAfterRace == \A l \in Links :
    link[l] = "revoked" /\ cache[servedBy[l]][l] # "absent"
        => <<servedBy[l], l>> \in raced

\* A link that is revoked or expired is, some time later, in no cache for good.
DeadLinksFade == \A l \in Links :
    <>[](link[l] \in {"expired", "revoked"} =>
            \A w \in Workers : cache[w][l] = "absent")
=============================================================================
