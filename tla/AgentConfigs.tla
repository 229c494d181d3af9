---------------------------- MODULE AgentConfigs ----------------------------
(***************************************************************************)
(* The agent configurations of one organisation: their creation and their   *)
(* activation (routers/all_routers.py), the cache of the active ones that   *)
(* each worker process keeps (middleware/cache.py), and the reads of runs   *)
(* and chats through it (_get_active_configs in services/run_service.py).   *)
(*                                                                          *)
(* A handler's session commits only after the handler has returned          *)
(* (core/database.py), so what activation invalidates and what it stores    *)
(* change at different moments.  SQLAlchemy emits an UPDATE for a row only  *)
(* if the value it is left with differs from the one that was loaded.       *)
(***************************************************************************)
EXTENDS Integers, FiniteSets

CONSTANTS
    Agents,       \* the agents that can be configured
    Configs,      \* the configuration rows that may be created
    AgentOf,      \* AgentOf[c]: the agent configuration c is for
    NoConfig,     \* no configuration: the hardcoded prompt is used
    Workers,      \* the worker processes, each with a cache of its own
    Activations,  \* the activation requests that may be made
    Readers       \* the runs and chats that load configurations

ASSUME AgentOfAssumption == AgentOf \in [Configs -> Agents]
ASSUME NoConfigAssumption == NoConfig \notin Configs
ASSUME ConfigsAssumption == IsFiniteSet(Configs)

VARIABLES
    (* the database, as committed *)
    version,     \* agent_configs.version; 0: the row was not created
    active,      \* the rows with is_active set
    (* creation requests: one for each row *)
    create,      \* where admin_create_config is for this row
    newVersion,  \* the version it has chosen
    (* activation requests *)
    act,         \* where admin_activate_config is
    target,      \* the configuration it is to activate
    wasActive,   \* is_active of that row when it was loaded
    prev,        \* the active rows it has read, to deactivate
    (* the caches, and their readers *)
    cache,       \* cache[w][a]: worker w's entry for agent a, or NoConfig
    rd,          \* where _get_active_configs is
    at,          \* the worker process it runs in
    got,         \* the configurations it has for the agents
    missing,     \* the agents that were not in the cache
    (* history *)
    met,         \* the activations that were under way during this one
    last,        \* last[a]: the activation of a configuration of a that
                 \* committed last, or NoConfig
    mixed,       \* readers that an activation overlapped since they began
    raced        \* cache entries <<w, a>> that such a reader filled in, or
                 \* that outlived an activation served by another process

createVars == <<version, create, newVersion>>
actVars == <<act, target, wasActive, prev, met, last>>
readVars == <<rd, at, got, missing, mixed>>
cacheVars == <<cache, raced>>
vars == <<active, createVars, actVars, readVars, cacheVars>>

Entry == Configs \cup {NoConfig}
ActLive == {"loaded", "commit"}

TypeOK ==
    /\ version \in [Configs -> Nat] /\ newVersion \in [Configs -> Nat]
    /\ active \subseteq Configs
    /\ create \in [Configs -> {"absent", "insert", "created"}]
    /\ act \in [Activations -> {"idle", "answered", "error"} \cup ActLive]
    /\ target \in [Activations -> Entry]
    /\ wasActive \in [Activations -> BOOLEAN]
    /\ prev \in [Activations -> SUBSET Configs]
    /\ met \in [Activations -> SUBSET Activations]
    /\ last \in [Agents -> Activations \cup {NoConfig}]
    /\ cache \in [Workers -> [Agents -> Entry]]
    /\ raced \subseteq Workers \X Agents
    /\ rd \in [Readers -> {"idle", "query", "fill", "done"}]
    /\ at \in [Readers -> Workers]
    /\ got \in [Readers -> [Agents -> Entry]]
    /\ missing \in [Readers -> SUBSET Agents]
    /\ mixed \subseteq Readers

Init ==
    /\ version = [c \in Configs |-> 0] /\ newVersion = [c \in Configs |-> 0]
    /\ active = {}
    /\ create = [c \in Configs |-> "absent"]
    /\ act = [x \in Activations |-> "idle"]
    /\ target = [x \in Activations |-> NoConfig]
    /\ wasActive = [x \in Activations |-> FALSE]
    /\ prev = [x \in Activations |-> {}]
    /\ met = [x \in Activations |-> {}]
    /\ last = [a \in Agents |-> NoConfig]
    /\ cache = [w \in Workers |-> [a \in Agents |-> NoConfig]]
    /\ raced = {}
    /\ rd = [r \in Readers |-> "idle"]
    /\ at \in [Readers -> Workers]
    /\ got = [r \in Readers |-> [a \in Agents |-> NoConfig]]
    /\ missing = [r \in Readers |-> {}]
    /\ mixed = {}

-----------------------------------------------------------------------------
(* Helpers.  Definitions named "wrong variant" are not used: put in the     *)
(* place of the next definition of the same kind they break a property,     *)
(* which shows what the property says about the code.                       *)

Created == {c \in Configs : create[c] = "created"}
ConfigsOf(a) == {c \in Configs : AgentOf[c] = a}
ActiveOf(a) == active \cap ConfigsOf(a)

UnderWay == {x \in Activations : act[x] \in ActLive}

\* Wrong variant of LastVersion: the rows are counted, as in create_run.
CountVersions(a) == Cardinality(Created \cap ConfigsOf(a))

\* max(version) over the rows of the agent, 0 when there are none.
LastVersion(a) ==
    LET used == {version[c] : c \in Created \cap ConfigsOf(a)} \cup {0}
    IN  CHOOSE v \in used : \A u \in used : u <= v

-----------------------------------------------------------------------------
(* admin_create_config *)

ReadLastVersion(c) ==
    /\ create[c] = "absent" /\ create' = [create EXCEPT ![c] = "insert"]
    /\ newVersion' = [newVersion EXCEPT ![c] = LastVersion(AgentOf[c]) + 1]
    /\ UNCHANGED <<version, active, actVars, readVars, cacheVars>>

\* The row is created inactive.
CommitCreate(c) ==
    /\ create[c] = "insert" /\ create' = [create EXCEPT ![c] = "created"]
    /\ version' = [version EXCEPT ![c] = newVersion[c]]
    /\ UNCHANGED <<newVersion, active, actVars, readVars, cacheVars>>

-----------------------------------------------------------------------------
(* admin_activate_config *)

\* SELECT the row by its id: the session now holds it, with this is_active.
LoadConfig(x, c) ==
    /\ act[x] = "idle" /\ c \in Created
    /\ act' = [act EXCEPT ![x] = "loaded"]
    /\ target' = [target EXCEPT ![x] = c]
    /\ wasActive' = [wasActive EXCEPT ![x] = c \in active]
    /\ met' = [y \in Activations |-> IF y = x THEN UnderWay
                                     ELSE IF y \in UnderWay THEN met[y] \cup {x}
                                     ELSE met[y]]
    /\ mixed' = mixed \cup {r \in Readers : rd[r] # "idle"}
    /\ UNCHANGED <<active, createVars, prev, last, rd, at, got, missing,
                   cacheVars>>

\* SELECT the active rows, mark them and the target in the session, and drop
\* the organisation's entries from the caches of the workers in W: all in one
\* go, after the await of the SELECT.  Worker w serves the request.
MarkRows(x, w, W) ==
    /\ act[x] = "loaded" /\ act' = [act EXCEPT ![x] = "commit"]
    /\ prev' = [prev EXCEPT ![x] = ActiveOf(AgentOf[target[x]])]
    /\ cache' = [u \in Workers |-> IF u \in W THEN [a \in Agents |-> NoConfig]
                                              ELSE cache[u]]
    /\ raced' = {e \in raced : e[1] \notin W}
                    \cup {e \in (Workers \ {w}) \X Agents :
                            cache[e[1]][e[2]] # NoConfig}
    /\ UNCHANGED <<active, createVars, target, wasActive, met, last, readVars>>

\* Wrong variant of ReadPrev: the cache is not invalidated.
ReadPrevOnly(x, w) == MarkRows(x, w, {})

\* The worker process that serves the request empties its own cache.
ReadPrev(x, w) == MarkRows(x, w, {w})

StoreActive(x, rows) ==
    /\ act[x] = "commit" /\ act' = [act EXCEPT ![x] = "answered"]
    /\ active' = rows
    /\ last' = [last EXCEPT ![AgentOf[target[x]]] = x]
    /\ UNCHANGED <<createVars, target, wasActive, prev, met, readVars,
                   cacheVars>>

\* Wrong variant of CommitActivate: the target is marked before the active rows
\* are, so that a configuration activated again is lost.
CommitActivateSwapped(x) == StoreActive(x, (active \cup {target[x]}) \ prev[x])

\* get_db commits: the rows read become inactive; the target is written only if
\* it was loaded as inactive.
CommitActivate(x) ==
    StoreActive(x, (active \ (prev[x] \ {target[x]}))
                       \cup (IF wasActive[x] THEN {} ELSE {target[x]}))

\* A database call fails: the session is rolled back.
ActivateFault(x) ==
    /\ act[x] \in ActLive /\ act' = [act EXCEPT ![x] = "error"]
    /\ UNCHANGED <<active, createVars, target, wasActive, prev, met, last,
                   readVars, cacheVars>>

-----------------------------------------------------------------------------
(* _get_active_configs, and the cache's own clock *)

\* The cache is read for every agent; if all are there, there is no query.
LookUp(r, w) ==
    /\ rd[r] \in {"idle", "done"}
    /\ at' = [at EXCEPT ![r] = w]
    /\ got' = [got EXCEPT ![r] = cache[w]]
    /\ missing' = [missing EXCEPT ![r] = {a \in Agents : cache[w][a] = NoConfig}]
    /\ rd' = [rd EXCEPT ![r] = IF NoConfig \in {cache[w][a] : a \in Agents}
                               THEN "query" ELSE "done"]
    /\ mixed' = IF UnderWay = {} THEN mixed \ {r} ELSE mixed \cup {r}
    /\ UNCHANGED <<active, createVars, actVars, cacheVars>>

\* One SELECT for the missing agents.  Of several active rows, the one that
\* comes last in the result is kept.
QueryActive(r) ==
    /\ rd[r] = "query" /\ rd' = [rd EXCEPT ![r] = "fill"]
    /\ \E row \in [missing[r] -> Entry] :
          /\ \A a \in missing[r] :
                row[a] \in (IF ActiveOf(a) = {} THEN {NoConfig} ELSE ActiveOf(a))
          /\ got' = [got EXCEPT ![r] = [a \in Agents |->
                        IF a \in missing[r] THEN row[a] ELSE got[r][a]]]
    /\ UNCHANGED <<active, createVars, actVars, at, missing, mixed, cacheVars>>

\* Back from the query: what was found is cached; a miss is not.
Fill(r) ==
    LET new == {a \in missing[r] : got[r][a] # NoConfig}
        w == at[r]
    IN  /\ rd[r] = "fill" /\ rd' = [rd EXCEPT ![r] = "done"]
        /\ cache' = [cache EXCEPT ![w] = [a \in Agents |->
                        IF a \in new THEN got[r][a] ELSE cache[w][a]]]
        /\ raced' = (raced \ ({w} \X new))
                        \cup (IF r \in mixed THEN {w} \X new ELSE {})
        /\ UNCHANGED <<active, createVars, actVars, at, got, missing, mixed>>

DropEntry(w, a) ==
    /\ cache[w][a] # NoConfig
    /\ cache' = [cache EXCEPT ![w][a] = NoConfig]
    /\ raced' = raced \ {<<w, a>>}
    /\ UNCHANGED <<active, createVars, actVars, readVars>>

\* Wrong variant of Expire: each use of an entry renews its time.
ExpireUnused(w, a) == (\A r \in Readers : at[r] # w) /\ DropEntry(w, a)

\* An entry is five minutes old.
Expire(w, a) == DropEntry(w, a)

-----------------------------------------------------------------------------
CreateStep(c) == ReadLastVersion(c) \/ CommitCreate(c)
ActivateStep(x) == (\E w \in Workers : ReadPrev(x, w)) \/ CommitActivate(x)
                       \/ ActivateFault(x)
ReadStep(r) == QueryActive(r) \/ Fill(r)

Next ==
    \/ \E c \in Configs : CreateStep(c)
    \/ \E x \in Activations : \/ \E c \in Configs : LoadConfig(x, c)
                              \/ ActivateStep(x)
    \/ \E r \in Readers : \/ \E w \in Workers : LookUp(r, w)
                          \/ ReadStep(r)
    \/ \E w \in Workers, a \in Agents : Expire(w, a)

Spec == Init /\ [][Next]_vars

\* A request that has begun is continued by the event loop, and entries age.
\* Nobody need ever create, activate or read.
FairSpec ==
    /\ Spec
    /\ \A x \in Activations : WF_vars(ActivateStep(x))
    /\ \A r \in Readers : WF_vars(ReadStep(r))
    /\ \A w \in Workers, a \in Agents : WF_vars(Expire(w, a))

-----------------------------------------------------------------------------
(* Safety *)

\* The activations of configurations of agent a that took effect.
Answered(a) == {x \in Activations : /\ act[x] = "answered"
                                    /\ AgentOf[target[x]] = a}

\* Activation leaves exactly the new configuration active, whatever earlier
\* ones have left, if no other activation for the agent that took effect was
\* under way at the same time (admin_activate_config reads, then writes).
OneActiveUnlessOverlap == \A a \in Agents :
    /\ Answered(a) = {} => ActiveOf(a) = {}
    /\ last[a] # NoConfig /\ met[last[a]] \cap Answered(a) = {} =>
          ActiveOf(a) = {target[last[a]]}

\* The versions of an agent's configurations are 1, 2, ... without a gap, even
\* when overlapping requests have given one number twice (admin_create_config
\* takes the maximum, where create_run counts).
VersionsHaveNoGaps == \A c \in Created :
    version[c] = 1 \/ \E d \in Created : /\ AgentOf[d] = AgentOf[c]
                                         /\ version[d] = version[c] - 1

\* An entry that is not the active configuration is that of another process
\* than the one that served the activation, or was put there by a reader that
\* overlapped one: _get_active_configs is between its look-up and its fill, or
\* admin_activate_config between its invalidation and its commit.
StaleOnlyAfterRace == \A w \in Workers, a \in Agents :
    cache[w][a] \notin active \cup {NoConfig} => <<w, a>> \in raced

-----------------------------------------------------------------------------
(* Liveness *)

CacheFresh == \A w \in Workers, a \in Agents :
    cache[w][a] \in active \cup {NoConfig}

\* Once the last activation is over, the entries' five minutes drive every
\* stale one out of every worker's cache for good.
CacheHeals == <>[]CacheFresh
=============================================================================
