------------------------- MODULE AgentConfigsProofs -------------------------
(***************************************************************************)
(* Proofs about AgentConfigs, for any agents, configurations, workers,      *)
(* activations and readers.  The inductive invariant has three parts that   *)
(* are independent of each other: how version numbers are taken, what an    *)
(* activation that nobody has overlapped still knows of the table, and      *)
(* which entries of the caches can be stale.                                *)
(***************************************************************************)
EXTENDS AgentConfigs, WellFoundedInduction, TLAPS

\* An upper bound of all numbers, so that a maximum exists; a number that is
\* to be inserted is 1 or follows a number of the same agent.
NumberOf(c) == newVersion[c] = 1 \/ \E d \in Created :
    AgentOf[d] = AgentOf[c] /\ version[d] = newVersion[c] - 1
BoundInv == \E B \in Nat : \A c \in Configs : version[c] <= B /\ newVersion[c] <= B
NumberInv == \A c \in Configs : create[c] = "insert" => NumberOf(c)
VersionInv == BoundInv /\ NumberInv /\ VersionsHaveNoGaps

\* The rows that a request deals with are those of its agent.
TargetAt(x) ==
    /\ act[x] # "idle" => target[x] \in Configs
    /\ act[x] = "commit" => prev[x] \subseteq ConfigsOf(AgentOf[target[x]])
\* Two requests that are under way know of each other.
MetInv == \A x, y \in UnderWay : x # y => y \in met[x]
\* What a request has read is still so, if no request that it met took effect.
Alone(x) == met[x] \cap Answered(AgentOf[target[x]]) = {}
KnowsAt(x) == x \in UnderWay /\ Alone(x) =>
    /\ wasActive[x] <=> target[x] \in active
    /\ act[x] = "commit" => prev[x] = ActiveOf(AgentOf[target[x]])
LastInv == \A a \in Agents : last[a] # NoConfig => last[a] \in Answered(a)
ActivateInv ==
    /\ \A x \in Activations : TargetAt(x) /\ KnowsAt(x)
    /\ MetInv /\ LastInv /\ OneActiveUnlessOverlap

\* Between the invalidation and the commit, the entries there are can be stale;
\* a reader that no activation has overlapped has read the table as it is.
InvalidInv == \A x \in Activations, w \in Workers, a \in Agents :
    act[x] = "commit" /\ cache[w][a] # NoConfig => <<w, a>> \in raced
ReaderAt(r) == rd[r] \in {"query", "fill"} /\ r \notin mixed =>
    /\ UnderWay = {}
    /\ rd[r] = "fill" =>
          \A a \in missing[r] : got[r][a] \in active \cup {NoConfig}
CacheInv == InvalidInv /\ (\A r \in Readers : ReaderAt(r)) /\ StaleOnlyAfterRace

IInv == TypeOK /\ VersionInv /\ ActivateInv /\ CacheInv

-----------------------------------------------------------------------------
\* No request has begun, and the caches are empty.
LEMMA InitInvariant == Init => IInv
<1> SUFFICES ASSUME Init PROVE IInv
  OBVIOUS
<1> USE DEF Init
<1>1. TypeOK
  BY DEF TypeOK, Entry, ActLive
<1>2. VersionInv
  <2>1. 0 \in Nat /\ \A c \in Configs : version[c] <= 0 /\ newVersion[c] <= 0
    OBVIOUS
  <2>2. BoundInv
    BY <2>1 DEF BoundInv
  <2> QED
    BY <2>2 DEF VersionInv, NumberInv, VersionsHaveNoGaps, Created
<1>3. ActivateInv
  BY DEF ActivateInv, TargetAt, KnowsAt, MetInv, LastInv, UnderWay, ActLive,
         OneActiveUnlessOverlap, ActiveOf
<1>4. CacheInv
  BY DEF CacheInv, InvalidInv, ReaderAt, StaleOnlyAfterRace
<1> QED
  BY <1>1, <1>2, <1>3, <1>4 DEF IInv

-----------------------------------------------------------------------------
(* The maximum that admin_create_config takes *)

\* A set of natural numbers that is not empty has a least element.
LEMMA LeastNumber ==
    ASSUME NEW T \in SUBSET Nat, T # {}
    PROVE  \E m \in T : \A n \in T : m <= n
<1> DEFINE R == OpToRel(<, Nat)
<1>1. IsWellFoundedOn(R, Nat)
  BY NatLessThanWellFounded
<1>2. PICK m \in T : \A n \in T : ~ (<<n, m>> \in R)
  <2> HIDE DEF R
  <2> QED
    BY <1>1, WFMin
<1>3. \A n \in T : ~ (n < m)
  BY <1>2, Zenon DEF OpToRel
<1> QED
  BY <1>3

\* A set of natural numbers with 0 and an upper bound has a greatest element.
LEMMA GreatestNumber ==
    ASSUME NEW S \in SUBSET Nat, 0 \in S, NEW B \in Nat, \A u \in S : u <= B
    PROVE  \E v \in S : \A u \in S : u <= v
<1> DEFINE T == {v \in Nat : \A u \in S : u <= v}
<1>1. T \in SUBSET Nat /\ B \in T
  OBVIOUS
<1>2. PICK m \in T : \A n \in T : m <= n
  BY <1>1, LeastNumber
<1>3. m \in S
  <2> SUFFICES ASSUME m \notin S PROVE FALSE
    OBVIOUS
  <2>1. m \in Nat /\ m # 0
    OBVIOUS
  <2>2. m - 1 \in Nat
    BY <2>1
  <2>3. ASSUME NEW u \in S PROVE u <= m - 1
    <3>1. u <= m /\ u # m /\ u \in Nat
      OBVIOUS
    <3> QED
      BY <2>1, <3>1
  <2>4. m - 1 \in T
    BY <2>2, <2>3
  <2>5. m <= m - 1
    BY <1>2, <2>4
  <2> QED
    BY <2>1, <2>5
<1> QED
  BY <1>3

\* LastVersion is a number that a row of the agent has, or 0, and none of the
\* rows has a greater one (max(version) in admin_create_config).
LEMMA LastVersionIsMax ==
    ASSUME TypeOK, BoundInv, NEW a \in Agents
    PROVE  /\ LastVersion(a) \in Nat
           /\ \/ LastVersion(a) = 0
              \/ \E d \in Created : AgentOf[d] = a /\ version[d] = LastVersion(a)
           /\ \A d \in Created \cap ConfigsOf(a) : version[d] <= LastVersion(a)
<1> DEFINE used == {version[c] : c \in Created \cap ConfigsOf(a)} \cup {0}
<1>1. \A d \in Created \cap ConfigsOf(a) : d \in Configs /\ AgentOf[d] = a
  BY DEF Created, ConfigsOf
<1>2. version \in [Configs -> Nat]
  BY DEF TypeOK
<1>3. used \in SUBSET Nat /\ 0 \in used
  BY <1>1, <1>2
<1>4. PICK B \in Nat : \A c \in Configs : version[c] <= B
  BY DEF BoundInv
<1>5. \A u \in used : u <= B
  BY <1>1, <1>4
<1> HIDE DEF used
<1>6. \E v \in used : \A u \in used : u <= v
  BY <1>3, <1>5, GreatestNumber
<1>7. LastVersion(a) = CHOOSE v \in used : \A u \in used : u <= v
  BY DEF LastVersion, used
<1>8. LastVersion(a) \in used /\ \A u \in used : u <= LastVersion(a)
  BY <1>6, <1>7
<1> QED
  BY <1>1, <1>3, <1>8 DEF used

-----------------------------------------------------------------------------
(* The types *)

\* The parts of TypeOK: the rows, the activations, the caches and readers.
RowsOK ==
    /\ version \in [Configs -> Nat] /\ newVersion \in [Configs -> Nat]
    /\ create \in [Configs -> {"absent", "insert", "created"}]
ActsOK ==
    /\ active \subseteq Configs
    /\ act \in [Activations -> {"idle", "answered", "error"} \cup ActLive]
    /\ target \in [Activations -> Entry]
    /\ wasActive \in [Activations -> BOOLEAN]
    /\ prev \in [Activations -> SUBSET Configs]
    /\ met \in [Activations -> SUBSET Activations]
    /\ last \in [Agents -> Activations \cup {NoConfig}]
ReadsOK ==
    /\ cache \in [Workers -> [Agents -> Entry]] /\ raced \subseteq Workers \X Agents
    /\ rd \in [Readers -> {"idle", "query", "fill", "done"}]
    /\ at \in [Readers -> Workers] /\ got \in [Readers -> [Agents -> Entry]]
    /\ missing \in [Readers -> SUBSET Agents] /\ mixed \subseteq Readers

\* A new row takes the number after the last one.
LEMMA RowsStep == IInv /\ [Next]_vars => RowsOK'
<1> SUFFICES ASSUME IInv, [Next]_vars PROVE RowsOK'
  OBVIOUS
<1>1. RowsOK
  BY DEF IInv, TypeOK, RowsOK
<1>2. ASSUME NEW c \in Configs, ReadLastVersion(c) PROVE RowsOK'
  <2>1. AgentOf[c] \in Agents
    BY AgentOfAssumption
  <2>2. LastVersion(AgentOf[c]) \in Nat
    BY <2>1, LastVersionIsMax DEF IInv, VersionInv
  <2>3. LastVersion(AgentOf[c]) + 1 \in Nat
    BY <2>2
  <2> QED
    BY <1>1, <1>2, <2>3 DEF RowsOK, ReadLastVersion
<1>3. ASSUME NEW c \in Configs, CommitCreate(c) PROVE RowsOK'
  BY <1>1, <1>3 DEF RowsOK, CommitCreate
<1>4. CASE UNCHANGED createVars
  BY <1>1, <1>4 DEF RowsOK, createVars
<1> QED
  BY <1>2, <1>3, <1>4
     DEF Next, CreateStep, ActivateStep, ReadStep, LoadConfig, ReadPrev, MarkRows,
         CommitActivate, StoreActive, ActivateFault, LookUp, QueryActive, Fill,
         Expire, DropEntry, vars

\* The requests that activate a configuration.
LEMMA ActsStep == IInv /\ [Next]_vars => ActsOK'
<1> SUFFICES ASSUME IInv, [Next]_vars PROVE ActsOK'
  OBVIOUS
<1>1. ActsOK
  BY DEF IInv, TypeOK, ActsOK
<1>2. ASSUME NEW x \in Activations, NEW c \in Configs, LoadConfig(x, c) PROVE ActsOK'
  BY <1>1, <1>2 DEF ActsOK, LoadConfig, UnderWay, ActLive, Entry
<1>3. ASSUME NEW x \in Activations, NEW w \in Workers, ReadPrev(x, w) PROVE ActsOK'
  BY <1>1, <1>3 DEF ActsOK, ReadPrev, MarkRows, ActiveOf, ActLive
<1>4. ASSUME NEW x \in Activations, CommitActivate(x) PROVE ActsOK'
  <2>1. target[x] \in Configs
    BY <1>4 DEF IInv, ActivateInv, TargetAt, CommitActivate, StoreActive
  <2> QED
    BY <1>1, <1>4, <2>1 DEF ActsOK, CommitActivate, StoreActive
<1>5. ASSUME NEW x \in Activations, ActivateFault(x) PROVE ActsOK'
  BY <1>1, <1>5 DEF ActsOK, ActivateFault
<1>6. CASE UNCHANGED <<active, actVars>>
  BY <1>1, <1>6 DEF ActsOK, actVars
<1> QED
  BY <1>2, <1>3, <1>4, <1>5, <1>6
     DEF Next, CreateStep, ActivateStep, ReadStep, ReadLastVersion, CommitCreate,
         LookUp, QueryActive, Fill, Expire, DropEntry, vars

\* The caches, and the runs and chats that read them.
LEMMA ReadsStep == IInv /\ [Next]_vars => ReadsOK'
<1> SUFFICES ASSUME IInv, [Next]_vars PROVE ReadsOK'
  OBVIOUS
<1>1. ReadsOK
  BY DEF IInv, TypeOK, ReadsOK
<1>2. ASSUME NEW x \in Activations, NEW c \in Configs, LoadConfig(x, c) PROVE ReadsOK'
  BY <1>1, <1>2 DEF ReadsOK, LoadConfig, cacheVars
<1>3. ASSUME NEW x \in Activations, NEW w \in Workers, ReadPrev(x, w) PROVE ReadsOK'
  BY <1>1, <1>3 DEF ReadsOK, ReadPrev, MarkRows, readVars, Entry
<1>4. ASSUME NEW r \in Readers, NEW w \in Workers, LookUp(r, w) PROVE ReadsOK'
  BY <1>1, <1>4 DEF ReadsOK, LookUp, cacheVars
<1>5. ASSUME NEW r \in Readers, QueryActive(r) PROVE ReadsOK'
  <2>1. PICK row \in [missing[r] -> Entry] :
            got' = [got EXCEPT ![r] = [a \in Agents |->
                        IF a \in missing[r] THEN row[a] ELSE got[r][a]]]
    BY <1>5 DEF QueryActive
  <2>2. [a \in Agents |-> IF a \in missing[r] THEN row[a] ELSE got[r][a]]
            \in [Agents -> Entry]
    BY <1>1 DEF ReadsOK
  <2>3. got' \in [Readers -> [Agents -> Entry]]
    BY <1>1, <2>1, <2>2 DEF ReadsOK
  <2> QED
    BY <1>1, <1>5, <2>3 DEF ReadsOK, QueryActive, cacheVars
<1>6. ASSUME NEW r \in Readers, Fill(r) PROVE ReadsOK'
  BY <1>1, <1>6 DEF ReadsOK, Fill
<1>7. ASSUME NEW w \in Workers, NEW a \in Agents, Expire(w, a) PROVE ReadsOK'
  BY <1>1, <1>7 DEF ReadsOK, Expire, DropEntry, readVars, Entry
<1>8. CASE UNCHANGED <<readVars, cacheVars>>
  BY <1>1, <1>8 DEF ReadsOK, readVars, cacheVars
<1> QED
  BY <1>2, <1>3, <1>4, <1>5, <1>6, <1>7, <1>8
     DEF Next, CreateStep, ActivateStep, ReadStep, ReadLastVersion, CommitCreate,
         CommitActivate, StoreActive, ActivateFault, vars

\* The halves make up TypeOK.
LEMMA TypeStep == IInv /\ [Next]_vars => TypeOK'
<1> SUFFICES ASSUME IInv, [Next]_vars PROVE TypeOK'
  OBVIOUS
<1> QED
  BY RowsStep, ActsStep, ReadsStep DEF RowsOK, ActsOK, ReadsOK, TypeOK

-----------------------------------------------------------------------------
(* The version numbers *)

\* The number taken is 1, or follows that of a row there is.
LEMMA TakesNext ==
    ASSUME IInv, NEW c \in Configs, ReadLastVersion(c)
    PROVE  VersionInv'
<1> DEFINE a == AgentOf[c]
           n == LastVersion(a) + 1
<1>1. TypeOK /\ VersionInv
  BY DEF IInv
<1>2. /\ version \in [Configs -> Nat] /\ newVersion \in [Configs -> Nat]
      /\ create \in [Configs -> {"absent", "insert", "created"}] /\ a \in Agents
  BY <1>1, AgentOfAssumption DEF TypeOK
<1>3. /\ LastVersion(a) \in Nat
      /\ \/ LastVersion(a) = 0
         \/ \E d \in Created : AgentOf[d] = a /\ version[d] = LastVersion(a)
  BY <1>1, <1>2, LastVersionIsMax DEF VersionInv
<1> HIDE DEF a
<1>4. n \in Nat /\ n - 1 = LastVersion(a)
  BY <1>3
<1>5. n = 1 \/ \E d \in Created : AgentOf[d] = a /\ version[d] = n - 1
  BY <1>3, <1>4
<1> HIDE DEF n
<1>6. /\ version' = version /\ create' = [create EXCEPT ![c] = "insert"]
      /\ newVersion' = [newVersion EXCEPT ![c] = n] /\ create[c] = "absent"
  BY DEF ReadLastVersion, n, a
<1>7. Created' = Created
  BY <1>2, <1>6 DEF Created
<1>8. BoundInv'
  <2>1. PICK B \in Nat : \A d \in Configs : version[d] <= B /\ newVersion[d] <= B
    BY <1>1 DEF VersionInv, BoundInv
  <2>2. PICK D \in Nat : B <= D /\ n <= D
    <3>1. CASE n <= B
      BY <3>1
    <3>2. CASE ~ (n <= B)
      BY <1>4, <3>2
    <3> QED
      BY <3>1, <3>2
  <2>3. ASSUME NEW d \in Configs PROVE version'[d] <= D /\ newVersion'[d] <= D
    <3>1. version[d] <= D /\ newVersion[d] <= D
      BY <1>2, <2>1, <2>2
    <3>2. version'[d] = version[d] /\ newVersion'[d] \in {newVersion[d], n}
      BY <1>2, <1>6
    <3> QED
      BY <2>2, <3>1, <3>2
  <2> QED
    BY <2>3 DEF BoundInv
<1>9. NumberInv'
  <2>1. ASSUME NEW d \in Configs, create'[d] = "insert" PROVE NumberOf(d)'
    <3>1. CASE d = c
      <4>1. newVersion'[c] = n
        BY <1>2, <1>6
      <4> QED
        BY <1>5, <1>6, <1>7, <3>1, <4>1 DEF NumberOf, a
    <3>2. CASE d # c
      <4>1. create[d] = "insert" /\ newVersion'[d] = newVersion[d]
        BY <1>2, <1>6, <2>1, <3>2
      <4>2. NumberOf(d)
        BY <1>1, <4>1 DEF VersionInv, NumberInv
      <4> QED
        BY <1>6, <1>7, <4>1, <4>2 DEF NumberOf
    <3> QED
      BY <3>1, <3>2
  <2> QED
    BY <2>1 DEF NumberInv
<1>10. VersionsHaveNoGaps'
  BY <1>1, <1>6, <1>7 DEF VersionInv, VersionsHaveNoGaps
<1> QED
  BY <1>8, <1>9, <1>10 DEF VersionInv

\* A row appears with the number chosen for it, and none disappears.
LEMMA AppearsNext ==
    ASSUME IInv, NEW c \in Configs, CommitCreate(c)
    PROVE  VersionInv'
<1>1. /\ version \in [Configs -> Nat] /\ newVersion \in [Configs -> Nat]
      /\ create \in [Configs -> {"absent", "insert", "created"}] /\ VersionInv
  BY DEF IInv, TypeOK
<1>2. /\ newVersion' = newVersion /\ create[c] = "insert"
      /\ create' = [create EXCEPT ![c] = "created"]
      /\ version' = [version EXCEPT ![c] = newVersion[c]]
  BY DEF CommitCreate
<1>3. Created' = Created \cup {c} /\ c \notin Created
  BY <1>1, <1>2 DEF Created
<1>4. \A d \in Created : d \in Configs /\ version'[d] = version[d]
  BY <1>1, <1>2, <1>3 DEF Created
<1>5. ASSUME NEW d \in Configs, NumberOf(d) PROVE NumberOf(d)'
  <2>1. CASE newVersion[d] = 1
    BY <1>2, <2>1 DEF NumberOf
  <2>2. CASE \E e \in Created : AgentOf[e] = AgentOf[d] /\ version[e] = newVersion[d] - 1
    <3>1. PICK e \in Created : AgentOf[e] = AgentOf[d] /\ version[e] = newVersion[d] - 1
      BY <2>2
    <3>2. e \in Created' /\ version'[e] = newVersion'[d] - 1
      BY <1>2, <1>3, <1>4, <3>1
    <3> QED
      BY <3>1, <3>2 DEF NumberOf
  <2> QED
    BY <1>5, <2>1, <2>2 DEF NumberOf
<1>6. BoundInv'
  <2>1. PICK B \in Nat : \A d \in Configs : version[d] <= B /\ newVersion[d] <= B
    BY <1>1 DEF VersionInv, BoundInv
  <2>2. \A d \in Configs : version'[d] <= B /\ newVersion'[d] <= B
    BY <1>1, <1>2, <2>1
  <2> QED
    BY <2>2 DEF BoundInv
<1>7. NumberInv'
  BY <1>1, <1>2, <1>5 DEF VersionInv, NumberInv
<1>8. VersionsHaveNoGaps'
  <2>1. ASSUME NEW d \in Created'
        PROVE  version'[d] = 1 \/ \E e \in Created' : /\ AgentOf[e] = AgentOf[d]
                                                      /\ version'[e] = version'[d] - 1
    <3>1. CASE d = c
      <4>1. NumberOf(c)' /\ version'[c] = newVersion'[c]
        BY <1>1, <1>2, <1>5 DEF VersionInv, NumberInv
      <4> QED
        BY <3>1, <4>1 DEF NumberOf
    <3>2. CASE d \in Created
      <4>1. version[d] = 1 \/ \E e \in Created : /\ AgentOf[e] = AgentOf[d]
                                                 /\ version[e] = version[d] - 1
        BY <1>1, <3>2 DEF VersionInv, VersionsHaveNoGaps
      <4> QED
        BY <1>3, <1>4, <3>2, <4>1
    <3> QED
      BY <1>3, <3>1, <3>2
  <2> QED
    BY <2>1 DEF VersionsHaveNoGaps
<1> QED
  BY <1>6, <1>7, <1>8 DEF VersionInv

\* Nothing else writes a number.
LEMMA VersionStep == IInv /\ [Next]_vars => VersionInv'
<1> SUFFICES ASSUME IInv, [Next]_vars PROVE VersionInv'
  OBVIOUS
<1>1. ASSUME NEW c \in Configs, ReadLastVersion(c) PROVE VersionInv'
  BY <1>1, TakesNext
<1>2. ASSUME NEW c \in Configs, CommitCreate(c) PROVE VersionInv'
  BY <1>2, AppearsNext
<1>3. CASE UNCHANGED createVars
  BY <1>3 DEF IInv, createVars, VersionInv, BoundInv, NumberInv, NumberOf,
              VersionsHaveNoGaps, Created
<1> QED
  BY <1>1, <1>2, <1>3
     DEF Next, CreateStep, ActivateStep, ReadStep, LoadConfig, ReadPrev, MarkRows,
         CommitActivate, StoreActive, ActivateFault, LookUp, QueryActive, Fill,
         Expire, DropEntry, vars

-----------------------------------------------------------------------------
(* What an activation knows *)

\* The request that begins has met the others, and they have met it.
LEMMA LoadKeepsActivate ==
    ASSUME IInv, NEW x \in Activations, NEW c \in Configs, LoadConfig(x, c)
    PROVE  ActivateInv'
<1>1. ActsOK /\ ActivateInv
  BY DEF IInv, TypeOK, ActsOK
<1>2. /\ act[x] = "idle" /\ act' = [act EXCEPT ![x] = "loaded"]
      /\ target' = [target EXCEPT ![x] = c]
      /\ wasActive' = [wasActive EXCEPT ![x] = c \in active]
      /\ met' = [y \in Activations |-> IF y = x THEN UnderWay
                                       ELSE IF y \in UnderWay THEN met[y] \cup {x}
                                       ELSE met[y]]
      /\ active' = active /\ prev' = prev /\ last' = last
  BY DEF LoadConfig
<1>3. UnderWay' = UnderWay \cup {x} /\ x \notin UnderWay
  BY <1>1, <1>2 DEF UnderWay, ActLive, ActsOK
<1>4. ASSUME NEW y \in Activations, y # x
      PROVE  /\ act'[y] = act[y] /\ target'[y] = target[y]
             /\ wasActive'[y] = wasActive[y] /\ met[y] \subseteq met'[y]
             /\ y \notin UnderWay => met'[y] = met[y]
  BY <1>1, <1>2, <1>4 DEF ActsOK
<1>5. ASSUME NEW a PROVE Answered(a)' = Answered(a)
  BY <1>1, <1>2, <1>4 DEF Answered, ActsOK
<1>6. ASSUME NEW y \in Activations PROVE TargetAt(y)'
  BY <1>1, <1>2, <1>4 DEF ActivateInv, TargetAt, ActsOK
<1>7. ASSUME NEW y \in Activations PROVE KnowsAt(y)'
  <2>1. CASE y = x
    BY <1>1, <1>2, <2>1 DEF KnowsAt, ActsOK
  <2>2. CASE y # x
    <3> SUFFICES ASSUME y \in UnderWay', Alone(y)'
                 PROVE  /\ wasActive'[y] <=> target'[y] \in active'
                        /\ act'[y] = "commit" =>
                              prev'[y] = ActiveOf(AgentOf[target[y]])'
      BY <1>4, <2>2 DEF KnowsAt
    <3>1. y \in UnderWay /\ KnowsAt(y)
      BY <1>1, <1>3, <2>2 DEF ActivateInv
    <3>2. Alone(y)
      BY <1>4, <1>5, <2>2 DEF Alone
    <3> QED
      BY <1>2, <1>4, <2>2, <3>1, <3>2 DEF KnowsAt, ActiveOf
  <2> QED
    BY <2>1, <2>2
<1>8. MetInv'
  BY <1>1, <1>2, <1>3 DEF ActivateInv, MetInv, UnderWay
<1>9. LastInv'
  BY <1>1, <1>2, <1>5 DEF ActivateInv, LastInv
<1>10. OneActiveUnlessOverlap'
  <2>1. ASSUME NEW a \in Agents, last[a] # NoConfig
        PROVE  met'[last[a]] = met[last[a]] /\ target'[last[a]] = target[last[a]]
    <3>1. last[a] \in Answered(a)
      BY <1>1, <2>1 DEF ActivateInv, LastInv
    <3>2. /\ last[a] \in Activations /\ last[a] # x /\ last[a] \notin UnderWay
      BY <1>2, <3>1 DEF Answered, UnderWay, ActLive
    <3> QED
      BY <1>4, <3>2
  <2> QED
    BY <1>1, <1>2, <1>5, <2>1 DEF ActivateInv, OneActiveUnlessOverlap, ActiveOf
<1> QED
  BY <1>6, <1>7, <1>8, <1>9, <1>10 DEF ActivateInv

\* A request that reads the active rows, or fails, changes no row.
LEMMA MoveKeepsActivate ==
    ASSUME IInv, NEW x \in Activations, x \in UnderWay, NEW to,
           to \in {"commit", "error"}, act' = [act EXCEPT ![x] = to],
           UNCHANGED <<active, target, wasActive, met, last>>,
           \A y \in Activations : y # x => prev'[y] = prev[y],
           to = "commit" => prev'[x] = ActiveOf(AgentOf[target[x]])
    PROVE  ActivateInv'
<1>1. ActsOK /\ ActivateInv
  BY DEF IInv, TypeOK, ActsOK
<1>2. UnderWay' \subseteq UnderWay /\ act[x] \in ActLive
  BY <1>1 DEF UnderWay, ActLive, ActsOK
<1>3. ASSUME NEW y \in Activations, y # x PROVE act'[y] = act[y] /\ prev'[y] = prev[y]
  BY <1>1, <1>3 DEF ActsOK
<1>4. act'[x] = to
  BY <1>1 DEF ActsOK
<1>5. ASSUME NEW a PROVE Answered(a)' = Answered(a)
  BY <1>1, <1>2, <1>3, <1>4 DEF Answered, ActLive
<1>6. ASSUME NEW y \in Activations PROVE TargetAt(y)'
  BY <1>1, <1>2, <1>3, <1>4 DEF ActivateInv, TargetAt, ActiveOf, ActLive
<1>7. ASSUME NEW y \in Activations PROVE KnowsAt(y)'
  <2> SUFFICES ASSUME y \in UnderWay', Alone(y)'
               PROVE  /\ wasActive[y] <=> target[y] \in active
                      /\ act'[y] = "commit" => prev'[y] = ActiveOf(AgentOf[target[y]])
    BY DEF KnowsAt, ActiveOf
  <2>1. y \in UnderWay /\ KnowsAt(y) /\ Alone(y)
    BY <1>1, <1>2, <1>5 DEF ActivateInv, Alone
  <2> QED
    BY <1>3, <1>4, <2>1 DEF KnowsAt
<1>8. MetInv'
  BY <1>1, <1>2 DEF ActivateInv, MetInv
<1>9. LastInv' /\ OneActiveUnlessOverlap'
  BY <1>1, <1>5 DEF ActivateInv, LastInv, OneActiveUnlessOverlap, ActiveOf
<1> QED
  BY <1>6, <1>7, <1>8, <1>9 DEF ActivateInv

\* The commit writes rows of one agent.  Those that are at work on the same
\* agent have met it; if it has met none that took effect, what it has read is
\* still so, and its target is the only active row it leaves.
LEMMA CommitKeepsActivate ==
    ASSUME IInv, NEW x \in Activations, CommitActivate(x)
    PROVE  ActivateInv'
<1>1. ActsOK /\ ActivateInv
  BY DEF IInv, TypeOK, ActsOK
<1>0. target[x] \in Configs /\ prev[x] \subseteq ConfigsOf(AgentOf[target[x]])
  BY <1>1 DEF ActivateInv, TargetAt, CommitActivate, StoreActive
<1>2. PICK t \in Configs, b \in Agents :
          t = target[x] /\ b = AgentOf[t] /\ prev[x] \subseteq ConfigsOf(b)
  BY <1>0, AgentOfAssumption
<1>3. /\ act[x] = "commit" /\ act' = [act EXCEPT ![x] = "answered"]
      /\ active' = (active \ (prev[x] \ {t})) \cup (IF wasActive[x] THEN {} ELSE {t})
      /\ last' = [last EXCEPT ![b] = x]
      /\ UNCHANGED <<target, wasActive, prev, met>>
  BY <1>2 DEF CommitActivate, StoreActive
<1>4. /\ UnderWay' \subseteq UnderWay \ {x} /\ x \in UnderWay
      /\ x \in Answered(b)' /\ x \in Activations
  BY <1>1, <1>2, <1>3 DEF UnderWay, ActLive, ActsOK, Answered
<1>5. ASSUME NEW y \in Activations, y # x PROVE act'[y] = act[y]
  BY <1>1, <1>3, <1>5 DEF ActsOK
<1>6. ASSUME NEW a PROVE /\ Answered(a) \subseteq Answered(a)'
                         /\ a # b => Answered(a)' = Answered(a)
  BY <1>2, <1>3, <1>5 DEF Answered
<1>7. ASSUME NEW a, a # b PROVE ActiveOf(a)' = ActiveOf(a)
  BY <1>2, <1>3, <1>7 DEF ActiveOf, ConfigsOf
<1>8. ASSUME NEW y \in Activations PROVE TargetAt(y)'
  BY <1>1, <1>3, <1>5, <1>2 DEF ActivateInv, TargetAt
<1>9. ASSUME NEW y \in Activations PROVE KnowsAt(y)'
  <2> SUFFICES ASSUME y \in UnderWay', Alone(y)'
               PROVE  /\ wasActive[y] <=> target[y] \in active'
                      /\ act'[y] = "commit" =>
                            prev[y] = ActiveOf(AgentOf[target[y]])'
    BY <1>3 DEF KnowsAt
  <2>1. y \in UnderWay /\ y # x /\ KnowsAt(y)
    BY <1>1, <1>4 DEF ActivateInv
  <2>2. x \in met[y]
    BY <1>1, <1>4, <2>1 DEF ActivateInv, MetInv
  <2>3. AgentOf[target[y]] # b
    <3> SUFFICES ASSUME AgentOf[target[y]] = b PROVE FALSE
      OBVIOUS
    <3>1. AgentOf[target'[y]] = b
      BY <1>3
    <3>2. x \in met'[y] \cap Answered(b)'
      BY <1>3, <1>4, <2>2
    <3> QED
      BY <3>1, <3>2 DEF Alone, Answered
  <2>4. Alone(y)
    BY <1>3, <1>6 DEF Alone
  <2>5. target[y] \in Configs
    BY <1>1, <2>1 DEF ActivateInv, TargetAt, UnderWay, ActLive
  <2>6. target[y] \in active' <=> target[y] \in active
    BY <1>7, <2>3, <2>5 DEF ActiveOf, ConfigsOf
  <2>7. ActiveOf(AgentOf[target[y]])' = ActiveOf(AgentOf[target[y]])
    BY <1>3, <1>7, <2>3 DEF ActiveOf
  <2> QED
    BY <1>5, <2>1, <2>4, <2>6, <2>7 DEF KnowsAt
<1>10. MetInv'
  BY <1>1, <1>3, <1>4 DEF ActivateInv, MetInv
<1>11. /\ last'[b] = x /\ b \in Agents
       /\ \A a \in Agents : a # b => last'[a] = last[a]
  BY <1>1, <1>2, <1>3 DEF ActsOK
<1>12. LastInv'
  BY <1>1, <1>4, <1>6, <1>11 DEF ActivateInv, LastInv
<1>13. met[x] \cap Answered(b)' = {} => ActiveOf(b)' = {t}
  <2> SUFFICES ASSUME met[x] \cap Answered(b)' = {} PROVE ActiveOf(b)' = {t}
    OBVIOUS
  <2>1. Alone(x) /\ KnowsAt(x)
    BY <1>1, <1>2, <1>6 DEF Alone, ActivateInv
  <2>2. (wasActive[x] <=> t \in active) /\ prev[x] = ActiveOf(b)
    BY <1>2, <1>3, <1>4, <2>1 DEF KnowsAt
  <2>3. t \in ConfigsOf(b)
    BY <1>2 DEF ConfigsOf
  <2> QED
    BY <1>3, <2>2, <2>3 DEF ActiveOf
<1>14. OneActiveUnlessOverlap'
  <2>1. ASSUME NEW a \in Agents
        PROVE  /\ Answered(a)' = {} => ActiveOf(a)' = {}
               /\ last'[a] # NoConfig /\ met'[last'[a]] \cap Answered(a)' = {} =>
                      ActiveOf(a)' = {target'[last'[a]]}
    <3>1. CASE a = b
      BY <1>2, <1>3, <1>4, <1>11, <1>13, <3>1
    <3>2. CASE a # b
      BY <1>1, <1>3, <1>6, <1>7, <1>11, <3>2 DEF ActivateInv, OneActiveUnlessOverlap
    <3> QED
      BY <3>1, <3>2
  <2> QED
    BY <2>1 DEF OneActiveUnlessOverlap
<1> QED
  BY <1>8, <1>9, <1>10, <1>12, <1>14 DEF ActivateInv

\* Creations, readers and the cache's clock touch no activation.
LEMMA ActivationStep == IInv /\ [Next]_vars => ActivateInv'
<1> SUFFICES ASSUME IInv, [Next]_vars PROVE ActivateInv'
  OBVIOUS
<1>1. ASSUME NEW x \in Activations, NEW c \in Configs, LoadConfig(x, c)
      PROVE  ActivateInv'
  BY <1>1, LoadKeepsActivate
<1>2. ASSUME NEW x \in Activations, NEW w \in Workers, ReadPrev(x, w)
      PROVE  ActivateInv'
  <2>1. /\ prev \in [Activations -> SUBSET Configs] /\ x \in UnderWay
        /\ prev' = [prev EXCEPT ![x] = ActiveOf(AgentOf[target[x]])]
        /\ act' = [act EXCEPT ![x] = "commit"]
        /\ UNCHANGED <<active, target, wasActive, met, last>>
    BY <1>2 DEF IInv, TypeOK, UnderWay, ActLive, ReadPrev, MarkRows
  <2>2. /\ \A y \in Activations : y # x => prev'[y] = prev[y]
        /\ prev'[x] = ActiveOf(AgentOf[target[x]])
    BY <2>1
  <2> QED
    BY <2>1, <2>2, MoveKeepsActivate
<1>3. ASSUME NEW x \in Activations, CommitActivate(x) PROVE ActivateInv'
  BY <1>3, CommitKeepsActivate
<1>4. ASSUME NEW x \in Activations, ActivateFault(x) PROVE ActivateInv'
  <2>1. /\ x \in UnderWay /\ act' = [act EXCEPT ![x] = "error"]
        /\ UNCHANGED <<active, target, wasActive, met, last, prev>>
    BY <1>4 DEF UnderWay, ActivateFault
  <2> QED
    BY <2>1, MoveKeepsActivate
<1>5. CASE UNCHANGED <<active, actVars>>
  BY <1>5 DEF actVars, IInv, ActivateInv, TargetAt, KnowsAt, Alone, MetInv, LastInv,
              OneActiveUnlessOverlap, ActiveOf, Answered, UnderWay
<1> QED
  BY <1>1, <1>2, <1>3, <1>4, <1>5
     DEF Next, CreateStep, ActivateStep, ReadStep, ReadLastVersion, CommitCreate,
         LookUp, QueryActive, Fill, Expire, DropEntry, vars

-----------------------------------------------------------------------------
(* What the caches can hold *)

\* A reader that has begun and met no activation runs while there is none.
LEMMA ReadersMeet ==
    ASSUME IInv, NEW x \in UnderWay, NEW r \in Readers, rd[r] \in {"query", "fill"}
    PROVE  r \in mixed
BY DEF IInv, CacheInv, ReaderAt

\* The requests that activate: one begins, invalidates, commits or fails.
LEMMA ActivateKeepsCache ==
    ASSUME IInv, NEW x \in Activations,
           \/ \E c \in Configs : LoadConfig(x, c)
           \/ ActivateStep(x)
    PROVE  CacheInv'
<1>1. ActsOK /\ ReadsOK /\ CacheInv
  BY DEF IInv, TypeOK, ActsOK, ReadsOK
<1>2. ASSUME NEW c \in Configs, LoadConfig(x, c) PROVE CacheInv'
  <2>1. /\ act' = [act EXCEPT ![x] = "loaded"]
        /\ UNCHANGED <<active, cache, raced, rd>>
        /\ mixed' = mixed \cup {r \in Readers : rd[r] # "idle"}
    BY <1>2 DEF LoadConfig, cacheVars
  <2>2. InvalidInv'
    BY <1>1, <2>1 DEF CacheInv, InvalidInv, ActsOK
  <2>3. \A r \in Readers : ReaderAt(r)'
    BY <2>1 DEF ReaderAt
  <2> QED
    BY <1>1, <2>1, <2>2, <2>3 DEF CacheInv, StaleOnlyAfterRace
<1>3. ASSUME act[x] \in ActLive, UNCHANGED <<rd, mixed>>, NEW r \in Readers
      PROVE  ReaderAt(r)'
  <2>1. x \in UnderWay
    BY <1>3 DEF UnderWay
  <2> QED
    BY <1>3, <2>1, ReadersMeet DEF ReaderAt
<1>4. ASSUME NEW w \in Workers, ReadPrev(x, w) PROVE CacheInv'
  <2>1. /\ act[x] = "loaded" /\ UNCHANGED <<active, rd, mixed>>
        /\ cache' = [u \in Workers |-> IF u \in {w} THEN [a \in Agents |-> NoConfig]
                                                    ELSE cache[u]]
        /\ raced' = {e \in raced : e[1] \notin {w}}
                        \cup {e \in (Workers \ {w}) \X Agents :
                                cache[e[1]][e[2]] # NoConfig}
    BY <1>4 DEF ReadPrev, MarkRows, readVars
  <2>2. ASSUME NEW u \in Workers, NEW a \in Agents, cache'[u][a] # NoConfig
        PROVE  <<u, a>> \in raced'
    <3>1. u # w /\ cache[u][a] # NoConfig
      BY <2>1, <2>2
    <3>2. <<u, a>> \in (Workers \ {w}) \X Agents
      BY <3>1
    <3> QED
      BY <2>1, <3>1, <3>2
  <2>3. InvalidInv' /\ StaleOnlyAfterRace'
    BY <2>2 DEF InvalidInv, StaleOnlyAfterRace
  <2>4. \A r \in Readers : ReaderAt(r)'
    BY <1>3, <2>1 DEF ActLive
  <2> QED
    BY <2>3, <2>4 DEF CacheInv
<1>5. ASSUME CommitActivate(x) \/ ActivateFault(x) PROVE CacheInv'
  <2>1. /\ UNCHANGED <<cache, raced, rd, mixed>> /\ act[x] \in ActLive
        /\ \A y \in Activations : act'[y] = "commit" => act[y] = "commit"
        /\ act[x] = "commit" \/ active' = active
    BY <1>1, <1>5 DEF CommitActivate, StoreActive, ActivateFault, ActLive, ActsOK,
                      readVars, cacheVars
  <2>2. InvalidInv'
    BY <1>1, <2>1 DEF CacheInv, InvalidInv
  <2>3. StaleOnlyAfterRace'
    BY <1>1, <2>1 DEF CacheInv, InvalidInv, StaleOnlyAfterRace
  <2>4. \A r \in Readers : ReaderAt(r)'
    BY <1>3, <2>1
  <2> QED
    BY <2>2, <2>3, <2>4 DEF CacheInv
<1> QED
  BY <1>2, <1>4, <1>5 DEF ActivateStep

\* A reader that fills in an entry has met every activation there was since it
\* looked the entry up, or the entry is the active configuration.
LEMMA FillKeepsCache ==
    ASSUME IInv, NEW r \in Readers, Fill(r)
    PROVE  CacheInv'
<1> DEFINE new == {a \in missing[r] : got[r][a] # NoConfig}
           w == at[r]
<1>1. ActsOK /\ ReadsOK /\ CacheInv
  BY DEF IInv, TypeOK, ActsOK, ReadsOK
<1>2. /\ rd[r] = "fill" /\ rd' = [rd EXCEPT ![r] = "done"]
      /\ cache' = [cache EXCEPT ![w] = [a \in Agents |->
                      IF a \in new THEN got[r][a] ELSE cache[w][a]]]
      /\ raced' = (raced \ ({w} \X new)) \cup (IF r \in mixed THEN {w} \X new ELSE {})
      /\ UNCHANGED <<active, act, missing, got, mixed>>
  BY DEF Fill, actVars
<1>3. w \in Workers /\ new \subseteq Agents
  BY <1>1 DEF ReadsOK
<1>4. ASSUME NEW u \in Workers, NEW a \in Agents, ~ (u = w /\ a \in new)
      PROVE  cache'[u][a] = cache[u][a] /\ (<<u, a>> \in raced => <<u, a>> \in raced')
  <2>1. cache'[u][a] = cache[u][a]
    BY <1>1, <1>2, <1>4 DEF ReadsOK
  <2>2. <<u, a>> \notin {w} \X new
    BY <1>4
  <2> QED
    BY <1>2, <2>1, <2>2
<1>5. ASSUME NEW a \in new PROVE cache'[w][a] = got[r][a]
  BY <1>1, <1>2, <1>3 DEF ReadsOK
<1>6. ASSUME NEW a \in new, r \in mixed PROVE <<w, a>> \in raced'
  BY <1>2, <1>6
<1>7. ASSUME NEW a \in new, r \notin mixed PROVE got[r][a] \in active
  BY <1>1, <1>2, <1>7 DEF CacheInv, ReaderAt
<1> HIDE DEF new, w
<1>8. InvalidInv'
  <2>1. ASSUME NEW x \in Activations, NEW u \in Workers, NEW a \in Agents,
               act[x] = "commit", cache'[u][a] # NoConfig
        PROVE  <<u, a>> \in raced'
    <3>1. r \in mixed
      <4>1. x \in UnderWay
        BY <2>1 DEF UnderWay, ActLive
      <4> QED
        BY <1>2, <4>1, ReadersMeet
    <3>2. CASE u = w /\ a \in new
      BY <1>6, <3>1, <3>2
    <3>3. CASE ~ (u = w /\ a \in new)
      BY <1>1, <1>4, <2>1, <3>3 DEF CacheInv, InvalidInv
    <3> QED
      BY <3>2, <3>3
  <2> QED
    BY <1>2, <2>1 DEF InvalidInv
<1>9. StaleOnlyAfterRace'
  <2>1. ASSUME NEW u \in Workers, NEW a \in Agents,
               cache'[u][a] \notin active \cup {NoConfig}
        PROVE  <<u, a>> \in raced'
    <3>1. CASE u = w /\ a \in new
      BY <1>5, <1>6, <1>7, <2>1, <3>1
    <3>2. CASE ~ (u = w /\ a \in new)
      BY <1>1, <1>4, <2>1, <3>2 DEF CacheInv, StaleOnlyAfterRace
    <3> QED
      BY <3>1, <3>2
  <2> QED
    BY <1>2, <2>1 DEF StaleOnlyAfterRace
<1>10. \A q \in Readers : ReaderAt(q)'
  BY <1>1, <1>2 DEF CacheInv, ReaderAt, ReadsOK, UnderWay
<1> QED
  BY <1>8, <1>9, <1>10 DEF CacheInv

\* The query of a reader that no activation has overlapped finds active rows.
LEMMA QueryKeepsCache ==
    ASSUME IInv, NEW r \in Readers, QueryActive(r)
    PROVE  CacheInv'
<1>1. ReadsOK /\ CacheInv
  BY DEF IInv, TypeOK, ReadsOK
<1>2. PICK row \in [missing[r] -> Entry] :
          /\ \A a \in missing[r] :
                row[a] \in (IF ActiveOf(a) = {} THEN {NoConfig} ELSE ActiveOf(a))
          /\ got' = [got EXCEPT ![r] = [a \in Agents |->
                        IF a \in missing[r] THEN row[a] ELSE got[r][a]]]
  BY DEF QueryActive
<1>3. /\ rd[r] = "query" /\ rd' = [rd EXCEPT ![r] = "fill"]
      /\ UNCHANGED <<active, act, missing, mixed, cache, raced>>
  BY DEF QueryActive, actVars, cacheVars
<1>4. \A a \in missing[r] : got'[r][a] \in active \cup {NoConfig}
  <2>1. ASSUME NEW a \in missing[r] PROVE got'[r][a] = row[a]
    BY <1>1, <1>2 DEF ReadsOK
  <2>2. \A a \in missing[r] : row[a] \in active \cup {NoConfig}
    BY <1>2 DEF ActiveOf
  <2> QED
    BY <2>1, <2>2
<1>5. ASSUME NEW q \in Readers PROVE ReaderAt(q)'
  <2>1. CASE q = r
    BY <1>1, <1>3, <1>4, <2>1 DEF CacheInv, ReaderAt, UnderWay
  <2>2. CASE q # r
    <3>1. got'[q] = got[q] /\ rd'[q] = rd[q]
      BY <1>1, <1>2, <1>3, <2>2 DEF ReadsOK
    <3> QED
      BY <1>1, <1>3, <3>1 DEF CacheInv, ReaderAt, UnderWay
  <2> QED
    BY <2>1, <2>2
<1>6. InvalidInv' /\ StaleOnlyAfterRace'
  BY <1>1, <1>3 DEF CacheInv, InvalidInv, StaleOnlyAfterRace
<1> QED
  BY <1>5, <1>6 DEF CacheInv

\* Every step of the cache, of its readers and of those that invalidate it.
LEMMA CacheStep == IInv /\ [Next]_vars => CacheInv'
<1> SUFFICES ASSUME IInv, [Next]_vars PROVE CacheInv'
  OBVIOUS
<1>1. ReadsOK /\ CacheInv
  BY DEF IInv, TypeOK, ReadsOK
<1>2. ASSUME NEW x \in Activations,
             (\E c \in Configs : LoadConfig(x, c)) \/ ActivateStep(x)
      PROVE  CacheInv'
  BY <1>2, ActivateKeepsCache
<1>3. ASSUME NEW r \in Readers, NEW w \in Workers, LookUp(r, w) PROVE CacheInv'
  <2>1. /\ \A q \in Readers : q # r =>
              rd'[q] = rd[q] /\ missing'[q] = missing[q] /\ got'[q] = got[q]
        /\ rd'[r] # "fill" /\ (r \notin mixed' => UnderWay = {})
        /\ \A q \in Readers : q # r => (q \in mixed' <=> q \in mixed)
        /\ UNCHANGED <<active, act, cache, raced>>
    BY <1>1, <1>3 DEF LookUp, ReadsOK, actVars, cacheVars
  <2>2. InvalidInv' /\ StaleOnlyAfterRace'
    BY <1>1, <2>1 DEF CacheInv, InvalidInv, StaleOnlyAfterRace
  <2>3. \A q \in Readers : ReaderAt(q)'
    BY <1>1, <2>1 DEF CacheInv, ReaderAt, UnderWay
  <2> QED
    BY <2>2, <2>3 DEF CacheInv
<1>4. ASSUME NEW r \in Readers, ReadStep(r) PROVE CacheInv'
  BY <1>4, QueryKeepsCache, FillKeepsCache DEF ReadStep
<1>5. ASSUME NEW w \in Workers, NEW a \in Agents, Expire(w, a) PROVE CacheInv'
  <2>1. /\ cache' = [cache EXCEPT ![w][a] = NoConfig] /\ raced' = raced \ {<<w, a>>}
        /\ UNCHANGED <<active, act, rd, got, missing, mixed>>
    BY <1>5 DEF Expire, DropEntry, actVars, readVars
  <2>2. ASSUME NEW u \in Workers, NEW b \in Agents, cache'[u][b] # NoConfig
        PROVE  cache'[u][b] = cache[u][b] /\ (<<u, b>> \in raced => <<u, b>> \in raced')
    BY <1>1, <2>1, <2>2 DEF ReadsOK
  <2>3. InvalidInv' /\ StaleOnlyAfterRace'
    BY <1>1, <2>1, <2>2 DEF CacheInv, InvalidInv, StaleOnlyAfterRace
  <2>4. \A q \in Readers : ReaderAt(q)'
    BY <1>1, <2>1 DEF CacheInv, ReaderAt, UnderWay
  <2> QED
    BY <2>3, <2>4 DEF CacheInv
<1>6. CASE UNCHANGED <<active, actVars, readVars, cacheVars>>
  BY <1>1, <1>6 DEF actVars, readVars, cacheVars, CacheInv, InvalidInv, ReaderAt,
                    StaleOnlyAfterRace, UnderWay
<1> QED
  BY <1>2, <1>3, <1>4, <1>5, <1>6
     DEF Next, CreateStep, ReadLastVersion, CommitCreate, vars

-----------------------------------------------------------------------------
\* The inductive invariant holds of every behaviour.
LEMMA Invariance == Spec => []IInv
<1>1. IInv /\ [Next]_vars => IInv'
  BY TypeStep, VersionStep, ActivationStep, CacheStep DEF IInv
<1> QED
  BY InitInvariant, <1>1, PTL DEF Spec

\* Every variable keeps its type, whatever the agents, rows and requests.
THEOREM TypeCorrect == Spec => []TypeOK
<1>1. IInv => TypeOK
  BY DEF IInv
<1> QED
  BY Invariance, <1>1, PTL

\* An activation that took effect, and overlapped none that did, has left its
\* configuration as the only active one (admin_activate_config reads the active
\* rows in one statement and writes them at the commit).
THEOREM OneActive == Spec => []OneActiveUnlessOverlap
<1>1. IInv => OneActiveUnlessOverlap
  BY DEF IInv, ActivateInv
<1> QED
  BY Invariance, <1>1, PTL

\* However creations overlap, an agent's versions are 1, 2, ... without a gap
\* (max(version) + 1 in admin_create_config).
THEOREM NoGaps == Spec => []VersionsHaveNoGaps
<1>1. IInv => VersionsHaveNoGaps
  BY DEF IInv, VersionInv
<1> QED
  BY Invariance, <1>1, PTL

\* A stale entry of a worker's cache is one that a reader overlapped by an
\* activation put there, or that an activation in another process left.
THEOREM StaleEntries == Spec => []StaleOnlyAfterRace
<1>1. IInv => StaleOnlyAfterRace
  BY DEF IInv, CacheInv
<1> QED
  BY Invariance, <1>1, PTL

=============================================================================
