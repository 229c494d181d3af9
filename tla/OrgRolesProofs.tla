--------------------------- MODULE OrgRolesProofs ---------------------------
(***************************************************************************)
(* Proofs about OrgRoles, for any users, organisations and requests.  The   *)
(* inductive invariant says that a request which no change of roles has     *)
(* overtaken knows the roles and the organisations it decides by as they    *)
(* are, and which requests can meet at a user's ban row.                    *)
(***************************************************************************)
EXTENDS OrgRoles, FiniteSetTheorems, TLAPS

\* What a request that has begun holds, whoever has overtaken it.
PointAt(x) ==
    /\ req[x].kind # "none" => req[x].on \in Users
    /\ req[x].pc \in {"begun", "allowed"} => req[x].kind = "none"
    /\ x \in Started /\ req[x].kind # "register" =>
          req[x].by \in Users /\ req[x].org \in Orgs
PointInv == \A x \in Requests : PointAt(x)

\* What a request that has not been overtaken knows.  One that registers a
\* user as the admin has found none; any other knows who makes it...
RegisterAt(x) == req[x].kind = "register" =>
    /\ req[x].pc = "commit" /\ role[req[x].on] = "absent"
    /\ req[x].to = "admin" => AdminsOf(org[req[x].on]) = {}
BegunAt(x) == req[x].pc \in {"begun", "allowed"} =>
    /\ req[x].admins = {}
    /\ req[x].mine = role[req[x].by] /\ req[x].org = org[req[x].by]
    /\ req[x].pc = "allowed" => req[x].mine \in {"admin", "super_admin"}
\* ... and then whom it is about, and whom it demotes.
Targeted == Kinds \ (Unbanning \cup {"register"})
TargetAt(x) == req[x].kind \in Targeted =>
    /\ req[x].mine = role[req[x].by] /\ req[x].mine \in {"admin", "super_admin"}
    /\ req[x].had = role[req[x].on] /\ req[x].org = org[req[x].on]
    /\ req[x].kind = "handoff_admin" =>
          req[x].on # req[x].by /\ org[req[x].by] = org[req[x].on]
PromoteAt(x) == req[x].kind = "superadmin_change_role" =>
    /\ req[x].pc = "loaded" => req[x].to = "admin"
    /\ req[x].pc = "commit" =>
          req[x].admins = IF req[x].to = "admin"
                          THEN AdminsOf(req[x].org) \ {req[x].on} ELSE {}
KnowsAt(x) == RegisterAt(x) /\ BegunAt(x) /\ TargetAt(x) /\ PromoteAt(x)
KnowsInv == \A x \in Started \ met : KnowsAt(x)

\* One admin at most, said without counting.
SoleAt(o) == \A u, v \in AdminsOf(o) : u = v
SoleInv == orderly => \A o \in Orgs : SoleAt(o)

\* A second ban row, there or to come.
BanAt(u) ==
    /\ \A b, c \in RowsOf(u) : b # c => u \in crossed
    /\ \A y \in Requests : /\ req[y].pc = "commit" /\ req[y].kind \in Banning
                           /\ req[y].on = u /\ RowsOf(u) # {}
                           => u \in crossed
BanInv == \A u \in Users : BanAt(u)

IInv == TypeOK /\ PointInv /\ KnowsInv /\ SoleInv /\ BanInv

-----------------------------------------------------------------------------
(* Counting *)

\* A set whose elements are all the same has at most one.
LEMMA OneElement ==
    ASSUME NEW S, \A x, y \in S : x = y
    PROVE  Cardinality(S) = 0 \/ Cardinality(S) = 1
<1>1. CASE S = {}
  BY <1>1, FS_EmptySet
<1>2. CASE S # {}
  <2>1. PICK x \in S : S = {x}
    BY <1>2
  <2> QED
    BY <2>1, FS_Singleton
<1> QED
  BY <1>1, <1>2

\* A set of users has at most one if its elements are all the same, and only
\* then: there are finitely many users.
LEMMA AtMostOne ==
    ASSUME NEW S \in SUBSET Users
    PROVE  Cardinality(S) <= 1 <=> \A x, y \in S : x = y
<1>1. IsFiniteSet(S) /\ Cardinality(S) \in Nat
  BY UsersAssumption, FS_Subset, FS_CardinalityType
<1>2. ASSUME Cardinality(S) <= 1 PROVE \A x, y \in S : x = y
  <2>1. Cardinality(S) = 0 \/ Cardinality(S) = 1
    BY <1>1, <1>2
  <2>2. S = {} \/ \E x : S = {x}
    BY <1>1, <2>1, FS_EmptySet, FS_Singleton
  <2> QED
    BY <2>2
<1>3. ASSUME \A x, y \in S : x = y PROVE Cardinality(S) <= 1
  BY <1>3, OneElement
<1> QED
  BY <1>2, <1>3

-----------------------------------------------------------------------------
Over == [Blank EXCEPT !.pc = "over"]

\* The requests that have not begun, or are over.
LEMMA BlankType ==
    /\ Blank \in Request /\ Over \in Request
    /\ Over.pc = "over" /\ Over.kind = "none" /\ Blank.pc = "idle" /\ Blank.kind = "none"
BY DEF Blank, Over, Request

\* The roles there are; no request has begun.
LEMMA InitInvariant == Init => IInv
<1> SUFFICES ASSUME Init PROVE IInv
  OBVIOUS
<1> USE DEF Init
<1>1. TypeOK
  BY BlankType DEF TypeOK
<1>2. \A x \in Requests : req[x].pc = "idle" /\ req[x].kind = "none"
  BY BlankType
<1>3. Started = {}
  BY <1>2 DEF Started
<1>4. PointInv /\ KnowsInv
  BY <1>2, <1>3 DEF PointInv, PointAt, KnowsInv
<1>5. SoleInv
  <2>1. \A o \in Orgs : AdminsOf(o) \in SUBSET Users
    BY DEF AdminsOf
  <2> QED
    BY <2>1, AtMostOne DEF SoleInv, SoleAt
<1>6. BanInv
  BY DEF BanInv, BanAt, RowsOf
<1> QED
  BY <1>1, <1>4, <1>5, <1>6 DEF IInv

-----------------------------------------------------------------------------
(* The steps that only read *)

\* What a reading step leaves in the request it is a step of.
Reads(x, s) ==
    /\ req' = [req EXCEPT ![x] = s] /\ s \in Request
    /\ UNCHANGED <<dbVars, historyVars>>
    /\ PointAt(x)' /\ (x \in Started' \ met => KnowsAt(x)')
    /\ s.pc = "commit" /\ s.kind \in Banning => RowsOf(s.on) = {}

\* A request reads the request's own row as the step has left it.
LEMMA ReadsOwn ==
    ASSUME TypeOK, NEW x \in Requests, NEW s, req' = [req EXCEPT ![x] = s]
    PROVE  req'[x] = s /\ \A y \in Requests : y # x => req'[y] = req[y]
BY DEF TypeOK

\* register: the check that there is no admin.
LEMMA BeginRegisterReads ==
    ASSUME IInv, NEW x \in Requests, NEW u \in Users, NEW r \in Role,
           BeginRegister(x, u, r)
    PROVE  \E s : Reads(x, s)
<1> DEFINE s == [[Blank EXCEPT !.kind = "register", !.on = u, !.to = r]
                     EXCEPT !.pc = "commit"]
<1>1. TypeOK
  BY DEF IInv
<1>2. s \in Request /\ s.pc = "commit" /\ s.kind = "register" /\ s.on = u /\ s.to = r
  BY DEF Request, Blank, Kinds, OrgKinds, SuperKinds, Role
<1>3. /\ req' = [req EXCEPT ![x] = s] /\ UNCHANGED <<dbVars, historyVars>>
      /\ role[u] = "absent" /\ (r = "admin" => AdminsOf(org[u]) = {})
  BY DEF BeginRegister, Read
<1> HIDE DEF s
<1>4. req'[x] = s
  BY <1>1, <1>3, ReadsOwn
<1>5. UNCHANGED <<role, org>>
  BY <1>3 DEF dbVars
<1>6. PointAt(x)'
  BY <1>2, <1>4 DEF PointAt
<1>7. KnowsAt(x)'
  BY <1>2, <1>3, <1>4, <1>5
     DEF KnowsAt, RegisterAt, BegunAt, TargetAt, PromoteAt, Targeted, AdminsOf
<1> QED
  BY <1>2, <1>3, <1>6, <1>7 DEF Reads, Banning

\* get_current_user: the user and his role.
LEMMA BeginReads ==
    ASSUME IInv, NEW x \in Requests, NEW u \in Users, Begin(x, u)
    PROVE  \E s : Reads(x, s)
<1> DEFINE s == [[Blank EXCEPT !.by = u, !.mine = role[u], !.org = org[u]]
                     EXCEPT !.pc = "begun"]
<1>1. TypeOK
  BY DEF IInv
<1>2. /\ s \in Request /\ s.pc = "begun" /\ s.kind = "none" /\ s.by = u
      /\ s.mine = role[u] /\ s.org = org[u] /\ s.admins = {} /\ s.org \in Orgs
  BY <1>1 DEF Request, Blank, TypeOK
<1>3. req' = [req EXCEPT ![x] = s] /\ UNCHANGED <<dbVars, historyVars>>
  BY DEF Begin, Read
<1> HIDE DEF s
<1>4. req'[x] = s
  BY <1>1, <1>3, ReadsOwn
<1>5. UNCHANGED <<role, org>>
  BY <1>3 DEF dbVars
<1>6. PointAt(x)'
  BY <1>2, <1>4 DEF PointAt
<1>7. KnowsAt(x)'
  BY <1>2, <1>4, <1>5 DEF KnowsAt, RegisterAt, BegunAt, TargetAt, PromoteAt, Targeted,
                          Kinds, OrgKinds, SuperKinds
<1> QED
  BY <1>2, <1>3, <1>6, <1>7 DEF Reads, Banning

\* get_current_user and require_roles: the ban row, and the role.
LEMMA CheckBanReads ==
    ASSUME IInv, NEW x \in Requests, CheckBan(x)
    PROVE  \E s : Reads(x, s)
<1> DEFINE s == [req[x] EXCEPT !.pc = "allowed"]
<1>1. TypeOK /\ req[x] \in Request /\ req[x].pc = "begun" /\ x \in Started
      /\ req[x].mine \in {"admin", "super_admin"} /\ PointAt(x)
      /\ (x \notin met => KnowsAt(x))
  BY DEF IInv, TypeOK, PointInv, KnowsInv, CheckBan, Started
<1>2. /\ s \in Request /\ s.pc = "allowed" /\ s.kind = req[x].kind
      /\ s.by = req[x].by /\ s.mine = req[x].mine /\ s.org = req[x].org
      /\ s.admins = req[x].admins /\ s.on = req[x].on
  BY <1>1 DEF Request
<1>3. req' = [req EXCEPT ![x] = s] /\ UNCHANGED <<dbVars, historyVars>>
  BY DEF CheckBan, Read
<1> HIDE DEF s
<1>4. req'[x] = s
  BY <1>1, <1>3, ReadsOwn
<1>5. UNCHANGED <<role, org>>
  BY <1>3 DEF dbVars
<1>6. PointAt(x)'
  BY <1>1, <1>2, <1>4 DEF PointAt
<1>7. ASSUME x \notin met PROVE KnowsAt(x)'
  <2>1. req[x].kind = "none" /\ BegunAt(x)
    BY <1>1, <1>7 DEF KnowsAt, BegunAt, PointAt
  <2> QED
    BY <1>1, <1>2, <1>4, <1>5, <2>1
       DEF KnowsAt, RegisterAt, BegunAt, TargetAt, PromoteAt, Targeted,
           Kinds, OrgKinds, SuperKinds
<1> QED
  BY <1>2, <1>3, <1>6, <1>7 DEF Reads

\* The target of the request, and the refusals that follow.
LEMMA LoadTargetReads ==
    ASSUME IInv, NEW x \in Requests, NEW k \in Kinds, NEW u \in Users, NEW r \in Role,
           LoadTarget(x, k, u, r)
    PROVE  \E s : Reads(x, s)
<1> DEFINE had == IF u = req[x].by THEN req[x].mine ELSE role[u]
           pc == IF k \in Banning \/ (k = "superadmin_change_role" /\ r = "admin")
                 THEN "loaded" ELSE "commit"
           s == [[req[x] EXCEPT !.kind = k, !.on = u, !.to = r, !.had = had,
                                !.org = org[u]] EXCEPT !.pc = pc]
<1>1. TypeOK /\ req[x] \in Request /\ req[x].pc = "allowed" /\ x \in Started
      /\ PointAt(x) /\ (x \notin met => KnowsAt(x))
      /\ k \in Targeted /\ (k \in OrgKinds => u # req[x].by /\ org[u] = req[x].org)
  BY DEF IInv, TypeOK, PointInv, KnowsInv, LoadTarget, Started, Targeted
<1>2. had \in Role \cup {"absent"} /\ org[u] \in Orgs
  BY <1>1 DEF Request, TypeOK
<1>3. req' = [req EXCEPT ![x] = s] /\ UNCHANGED <<dbVars, historyVars>>
  BY DEF LoadTarget, Read
<1>4. pc \in {"loaded", "commit"} /\ (pc = "commit" => k \notin Banning)
      /\ (k = "superadmin_change_role" => (pc = "loaded" <=> r = "admin"))
  BY DEF Banning
<1>5. x \notin met => had = role[u]
  BY <1>1 DEF KnowsAt, BegunAt
<1> HIDE DEF had, pc
<1>6. /\ s \in Request /\ s.pc = pc /\ s.kind = k /\ s.on = u /\ s.to = r /\ s.had = had
      /\ s.org = org[u] /\ s.by = req[x].by /\ s.mine = req[x].mine
      /\ s.admins = req[x].admins
  <2> DEFINE q == [req[x] EXCEPT !.kind = k, !.on = u, !.to = r, !.had = had,
                                 !.org = org[u]]
  <2>1. q \in Request
    BY <1>1, <1>2 DEF Request
  <2>2. /\ q.kind = k /\ q.on = u /\ q.to = r /\ q.had = had /\ q.org = org[u]
        /\ q.by = req[x].by /\ q.mine = req[x].mine /\ q.admins = req[x].admins
    BY <1>1 DEF Request
  <2> HIDE DEF q
  <2>3. /\ [q EXCEPT !.pc = pc] \in Request /\ [q EXCEPT !.pc = pc].pc = pc
    BY <1>4, <2>1 DEF Request
  <2>4. [q EXCEPT !.pc = pc] = s
    BY DEF q
  <2> HIDE DEF s
  <2>5. /\ s.kind = q.kind /\ s.on = q.on /\ s.to = q.to /\ s.had = q.had
        /\ s.org = q.org /\ s.by = q.by /\ s.mine = q.mine /\ s.admins = q.admins
    BY <2>1, <2>4 DEF Request
  <2> QED
    BY <2>2, <2>3, <2>4, <2>5
<1> HIDE DEF s
<1>7. req'[x] = s
  BY <1>1, <1>3, ReadsOwn
<1>8. UNCHANGED <<role, org>>
  BY <1>3 DEF dbVars
<1>9. PointAt(x)'
  <2>1. req[x].by \in Users
    BY <1>1 DEF PointAt
  <2> QED
    BY <1>2, <1>4, <1>6, <1>7, <2>1 DEF PointAt
<1>10. ASSUME x \notin met PROVE KnowsAt(x)'
  <2>1. /\ req[x].kind = "none" /\ req[x].admins = {} /\ req[x].mine = role[req[x].by]
        /\ req[x].org = org[req[x].by] /\ req[x].mine \in {"admin", "super_admin"}
    BY <1>1, <1>10 DEF KnowsAt, BegunAt, PointAt
  <2>2. k # "register" /\ (k = "handoff_admin" => k \in OrgKinds)
    BY <1>1 DEF Targeted, OrgKinds
  <2>3. RegisterAt(x)' /\ BegunAt(x)'
    BY <1>4, <1>6, <1>7, <2>2 DEF RegisterAt, BegunAt
  <2>4. TargetAt(x)'
    BY <1>1, <1>5, <1>6, <1>7, <1>8, <1>10, <2>1, <2>2 DEF TargetAt
  <2>5. PromoteAt(x)'
    BY <1>4, <1>6, <1>7, <2>1 DEF PromoteAt
  <2> QED
    BY <2>3, <2>4, <2>5 DEF KnowsAt
<1> QED
  BY <1>3, <1>4, <1>6, <1>9, <1>10 DEF Reads

\* superadmin_change_role: the admins to be demoted.
LEMMA LoadAdminsReads ==
    ASSUME IInv, NEW x \in Requests, LoadAdmins(x)
    PROVE  \E s : Reads(x, s)
<1> DEFINE D == AdminsOf(req[x].org) \ {req[x].on}
           s == [[req[x] EXCEPT !.admins = D] EXCEPT !.pc = "commit"]
<1>1. /\ TypeOK /\ req[x] \in Request /\ req[x].pc = "loaded" /\ x \in Started
      /\ req[x].kind = "superadmin_change_role"
      /\ PointAt(x) /\ (x \notin met => KnowsAt(x))
  BY DEF IInv, TypeOK, PointInv, KnowsInv, LoadAdmins, Started
<1>2. D \in SUBSET Users
  BY DEF AdminsOf
<1>3. req' = [req EXCEPT ![x] = s] /\ UNCHANGED <<dbVars, historyVars>>
  BY DEF LoadAdmins, Read
<1> HIDE DEF D
<1>4. /\ s \in Request /\ s.pc = "commit" /\ s.kind = req[x].kind /\ s.on = req[x].on
      /\ s.to = req[x].to /\ s.had = req[x].had /\ s.org = req[x].org
      /\ s.by = req[x].by /\ s.mine = req[x].mine /\ s.admins = D
  BY <1>1, <1>2 DEF Request
<1> HIDE DEF s
<1>5. req'[x] = s
  BY <1>1, <1>3, ReadsOwn
<1>6. UNCHANGED <<role, org>>
  BY <1>3 DEF dbVars
<1>7. PointAt(x)'
  BY <1>1, <1>4, <1>5 DEF PointAt
<1>8. ASSUME x \notin met PROVE KnowsAt(x)'
  <2>1. req[x].to = "admin" /\ TargetAt(x) /\ s.kind # "register"
    BY <1>1, <1>4, <1>8 DEF KnowsAt, PromoteAt
  <2>2. RegisterAt(x)' /\ BegunAt(x)'
    BY <1>4, <1>5, <2>1 DEF RegisterAt, BegunAt
  <2>3. TargetAt(x)'
    BY <1>4, <1>5, <1>6, <2>1 DEF TargetAt
  <2>4. PromoteAt(x)'
    BY <1>4, <1>5, <1>6, <2>1 DEF PromoteAt, AdminsOf, D
  <2> QED
    BY <2>2, <2>3, <2>4 DEF KnowsAt
<1>9. req[x].kind \notin Banning
  BY <1>1 DEF Banning
<1> QED
  BY <1>3, <1>4, <1>7, <1>8, <1>9 DEF Reads

\* ban_member and superadmin_ban: the check that there is no row.
LEMMA LoadBanReads ==
    ASSUME IInv, NEW x \in Requests, LoadBan(x)
    PROVE  \E s : Reads(x, s)
<1> DEFINE s == [req[x] EXCEPT !.pc = "commit"]
<1>1. /\ TypeOK /\ req[x] \in Request /\ req[x].pc = "loaded" /\ x \in Started
      /\ req[x].kind \in Banning /\ RowsOf(req[x].on) = {}
      /\ PointAt(x) /\ (x \notin met => KnowsAt(x))
  BY DEF IInv, TypeOK, PointInv, KnowsInv, LoadBan, Started
<1>2. req' = [req EXCEPT ![x] = s] /\ UNCHANGED <<dbVars, historyVars>>
  BY DEF LoadBan, Read
<1>3. /\ s \in Request /\ s.pc = "commit" /\ s.kind = req[x].kind /\ s.on = req[x].on
      /\ s.to = req[x].to /\ s.had = req[x].had /\ s.org = req[x].org
      /\ s.by = req[x].by /\ s.mine = req[x].mine
  BY <1>1 DEF Request
<1> HIDE DEF s
<1>4. req'[x] = s
  BY <1>1, <1>2, ReadsOwn
<1>5. UNCHANGED <<role, org>>
  BY <1>2 DEF dbVars
<1>6. PointAt(x)'
  BY <1>1, <1>3, <1>4 DEF PointAt
<1>7. req[x].kind \notin {"register", "superadmin_change_role"}
  BY <1>1 DEF Banning
<1>8. ASSUME x \notin met PROVE KnowsAt(x)'
  <2>1. TargetAt(x)'
    BY <1>1, <1>3, <1>4, <1>5, <1>8 DEF KnowsAt, TargetAt
  <2> QED
    BY <1>3, <1>4, <1>7, <2>1 DEF KnowsAt, RegisterAt, BegunAt, PromoteAt
<1> QED
  BY <1>1, <1>2, <1>3, <1>6, <1>8 DEF Reads

\* unban_member and superadmin_unban: the one row there is.
LEMMA LoadRowReads ==
    ASSUME IInv, NEW x \in Requests, NEW k \in Unbanning, NEW u \in Users,
           LoadRow(x, k, u)
    PROVE  \E s : Reads(x, s)
<1> DEFINE F == {b \in RowsOf(u) : k = "unban" => b[3] = req[x].org}
           s == [[req[x] EXCEPT !.kind = k, !.on = u, !.rows = F] EXCEPT !.pc = "commit"]
<1>1. /\ TypeOK /\ req[x] \in Request /\ req[x].pc = "allowed" /\ x \in Started
      /\ PointAt(x)
  BY DEF IInv, TypeOK, PointInv, LoadRow, Started
<1>2. F \in SUBSET (Requests \X Users \X Orgs)
  BY <1>1 DEF RowsOf, TypeOK
<1>3. req' = [req EXCEPT ![x] = s] /\ UNCHANGED <<dbVars, historyVars>>
  BY DEF LoadRow, Read
<1>4. k \in Kinds /\ k \notin Banning /\ k \notin Targeted /\ k # "register"
      /\ k # "superadmin_change_role"
  BY DEF Unbanning, Banning, Kinds, OrgKinds, SuperKinds, Targeted
<1> HIDE DEF F
<1>5. /\ s \in Request /\ s.pc = "commit" /\ s.kind = k /\ s.on = u
      /\ s.org = req[x].org /\ s.by = req[x].by
  BY <1>1, <1>2, <1>4 DEF Request
<1> HIDE DEF s
<1>6. req'[x] = s
  BY <1>1, <1>3, ReadsOwn
<1>7. PointAt(x)'
  BY <1>1, <1>5, <1>6 DEF PointAt
<1>8. KnowsAt(x)'
  BY <1>4, <1>5, <1>6 DEF KnowsAt, RegisterAt, BegunAt, TargetAt, PromoteAt
<1> QED
  BY <1>3, <1>4, <1>5, <1>7, <1>8 DEF Reads

\* A refusal, or a failure.
LEMMA RefuseReads ==
    ASSUME IInv, NEW x \in Requests, Refuse(x)
    PROVE  Reads(x, Over)
<1>1. TypeOK /\ req' = [req EXCEPT ![x] = Over] /\ UNCHANGED <<dbVars, historyVars>>
  BY DEF IInv, Refuse, Over
<1>2. req'[x] = Over
  BY <1>1, ReadsOwn
<1>3. PointAt(x)' /\ x \notin Started'
  BY <1>2, BlankType DEF PointAt, Started
<1> QED
  BY <1>1, <1>3, BlankType DEF Reads, Banning

\* A reading step keeps the invariant: it is enough to look at its request.
LEMMA ReadsKeep ==
    ASSUME IInv, NEW x \in Requests, NEW s, Reads(x, s)
    PROVE  IInv'
<1>1. /\ TypeOK /\ req' = [req EXCEPT ![x] = s] /\ s \in Request
      /\ UNCHANGED <<role, org, bans, met, orderly, crossed>>
  BY DEF IInv, Reads, dbVars, historyVars
<1>2. req'[x] = s /\ \A y \in Requests : y # x => req'[y] = req[y]
  BY <1>1, ReadsOwn
<1>3. TypeOK'
  BY <1>1 DEF TypeOK
<1>4. PointInv'
  BY <1>2 DEF IInv, PointInv, PointAt, Reads, Started
<1>5. KnowsInv'
  <2>1. ASSUME NEW y \in Started' \ met' PROVE KnowsAt(y)'
    <3>1. CASE y = x
      BY <1>1, <2>1, <3>1 DEF Reads
    <3>2. CASE y # x
      <4>1. y \in Requests /\ y \in Started \ met /\ req'[y] = req[y]
        BY <1>1, <1>2, <2>1, <3>2 DEF Started
      <4>2. KnowsAt(y)
        BY <4>1 DEF IInv, KnowsInv
      <4> QED
        BY <1>1, <4>1, <4>2
           DEF KnowsAt, RegisterAt, BegunAt, TargetAt, PromoteAt, AdminsOf
    <3> QED
      BY <3>1, <3>2
  <2> QED
    BY <2>1 DEF KnowsInv
<1>6. SoleInv'
  BY <1>1 DEF IInv, SoleInv, SoleAt, AdminsOf
<1>7. BanInv'
  <2>1. ASSUME NEW u \in Users PROVE BanAt(u)'
    <3>1. RowsOf(u)' = RowsOf(u) /\ BanAt(u)
      BY <1>1 DEF RowsOf, IInv, BanInv
    <3>2. ASSUME NEW y \in Requests, req'[y].pc = "commit", req'[y].kind \in Banning,
                 req'[y].on = u, RowsOf(u) # {}
          PROVE  u \in crossed
      <4>1. CASE y = x
        BY <1>2, <3>2, <4>1 DEF Reads
      <4>2. CASE y # x
        BY <1>2, <3>1, <3>2, <4>2 DEF BanAt
      <4> QED
        BY <4>1, <4>2
    <3> QED
      BY <1>1, <3>1, <3>2 DEF BanAt
  <2> QED
    BY <2>1 DEF BanInv
<1> QED
  BY <1>3, <1>4, <1>5, <1>6, <1>7 DEF IInv

-----------------------------------------------------------------------------
(* The commits that change roles *)

\* Whatever a commit writes to the roles, it overtakes every other request, and
\* touches no ban.
LEMMA ChangesKeep ==
    ASSUME IInv, NEW x \in Requests, NEW exempt \in BOOLEAN, ChangesRoles(x, exempt),
           role' \in [Users -> Role \cup {"absent"}], org' \in [Users -> Orgs]
    PROVE  TypeOK' /\ PointInv' /\ KnowsInv' /\ BanInv'
<1>1. /\ TypeOK /\ req' = [req EXCEPT ![x] = Over] /\ bans' = bans
      /\ met' = (met \cup Started) \ {x} /\ crossed' = crossed
      /\ orderly' = (orderly /\ x \notin met /\ ~exempt)
  BY DEF IInv, ChangesRoles, Finish, Over
<1>2. req'[x] = Over /\ \A y \in Requests : y # x => req'[y] = req[y]
  BY <1>1, ReadsOwn
<1>3. Started' = Started \ {x}
  BY <1>2, BlankType DEF Started
<1>4. TypeOK'
  <2>1. req' \in [Requests -> Request]
    BY <1>1, BlankType DEF TypeOK
  <2>2. met' \subseteq Requests
    BY <1>1 DEF TypeOK, Started
  <2>3. orderly' \in BOOLEAN
    BY <1>1
  <2> QED
    BY <1>1, <2>1, <2>2, <2>3 DEF TypeOK
<1>5. PointInv'
  BY <1>2, <1>3, BlankType DEF IInv, PointInv, PointAt
<1>6. KnowsInv'
  BY <1>1, <1>3 DEF KnowsInv
<1>7. BanInv'
  <2>1. ASSUME NEW u \in Users PROVE BanAt(u)'
    <3>1. RowsOf(u)' = RowsOf(u) /\ BanAt(u)
      BY <1>1 DEF RowsOf, IInv, BanInv
    <3>2. Over.kind \notin Banning
      BY BlankType DEF Banning
    <3> QED
      BY <1>1, <1>2, <3>1, <3>2 DEF BanAt
  <2> QED
    BY <2>1 DEF BanInv
<1> QED
  BY <1>4, <1>5, <1>6, <1>7

\* What a request that reaches its commit knows.
LEMMA AtCommit ==
    ASSUME IInv, NEW x \in Requests, req[x].pc = "commit"
    PROVE  /\ TypeOK /\ req[x] \in Request /\ x \in Started /\ PointAt(x)
           /\ x \notin met => KnowsAt(x)
BY DEF IInv, TypeOK, PointInv, KnowsInv, Started

\* An organisation that loses admins, or keeps them, still has one at most.
LEMMA SoleKept ==
    ASSUME IInv, NEW o \in Orgs, orderly, AdminsOf(o)' \subseteq AdminsOf(o)
    PROVE  SoleAt(o)'
BY DEF IInv, SoleInv, SoleAt

\* register: a member, or the first admin.
LEMMA RegisterKeeps ==
    ASSUME IInv, NEW x \in Requests, CommitRegister(x)
    PROVE  IInv'
<1> DEFINE u == req[x].on
<1>1. /\ req[x].kind = "register" /\ role' = [role EXCEPT ![u] = req[x].to]
      /\ ChangesRoles(x, FALSE) /\ org' = org /\ req[x].pc = "commit"
  BY DEF CommitRegister, ChangesRoles, Finish
<1>2. TypeOK /\ req[x] \in Request /\ u \in Users /\ (x \notin met => KnowsAt(x))
  BY <1>1, AtCommit DEF PointAt
<1>3. req[x].to \in Role \cup {"absent"}
  BY <1>2 DEF Request
<1>4. role' \in [Users -> Role \cup {"absent"}] /\ org' \in [Users -> Orgs]
  BY <1>1, <1>2, <1>3 DEF TypeOK
<1>5. SoleInv'
  <2> SUFFICES ASSUME orderly', NEW o \in Orgs PROVE SoleAt(o)'
    BY DEF SoleInv
  <2>1. orderly /\ x \notin met
    BY <1>1 DEF ChangesRoles
  <2>2. role[u] = "absent" /\ (req[x].to = "admin" => AdminsOf(org[u]) = {})
    BY <1>1, <1>2, <2>1 DEF KnowsAt, RegisterAt
  <2>3. \A v \in Users : v # u => role'[v] = role[v]
    BY <1>1, <1>2 DEF TypeOK
  <2>4. role'[u] = req[x].to
    BY <1>1, <1>2 DEF TypeOK
  <2>5. CASE req[x].to = "admin" /\ o = org[u]
    <3>1. AdminsOf(o)' \subseteq {u}
      BY <1>1, <2>2, <2>3, <2>5 DEF AdminsOf
    <3> QED
      BY <3>1 DEF SoleAt
  <2>6. CASE ~ (req[x].to = "admin" /\ o = org[u])
    <3>1. AdminsOf(o)' \subseteq AdminsOf(o)
      BY <1>1, <2>3, <2>4, <2>6 DEF AdminsOf
    <3> QED
      BY <2>1, <3>1, SoleKept
  <2> QED
    BY <2>5, <2>6
<1> QED
  BY <1>1, <1>4, <1>5, ChangesKeep DEF IInv

\* The target's column after the commit is its role as it was, or the new one.
LEMMA GivenRole ==
    ASSUME IInv, NEW x \in Requests, req[x].pc = "commit", req[x].kind # "none"
    PROVE  /\ req[x].on \in Users /\ Given(x) \in {role[req[x].on], req[x].to}
           /\ Given(x) \in Role \cup {"absent"}
           /\ req[x].had = role[req[x].on] => Given(x) = req[x].to
<1>1. TypeOK /\ req[x] \in Request /\ req[x].on \in Users
  BY AtCommit DEF PointAt
<1>2. req[x].to \in Role \cup {"absent"} /\ role[req[x].on] \in Role \cup {"absent"}
  BY <1>1 DEF Request, TypeOK
<1> QED
  BY <1>1, <1>2 DEF Given

\* change_member_role: nobody becomes an admin, unless by a super admin.
LEMMA MemberRoleKeeps ==
    ASSUME IInv, NEW x \in Requests, CommitMemberRole(x)
    PROVE  IInv'
<1>1. /\ req[x].kind = "change_member_role" /\ org' = org /\ req[x].pc = "commit"
      /\ role' = [role EXCEPT ![req[x].on] = Given(x)]
      /\ ChangesRoles(x, req[x].to = "admin") /\ (req[x].to = "admin") \in BOOLEAN
  BY DEF CommitMemberRole, ChangesRoles, Finish
<1>2. /\ req[x].on \in Users /\ Given(x) \in {role[req[x].on], req[x].to}
      /\ Given(x) \in Role \cup {"absent"} /\ TypeOK
  BY <1>1, GivenRole DEF IInv
<1>3. role' \in [Users -> Role \cup {"absent"}] /\ org' \in [Users -> Orgs]
  BY <1>1, <1>2 DEF TypeOK
<1>4. SoleInv'
  <2> SUFFICES ASSUME orderly', NEW o \in Orgs PROVE SoleAt(o)'
    BY DEF SoleInv
  <2>1. orderly /\ req[x].to # "admin"
    BY <1>1 DEF ChangesRoles
  <2>2. AdminsOf(o)' \subseteq AdminsOf(o)
    BY <1>1, <1>2, <2>1 DEF AdminsOf, TypeOK
  <2> QED
    BY <2>1, <2>2, SoleKept
<1> QED
  BY <1>1, <1>3, <1>4, ChangesKeep DEF IInv

\* handoff_admin: the admin becomes a member when the other becomes the admin.
LEMMA HandoffKeeps ==
    ASSUME IInv, NEW x \in Requests, CommitHandoff(x)
    PROVE  IInv'
<1>1. /\ req[x].kind = "handoff_admin" /\ org' = org /\ req[x].pc = "commit"
      /\ role' = [role EXCEPT ![req[x].by] = "member", ![req[x].on] = Given(x)]
      /\ ChangesRoles(x, req[x].mine = "super_admin")
      /\ (req[x].mine = "super_admin") \in BOOLEAN
  BY DEF CommitHandoff, ChangesRoles, Finish
<1>2. /\ req[x].on \in Users /\ Given(x) \in Role \cup {"absent"}
      /\ TypeOK /\ PointAt(x) /\ x \in Started /\ (x \notin met => KnowsAt(x))
  BY <1>1, GivenRole, AtCommit
<1>3. req[x].by \in Users
  BY <1>1, <1>2 DEF PointAt
<1>4. "member" \in Role \cup {"absent"}
  BY DEF Role
<1>5. role' \in [Users -> Role \cup {"absent"}] /\ org' \in [Users -> Orgs]
  BY <1>1, <1>2, <1>4 DEF TypeOK
<1>6. SoleInv'
  <2> SUFFICES ASSUME orderly', NEW o \in Orgs PROVE SoleAt(o)'
    BY DEF SoleInv
  <2>1. orderly /\ x \notin met /\ req[x].mine # "super_admin"
    BY <1>1 DEF ChangesRoles
  <2>2. req[x].kind \in Targeted
    BY <1>1 DEF Targeted, Kinds, OrgKinds, SuperKinds, Unbanning
  <2>3. /\ role[req[x].by] = "admin" /\ req[x].on # req[x].by
        /\ org[req[x].by] = org[req[x].on]
    BY <1>1, <1>2, <2>1, <2>2 DEF KnowsAt, TargetAt
  <2>4. /\ role'[req[x].by] = "member"
        /\ \A v \in Users : v \notin {req[x].by, req[x].on} => role'[v] = role[v]
    BY <1>1, <1>2, <1>3, <2>3 DEF TypeOK
  <2>5. CASE o = org[req[x].on]
    <3>1. AdminsOf(o) \subseteq {req[x].by}
      BY <1>3, <2>1, <2>3, <2>5 DEF IInv, SoleInv, SoleAt, AdminsOf
    <3>2. AdminsOf(o)' \subseteq {req[x].on}
      BY <1>1, <2>4, <3>1 DEF AdminsOf
    <3> QED
      BY <3>2 DEF SoleAt
  <2>6. CASE o # org[req[x].on]
    <3>1. AdminsOf(o)' \subseteq AdminsOf(o)
      BY <1>1, <2>3, <2>4, <2>6 DEF AdminsOf
    <3> QED
      BY <2>1, <3>1, SoleKept
  <2> QED
    BY <2>5, <2>6
<1> QED
  BY <1>1, <1>5, <1>6, ChangesKeep DEF IInv

\* superadmin_change_role: the admins that were found become members.
LEMMA PromoteKeeps ==
    ASSUME IInv, NEW x \in Requests, CommitPromote(x)
    PROVE  /\ IInv'
           /\ \A o \in Orgs : x \notin met /\ req[x].to = "admin" /\ req[x].org = o =>
                 AdminsOf(o)' = {req[x].on}
<1>1. /\ req[x].kind = "superadmin_change_role" /\ org' = org /\ req[x].pc = "commit"
      /\ role' = [u \in Users |-> IF u \in req[x].admins THEN "member"
                                  ELSE IF u = req[x].on THEN Given(x) ELSE role[u]]
      /\ ChangesRoles(x, FALSE)
  BY DEF CommitPromote, ChangesRoles, Finish
<1>2. /\ req[x].on \in Users /\ Given(x) \in Role \cup {"absent"}
      /\ Given(x) \in {role[req[x].on], req[x].to}
      /\ req[x].had = role[req[x].on] => Given(x) = req[x].to
      /\ TypeOK /\ (x \notin met => KnowsAt(x))
  BY <1>1, GivenRole, AtCommit
<1>3. "member" \in Role
  BY DEF Role
<1>4. role' \in [Users -> Role \cup {"absent"}] /\ org' \in [Users -> Orgs]
  BY <1>1, <1>2, <1>3 DEF TypeOK
<1>5. ASSUME x \notin met
      PROVE  /\ req[x].had = role[req[x].on] /\ req[x].org = org[req[x].on]
             /\ req[x].admins = IF req[x].to = "admin"
                                THEN AdminsOf(req[x].org) \ {req[x].on} ELSE {}
  <2>1. req[x].kind \in Targeted
    BY <1>1 DEF Targeted, Kinds, OrgKinds, SuperKinds, Unbanning
  <2> QED
    BY <1>1, <1>2, <1>5, <2>1 DEF KnowsAt, TargetAt, PromoteAt
<1>6. ASSUME x \notin met, req[x].to = "admin", NEW o \in Orgs, req[x].org = o
      PROVE  AdminsOf(o)' = {req[x].on}
  <2>1. /\ req[x].admins = AdminsOf(o) \ {req[x].on}
        /\ Given(x) = "admin" /\ org[req[x].on] = o
    BY <1>2, <1>5, <1>6
  <2>2. \A u \in Users : role'[u] = "admin" /\ org[u] = o <=> u = req[x].on
    BY <1>1, <1>2, <2>1 DEF AdminsOf
  <2> QED
    BY <1>1, <1>2, <2>2 DEF AdminsOf
<1>7. SoleInv'
  <2> SUFFICES ASSUME orderly', NEW o \in Orgs PROVE SoleAt(o)'
    BY DEF SoleInv
  <2>1. orderly /\ x \notin met
    BY <1>1 DEF ChangesRoles
  <2>2. CASE req[x].to = "admin" /\ o = req[x].org
    <3>1. AdminsOf(o)' \subseteq {req[x].on}
      BY <1>1, <1>5, <2>1, <2>2 DEF AdminsOf
    <3> QED
      BY <3>1 DEF SoleAt
  <2>3. CASE ~ (req[x].to = "admin" /\ o = req[x].org)
    <3>1. AdminsOf(o)' \subseteq AdminsOf(o)
      BY <1>1, <1>2, <1>5, <2>1, <2>3 DEF AdminsOf
    <3> QED
      BY <2>1, <3>1, SoleKept
  <2> QED
    BY <2>2, <2>3
<1>8. IInv'
  BY <1>1, <1>4, <1>7, ChangesKeep DEF IInv
<1> QED
  BY <1>6, <1>8

\* admin_update_user: exempt if it makes an admin or moves a user.
LEMMA UpdateKeeps ==
    ASSUME IInv, NEW x \in Requests, NEW o \in Orgs, CommitUpdate(x, o)
    PROVE  IInv'
<1>1. /\ req[x].kind = "admin_update_user" /\ req[x].pc = "commit"
      /\ role' = [role EXCEPT ![req[x].on] = Given(x)]
      /\ org' = [org EXCEPT ![req[x].on] = IF o = req[x].org THEN @ ELSE o]
      /\ ChangesRoles(x, req[x].to = "admin" \/ o # req[x].org)
      /\ (req[x].to = "admin" \/ o # req[x].org) \in BOOLEAN
  BY DEF CommitUpdate, ChangesRoles, Finish
<1>2. /\ req[x].on \in Users /\ Given(x) \in {role[req[x].on], req[x].to}
      /\ Given(x) \in Role \cup {"absent"} /\ TypeOK
  BY <1>1, GivenRole DEF IInv
<1>3. role' \in [Users -> Role \cup {"absent"}] /\ org' \in [Users -> Orgs]
  BY <1>1, <1>2 DEF TypeOK
<1>4. SoleInv'
  <2> SUFFICES ASSUME orderly', NEW p \in Orgs PROVE SoleAt(p)'
    BY DEF SoleInv
  <2>1. orderly /\ req[x].to # "admin" /\ o = req[x].org
    BY <1>1 DEF ChangesRoles
  <2>2. org' = org
    BY <1>1, <1>2, <2>1 DEF TypeOK
  <2>3. AdminsOf(p)' \subseteq AdminsOf(p)
    BY <1>1, <1>2, <2>1, <2>2 DEF AdminsOf, TypeOK
  <2> QED
    BY <2>1, <2>3, SoleKept
<1> QED
  BY <1>1, <1>3, <1>4, ChangesKeep DEF IInv

-----------------------------------------------------------------------------
(* The commits that change bans *)

\* What a commit that changes no role keeps.
LEMMA RolesStay ==
    ASSUME IInv, NEW x \in Requests, Finish(x),
           bans' \subseteq Requests \X Users \X Orgs, crossed' \subseteq Users,
           UNCHANGED <<role, org, met, orderly>>
    PROVE  /\ TypeOK' /\ PointInv' /\ KnowsInv' /\ SoleInv'
           /\ req'[x] = Over /\ \A y \in Requests : y # x => req'[y] = req[y]
<1>1. TypeOK /\ req' = [req EXCEPT ![x] = Over]
  BY DEF IInv, Finish, Over
<1>2. req'[x] = Over /\ \A y \in Requests : y # x => req'[y] = req[y]
  BY <1>1, ReadsOwn
<1>3. Started' \subseteq Started \ {x}
  BY <1>2, BlankType DEF Started
<1>4. TypeOK'
  BY <1>1, BlankType DEF TypeOK
<1>5. PointInv'
  BY <1>2, <1>3, BlankType DEF IInv, PointInv, PointAt
<1>6. KnowsInv'
  <2>1. ASSUME NEW y \in Started' \ met' PROVE KnowsAt(y)'
    <3>1. y \in Requests /\ y \in Started \ met /\ req'[y] = req[y]
      BY <1>2, <1>3, <2>1 DEF Started
    <3>2. KnowsAt(y)
      BY <3>1 DEF IInv, KnowsInv
    <3> QED
      BY <3>1, <3>2 DEF KnowsAt, RegisterAt, BegunAt, TargetAt, PromoteAt, AdminsOf
  <2> QED
    BY <2>1 DEF KnowsInv
<1>7. SoleInv'
  BY DEF IInv, SoleInv, SoleAt, AdminsOf
<1> QED
  BY <1>2, <1>4, <1>5, <1>6, <1>7

\* ban_member and superadmin_ban: a second row is one of two that overlapped.
LEMMA BanKeeps ==
    ASSUME IInv, NEW x \in Requests, CommitBan(x)
    PROVE  IInv'
<1> DEFINE rivals == {y \in Requests \ {x} : /\ req[y].pc = "commit"
                                             /\ req[y].kind \in Banning
                                             /\ req[y].on = req[x].on}
<1>1. /\ Finish(x) /\ req[x].pc = "commit" /\ req[x].kind \in Banning
      /\ bans' = bans \cup {<<x, req[x].on, req[x].org>>}
      /\ crossed' = crossed \cup (IF rivals = {} THEN {} ELSE {req[x].on})
      /\ UNCHANGED <<role, org, met, orderly>>
  BY DEF CommitBan, Finish
<1>2. TypeOK /\ req[x].on \in Users /\ req[x].org \in Orgs
  <2>1. req[x].kind \notin {"none", "register"}
    BY <1>1 DEF Banning
  <2> QED
    BY <1>1, <2>1, AtCommit DEF PointAt
<1>3. bans' \subseteq Requests \X Users \X Orgs /\ crossed' \subseteq Users
  BY <1>1, <1>2 DEF TypeOK
<1>4. /\ TypeOK' /\ PointInv' /\ KnowsInv' /\ SoleInv'
      /\ req'[x] = Over /\ \A y \in Requests : y # x => req'[y] = req[y]
  BY <1>1, <1>3, RolesStay
<1>5. ASSUME NEW u \in Users PROVE BanAt(u)'
  <2>1. BanAt(u) /\ crossed \subseteq crossed'
    BY <1>1 DEF IInv, BanInv
  <2>2. CASE u # req[x].on
    <3>1. RowsOf(u)' = RowsOf(u)
      BY <1>1, <2>2 DEF RowsOf
    <3> QED
      BY <1>4, <2>1, <3>1, BlankType DEF BanAt, Banning
  <2>3. CASE u = req[x].on
    <3>1. RowsOf(u)' = RowsOf(u) \cup {<<x, u, req[x].org>>}
      BY <1>1, <2>3 DEF RowsOf
    <3>2. RowsOf(u) # {} => u \in crossed
      BY <1>1, <2>1, <2>3 DEF BanAt
    <3>3. \A b, c \in RowsOf(u)' : b # c => u \in crossed'
      BY <2>1, <3>1, <3>2
    <3>4. ASSUME NEW y \in Requests, req'[y].pc = "commit", req'[y].kind \in Banning,
                 req'[y].on = u
          PROVE  u \in crossed'
      <4>1. y # x
        BY <1>4, <3>4, BlankType
      <4>2. y \in rivals
        BY <1>4, <2>3, <3>4, <4>1
      <4> QED
        BY <1>1, <2>3, <4>2
    <3> QED
      BY <3>3, <3>4 DEF BanAt
  <2> QED
    BY <2>2, <2>3
<1> QED
  BY <1>4, <1>5 DEF IInv, BanInv

\* unban_member and superadmin_unban.
LEMMA UnbanKeeps ==
    ASSUME IInv, NEW x \in Requests, CommitUnban(x)
    PROVE  IInv'
<1>1. /\ Finish(x) /\ bans' = bans \ req[x].rows
      /\ UNCHANGED <<role, org, met, orderly, crossed>>
  BY DEF CommitUnban, historyVars
<1>2. bans' \subseteq Requests \X Users \X Orgs /\ crossed' \subseteq Users
  BY <1>1 DEF IInv, TypeOK
<1>3. /\ TypeOK' /\ PointInv' /\ KnowsInv' /\ SoleInv'
      /\ req'[x] = Over /\ \A y \in Requests : y # x => req'[y] = req[y]
  BY <1>1, <1>2, RolesStay
<1>4. ASSUME NEW u \in Users PROVE BanAt(u)'
  <2>1. BanAt(u) /\ RowsOf(u)' \subseteq RowsOf(u)
    BY <1>1 DEF IInv, BanInv, RowsOf
  <2>2. Over.pc # "commit"
    BY BlankType
  <2> QED
    BY <1>1, <1>3, <2>1, <2>2 DEF BanAt
<1> QED
  BY <1>3, <1>4 DEF IInv, BanInv

-----------------------------------------------------------------------------
\* Every step of every request keeps the invariant.
LEMMA InvariantStep == IInv /\ [Next]_vars => IInv'
<1> SUFFICES ASSUME IInv, [Next]_vars PROVE IInv'
  OBVIOUS
<1>1. ASSUME NEW x \in Requests, \E s : Reads(x, s) PROVE IInv'
  BY <1>1, ReadsKeep
<1>2. ASSUME NEW x \in Requests, NEW u \in Users, NEW r \in Role, BeginRegister(x, u, r)
      PROVE  IInv'
  BY <1>1, <1>2, BeginRegisterReads
<1>3. ASSUME NEW x \in Requests, NEW u \in Users, Begin(x, u) PROVE IInv'
  BY <1>1, <1>3, BeginReads
<1>4. ASSUME NEW x \in Requests, CheckBan(x) PROVE IInv'
  BY <1>1, <1>4, CheckBanReads
<1>5. ASSUME NEW x \in Requests, NEW k \in Kinds, NEW u \in Users, NEW r \in Role,
             LoadTarget(x, k, u, r)
      PROVE  IInv'
  BY <1>1, <1>5, LoadTargetReads
<1>6. ASSUME NEW x \in Requests, LoadAdmins(x) PROVE IInv'
  BY <1>1, <1>6, LoadAdminsReads
<1>7. ASSUME NEW x \in Requests, LoadBan(x) PROVE IInv'
  BY <1>1, <1>7, LoadBanReads
<1>8. ASSUME NEW x \in Requests, NEW k \in Unbanning, NEW u \in Users, LoadRow(x, k, u)
      PROVE  IInv'
  BY <1>1, <1>8, LoadRowReads
<1>9. ASSUME NEW x \in Requests, Refuse(x) PROVE IInv'
  BY <1>9, RefuseReads, ReadsKeep
<1>10. ASSUME NEW x \in Requests, Commit(x) PROVE IInv'
  BY <1>10, RegisterKeeps, MemberRoleKeeps, HandoffKeeps, PromoteKeeps, BanKeeps,
     UnbanKeeps, UpdateKeeps DEF Commit
<1>11. CASE UNCHANGED vars
  <2>1. UNCHANGED <<role, org, bans, req, met, orderly, crossed>>
    BY <1>11 DEF vars
  <2>2. TypeOK' /\ PointInv'
    BY <2>1 DEF IInv, TypeOK, PointInv, PointAt, Started
  <2>3. KnowsInv'
    BY <2>1 DEF IInv, KnowsInv, KnowsAt, RegisterAt, BegunAt, TargetAt, PromoteAt,
                Started, AdminsOf
  <2>4. SoleInv' /\ BanInv'
    BY <2>1 DEF IInv, SoleInv, SoleAt, AdminsOf, BanInv, BanAt, RowsOf
  <2> QED
    BY <2>2, <2>3, <2>4 DEF IInv
<1> QED
  BY <1>2, <1>3, <1>4, <1>5, <1>6, <1>7, <1>8, <1>9, <1>10, <1>11 DEF Next

\* The inductive invariant holds of every behaviour.
LEMMA Invariance == Spec => []IInv
BY InitInvariant, InvariantStep, PTL DEF Spec

\* Every variable keeps its type, whatever the users and their requests.
THEOREM TypeCorrect == Spec => []TypeOK
<1>1. IInv => TypeOK
  BY DEF IInv
<1> QED
  BY Invariance, <1>1, PTL

\* Requests that change roles one after the other leave every organisation at
\* most one admin (register's check, handoff_admin's demotion of who hands over,
\* superadmin_change_role's demotion of the admin it finds).
THEOREM SoleAdmin == Spec => []SoleAdminWhenOrderly
<1>1. IInv => SoleAdminWhenOrderly
  <2>1. \A o \in Orgs : AdminsOf(o) \in SUBSET Users
    BY DEF AdminsOf
  <2> QED
    BY <2>1, AtMostOne DEF IInv, SoleInv, SoleAt, SoleAdminWhenOrderly
<1> QED
  BY Invariance, <1>1, PTL

\* A user has two ban rows only if two requests to ban him overlapped
\* (ban_member and superadmin_ban look for a row before they insert one).
THEOREM OneBanRow == Spec => []OneBanRowUnlessCrossed
<1>1. ASSUME IInv, NEW u \in Users, u \notin crossed
      PROVE  ~ (Cardinality(RowsOf(u)) > 1)
  <2>1. \A b, c \in RowsOf(u) : b = c
    BY <1>1 DEF IInv, BanInv, BanAt
  <2>2. Cardinality(RowsOf(u)) = 0 \/ Cardinality(RowsOf(u)) = 1
    BY <2>1, OneElement
  <2> QED
    BY <2>2
<1>2. IInv => OneBanRowUnlessCrossed
  BY <1>1 DEF OneBanRowUnlessCrossed
<1> QED
  BY Invariance, <1>2, PTL

\* A super admin's promotion that was not overtaken leaves its target the only
\* admin, however many there were (the loop of superadmin_change_role).
THEOREM PromotionLeavesOne == Spec => PromotionHeals
<1>1. IInv => \A x \in Requests \ met, o \in Orgs :
          CommitPromote(x) /\ req[x].to = "admin" /\ req[x].org = o =>
              AdminsOf(o)' = {req[x].on}
  BY PromoteKeeps
<1> QED
  BY Invariance, <1>1, PTL DEF PromotionHeals

=============================================================================
