------------------------------ MODULE OrgRoles ------------------------------
(***************************************************************************)
(* Who administers an organisation and who is shut out of it: registration  *)
(* (services/auth_service.py), the checks made before every request         *)
(* (middleware/auth.py), and the requests by which admins and super admins  *)
(* change roles, hand their role over and ban members                       *)
(* (routers/superadmin_router.py, routers/all_routers.py).                  *)
(*                                                                          *)
(* A request loads the user who makes it, then the one it is about, then    *)
(* what else it decides by, each with a SELECT of its own, and commits when *)
(* its handler has returned.  Its session keeps a row as it was first       *)
(* loaded, and writes a column only if it was given another value.          *)
(***************************************************************************)
EXTENDS Integers, FiniteSets

CONSTANTS
    Users,      \* the accounts that exist or may be registered
    Orgs,       \* the organisations
    Requests,   \* the requests that may be made; each is also the id of the
                \* ban row that it inserts
    Nobody      \* no user, no organisation

ASSUME UsersAssumption == IsFiniteSet(Users)

VARIABLES
    (* the database, as committed *)
    role,       \* users.role; "absent": not registered
    org,        \* users.org_id
    bans,       \* banned_users: rows <<id, user, org>>
    (* the requests *)
    req,        \* where each is, and what it has loaded
    (* history *)
    met,        \* requests that a change of roles overtook since they began
    orderly,    \* no such request, and no call that ignores the rule of one
                \* admin for an organisation, has changed roles
    crossed     \* users banned by two overlapping requests

vars == <<role, org, bans, req, met, orderly, crossed>>

Role == {"member", "admin", "super_admin"}
OrgKinds == {"change_member_role", "ban", "unban", "handoff_admin"}
SuperKinds == {"superadmin_change_role", "superadmin_ban", "superadmin_unban"}
Kinds == {"register", "admin_update_user"} \cup OrgKinds \cup SuperKinds
Banning == {"ban", "superadmin_ban"}
Unbanning == {"unban", "superadmin_unban"}

\* A request: who makes it and his role as loaded; what it does to whom; the
\* role or organisation it gives; the role of its target, and the
\* organisation it goes by, as loaded; the other rows it has read.
Request ==
    [pc : {"idle", "begun", "allowed", "loaded", "commit", "over"},
     by : Users \cup {Nobody}, mine : Role \cup {"absent"},
     kind : Kinds \cup {"none"}, on : Users \cup {Nobody},
     to : Role \cup {"absent"}, had : Role \cup {"absent"},
     org : Orgs \cup {Nobody}, admins : SUBSET Users,
     rows : SUBSET (Requests \X Users \X Orgs)]

Blank == [pc |-> "idle", by |-> Nobody, mine |-> "absent", kind |-> "none",
          on |-> Nobody, to |-> "absent", had |-> "absent", org |-> Nobody,
          admins |-> {}, rows |-> {}]

AdminsOf(o) == {u \in Users : role[u] = "admin" /\ org[u] = o}
RowsOf(u) == {b \in bans : b[2] = u}

TypeOK ==
    /\ role \in [Users -> Role \cup {"absent"}]
    /\ org \in [Users -> Orgs]
    /\ bans \subseteq Requests \X Users \X Orgs
    /\ req \in [Requests -> Request]
    /\ met \subseteq Requests
    /\ orderly \in BOOLEAN
    /\ crossed \subseteq Users

\* Any members, some organisation perhaps with the two admins that requests
\* before have left it; nobody is banned.
Init ==
    /\ role \in [Users -> Role \cup {"absent"}]
    /\ org \in [Users -> Orgs]
    /\ bans = {}
    /\ req = [x \in Requests |-> Blank]
    /\ met = {} /\ crossed = {}
    /\ orderly = \A o \in Orgs : Cardinality(AdminsOf(o)) <= 1

-----------------------------------------------------------------------------
(* Helpers.  Definitions named "wrong variant" are not used: put in the     *)
(* place of the next definition of the same kind they break a property,     *)
(* which shows what the property says about the code.                       *)

dbVars == <<role, org, bans>>
historyVars == <<met, orderly, crossed>>

\* One step of a request that only reads.
Read(x, pc, r) ==
    /\ req' = [req EXCEPT ![x] = [r EXCEPT !.pc = pc]]
    /\ UNCHANGED <<dbVars, historyVars>>

\* The commit of a request; the rows written are left to the action.
Finish(x) ==
    /\ req[x].pc = "commit"
    /\ req' = [req EXCEPT ![x] = [Blank EXCEPT !.pc = "over"]]

Started == {x \in Requests : req[x].pc \notin {"idle", "over"}}

\* The commit of a request that changes roles; exempt: it does not heed the
\* rule of one admin.
ChangesRoles(x, exempt) ==
    /\ Finish(x)
    /\ met' = (met \cup Started) \ {x}
    /\ orderly' = (orderly /\ x \notin met /\ ~exempt)
    /\ UNCHANGED <<bans, crossed>>

\* The target's column as the session leaves it.
Given(x) == IF req[x].to = req[x].had THEN role[req[x].on] ELSE req[x].to

-----------------------------------------------------------------------------
(* register *)

\* The admin role is refused while the organisation has an admin; several
\* make the check itself fail.
BeginRegister(x, u, r) ==
    /\ req[x].pc = "idle" /\ role[u] = "absent" /\ r \in {"member", "admin"}
    /\ r = "admin" => AdminsOf(org[u]) = {}
    /\ Read(x, "commit", [Blank EXCEPT !.kind = "register", !.on = u, !.to = r])

CommitRegister(x) ==
    LET u == req[x].on
    IN  /\ req[x].kind = "register" /\ role[u] = "absent"
        /\ role' = [role EXCEPT ![u] = req[x].to]
        /\ ChangesRoles(x, FALSE) /\ UNCHANGED org

-----------------------------------------------------------------------------
(* Every other request: get_current_user and the role it asks for *)

Begin(x, u) ==
    /\ req[x].pc = "idle" /\ role[u] # "absent"
    /\ Read(x, "begun", [Blank EXCEPT !.by = u, !.mine = role[u], !.org = org[u]])

\* One ban row answers 403; more than one make scalar_one_or_none raise.
CheckBan(x) ==
    /\ req[x].pc = "begun" /\ RowsOf(req[x].by) = {}
    /\ req[x].mine \in {"admin", "super_admin"}
    /\ Read(x, "allowed", req[x])

\* The user it is about, and the refusals that follow.
LoadTarget(x, k, u, r) ==
    LET me == req[x]
        had == IF u = me.by THEN me.mine ELSE role[u]
    IN  /\ me.pc = "allowed" /\ k \in Kinds \ (Unbanning \cup {"register"})
        /\ role[u] # "absent"
        /\ k \in SuperKinds => me.mine = "super_admin"
        /\ k \in OrgKinds => u # me.by /\ org[u] = me.org
        /\ k = "change_member_role" /\ me.mine = "admin" => r = "member"
        /\ k = "handoff_admin" => r = "admin" /\ had # "super_admin"
        /\ k \in Banning => r = "member"
        /\ Read(x, IF k \in Banning \/ (k = "superadmin_change_role" /\ r = "admin")
                   THEN "loaded" ELSE "commit",
                [me EXCEPT !.kind = k, !.on = u, !.to = r, !.had = had,
                           !.org = org[u]])

\* Wrong variant of LoadAdmins: one of the admins is loaded.
LoadOneAdmin(x) ==
    /\ req[x].pc = "loaded" /\ req[x].kind = "superadmin_change_role"
    /\ \E S \in SUBSET AdminsOf(req[x].org) :
          /\ Cardinality(S) <= 1 /\ (S = {} => AdminsOf(req[x].org) = {})
          /\ Read(x, "commit", [req[x] EXCEPT !.admins = S \ {req[x].on}])

\* superadmin_change_role: the organisation's admins, to be demoted.
LoadAdmins(x) ==
    /\ req[x].pc = "loaded" /\ req[x].kind = "superadmin_change_role"
    /\ Read(x, "commit",
            [req[x] EXCEPT !.admins = AdminsOf(req[x].org) \ {req[x].on}])

\* Wrong variant of LoadBan: an earlier ban is not looked for.
LoadBanUnchecked(x) ==
    /\ req[x].pc = "loaded" /\ req[x].kind \in Banning
    /\ Read(x, "commit", req[x])

\* ban_member, superadmin_ban: one row answers 409, several make it fail.
LoadBan(x) ==
    /\ req[x].pc = "loaded" /\ req[x].kind \in Banning
    /\ RowsOf(req[x].on) = {}
    /\ Read(x, "commit", req[x])

\* unban_member, superadmin_unban: no row answers 404, several make it fail.
LoadRow(x, k, u) ==
    LET found == {b \in RowsOf(u) : k = "unban" => b[3] = req[x].org}
    IN  /\ req[x].pc = "allowed" /\ k \in Unbanning
        /\ k \in SuperKinds => req[x].mine = "super_admin"
        /\ Cardinality(found) = 1
        /\ Read(x, "commit", [req[x] EXCEPT !.kind = k, !.on = u, !.rows = found])

-----------------------------------------------------------------------------
(* The commits *)

\* A super admin may make a second admin in this way.
CommitMemberRole(x) ==
    /\ req[x].kind = "change_member_role"
    /\ role' = [role EXCEPT ![req[x].on] = Given(x)]
    /\ ChangesRoles(x, req[x].to = "admin") /\ UNCHANGED org

\* Wrong variant of CommitHandoff: the admin keeps the role.
CommitHandoffKeeping(x) ==
    /\ req[x].kind = "handoff_admin"
    /\ role' = [role EXCEPT ![req[x].on] = Given(x)]
    /\ ChangesRoles(x, req[x].mine = "super_admin") /\ UNCHANGED org

\* A super admin who hands over is demoted, and the organisation's admin stays.
CommitHandoff(x) ==
    /\ req[x].kind = "handoff_admin"
    /\ role' = [role EXCEPT ![req[x].by] = "member", ![req[x].on] = Given(x)]
    /\ ChangesRoles(x, req[x].mine = "super_admin") /\ UNCHANGED org

CommitPromote(x) ==
    /\ req[x].kind = "superadmin_change_role"
    /\ role' = [u \in Users |-> IF u \in req[x].admins THEN "member"
                                ELSE IF u = req[x].on THEN Given(x) ELSE role[u]]
    /\ ChangesRoles(x, FALSE) /\ UNCHANGED org

\* admin_update_user sets what it is given, for any user.
CommitUpdate(x, o) ==
    /\ req[x].kind = "admin_update_user"
    /\ role' = [role EXCEPT ![req[x].on] = Given(x)]
    /\ org' = [org EXCEPT ![req[x].on] = IF o = req[x].org THEN @ ELSE o]
    /\ ChangesRoles(x, req[x].to = "admin" \/ o # req[x].org)

CommitBan(x) ==
    LET u == req[x].on
        rivals == {y \in Requests \ {x} : /\ req[y].pc = "commit"
                                          /\ req[y].kind \in Banning
                                          /\ req[y].on = u}
    IN  /\ Finish(x) /\ req[x].kind \in Banning
        /\ bans' = bans \cup {<<x, u, req[x].org>>}
        /\ crossed' = crossed \cup (IF rivals = {} THEN {} ELSE {u})
        /\ UNCHANGED <<role, org, met, orderly>>

CommitUnban(x) ==
    /\ Finish(x) /\ req[x].kind \in Unbanning
    /\ bans' = bans \ req[x].rows
    /\ UNCHANGED <<role, org, historyVars>>

\* A refusal, or a database call that fails: the session is rolled back.
Refuse(x) ==
    /\ x \in Started
    /\ req' = [req EXCEPT ![x] = [Blank EXCEPT !.pc = "over"]]
    /\ UNCHANGED <<dbVars, historyVars>>

-----------------------------------------------------------------------------
Commit(x) ==
    \/ CommitRegister(x) \/ CommitMemberRole(x) \/ CommitHandoff(x)
    \/ CommitPromote(x) \/ CommitBan(x) \/ CommitUnban(x)
    \/ \E o \in Orgs : CommitUpdate(x, o)

Next == \E x \in Requests :
    \/ \E u \in Users, r \in Role : BeginRegister(x, u, r)
    \/ \E u \in Users : Begin(x, u)
    \/ CheckBan(x)
    \/ \E k \in Kinds, u \in Users, r \in Role : LoadTarget(x, k, u, r)
    \/ LoadAdmins(x) \/ LoadBan(x)
    \/ \E k \in Unbanning, u \in Users : LoadRow(x, k, u)
    \/ Commit(x)
    \/ Refuse(x)

Spec == Init /\ [][Next]_vars

-----------------------------------------------------------------------------
(* Properties *)

\* Requests that change roles one after the other, by the calls that heed the
\* rule, never leave an organisation with two admins: register's check,
\* handoff_admin's demotion of the one who hands over and
\* superadmin_change_role's demotion of the admin it finds.
SoleAdminWhenOrderly == orderly =>
    \A o \in Orgs : Cardinality(AdminsOf(o)) <= 1

\* A super admin's promotion that no other change of roles overtook leaves its
\* target the only admin, however many there were: it is the way back from
\* two admins (the loop of superadmin_change_role).
PromotionHeals == [][\A x \in Requests \ met, o \in Orgs :
    CommitPromote(x) /\ req[x].to = "admin" /\ req[x].org = o =>
        AdminsOf(o)' = {req[x].on}]_vars

\* A user has two ban rows, which shut him out for good (get_current_user and
\* both unban handlers fail on them), only if two requests to ban him
\* overlapped, each between its check and its commit.
OneBanRowUnlessCrossed == \A u \in Users :
    Cardinality(RowsOf(u)) > 1 => u \in crossed
=============================================================================
