----------------------------- MODULE MCOrgRoles ------------------------------
(* Small instances of OrgRoles for TLC. *)
EXTENDS OrgRoles, TLC

MCSymmetry == Permutations(Users) \cup Permutations(Requests)
=============================================================================
