--------------------------- MODULE MCOrganizations ---------------------------
(* Organizations on a small instance: one e-mail address, deleted and registered anew. *)
EXTENDS OrganizationsInvariant, TLC

OrgSymmetry == Permutations(User) \cup Permutations(Org) \cup Permutations(Request)
=============================================================================
