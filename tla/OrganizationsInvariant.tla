----------------------- MODULE OrganizationsInvariant -----------------------
(***************************************************************************)
(* The inductive invariant of Organizations, which OrganizationsProofs     *)
(* proves: what requests have read and checked, and what the tables hold.  *)
(***************************************************************************)
EXTENDS Organizations

UserRow ==
  [state : {"none", "live", "deleted"}, email : Email, current : Org \cup {NoOrg}]

Place ==
  {"idle", "user", "insertUser", "findMember", "insertOrg", "checkMember", "insertMember",
   "setCurrent", "findSettings", "insertSettings", "membership", "switch", "team",
   "userWithTeam", "remember", "form", "check", "deleteCredential", "softDelete",
   "removeMember", "answered"}

Call ==
  [pc : Place, kind : Kind, email : Email, user : User \cup {NoUser}, created : BOOLEAN,
   read : Org \cup {NoOrg}, team : Org \cup {NoOrg}, shown : Org \cup {NoOrg}]

Deleted(u) == users[u].state = "deleted"

\* What a membership check was good for stays good: only a deleted user loses a membership.
Standing(u, o) == Deleted(u) \/ IsMember(u, o)

Settled(u) == Deleted(u) \/ users[u].current # NoOrg

\* Where a request is about to write, or to work for, the team it holds.
UsesTeam == {"setCurrent", "findSettings", "insertSettings", "switch", "remember", "check"}

TeamKinds == {"page", "write", "activity", "delete"}

TeamPlaces == {"team", "userWithTeam", "remember", "form", "check",
               "deleteCredential", "softDelete", "removeMember"}

\* What a request has read and checked still holds of the tables.
CallOK(c) ==
  /\ c \in Call
  /\ IF c.pc \in {"idle", "user", "insertUser"} THEN c.read = NoOrg ELSE c.user \in User
  /\ c.user \in User => users[c.user].state # "none"
  /\ c.read # NoOrg => Settled(c.user)
  /\ c.pc \in {"checkMember", "insertMember"} => c.team \in Org
  /\ c.pc \in UsesTeam => Standing(c.user, c.team)
  /\ c.pc \in {"membership", "switch"} => c.kind = "switch"
  /\ c.pc \in TeamPlaces => c.kind \in TeamKinds
  /\ c.pc = "removeMember" => Deleted(c.user)
  /\ c.kind = "signup" /\ c.pc \in {"findSettings", "insertSettings", "answered"} =>
       Settled(c.user) /\ Standing(c.user, c.team)
  /\ c.kind = "signup" /\ c.pc = "answered" => c.team \in settings

TablesOK ==
  /\ users \in [User -> UserRow]
  /\ orgs \subseteq Org
  /\ \A m \in members : m.user \in User /\ m.org \in Org
  /\ \A u \in User : users[u].current # NoOrg => Standing(u, users[u].current)
  /\ \A row \in rows : row.account = row.org /\ row.by \in User /\ Standing(row.by, row.org)

\* Every request may go on with what it knows, whatever the others have written since it
\* read it, and the tables never contradict each other (lib/db/queries/orgs.ts:87-133).
OrgIInv ==
  /\ calls \in [Request -> Call]
  /\ TablesOK
  /\ \A r \in Request : CallOK(calls[r])
=============================================================================
