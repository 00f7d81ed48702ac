---------------------------- MODULE Organizations ----------------------------
(***************************************************************************)
(* Users, organizations and memberships: app/api/auth/post-signup,         *)
(* app/api/orgs, app/(login)/actions.ts, lib/auth/middleware.ts and the    *)
(* queries in lib/db/queries/{auth,orgs}.ts.                               *)
(*                                                                         *)
(* None of these requests uses a transaction: every query is a step here,  *)
(* and what a request read stays as it was read.  A request can be cut off *)
(* between any two queries, and every page chooses the organization it     *)
(* works on by reading users.currentOrgId when it runs, so a form can be   *)
(* sent in another organization than the one it was shown in.              *)
(***************************************************************************)
EXTENDS Naturals, FiniteSets

CONSTANTS
  Email,      \* e-mail addresses that people sign in with
  User,       \* ids of rows of the users table
  Org,        \* ids of rows of the organization table
  Request     \* requests under way

NoOrg == "no org"
NoUser == "no user"

ASSUME OrganizationsAssumption == NoOrg \notin Org /\ NoUser \notin User /\ Email # {}

VARIABLES
  credentials,  \* e-mails that Better Auth holds an account for; its sessions go with it
  users,        \* rows of the users table: state "none", "live" or "deleted"
  orgs,         \* organizations that exist
  settings,     \* organizations with a row of org_settings
  members,      \* rows of the member table, with their place in the order their user joined in
  rows,         \* accounting rows: the organization they are written for, the one whose account they name, who
  calls         \* per request: where it is and what it has read

orgVars == <<credentials, users, orgs, settings, members, rows, calls>>

Kind == {"signup", "create", "switch", "page", "write", "activity", "delete"}

Idle ==
  [pc |-> "idle", kind |-> "signup", email |-> CHOOSE e \in Email : TRUE, user |-> NoUser,
   created |-> FALSE, read |-> NoOrg, team |-> NoOrg, shown |-> NoOrg]

OrgInit ==
  /\ credentials = {} /\ orgs = {} /\ settings = {} /\ members = {} /\ rows = {}
  /\ users = [u \in User |-> [state |-> "none", email |-> CHOOSE e \in Email : TRUE, current |-> NoOrg]]
  /\ calls = [r \in Request |-> Idle]

Live(u) == users[u].state = "live"

IsMember(u, o) == \E m \in members : m.user = u /\ m.org = o

MembershipsOf(u) == {m \in members : m.user = u}

\* The membership that the fallbacks take: the one joined first.
Earliest(u) == {m \in MembershipsOf(u) : \A n \in MembershipsOf(u) : m.at <= n.at}

At(r, pc) == calls[r].pc = pc

Goto(r, pc) == calls' = [calls EXCEPT ![r].pc = pc]

\* The request ends with an error: what it has written stays.
Fails(r) == calls' = [calls EXCEPT ![r] = Idle]

Stored == <<credentials, users, orgs, settings, members, rows>>
-----------------------------------------------------------------------------
(* Sessions and the start of a request *)

\* Better Auth makes an account for an e-mail it has none for.
Register(e) ==
  /\ e \notin credentials
  /\ credentials' = credentials \cup {e}
  /\ UNCHANGED <<users, orgs, settings, members, rows, calls>>

\* The switcher lists the organizations of the user, as they were when it was loaded; the
\* request may name any.
Targets(kind) == IF kind = "switch" THEN orgs ELSE {NoOrg}

\* A request with a session; a switch names the organization it switches to.
Begin(r, e, kind, target) ==
  /\ At(r, "idle") /\ e \in credentials
  /\ kind # "write"
  /\ target \in Targets(kind)
  /\ calls' = [calls EXCEPT ![r] = [Idle EXCEPT !.pc = "user", !.kind = kind, !.email = e, !.team = target]]
  /\ UNCHANGED Stored

\* The form of a page is sent: a request of its own, with the accounts the page was shown with.
Submit(r) ==
  /\ At(r, "form") /\ calls[r].email \in credentials
  /\ calls' = [calls EXCEPT ![r] = [Idle EXCEPT !.pc = "user", !.kind = "write",
                                                !.email = calls[r].email, !.shown = calls[r].shown]]
  /\ UNCHANGED Stored

\* Where a request goes on once it has found its user.
AfterUser ==
  [signup |-> "findMember", create |-> "insertOrg", switch |-> "membership", page |-> "team",
   write |-> "team", activity |-> "userWithTeam", delete |-> "deleteCredential"]

\* The live user of the session's e-mail; only the end of a signup goes on without one.
FindUser(r) ==
  LET found == {u \in User : Live(u) /\ users[u].email = calls[r].email} IN
  /\ At(r, "user")
  /\ \/ \E u \in found :
          calls' = [calls EXCEPT ![r].pc = AfterUser[calls[r].kind], ![r].user = u,
                                 ![r].read = users[u].current]
     \/ found = {} /\ calls[r].kind = "signup" /\ Goto(r, "insertUser")
     \/ found = {} /\ calls[r].kind # "signup" /\ Fails(r)
  /\ UNCHANGED Stored
-----------------------------------------------------------------------------
(* POST /api/auth/post-signup, which every sign-in calls too, and POST /api/orgs *)

EmailFree(e) == \A u \in User : Live(u) => users[u].email # e

InsertUser(r) ==
  /\ At(r, "insertUser")
  /\ \/ ~EmailFree(calls[r].email) /\ Fails(r) /\ UNCHANGED users
     \/ \E u \in User :
          /\ EmailFree(calls[r].email) /\ users[u].state = "none"
          /\ users' = [users EXCEPT ![u] = [state |-> "live", email |-> calls[r].email, current |-> NoOrg]]
          /\ calls' = [calls EXCEPT ![r].pc = "findMember", ![r].user = u, ![r].created = TRUE]
  /\ UNCHANGED <<credentials, orgs, settings, members, rows>>

\* Any membership of the user: the query states no order.
FindMember(r) ==
  LET mine == MembershipsOf(calls[r].user) IN
  /\ At(r, "findMember")
  /\ \/ mine = {} /\ Goto(r, "insertOrg")
     \/ \E m \in mine : calls' = [calls EXCEPT ![r].pc = "checkMember", ![r].team = m.org]
  /\ UNCHANGED Stored

\* A creation adds the member without looking for one.
AfterOrg(c) == IF c.kind = "signup" THEN "checkMember" ELSE "insertMember"

\* A collision of the public id is retried and shows in nothing else.
InsertOrg(r) ==
  /\ At(r, "insertOrg")
  /\ \E o \in Org \ orgs :
       /\ orgs' = orgs \cup {o}
       /\ calls' = [calls EXCEPT ![r].team = o, ![r].pc = AfterOrg(calls[r])]
  /\ UNCHANGED <<credentials, users, settings, members, rows>>

MemberMissing(u, o) == ~IsMember(u, o)

CheckMember(r) ==
  /\ At(r, "checkMember")
  /\ Goto(r, IF MemberMissing(calls[r].user, calls[r].team) THEN "insertMember" ELSE "setCurrent")
  /\ UNCHANGED Stored

InsertMember(r) ==
  /\ At(r, "insertMember")
  /\ members' = members \cup {[user |-> calls[r].user, org |-> calls[r].team, at |-> Cardinality(MembershipsOf(calls[r].user)) + 1]}
  /\ Goto(r, IF calls[r].kind = "signup" THEN "setCurrent" ELSE "findSettings")
  /\ UNCHANGED <<credentials, users, orgs, settings, rows>>

\* A signup leaves the organization of a user who had one when it was read.
OnlyForNewUsers(c) == c.kind = "create" \/ c.created

ShouldSetCurrentOrg(c) == c.kind = "create" \/ c.created \/ c.read = NoOrg

SetCurrent(r) ==
  /\ At(r, "setCurrent")
  /\ users' = IF ShouldSetCurrentOrg(calls[r])
              THEN [users EXCEPT ![calls[r].user].current = calls[r].team] ELSE users
  /\ Goto(r, IF calls[r].kind = "signup" THEN "findSettings" ELSE "answered")
  /\ UNCHANGED <<credentials, orgs, settings, members, rows>>

AfterSettings(r) == IF calls[r].kind = "signup" THEN "answered" ELSE "setCurrent"

FindSettings(r) ==
  /\ At(r, "findSettings")
  /\ Goto(r, IF calls[r].team \in settings THEN AfterSettings(r) ELSE "insertSettings")
  /\ UNCHANGED Stored

\* org_settings has one row per organization: the second of two inserts fails.
InsertSettings(r) ==
  /\ At(r, "insertSettings")
  /\ \/ calls[r].team \in settings /\ Fails(r) /\ UNCHANGED settings
     \/ /\ calls[r].team \notin settings
        /\ settings' = settings \cup {calls[r].team}
        /\ Goto(r, AfterSettings(r))
  /\ UNCHANGED <<credentials, users, orgs, members, rows>>
-----------------------------------------------------------------------------
(* PATCH /api/orgs: the organization switcher *)

\* Only a member may switch.
AnyoneMaySwitch(u, o) == TRUE

MaySwitch(u, o) == IsMember(u, o)

Membership(r) ==
  /\ At(r, "membership")
  /\ IF MaySwitch(calls[r].user, calls[r].team) THEN Goto(r, "switch") ELSE Fails(r)
  /\ UNCHANGED Stored

Switch(r) ==
  /\ At(r, "switch")
  /\ users' = [users EXCEPT ![calls[r].user].current = calls[r].team]
  /\ Goto(r, "answered")
  /\ UNCHANGED <<credentials, orgs, settings, members, rows>>
-----------------------------------------------------------------------------
(* The organization of a page or an action: getTeamForUser and requireTeamRole *)

\* Fault variant of AfterTeam: the membership goes before the user.
MemberBeforeUser == [page |-> "form", write |-> "check", activity |-> "answered", delete |-> "removeMember"]

\* What follows a team that was found, when it is the current one.
AfterTeam == [page |-> "form", write |-> "check", activity |-> "answered", delete |-> "softDelete"]

\* The page shows the accounts of its organization.
WithTeam(c, o) ==
  [c EXCEPT !.pc = AfterTeam[c.kind], !.team = o, !.shown = IF c.kind = "page" THEN o ELSE c.shown]

\* The current organization if the user is a member of it, otherwise the one joined first,
\* which is made the current one.  Without any, a page or an action fails.
ChooseTeam(r, current) ==
  LET u == calls[r].user IN
  \/ /\ IsMember(u, current)
     /\ calls' = [calls EXCEPT ![r] = WithTeam(calls[r], current)]
  \/ /\ ~IsMember(u, current)
     /\ \E m \in Earliest(u) :
          calls' = [calls EXCEPT ![r].pc = "remember", ![r].team = m.org]
  \/ /\ MembershipsOf(u) = {}
     /\ IF calls[r].kind \in {"activity", "delete"}
        THEN calls' = [calls EXCEPT ![r] = WithTeam(calls[r], NoOrg)]
        ELSE Fails(r)

\* getTeamForUser goes by the user row the request began with ...
Team(r) == At(r, "team") /\ ChooseTeam(r, calls[r].read) /\ UNCHANGED Stored

\* ... and getUserWithTeam reads it again.
UserWithTeam(r) ==
  At(r, "userWithTeam") /\ ChooseTeam(r, users[calls[r].user].current) /\ UNCHANGED Stored

Remember(r) ==
  /\ At(r, "remember")
  /\ users' = [users EXCEPT ![calls[r].user].current = calls[r].team]
  /\ calls' = [calls EXCEPT ![r] = WithTeam(calls[r], calls[r].team)]
  /\ UNCHANGED <<credentials, orgs, settings, members, rows>>

\* Services write only lines whose accounts they find in the organization they write for.
AccountsUnchecked(c) == TRUE

AccountsBelong(c) == c.shown = c.team

Write(r) ==
  /\ At(r, "check")
  /\ \/ ~AccountsBelong(calls[r]) /\ Fails(r) /\ UNCHANGED rows
     \/ /\ AccountsBelong(calls[r])
        /\ rows' = rows \cup {[org |-> calls[r].team, account |-> calls[r].shown, by |-> calls[r].user]}
        /\ Goto(r, "answered")
  /\ UNCHANGED <<credentials, users, orgs, settings, members>>
-----------------------------------------------------------------------------
(* deleteAccount *)

\* Better Auth deletes its account and sessions first; a second deletion finds no session.
DeleteCredential(r) ==
  /\ At(r, "deleteCredential")
  /\ \/ calls[r].email \notin credentials /\ Fails(r) /\ UNCHANGED credentials
     \/ /\ calls[r].email \in credentials
        /\ credentials' = credentials \ {calls[r].email}
        /\ Goto(r, "userWithTeam")
  /\ UNCHANGED <<users, orgs, settings, members, rows>>

SoftDelete(r) ==
  /\ At(r, "softDelete")
  /\ users' = [users EXCEPT ![calls[r].user].state = "deleted"]
  /\ Goto(r, IF calls[r].team = NoOrg THEN "answered" ELSE "removeMember")
  /\ UNCHANGED <<credentials, orgs, settings, members, rows>>

\* The membership of the organization it was last in; others stay.
RemoveMember(r) ==
  /\ At(r, "removeMember")
  /\ members' = {m \in members : ~(m.user = calls[r].user /\ m.org = calls[r].team)}
  /\ Goto(r, "answered")
  /\ UNCHANGED <<credentials, users, orgs, settings, rows>>
-----------------------------------------------------------------------------
\* The page takes the answer, or the request is cut off where it is: the server or the browser stops.
Ends(r) == ~At(r, "idle") /\ Fails(r) /\ UNCHANGED Stored

RequestStep(r) ==
  \/ FindUser(r) \/ InsertUser(r) \/ FindMember(r) \/ InsertOrg(r) \/ CheckMember(r) \/ InsertMember(r)
  \/ SetCurrent(r) \/ FindSettings(r) \/ InsertSettings(r) \/ Membership(r) \/ Switch(r)
  \/ Team(r) \/ UserWithTeam(r) \/ Remember(r) \/ Write(r)
  \/ DeleteCredential(r) \/ SoftDelete(r) \/ RemoveMember(r)

OrgNext ==
  \/ \E e \in Email : Register(e)
  \/ \E r \in Request :
       \/ \E e \in Email, kind \in Kind, target \in orgs \cup {NoOrg} : Begin(r, e, kind, target)
       \/ Submit(r)
       \/ RequestStep(r)
       \/ Ends(r)

OrgSpec == OrgInit /\ [][OrgNext]_orgVars
-----------------------------------------------------------------------------
(* Properties *)

\* The organization that a live user works in is one the user is a member of, at every moment:
\* between the writes of a signup, after any of them is cut off, beside switches and fallbacks.
CurrentIsMember ==
  \A u \in User : Live(u) /\ users[u].current # NoOrg => IsMember(u, users[u].current)

\* A signup that is answered leaves a user who can work, even if an earlier one was cut off
\* half way: a membership, a current organization, and settings of the organization it answers.
SignupCompletes ==
  \A r \in Request :
    At(r, "answered") /\ calls[r].kind = "signup" /\ Live(calls[r].user)
      => /\ IsMember(calls[r].user, calls[r].team)
         /\ users[calls[r].user].current # NoOrg
         /\ calls[r].team \in settings

\* An accounting row names accounts of the organization it is written for, and is written by a
\* member of it, however long ago its form was shown (docs/ARCHITECTURE.md: "account ids must
\* belong to the current org before writes").
RowsKeepToTheirOrg ==
  \A row \in rows :
    /\ row.account = row.org
    /\ Live(row.by) => IsMember(row.by, row.org)
=============================================================================
