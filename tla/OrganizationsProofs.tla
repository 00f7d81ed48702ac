------------------------ MODULE OrganizationsProofs ------------------------
(***************************************************************************)
(* Machine-checked proofs about Organizations, for any number of people,   *)
(* organizations and requests.                                             *)
(***************************************************************************)
EXTENDS OrganizationsInvariant, TLAPS

(* What no step takes away *)

\* A deleted user stays deleted, a user that exists stays one, and until it is deleted
\* it keeps its memberships and has an organization to work in; settings stay.
Kept ==
  /\ \A u \in User :
       /\ Deleted(u) => Deleted(u)'
       /\ users[u].state # "none" => users'[u].state # "none"
       /\ users[u].state # "none" /\ Settled(u) => Settled(u)'
       /\ \A o \in Org \cup {NoOrg} : Standing(u, o) => Standing(u, o)'
  /\ settings \subseteq settings'

\* What a request holds outlives the steps of the others.
LEMMA OthersKeep ==
  ASSUME NEW q \in Request, CallOK(calls[q]), calls'[q] = calls[q], Kept
  PROVE  CallOK(calls[q])'
<1> DEFINE c == calls[q]
<1>1. c \in Call /\ c.user \in User \cup {NoUser} /\ c.team \in Org \cup {NoOrg}
  BY DEF CallOK, Call
<1>2. c.user \in User =>
        /\ users'[c.user].state # "none"
        /\ Deleted(c.user) => Deleted(c.user)'
        /\ Settled(c.user) => Settled(c.user)'
        /\ Standing(c.user, c.team) => Standing(c.user, c.team)'
  BY <1>1 DEF CallOK, Kept
<1>3. c.team \in settings => c.team \in settings'
  BY DEF Kept
<1>4. c.read # NoOrg => c.user \in User
  BY DEF CallOK
<1>5. c.pc \notin {"idle", "user", "insertUser"} => c.user \in User
  BY DEF CallOK
<1> QED  BY <1>1, <1>2, <1>3, <1>4, <1>5 DEF CallOK, UsesTeam, TeamPlaces

\* A step of one request preserves the invariant if it takes nothing away and leaves
\* the tables and the request itself sound.
LEMMA Step ==
  ASSUME OrgIInv, NEW r \in Request,
         calls' \in [Request -> Call], \A q \in Request \ {r} : calls'[q] = calls[q],
         Kept, TablesOK', CallOK(calls[r])'
  PROVE  OrgIInv'
<1>1. ASSUME NEW q \in Request PROVE CallOK(calls[q])'
  <2>1. CASE q = r  BY <2>1
  <2>2. CASE q # r  BY <2>2, OthersKeep DEF OrgIInv
  <2> QED  BY <2>1, <2>2
<1> QED  BY <1>1 DEF OrgIInv

\* A step that only reads.
LEMMA ReadStep ==
  ASSUME OrgIInv, NEW r \in Request,
         calls' \in [Request -> Call], \A q \in Request \ {r} : calls'[q] = calls[q],
         UNCHANGED Stored, CallOK(calls[r])'
  PROVE  OrgIInv'
<1>1. Kept
  BY DEF Stored, Kept, Deleted, Settled, Standing, IsMember
<1>2. TablesOK'
  BY DEF OrgIInv, TablesOK, Stored, Deleted, Standing, IsMember
<1> QED  BY <1>1, <1>2, Step
-----------------------------------------------------------------------------
(* Steps that only read *)

USE DEF Place

LEMMA IdleCall ==
  /\ Idle \in Call
  /\ Idle.pc = "idle" /\ Idle.user = NoUser /\ Idle.read = NoOrg
  /\ NoUser \notin User
<1>1. (CHOOSE e \in Email : TRUE) \in Email
  BY OrganizationsAssumption
<1> QED  BY <1>1, OrganizationsAssumption DEF Idle, Call, Kind

LEMMA CallTypes ==
  ASSUME OrgIInv, NEW r \in Request
  PROVE  /\ calls[r] \in Call /\ CallOK(calls[r])
         /\ calls \in [Request -> Call] /\ TablesOK
BY DEF OrgIInv

LEMMA FailsKeeps ==
  ASSUME OrgIInv, NEW r \in Request, Fails(r)
  PROVE  /\ calls' \in [Request -> Call] /\ \A q \in Request \ {r} : calls'[q] = calls[q]
         /\ CallOK(calls[r])'
<1>1. calls'[r] = Idle /\ calls' \in [Request -> Call] /\ \A q \in Request \ {r} : calls'[q] = calls[q]
  BY CallTypes, IdleCall DEF Fails
<1>2. CallOK(calls[r])'
  BY <1>1, IdleCall DEF CallOK, UsesTeam, TeamPlaces
<1> QED  BY <1>1, <1>2

\* A request that only moves on.
LEMMA GotoKeeps ==
  ASSUME OrgIInv, NEW r \in Request, NEW pc \in Place, Goto(r, pc)
  PROVE  /\ calls' \in [Request -> Call] /\ \A q \in Request \ {r} : calls'[q] = calls[q]
         /\ calls'[r] \in Call /\ calls'[r].pc = pc
         /\ calls'[r].kind = calls[r].kind /\ calls'[r].user = calls[r].user
         /\ calls'[r].read = calls[r].read /\ calls'[r].team = calls[r].team
BY CallTypes DEF Goto, Call

LEMMA BeginKeeps ==
  ASSUME OrgIInv, NEW r \in Request, NEW e \in Email, NEW kind \in Kind,
         NEW target \in orgs \cup {NoOrg}, Begin(r, e, kind, target)
  PROVE  OrgIInv'
<1> DEFINE c == [Idle EXCEPT !.pc = "user", !.kind = kind, !.email = e, !.team = target]
<1>1. target \in Org \cup {NoOrg}
  BY CallTypes DEF TablesOK
<1>2. c \in Call /\ c.pc = "user" /\ c.user = NoUser /\ c.read = NoOrg
  BY <1>1, IdleCall DEF Call
<1>3. calls'[r] = c /\ calls' \in [Request -> Call] /\ \A q \in Request \ {r} : calls'[q] = calls[q]
  BY <1>2, CallTypes DEF Begin
<1>4. CallOK(calls[r])'
  BY <1>2, <1>3, IdleCall DEF CallOK, UsesTeam, TeamPlaces
<1> QED  BY <1>3, <1>4, ReadStep DEF Begin

LEMMA SubmitKeeps ==
  ASSUME OrgIInv, NEW r \in Request, Submit(r)
  PROVE  OrgIInv'
<1> DEFINE c == [Idle EXCEPT !.pc = "user", !.kind = "write", !.email = calls[r].email,
                             !.shown = calls[r].shown]
<1>1. calls[r].email \in Email /\ calls[r].shown \in Org \cup {NoOrg}
  BY CallTypes DEF Call
<1>2. c \in Call /\ c.pc = "user" /\ c.user = NoUser /\ c.read = NoOrg
  BY <1>1, IdleCall DEF Call, Kind
<1>3. calls'[r] = c /\ calls' \in [Request -> Call] /\ \A q \in Request \ {r} : calls'[q] = calls[q]
  BY <1>2, CallTypes DEF Submit
<1>4. CallOK(calls[r])'
  BY <1>2, <1>3, IdleCall DEF CallOK, UsesTeam, TeamPlaces
<1> QED  BY <1>3, <1>4, ReadStep DEF Submit

LEMMA FindUserKeeps ==
  ASSUME OrgIInv, NEW r \in Request, FindUser(r)
  PROVE  OrgIInv'
<1> DEFINE found == {u \in User : Live(u) /\ users[u].email = calls[r].email}
           kind == calls[r].kind
<1>1. /\ UNCHANGED Stored
      /\ \/ \E u \in found :
              calls' = [calls EXCEPT ![r].pc = AfterUser[kind], ![r].user = u,
                                     ![r].read = users[u].current]
         \/ kind = "signup" /\ Goto(r, "insertUser")
         \/ Fails(r)
  BY DEF FindUser
<1>2. CASE Fails(r)
  BY <1>1, <1>2, FailsKeeps, ReadStep
<1>3. CASE kind = "signup" /\ Goto(r, "insertUser")
  <2>1. calls[r].read = NoOrg /\ calls[r].pc = "user"
    BY CallTypes DEF FindUser, At, CallOK
  <2>2. /\ calls' \in [Request -> Call] /\ \A q \in Request \ {r} : calls'[q] = calls[q]
        /\ calls'[r] \in Call /\ calls'[r].pc = "insertUser"
        /\ calls'[r].user = calls[r].user /\ calls'[r].read = NoOrg
    BY <1>3, <2>1, GotoKeeps
  <2>3. calls[r].user \in User => users[calls[r].user].state # "none"
    BY CallTypes DEF CallOK
  <2>4. CallOK(calls[r])'
    BY <1>1, <2>2, <2>3 DEF CallOK, UsesTeam, TeamPlaces, Stored
  <2> QED  BY <1>1, <2>2, <2>4, ReadStep
<1>4. CASE \E u \in found :
              calls' = [calls EXCEPT ![r].pc = AfterUser[kind], ![r].user = u,
                                     ![r].read = users[u].current]
  <2>1. PICK u \in found :
              calls' = [calls EXCEPT ![r].pc = AfterUser[kind], ![r].user = u,
                                     ![r].read = users[u].current]
    BY <1>4
  <2>2. /\ u \in User /\ users[u].state = "live" /\ users[u].current \in Org \cup {NoOrg}
    BY CallTypes DEF Live, TablesOK, UserRow
  <2>3. AfterUser[kind] \in {"findMember", "insertOrg", "membership", "team", "userWithTeam",
                             "deleteCredential"}
        /\ (AfterUser[kind] = "membership" => kind = "switch")
        /\ (AfterUser[kind] \in TeamPlaces => kind \in TeamKinds)
    BY CallTypes DEF AfterUser, Call, Kind, TeamPlaces, TeamKinds
  <2>4. /\ calls' \in [Request -> Call] /\ \A q \in Request \ {r} : calls'[q] = calls[q]
        /\ calls'[r] \in Call /\ calls'[r].user = u /\ calls'[r].pc = AfterUser[kind]
        /\ calls'[r].read = users[u].current /\ calls'[r].kind = kind
    BY <2>1, <2>2, <2>3, CallTypes DEF Call
  <2>5. CallOK(calls[r])'
    BY <1>1, <2>2, <2>3, <2>4 DEF CallOK, UsesTeam, Settled, Stored
  <2> QED  BY <1>1, <2>4, <2>5, ReadStep
<1> QED  BY <1>1, <1>2, <1>3, <1>4

LEMMA FindMemberKeeps ==
  ASSUME OrgIInv, NEW r \in Request, FindMember(r)
  PROVE  OrgIInv'
<1>1. UNCHANGED Stored /\ calls[r].pc = "findMember" /\ calls[r].user \in User
  BY CallTypes DEF FindMember, At, CallOK
<1>2. CASE Goto(r, "insertOrg")
  <2>1. CallOK(calls[r])'
    BY <1>1, <1>2, GotoKeeps, CallTypes
       DEF CallOK, UsesTeam, TeamPlaces, Stored, Settled, Deleted
  <2> QED  BY <1>1, <1>2, <2>1, GotoKeeps, ReadStep
<1>3. CASE \E m \in MembershipsOf(calls[r].user) :
              calls' = [calls EXCEPT ![r].pc = "checkMember", ![r].team = m.org]
  <2>1. PICK o \in Org : calls' = [calls EXCEPT ![r].pc = "checkMember", ![r].team = o]
    BY <1>3, CallTypes DEF MembershipsOf, TablesOK
  <2>2. /\ calls' \in [Request -> Call] /\ \A q \in Request \ {r} : calls'[q] = calls[q]
        /\ calls'[r] \in Call /\ calls'[r].pc = "checkMember" /\ calls'[r].team \in Org
        /\ calls'[r].user = calls[r].user /\ calls'[r].read = calls[r].read
    BY <2>1, CallTypes DEF Call
  <2>3. /\ users[calls[r].user].state # "none"
        /\ calls[r].read # NoOrg => Settled(calls[r].user)
    BY <1>1, CallTypes DEF CallOK
  <2>4. CallOK(calls[r])'
    <3>1. /\ users'[calls[r].user].state # "none"
          /\ calls[r].read # NoOrg => Settled(calls[r].user)'
      BY <1>1, <2>2, <2>3 DEF Settled, Deleted, Stored
    <3> QED  BY <1>1, <2>2, <3>1 DEF CallOK, UsesTeam, TeamPlaces
  <2> QED  BY <1>1, <2>2, <2>4, ReadStep
<1> QED  BY <1>2, <1>3 DEF FindMember

LEMMA CheckMemberKeeps ==
  ASSUME OrgIInv, NEW r \in Request, CheckMember(r)
  PROVE  OrgIInv'
<1> DEFINE missing == MemberMissing(calls[r].user, calls[r].team)
<1>1. UNCHANGED Stored /\ calls[r].pc = "checkMember" /\ calls[r].user \in User
      /\ calls[r].team \in Org
  BY CallTypes DEF CheckMember, At, CallOK
<1>2. CASE missing
  <2>1. Goto(r, "insertMember")
    BY <1>2 DEF CheckMember
  <2>2. CallOK(calls[r])'
    BY <1>1, <2>1, GotoKeeps, CallTypes
       DEF CallOK, UsesTeam, TeamPlaces, Stored, Settled, Deleted
  <2> QED  BY <1>1, <2>1, <2>2, GotoKeeps, ReadStep
<1>3. CASE ~missing
  <2>1. Goto(r, "setCurrent") /\ IsMember(calls[r].user, calls[r].team)
    BY <1>3 DEF CheckMember, MemberMissing
  <2>2. Standing(calls[r].user, calls[r].team)'
    BY <1>1, <2>1, GotoKeeps DEF Standing, IsMember, Stored
  <2>3. CallOK(calls[r])'
    BY <1>1, <2>1, <2>2, GotoKeeps, CallTypes
       DEF CallOK, UsesTeam, TeamPlaces, Stored, Settled, Deleted
  <2> QED  BY <1>1, <2>1, <2>3, GotoKeeps, ReadStep
<1> QED  BY <1>2, <1>3

LEMMA FindSettingsKeeps ==
  ASSUME OrgIInv, NEW r \in Request, FindSettings(r)
  PROVE  OrgIInv'
<1> DEFINE c == calls[r]
<1>1. UNCHANGED Stored /\ c.pc = "findSettings"
  BY DEF FindSettings, At
<1>2. /\ c.user \in User /\ users[c.user].state # "none"
      /\ c.read # NoOrg => Settled(c.user)
      /\ Standing(c.user, c.team)
      /\ c.kind = "signup" => Settled(c.user)
  BY <1>1, CallTypes DEF CallOK, UsesTeam
<1>3. PICK pc \in {"answered", "setCurrent", "insertSettings"} :
        /\ Goto(r, pc)
        /\ pc = "answered" => c.kind = "signup" /\ c.team \in settings
  BY DEF FindSettings, AfterSettings
<1>4. /\ calls' \in [Request -> Call] /\ \A q \in Request \ {r} : calls'[q] = calls[q]
      /\ calls'[r] \in Call /\ calls'[r].pc = pc /\ calls'[r].kind = c.kind
      /\ calls'[r].user = c.user /\ calls'[r].read = c.read /\ calls'[r].team = c.team
  BY <1>3, GotoKeeps
<1>5. /\ Standing(c.user, c.team)'
      /\ users'[c.user].state # "none"
      /\ c.read # NoOrg => Settled(c.user)'
      /\ c.kind = "signup" => Settled(c.user)'
  BY <1>1, <1>2, <1>4 DEF Standing, Settled, Deleted, IsMember, Stored
<1>6. CallOK(calls[r])'
  BY <1>1, <1>2, <1>3, <1>4, <1>5 DEF CallOK, UsesTeam, TeamPlaces, Stored
<1> QED  BY <1>1, <1>4, <1>6, ReadStep

LEMMA MembershipKeeps ==
  ASSUME OrgIInv, NEW r \in Request, Membership(r)
  PROVE  OrgIInv'
<1>1. UNCHANGED Stored /\ calls[r].pc = "membership" /\ calls[r].user \in User
      /\ calls[r].kind = "switch"
  BY CallTypes DEF Membership, At, CallOK
<1>2. CASE MaySwitch(calls[r].user, calls[r].team)
  <2>1. Goto(r, "switch") /\ IsMember(calls[r].user, calls[r].team)
    BY <1>2 DEF Membership, MaySwitch
  <2>2. Standing(calls[r].user, calls[r].team)'
    BY <1>1, <2>1, GotoKeeps DEF Standing, IsMember, Stored
  <2>3. CallOK(calls[r])'
    BY <1>1, <2>1, <2>2, GotoKeeps, CallTypes
       DEF CallOK, UsesTeam, TeamPlaces, Stored, Settled, Deleted
  <2> QED  BY <1>1, <2>1, <2>3, GotoKeeps, ReadStep
<1>3. CASE ~MaySwitch(calls[r].user, calls[r].team)
  BY <1>1, <1>3, FailsKeeps, ReadStep DEF Membership
<1> QED  BY <1>2, <1>3

\* Where a request goes on when it has its team.
LEMMA WithTeamCall ==
  ASSUME NEW c \in Call, c.kind \in TeamKinds, NEW o \in Org \cup {NoOrg}
  PROVE  LET d == WithTeam(c, o) IN
         /\ d \in Call /\ d.team = o
         /\ d.kind = c.kind /\ d.user = c.user /\ d.read = c.read
         /\ d.pc \in {"form", "check", "answered", "softDelete"}
         /\ d.pc = "check" => c.kind = "write"
<1>1. /\ AfterTeam[c.kind] \in {"form", "check", "answered", "softDelete"}
      /\ AfterTeam[c.kind] = "check" => c.kind = "write"
  BY DEF AfterTeam, TeamKinds
<1> QED  BY <1>1 DEF WithTeam, Call

LEMMA ChooseTeamKeeps ==
  ASSUME OrgIInv, NEW r \in Request, NEW current \in Org \cup {NoOrg},
         calls[r].pc \in {"team", "userWithTeam"}, ChooseTeam(r, current), UNCHANGED Stored
  PROVE  OrgIInv'
<1> DEFINE c == calls[r]
           Goes(d) == /\ calls' = [calls EXCEPT ![r] = d]
                      /\ d \in Call /\ d.pc \in {"remember", "form", "check", "answered", "softDelete"}
                      /\ d.kind = c.kind /\ d.user = c.user /\ d.read = c.read
                      /\ d.pc \in {"remember", "check"} => IsMember(c.user, d.team)
<1>1. /\ c \in Call /\ c.user \in User /\ users[c.user].state # "none"
      /\ c.read # NoOrg => Settled(c.user)
      /\ c.kind \in TeamKinds
  BY CallTypes DEF CallOK, TeamPlaces
<1>2. CASE Fails(r)
  BY <1>2, FailsKeeps, ReadStep
<1>3. ASSUME NEW d, Goes(d)
      PROVE  OrgIInv'
  <2>1. calls'[r] = d /\ calls' \in [Request -> Call] /\ \A q \in Request \ {r} : calls'[q] = calls[q]
    BY <1>3, CallTypes
  <2>2. /\ users'[c.user].state # "none"
        /\ c.read # NoOrg => users'[c.user].state = "deleted" \/ users'[c.user].current # NoOrg
        /\ d.pc \in {"remember", "check"} => \E m \in members' : m.user = c.user /\ m.org = d.team
    BY <1>1, <1>3 DEF Stored, Settled, Deleted, IsMember
  <2>3. CallOK(calls[r])'
    BY <1>1, <1>3, <2>1, <2>2
       DEF CallOK, UsesTeam, TeamPlaces, TeamKinds, Settled, Standing, Deleted, IsMember
  <2> QED  BY <2>1, <2>3, ReadStep
<1>4. CASE IsMember(c.user, current) /\ calls' = [calls EXCEPT ![r] = WithTeam(c, current)]
  <2>1. Goes(WithTeam(c, current))
    BY <1>1, <1>4, WithTeamCall
  <2> QED  BY <2>1, <1>3
<1>5. CASE \E m \in Earliest(c.user) : calls' = [calls EXCEPT ![r].pc = "remember", ![r].team = m.org]
  <2>1. PICK m \in members : m.user = c.user /\ m.org \in Org
                             /\ calls' = [calls EXCEPT ![r].pc = "remember", ![r].team = m.org]
    BY <1>5, CallTypes DEF Earliest, MembershipsOf, TablesOK
  <2> DEFINE d == [c EXCEPT !.pc = "remember", !.team = m.org]
  <2>2. d \in Call /\ d.pc = "remember" /\ d.team = m.org /\ d.kind = c.kind /\ d.user = c.user
        /\ d.read = c.read
    BY <1>1, <2>1 DEF Call
  <2>3. calls' = [calls EXCEPT ![r] = d]
    BY <2>1, CallTypes
  <2>4. IsMember(c.user, d.team)
    BY <2>1, <2>2 DEF IsMember
  <2>5. Goes(d)
    BY <2>2, <2>3, <2>4
  <2> QED  BY <2>5, <1>3
<1>6. CASE c.kind \in {"activity", "delete"} /\ calls' = [calls EXCEPT ![r] = WithTeam(c, NoOrg)]
  <2>1. Goes(WithTeam(c, NoOrg))
    BY <1>1, <1>6, WithTeamCall
  <2> QED  BY <2>1, <1>3
<1> QED  BY <1>2, <1>4, <1>5, <1>6 DEF ChooseTeam

LEMMA TeamKeeps ==
  ASSUME OrgIInv, NEW r \in Request, Team(r)
  PROVE  OrgIInv'
<1>1. calls[r].read \in Org \cup {NoOrg}
  BY CallTypes DEF Call
<1> QED  BY <1>1, ChooseTeamKeeps DEF Team, At

LEMMA UserWithTeamKeeps ==
  ASSUME OrgIInv, NEW r \in Request, UserWithTeam(r)
  PROVE  OrgIInv'
<1>1. calls[r].pc = "userWithTeam"
  BY DEF UserWithTeam, At
<1>2. calls[r].user \in User
  BY <1>1, CallTypes DEF CallOK
<1>3. users[calls[r].user].current \in Org \cup {NoOrg}
  BY <1>2, CallTypes DEF TablesOK, UserRow
<1> QED  BY <1>1, <1>3, ChooseTeamKeeps DEF UserWithTeam

LEMMA EndsKeeps ==
  ASSUME OrgIInv, NEW r \in Request, Ends(r)
  PROVE  OrgIInv'
BY FailsKeeps, ReadStep DEF Ends
-----------------------------------------------------------------------------
(* Steps that write *)

\* A step that leaves the tables the invariant speaks of.
LEMMA SameTables ==
  ASSUME OrgIInv, UNCHANGED <<users, orgs, settings, members, rows>>
  PROVE  Kept /\ TablesOK'
BY CallTypes DEF OrgIInv, Kept, TablesOK, Deleted, Settled, Standing, IsMember

LEMMA RegisterKeeps ==
  ASSUME OrgIInv, NEW e \in Email, Register(e)
  PROVE  OrgIInv'
<1>1. Kept /\ TablesOK' /\ calls' = calls
  BY SameTables DEF Register
<1>2. ASSUME NEW q \in Request PROVE CallOK(calls[q])'
  BY <1>1, CallTypes, OthersKeep
<1> QED  BY <1>1, <1>2 DEF OrgIInv

\* A user's current organization becomes one that the user is a member of.
LEMMA CurrentKeeps ==
  ASSUME OrgIInv, NEW u \in User, NEW o \in Org \cup {NoOrg}, Standing(u, o),
         users' = [users EXCEPT ![u].current = o], UNCHANGED <<orgs, settings, members, rows>>
  PROVE  /\ Kept /\ TablesOK'
         /\ users'[u].state = users[u].state
         /\ Settled(u)'
<1>1. /\ users \in [User -> UserRow] /\ TablesOK
      /\ \A m \in members : m.user \in User /\ m.org \in Org
  BY DEF OrgIInv, TablesOK
<1>2. /\ users' \in [User -> UserRow]
      /\ users'[u].current = o /\ users'[u].state = users[u].state
      /\ \A v \in User \ {u} : users'[v] = users[v]
  BY <1>1 DEF UserRow
<1>3. ASSUME NEW v \in User
      PROVE  /\ users'[v].state = users[v].state
             /\ \A n \in Org \cup {NoOrg} : Standing(v, n) <=> Standing(v, n)'
  BY <1>2 DEF Standing, Deleted, IsMember
<1>4. Deleted(u) \/ o # NoOrg
  BY <1>1, OrganizationsAssumption DEF Standing, IsMember
<1>5. Kept
  BY <1>2, <1>3, <1>4 DEF Kept, Settled, Deleted
<1>6. ASSUME NEW v \in User, users'[v].current # NoOrg
      PROVE  Standing(v, users[v].current)'
  <2>1. CASE v = u
    BY <1>2, <1>3, <2>1
  <2>2. CASE v # u
    <3>1. users'[v].current = users[v].current /\ users[v].current \in Org \cup {NoOrg}
      BY <1>1, <1>2, <2>2 DEF UserRow
    <3>2. Standing(v, users[v].current)
      BY <1>1, <1>6, <3>1 DEF TablesOK
    <3>3. Deleted(v)' \/ \E m \in members' : m.user = v /\ m.org = users'[v].current
      BY <1>3, <3>1, <3>2 DEF Standing, Deleted, IsMember
    <3> QED  BY <3>3 DEF Standing, IsMember
  <2> QED  BY <2>1, <2>2
<1>7. ASSUME NEW row \in rows'
      PROVE  row.account = row.org /\ row.by \in User /\ Standing(row.by, row.org)'
  BY <1>1, <1>2, <1>7 DEF TablesOK, Standing, Deleted, IsMember
<1>8. TablesOK'
  BY <1>1, <1>2, <1>6, <1>7 DEF TablesOK
<1> QED  BY <1>2, <1>4, <1>5, <1>8 DEF Settled, Deleted

LEMMA SwitchKeeps ==
  ASSUME OrgIInv, NEW r \in Request, Switch(r)
  PROVE  OrgIInv'
<1> DEFINE c == calls[r]
<1>1. c.pc = "switch" /\ Goto(r, "answered") /\ UNCHANGED <<orgs, settings, members, rows>>
      /\ users' = [users EXCEPT ![c.user].current = c.team]
  BY DEF Switch, At
<1>2. /\ c \in Call /\ c.user \in User /\ users[c.user].state # "none"
      /\ Standing(c.user, c.team) /\ c.kind = "switch" /\ c.team \in Org \cup {NoOrg}
  BY <1>1, CallTypes DEF CallOK, UsesTeam, Call
<1>3. Kept /\ TablesOK' /\ users'[c.user].state = users[c.user].state
      /\ (users'[c.user].state = "deleted" \/ users'[c.user].current # NoOrg)
  BY <1>1, <1>2, CurrentKeeps DEF Settled, Deleted
<1>4. /\ calls' \in [Request -> Call] /\ \A q \in Request \ {r} : calls'[q] = calls[q]
      /\ calls'[r] \in Call /\ calls'[r].pc = "answered" /\ calls'[r].kind = "switch"
      /\ calls'[r].user = c.user
  BY <1>1, <1>2, GotoKeeps
<1>5. CallOK(calls[r])'
  BY <1>2, <1>3, <1>4 DEF CallOK, UsesTeam, TeamPlaces, Settled, Deleted
<1> QED  BY <1>3, <1>4, <1>5, Step

LEMMA SetCurrentKeeps ==
  ASSUME OrgIInv, NEW r \in Request, SetCurrent(r)
  PROVE  OrgIInv'
<1> DEFINE c == calls[r]
<1>1. c.pc = "setCurrent" /\ UNCHANGED <<orgs, settings, members, rows>>
  BY DEF SetCurrent, At
<1>2. /\ c \in Call /\ c.user \in User /\ users[c.user].state # "none"
      /\ Standing(c.user, c.team) /\ c.team \in Org \cup {NoOrg}
      /\ c.read # NoOrg => Settled(c.user)
  BY <1>1, CallTypes DEF CallOK, UsesTeam, Call
<1>3. PICK pc \in {"findSettings", "answered"} :
        Goto(r, pc) /\ (c.kind = "signup" => pc = "findSettings")
  BY DEF SetCurrent
<1>4. /\ calls' \in [Request -> Call] /\ \A q \in Request \ {r} : calls'[q] = calls[q]
      /\ calls'[r] \in Call /\ calls'[r].pc = pc /\ calls'[r].kind = c.kind
      /\ calls'[r].user = c.user /\ calls'[r].team = c.team
  BY <1>3, GotoKeeps
<1>5. /\ Kept /\ TablesOK' /\ users'[c.user].state = users[c.user].state
      /\ (users'[c.user].state = "deleted" \/ users'[c.user].current # NoOrg)
  <2>1. CASE ShouldSetCurrentOrg(c)
    <3>1. users' = [users EXCEPT ![c.user].current = c.team]
      BY <2>1 DEF SetCurrent
    <3> QED  BY <1>1, <1>2, <3>1, CurrentKeeps DEF Settled, Deleted
  <2>2. CASE ~ShouldSetCurrentOrg(c)
    <3>1. users' = users /\ c.read # NoOrg
      BY <2>2 DEF SetCurrent, ShouldSetCurrentOrg
    <3> QED  BY <1>1, <1>2, <3>1, SameTables DEF Settled, Deleted
  <2> QED  BY <2>1, <2>2
<1>6. users'[c.user].state = "deleted" \/ \E m \in members' : m.user = c.user /\ m.org = c.team
  BY <1>1, <1>2, <1>5 DEF Standing, Deleted, IsMember
<1>7. CallOK(calls[r])'
  BY <1>2, <1>3, <1>4, <1>5, <1>6
     DEF CallOK, UsesTeam, TeamPlaces, Settled, Deleted, Standing, IsMember
<1> QED  BY <1>4, <1>5, <1>7, Step

LEMMA RememberKeeps ==
  ASSUME OrgIInv, NEW r \in Request, Remember(r)
  PROVE  OrgIInv'
<1> DEFINE c == calls[r]
           d == WithTeam(c, c.team)
<1>1. c.pc = "remember" /\ UNCHANGED <<orgs, settings, members, rows>>
      /\ users' = [users EXCEPT ![c.user].current = c.team]
      /\ calls' = [calls EXCEPT ![r] = d]
  BY DEF Remember, At
<1>2. /\ c \in Call /\ c.user \in User /\ users[c.user].state # "none"
      /\ Standing(c.user, c.team) /\ c.team \in Org \cup {NoOrg} /\ c.kind \in TeamKinds
  BY <1>1, CallTypes DEF CallOK, UsesTeam, Call, TeamPlaces
<1>3. /\ Kept /\ TablesOK' /\ users'[c.user].state = users[c.user].state
      /\ (users'[c.user].state = "deleted" \/ users'[c.user].current # NoOrg)
  BY <1>1, <1>2, CurrentKeeps DEF Settled, Deleted
<1>4. /\ d \in Call /\ d.team = c.team /\ d.kind = c.kind /\ d.user = c.user /\ d.read = c.read
      /\ d.pc \in {"form", "check", "answered", "softDelete"}
  BY <1>2, WithTeamCall
<1>5. calls'[r] = d /\ calls' \in [Request -> Call] /\ \A q \in Request \ {r} : calls'[q] = calls[q]
  BY <1>1, <1>4, CallTypes
<1>6. users'[c.user].state = "deleted" \/ \E m \in members' : m.user = c.user /\ m.org = c.team
  BY <1>1, <1>2, <1>3 DEF Standing, Deleted, IsMember
<1>7. CallOK(calls[r])'
  BY <1>2, <1>3, <1>4, <1>5, <1>6
     DEF CallOK, UsesTeam, TeamPlaces, TeamKinds, Settled, Deleted, Standing, IsMember
<1> QED  BY <1>3, <1>5, <1>7, Step

LEMMA InsertUserKeeps ==
  ASSUME OrgIInv, NEW r \in Request, InsertUser(r)
  PROVE  OrgIInv'
<1> DEFINE c == calls[r]
<1>1. c.pc = "insertUser" /\ UNCHANGED <<credentials, orgs, settings, members, rows>>
  BY DEF InsertUser, At
<1>2. c \in Call /\ c.read = NoOrg /\ c.email \in Email
  BY <1>1, CallTypes DEF CallOK, Call
<1>3. CASE Fails(r) /\ UNCHANGED users
  BY <1>1, <1>3, FailsKeeps, ReadStep DEF Stored
<1>4. ASSUME NEW u \in User, users[u].state = "none",
             users' = [users EXCEPT ![u] = [state |-> "live", email |-> c.email, current |-> NoOrg]],
             calls' = [calls EXCEPT ![r].pc = "findMember", ![r].user = u, ![r].created = TRUE]
      PROVE  OrgIInv'
  <2>1. users \in [User -> UserRow] /\ TablesOK
    BY DEF OrgIInv, TablesOK
  <2>2. /\ users' \in [User -> UserRow]
        /\ users'[u].state = "live" /\ users'[u].current = NoOrg
        /\ \A v \in User \ {u} : users'[v] = users[v]
    BY <1>2, <1>4, <2>1 DEF UserRow
  <2>3. ~Deleted(u)
    BY <1>4 DEF Deleted
  <2>4. ASSUME NEW v \in User, NEW o, Standing(v, o)
        PROVE  users'[v].state = "deleted" \/ \E m \in members' : m.user = v /\ m.org = o
    BY <1>1, <2>2, <2>3, <2>4 DEF Standing, Deleted, IsMember
  <2>5. Kept
    BY <1>1, <1>4, <2>2, <2>3, <2>4 DEF Kept, Settled, Standing, Deleted, IsMember
  <2>6. ASSUME NEW v \in User, users'[v].current # NoOrg
        PROVE  Standing(v, users[v].current)'
    <3>1. Standing(v, users[v].current) /\ users'[v].current = users[v].current
      BY <2>1, <2>2, <2>6 DEF TablesOK
    <3> QED  BY <2>4, <3>1 DEF Standing, Deleted, IsMember
  <2>7. ASSUME NEW row \in rows'
        PROVE  row.account = row.org /\ row.by \in User /\ Standing(row.by, row.org)'
    <3>1. row.account = row.org /\ row.by \in User /\ Standing(row.by, row.org)
      BY <1>1, <2>1, <2>7 DEF TablesOK
    <3> QED  BY <2>4, <3>1 DEF Standing, Deleted, IsMember
  <2>8. TablesOK'
    BY <1>1, <2>1, <2>2, <2>6, <2>7 DEF TablesOK
  <2>9. /\ calls' \in [Request -> Call] /\ \A q \in Request \ {r} : calls'[q] = calls[q]
        /\ calls'[r] \in Call /\ calls'[r].pc = "findMember" /\ calls'[r].user = u
        /\ calls'[r].read = NoOrg
    <3> DEFINE d == [c EXCEPT !.pc = "findMember", !.user = u, !.created = TRUE]
    <3>1. d.pc = "findMember" /\ d.user = u /\ d.read = NoOrg
      BY <1>2 DEF Call
    <3>2. d \in Call
      BY <1>2 DEF Call
    <3>3. calls' = [calls EXCEPT ![r] = d]
      BY <1>4, CallTypes
    <3> QED  BY <3>1, <3>2, <3>3, CallTypes
  <2>10. CallOK(calls[r])'
    BY <2>2, <2>9 DEF CallOK, UsesTeam, TeamPlaces
  <2> QED  BY <2>5, <2>8, <2>9, <2>10, Step
<1> QED  BY <1>3, <1>4 DEF InsertUser

LEMMA InsertOrgKeeps ==
  ASSUME OrgIInv, NEW r \in Request, InsertOrg(r)
  PROVE  OrgIInv'
<1> DEFINE c == calls[r]
<1>1. c.pc = "insertOrg" /\ UNCHANGED <<credentials, users, settings, members, rows>>
  BY DEF InsertOrg, At
<1>2. /\ c \in Call /\ c.user \in User /\ users[c.user].state # "none"
      /\ c.read # NoOrg => Settled(c.user)
  BY <1>1, CallTypes DEF CallOK
<1>3. PICK o \in Org \ orgs :
        orgs' = orgs \cup {o} /\ calls' = [calls EXCEPT ![r].team = o, ![r].pc = AfterOrg(c)]
  BY DEF InsertOrg
<1>4. AfterOrg(c) \in {"checkMember", "insertMember"}
  BY DEF AfterOrg
<1>5. /\ calls' \in [Request -> Call] /\ \A q \in Request \ {r} : calls'[q] = calls[q]
      /\ calls'[r] \in Call /\ calls'[r].pc = AfterOrg(c) /\ calls'[r].team = o
      /\ calls'[r].user = c.user /\ calls'[r].read = c.read
  BY <1>3, <1>4, CallTypes DEF Call
<1>6. Kept /\ TablesOK'
  BY <1>1, <1>3, CallTypes DEF Kept, TablesOK, Settled, Standing, Deleted, IsMember
<1>7. /\ users'[c.user].state # "none"
      /\ c.read # NoOrg => users'[c.user].state = "deleted" \/ users'[c.user].current # NoOrg
  BY <1>1, <1>2 DEF Settled, Deleted
<1>8. CallOK(calls[r])'
  BY <1>2, <1>4, <1>5, <1>7 DEF CallOK, UsesTeam, TeamPlaces, Settled, Deleted
<1> QED  BY <1>5, <1>6, <1>8, Step

LEMMA InsertMemberKeeps ==
  ASSUME OrgIInv, NEW r \in Request, InsertMember(r)
  PROVE  OrgIInv'
<1> DEFINE c == calls[r]
<1>1. c.pc = "insertMember" /\ UNCHANGED <<credentials, users, orgs, settings, rows>>
  BY DEF InsertMember, At
<1>2. /\ c \in Call /\ c.user \in User /\ users[c.user].state # "none" /\ c.team \in Org
      /\ c.read # NoOrg => Settled(c.user)
  BY <1>1, CallTypes DEF CallOK
<1> DEFINE m == [user |-> c.user, org |-> c.team, at |-> Cardinality(MembershipsOf(c.user)) + 1]
<1>3. members' = members \cup {m} /\ m.user = c.user /\ m.org = c.team
  BY DEF InsertMember
<1> HIDE DEF m
<1>4. PICK pc \in {"setCurrent", "findSettings"} :
        Goto(r, pc) /\ (c.kind = "signup" => pc = "setCurrent")
  BY DEF InsertMember
<1>5. /\ calls' \in [Request -> Call] /\ \A q \in Request \ {r} : calls'[q] = calls[q]
      /\ calls'[r] \in Call /\ calls'[r].pc = pc /\ calls'[r].kind = c.kind
      /\ calls'[r].user = c.user /\ calls'[r].read = c.read /\ calls'[r].team = c.team
  BY <1>4, GotoKeeps
<1>6. Kept /\ TablesOK'
  BY <1>1, <1>2, <1>3, CallTypes DEF Kept, TablesOK, Settled, Standing, Deleted, IsMember
<1>7. /\ users'[c.user].state # "none"
      /\ c.read # NoOrg => users'[c.user].state = "deleted" \/ users'[c.user].current # NoOrg
      /\ \E n \in members' : n.user = c.user /\ n.org = c.team
  BY <1>1, <1>2, <1>3 DEF Settled, Deleted
<1>8. CallOK(calls[r])'
  BY <1>2, <1>4, <1>5, <1>7
     DEF CallOK, UsesTeam, TeamPlaces, Settled, Standing, Deleted, IsMember
<1> QED  BY <1>5, <1>6, <1>8, Step

LEMMA InsertSettingsKeeps ==
  ASSUME OrgIInv, NEW r \in Request, InsertSettings(r)
  PROVE  OrgIInv'
<1> DEFINE c == calls[r]
<1>1. c.pc = "insertSettings" /\ UNCHANGED <<credentials, users, orgs, members, rows>>
  BY DEF InsertSettings, At
<1>2. /\ c \in Call /\ c.user \in User /\ users[c.user].state # "none"
      /\ c.read # NoOrg => Settled(c.user)
      /\ Standing(c.user, c.team)
      /\ c.kind = "signup" => Settled(c.user)
  BY <1>1, CallTypes DEF CallOK, UsesTeam
<1>3. CASE Fails(r) /\ UNCHANGED settings
  BY <1>1, <1>3, FailsKeeps, ReadStep DEF Stored
<1>4. CASE settings' = settings \cup {c.team} /\ Goto(r, AfterSettings(r))
  <2>1. PICK pc \in {"answered", "setCurrent"} :
          Goto(r, pc) /\ (pc = "answered" => c.kind = "signup")
    BY <1>4 DEF AfterSettings
  <2>2. /\ calls' \in [Request -> Call] /\ \A q \in Request \ {r} : calls'[q] = calls[q]
        /\ calls'[r] \in Call /\ calls'[r].pc = pc /\ calls'[r].kind = c.kind
        /\ calls'[r].user = c.user /\ calls'[r].read = c.read /\ calls'[r].team = c.team
    BY <2>1, GotoKeeps
  <2>3. Kept /\ TablesOK'
    BY <1>1, <1>4, CallTypes DEF Kept, TablesOK, Settled, Standing, Deleted, IsMember
  <2>4. /\ users'[c.user].state # "none"
        /\ c.read # NoOrg => users'[c.user].state = "deleted" \/ users'[c.user].current # NoOrg
        /\ users'[c.user].state = "deleted" \/ \E m \in members' : m.user = c.user /\ m.org = c.team
        /\ c.kind = "signup" => users'[c.user].state = "deleted" \/ users'[c.user].current # NoOrg
        /\ c.team \in settings'
    BY <1>1, <1>2, <1>4 DEF Settled, Standing, Deleted, IsMember
  <2>5. CallOK(calls[r])'
    BY <1>2, <2>1, <2>2, <2>4
       DEF CallOK, UsesTeam, TeamPlaces, Settled, Standing, Deleted, IsMember
  <2> QED  BY <2>2, <2>3, <2>5, Step
<1> QED  BY <1>3, <1>4 DEF InsertSettings

LEMMA WriteKeeps ==
  ASSUME OrgIInv, NEW r \in Request, Write(r)
  PROVE  OrgIInv'
<1> DEFINE c == calls[r]
<1>1. c.pc = "check" /\ UNCHANGED <<credentials, users, orgs, settings, members>>
  BY DEF Write, At
<1>2. /\ c \in Call /\ c.user \in User /\ users[c.user].state # "none"
      /\ c.read # NoOrg => Settled(c.user)
      /\ Standing(c.user, c.team)
      /\ c.kind \in TeamKinds
  BY <1>1, CallTypes DEF CallOK, UsesTeam, TeamPlaces
<1>3. CASE Fails(r) /\ UNCHANGED rows
  BY <1>1, <1>3, FailsKeeps, ReadStep DEF Stored
<1>4. CASE /\ AccountsBelong(c) /\ Goto(r, "answered")
           /\ rows' = rows \cup {[org |-> c.team, account |-> c.shown, by |-> c.user]}
  <2>1. /\ calls' \in [Request -> Call] /\ \A q \in Request \ {r} : calls'[q] = calls[q]
        /\ calls'[r] \in Call /\ calls'[r].pc = "answered" /\ calls'[r].kind = c.kind
        /\ calls'[r].user = c.user /\ calls'[r].read = c.read
    BY <1>4, GotoKeeps
  <2>2. Kept
    BY <1>1 DEF Kept, Settled, Standing, Deleted, IsMember
  <2>3. TablesOK'
    BY <1>1, <1>2, <1>4, CallTypes DEF TablesOK, AccountsBelong, Standing, Deleted, IsMember
  <2>4. /\ users'[c.user].state # "none"
        /\ c.read # NoOrg => users'[c.user].state = "deleted" \/ users'[c.user].current # NoOrg
    BY <1>1, <1>2 DEF Settled, Deleted
  <2>5. CallOK(calls[r])'
    BY <1>2, <2>1, <2>4 DEF CallOK, UsesTeam, TeamPlaces, TeamKinds, Settled, Deleted
  <2> QED  BY <2>1, <2>2, <2>3, <2>5, Step
<1> QED  BY <1>3, <1>4 DEF Write

LEMMA DeleteCredentialKeeps ==
  ASSUME OrgIInv, NEW r \in Request, DeleteCredential(r)
  PROVE  OrgIInv'
<1> DEFINE c == calls[r]
<1>1. c.pc = "deleteCredential" /\ UNCHANGED <<users, orgs, settings, members, rows>>
  BY DEF DeleteCredential, At
<1>2. /\ c \in Call /\ c.user \in User /\ users[c.user].state # "none"
      /\ c.read # NoOrg => Settled(c.user)
      /\ c.kind \in TeamKinds
  BY <1>1, CallTypes DEF CallOK, TeamPlaces
<1>3. Kept /\ TablesOK'
  BY <1>1, SameTables
<1>4. CASE Fails(r)
  BY <1>3, <1>4, FailsKeeps, Step
<1>5. CASE Goto(r, "userWithTeam")
  <2>1. /\ calls' \in [Request -> Call] /\ \A q \in Request \ {r} : calls'[q] = calls[q]
        /\ calls'[r] \in Call /\ calls'[r].pc = "userWithTeam" /\ calls'[r].kind = c.kind
        /\ calls'[r].user = c.user /\ calls'[r].read = c.read
    BY <1>5, GotoKeeps
  <2>2. /\ users'[c.user].state # "none"
        /\ c.read # NoOrg => users'[c.user].state = "deleted" \/ users'[c.user].current # NoOrg
    BY <1>1, <1>2 DEF Settled, Deleted
  <2>3. CallOK(calls[r])'
    BY <1>2, <2>1, <2>2 DEF CallOK, UsesTeam, TeamPlaces, TeamKinds, Settled, Deleted
  <2> QED  BY <1>3, <2>1, <2>3, Step
<1> QED  BY <1>4, <1>5 DEF DeleteCredential

LEMMA SoftDeleteKeeps ==
  ASSUME OrgIInv, NEW r \in Request, SoftDelete(r)
  PROVE  OrgIInv'
<1> DEFINE c == calls[r]
           u == calls[r].user
<1>1. c.pc = "softDelete" /\ UNCHANGED <<credentials, orgs, settings, members, rows>>
      /\ users' = [users EXCEPT ![u].state = "deleted"]
  BY DEF SoftDelete, At
<1>2. c \in Call /\ u \in User /\ c.kind \in TeamKinds
  BY <1>1, CallTypes DEF CallOK, TeamPlaces
<1>3. users \in [User -> UserRow] /\ TablesOK
  BY DEF OrgIInv, TablesOK
<1>4. /\ users' \in [User -> UserRow]
      /\ users'[u].state = "deleted" /\ users'[u].current = users[u].current
      /\ \A v \in User \ {u} : users'[v] = users[v]
  BY <1>1, <1>2, <1>3 DEF UserRow
<1>5. ASSUME NEW v \in User, NEW o, Standing(v, o)
      PROVE  users'[v].state = "deleted" \/ \E m \in members' : m.user = v /\ m.org = o
  BY <1>1, <1>4, <1>5 DEF Standing, Deleted, IsMember
<1>6. Kept
  BY <1>1, <1>4, <1>5 DEF Kept, Settled, Standing, Deleted, IsMember
<1>7. ASSUME NEW v \in User, users'[v].current # NoOrg
      PROVE  Standing(v, users[v].current)'
  <2>1. Standing(v, users[v].current) /\ users'[v].current = users[v].current
    BY <1>3, <1>4, <1>7 DEF TablesOK
  <2> QED  BY <1>5, <2>1 DEF Standing, Deleted, IsMember
<1>8. ASSUME NEW row \in rows'
      PROVE  row.account = row.org /\ row.by \in User /\ Standing(row.by, row.org)'
  <2>1. row.account = row.org /\ row.by \in User /\ Standing(row.by, row.org)
    BY <1>1, <1>3, <1>8 DEF TablesOK
  <2> QED  BY <1>5, <2>1 DEF Standing, Deleted, IsMember
<1>9. TablesOK'
  BY <1>1, <1>3, <1>4, <1>7, <1>8 DEF TablesOK
<1>10. PICK pc \in {"answered", "removeMember"} : Goto(r, pc)
  BY DEF SoftDelete
<1>11. /\ calls' \in [Request -> Call] /\ \A q \in Request \ {r} : calls'[q] = calls[q]
       /\ calls'[r] \in Call /\ calls'[r].pc = pc /\ calls'[r].kind = c.kind
       /\ calls'[r].user = u /\ calls'[r].read = c.read
  BY <1>10, GotoKeeps
<1>12. CallOK(calls[r])'
  BY <1>2, <1>4, <1>10, <1>11 DEF CallOK, UsesTeam, TeamPlaces, TeamKinds, Settled, Deleted
<1> QED  BY <1>6, <1>9, <1>11, <1>12, Step

LEMMA RemoveMemberKeeps ==
  ASSUME OrgIInv, NEW r \in Request, RemoveMember(r)
  PROVE  OrgIInv'
<1> DEFINE c == calls[r]
<1>1. /\ c.pc = "removeMember" /\ UNCHANGED <<credentials, users, orgs, settings, rows>>
      /\ members' = {m \in members : ~(m.user = c.user /\ m.org = c.team)}
      /\ Goto(r, "answered")
  BY DEF RemoveMember, At
<1>2. /\ c \in Call /\ c.user \in User /\ users[c.user].state # "none"
      /\ Deleted(c.user) /\ c.kind \in TeamKinds
  BY <1>1, CallTypes DEF CallOK, TeamPlaces
<1>3. TablesOK
  BY DEF OrgIInv
<1>4. ASSUME NEW v \in User, NEW o, Standing(v, o)
      PROVE  users'[v].state = "deleted" \/ \E m \in members' : m.user = v /\ m.org = o
  <2>1. CASE v = c.user
    BY <1>1, <1>2, <2>1 DEF Deleted
  <2>2. CASE v # c.user
    BY <1>1, <1>4, <2>2 DEF Standing, Deleted, IsMember
  <2> QED  BY <2>1, <2>2
<1>5. Kept
  BY <1>1, <1>4 DEF Kept, Settled, Standing, Deleted, IsMember
<1>6. ASSUME NEW v \in User, users'[v].current # NoOrg
      PROVE  Standing(v, users[v].current)'
  <2>1. Standing(v, users[v].current) /\ users'[v].current = users[v].current
    BY <1>1, <1>3, <1>6 DEF TablesOK
  <2> QED  BY <1>4, <2>1 DEF Standing, Deleted, IsMember
<1>7. ASSUME NEW row \in rows'
      PROVE  row.account = row.org /\ row.by \in User /\ Standing(row.by, row.org)'
  <2>1. row.account = row.org /\ row.by \in User /\ Standing(row.by, row.org)
    BY <1>1, <1>3, <1>7 DEF TablesOK
  <2> QED  BY <1>4, <2>1 DEF Standing, Deleted, IsMember
<1>8. TablesOK'
  BY <1>1, <1>3, <1>6, <1>7 DEF TablesOK
<1>9. /\ calls' \in [Request -> Call] /\ \A q \in Request \ {r} : calls'[q] = calls[q]
      /\ calls'[r] \in Call /\ calls'[r].pc = "answered" /\ calls'[r].kind = c.kind
      /\ calls'[r].user = c.user
  BY <1>1, GotoKeeps
<1>10. CallOK(calls[r])'
  BY <1>1, <1>2, <1>9 DEF CallOK, UsesTeam, TeamPlaces, TeamKinds, Settled, Deleted
<1> QED  BY <1>5, <1>8, <1>9, <1>10, Step
-----------------------------------------------------------------------------
(* The invariant, and what it says *)

LEMMA InitHolds == OrgInit => OrgIInv
<1> SUFFICES ASSUME OrgInit PROVE OrgIInv
  OBVIOUS
<1>1. (CHOOSE e \in Email : TRUE) \in Email
  BY OrganizationsAssumption
<1>2. TablesOK
  BY <1>1 DEF OrgInit, TablesOK, UserRow
<1>3. calls \in [Request -> Call] /\ \A r \in Request : calls[r] = Idle
  BY IdleCall DEF OrgInit
<1>4. ASSUME NEW r \in Request PROVE CallOK(calls[r])
  BY <1>3, IdleCall DEF CallOK, UsesTeam, TeamPlaces
<1> QED  BY <1>2, <1>3, <1>4 DEF OrgIInv

LEMMA RequestStepKeeps ==
  ASSUME OrgIInv, NEW r \in Request, RequestStep(r)
  PROVE  OrgIInv'
BY FindUserKeeps, InsertUserKeeps, FindMemberKeeps, InsertOrgKeeps, CheckMemberKeeps, InsertMemberKeeps,
   SetCurrentKeeps, FindSettingsKeeps, InsertSettingsKeeps, MembershipKeeps, SwitchKeeps,
   TeamKeeps, UserWithTeamKeeps, RememberKeeps, WriteKeeps,
   DeleteCredentialKeeps, SoftDeleteKeeps, RemoveMemberKeeps
   DEF RequestStep

LEMMA NextKeeps ==
  ASSUME OrgIInv, [OrgNext]_orgVars
  PROVE  OrgIInv'
<1>1. CASE UNCHANGED orgVars
  <2>1. UNCHANGED <<users, orgs, settings, members, rows>> /\ calls' = calls
    BY <1>1 DEF orgVars
  <2>2. Kept /\ TablesOK'
    BY <2>1, SameTables
  <2>3. ASSUME NEW q \in Request PROVE CallOK(calls[q])'
    BY <2>1, <2>2, CallTypes, OthersKeep
  <2> QED  BY <2>1, <2>2, <2>3 DEF OrgIInv
<1>2. ASSUME NEW e \in Email, Register(e) PROVE OrgIInv'
  BY <1>2, RegisterKeeps
<1>3. ASSUME NEW r \in Request, NEW e \in Email, NEW kind \in Kind, NEW target \in orgs \cup {NoOrg},
             Begin(r, e, kind, target)
      PROVE  OrgIInv'
  BY <1>3, BeginKeeps
<1>4. ASSUME NEW r \in Request, Submit(r) \/ RequestStep(r) \/ Ends(r)
      PROVE  OrgIInv'
  BY <1>4, SubmitKeeps, RequestStepKeeps, EndsKeeps
<1> QED  BY <1>1, <1>2, <1>3, <1>4 DEF OrgNext

\* However requests of any number of people interleave and wherever they are cut off, what
\* each has read and checked stays good until it uses it (app/api/auth/post-signup/route.ts,
\* app/api/orgs/route.ts, lib/db/queries/orgs.ts).
THEOREM RequestsStaySound == OrgSpec => []OrgIInv
<1>1. OrgIInv /\ [OrgNext]_orgVars => OrgIInv'
  BY NextKeeps
<1> QED  BY InitHolds, <1>1, PTL DEF OrgSpec

\* The organization a live user works in is always one the user is a member of
\* (lib/db/queries/orgs.ts:87-133, app/api/orgs/route.ts:22-50).
THEOREM CurrentOrgIsMembers == OrgSpec => []CurrentIsMember
<1>1. OrgIInv => CurrentIsMember
  BY DEF OrgIInv, TablesOK, CurrentIsMember, Standing, Deleted, Live
<1> QED  BY <1>1, RequestsStaySound, PTL

\* A signup that is answered leaves a user who can work, also after one that was cut off
\* half way (app/api/auth/post-signup/route.ts:18-157).
THEOREM SignupsComplete == OrgSpec => []SignupCompletes
<1>1. OrgIInv => SignupCompletes
  <2> SUFFICES ASSUME OrgIInv, NEW r \in Request,
                      calls[r].pc = "answered", calls[r].kind = "signup", Live(calls[r].user)
               PROVE  /\ IsMember(calls[r].user, calls[r].team)
                      /\ users[calls[r].user].current # NoOrg
                      /\ calls[r].team \in settings
    BY DEF SignupCompletes, At
  <2> QED  BY CallTypes DEF CallOK, Settled, Standing, Deleted, Live
<1> QED  BY <1>1, RequestsStaySound, PTL

\* Accounting rows name accounts of the organization they are written for, and are written by
\* its members, however long ago their form was shown (docs/ARCHITECTURE.md).
THEOREM RowsStayInTheirOrg == OrgSpec => []RowsKeepToTheirOrg
<1>1. OrgIInv => RowsKeepToTheirOrg
  BY DEF OrgIInv, TablesOK, RowsKeepToTheirOrg, Standing, Deleted, Live
<1> QED  BY <1>1, RequestsStaySound, PTL
=============================================================================
