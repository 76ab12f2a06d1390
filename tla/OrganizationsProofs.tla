------------------------- MODULE OrganizationsProofs -------------------------
(***************************************************************************)
(* For any users, any requests however many, any pool: the tables of       *)
(* organisations keep their keys and references, no connection is lost,    *)
(* a creation shows whole or not at all, and limits leave their plan only  *)
(* by an overlap.                                                          *)
(***************************************************************************)
EXTENDS Organizations, FiniteSetTheorems, TLAPS

-----------------------------------------------------------------------------
(* The rows of the tables, one statement at a time.                        *)

OrgRow == [id : Ids, slug : Slugs, theme : Themes, plan : SUBSCRIPTION_PLANS, limits : Limits]
TeamRow == [id : Ids, org : Ids, visibility : Visibilities]
MemberRow == [id : Ids, user : Users, org : Ids, team : Ids \cup {Null}, role : Roles,
              permissions : SUBSET Permission, status : {"invited", "active"}]

Typed == orgs \subseteq OrgRow /\ teams \subseteq TeamRow /\ members \subseteq MemberRow
Keyed ==
    /\ \A o, p \in orgs : o.id = p.id \/ o.slug = p.slug => o = p
    /\ \A m, l \in members : m.id = l.id \/ (m.user = l.user /\ m.org = l.org) => m = l
Referring ==
    /\ \A t \in teams : \E o \in orgs : o.id = t.org
    /\ \A m \in members : /\ \E o \in orgs : o.id = m.org
                          /\ m.team = Null \/ \E t \in teams : t.id = m.team

(* What a change of rows leaves as it was, one that inserts none.          *)
TablesKept ==
    /\ Typed' /\ Keyed' /\ Referring'
    /\ \A p \in orgs' : \E o \in orgs : o.id = p.id /\ o.slug = p.slug
    /\ \A l \in members' : \E m \in members : m.id = l.id

(* Organisations keep their slugs.                                         *)
LEMMA OrgsEdited ==
    ASSUME Typed, Keyed, Referring,
           NEW f \in [orgs -> OrgRow],
           \A o \in orgs : f[o].id = o.id /\ f[o].slug = o.slug,
           orgs' = {f[o] : o \in orgs}, UNCHANGED <<teams, members>>
    PROVE  TablesKept
<1>1. Typed'
  BY DEF Typed
<1>2. Keyed'
  <2>1. ASSUME NEW o \in orgs', NEW p \in orgs', o.id = p.id \/ o.slug = p.slug PROVE o = p
    <3>1. PICK a \in orgs, b \in orgs : o = f[a] /\ p = f[b]
      OBVIOUS
    <3>2. a = b
      BY <2>1, <3>1 DEF Keyed
    <3> QED
      BY <3>1, <3>2
  <2> QED
    BY <2>1 DEF Keyed
<1>3. Referring'
  <2>1. ASSUME NEW x, \E o \in orgs : o.id = x PROVE \E p \in orgs' : p.id = x
    <3>1. PICK o \in orgs : o.id = x
      BY <2>1
    <3>2. f[o] \in orgs' /\ f[o].id = x
      BY <3>1
    <3> QED
      BY <3>2
  <2> QED
    BY <2>1 DEF Referring
<1>4. \A p \in orgs' : \E o \in orgs : o.id = p.id /\ o.slug = p.slug
  OBVIOUS
<1> QED
  BY <1>1, <1>2, <1>3, <1>4 DEF TablesKept

(* Members keep their keys, and the team of each is there.                 *)
LEMMA MembersEdited ==
    ASSUME Typed, Keyed, Referring,
           NEW kept \in SUBSET members,
           NEW f \in [kept -> MemberRow],
           \A m \in kept : /\ f[m].id = m.id /\ f[m].user = m.user /\ f[m].org = m.org
                           /\ f[m].team \in {m.team, Null}
                                \/ \E t \in teams : t.id = f[m].team,
           members' = {f[m] : m \in kept}, UNCHANGED <<orgs, teams>>
    PROVE  TablesKept
<1>1. Typed'
  BY DEF Typed
<1>2. Keyed'
  <2>1. ASSUME NEW m \in members', NEW l \in members',
               m.id = l.id \/ (m.user = l.user /\ m.org = l.org)
        PROVE  m = l
    <3>1. PICK a \in kept, b \in kept : m = f[a] /\ l = f[b]
      OBVIOUS
    <3>2. a = b
      BY <2>1, <3>1 DEF Keyed
    <3> QED
      BY <3>1, <3>2
  <2> QED
    BY <2>1 DEF Keyed
<1>3. Referring'
  <2>1. ASSUME NEW m \in members'
        PROVE  /\ \E o \in orgs : o.id = m.org
               /\ m.team = Null \/ \E t \in teams : t.id = m.team
    <3>1. PICK a \in kept : m = f[a]
      OBVIOUS
    <3> QED
      BY <3>1 DEF Referring
  <2> QED
    BY <2>1 DEF Referring
<1>4. \A l \in members' : \E m \in members : m.id = l.id
  OBVIOUS
<1> QED
  BY <1>1, <1>2, <1>3, <1>4 DEF TablesKept

(* Statements that are such edits.                                         *)
LEMMA WriteSettingsKeeps ==
    ASSUME Typed, Keyed, Referring, NEW id, NEW row \in OrgRow,
           NEW asked \in Themes \cup BodyLimits,
           WriteSettings(id, row, asked), UNCHANGED <<teams, members>>
    PROVE  TablesKept
<1> DEFINE f == [o \in orgs |-> IF o \in RowById(orgs, id)
                                THEN [o EXCEPT !.theme = Merged(row, asked).theme,
                                                !.limits = Merged(row, asked).limits] ELSE o]
<1>1. f \in [orgs -> OrgRow]
  <2>1. Merged(row, asked).theme \in Themes /\ Merged(row, asked).limits \in Limits
    BY DEF Merged, OrgRow, Limits
  <2> QED
    BY <2>1 DEF Typed, OrgRow
<1>2. \A o \in orgs : f[o].id = o.id /\ f[o].slug = o.slug
  BY DEF Typed, OrgRow
<1>3. orgs' = {f[o] : o \in orgs}
  BY DEF WriteSettings, Update
<1> HIDE DEF f
<1> QED
  BY <1>1, <1>2, <1>3, OrgsEdited

LEMMA WriteSubscriptionKeeps ==
    ASSUME Typed, Keyed, Referring, NEW id, NEW plan \in SUBSCRIPTION_PLANS,
           WriteSubscription(id, plan), UNCHANGED <<teams, members>>
    PROVE  TablesKept
<1> DEFINE f == [o \in orgs |->
                    IF o \in RowById(orgs, id)
                    THEN [o EXCEPT !.plan = plan, !.limits = [of |-> plan, as |-> "text"]]
                    ELSE o]
<1>1. f \in [orgs -> OrgRow]
  BY DEF Typed, OrgRow, Limits, BodyLimits
<1>2. \A o \in orgs : f[o].id = o.id /\ f[o].slug = o.slug
  BY DEF Typed, OrgRow
<1>3. orgs' = {f[o] : o \in orgs}
  BY DEF WriteSubscription, Update
<1> HIDE DEF f
<1> QED
  BY <1>1, <1>2, <1>3, OrgsEdited

LEMMA SetTeamKeeps ==
    ASSUME Typed, Keyed, Referring, NEW rows, NEW team,
           team = Null \/ MaySetTeam(rows, team),
           SetTeam(rows, team), UNCHANGED <<orgs, teams>>
    PROVE  TablesKept
<1> DEFINE f == [m \in members |-> IF m \in rows THEN [m EXCEPT !.team = team] ELSE m]
<1>1. team = Null \/ rows = {} \/ \E t \in teams : t.id = team
  BY DEF MaySetTeam, RowById
<1>2. rows = {} \/ team \in Ids \cup {Null}
  BY <1>1 DEF Typed, TeamRow
<1>3. f \in [members -> MemberRow]
  BY <1>2 DEF Typed, MemberRow
<1>4. \A m \in members : /\ f[m].id = m.id /\ f[m].user = m.user /\ f[m].org = m.org
                         /\ f[m].team = IF m \in rows THEN team ELSE m.team
  BY DEF Typed, MemberRow
<1>5. \A m \in members : f[m].team \in {m.team, Null} \/ \E t \in teams : t.id = f[m].team
  BY <1>1, <1>4
<1>6. members' = {f[m] : m \in members}
  BY DEF SetTeam, Update
<1> HIDE DEF f
<1> QED
  BY <1>3, <1>4, <1>5, <1>6, MembersEdited

LEMMA AcceptInvitationKeeps ==
    ASSUME Typed, Keyed, Referring, NEW id, AcceptInvitation(id), UNCHANGED <<orgs, teams>>
    PROVE  TablesKept
<1> DEFINE rows == {m \in RowById(members, id) : m.status = "invited"}
           f == [m \in members |-> IF m \in rows THEN [m EXCEPT !.status = "active"] ELSE m]
<1>1. members' = {f[m] : m \in members}
  BY DEF AcceptInvitation, Update
<1> HIDE DEF rows
<1>2. f \in [members -> MemberRow]
  BY DEF Typed, MemberRow
<1>3. \A m \in members : /\ f[m].id = m.id /\ f[m].user = m.user /\ f[m].org = m.org
                         /\ f[m].team = m.team
  BY DEF Typed, MemberRow
<1> HIDE DEF f
<1> QED
  BY <1>1, <1>2, <1>3, MembersEdited

LEMMA UpdateMembershipKeeps ==
    ASSUME Typed, Keyed, Referring, NEW id, NEW role \in Roles \cup {Null}, NEW bare,
           bare \/ role # Null,
           UpdateMembership(id, role, bare), UNCHANGED <<orgs, teams>>
    PROVE  TablesKept
<1> DEFINE rights == IF bare THEN {} ELSE ROLE_PERMISSIONS[role]
           f == [m \in members |->
                    IF m \in RowById(members, id)
                    THEN [m EXCEPT !.role = IF role = Null THEN @ ELSE role,
                                   !.permissions = rights]
                    ELSE m]
<1>1. members' = {f[m] : m \in members}
  BY DEF UpdateMembership, Update
<1>2. \A r \in Roles : ROLE_PERMISSIONS[r] \in SUBSET Permission
  BY DEF Roles, ROLE_PERMISSIONS, Permission
<1>3. rights \in SUBSET Permission
  BY <1>2
<1> HIDE DEF rights
<1>4. f \in [members -> MemberRow]
  BY <1>3 DEF Typed, MemberRow
<1>5. \A m \in members : /\ f[m].id = m.id /\ f[m].user = m.user /\ f[m].org = m.org
                         /\ f[m].team = m.team
  BY DEF Typed, MemberRow
<1> HIDE DEF f
<1> QED
  BY <1>1, <1>4, <1>5, MembersEdited

LEMMA RemoveMembershipKeeps ==
    ASSUME Typed, Keyed, Referring, NEW id, RemoveMembership(id), UNCHANGED <<orgs, teams>>
    PROVE  TablesKept
  BY DEF RemoveMembership, Typed, Keyed, Referring, TablesKept

LEMMA WriteTeamKeeps ==
    ASSUME Typed, Keyed, Referring, NEW id, NEW visibility \in Visibilities,
           WriteTeam(id, visibility), UNCHANGED <<orgs, members>>
    PROVE  TablesKept
<1> DEFINE f == [t \in teams |-> IF t \in RowById(teams, id)
                                 THEN [t EXCEPT !.visibility = visibility] ELSE t]
<1>1. teams' = {f[t] : t \in teams}
  BY DEF WriteTeam, Update
<1>2. f \in [teams -> TeamRow]
  BY DEF Typed, TeamRow
<1>3. \A t \in teams : f[t].id = t.id /\ f[t].org = t.org
  BY DEF Typed, TeamRow
<1> HIDE DEF f
<1>4. ASSUME NEW x, \E t \in teams : t.id = x PROVE \E t \in teams' : t.id = x
  <2>1. PICK t \in teams : t.id = x
    BY <1>4
  <2>2. f[t] \in teams' /\ f[t].id = x
    BY <1>1, <1>3, <2>1
  <2> QED
    BY <2>2
<1>5. Referring'
  <2>1. \A t \in teams' : \E o \in orgs : o.id = t.org
    BY <1>1, <1>3 DEF Referring
  <2> QED
    BY <1>4, <2>1 DEF Referring
<1> QED
  BY <1>1, <1>2, <1>5 DEF Typed, Keyed, TablesKept

(* What ON DELETE SET NULL makes of a membership.                          *)
Cleared(m, gone) == IF \E t \in gone : m.team = t.id THEN [m EXCEPT !.team = Null] ELSE m

LEMMA WithoutTeamsRows ==
    ASSUME NEW rows \in SUBSET MemberRow, NEW gone, NEW l \in WithoutTeams(rows, gone)
    PROVE  /\ l \in MemberRow
           /\ \E m \in rows : /\ l = Cleared(m, gone)
                              /\ l.id = m.id /\ l.user = m.user /\ l.org = m.org
                              /\ l.team = Null
                                   \/ (l.team = m.team /\ \A t \in gone : m.team # t.id)
<1>1. PICK m \in rows : l = Cleared(m, gone)
  BY DEF WithoutTeams, Cleared
<1>2. CASE \E t \in gone : m.team = t.id
  <2>1. l = [m EXCEPT !.team = Null]
    BY <1>1, <1>2 DEF Cleared
  <2>2. /\ l \in MemberRow /\ l.team = Null
        /\ l.id = m.id /\ l.user = m.user /\ l.org = m.org
    BY <2>1 DEF MemberRow
  <2> QED
    BY <1>1, <2>2
<1>3. CASE ~ \E t \in gone : m.team = t.id
  BY <1>1, <1>3 DEF Cleared
<1> QED
  BY <1>2, <1>3

LEMMA DeleteOrganizationKeeps ==
    ASSUME Typed, Keyed, Referring, NEW id, DeleteOrganization(id)
    PROVE  TablesKept
<1> DEFINE gone == {t \in teams : t.org = id}
           rows == {m \in members : m.org # id}
<1>1. /\ orgs' = {o \in orgs : o.id # id}
      /\ teams' = {t \in teams : t.org # id}
      /\ members' = WithoutTeams(rows, gone)
  BY DEF DeleteOrganization, RowById
<1>2. /\ rows \in SUBSET MemberRow /\ rows \subseteq members
      /\ \A m \in rows : m.org # id
      /\ \A t \in teams : t \in gone <=> t \notin teams'
  BY <1>1 DEF Typed
<1> HIDE DEF gone, rows
<1>3. Typed'
  BY <1>1, <1>2, WithoutTeamsRows DEF Typed
<1>4. Keyed'
  <2>1. ASSUME NEW m \in members', NEW l \in members',
               m.id = l.id \/ (m.user = l.user /\ m.org = l.org)
        PROVE  m = l
    <3>0. m \in WithoutTeams(rows, gone) /\ l \in WithoutTeams(rows, gone)
      BY <1>1
    <3>1. PICK a \in rows : /\ m = Cleared(a, gone)
                            /\ m.id = a.id /\ m.user = a.user /\ m.org = a.org
      BY <1>2, <3>0, WithoutTeamsRows
    <3>2. PICK b \in rows : /\ l = Cleared(b, gone)
                            /\ l.id = b.id /\ l.user = b.user /\ l.org = b.org
      BY <1>2, <3>0, WithoutTeamsRows
    <3>3. a = b
      BY <1>2, <2>1, <3>1, <3>2 DEF Keyed
    <3> QED
      BY <3>1, <3>2, <3>3
  <2> QED
    BY <1>1, <2>1 DEF Keyed
<1>5. Referring'
  <2>1. ASSUME NEW m \in members'
        PROVE  /\ \E o \in orgs' : o.id = m.org
               /\ m.team = Null \/ \E t \in teams' : t.id = m.team
    <3>0. m \in WithoutTeams(rows, gone)
      BY <1>1
    <3>1. PICK a \in rows : /\ m.org = a.org
                            /\ m.team = Null
                                 \/ (m.team = a.team /\ \A t \in gone : a.team # t.id)
      BY <1>2, <3>0, WithoutTeamsRows
    <3>2. \E o \in orgs' : o.id = m.org
      BY <1>1, <1>2, <3>1 DEF Referring
    <3>3. m.team = Null \/ \E t \in teams' : t.id = m.team
      BY <1>1, <1>2, <3>1 DEF Referring
    <3> QED
      BY <3>2, <3>3
  <2> QED
    BY <1>1, <2>1 DEF Referring
<1>6. \A l \in members' : \E m \in members : m.id = l.id
  BY <1>1, <1>2, WithoutTeamsRows
<1> QED
  BY <1>1, <1>3, <1>4, <1>5, <1>6 DEF TablesKept

LEMMA DeleteTeamKeeps ==
    ASSUME Typed, Keyed, Referring, NEW id, DeleteTeam(id), UNCHANGED orgs
    PROVE  TablesKept
<1> DEFINE gone == RowById(teams, id)
<1>1. members' = WithoutTeams(members, gone) /\ teams' = teams \ gone
  BY DEF DeleteTeam
<1>2. members \in SUBSET MemberRow
  BY DEF Typed
<1> HIDE DEF gone
<1>3. Typed'
  BY <1>1, <1>2, WithoutTeamsRows DEF Typed
<1>4. Keyed'
  <2>1. ASSUME NEW m \in members', NEW l \in members',
               m.id = l.id \/ (m.user = l.user /\ m.org = l.org)
        PROVE  m = l
    <3>0. m \in WithoutTeams(members, gone) /\ l \in WithoutTeams(members, gone)
      BY <1>1
    <3>1. PICK a \in members : /\ m = Cleared(a, gone)
                               /\ m.id = a.id /\ m.user = a.user /\ m.org = a.org
      BY <1>2, <3>0, WithoutTeamsRows
    <3>2. PICK b \in members : /\ l = Cleared(b, gone)
                               /\ l.id = b.id /\ l.user = b.user /\ l.org = b.org
      BY <1>2, <3>0, WithoutTeamsRows
    <3>3. a = b
      BY <2>1, <3>1, <3>2 DEF Keyed
    <3> QED
      BY <3>1, <3>2, <3>3
  <2> QED
    BY <2>1 DEF Keyed
<1>5. Referring'
  <2>1. ASSUME NEW m \in members'
        PROVE  /\ \E o \in orgs : o.id = m.org
               /\ m.team = Null \/ \E t \in teams' : t.id = m.team
    <3>0. m \in WithoutTeams(members, gone)
      BY <1>1
    <3>1. PICK a \in members : /\ m.org = a.org
                               /\ m.team = Null
                                    \/ (m.team = a.team /\ \A t \in gone : a.team # t.id)
      BY <1>2, <3>0, WithoutTeamsRows
    <3>2. \E o \in orgs : o.id = m.org
      BY <3>1 DEF Referring
    <3>3. m.team = Null \/ \E t \in teams' : t.id = m.team
      BY <1>1, <3>1 DEF Referring
    <3> QED
      BY <3>2, <3>3
  <2>2. \A t \in teams' : \E o \in orgs : o.id = t.org
    BY <1>1 DEF Referring
  <2> QED
    BY <2>1, <2>2 DEF Referring
<1>6. \A l \in members' : \E m \in members : m.id = l.id
  BY <1>1, <1>2, WithoutTeamsRows
<1> QED
  BY <1>3, <1>4, <1>5, <1>6 DEF TablesKept

-----------------------------------------------------------------------------
(* Where requests stand.                                                   *)

InTransaction == {"insertOrg", "insertOwner", "commit", "rollback"}
HasSlug == {"insertOwner", "commit"}
Written == {"team", "reread", "done"}      \* a row of the request may be there
Statuses == {200, 201, 400, 403, 404, 500}

(* What has been read or checked before a write.                           *)
MayWrite(q, row) ==
    /\ q.op = "updateOrganization" => row \in OrgRow /\ q.with # Null
    /\ q.op = "updateTeam" => q.with # Null
    /\ q.op = "updateMember" => q.bare \/ q.with # Null

(* A request between two statements.                                       *)
Pending(r) ==
    /\ DOMAIN r = {"pc", "q", "tenant", "row", "wrote"}
    /\ r.q \in Asked
    /\ r.wrote \in BOOLEAN /\ (r.wrote = TRUE => r.pc \in Written)
    /\ r.pc \in {"existing", "insert"} => r.q.who \in Users
    /\ r.pc = "write" => MayWrite(r.q, r.row)
    /\ r.pc = "team" => r.row \in DOMAIN r.q.teams

RequestOK(r) ==
    /\ r.pc \in Places
    /\ r.pc = "done" => r.status \in Statuses
    /\ r.pc \notin {"unasked", "done"} => Pending(r)

(* A row has the number of a request that has inserted one.                *)
Numbered ==
    /\ \A o \in orgs : o.id = 0 \/ (o.id \in Requests /\ req[o.id].pc \in Written)
    /\ \A m \in members : \/ m.id \in {0, MaxRequests + 1}
                          \/ m.id \in Requests /\ req[m.id].pc \in Written

(* Requests in a transaction have slugs of their own, which nobody has.    *)
SlugsReserved ==
    \A n \in Requests : req[n].pc \in HasSlug =>
        /\ \A o \in orgs : o.slug # req[n].q.with
        /\ \A k \in Requests \ {n} : req[k].pc \in HasSlug => req[k].q.with # req[n].q.with

PoolOK == limit \in PoolSizes /\ free \in Nat /\ PoolAccounted

Inv ==
    /\ Typed /\ Keyed /\ Referring
    /\ DOMAIN req = Requests
    /\ \A n \in Requests : RequestOK(req[n])
    /\ Numbered
    /\ SlugsReserved
    /\ PoolOK

-----------------------------------------------------------------------------
(* What one step of a request does.                                        *)

Others(n) == DOMAIN req' = Requests /\ \A k \in Requests \ {n} : req'[k] = req[k]

PoolMoves(n) ==
    \/ free' = free /\ (req[n].pc \in InTransaction <=> req'[n].pc \in InTransaction)
    \/ /\ free > 0 /\ free' = free - 1
       /\ req[n].pc \notin InTransaction /\ req'[n].pc \in InTransaction
    \/ /\ free' = free + 1
       /\ req[n].pc \in InTransaction /\ req'[n].pc \notin InTransaction

SlugMoves(n) ==
    req'[n].pc \in HasSlug =>
        /\ req'[n].q = req[n].q
        /\ \/ req[n].pc \in HasSlug
           \/ IsSlugAvailable(req[n].q.with) /\ ~SlugLocked(n, req[n].q.with)

PlanMoves(n) ==
    \A o \in orgs, p \in orgs' :
       (o.id = p.id /\ o.plan = o.limits.of /\ p.plan # p.limits.of) =>
           /\ At(n, "updateOrganization", "write") /\ req[n].q.id = o.id
           /\ req[n].q.with \in BodyLimits \/ req[n].row.limits # o.limits

TablesMove(n) ==
    /\ Typed' /\ Keyed' /\ Referring'
    /\ \A p \in orgs' : \/ \E o \in orgs : o.id = p.id /\ o.slug = p.slug
                        \/ /\ p.id = n /\ p.slug = req[n].q.with
                           /\ req[n].pc = "commit" /\ req'[n].pc \in Written
    /\ \A l \in members' : \/ \E m \in members : m.id = l.id
                           \/ l.id = n /\ req'[n].pc \in Written
    /\ CreationIsAtomic
    /\ PlanMoves(n)

FailureIsExplained(n) ==
    (req[n].pc # "done" /\ req'[n].pc = "done" /\ req'[n].status = 500 /\ req'[n].wrote)
        => RowIsGone(n) \/ TeamIsMissing(n)

Moves(n) ==
    /\ Others(n)
    /\ RequestOK(req'[n])
    /\ req[n].pc \in Written => req'[n].pc \in Written
    /\ PoolMoves(n) /\ SlugMoves(n) /\ TablesMove(n) /\ FailureIsExplained(n)

(* A request goes on, or is answered.                                      *)
Becomes(n, pc, row) ==
    /\ Others(n)
    /\ DOMAIN req'[n] = {"pc", "q", "tenant", "row", "wrote"}
    /\ req'[n].pc = pc /\ req'[n].q = req[n].q /\ req'[n].row = row

Ends(n, status) ==
    /\ Others(n)
    /\ req'[n].pc = "done" /\ req'[n].q = req[n].q /\ req'[n].status = status

LEMMA GotoBecomes ==
    ASSUME DOMAIN req = Requests, NEW n \in Requests, Pending(req[n]), NEW pc, Goto(n, pc)
    PROVE  Becomes(n, pc, req[n].row) /\ req'[n].wrote = req[n].wrote
  BY DEF Goto, Pending, Becomes, Others

LEMMA HavingBecomes ==
    ASSUME DOMAIN req = Requests, NEW n \in Requests, Pending(req[n]), NEW pc, NEW row,
           Having(n, pc, row)
    PROVE  Becomes(n, pc, row) /\ req'[n].wrote = req[n].wrote
  BY DEF Having, Pending, Becomes, Others

LEMMA WroteBecomes ==
    ASSUME DOMAIN req = Requests, NEW n \in Requests, Pending(req[n]), NEW pc, Wrote(n, pc)
    PROVE  Becomes(n, pc, req[n].row) /\ req'[n].wrote = TRUE
  BY DEF Wrote, Pending, Becomes, Others

LEMMA AnswerEnds ==
    ASSUME DOMAIN req = Requests, NEW n \in Requests, NEW status, Answer(n, status)
    PROVE  Ends(n, status) /\ req'[n].wrote = req[n].wrote
  BY DEF Answer, Done, Ends, Others

LEMMA ListEnds ==
    ASSUME DOMAIN req = Requests, NEW n \in Requests, NEW list, List(n, list)
    PROVE  Ends(n, 200) /\ req'[n].wrote = FALSE
  BY DEF List, Done, Ends, Others

LEMMA AnswerWrittenEnds ==
    ASSUME DOMAIN req = Requests, NEW n \in Requests, NEW status, AnswerWritten(n, status)
    PROVE  Ends(n, status)
  BY DEF AnswerWritten, Done, Ends, Others

(* Statements that insert nothing create no organisation.                  *)
LEMMA KeptIsAtomic == TablesKept => CreationIsAtomic
  BY DEF TablesKept, CreationIsAtomic, GetOrganizationById, RowById

LEMMA NothingMoves ==
    ASSUME Typed, Keyed, Referring, UNCHANGED tables, NEW n
    PROVE  TablesMove(n)
<1>1. orgs' = orgs /\ teams' = teams /\ members' = members
  BY DEF tables
<1>2. TablesKept
  BY <1>1 DEF TablesKept, Typed, Keyed, Referring
<1>3. PlanMoves(n)
  BY <1>1 DEF Keyed, PlanMoves
<1> QED
  BY <1>2, <1>3, KeptIsAtomic DEF TablesKept, TablesMove

LEMMA RowsMove ==
    ASSUME Keyed, TablesKept, orgs' \subseteq orgs, NEW n
    PROVE  TablesMove(n)
<1>1. PlanMoves(n)
  BY DEF Keyed, PlanMoves
<1> QED
  BY <1>1, KeptIsAtomic DEF TablesKept, TablesMove

(* The two ways in which most steps of a request end.                      *)
LEMMA Goes ==
    ASSUME NEW n, Pending(req[n]), req[n].pc \notin InTransaction,
           NEW pc \in Places \ ({"unasked", "done"} \cup InTransaction), NEW row,
           Becomes(n, pc, row), req'[n].wrote \in BOOLEAN,
           TablesMove(n), free' = free,
           req[n].pc \in Written \/ req'[n].wrote = TRUE => pc \in Written,
           pc \in {"existing", "insert"} => req[n].q.who \in Users,
           pc = "write" => MayWrite(req[n].q, row),
           pc = "team" => row \in DOMAIN req[n].q.teams
    PROVE  Moves(n)
<1>1. Pending(req'[n])
  BY DEF Becomes, Pending
<1>2. RequestOK(req'[n])
  BY <1>1 DEF RequestOK, Becomes
<1>3. PoolMoves(n)
  BY DEF Becomes, PoolMoves
<1>4. SlugMoves(n) /\ FailureIsExplained(n)
  BY DEF Becomes, SlugMoves, FailureIsExplained, HasSlug, InTransaction
<1> QED
  BY <1>2, <1>3, <1>4 DEF Moves, Becomes

LEMMA IsAnswered ==
    ASSUME NEW n, Pending(req[n]), req[n].pc \notin InTransaction,
           NEW status \in Statuses, Ends(n, status),
           TablesMove(n), free' = free,
           status = 500 /\ req'[n].wrote => RowIsGone(n) \/ TeamIsMissing(n)
    PROVE  Moves(n)
<1>1. RequestOK(req'[n])
  BY DEF RequestOK, Ends, Places
<1>2. PoolMoves(n) /\ SlugMoves(n)
  BY DEF Ends, PoolMoves, SlugMoves, HasSlug, InTransaction
<1>3. FailureIsExplained(n)
  BY DEF Ends, FailureIsExplained
<1> QED
  BY <1>1, <1>2, <1>3 DEF Moves, Ends, Written

-----------------------------------------------------------------------------
(* The same in the words of the handlers.                                  *)

Working(n) == req[n].pc \notin {"unasked", "done"} \cup InTransaction
NotYetWritten(n) == Working(n) /\ req[n].pc \notin Written

LEMMA Underway ==
    ASSUME Inv, NEW n \in Requests, Working(n)
    PROVE  /\ DOMAIN req = Requests /\ Pending(req[n])
           /\ req[n].q \in Asked /\ req[n].wrote \in BOOLEAN
           /\ req[n].pc \notin Written => req[n].wrote = FALSE
           /\ UNCHANGED tables => TablesMove(n)
<1>1. Pending(req[n])
  BY DEF Inv, RequestOK, Working
<1>2. UNCHANGED tables => TablesMove(n)
  BY NothingMoves DEF Inv
<1> QED
  BY <1>1, <1>2 DEF Inv, Pending

LEMMA Refuses ==
    ASSUME Inv, NEW n \in Requests, NotYetWritten(n), NEW status \in Statuses,
           Answer(n, status), UNCHANGED <<tables, free>>
    PROVE  Moves(n)
<1>1. /\ DOMAIN req = Requests /\ Pending(req[n]) /\ req[n].wrote = FALSE /\ TablesMove(n)
  BY Underway DEF NotYetWritten
<1>2. Ends(n, status) /\ req'[n].wrote = FALSE
  BY <1>1, AnswerEnds
<1> QED
  BY <1>1, <1>2, IsAnswered DEF NotYetWritten, Working

LEMMA Lists ==
    ASSUME Inv, NEW n \in Requests, NotYetWritten(n), NEW list, List(n, list),
           UNCHANGED <<tables, free>>
    PROVE  Moves(n)
<1>1. /\ DOMAIN req = Requests /\ Pending(req[n]) /\ TablesMove(n)
  BY Underway DEF NotYetWritten
<1>2. Ends(n, 200) /\ 200 \in Statuses
  BY <1>1, ListEnds DEF Statuses
<1> QED
  BY <1>1, <1>2, IsAnswered DEF NotYetWritten, Working

LEMMA GoesOn ==
    ASSUME Inv, NEW n \in Requests, NotYetWritten(n),
           NEW pc \in Places \ ({"unasked", "done", "team"} \cup InTransaction),
           NEW row, Having(n, pc, row) \/ (Goto(n, pc) /\ row = req[n].row),
           pc \in {"existing", "insert"} => req[n].q.who \in Users,
           pc = "write" => MayWrite(req[n].q, row),
           UNCHANGED <<tables, free>>
    PROVE  Moves(n)
<1>1. /\ DOMAIN req = Requests /\ Pending(req[n]) /\ req[n].wrote = FALSE /\ TablesMove(n)
  BY Underway DEF NotYetWritten
<1>2. Becomes(n, pc, row) /\ req'[n].wrote = FALSE
  BY <1>1, GotoBecomes, HavingBecomes
<1> QED
  BY <1>1, <1>2, Goes DEF NotYetWritten, Working

LEMMA Writes ==
    ASSUME Inv, NEW n \in Requests, NotYetWritten(n), TablesMove(n), free' = free,
           \/ Goto(n, "reread") \/ Wrote(n, "reread") \/ AnswerWritten(n, 200)
    PROVE  Moves(n)
<1>1. /\ DOMAIN req = Requests /\ Pending(req[n]) /\ req[n].wrote = FALSE
  BY Underway DEF NotYetWritten
<1>2. CASE Goto(n, "reread") \/ Wrote(n, "reread")
  <2>1. Becomes(n, "reread", req[n].row) /\ req'[n].wrote \in BOOLEAN
    BY <1>1, <1>2, GotoBecomes, WroteBecomes
  <2>2. /\ "reread" \in Places \ ({"unasked", "done"} \cup InTransaction)
        /\ "reread" \in Written
    BY DEF Places, InTransaction, Written
  <2> QED
    BY <1>1, <2>1, <2>2, Goes DEF NotYetWritten, Working
<1>3. CASE AnswerWritten(n, 200)
  <2>1. Ends(n, 200) /\ 200 \in Statuses
    BY <1>1, <1>3, AnswerWrittenEnds DEF Statuses
  <2> QED
    BY <1>1, <2>1, IsAnswered DEF NotYetWritten, Working
<1> QED
  BY <1>2, <1>3

LEMMA Rereads ==
    ASSUME Inv, NEW n \in Requests, req[n].pc = "reread",
           NEW rows, NEW status \in {200, 201}, Reread(n, rows, status),
           rows = {} => RowIsGone(n)
    PROVE  Moves(n)
<1>1. Working(n)
  BY DEF Working, InTransaction
<1>2. /\ DOMAIN req = Requests /\ Pending(req[n])
  BY <1>1, Underway
<1>3. TablesMove(n) /\ free' = free
  BY <1>1, Underway DEF Reread, Statement
<1>4. PICK code \in Statuses : Ends(n, code) /\ (code = 500 => rows = {})
  <2>1. Answer(n, IF rows = {} THEN 500 ELSE status)
    BY DEF Reread
  <2>2. (IF rows = {} THEN 500 ELSE status) \in Statuses
    BY DEF Statuses
  <2> QED
    BY <1>2, <2>1, <2>2, AnswerEnds
<1>5. code = 500 => RowIsGone(n) \/ TeamIsMissing(n)
  BY <1>4
<1> QED
  BY <1>1, <1>2, <1>3, <1>4, <1>5, IsAnswered DEF Working

(* The places that a handler starts with.                                  *)
LEMMA StartPlaces ==
    ASSUME NEW op
    PROVE  /\ Start(op) \in {"slug", "read", "find", "user", "write", "list"}
           /\ Start(op) = "write" => op \notin {"updateOrganization", "updateTeam", "updateMember"}
  BY DEF Start

LEMMA Starts ==
    ASSUME NEW q, NEW row
    PROVE  /\ \A pc \in {Start(q.op), AfterTenant(q.op)} :
                 /\ pc \in Places \ ({"unasked", "done", "team"} \cup InTransaction)
                 /\ pc \notin {"existing", "insert"}
                 /\ pc = "write" => MayWrite(q, row)
<1> DEFINE op == q.op
<1>1. /\ Start(op) \in {"slug", "read", "find", "user", "write", "list"}
      /\ Start(op) = "write" => MayWrite(q, row)
  BY StartPlaces DEF MayWrite
<1>2. AfterTenant(op) \in {Start(op), "right"}
  BY DEF AfterTenant
<1> HIDE DEF op
<1>3. \A pc \in {Start(op), AfterTenant(op)} :
         /\ pc \in Places \ ({"unasked", "done", "team"} \cup InTransaction)
         /\ pc \notin {"existing", "insert"}
         /\ pc = "write" => MayWrite(q, row)
  BY <1>1, <1>2 DEF Places, InTransaction
<1> QED
  BY <1>3 DEF op

-----------------------------------------------------------------------------
(* The middleware.                                                         *)

LEMMA BeginMoves ==
    ASSUME Inv, NEW n \in Requests, NEW q \in Asked, Begin(n, q)
    PROVE  Moves(n)
<1> DEFINE pc == IF q.op \in WithoutTenant THEN Start(q.op) ELSE "header"
           r == [pc |-> pc, q |-> q, tenant |-> Null, row |-> Null, wrote |-> FALSE]
<1>1. /\ req' = [req EXCEPT ![n] = r] /\ req[n].pc = "unasked"
      /\ UNCHANGED tables /\ free' = free
  BY DEF Begin
<1>2. /\ pc \in Places \ ({"unasked", "done", "team"} \cup InTransaction)
      /\ pc \notin {"existing", "insert"}
      /\ pc = "write" => MayWrite(q, Null)
  BY Starts DEF Places, InTransaction
<1>3. r.pc = pc /\ r.q = q /\ r.row = Null /\ r.wrote = FALSE
  OBVIOUS
<1>4. DOMAIN r = {"pc", "q", "tenant", "row", "wrote"}
  OBVIOUS
<1> HIDE DEF pc, r
<1>5. req'[n] = r /\ Others(n)
  BY <1>1 DEF Inv, Others
<1>6. RequestOK(r)
  BY <1>2, <1>3, <1>4 DEF RequestOK, Pending, InTransaction
<1>7. TablesMove(n)
  BY <1>1, NothingMoves DEF Inv
<1>8. PoolMoves(n) /\ SlugMoves(n) /\ FailureIsExplained(n)
  BY <1>1, <1>2, <1>3, <1>5
     DEF PoolMoves, SlugMoves, FailureIsExplained, InTransaction, HasSlug
<1> QED
  BY <1>1, <1>5, <1>6, <1>7, <1>8 DEF Moves, Written

LEMMA ExtractTenantMoves ==
    ASSUME Inv, NEW n \in Requests, ExtractTenant(n)
    PROVE  Moves(n)
<1>1. /\ req[n].pc \in {"header", "subdomain", "default", "member"} /\ NotYetWritten(n)
      /\ UNCHANGED tables
  BY DEF ExtractTenant, NotYetWritten, Working, InTransaction, Written
<1>2. free' = free
  BY DEF ExtractTenant, Statement
<1>3. ASSUME NEW pc, Goto(n, pc), pc \in {"subdomain", "default", AfterTenant(req[n].q.op)}
      PROVE  Moves(n)
  <2>1. /\ pc \in Places \ ({"unasked", "done", "team"} \cup InTransaction)
        /\ pc \notin {"existing", "insert"}
        /\ pc = "write" => MayWrite(req[n].q, req[n].row)
    BY <1>3, Starts DEF Places, InTransaction
  <2> QED
    BY <1>1, <1>2, <1>3, <2>1, GoesOn
<1>4. ASSUME NEW status \in {400, 403}, Answer(n, status) PROVE Moves(n)
  BY <1>1, <1>2, <1>4, Refuses DEF Statuses
<1>5. ASSUME NEW found, found # {}, NEW otherwise, Tenant(n, found, otherwise) PROVE Moves(n)
  <2>1. /\ DOMAIN req = Requests /\ Pending(req[n]) /\ req[n].wrote = FALSE /\ TablesMove(n)
    BY <1>1, Underway DEF NotYetWritten
  <2>2. PICK t : req' = [req EXCEPT ![n].pc = "member", ![n].tenant = t]
    BY <1>5 DEF Tenant
  <2>3. Becomes(n, "member", req[n].row) /\ req'[n].wrote = FALSE
    BY <2>1, <2>2 DEF Becomes, Others, Pending
  <2> QED
    BY <1>1, <1>2, <2>1, <2>3, Goes DEF NotYetWritten, Working, Places, InTransaction
<1>6. ASSUME NEW found, NEW otherwise \in {"subdomain", "default"}, Tenant(n, found, otherwise)
      PROVE  Moves(n)
  <2>1. CASE found = {}
    BY <1>3, <1>6, <2>1 DEF Tenant
  <2> QED
    BY <1>5, <1>6, <2>1
<1> QED
  BY <1>3, <1>4, <1>6 DEF ExtractTenant

LEMMA CheckMoves ==
    ASSUME Inv, NEW n \in Requests, NEW allowed, Check(n, allowed)
    PROVE  Moves(n)
<1>1. NotYetWritten(n) /\ UNCHANGED <<tables, free>>
  BY DEF Check, Statement, NotYetWritten, Working, InTransaction, Written
<1>2. CASE Goto(n, Start(req[n].q.op))
  BY <1>1, <1>2, GoesOn, Starts
<1>3. CASE Answer(n, 403)
  BY <1>1, <1>3, Refuses DEF Statuses
<1> QED
  BY <1>2, <1>3 DEF Check

-----------------------------------------------------------------------------
(* Organisations.                                                          *)

LEMMA CommitMovesTables ==
    ASSUME Inv, NEW n \in Requests, req[n].pc = "commit", req'[n].pc \in Written,
           CommitCreation(n, req[n].q.with, req[n].q.by),
           req[n].q.with \in Slugs, req[n].q.by \in Users
    PROVE  TablesMove(n)
<1> DEFINE slug == req[n].q.with
           owner == req[n].q.by
           o0 == NewOrganization(n, slug)
           m0 == NewOwner(n, owner)
<1>1. orgs' = orgs \cup {o0} /\ members' = members \cup {m0} /\ teams' = teams
  BY DEF CommitCreation
<1>2. n \in Ids /\ n # 0 /\ n # MaxRequests + 1
  BY RequestsAssumption DEF Requests, Ids
<1>3. /\ o0 \in OrgRow /\ o0.id = n /\ o0.slug = slug /\ o0.plan = o0.limits.of
  BY <1>2 DEF NewOrganization, OrgRow, Themes, SUBSCRIPTION_PLANS, Limits, BodyLimits
<1>4. /\ m0 \in MemberRow /\ m0.id = n /\ m0.org = n /\ m0.team = Null
      /\ m0.role = "owner" /\ m0.status = "active"
  BY <1>2 DEF NewOwner, MemberRow, Roles, ROLE_PERMISSIONS, FounderPermissions, Permission
<1>5. /\ \A o \in orgs : o.id # n /\ o.slug # slug
      /\ \A m \in members : m.id # n /\ m.org # n
  <2>1. \A o \in orgs : o.id # n
    BY <1>2 DEF Inv, Numbered, Written
  <2>2. \A m \in members : m.id # n
    BY <1>2 DEF Inv, Numbered, Written
  <2>3. \A o \in orgs : o.slug # slug
    BY DEF Inv, SlugsReserved, HasSlug
  <2>4. \A m \in members : m.org # n
    BY <2>1 DEF Inv, Referring
  <2> QED
    BY <2>1, <2>2, <2>3, <2>4
<1> HIDE DEF o0, m0
<1>6. Typed'
  BY <1>1, <1>3, <1>4 DEF Inv, Typed
<1>7. Keyed'
  <2>1. \A o, p \in orgs' : o.id = p.id \/ o.slug = p.slug => o = p
    BY <1>1, <1>3, <1>5 DEF Inv, Keyed
  <2>2. \A m, l \in members' : m.id = l.id \/ (m.user = l.user /\ m.org = l.org) => m = l
    BY <1>1, <1>4, <1>5 DEF Inv, Keyed
  <2> QED
    BY <2>1, <2>2 DEF Keyed
<1>8. Referring'
  BY <1>1, <1>3, <1>4 DEF Inv, Referring
<1>9. CreationIsAtomic
  <2>1. ASSUME NEW o \in orgs', GetOrganizationById(o.id) = {}
        PROVE  m0 \in members' /\ m0.org = o.id
    BY <1>1, <1>3, <1>4, <2>1 DEF GetOrganizationById, RowById
  <2> QED
    BY <1>4, <2>1 DEF CreationIsAtomic
<1>10. PlanMoves(n)
  BY <1>1, <1>3, <1>5 DEF PlanMoves, Inv, Keyed
<1> QED
  BY <1>1, <1>3, <1>4, <1>6, <1>7, <1>8, <1>9, <1>10 DEF TablesMove

(* Inside the transaction a request moves with its connection.             *)
LEMMA Transacts ==
    ASSUME Inv, NEW n \in Requests, req[n].pc \notin {"unasked", "done"} \cup Written,
           NEW pc \in InTransaction, Goto(n, pc), UNCHANGED tables,
           PoolMoves(n), SlugMoves(n)
    PROVE  Moves(n)
<1>1. Pending(req[n]) /\ DOMAIN req = Requests /\ req[n].wrote = FALSE
  BY DEF Inv, RequestOK, Pending
<1>2. Becomes(n, pc, req[n].row) /\ req'[n].wrote = FALSE
  BY <1>1, GotoBecomes
<1>3. pc \in Places \ ({"unasked", "done", "existing", "insert", "write", "team"})
  BY DEF InTransaction, Places
<1>4. RequestOK(req'[n])
  BY <1>1, <1>2, <1>3 DEF RequestOK, Pending, Becomes
<1>5. TablesMove(n)
  BY NothingMoves DEF Inv
<1>6. FailureIsExplained(n)
  BY <1>2, <1>3 DEF FailureIsExplained, Becomes
<1> QED
  BY <1>2, <1>4, <1>5, <1>6 DEF Moves, Becomes

(* A request with a place in its handler.                                  *)
LEMMA AtPlace ==
    ASSUME Inv, NEW n \in Requests, NEW op, NEW pc, At(n, op, pc),
           pc \notin {"unasked", "done"}
    PROVE  /\ req[n].pc = pc /\ req[n].q.op = op /\ Pending(req[n]) /\ DOMAIN req = Requests
           /\ req[n].q \in Asked /\ req[n].q.by \in Users /\ Asks(req[n].q)
           /\ pc \notin InTransaction => Working(n)
           /\ pc \notin InTransaction \cup Written => NotYetWritten(n)
<1>1. req[n].pc = pc /\ req[n].q.op = op
  BY DEF At
<1>2. Pending(req[n]) /\ DOMAIN req = Requests
  BY <1>1 DEF Inv, RequestOK
<1>3. req[n].q \in Asked
  BY <1>2 DEF Pending
<1>4. req[n].q.by \in Users /\ Asks(req[n].q)
  BY <1>3, AskedAssumption
<1> QED
  BY <1>1, <1>2, <1>3, <1>4 DEF Working, NotYetWritten

LEMMA CreateOrganizationMoves ==
    ASSUME Inv, NEW n \in Requests, CreateOrganization(n)
    PROVE  Moves(n)
<1> DEFINE q == req[n].q
           On(pc) == At(n, "createOrganization", pc)
<1>1. CASE /\ On("slug") /\ Statement /\ UNCHANGED tables
           /\ IF IsSlugAvailable(q.with) THEN Goto(n, "connect") ELSE Answer(n, 400)
  <2>1. NotYetWritten(n) /\ UNCHANGED <<tables, free>>
    BY <1>1, AtPlace DEF InTransaction, Written, Statement
  <2>2. CASE Goto(n, "connect")
    BY <2>1, <2>2, GoesOn DEF Places, InTransaction
  <2>3. CASE Answer(n, 400)
    BY <2>1, <2>3, Refuses DEF Statuses
  <2> QED
    BY <1>1, <2>2, <2>3
<1>2. CASE /\ On("connect") /\ free > 0 /\ free' = free - 1
           /\ Goto(n, "insertOrg") /\ UNCHANGED tables
  <2>1. req[n].pc = "connect" /\ Pending(req[n]) /\ DOMAIN req = Requests
    BY <1>2, AtPlace
  <2>2. req'[n].pc = "insertOrg"
    BY <1>2, <2>1, GotoBecomes DEF Becomes
  <2>3. PoolMoves(n) /\ SlugMoves(n)
    BY <1>2, <2>1, <2>2 DEF PoolMoves, SlugMoves, InTransaction, HasSlug
  <2> QED
    BY <1>2, <2>1, <2>3, Transacts DEF InTransaction, Written
<1>3. CASE /\ On("insertOrg") /\ ~SlugLocked(n, q.with) /\ UNCHANGED <<tables, free>>
           /\ Goto(n, IF IsSlugAvailable(q.with) THEN "insertOwner" ELSE "rollback")
  <2> DEFINE pc == IF IsSlugAvailable(q.with) THEN "insertOwner" ELSE "rollback"
  <2>1. req[n].pc = "insertOrg" /\ Pending(req[n]) /\ DOMAIN req = Requests
    BY <1>3, AtPlace
  <2>2. /\ pc \in {"insertOwner", "rollback"}
        /\ pc = "insertOwner" => IsSlugAvailable(q.with)
    OBVIOUS
  <2>3. Goto(n, pc)
    BY <1>3
  <2> HIDE DEF pc
  <2>4. req'[n].pc = pc /\ req'[n].q = q
    BY <2>1, <2>3, GotoBecomes DEF Becomes
  <2>5. PoolMoves(n) /\ SlugMoves(n)
    BY <1>3, <2>1, <2>2, <2>4 DEF PoolMoves, SlugMoves, InTransaction, HasSlug
  <2> QED
    BY <1>3, <2>1, <2>2, <2>3, <2>5, Transacts DEF InTransaction, Written
<1>4. CASE On("insertOwner") /\ Goto(n, "commit") /\ UNCHANGED <<tables, free>>
  <2>1. req[n].pc = "insertOwner" /\ Pending(req[n]) /\ DOMAIN req = Requests
    BY <1>4, AtPlace
  <2>2. req'[n].pc = "commit" /\ req'[n].q = q
    BY <1>4, <2>1, GotoBecomes DEF Becomes
  <2>3. PoolMoves(n) /\ SlugMoves(n)
    BY <1>4, <2>1, <2>2 DEF PoolMoves, SlugMoves, InTransaction, HasSlug
  <2> QED
    BY <1>4, <2>1, <2>3, Transacts DEF InTransaction, Written
<1>5. CASE /\ On("commit") /\ CommitCreation(n, q.with, q.by) /\ ReleaseCommitted
           /\ Wrote(n, "reread")
  <2>1. /\ req[n].pc = "commit" /\ Pending(req[n]) /\ DOMAIN req = Requests
        /\ q.by \in Users /\ q.with \in Slugs
    BY <1>5, AtPlace DEF Asks
  <2>2. Becomes(n, "reread", req[n].row) /\ req'[n].wrote = TRUE
    BY <1>5, <2>1, WroteBecomes
  <2>3. "reread" \in Written /\ "reread" \in Places \ InTransaction
    BY DEF Written, Places, InTransaction
  <2>4. RequestOK(req'[n])
    BY <2>1, <2>2, <2>3 DEF RequestOK, Pending, Becomes
  <2>5. TablesMove(n)
    BY <1>5, <2>1, <2>2, <2>3, CommitMovesTables DEF Becomes
  <2>6. PoolMoves(n) /\ SlugMoves(n) /\ FailureIsExplained(n)
    BY <1>5, <2>1, <2>2, <2>3
       DEF Becomes, PoolMoves, SlugMoves, FailureIsExplained, HasSlug, InTransaction,
           ReleaseCommitted, Release
  <2> QED
    BY <2>2, <2>3, <2>4, <2>5, <2>6 DEF Moves, Becomes
<1>6. CASE On("rollback") /\ Release /\ Fails(n)
  <2>1. req[n].pc = "rollback" /\ Pending(req[n]) /\ DOMAIN req = Requests
    BY <1>6, AtPlace
  <2>2. Ends(n, 500) /\ req'[n].wrote = FALSE /\ UNCHANGED tables
    BY <1>6, <2>1, AnswerEnds DEF Fails, Pending, Written
  <2>3. RequestOK(req'[n]) /\ TablesMove(n)
    BY <2>2, NothingMoves DEF RequestOK, Ends, Places, Statuses, Inv
  <2>4. PoolMoves(n) /\ SlugMoves(n) /\ FailureIsExplained(n)
    BY <1>6, <2>1, <2>2
       DEF Ends, PoolMoves, SlugMoves, FailureIsExplained, HasSlug, InTransaction, Release
  <2> QED
    BY <2>2, <2>3, <2>4 DEF Moves, Ends, Written
<1>7. CASE On("reread") /\ Reread(n, GetOrganizationById(n), 201)
  BY <1>7, Rereads DEF At, RowIsGone, GetOrganizationById
<1> QED
  BY <1>1, <1>2, <1>3, <1>4, <1>5, <1>6, <1>7 DEF CreateOrganization

LEMMA UpdateOrganizationMoves ==
    ASSUME Inv, NEW n \in Requests, UpdateOrganization(n)
    PROVE  Moves(n)
<1> DEFINE q == req[n].q
           row == req[n].row
           rows == GetOrganizationById(q.id)
           On(pc) == At(n, "updateOrganization", pc)
<1>1. CASE /\ On("read") /\ Statement /\ UNCHANGED tables
           /\ CASE rows = {} -> Answer(n, 500)
                [] rows # {} /\ q.with = Null -> Answer(n, 200)
                [] OTHER -> \E o \in rows : Having(n, "write", o)
  <2>1. /\ NotYetWritten(n) /\ UNCHANGED <<tables, free>>
        /\ q.op = "updateOrganization"
    BY <1>1, AtPlace DEF InTransaction, Written, Statement
  <2>2. CASE \E status \in {200, 500} : Answer(n, status)
    BY <2>1, <2>2, Refuses DEF Statuses
  <2>3. ASSUME q.with # Null, NEW o \in rows, Having(n, "write", o) PROVE Moves(n)
    <3>1. MayWrite(q, o)
      BY <2>1, <2>3 DEF MayWrite, GetOrganizationById, RowById, Inv, Typed
    <3>2. "write" \in Places \ ({"unasked", "done", "team"} \cup InTransaction)
      BY DEF Places, InTransaction
    <3> QED
      BY <2>1, <2>3, <3>1, <3>2, GoesOn
  <2> QED
    BY <1>1, <2>2, <2>3
<1>2. CASE /\ On("write") /\ Statement /\ UNCHANGED <<teams, members>>
           /\ IF q.with = "name" THEN UNCHANGED orgs ELSE WriteSettings(q.id, row, q.with)
           /\ IF rows = {} THEN Goto(n, "reread") ELSE Wrote(n, "reread")
  <2>1. /\ NotYetWritten(n) /\ free' = free
        /\ row \in OrgRow /\ q.with \in Themes \cup BodyLimits \cup {"name"}
    <3>1. /\ NotYetWritten(n) /\ Pending(req[n]) /\ Asks(q)
          /\ req[n].pc = "write" /\ q.op = "updateOrganization"
      BY <1>2, AtPlace DEF InTransaction, Written
    <3>2. row \in OrgRow /\ q.with # Null
      BY <3>1 DEF Pending, MayWrite
    <3>3. q.with \in {Null, "name"} \cup Themes \cup BodyLimits
      BY <3>1 DEF Asks
    <3> QED
      BY <1>2, <3>1, <3>2, <3>3 DEF Statement
  <2>2. ASSUME UNCHANGED orgs PROVE TablesMove(n)
    BY <1>2, <2>2, NothingMoves DEF Inv, tables
  <2>3. ASSUME WriteSettings(q.id, row, q.with), q.with # "name" PROVE TablesMove(n)
    <3>1. TablesKept
      BY <1>2, <2>1, <2>3, WriteSettingsKeeps DEF Inv
    <3>2. ASSUME NEW o \in orgs, NEW p \in orgs', o.id = p.id,
                 o.plan = o.limits.of, p.plan # p.limits.of
          PROVE  q.id = o.id /\ (q.with \in BodyLimits \/ row.limits # o.limits)
      <4>1. PICK a \in orgs : p = IF a \in RowById(orgs, q.id)
                                  THEN [a EXCEPT !.theme = Merged(row, q.with).theme,
                                                 !.limits = Merged(row, q.with).limits]
                                  ELSE a
        BY <2>3 DEF WriteSettings, Update
      <4>2. a \in OrgRow
        BY DEF Inv, Typed
      <4>3. p.id = a.id /\ p.plan = a.plan
        BY <4>1, <4>2 DEF OrgRow
      <4>4. a = o
        BY <3>2, <4>3 DEF Inv, Keyed
      <4>5. o \in RowById(orgs, q.id)
        BY <3>2, <4>1, <4>4
      <4>6. q.with \notin BodyLimits => p.limits = row.limits
        <5>1. p.limits = Merged(row, q.with).limits
          BY <4>1, <4>2, <4>4, <4>5 DEF OrgRow
        <5> QED
          BY <5>1 DEF Merged
      <4> QED
        BY <3>2, <4>3, <4>4, <4>5, <4>6 DEF RowById
    <3>3. PlanMoves(n)
      BY <1>2, <3>2 DEF PlanMoves
    <3> QED
      BY <3>1, <3>3, KeptIsAtomic DEF TablesKept, TablesMove
  <2>4. TablesMove(n)
    BY <1>2, <2>2, <2>3
  <2> QED
    BY <1>2, <2>1, <2>4, Writes
<1>3. CASE On("reread") /\ Reread(n, rows, 200)
  BY <1>3, Rereads DEF At, RowIsGone, GetOrganizationById
<1> QED
  BY <1>1, <1>2, <1>3 DEF UpdateOrganization

LEMMA UpdateSubscriptionMoves ==
    ASSUME Inv, NEW n \in Requests, UpdateSubscription(n)
    PROVE  Moves(n)
<1> DEFINE q == req[n].q
           plan == q.with
           rows == GetOrganizationById(q.id)
           On(pc) == At(n, "updateSubscription", pc)
<1>1. CASE On("write") /\ Fails(n) /\ UNCHANGED free
  BY <1>1, AtPlace, Refuses DEF InTransaction, Written, Fails, Statuses
<1>2. CASE /\ On("write") /\ plan \in SUBSCRIPTION_PLANS /\ Statement
           /\ WriteSubscription(q.id, plan) /\ UNCHANGED <<teams, members>>
           /\ IF rows = {} THEN Goto(n, "reread") ELSE Wrote(n, "reread")
  <2>1. NotYetWritten(n) /\ free' = free
    BY <1>2, AtPlace DEF InTransaction, Written, Statement
  <2>2. TablesKept
    BY <1>2, WriteSubscriptionKeeps DEF Inv
  <2>3. ASSUME NEW o \in orgs, NEW p \in orgs', o.id = p.id, o.plan = o.limits.of
        PROVE  p.plan = p.limits.of
    <3>1. PICK a \in orgs : p = IF a \in RowById(orgs, q.id)
                                THEN [a EXCEPT !.plan = plan,
                                               !.limits = [of |-> plan, as |-> "text"]]
                                ELSE a
      BY <1>2 DEF WriteSubscription, Update
    <3>2. a \in OrgRow
      BY DEF Inv, Typed
    <3>3. p.id = a.id
      BY <3>1, <3>2 DEF OrgRow
    <3>4. a = o
      BY <2>3, <3>3 DEF Inv, Keyed
    <3>5. CASE a \in RowById(orgs, q.id)
      BY <3>1, <3>2, <3>5 DEF OrgRow
    <3> QED
      BY <2>3, <3>1, <3>4, <3>5
  <2>4. PlanMoves(n)
    BY <2>3 DEF PlanMoves
  <2>5. TablesMove(n)
    BY <2>2, <2>4, KeptIsAtomic DEF TablesKept, TablesMove
  <2> QED
    BY <1>2, <2>1, <2>5, Writes
<1>3. CASE On("reread") /\ Reread(n, rows, 200)
  BY <1>3, Rereads DEF At, RowIsGone, GetOrganizationById
<1> QED
  BY <1>1, <1>2, <1>3 DEF UpdateSubscription

LEMMA OrganizationListsMove ==
    ASSUME Inv, NEW n \in Requests,
           GetOrganization(n) \/ ListUserOrganizations(n) \/ GetMembers(n)
    PROVE  Moves(n)
<1>1. \E op : At(n, op, "list")
  BY DEF GetOrganization, ListUserOrganizations, GetMembers
<1>2. NotYetWritten(n)
  BY <1>1, AtPlace DEF InTransaction, Written
<1>3. UNCHANGED <<tables, free>>
  BY DEF GetOrganization, ListUserOrganizations, GetMembers, Statement
<1>4. Answer(n, 404) \/ \E list : List(n, list)
  BY DEF GetOrganization, ListUserOrganizations, GetMembers
<1> QED
  BY <1>2, <1>3, <1>4, Refuses, Lists DEF Statuses

LEMMA DeleteOrganizationMoves ==
    ASSUME Inv, NEW n \in Requests, DeleteOrganizationAndAnswer(n)
    PROVE  Moves(n)
<1>1. NotYetWritten(n) /\ free' = free
  BY AtPlace DEF DeleteOrganizationAndAnswer, InTransaction, Written, Statement
<1>2. TablesKept
  BY DeleteOrganizationKeeps DEF Inv, DeleteOrganizationAndAnswer
<1>3. orgs' \subseteq orgs
  BY DEF DeleteOrganizationAndAnswer, DeleteOrganization
<1>4. TablesMove(n)
  BY <1>2, <1>3, RowsMove DEF Inv
<1> QED
  BY <1>1, <1>4, Writes DEF DeleteOrganizationAndAnswer

-----------------------------------------------------------------------------
(* Members.                                                                *)

LEMMA InsertMemberMovesTables ==
    ASSUME Inv, NEW n \in Requests, req[n].pc \notin Written, req'[n].pc \in Written,
           NEW row, MayInsertMember(row), row.id = n, row.team = Null,
           row.org \in Ids => row \in MemberRow,
           members' = members \cup {row}, UNCHANGED <<orgs, teams>>
    PROVE  TablesMove(n)
<1>1. /\ \A m \in members : ~ (m.user = row.user /\ m.org = row.org)
      /\ \E o \in orgs : o.id = row.org
  BY DEF MayInsertMember, GetMembershipByUserAndOrg, GetOrganizationById, RowById
<1>2. row \in MemberRow
  BY <1>1 DEF Inv, Typed, OrgRow
<1>3. \A m \in members : m.id # n
  BY RequestsAssumption DEF Inv, Numbered, Requests
<1>4. Typed' /\ Keyed'
  BY <1>1, <1>2, <1>3 DEF Inv, Typed, Keyed
<1>5. Referring'
  BY <1>1 DEF Inv, Referring
<1>6. CreationIsAtomic
  BY DEF CreationIsAtomic, GetOrganizationById, RowById
<1>7. PlanMoves(n)
  BY DEF PlanMoves, Inv, Keyed
<1> QED
  BY <1>4, <1>5, <1>6, <1>7 DEF TablesMove

LEMMA InviteMemberMoves ==
    ASSUME Inv, NEW n \in Requests, InviteMember(n)
    PROVE  Moves(n)
<1> DEFINE q == req[n].q
           On(pc) == At(n, "inviteMember", pc)
           row == Invitation(n, q.who, q.id, q.with)
           AfterTeam(i) == IF i < Len(q.teams) THEN "team" ELSE "reread"
<1>1. CASE /\ On("user") /\ Statement /\ UNCHANGED tables
           /\ IF q.who \in Users THEN Goto(n, "existing") ELSE Answer(n, 500)
  <2>1. NotYetWritten(n) /\ UNCHANGED <<tables, free>>
    BY <1>1, AtPlace DEF InTransaction, Written, Statement
  <2>2. CASE q.who \in Users /\ Goto(n, "existing")
    BY <2>1, <2>2, GoesOn DEF Places, InTransaction
  <2>3. CASE Answer(n, 500)
    BY <2>1, <2>3, Refuses DEF Statuses
  <2> QED
    BY <1>1, <2>2, <2>3
<1>2. CASE /\ On("existing") /\ Statement /\ UNCHANGED tables
           /\ IF GetMembershipByUserAndOrg(q.who, q.id) = {} THEN Goto(n, "insert")
              ELSE Answer(n, 500)
  <2>1. NotYetWritten(n) /\ UNCHANGED <<tables, free>> /\ q.who \in Users
    <3>1. NotYetWritten(n) /\ Pending(req[n]) /\ req[n].pc = "existing"
      BY <1>2, AtPlace DEF InTransaction, Written
    <3> QED
      BY <1>2, <3>1 DEF Statement, Pending
  <2>2. CASE Goto(n, "insert")
    BY <2>1, <2>2, GoesOn DEF Places, InTransaction
  <2>3. CASE Answer(n, 500)
    BY <2>1, <2>3, Refuses DEF Statuses
  <2> QED
    BY <1>2, <2>2, <2>3
<1>3. \A i \in Nat : /\ AfterTeam(i) \in {"team", "reread"}
                     /\ AfterTeam(i) = "team" => i + 1 \in 1 .. Len(q.teams)
  <2> TAKE i \in Nat
  <2> QED
    OBVIOUS
<1>4. CASE On("insert") /\ Statement /\ MayInsertMember(row)
           /\ members' = members \cup {row} /\ UNCHANGED <<orgs, teams>>
           /\ req' = [req EXCEPT ![n].pc = AfterTeam(0), ![n].row = 1, ![n].wrote = TRUE]
  <2>1. /\ req[n].pc = "insert" /\ NotYetWritten(n) /\ free' = free /\ Pending(req[n])
        /\ DOMAIN req = Requests /\ q.who \in Users /\ q.with \in Roles
    <3>1. /\ NotYetWritten(n) /\ Pending(req[n]) /\ Asks(q) /\ DOMAIN req = Requests
          /\ req[n].pc = "insert" /\ q.op = "inviteMember"
      BY <1>4, AtPlace DEF InTransaction, Written
    <3>2. q.with \in Roles
      BY <3>1 DEF Asks
    <3> QED
      BY <1>4, <3>1, <3>2 DEF Statement, Pending
  <2>2. q.teams \in Seq(Nat)
    BY <2>1, AskedAssumption DEF Pending
  <2>3. PICK pc : pc = AfterTeam(0)
    OBVIOUS
  <2>4. pc \in {"team", "reread"} /\ (pc = "team" => 1 \in DOMAIN q.teams)
    BY <1>3, <2>2, <2>3
  <2>5. Becomes(n, pc, 1) /\ req'[n].wrote = TRUE
    BY <1>4, <2>1, <2>3 DEF Becomes, Others, Pending
  <2>6. TablesMove(n)
    <3>1. /\ row.id = n /\ row.team = Null
          /\ row.org \in Ids => row \in MemberRow
      <4>1. n \in Ids
        BY RequestsAssumption DEF Requests, Ids
      <4>2. ROLE_PERMISSIONS[q.with] \in SUBSET Permission
        BY <2>1 DEF Roles, ROLE_PERMISSIONS, Permission
      <4> QED
        BY <2>1, <4>1, <4>2 DEF Invitation, MemberRow
    <3>2. req[n].pc \notin Written /\ req'[n].pc \in Written
      BY <2>1, <2>4, <2>5 DEF Becomes, Written
    <3> HIDE DEF row
    <3> QED
      BY <1>4, <3>1, <3>2, InsertMemberMovesTables
  <2>7. pc \in Places \ ({"unasked", "done"} \cup InTransaction) /\ pc \in Written
    BY <2>4 DEF Places, InTransaction, Written
  <2>8. pc \notin {"existing", "insert", "write"}
    BY <2>4
  <2> QED
    BY <2>1, <2>4, <2>5, <2>6, <2>7, <2>8, Goes DEF NotYetWritten, Working
<1>5. CASE On("insert") /\ Statement /\ Fails(n)
  BY <1>5, AtPlace, Refuses DEF InTransaction, Written, Statement, Fails, Statuses
<1>6. ASSUME On("team"), Statement
      PROVE  /\ req[n].pc = "team" /\ q.op = "inviteMember" /\ Working(n) /\ free' = free
             /\ Pending(req[n]) /\ DOMAIN req = Requests
             /\ req[n].row \in 1 .. Len(q.teams) /\ q.teams \in Seq(Nat)
  <2>1. /\ req[n].pc = "team" /\ q.op = "inviteMember" /\ Working(n)
        /\ Pending(req[n]) /\ DOMAIN req = Requests
    BY <1>6, AtPlace DEF InTransaction
  <2>2. q.teams \in Seq(Nat) /\ req[n].row \in DOMAIN q.teams
    BY <2>1, AskedAssumption DEF Pending
  <2> QED
    BY <1>6, <2>1, <2>2 DEF Statement
<1>7. ASSUME On("team"), Statement, NEW i, i = req[n].row,
             MaySetTeam(RowById(members, n), q.teams[i]),
             SetTeam(RowById(members, n), q.teams[i]), UNCHANGED <<orgs, teams>>,
             Having(n, AfterTeam(i), i + 1)
      PROVE  Moves(n)
  <2>1. PICK pc : pc = AfterTeam(i)
    OBVIOUS
  <2>2. pc \in {"team", "reread"} /\ (pc = "team" => i + 1 \in DOMAIN q.teams)
    BY <1>3, <1>6, <1>7, <2>1
  <2>3. Becomes(n, pc, i + 1) /\ req'[n].wrote \in BOOLEAN
    BY <1>6, <1>7, <2>1, HavingBecomes DEF Pending
  <2>4. TablesMove(n)
    BY <1>7, SetTeamKeeps, RowsMove DEF Inv
  <2>5. pc \in Places \ ({"unasked", "done"} \cup InTransaction) /\ pc \in Written
    BY <2>2 DEF Places, InTransaction, Written
  <2>6. pc \notin {"existing", "insert", "write"}
    BY <2>2
  <2> QED
    BY <1>6, <1>7, <2>2, <2>3, <2>4, <2>5, <2>6, Goes DEF Working
<1>8. ASSUME On("team"), Statement, ~ MaySetTeam(RowById(members, n), q.teams[req[n].row]),
             Fails(n)
      PROVE  Moves(n)
  <2>1. RowById(teams, q.teams[req[n].row]) = {}
    BY <1>8 DEF MaySetTeam
  <2>2. TeamIsMissing(n)
    BY <1>8, <2>1 DEF TeamIsMissing
  <2>3. Ends(n, 500) /\ 500 \in Statuses
    BY <1>6, <1>8, AnswerEnds DEF Fails, Statuses
  <2>4. TablesMove(n)
    BY <1>8, NothingMoves DEF Fails, Inv
  <2> QED
    BY <1>6, <1>8, <2>2, <2>3, <2>4, IsAnswered DEF Working
<1>9. CASE On("reread") /\ Reread(n, GetMembershipById(n), 201)
  BY <1>9, Rereads DEF At, RowIsGone, GetMembershipById
<1> QED
  BY <1>1, <1>2, <1>4, <1>5, <1>7, <1>8, <1>9 DEF InviteMember

(* Who is looked for is found, or the request is answered.                 *)
LEMMA FindMoves ==
    ASSUME Inv, NEW n \in Requests, NEW op \in {"updateMember", "removeMember"},
           NEW place \in {"write", "reread"}, Find(n, op, place),
           place = "write" /\ op = "updateMember" => req[n].q.bare \/ req[n].q.with # Null
    PROVE  Moves(n)
<1>1. /\ NotYetWritten(n) /\ UNCHANGED <<tables, free>> /\ req[n].q.op = op
  BY AtPlace DEF Find, InTransaction, Written, Statement
<1>2. CASE Answer(n, 404)
  BY <1>1, <1>2, Refuses DEF Statuses
<1>3. ASSUME NEW row, Having(n, place, row) PROVE Moves(n)
  <2>1. place = "write" => MayWrite(req[n].q, row)
    BY <1>1 DEF MayWrite
  <2>2. /\ place \in Places \ ({"unasked", "done", "team"} \cup InTransaction)
        /\ place \notin {"existing", "insert"}
    BY DEF Places, InTransaction
  <2> QED
    BY <1>1, <1>3, <2>1, <2>2, GoesOn
<1> QED
  BY <1>2, <1>3 DEF Find

LEMMA UpdateMemberMoves ==
    ASSUME Inv, NEW n \in Requests, UpdateMember(n)
    PROVE  Moves(n)
<1> DEFINE q == req[n].q
           row == req[n].row
           On(pc) == At(n, "updateMember", pc)
           place == IF q.with = Null /\ ~q.bare THEN "reread" ELSE "write"
<1>1. CASE Find(n, "updateMember", place)
  <2>1. place \in {"write", "reread"} /\ (place = "write" => q.bare \/ q.with # Null)
    OBVIOUS
  <2> HIDE DEF place
  <2> QED
    BY <1>1, <2>1, FindMoves
<1>2. CASE /\ On("write") /\ Statement /\ UNCHANGED <<orgs, teams>>
           /\ UpdateMembership(row, q.with, q.bare)
           /\ IF GetMembershipById(row) = {} THEN Goto(n, "reread") ELSE Wrote(n, "reread")
  <2>1. /\ NotYetWritten(n) /\ Pending(req[n]) /\ Asks(q)
        /\ req[n].pc = "write" /\ q.op = "updateMember" /\ free' = free
    BY <1>2, AtPlace DEF InTransaction, Written, Statement
  <2>2. q.with \in Roles \cup {Null}
    BY <2>1 DEF Asks
  <2>3. q.bare \/ q.with # Null
    BY <2>1 DEF Pending, MayWrite
  <2>4. TablesMove(n)
    BY <1>2, <2>2, <2>3, UpdateMembershipKeeps, RowsMove DEF Inv
  <2> QED
    BY <1>2, <2>1, <2>4, Writes
<1>3. CASE On("reread") /\ Reread(n, GetMembershipById(row), 200)
  BY <1>3, Rereads DEF At, RowIsGone, GetMembershipById
<1> QED
  BY <1>1, <1>2, <1>3 DEF UpdateMember

LEMMA RemoveMemberMoves ==
    ASSUME Inv, NEW n \in Requests, RemoveMember(n)
    PROVE  Moves(n)
<1>1. CASE Find(n, "removeMember", "write")
  BY <1>1, FindMoves
<1>2. CASE /\ At(n, "removeMember", "write") /\ Statement
           /\ RemoveMembership(req[n].row) /\ UNCHANGED <<orgs, teams>> /\ AnswerWritten(n, 200)
  <2>1. NotYetWritten(n) /\ free' = free
    BY <1>2, AtPlace DEF InTransaction, Written, Statement
  <2>2. TablesMove(n)
    BY <1>2, RemoveMembershipKeeps, RowsMove DEF Inv
  <2> QED
    BY <1>2, <2>1, <2>2, Writes
<1> QED
  BY <1>1, <1>2 DEF RemoveMember

LEMMA AcceptMoves ==
    ASSUME Inv, NEW n \in Requests, Accept(n)
    PROVE  Moves(n)
<1> DEFINE id == req[n].q.id
           On(pc) == At(n, "acceptInvitation", pc)
<1>1. CASE /\ On("write") /\ Statement /\ UNCHANGED <<orgs, teams>> /\ AcceptInvitation(id)
           /\ Goto(n, "reread") \/ Wrote(n, "reread")
  <2>1. NotYetWritten(n) /\ free' = free
    BY <1>1, AtPlace DEF InTransaction, Written, Statement
  <2>2. TablesMove(n)
    BY <1>1, AcceptInvitationKeeps, RowsMove DEF Inv
  <2> QED
    BY <1>1, <2>1, <2>2, Writes
<1>2. CASE On("reread") /\ Reread(n, GetMembershipById(id), 200)
  BY <1>2, Rereads DEF At, RowIsGone, GetMembershipById
<1> QED
  BY <1>1, <1>2 DEF Accept

-----------------------------------------------------------------------------
(* Teams.                                                                  *)

LEMMA CreateTeamMoves ==
    ASSUME Inv, NEW n \in Requests, CreateTeam(n)
    PROVE  Moves(n)
<1> DEFINE q == req[n].q
           row == NewTeam(n, q.id, q.with)
           On(pc) == At(n, "createTeam", pc)
<1>1. CASE /\ On("write") /\ Statement /\ MayInsertTeam(row)
           /\ teams' = teams \cup {row} /\ UNCHANGED <<orgs, members>> /\ Wrote(n, "reread")
  <2>1. /\ NotYetWritten(n) /\ Asks(q) /\ q.op = "createTeam" /\ free' = free
    BY <1>1, AtPlace DEF InTransaction, Written, Statement
  <2>2. q.with \in Visibilities \cup {Null}
    BY <2>1 DEF Asks
  <2>3. \E o \in orgs : o.id = row.org
    BY <1>1 DEF MayInsertTeam, GetOrganizationById, RowById
  <2>4. row \in TeamRow
    <3>1. row.org = q.id
      BY DEF NewTeam
    <3>2. q.id \in Ids
      BY <2>3, <3>1 DEF Inv, Typed, OrgRow
    <3>3. n \in Ids
      BY RequestsAssumption DEF Requests, Ids
    <3> QED
      BY <2>2, <3>2, <3>3 DEF NewTeam, TeamRow, Visibilities
  <2> HIDE DEF row
  <2>5. TablesKept
    BY <1>1, <2>3, <2>4 DEF Inv, Typed, Keyed, Referring, TablesKept
  <2>6. TablesMove(n)
    BY <1>1, <2>5, RowsMove DEF Inv
  <2> QED
    BY <1>1, <2>1, <2>6, Writes
<1>2. CASE On("write") /\ Statement /\ Fails(n)
  BY <1>2, AtPlace, Refuses DEF InTransaction, Written, Statement, Fails, Statuses
<1>3. CASE On("reread") /\ Reread(n, GetTeamById(n), 201)
  BY <1>3, Rereads DEF At, RowIsGone, GetTeamById
<1> QED
  BY <1>1, <1>2, <1>3 DEF CreateTeam

LEMMA TeamListsMove ==
    ASSUME Inv, NEW n \in Requests,
           ListTeams(n) \/ GetTeam(n) \/ ListTeamMembers(n) \/ ListUserTeams(n)
    PROVE  Moves(n)
<1>1. \E op : At(n, op, "list")
  BY DEF ListTeams, GetTeam, ListTeamMembers, ListUserTeams
<1>2. NotYetWritten(n)
  BY <1>1, AtPlace DEF InTransaction, Written
<1>3. UNCHANGED <<tables, free>>
  BY DEF ListTeams, GetTeam, ListTeamMembers, ListUserTeams, Statement
<1>4. Answer(n, 404) \/ \E list : List(n, list)
  BY DEF ListTeams, GetTeam, ListTeamMembers, ListUserTeams
<1> QED
  BY <1>2, <1>3, <1>4, Refuses, Lists DEF Statuses

LEMMA UpdateTeamMoves ==
    ASSUME Inv, NEW n \in Requests, UpdateTeam(n)
    PROVE  Moves(n)
<1> DEFINE q == req[n].q
           rows == GetTeamById(Team(n))
           On(pc) == At(n, "updateTeam", pc)
<1>1. CASE /\ On("read") /\ Statement /\ UNCHANGED tables
           /\ CASE rows = {} -> Answer(n, 500)
                [] rows # {} /\ q.with = Null -> Answer(n, 200)
                [] OTHER -> Goto(n, "write")
  <2>1. /\ NotYetWritten(n) /\ UNCHANGED <<tables, free>> /\ q.op = "updateTeam"
    BY <1>1, AtPlace DEF InTransaction, Written, Statement
  <2>2. CASE \E status \in {200, 500} : Answer(n, status)
    BY <2>1, <2>2, Refuses DEF Statuses
  <2>3. ASSUME q.with # Null, Goto(n, "write") PROVE Moves(n)
    <3>1. MayWrite(q, req[n].row)
      BY <2>1, <2>3 DEF MayWrite
    <3>2. "write" \in Places \ ({"unasked", "done", "team"} \cup InTransaction)
      BY DEF Places, InTransaction
    <3> QED
      BY <2>1, <2>3, <3>1, <3>2, GoesOn
  <2> QED
    BY <1>1, <2>2, <2>3
<1>2. CASE /\ On("write") /\ Statement /\ UNCHANGED <<orgs, members>>
           /\ WriteTeam(Team(n), q.with)
           /\ IF rows = {} THEN Goto(n, "reread") ELSE Wrote(n, "reread")
  <2>1. /\ NotYetWritten(n) /\ Pending(req[n]) /\ Asks(q)
        /\ req[n].pc = "write" /\ q.op = "updateTeam" /\ free' = free
    BY <1>2, AtPlace DEF InTransaction, Written, Statement
  <2>2. q.with \in Visibilities \cup {Null}
    BY <2>1 DEF Asks
  <2>3. q.with # Null
    BY <2>1 DEF Pending, MayWrite
  <2>4. TablesMove(n)
    BY <1>2, <2>2, <2>3, WriteTeamKeeps, RowsMove DEF Inv
  <2> QED
    BY <1>2, <2>1, <2>4, Writes
<1>3. CASE On("reread") /\ Reread(n, rows, 200)
  BY <1>3, Rereads DEF At, RowIsGone, GetTeamById
<1> QED
  BY <1>1, <1>2, <1>3 DEF UpdateTeam

LEMMA DeleteTeamMoves ==
    ASSUME Inv, NEW n \in Requests, DeleteTeamAndAnswer(n)
    PROVE  Moves(n)
<1>1. NotYetWritten(n) /\ free' = free
  BY AtPlace DEF DeleteTeamAndAnswer, InTransaction, Written, Statement
<1>2. TablesMove(n)
  BY DeleteTeamKeeps, RowsMove DEF Inv, DeleteTeamAndAnswer
<1> QED
  BY <1>1, <1>2, Writes DEF DeleteTeamAndAnswer

LEMMA TeamMembershipMoves ==
    ASSUME Inv, NEW n \in Requests, AddTeamMember(n) \/ RemoveTeamMember(n)
    PROVE  Moves(n)
<1>1. NotYetWritten(n) /\ free' = free
  BY AtPlace DEF AddTeamMember, RemoveTeamMember, InTransaction, Written, Statement
<1>2. ASSUME NEW rows, NEW team, team = Null \/ MaySetTeam(rows, team), SetTeam(rows, team),
             UNCHANGED <<orgs, teams>>, AnswerWritten(n, 200)
      PROVE  Moves(n)
  <2>1. TablesMove(n)
    BY <1>2, SetTeamKeeps, RowsMove DEF Inv
  <2> QED
    BY <1>1, <1>2, <2>1, Writes
<1>3. CASE Fails(n)
  BY <1>1, <1>3, Refuses DEF Fails, Statuses
<1> QED
  BY <1>2, <1>3 DEF AddTeamMember, RemoveTeamMember

-----------------------------------------------------------------------------
(* Every step, and what it keeps.                                          *)

LEMMA StepMoves ==
    ASSUME Inv, NEW n \in Requests, (\E q \in Asked : Begin(n, q)) \/ Step(n)
    PROVE  Moves(n)
<1>1. CASE \E q \in Asked : Begin(n, q)
  BY <1>1, BeginMoves
<1>2. CASE ExtractTenant(n)
  BY <1>2, ExtractTenantMoves
<1>3. CASE RequirePermission(n) \/ RequireOwner(n) \/ RequireAdmin(n)
  BY <1>3, CheckMoves DEF RequirePermission, RequireOwner, RequireAdmin
<1>4. CASE OrganizationStep(n)
  BY <1>4, CreateOrganizationMoves, OrganizationListsMove, UpdateOrganizationMoves,
     DeleteOrganizationMoves, InviteMemberMoves, UpdateMemberMoves, RemoveMemberMoves,
     UpdateSubscriptionMoves DEF OrganizationStep
<1>5. CASE TeamStep(n)
  BY <1>5, CreateTeamMoves, TeamListsMove, UpdateTeamMoves, DeleteTeamMoves,
     TeamMembershipMoves, AcceptMoves DEF TeamStep
<1> QED
  BY <1>1, <1>2, <1>3, <1>4, <1>5 DEF Step

LEMMA InvInit == Init => Inv
<1> SUFFICES ASSUME Init PROVE Inv
  OBVIOUS
<1> DEFINE o0 == NewOrganization(0, FirstSlug)
           t0 == NewTeam(0, 0, "private")
           m0 == [NewOwner(0, Founder) EXCEPT !.permissions = ROLE_PERMISSIONS.owner]
           m1 == [Invitation(MaxRequests + 1, FirstAdmin, 0, "admin")
                    EXCEPT !.status = "active", !.team = 0]
<1>1. orgs = {o0} /\ teams = {t0} /\ members = {m0, m1}
  BY DEF Init
<1>2. 0 \in Ids /\ MaxRequests + 1 \in Ids /\ MaxRequests + 1 # 0
  BY RequestsAssumption DEF Ids
<1>3. o0 \in OrgRow /\ o0.id = 0
  BY <1>2, FirstAssumption
      DEF NewOrganization, OrgRow, Themes, SUBSCRIPTION_PLANS, Limits, BodyLimits
<1>4. t0 \in TeamRow /\ t0.id = 0 /\ t0.org = 0
  BY <1>2 DEF NewTeam, TeamRow, Visibilities
<1>5. /\ m0 \in MemberRow /\ m0.id = 0 /\ m0.org = 0 /\ m0.team = Null /\ m0.user = Founder
  BY <1>2, FirstAssumption
     DEF NewOwner, MemberRow, Roles, ROLE_PERMISSIONS, FounderPermissions, Permission
<1>6. /\ m1 \in MemberRow /\ m1.id = MaxRequests + 1 /\ m1.org = 0 /\ m1.team = 0
      /\ m1.user = FirstAdmin
  BY <1>2, FirstAssumption DEF Invitation, MemberRow, Roles, ROLE_PERMISSIONS, Permission
<1> HIDE DEF o0, t0, m0, m1
<1>7. Typed
  BY <1>1, <1>3, <1>4, <1>5, <1>6 DEF Typed
<1>8. Keyed
  BY <1>1, <1>2, <1>5, <1>6, FirstAssumption DEF Keyed
<1>9. Referring
  BY <1>1, <1>3, <1>4, <1>5, <1>6 DEF Referring
<1>10. /\ DOMAIN req = Requests
       /\ \A n \in Requests : req[n].pc = "unasked"
  BY DEF Init, Unasked
<1>11. \A n \in Requests : RequestOK(req[n])
  BY <1>10 DEF RequestOK, Places
<1>12. Numbered
  BY <1>1, <1>3, <1>5, <1>6 DEF Numbered
<1>13. SlugsReserved
  BY <1>10 DEF SlugsReserved, HasSlug
<1>14. PoolOK
  <2>1. {n \in Requests : req[n].pc \in {"insertOrg", "insertOwner", "commit", "rollback"}} = {}
    BY <1>10
  <2>2. limit \in PoolSizes /\ free = limit /\ free \in Nat
    BY PoolAssumption DEF Init
  <2> QED
    BY <2>1, <2>2, FS_EmptySet DEF PoolOK, PoolAccounted
<1> QED
  BY <1>7, <1>8, <1>9, <1>10, <1>11, <1>12, <1>13, <1>14 DEF Inv

(* Who holds a connection.                                                 *)
Holders == {n \in Requests : req[n].pc \in InTransaction}

LEMMA PoolStays ==
    ASSUME PoolOK, NEW n \in Requests, Others(n), PoolMoves(n), UNCHANGED limit
    PROVE  PoolOK'
<1>1. /\ IsFiniteSet(Requests) /\ IsFiniteSet(Holders) /\ Cardinality(Holders) \in Nat
  <2>1. IsFiniteSet(Requests)
    BY RequestsAssumption, FS_Interval DEF Requests
  <2> QED
    BY <2>1, FS_Subset, FS_CardinalityType DEF Holders
<1>2. free + Cardinality(Holders) = limit /\ free \in Nat
  BY DEF PoolOK, PoolAccounted, Holders, InTransaction
<1>3. CASE free' = free /\ (req[n].pc \in InTransaction <=> req'[n].pc \in InTransaction)
  <2>1. Holders' = Holders
    BY <1>3 DEF Holders, Others
  <2> QED
    BY <1>2, <1>3, <2>1 DEF PoolOK, PoolAccounted, Holders, InTransaction
<1>4. CASE /\ free > 0 /\ free' = free - 1
           /\ req[n].pc \notin InTransaction /\ req'[n].pc \in InTransaction
  <2>1. Holders' = Holders \cup {n} /\ n \notin Holders
    BY <1>4 DEF Holders, Others
  <2>2. Cardinality(Holders') = Cardinality(Holders) + 1
    BY <1>1, <2>1, FS_AddElement
  <2>3. free' \in Nat /\ free' + Cardinality(Holders') = limit'
    BY <1>1, <1>2, <1>4, <2>2
  <2> QED
    BY <2>3 DEF PoolOK, PoolAccounted, Holders, InTransaction
<1>5. CASE /\ free' = free + 1
           /\ req[n].pc \in InTransaction /\ req'[n].pc \notin InTransaction
  <2>1. Holders' = Holders \ {n} /\ n \in Holders
    BY <1>5 DEF Holders, Others
  <2>2. Cardinality(Holders') = Cardinality(Holders) - 1
    BY <1>1, <2>1, FS_RemoveElement
  <2>3. free' \in Nat /\ free' + Cardinality(Holders') = limit'
    BY <1>1, <1>2, <1>5, <2>2
  <2> QED
    BY <2>3 DEF PoolOK, PoolAccounted, Holders, InTransaction
<1> QED
  BY <1>3, <1>4, <1>5 DEF PoolMoves

LEMMA SlugsStayReserved ==
    ASSUME SlugsReserved, NEW n \in Requests, Others(n), SlugMoves(n), TablesMove(n)
    PROVE  SlugsReserved'
<1>1. ASSUME NEW k \in Requests, req'[k].pc \in HasSlug
      PROVE  /\ req'[k].q = req[k].q
             /\ \A o \in orgs : o.slug # req[k].q.with
             /\ \A l \in Requests \ {k, n} : req[l].pc \in HasSlug => req[l].q.with # req[k].q.with
  <2>1. CASE k # n
    BY <1>1, <2>1 DEF Others, SlugsReserved
  <2>2. CASE k = n /\ req[n].pc \in HasSlug
    BY <1>1, <2>2 DEF SlugMoves, SlugsReserved
  <2>3. CASE k = n /\ req[n].pc \notin HasSlug
    BY <1>1, <2>3
       DEF SlugMoves, IsSlugAvailable, GetOrganizationBySlug, SlugLocked, HasSlug
  <2> QED
    BY <2>1, <2>2, <2>3
<1>2. ASSUME NEW k \in Requests, NEW l \in Requests, k # l,
             req'[k].pc \in HasSlug, req'[l].pc \in HasSlug
      PROVE  req'[k].q.with # req'[l].q.with
  BY <1>1, <1>2 DEF Others
<1>3. ASSUME NEW k \in Requests, req'[k].pc \in HasSlug, NEW p \in orgs'
      PROVE  p.slug # req'[k].q.with
  <2>1. CASE \E o \in orgs : o.slug = p.slug
    BY <1>1, <1>3, <2>1
  <2>2. CASE p.slug = req[n].q.with /\ req[n].pc = "commit" /\ req'[n].pc \in Written
    <3>1. k # n
      BY <1>3, <2>2 DEF Written, HasSlug
    <3>2. req[k].pc \in HasSlug /\ req'[k].q = req[k].q
      BY <1>3, <3>1 DEF Others
    <3> QED
      BY <2>2, <3>1, <3>2 DEF SlugsReserved, HasSlug
  <2> QED
    BY <2>1, <2>2 DEF TablesMove
<1> QED
  BY <1>2, <1>3 DEF SlugsReserved

LEMMA InvMoves ==
    ASSUME Inv, NEW n \in Requests, Moves(n), UNCHANGED limit
    PROVE  Inv'
<1>1. Typed' /\ Keyed' /\ Referring'
  BY DEF Moves, TablesMove
<1>2. DOMAIN req' = Requests /\ \A k \in Requests : RequestOK(req'[k])
  BY DEF Moves, Others, Inv
<1>3. Numbered'
  <2>1. \A k \in Requests : req[k].pc \in Written => req'[k].pc \in Written
    BY DEF Moves, Others
  <2>2. ASSUME NEW p \in orgs' PROVE p.id = 0 \/ (p.id \in Requests /\ req'[p.id].pc \in Written)
    BY <2>1 DEF Moves, TablesMove, Inv, Numbered
  <2>3. ASSUME NEW l \in members'
        PROVE  l.id \in {0, MaxRequests + 1} \/ (l.id \in Requests /\ req'[l.id].pc \in Written)
    BY <2>1 DEF Moves, TablesMove, Inv, Numbered
  <2> QED
    BY <2>2, <2>3 DEF Numbered
<1>4. SlugsReserved' /\ PoolOK'
  BY PoolStays, SlugsStayReserved DEF Moves, Inv
<1> QED
  BY <1>1, <1>2, <1>3, <1>4 DEF Inv, RequestOK

LEMMA InvNext == Inv /\ [Next]_vars => Inv'
<1> SUFFICES ASSUME Inv, [Next]_vars PROVE Inv'
  OBVIOUS
<1>1. CASE Next
  BY <1>1, StepMoves, InvMoves DEF Next
<1>2. CASE UNCHANGED vars
  <2>1. orgs' = orgs /\ teams' = teams /\ members' = members /\ req' = req
        /\ limit' = limit /\ free' = free
    BY <1>2 DEF vars, tables
  <2> QED
    BY <2>1 DEF Inv, Typed, Keyed, Referring, Numbered, SlugsReserved, PoolOK, PoolAccounted
<1> QED
  BY <1>1, <1>2

-----------------------------------------------------------------------------
(* What the invariant means.                                               *)

LEMMA InvIsSound == Inv => TablesAreSound
<1> SUFFICES ASSUME Inv PROVE TablesAreSound
  OBVIOUS
<1>1. TypeOK
  <2>1. free \in 0 .. limit
    <3>1. IsFiniteSet(Requests)
      BY RequestsAssumption, FS_Interval DEF Requests
    <3>2. Cardinality(Holders) \in Nat
      BY <3>1, FS_Subset, FS_CardinalityType DEF Holders
    <3>3. free \in Nat /\ limit \in Nat /\ free + Cardinality(Holders) = limit
      BY PoolAssumption DEF Inv, PoolOK, PoolAccounted, Holders, InTransaction
    <3> QED
      BY <3>2, <3>3
  <2>2. \A n \in Requests : /\ req[n].pc \in Places
                            /\ req[n].pc = "done" => req[n].status \in {200, 201, 400, 403, 404, 500}
    BY DEF Inv, RequestOK, Statuses
  <2> QED
    BY <2>1, <2>2 DEF TypeOK, Inv, Typed, OrgRow, TeamRow, MemberRow, PoolOK
<1>2. UniqueKeys
  BY DEF Inv, Keyed, UniqueKeys
<1>3. NoDanglingRows
  BY DEF Inv, Referring, NoDanglingRows, GetOrganizationById, GetTeamById, RowById
<1>4. PoolAccounted
  BY DEF Inv, PoolOK
<1>5. ListsAgree
  <2>1. ASSUME NEW t \in teams, NEW u \in Users
        PROVE  u \in GetTeamMembers(t.id) <=> t \in GetUserTeams(u, t.org)
    BY DEF GetTeamMembers, GetUserTeams
  <2>2. ASSUME NEW o \in orgs, NEW u \in Users
        PROVE  /\ IsActive(u, o.id) <=> o \in GetUserOrganizations(u)
               /\ IsActive(u, o.id) <=> HasAllPermissions(u, o.id, {})
    BY DEF IsActive, GetMembershipByUserAndOrg, GetUserOrganizations, HasAllPermissions
  <2>3. ASSUME NEW o \in orgs, NEW u \in Users
        PROVE  IsActive(u, o.id)
                 <=> [user |-> u, status |-> "active"] \in GetOrganizationMembers(o.id)
    <3>1. \A m \in members :
             [user |-> u, status |-> "active"] = [user |-> m.user, status |-> m.status]
               <=> m.user = u /\ m.status = "active"
      <4> TAKE m \in members
      <4>1. \A a, b, c, d : [user |-> a, status |-> b] = [user |-> c, status |-> d]
                              => a = c /\ b = d
        <5> TAKE a, b, c, d
        <5> HAVE [user |-> a, status |-> b] = [user |-> c, status |-> d]
        <5>1. /\ [user |-> a, status |-> b].user = [user |-> c, status |-> d].user
              /\ [user |-> a, status |-> b].status = [user |-> c, status |-> d].status
          OBVIOUS
        <5> QED
          BY <5>1
      <4> QED
        BY <4>1
    <3> QED
      BY <3>1 DEF IsActive, GetMembershipByUserAndOrg, GetOrganizationMembers
  <2> QED
    BY <2>1, <2>2, <2>3 DEF ListsAgree
<1> QED
  BY <1>1, <1>2, <1>3, <1>4, <1>5 DEF TablesAreSound

LEMMA InvHolds == Spec => []Inv
  BY InvInit, InvNext, PTL DEF Spec

(* However the requests of any users overlap, whoever creates, invites,    *)
(* edits and deletes: the rows of the three tables have their types, a     *)
(* slug names one organisation and a user is a member of it once, no row   *)
(* refers to one that is gone, every connection is free or with a request  *)
(* in its transaction, and the lists tell the same story as the checks.    *)
THEOREM TablesSound == Spec => []TablesAreSound
  BY InvHolds, InvIsSound, PTL

(* An organisation appears with its owner in the same step, and a request  *)
(* that has written is answered with an error in two cases only: the row   *)
(* that it reads again has been deleted by another, or it is an invitation *)
(* that names a team which is not there, deleted or made up, and leaves    *)
(* its user invited.                                                       *)
THEOREM WritesRefusedForAReason == Spec => WritesAreWhole
<1>1. ASSUME Inv, Next PROVE CreationIsAtomic /\ FailedYetWritten
  <2>1. PICK n \in Requests : Moves(n)
    BY <1>1, StepMoves DEF Next
  <2>2. CreationIsAtomic
    BY <2>1 DEF Moves, TablesMove
  <2>3. FailedYetWritten
    <3>1. ASSUME NEW k \in Requests, k # n PROVE req'[k] = req[k]
      BY <2>1, <3>1 DEF Moves, Others
    <3> QED
      BY <2>1, <3>1 DEF Moves, FailureIsExplained, FailedYetWritten
  <2> QED
    BY <2>2, <2>3
<1> QED
  BY <1>1, InvHolds, PTL DEF Spec, WritesAreWhole

(* The limits of an organisation leave its plan in one kind of step only:  *)
(* a change of the settings whose body brings limits of its own, or which  *)
(* puts back limits that were replaced after it had read them.             *)
THEOREM PlansDriftForAReason == Spec => PlanDriftHasCause
<1>1. ASSUME Inv, Next
      PROVE  \A o \in orgs, p \in orgs' :
                (o.id = p.id /\ o.plan = o.limits.of /\ p.plan # p.limits.of) =>
                    \E n \in Requests :
                       /\ At(n, "updateOrganization", "write") /\ req[n].q.id = o.id
                       /\ req[n].q.with \in BodyLimits \/ req[n].row.limits # o.limits
  <2>1. PICK n \in Requests : Moves(n)
    BY <1>1, StepMoves DEF Next
  <2> QED
    BY <2>1 DEF Moves, TablesMove, PlanMoves
<1> QED
  BY <1>1, InvHolds, PTL DEF Spec, PlanDriftHasCause

=============================================================================
