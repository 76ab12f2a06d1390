------------------------------ MODULE OrgTables ------------------------------
(***************************************************************************)
(* The tables of organisations, teams and memberships (the day35 migration *)
(* for MySQL) and the statements that the three services run on them. Each *)
(* statement is one step of the database; a table is a set of rows.        *)
(* An id is the number of the request that made the row (uuidv4 gives each *)
(* request ids of its own); 0 is the request that made the first           *)
(* organisation. Names, logos and dates other than the order of creation   *)
(* are left out.                                                           *)
(***************************************************************************)
EXTENDS Naturals, FiniteSets

CONSTANTS Null       \* SQL's NULL, and undefined

VARIABLES orgs, teams, members
tables == <<orgs, teams, members>>

(* The permissions that routes ask for; those of projects and tasks are    *)
(* asked for nowhere.                                                      *)
Permission == {"org:manage", "org:settings", "org:billing", "org:members:invite",
               "org:members:remove", "team:create", "team:manage", "team:delete"}
ROLE_PERMISSIONS ==
    [owner  |-> Permission,
     admin  |-> {"org:settings", "org:members:invite", "team:create", "team:manage"},
     member |-> {},
     guest  |-> {}]
Roles == DOMAIN ROLE_PERMISSIONS
FounderPermissions == {"org:manage", "org:settings", "org:billing"}

(* A plan stands for its limits.                                           *)
SUBSCRIPTION_PLANS == {"free", "starter", "professional", "enterprise"}
Unknown == "gold"

Themes == {"default", "dark"}
Visibilities == {"private", "public"}

(* The limits in the settings: those of a plan, or what a body asks for;   *)
(* an object, or the text that JSON_SET makes of what JSON.stringify       *)
(* returned.                                                               *)
BodyLimits == SUBSCRIPTION_PLANS \cup {"custom"}
Limits == [of : BodyLimits, as : {"object", "text"}]

RowById(table, id) == {r \in table : r.id = id}
Update(table, rows, Change(_)) == {IF r \in rows THEN Change(r) ELSE r : r \in table}

(***************************************************************************)
(* Statements of the organisation service.                                 *)
(***************************************************************************)
GetOrganizationById(id) == RowById(orgs, id)
GetOrganizationBySlug(slug) == {o \in orgs : o.slug = slug}
IsSlugAvailable(slug) == GetOrganizationBySlug(slug) = {}

GetUserOrganizations(user) ==
    {o \in orgs : \E m \in members : m.org = o.id /\ m.user = user /\ m.status = "active"}

NewOrganization(id, slug) ==
    [id |-> id, slug |-> slug, theme |-> "default", plan |-> "free",
     limits |-> [of |-> "free", as |-> "object"]]

NewOwner(id, user) ==
    [id |-> id, user |-> user, org |-> id, team |-> Null, role |-> "owner",
     permissions |-> FounderPermissions, status |-> "active"]

(* The settings of the body, a theme or limits, over those that were read. *)
Merged(read, asked) ==
    [theme |-> IF asked \in Themes THEN asked ELSE read.theme,
     limits |-> IF asked \in BodyLimits THEN [of |-> asked, as |-> "object"] ELSE read.limits]
WriteSettings(id, read, asked) ==
    orgs' = Update(orgs, RowById(orgs, id),
                   LAMBDA o : [o EXCEPT !.theme = Merged(read, asked).theme,
                                        !.limits = Merged(read, asked).limits])

(* Mutation: the limits stay those of the old plan.                        *)
PlanAlone(id, plan) ==
    orgs' = Update(orgs, RowById(orgs, id), LAMBDA o : [o EXCEPT !.plan = plan])

WriteSubscription(id, plan) ==
    orgs' = Update(orgs, RowById(orgs, id),
                   LAMBDA o : [o EXCEPT !.plan = plan,
                                        !.limits = [of |-> plan, as |-> "text"]])

(* The foreign keys of memberships: what a deleted team leaves behind.     *)
WithoutTeams(rows, gone) ==
    {IF \E t \in gone : m.team = t.id THEN [m EXCEPT !.team = Null] ELSE m : m \in rows}

(* ON DELETE CASCADE takes the teams and the memberships along.            *)
DeleteOrganization(id) ==
    LET gone == {t \in teams : t.org = id} IN
    /\ orgs' = orgs \ RowById(orgs, id)
    /\ teams' = teams \ gone
    /\ members' = WithoutTeams({m \in members : m.org # id}, gone)

(***************************************************************************)
(* Statements of the membership service.                                   *)
(***************************************************************************)
GetMembershipById(id) == RowById(members, id)
GetMembershipByUserAndOrg(user, org) == {m \in members : m.user = user /\ m.org = org}
GetOrganizationMembers(org) == {[user |-> m.user, status |-> m.status] : m \in {m \in members : m.org = org}}

IsActive(user, org) == \E m \in GetMembershipByUserAndOrg(user, org) : m.status = "active"
HasAllPermissions(user, org, wanted) ==
    \E m \in GetMembershipByUserAndOrg(user, org) :
        m.status = "active" /\ wanted \subseteq m.permissions

Invitation(id, user, org, role) ==
    [id |-> id, user |-> user, org |-> org, team |-> Null, role |-> role,
     permissions |-> ROLE_PERMISSIONS[role], status |-> "invited"]

(* Mutation: the table has the foreign key only.                           *)
OrganizationExists(row) == GetOrganizationById(row.org) # {}

(* The unique key on user and organisation, and the foreign key.           *)
MayInsertMember(row) ==
    GetMembershipByUserAndOrg(row.user, row.org) = {} /\ GetOrganizationById(row.org) # {}

(* An UPDATE that changes nothing checks no key; one that names a team     *)
(* that is not there fails when it matches a row.                          *)
MaySetTeam(rows, team) == rows = {} \/ RowById(teams, team) # {}
SetTeam(rows, team) == members' = Update(members, rows, LAMBDA m : [m EXCEPT !.team = team])

AcceptInvitation(id) ==
    members' = Update(members, {m \in RowById(members, id) : m.status = "invited"},
                      LAMBDA m : [m EXCEPT !.status = "active"])

(* A role brings its permissions; those of the body come last and win.     *)
UpdateMembership(id, role, bare) ==
    LET Permissions(m) == IF bare THEN {} ELSE ROLE_PERMISSIONS[role] IN
    members' = Update(members, RowById(members, id),
                      LAMBDA m : [m EXCEPT !.role = IF role = Null THEN @ ELSE role,
                                           !.permissions = Permissions(m)])

RemoveMembership(id) == members' = members \ RowById(members, id)

(***************************************************************************)
(* Statements of the team service.                                         *)
(***************************************************************************)
GetTeamById(id) == RowById(teams, id)
GetOrganizationTeams(org) == {t \in teams : t.org = org}
GetUserTeams(user, org) ==
    {t \in teams : t.org = org /\ \E m \in members :
                      m.team = t.id /\ m.user = user /\ m.status = "active"}
GetTeamMembers(team) == {m.user : m \in {m \in members : m.team = team /\ m.status = "active"}}

NewTeam(id, org, visibility) ==
    [id |-> id, org |-> org, visibility |-> IF visibility = Null THEN "private" ELSE visibility]
MayInsertTeam(row) == GetOrganizationById(row.org) # {}

WriteTeam(id, visibility) ==
    teams' = Update(teams, RowById(teams, id), LAMBDA t : [t EXCEPT !.visibility = visibility])

DeleteTeam(id) ==
    /\ members' = WithoutTeams(members, RowById(teams, id))
    /\ teams' = teams \ RowById(teams, id)

TeamMembership(user, org) == GetMembershipByUserAndOrg(user, org)
TeamMembershipIn(user, team) == {m \in members : m.user = user /\ m.team = team}
=============================================================================
