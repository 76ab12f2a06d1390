---------------------------- MODULE Organizations ----------------------------
(***************************************************************************)
(* Organisations, their members and teams: the routes of                   *)
(* organization.routes with the middleware before them, the handlers of    *)
(* the two controllers and the services they call. A request is a chain of *)
(* awaited statements; between two of them other requests run. A statement *)
(* needs a connection of the pool for as long as it runs; a transaction    *)
(* keeps one.                                                              *)
(*                                                                         *)
(* The user of a request is one identity: the tenant middleware reads it   *)
(* as req.user.userId, everything behind it as req.user.id. No route calls *)
(* acceptInvitation; it is an operation of its own here.                   *)
(***************************************************************************)
EXTENDS OrgTables, FiniteSetsExt, Sequences

CONSTANTS Users,           \* who has an account
          Stranger,        \* an address that no account has
          Slugs,
          Founder, FirstAdmin, FirstSlug,   \* of the organisation that is there
          MaxRequests,     \* bound: requests; each makes at most one row
          PoolSizes,       \* the values of connectionLimit
          Asked            \* the requests that are made

ASSUME PoolAssumption == PoolSizes \subseteq Nat \ {0}
ASSUME RequestsAssumption == MaxRequests \in Nat
ASSUME FirstAssumption ==
    {Founder, FirstAdmin} \subseteq Users /\ Founder # FirstAdmin /\ FirstSlug \in Slugs

(* A request: its route and user, the organisation (or the invitation) it  *)
(* names, whether the header names the organisation too, the host it was   *)
(* sent to, the user and the teams it is about, and what its body asks for.*)
Request(op, by, id, who, about, with) ==
    [op |-> op, by |-> by, id |-> id, header |-> TRUE, host |-> "localhost",
     who |-> who, teams |-> about, with |-> with, bare |-> FALSE]

VARIABLES limit,  \* connectionLimit of the pool
          free,   \* its connections that nobody holds
          req     \* the state of each request
vars == <<tables, limit, free, req>>

Requests == 1 .. MaxRequests
Ids == 0 .. MaxRequests + 1          \* the last one: the invitation of the first admin
Unasked == [pc |-> "unasked"]
None == {}                          \* no row was read

(* Route by route: what the middleware asks for before the handler, and    *)
(* the statement the handler starts with.                                  *)
WithoutTenant == {"createOrganization", "getUserOrganizations", "acceptInvitation"}
NeededPermission ==
    [updateOrganization |-> "org:settings", getMembers |-> "org:settings",
     inviteMember |-> "org:members:invite", removeMember |-> "org:members:remove",
     updateSubscription |-> "org:billing", createTeam |-> "team:create",
     updateTeam |-> "team:manage", deleteTeam |-> "team:delete",
     addTeamMember |-> "team:manage", removeTeamMember |-> "team:manage"]
NeededRole == [deleteOrganization |-> {"owner"}, updateMember |-> {"owner", "admin"}]
Open == {"getOrganization", "getOrganizationTeams", "getUserTeams", "getTeam", "getTeamMembers"}
Operations == WithoutTenant \cup DOMAIN NeededPermission \cup DOMAIN NeededRole \cup Open

Start(op) ==
    CASE op = "createOrganization" -> "slug"
      [] op \in {"updateOrganization", "updateTeam"} -> "read"
      [] op \in {"updateMember", "removeMember"} -> "find"
      [] op = "inviteMember" -> "user"
      [] op \in {"deleteOrganization", "updateSubscription", "createTeam", "deleteTeam",
                 "addTeamMember", "removeTeamMember", "acceptInvitation"} -> "write"
      [] OTHER -> "list"
AfterTenant(op) == IF op \in Open THEN Start(op) ELSE "right"

(* What the body of a request may ask for.                                 *)
Asks(q) ==
    CASE q.op = "createOrganization" -> q.with \in Slugs
      [] q.op = "updateOrganization" -> q.with \in {Null, "name"} \cup Themes \cup BodyLimits
      [] q.op = "inviteMember" -> q.with \in Roles
      [] q.op = "updateMember" -> q.with \in Roles \cup {Null}
      [] q.op \in {"createTeam", "updateTeam"} -> q.with \in Visibilities \cup {Null}
      [] OTHER -> TRUE

ASSUME AskedAssumption ==
    \A q \in Asked : /\ q.op \in Operations /\ q.by \in Users /\ Asks(q)
                     /\ q.teams \in Seq(Nat)

At(n, op, pc) == req[n].pc = pc /\ req[n].q.op = op

(* pool.query: a connection is taken for the statement and given back.     *)
Statement == free > 0 /\ UNCHANGED free

Goto(n, pc) == req' = [req EXCEPT ![n].pc = pc]
Having(n, pc, row) == req' = [req EXCEPT ![n].pc = pc, ![n].row = row]
Wrote(n, pc) == req' = [req EXCEPT ![n].pc = pc, ![n].wrote = TRUE]
Done(n, status, wrote, list) ==
    req' = [req EXCEPT ![n] = [pc |-> "done", q |-> @.q, status |-> status,
                               wrote |-> wrote, list |-> list]]
Answer(n, status) == Done(n, status, req[n].wrote, {})
List(n, list) == Done(n, 200, FALSE, list)
AnswerWritten(n, status) == Done(n, status, TRUE, {})
Fails(n) == Answer(n, 500) /\ UNCHANGED tables

Begin(n, q) ==
    /\ req[n].pc = "unasked" /\ \A k \in 1 .. n - 1 : req[k].pc # "unasked"
    /\ \A t \in {q.teams[i] : i \in DOMAIN q.teams} : t < n
    /\ q.id < n
    /\ req' = [req EXCEPT ![n] =
                 [pc |-> IF q.op \in WithoutTenant THEN Start(q.op) ELSE "header",
                  q |-> q, tenant |-> Null, row |-> Null, wrote |-> FALSE]]
    /\ UNCHANGED <<tables, free>>

(***************************************************************************)
(* extractTenant: the header, else the subdomain, else the user's newest   *)
(* organisation; then the membership of the user there.                    *)
(***************************************************************************)
CommonSubdomains == {"www", "api", "localhost"}

Tenant(n, found, otherwise) ==
    IF found = {} THEN Goto(n, otherwise)
    ELSE req' = [req EXCEPT ![n].pc = "member", ![n].tenant = Max({o.id : o \in found})]

ExtractTenant(n) ==
    /\ req[n].pc \in {"header", "subdomain", "default", "member"} /\ UNCHANGED tables
    /\ LET q == req[n].q IN
       \/ /\ req[n].pc = "header"
          /\ IF q.header THEN Statement /\ Tenant(n, GetOrganizationById(q.id), "subdomain")
             ELSE Goto(n, "subdomain") /\ UNCHANGED free
       \/ /\ req[n].pc = "subdomain"
          /\ IF q.host \in CommonSubdomains THEN Goto(n, "default") /\ UNCHANGED free
             ELSE Statement /\ Tenant(n, GetOrganizationBySlug(q.host), "default")
       \/ /\ req[n].pc = "default" /\ Statement
          /\ IF GetUserOrganizations(q.by) = {} THEN Answer(n, 400)
             ELSE Tenant(n, GetUserOrganizations(q.by), "default")
       \/ /\ req[n].pc = "member" /\ Statement
          /\ IF IsActive(q.by, req[n].tenant) THEN Goto(n, AfterTenant(q.op)) ELSE Answer(n, 403)

Check(n, allowed) ==
    /\ req[n].pc = "right" /\ Statement /\ UNCHANGED tables
    /\ IF allowed THEN Goto(n, Start(req[n].q.op)) ELSE Answer(n, 403)

RequirePermission(n) ==
    /\ req[n].pc = "right" /\ req[n].q.op \in DOMAIN NeededPermission
    /\ Check(n, HasAllPermissions(req[n].q.by, req[n].tenant, {NeededPermission[req[n].q.op]}))

HasRole(n, roles) ==
    \E m \in GetMembershipByUserAndOrg(req[n].q.by, req[n].tenant) : m.role \in roles
RequireOwner(n) == At(n, "deleteOrganization", "right") /\ Check(n, HasRole(n, NeededRole.deleteOrganization))
RequireAdmin(n) == At(n, "updateMember", "right") /\ Check(n, HasRole(n, NeededRole.updateMember))

(***************************************************************************)
(* organization.controller.                                                *)
(***************************************************************************)
Reread(n, rows, status) ==
    Statement /\ UNCHANGED tables /\ Answer(n, IF rows = {} THEN 500 ELSE status)

(* Mutation: the connection is not given back.                             *)
Leak == UNCHANGED free

(* The connection of the transaction goes back before the row that was     *)
(* committed is read again with another one.                               *)
Release == free' = free + 1
ReleaseCommitted == Release

(* Mutation: the owner becomes a member in a transaction of its own.       *)
OrganizationAlone(n, slug, owner) ==
    orgs' = orgs \cup {NewOrganization(n, slug)} /\ UNCHANGED <<teams, members>>

CommitCreation(n, slug, owner) ==
    /\ orgs' = orgs \cup {NewOrganization(n, slug)}
    /\ members' = members \cup {NewOwner(n, owner)}
    /\ UNCHANGED teams

(* InnoDB: the key of a row that another transaction has inserted is       *)
(* locked until that transaction ends.                                     *)
SlugLocked(n, slug) ==
    \E k \in Requests \ {n} : req[k].pc \in {"insertOwner", "commit"} /\ req[k].q.with = slug

CreateOrganization(n) ==
    LET q == req[n].q
        On(pc) == At(n, "createOrganization", pc) IN
    \/ /\ On("slug") /\ Statement /\ UNCHANGED tables
       /\ IF IsSlugAvailable(q.with) THEN Goto(n, "connect") ELSE Answer(n, 400)
    \/ /\ On("connect") /\ free > 0 /\ free' = free - 1 /\ Goto(n, "insertOrg") /\ UNCHANGED tables
    \/ /\ On("insertOrg") /\ ~SlugLocked(n, q.with) /\ UNCHANGED <<tables, free>>
       /\ Goto(n, IF IsSlugAvailable(q.with) THEN "insertOwner" ELSE "rollback")
    \/ /\ On("insertOwner") /\ Goto(n, "commit") /\ UNCHANGED <<tables, free>>
    \/ /\ On("commit") /\ CommitCreation(n, q.with, q.by) /\ ReleaseCommitted /\ Wrote(n, "reread")
    \/ /\ On("rollback") /\ Release /\ Fails(n)
    \/ /\ On("reread") /\ Reread(n, GetOrganizationById(n), 201)

GetOrganization(n) ==
    /\ At(n, "getOrganization", "list") /\ Statement /\ UNCHANGED tables
    /\ LET found == GetOrganizationById(req[n].q.id) IN
       IF found = {} THEN Answer(n, 404) ELSE List(n, found)

ListUserOrganizations(n) ==
    /\ At(n, "getUserOrganizations", "list") /\ Statement /\ UNCHANGED tables
    /\ List(n, GetUserOrganizations(req[n].q.by))

(* with: Null for an empty body, "name" for plain columns, else a theme or *)
(* limits among the settings.                                              *)
UpdateOrganization(n) ==
    LET q == req[n].q
        rows == GetOrganizationById(q.id)
        On(pc) == At(n, "updateOrganization", pc) IN
    \/ /\ On("read") /\ Statement /\ UNCHANGED tables
       /\ CASE rows = {} -> Answer(n, 500)
            [] rows # {} /\ q.with = Null -> Answer(n, 200)
            [] OTHER -> \E o \in rows : Having(n, "write", o)
    \/ /\ On("write") /\ Statement /\ UNCHANGED <<teams, members>>
       /\ IF q.with = "name" THEN UNCHANGED orgs ELSE WriteSettings(q.id, req[n].row, q.with)
       /\ IF rows = {} THEN Goto(n, "reread") ELSE Wrote(n, "reread")
    \/ /\ On("reread") /\ Reread(n, rows, 200)

DeleteOrganizationAndAnswer(n) ==
    /\ At(n, "deleteOrganization", "write") /\ Statement
    /\ DeleteOrganization(req[n].q.id) /\ AnswerWritten(n, 200)

GetMembers(n) ==
    /\ At(n, "getMembers", "list") /\ Statement /\ UNCHANGED tables
    /\ List(n, GetOrganizationMembers(req[n].q.id))

(* The row is there before its teams are set, one statement each; the last *)
(* team of the list stays.                                                 *)
InviteMember(n) ==
    LET q == req[n].q
        On(pc) == At(n, "inviteMember", pc)
        row == Invitation(n, q.who, q.id, q.with)
        AfterTeam(i) == IF i < Len(q.teams) THEN "team" ELSE "reread" IN
    \/ /\ On("user") /\ Statement /\ UNCHANGED tables
       /\ IF q.who \in Users THEN Goto(n, "existing") ELSE Answer(n, 500)
    \/ /\ On("existing") /\ Statement /\ UNCHANGED tables
       /\ IF GetMembershipByUserAndOrg(q.who, q.id) = {} THEN Goto(n, "insert") ELSE Answer(n, 500)
    \/ /\ On("insert") /\ Statement
       /\ IF MayInsertMember(row)
          THEN /\ members' = members \cup {row} /\ UNCHANGED <<orgs, teams>>
               /\ req' = [req EXCEPT ![n].pc = AfterTeam(0), ![n].row = 1, ![n].wrote = TRUE]
          ELSE Fails(n)
    \/ /\ On("team") /\ Statement
       /\ LET i == req[n].row IN
          IF MaySetTeam(RowById(members, n), q.teams[i])
          THEN /\ SetTeam(RowById(members, n), q.teams[i]) /\ UNCHANGED <<orgs, teams>>
               /\ Having(n, AfterTeam(i), i + 1)
          ELSE Fails(n)
    \/ /\ On("reread") /\ Reread(n, GetMembershipById(n), 201)

Find(n, op, place) ==
    /\ At(n, op, "find") /\ Statement /\ UNCHANGED tables
    /\ LET rows == GetMembershipByUserAndOrg(req[n].q.who, req[n].q.id) IN
       IF rows = {} THEN Answer(n, 404) ELSE \E m \in rows : Having(n, place, m.id)

UpdateMember(n) ==
    LET q == req[n].q
        On(pc) == At(n, "updateMember", pc) IN
    \/ Find(n, "updateMember", IF q.with = Null /\ ~q.bare THEN "reread" ELSE "write")
    \/ /\ On("write") /\ Statement /\ UNCHANGED <<orgs, teams>>
       /\ UpdateMembership(req[n].row, q.with, q.bare)
       /\ IF GetMembershipById(req[n].row) = {} THEN Goto(n, "reread") ELSE Wrote(n, "reread")
    \/ /\ On("reread") /\ Reread(n, GetMembershipById(req[n].row), 200)

RemoveMember(n) ==
    \/ Find(n, "removeMember", "write")
    \/ /\ At(n, "removeMember", "write") /\ Statement
       /\ RemoveMembership(req[n].row) /\ UNCHANGED <<orgs, teams>> /\ AnswerWritten(n, 200)

(* A plan that is in no table is a TypeError before any statement.         *)
UpdateSubscription(n) ==
    LET q == req[n].q
        rows == GetOrganizationById(q.id) IN
    \/ /\ At(n, "updateSubscription", "write") /\ q.with \notin SUBSCRIPTION_PLANS
       /\ Fails(n) /\ UNCHANGED free
    \/ /\ At(n, "updateSubscription", "write") /\ q.with \in SUBSCRIPTION_PLANS /\ Statement
       /\ WriteSubscription(q.id, q.with) /\ UNCHANGED <<teams, members>>
       /\ IF rows = {} THEN Goto(n, "reread") ELSE Wrote(n, "reread")
    \/ /\ At(n, "updateSubscription", "reread") /\ Reread(n, rows, 200)

(***************************************************************************)
(* team.controller. The organisation of the path and the team are not      *)
(* compared with each other.                                               *)
(***************************************************************************)
Team(n) == req[n].q.teams[1]

CreateTeam(n) ==
    LET row == NewTeam(n, req[n].q.id, req[n].q.with) IN
    \/ /\ At(n, "createTeam", "write") /\ Statement
       /\ IF MayInsertTeam(row)
          THEN teams' = teams \cup {row} /\ UNCHANGED <<orgs, members>> /\ Wrote(n, "reread")
          ELSE Fails(n)
    \/ /\ At(n, "createTeam", "reread") /\ Reread(n, GetTeamById(n), 201)

ListTeams(n) ==
    /\ At(n, "getOrganizationTeams", "list") /\ Statement /\ UNCHANGED tables
    /\ List(n, GetOrganizationTeams(req[n].q.id))

GetTeam(n) ==
    /\ At(n, "getTeam", "list") /\ Statement /\ UNCHANGED tables
    /\ IF GetTeamById(Team(n)) = {} THEN Answer(n, 404) ELSE List(n, GetTeamById(Team(n)))

UpdateTeam(n) ==
    LET q == req[n].q
        rows == GetTeamById(Team(n))
        On(pc) == At(n, "updateTeam", pc) IN
    \/ /\ On("read") /\ Statement /\ UNCHANGED tables
       /\ CASE rows = {} -> Answer(n, 500)
            [] rows # {} /\ q.with = Null -> Answer(n, 200)
            [] OTHER -> Goto(n, "write")
    \/ /\ On("write") /\ Statement /\ UNCHANGED <<orgs, members>>
       /\ WriteTeam(Team(n), q.with)
       /\ IF rows = {} THEN Goto(n, "reread") ELSE Wrote(n, "reread")
    \/ /\ On("reread") /\ Reread(n, rows, 200)

DeleteTeamAndAnswer(n) ==
    /\ At(n, "deleteTeam", "write") /\ Statement
    /\ DeleteTeam(Team(n)) /\ UNCHANGED orgs /\ AnswerWritten(n, 200)

ListTeamMembers(n) ==
    /\ At(n, "getTeamMembers", "list") /\ Statement /\ UNCHANGED tables
    /\ List(n, GetTeamMembers(Team(n)))

AddTeamMember(n) ==
    LET rows == TeamMembership(req[n].q.who, req[n].q.id) IN
    /\ At(n, "addTeamMember", "write") /\ Statement
    /\ IF MaySetTeam(rows, Team(n))
       THEN SetTeam(rows, Team(n)) /\ UNCHANGED <<orgs, teams>> /\ AnswerWritten(n, 200)
       ELSE Fails(n)

RemoveTeamMember(n) ==
    /\ At(n, "removeTeamMember", "write") /\ Statement
    /\ SetTeam(TeamMembershipIn(req[n].q.who, Team(n)), Null)
    /\ UNCHANGED <<orgs, teams>> /\ AnswerWritten(n, 200)

ListUserTeams(n) ==
    /\ At(n, "getUserTeams", "list") /\ Statement /\ UNCHANGED tables
    /\ List(n, GetUserTeams(req[n].q.by, req[n].q.id))

(* The service's operation alone.                                          *)
Accept(n) ==
    \/ /\ At(n, "acceptInvitation", "write") /\ Statement /\ UNCHANGED <<orgs, teams>>
       /\ AcceptInvitation(req[n].q.id)
       /\ IF \A m \in GetMembershipById(req[n].q.id) : m.status # "invited"
          THEN Goto(n, "reread")
          ELSE Wrote(n, "reread")
    \/ /\ At(n, "acceptInvitation", "reread")
       /\ Reread(n, GetMembershipById(req[n].q.id), 200)

-----------------------------------------------------------------------------

(* One organisation with its owner, an admin who is in its team, and the   *)
(* team, all made by requests before these.                                *)
Init ==
    /\ orgs = {NewOrganization(0, FirstSlug)}
    /\ teams = {NewTeam(0, 0, "private")}
    /\ members = {[NewOwner(0, Founder) EXCEPT !.permissions = ROLE_PERMISSIONS.owner],
                  [Invitation(MaxRequests + 1, FirstAdmin, 0, "admin")
                      EXCEPT !.status = "active", !.team = 0]}
    /\ limit \in PoolSizes /\ free = limit
    /\ req = [n \in Requests |-> Unasked]

OrganizationStep(n) ==
    \/ CreateOrganization(n) \/ GetOrganization(n) \/ ListUserOrganizations(n)
    \/ UpdateOrganization(n) \/ DeleteOrganizationAndAnswer(n) \/ GetMembers(n)
    \/ InviteMember(n) \/ UpdateMember(n) \/ RemoveMember(n) \/ UpdateSubscription(n)
TeamStep(n) ==
    \/ CreateTeam(n) \/ ListTeams(n) \/ GetTeam(n) \/ UpdateTeam(n)
    \/ DeleteTeamAndAnswer(n) \/ ListTeamMembers(n) \/ AddTeamMember(n)
    \/ RemoveTeamMember(n) \/ ListUserTeams(n) \/ Accept(n)
Step(n) ==
    \/ ExtractTenant(n) \/ RequirePermission(n) \/ RequireOwner(n) \/ RequireAdmin(n)
    \/ OrganizationStep(n) \/ TeamStep(n)

Next == /\ \E n \in Requests : (\E q \in Asked : Begin(n, q)) \/ Step(n)
        /\ UNCHANGED limit

(* The event loop and the database run every statement in the end; a       *)
(* waiting request gets a connection in turn. No request has to be made.   *)
Fairness == \A n \in Requests : WF_vars(Step(n) /\ UNCHANGED limit)
Spec == Init /\ [][Next]_vars /\ Fairness

-----------------------------------------------------------------------------

Places == {"unasked", "header", "subdomain", "default", "member", "right", "slug", "connect",
           "insertOrg", "insertOwner", "commit", "rollback", "read", "list", "find", "user",
           "existing", "insert", "team", "write", "reread", "done"}

(* The rows of the three tables, the connections and the requests have     *)
(* their types.                                                            *)
TypeOK ==
    /\ orgs \subseteq [id : Ids, slug : Slugs, theme : Themes,
                       plan : SUBSCRIPTION_PLANS, limits : Limits]
    /\ teams \subseteq [id : Ids, org : Ids, visibility : Visibilities]
    /\ members \subseteq [id : Ids, user : Users, org : Ids, team : Ids \cup {Null}, role : Roles,
                          permissions : SUBSET Permission, status : {"invited", "active"}]
    /\ limit \in PoolSizes /\ free \in 0 .. limit
    /\ \A n \in Requests : /\ req[n].pc \in Places
                           /\ req[n].pc = "done" => req[n].status \in {200, 201, 400, 403, 404, 500}

(* However requests that look first and insert later overlap, a slug names *)
(* one organisation, and a user is a member of an organisation once.       *)
UniqueKeys ==
    /\ \A o, p \in orgs : o.id = p.id \/ o.slug = p.slug => o = p
    /\ \A m, l \in members : m.id = l.id \/ (m.user = l.user /\ m.org = l.org) => m = l

(* Deleting an organisation or a team while requests that have passed      *)
(* their checks are still writing leaves no row that refers to nothing.    *)
NoDanglingRows ==
    /\ \A t \in teams : GetOrganizationById(t.org) # {}
    /\ \A m \in members : /\ GetOrganizationById(m.org) # {}
                          /\ m.team = Null \/ GetTeamById(m.team) # {}

(* createOrganization is a transaction: an organisation is never seen      *)
(* without the membership of who created it.                               *)
CreationIsAtomic ==
    \A o \in orgs' : GetOrganizationById(o.id) = {} =>
       \E m \in members' : m.org = o.id /\ m.role = "owner" /\ m.status = "active"

(* The limits of an organisation are those of its plan, until a change of  *)
(* settings brings limits of its own, or writes back limits that have been *)
(* replaced since it read them: no change of plan, and no change of        *)
(* anything else that is alone, parts them.                                *)
PlanDriftHasCause ==
    [][\A o \in orgs, p \in orgs' :
          (o.id = p.id /\ o.plan = o.limits.of /\ p.plan # p.limits.of) =>
              \E n \in Requests :
                 /\ At(n, "updateOrganization", "write") /\ req[n].q.id = o.id
                 /\ req[n].q.with \in BodyLimits \/ req[n].row.limits # o.limits]_vars

(* What a request has written and reads again for its answer is there no   *)
(* more: another request has deleted it meanwhile.                         *)
RowIsGone(n) ==
    LET q == req[n].q IN
    CASE q.op = "createOrganization" -> RowById(orgs, n) = {}
      [] q.op \in {"updateOrganization", "updateSubscription"} -> RowById(orgs, q.id) = {}
      [] q.op = "createTeam" -> RowById(teams, n) = {}
      [] q.op = "updateTeam" -> RowById(teams, Team(n)) = {}
      [] q.op = "updateMember" -> RowById(members, req[n].row) = {}
      [] q.op = "acceptInvitation" -> RowById(members, q.id) = {}
      [] OTHER -> RowById(members, n) = {}

(* An invitation whose user is invited already comes to a team that is not *)
(* there: it has been deleted, or a client made it up.                     *)
TeamIsMissing(n) ==
    /\ At(n, "inviteMember", "team")
    /\ RowById(teams, req[n].q.teams[req[n].row]) = {}

(* A request is told that it failed although its write has happened only   *)
(* if what it wrote was deleted meanwhile, or if an invitation names a     *)
(* team that is not there.                                                 *)
FailedYetWritten ==
    \A n \in Requests :
       (req[n].pc # "done" /\ req'[n].pc = "done" /\ req'[n].status = 500 /\ req'[n].wrote)
           => RowIsGone(n) \/ TeamIsMissing(n)

(* What a write leaves: an organisation together with its owner, and after *)
(* a refusal nothing but what a deletion has overtaken and an invitation   *)
(* without its teams.                                                      *)
WritesAreWhole == [][CreationIsAtomic /\ FailedYetWritten]_vars

(* A connection is held by a request in its transaction and by nobody      *)
(* else: no way out of createOrganization keeps one.                       *)
PoolAccounted ==
    free + Cardinality({n \in Requests : req[n].pc \in {"insertOrg", "insertOwner", "commit", "rollback"}})
        = limit

(* The lists agree with each other and with the checks: who is listed in a *)
(* team has that team in his list, and the active members of an            *)
(* organisation are those who find it in theirs and pass its checks.       *)
ListsAgree ==
    /\ \A t \in teams, u \in Users : u \in GetTeamMembers(t.id) <=> t \in GetUserTeams(u, t.org)
    /\ \A o \in orgs, u \in Users :
          /\ IsActive(u, o.id) <=> o \in GetUserOrganizations(u)
          /\ IsActive(u, o.id) <=> [user |-> u, status |-> "active"] \in GetOrganizationMembers(o.id)
          /\ IsActive(u, o.id) <=> HasAllPermissions(u, o.id, {})

(* In every state of the tables and of the pool.                           *)
TablesAreSound == TypeOK /\ UniqueKeys /\ NoDanglingRows /\ PoolAccounted /\ ListsAgree

(* Every request is answered: none waits for ever for a connection of the  *)
(* pool or for the lock of a slug.                                         *)
RequestsEnd == \A n \in Requests : req[n].pc # "unasked" ~> req[n].pc = "done"
=============================================================================
