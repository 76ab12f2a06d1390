------------------------------- MODULE Projects -------------------------------
(***************************************************************************)
(* Projects and their members: src/controllers/project.controller.ts over  *)
(* src/services/project.service.ts.  A service operation is the error it   *)
(* answers with, 0 if none, and the statements it then runs; a controller  *)
(* method is an action that runs them and notes the answer.  No handler    *)
(* waits for anything but the synchronous driver: each is one step, unless *)
(* the process ends between two statements.                                *)
(***************************************************************************)
EXTENDS WorkspaceTables

CONSTANT ProjectInputs      (* the bodies of POST /projects that are tried *)

VARIABLES
    reply,      (* the status code of the last answer                      *)
    torn        (* history: the projects whose creation was cut off        *)

ProjectInput == [name : {"ok", "short"}, memberIds : SUBSET (Users \cup {Stranger})]
ASSUME ProjectInputsAssumption == ProjectInputs \subseteq ProjectInput

OtherTables == <<tasks, comments, logs, nextTask, nextComment>>

(* A handler: the error is the answer and nothing changes, or it is ok.    *)
Answer(error, ok) == reply' = IF error # 0 THEN error ELSE ok

(* index.ts answers 500 to whatever a middleware passes on with next(err), *)
(* and validateBody() passes on a ValidationError.                         *)
Unhandled == 500
ValidProject(dto) == dto.name = "ok"
ProjectStatuses == {"ACTIVE", "ARCHIVED", "COMPLETED"}
ValidProjectUpdate(status) == status \in ProjectStatuses

-----------------------------------------------------------------------------
(* ProjectService.                                                         *)

IsOwner(p, user) == projects[p] = user
IsMember(p, user) == <<p, user>> \in members

CreateProjectError(dto, user) ==
    IF user \notin Users THEN 404
    ELSE IF ~(dto.memberIds \subseteq Users) THEN 404
    ELSE 0

(* What every operation of the owner checks first.                         *)
OwnerError(p, user) ==
    IF p \notin DOMAIN projects THEN 404
    ELSE IF ~IsOwner(p, user) THEN 403
    ELSE 0

MemberError(p, user) ==
    IF p \notin DOMAIN projects THEN 404
    ELSE IF ~IsMember(p, user) THEN 403
    ELSE 0

(* The user is found by the address.                                       *)
AddMemberError(p, invited, user) ==
    IF OwnerError(p, user) # 0 THEN OwnerError(p, user)
    ELSE IF invited \notin Users THEN 404
    ELSE IF IsMember(p, invited) THEN 400
    ELSE 0

(* Mutation: the owner can be removed.                                     *)
RemoveMemberErrorOfOthers(p, member, user) ==
    IF OwnerError(p, user) # 0 THEN OwnerError(p, user)
    ELSE IF ~IsMember(p, member) THEN 400
    ELSE 0

RemoveMemberError(p, member, user) ==
    IF OwnerError(p, user) # 0 THEN OwnerError(p, user)
    ELSE IF IsOwner(p, member) THEN 400
    ELSE IF ~IsMember(p, member) THEN 400
    ELSE 0

LeaveError(p, user) ==
    IF p \notin DOMAIN projects THEN 404
    ELSE IF IsOwner(p, user) THEN 400
    ELSE IF ~IsMember(p, user) THEN 400
    ELSE 0

(* getProjectStats(): the SQL counts, and the rate in whole percents.      *)
TasksOf(p) == {id \in DOMAIN tasks : tasks[id].project = p}
CountsOf(p) ==
    LET done == {id \in TasksOf(p) : tasks[id].status = "DONE"}
    IN  [total |-> Cardinality(TasksOf(p)),
         completed |-> Cardinality(done),
         pending |-> Cardinality(TasksOf(p) \ done),
         members |-> Cardinality(MembersOf(p))]
Rounded(part, whole) == (200 * part + whole) \div (2 * whole)
StatsOf(p) ==
    LET counts == CountsOf(p)
    IN  counts @@ [rate |-> IF counts.total > 0
                            THEN Rounded(counts.completed, counts.total) ELSE 0]

-----------------------------------------------------------------------------
(* ProjectController.                                                      *)

(* ProjectModel.createProject(): the owner comes first, then the others.   *)
InitialMembers(dto, user) == {user} \cup dto.memberIds

(* POST /projects.  The row of the project and those of its members are    *)
(* separate statements.                                                    *)
CreateProject(dto, user) ==
    LET error == IF ~ValidProject(dto) THEN Unhandled
                 ELSE CreateProjectError(dto, user)
        clash == ProjectId(nextProject) \in DOMAIN projects
    IN  /\ Answer(IF error # 0 THEN error ELSE IF clash THEN 500 ELSE 0, 201)
        /\ IF error # 0 THEN UNCHANGED nextProject
           ELSE nextProject <= MaxProjects /\ nextProject' = nextProject + 1
        /\ IF error # 0 \/ clash THEN UNCHANGED <<projects, members>>
           ELSE LET p == ProjectId(nextProject)
                IN  /\ projects' = WithRow(projects, p, user)
                    /\ members' = AddMembers(p, InitialMembers(dto, user))
        /\ UNCHANGED <<OtherTables, torn>>

(* PUT /projects/:id changes the name, the colour or the status, which are *)
(* left out of the tables.                                                 *)
UpdateProject(p, status, user) ==
    LET error == IF ~ValidProjectUpdate(status) THEN Unhandled
                 ELSE OwnerError(p, user)
    IN  /\ Answer(error, 200)
        /\ UNCHANGED <<projects, members, nextProject, OtherTables, torn>>

(* DELETE /projects/:id.                                                   *)
DeleteProject(p, user) ==
    LET error == OwnerError(p, user)
    IN  /\ Answer(error, 200)
        /\ IF error # 0 THEN UNCHANGED <<projects, members, tasks>>
           ELSE DeleteProjectRow(p)
        /\ torn' = IF error # 0 THEN torn ELSE torn \ {p}
        /\ UNCHANGED <<comments, logs, counters>>

(* POST /projects/:id/members.                                             *)
AddMember(p, invited, user) ==
    LET error == AddMemberError(p, invited, user)
    IN  /\ Answer(error, 200)
        /\ members' = IF error # 0 THEN members ELSE AddMembers(p, {invited})
        /\ UNCHANGED <<projects, nextProject, OtherTables, torn>>

(* DELETE /projects/:id/members/:memberId.                                 *)
RemoveMember(p, member, user) ==
    LET error == RemoveMemberError(p, member, user)
    IN  /\ Answer(error, 200)
        /\ members' = IF error # 0 THEN members ELSE members \ {<<p, member>>}
        /\ UNCHANGED <<projects, nextProject, OtherTables, torn>>

(* POST /projects/:id/leave.                                               *)
LeaveProject(p, user) ==
    LET error == LeaveError(p, user)
    IN  /\ Answer(error, 200)
        /\ members' = IF error # 0 THEN members ELSE members \ {<<p, user>>}
        /\ UNCHANGED <<projects, nextProject, OtherTables, torn>>

(* GET /projects, with or without ownedOnly.                               *)
ProjectsSeen(user, ownedOnly) ==
    {p \in DOMAIN projects : IF ownedOnly THEN IsOwner(p, user) ELSE IsMember(p, user)}

(* GET /projects/:id, /members and /stats answer members.                  *)
Read(p, user) ==
    /\ Answer(MemberError(p, user), 200)
    /\ UNCHANGED <<projects, members, nextProject, OtherTables, torn>>
GetProject(p, user) == Read(p, user)
GetProjectMembers(p, user) == Read(p, user)
GetProjectStats(p, user) == Read(p, user)

=============================================================================
