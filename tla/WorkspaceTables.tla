--------------------------- MODULE WorkspaceTables ---------------------------
(***************************************************************************)
(* The tables projects, project_members, tasks, comments and activity_logs *)
(* of src/database/schema.ts and the statements that the repositories run  *)
(* on them.  The driver is synchronous and every statement commits by      *)
(* itself; foreign_keys is ON.  Accounts are not deleted (see Accounts),   *)
(* so that the rows that refer to users always can.                        *)
(***************************************************************************)
EXTENDS Naturals, Sequences, FiniteSets, SequencesExt, Subsequences

CONSTANTS
    Users,          (* the identifiers of the accounts                     *)
    Stranger,       (* an identifier no account has                        *)
    Null,
    Statuses, Priorities,
    MaxTasks, MaxProjects,  (* bound: the identifiers a process may draw   *)
    MaxComments,    (* bound: the comments ever written                    *)
    MaxLogs         (* bound: the rows of activity_logs                    *)

VARIABLES projects, members, tasks, comments, logs,
          nextTask, nextProject,    (* the idCounter of the repositories   *)
          nextComment               (* randomUUID(): never drawn twice     *)

tables == <<projects, members, tasks, comments, logs>>
counters == <<nextTask, nextProject, nextComment>>

(* The text of an identifier: generateId() puts a word before the number.  *)
TaskId(n) == <<"task", n>>
ProjectId(n) == <<"project", n>>
FirstTask == 1000
TaskIds == {TaskId(n) : n \in FirstTask..(FirstTask + MaxTasks - 1)}
ProjectIds == {ProjectId(n) : n \in 1..MaxProjects}

ASSUME TablesAssumption ==
    /\ Stranger \notin Users
    /\ Null \notin Users /\ Null \notin ProjectIds
    /\ Null \notin Statuses /\ Null \notin Priorities
    /\ {"TODO", "DONE"} \subseteq Statuses
    /\ "MEDIUM" \in Priorities
    /\ {MaxTasks, MaxProjects, MaxComments, MaxLogs} \subseteq Nat

(* Of a project only the owner matters here, of a comment its author.      *)
TaskRow == [user : Users, project : ProjectIds \cup {Null},
            status : Statuses, priority : Priorities]
CommentRow == [task : TaskIds, user : Users]
LogRow == [task : TaskIds, type : {"STATUS_CHANGE"},
           from : Statuses, to : Statuses]
            \cup [task : TaskIds, type : {"PRIORITY_CHANGE"},
                  from : Priorities, to : Priorities]
            \cup [task : TaskIds, type : {"COMMENT_ADDED"}, comment : Nat]

NoRows == [id \in {} |-> Null]

TablesOK ==
    /\ DOMAIN projects \subseteq ProjectIds
    /\ \A id \in DOMAIN projects : projects[id] \in Users
    /\ members \subseteq ProjectIds \X Users
    /\ DOMAIN tasks \subseteq TaskIds
    /\ \A id \in DOMAIN tasks : tasks[id] \in TaskRow
    /\ DOMAIN comments \subseteq 1..MaxComments
    /\ \A id \in DOMAIN comments : comments[id] \in CommentRow
    /\ \A n \in DOMAIN logs : logs[n] \in LogRow
    /\ nextTask \in FirstTask..(FirstTask + MaxTasks)
    /\ nextProject \in 1..(MaxProjects + 1)
    /\ nextComment \in 1..(MaxComments + 1)

InitTables ==
    /\ projects = NoRows /\ members = {} /\ tasks = NoRows
    /\ comments = NoRows /\ logs = <<>>
    /\ nextTask = FirstTask /\ nextProject = 1 /\ nextComment = 1

Except(table, gone) == [id \in DOMAIN table \ gone |-> table[id]]
WithRow(table, id, row) ==
    [k \in DOMAIN table \cup {id} |-> IF k = id THEN row ELSE table[k]]

-----------------------------------------------------------------------------
(* The table tasks.                                                        *)

(* REFERENCES projects(id), of a project that is given.                    *)
ProjectRefersToRow(project) == project = Null \/ project \in DOMAIN projects

(* INSERT INTO tasks: what is not given has a default, and the identifier  *)
(* is spent whether or not the row goes in.                                *)
Default(value, otherwise) == IF value = Null THEN otherwise ELSE value
InsertTaskError(dto) ==
    TaskId(nextTask) \in DOMAIN tasks \/ ~ProjectRefersToRow(dto.project)
NewTask(dto, user) ==
    [user |-> user, project |-> dto.project,
     status |-> Default(dto.status, "TODO"),
     priority |-> Default(dto.priority, "MEDIUM")]

InsertTask(dto, user) ==
    /\ nextTask < FirstTask + MaxTasks
    /\ nextTask' = nextTask + 1
    /\ tasks' = IF InsertTaskError(dto) THEN tasks
                ELSE WithRow(tasks, TaskId(nextTask), NewTask(dto, user))

(* UPDATE tasks SET the fields that are given.                             *)
Updated(row, dto) ==
    [row EXCEPT !.status = Default(dto.status, @),
                !.priority = Default(dto.priority, @),
                !.project = Default(dto.project, @)]
UpdateTaskRow(id, dto) == tasks' = [tasks EXCEPT ![id] = Updated(@, dto)]

(* Mutation: foreign keys are not enforced.                                *)
DeleteTaskRowOnly(id) ==
    /\ tasks' = Except(tasks, {id})
    /\ UNCHANGED <<comments, logs>>

(* DELETE FROM tasks, which takes the comments and the logs along.         *)
DeleteTaskRow(id) ==
    /\ tasks' = Except(tasks, {id})
    /\ comments' = Except(comments, {c \in DOMAIN comments : comments[c].task = id})
    /\ logs' = Kept(logs, {n \in DOMAIN logs : logs[n].task # id})

(* The columns of tasks.  Only what parseTasks() makes of a row has the    *)
(* names userId, dueDate, createdAt and the others.                        *)
TaskColumns == {"id", "title", "description", "status", "priority", "user_id",
                "project_id", "due_date", "tags", "attachments", "created_at",
                "updated_at"}

-----------------------------------------------------------------------------
(* The tables projects and project_members.                                *)

MembersOf(p) == {u \in Users : <<p, u>> \in members}

(* INSERT INTO project_members, one row after the other; a row that is     *)
(* there already is an error that addMembers() ignores.                    *)
AddMembers(p, users) == members \cup {<<p, u>> : u \in users \cap Users}

(* DELETE FROM projects: members go along, tasks lose their project.       *)
DeleteProjectRow(p) ==
    /\ projects' = Except(projects, {p})
    /\ members' = {m \in members : m[1] # p}
    /\ tasks' = [id \in DOMAIN tasks |->
                   IF tasks[id].project = p THEN [tasks[id] EXCEPT !.project = Null]
                   ELSE tasks[id]]

-----------------------------------------------------------------------------
(* The tables comments and activity_logs.                                  *)

InsertComment(task, user) ==
    /\ nextComment <= MaxComments
    /\ nextComment' = nextComment + 1
    /\ comments' = WithRow(comments, nextComment, [task |-> task, user |-> user])
DeleteComment(c) == comments' = Except(comments, {c})

(* ActivityRepository.create(), of any number of rows.                     *)
InsertLogs(rows) ==
    /\ Len(logs) + Len(rows) <= MaxLogs
    /\ logs' = logs \o rows
HistoryOf(task) == {n \in DOMAIN logs : logs[n].task = task}     \* their places

=============================================================================
