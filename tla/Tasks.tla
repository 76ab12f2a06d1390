-------------------------------- MODULE Tasks --------------------------------
(***************************************************************************)
(* Tasks, their comments and their history: the controllers and services   *)
(* for tasks, comments, activities and subtasks of src/, the events that   *)
(* src/events publishes, and the responses that cache.middleware.ts keeps. *)
(***************************************************************************)
EXTENDS Projects

CONSTANTS
    TaskInputs,     (* the bodies of POST and PUT /tasks that are tried    *)
    Paths           (* the paths that are read                             *)

VARIABLES
    cached,     (* the responses kept for one user, a function on paths    *)
    announced,  (* history: the task.completed events published of a task  *)
    cut         (* history: the tasks an update of which was cut off       *)

TaskInput == [title : {"ok", "short", Null}, status : Statuses \cup {Null},
              priority : Priorities \cup {Null},
              project : ProjectIds \cup {Null, Stranger}]
ASSUME TaskInputsAssumption == TaskInputs \subseteq TaskInput

taskHistory == <<announced, cut>>

-----------------------------------------------------------------------------
(* cache.middleware.ts.                                                    *)

List == <<"list">>
ASSUME PathsAssumption == Paths \subseteq TaskIds \cup {List}

(* What the database answers now.  A task that is not found is a 404, and  *)
(* only a 200 is kept.                                                     *)
Found(path) == path = List \/ path \in DOMAIN tasks
Response(path) == IF path = List THEN tasks ELSE [id \in {path} |-> tasks[id]]

(* The path and the user make the key; cached is what is kept for one of   *)
(* the users, any of them.                                                 *)
CacheMiddleware(path) ==
    cached' = IF path \in DOMAIN cached \/ ~Found(path) THEN cached
              ELSE WithRow(cached, path, Response(path))

(* Mutation: the pattern leaves out the lists.                             *)
InvalidateTasksOnly == cached' = [k \in DOMAIN cached \cap {List} |-> cached[k]]

(* invalidateCache(['/api/v1/tasks*']) matches all of these paths, and is  *)
(* run before the body is looked at.                                       *)
InvalidateCache == cached' = NoRows

(* The time to live of a response is over, or it is evicted.               *)
Expire(path) ==
    /\ path \in DOMAIN cached
    /\ cached' = Except(cached, {path})
    /\ UNCHANGED <<tables, counters, reply, torn, taskHistory>>

-----------------------------------------------------------------------------
(* TaskService.                                                            *)

ValidTask(dto) == dto.title = "ok"
Empty(dto) == /\ dto.title = Null /\ dto.status = Null
              /\ dto.priority = Null /\ dto.project = Null
ValidTaskUpdate(dto) == dto.title # "short" /\ ~Empty(dto)

(* createTask(): the insertion throws on a project that is not there, or   *)
(* on an identifier that is taken.                                         *)
CreateTask(dto, user) ==
    LET invalid == ~ValidTask(dto)
    IN  /\ Answer(IF invalid THEN Unhandled
                  ELSE IF InsertTaskError(dto) THEN 500 ELSE 0, 201)
        /\ IF invalid THEN UNCHANGED <<tasks, nextTask>>
           ELSE InsertTask(dto, user)
        /\ InvalidateCache
        /\ UNCHANGED <<projects, members, comments, logs, nextProject,
                       nextComment, torn, taskHistory>>

UpdateTaskError(id, dto) ==
    IF ~ValidTaskUpdate(dto) THEN Unhandled
    ELSE IF id \notin DOMAIN tasks THEN 404
    ELSE IF ~ProjectRefersToRow(dto.project) THEN 500
    ELSE 0

(* Mutation: a task that is done is announced by every update.             *)
CompletesAgain(id, dto) == Updated(tasks[id], dto).status = "DONE"

(* publishTaskCompleted(), of a task that was not done before.             *)
Completes(id, dto) ==
    tasks[id].status # "DONE" /\ Updated(tasks[id], dto).status = "DONE"

Published(id, dto) ==
    [announced EXCEPT ![id] = IF Completes(id, dto) THEN @ + 1 ELSE @]

(* The rows that updateTask() logs, of the status before the priority.     *)
Change(id, field, type, dto) ==
    LET from == tasks[id][field]
        to == Updated(tasks[id], dto)[field]
    IN  IF from = to THEN <<>>
        ELSE <<[task |-> id, type |-> type, from |-> from, to |-> to]>>
Changes(id, dto) ==
    Change(id, "status", "STATUS_CHANGE", dto)
      \o Change(id, "priority", "PRIORITY_CHANGE", dto)

(* PUT /tasks/:id.  TaskService.updateTask() updates the row, publishes    *)
(* the events and then logs.                                               *)
UpdateTask(id, dto) ==
    LET error == UpdateTaskError(id, dto)
    IN  /\ Answer(error, 200)
        /\ IF error # 0 THEN UNCHANGED <<tasks, logs, announced>>
           ELSE /\ UpdateTaskRow(id, dto)
                /\ announced' = Published(id, dto)
                /\ InsertLogs(Changes(id, dto))
        /\ InvalidateCache
        /\ UNCHANGED <<projects, members, comments, counters, torn, cut>>

(* DELETE /tasks/:id, whoever asks.                                        *)
DeleteTask(id) ==
    LET found == id \in DOMAIN tasks
    IN  /\ Answer(IF found THEN 0 ELSE 404, 200)
        /\ IF found THEN DeleteTaskRow(id)
           ELSE UNCHANGED <<tasks, comments, logs>>
        /\ announced' = [announced EXCEPT ![id] = 0]
        /\ cut' = cut \ {id}
        /\ InvalidateCache
        /\ UNCHANGED <<projects, members, counters, torn>>

(* GET /tasks/:id and GET /tasks through the cache.                        *)
GetTasks(path) ==
    /\ Answer(IF Found(path) \/ path \in DOMAIN cached THEN 0 ELSE 404, 200)
    /\ CacheMiddleware(path)
    /\ UNCHANGED <<tables, counters, torn, taskHistory>>

(* POST /tasks/:id/attachments: findById() hands out the raw row, without  *)
(* the property that is compared with the user.                            *)
UploadAttachment(id) ==
    LET refused == "userId" \notin TaskColumns
    IN  /\ Answer(IF id \notin DOMAIN tasks \/ refused THEN Unhandled ELSE 0, 200)
        /\ UNCHANGED <<tables, counters, torn, cached, taskHistory>>

-----------------------------------------------------------------------------
(* CommentService and ActivityService.                                     *)

CommentLog(task, c) == <<[task |-> task, type |-> "COMMENT_ADDED", comment |-> c]>>

(* POST /tasks/:taskId/comments.                                           *)
CreateComment(task, user) ==
    LET found == task \in DOMAIN tasks
    IN  /\ Answer(IF found THEN 0 ELSE Unhandled, 201)
        /\ IF found THEN /\ InsertComment(task, user)
                         /\ InsertLogs(CommentLog(task, nextComment))
           ELSE UNCHANGED <<comments, logs, nextComment>>
        /\ UNCHANGED <<projects, members, tasks, nextTask, nextProject, torn,
                       cached, taskHistory>>

AuthorError(c, user) ==
    IF c \notin DOMAIN comments \/ comments[c].user # user THEN Unhandled ELSE 0

(* PUT /comments/:id, of the text, and DELETE /comments/:id.               *)
EditComment(c, user) ==
    /\ Answer(AuthorError(c, user), 200)
    /\ UNCHANGED <<tables, counters, torn, cached, taskHistory>>
RemoveComment(c, user) ==
    /\ Answer(AuthorError(c, user), 200)
    /\ IF AuthorError(c, user) # 0 THEN UNCHANGED comments ELSE DeleteComment(c)
    /\ UNCHANGED <<projects, members, tasks, logs, counters, torn, cached, taskHistory>>

(* /subtasks: the schema creates no table of that name, and the statement  *)
(* fails when it is prepared; only a task that is missing is noticed first. *)
SchemaTables == {"users", "projects", "project_members", "tasks", "comments",
                 "saved_searches", "activity_logs", "refresh_tokens"}
Subtask(task) ==
    /\ Answer(IF task \notin DOMAIN tasks \/ "subtasks" \notin SchemaTables
              THEN Unhandled ELSE 0, 201)
    /\ UNCHANGED <<tables, counters, torn, cached, taskHistory>>

(* /workflow/rules: nor does it create that of the rules, to which every   *)
(* statement of WorkflowRuleService refers.                                *)
RuleError == IF "workflow_rules" \notin SchemaTables THEN 500 ELSE 0
WorkflowRule ==
    /\ Answer(RuleError, 200)
    /\ UNCHANGED <<tables, counters, torn, cached, taskHistory>>

=============================================================================
