------------------------------ MODULE Workspace ------------------------------
(***************************************************************************)
(* The workspace as a whole: projects and tasks behind REST, GraphQL       *)
(* (src/graphql, src/routes/graphql.routes.ts) and gRPC (src/grpc), with a *)
(* process that may end between any two statements and start again.        *)
(***************************************************************************)
EXTENDS TaskQueries

workspaceVars == <<tables, counters, reply, torn, cached, taskHistory>>

WorkspaceTypeOK ==
    /\ TablesOK
    /\ reply \in Nat
    /\ torn \subseteq ProjectIds
    /\ DOMAIN cached \subseteq Paths
    /\ \A k \in DOMAIN cached : \A id \in DOMAIN cached[k] : cached[k][id] \in TaskRow
    /\ announced \in [TaskIds -> Nat]
    /\ cut \subseteq TaskIds

WorkspaceInit ==
    /\ InitTables
    /\ reply = 0
    /\ torn = {}
    /\ cached = NoRows
    /\ announced = [id \in TaskIds |-> 0]
    /\ cut = {}

-----------------------------------------------------------------------------
(* The process starts again: the counters begin anew, the cache is empty.  *)
Boot ==
    /\ nextTask' = FirstTask
    /\ nextProject' = 1
    /\ cached' = NoRows
    /\ reply' = 0

Restart ==
    /\ Boot
    /\ UNCHANGED <<tables, nextComment, torn, taskHistory>>

(* Bound: of the rows there are at a time, one operation was cut off.      *)
NoCut == torn = {} /\ cut = {}

(* createProject() ends after the row of the project and those of some of  *)
(* the members; the owner's is the first.                                  *)
CreateProjectCut(dto, user, done) ==
    LET p == ProjectId(nextProject)
        all == InitialMembers(dto, user)
    IN  /\ NoCut
        /\ ValidProject(dto) /\ CreateProjectError(dto, user) = 0
        /\ nextProject <= MaxProjects /\ p \notin DOMAIN projects
        /\ done \subseteq all /\ done # all /\ (done # {} => user \in done)
        /\ projects' = WithRow(projects, p, user)
        /\ members' = AddMembers(p, done)
        /\ torn' = torn \cup {p}
        /\ Boot
        /\ UNCHANGED <<tasks, comments, logs, nextComment, taskHistory>>

(* updateTask() ends after the row and some of the logs.                   *)
UpdateTaskCut(id, dto, done) ==
    /\ NoCut
    /\ UpdateTaskError(id, dto) = 0
    /\ done < Len(Changes(id, dto))
    /\ UpdateTaskRow(id, dto)
    /\ InsertLogs(SubSeq(Changes(id, dto), 1, done))
    /\ announced' \in {announced, Published(id, dto)}
    /\ cut' = cut \cup {id}
    /\ Boot
    /\ UNCHANGED <<projects, members, comments, nextComment, torn>>

(* createComment() ends before its log.                                    *)
CreateCommentCut(task, user) ==
    /\ NoCut
    /\ task \in DOMAIN tasks
    /\ InsertComment(task, user)
    /\ cut' = cut \cup {task}
    /\ Boot
    /\ UNCHANGED <<projects, members, tasks, logs, torn, announced>>

-----------------------------------------------------------------------------
(* GraphQL.  graphql() looks a field of the query up in rootValue, which   *)
(* holds the four groups of resolvers and no field of a query: none of     *)
(* them is ever called, and the answer is null with a status of 200.       *)
RootFields == {"Query", "Mutation", "Task", "Project"}

(* updateTask() with no user, hence with no events and no logs, and past   *)
(* the cache; likewise deleteTask().  UpdateTaskInput has no project.      *)
GraphQLUpdateTask(id, dto) ==
    /\ reply' = 200
    /\ IF "updateTask" \in RootFields /\ id \in DOMAIN tasks
       THEN UpdateTaskRow(id, [dto EXCEPT !.project = Null])
       ELSE UNCHANGED tasks
    /\ UNCHANGED <<projects, members, comments, logs, counters, torn, cached, taskHistory>>
GraphQLDeleteTask(id) ==
    /\ reply' = 200
    /\ IF "deleteTask" \in RootFields THEN DeleteTaskRow(id)
       ELSE UNCHANGED <<tasks, comments, logs>>
    /\ UNCHANGED <<projects, members, counters, torn, cached, taskHistory>>

-----------------------------------------------------------------------------
(* gRPC, a process of its own on the same database.  Its identifiers are   *)
(* numbers, and no text of a number is the identifier of a task.           *)
NotFound == 5
Internal == 13
GrpcId(n) == <<"number", n>>

(* create() is called without a user, and user_id is NOT NULL.             *)
GrpcCreateTask ==
    /\ reply' = Internal
    /\ UNCHANGED <<tables, counters, torn, cached, taskHistory>>
GrpcGetTask(n) ==
    /\ reply' = IF GrpcId(n) \in DOMAIN tasks THEN 0 ELSE NotFound
    /\ UNCHANGED <<tables, counters, torn, cached, taskHistory>>

(* update() returns null, whose properties are then asked for.             *)
GrpcUpdateTask(n, dto) ==
    LET found == GrpcId(n) \in DOMAIN tasks
    IN  /\ reply' = IF found THEN 0 ELSE Internal
        /\ IF found THEN UpdateTaskRow(GrpcId(n), dto) ELSE UNCHANGED tasks
        /\ UNCHANGED <<projects, members, comments, logs, counters, torn, cached,
                       taskHistory>>

(* delete() is a success, whatever it finds.                               *)
GrpcDeleteTask(n) ==
    /\ reply' = 0
    /\ DeleteTaskRow(GrpcId(n))
    /\ UNCHANGED <<projects, members, counters, torn, cached, taskHistory>>

-----------------------------------------------------------------------------
ProjectRequest ==
    \/ \E dto \in ProjectInputs, user \in Users : CreateProject(dto, user)
    \/ \E p \in ProjectIds, user \in Users :
         \/ \E status \in {"ARCHIVED", "nonsense"} : UpdateProject(p, status, user)
         \/ DeleteProject(p, user)
         \/ \E other \in Users \cup {Stranger} : AddMember(p, other, user)
         \/ \E other \in Users : RemoveMember(p, other, user)
         \/ LeaveProject(p, user)
         \/ GetProject(p, user) \/ GetProjectMembers(p, user) \/ GetProjectStats(p, user)

TaskRequest ==
    \/ \E dto \in TaskInputs, user \in Users : CreateTask(dto, user)
    \/ \E id \in TaskIds, dto \in TaskInputs : UpdateTask(id, dto)
    \/ \E id \in TaskIds : DeleteTask(id)
    \/ \E path \in Paths : GetTasks(path)
    \/ \E id \in TaskIds : UploadAttachment(id)
    \/ \E id \in TaskIds, user \in Users : CreateComment(id, user)
    \/ \E c \in 1..MaxComments, user \in Users : EditComment(c, user)
    \/ \E c \in 1..MaxComments, user \in Users : RemoveComment(c, user)
    \/ \E id \in TaskIds : Subtask(id)
    \/ Search
    \/ \E text \in {"short", "long"} : Suggestions(text)
    \/ \E sortBy \in SortBys \cup {Null} : ListTasks(sortBy)
    \/ Dashboard
    \/ WorkflowRule

OtherRequest ==
    \/ \E id \in TaskIds, dto \in TaskInputs : GraphQLUpdateTask(id, dto)
    \/ \E id \in TaskIds : GraphQLDeleteTask(id)
    \/ GrpcCreateTask
    \/ GrpcGetTask(FirstTask)
    \/ \E dto \in TaskInputs : GrpcUpdateTask(FirstTask, dto)
    \/ GrpcDeleteTask(FirstTask)

Crash ==
    \/ Restart
    \/ \E dto \in ProjectInputs, user \in Users, done \in SUBSET Users :
         CreateProjectCut(dto, user, done)
    \/ \E id \in TaskIds, dto \in TaskInputs, done \in {0, 1} : UpdateTaskCut(id, dto, done)
    \/ \E id \in TaskIds, user \in Users : CreateCommentCut(id, user)

WorkspaceNext ==
    \/ ProjectRequest /\ UNCHANGED <<cached, taskHistory>>
    \/ TaskRequest
    \/ OtherRequest
    \/ Crash
    \/ \E path \in Paths : Expire(path)

WorkspaceSpec == WorkspaceInit /\ [][WorkspaceNext]_workspaceVars

-----------------------------------------------------------------------------
(* Properties.                                                             *)

ChainTo(entries, value) ==
    \A n \in DOMAIN entries :
        entries[n].to = IF n = Len(entries) THEN value ELSE entries[n + 1].from

(* The rows of a task that are about one field, in their order, and those  *)
(* that say it became DONE, by their places.                               *)
ChangesOf(id, type) == Kept(logs, {n \in HistoryOf(id) : logs[n].type = type})
CompletionsOf(id) ==
    {n \in HistoryOf(id) : logs[n].type = "STATUS_CHANGE" /\ logs[n].to = "DONE"}

(* The history of a task accounts for what it is: the changes of a field   *)
(* that updateTask() logs form a chain that ends in its present value, and *)
(* no request of any interface changes a task past its history.  Only an   *)
(* update that was cut off between the row and its logs leaves a gap.      *)
HistoryExplainsTask ==
    \A id \in DOMAIN tasks \ cut :
        /\ ChainTo(ChangesOf(id, "STATUS_CHANGE"), tasks[id].status)
        /\ ChainTo(ChangesOf(id, "PRIORITY_CHANGE"), tasks[id].priority)

(* task.completed is published once for every time a task becomes DONE,    *)
(* as its history counts them, and not for later updates of a done task.   *)
CompletionsAnnounced ==
    \A id \in DOMAIN tasks \ cut : announced[id] = Cardinality(CompletionsOf(id))

(* Every comment has its COMMENT_ADDED row, but for one that was cut off.  *)
CommentsAreInHistory ==
    \A c \in DOMAIN comments : comments[c].task \notin cut =>
        \E n \in DOMAIN logs : /\ logs[n].type = "COMMENT_ADDED"
                               /\ logs[n].comment = c
                               /\ logs[n].task = comments[c].task

(* The history, the events and the comments of a task tell the same story, *)
(* whichever interface changed it and wherever a request was cut off.      *)
HistoryIsComplete == HistoryExplainsTask /\ CompletionsAnnounced /\ CommentsAreInHistory

(* The owner of a project is a member of it, whoever is removed, leaves or *)
(* is invited, so that the list of his own projects is part of the list of *)
(* his projects; only a creation that was cut off leaves an owner outside, *)
(* whom getProjectById() then refuses.                                     *)
OwnersAreMembers ==
    \A user \in Users : ProjectsSeen(user, TRUE) \ torn \subseteq ProjectsSeen(user, FALSE)

(* The identifiers of generateId() repeat after a restart: a task or a     *)
(* project that takes one over inherits no comments, no history, no tasks  *)
(* and no members of the one that was deleted.                             *)
ReusedIdsAreBlank ==
    /\ \A id \in DOMAIN tasks' \ DOMAIN tasks :
          /\ \A c \in DOMAIN comments' : comments'[c].task # id
          /\ \A n \in DOMAIN logs' : logs'[n].task # id
    /\ \A p \in DOMAIN projects' \ DOMAIN projects :
          /\ \A id \in DOMAIN tasks' : tasks'[id].project # p
          /\ \A m \in members : m[1] # p

(* A request that is answered with an error has changed no table, although *)
(* no handler runs in a transaction.                                       *)
Refused(code) == code >= 400 \/ code \in {NotFound, Internal}
RefusalsChangeNothing == Refused(reply') => UNCHANGED tables

(* What a request leaves in the tables: nothing when it is refused, and    *)
(* rows of its own when it creates something.                              *)
RequestsLeaveNoTrace == [][ReusedIdsAreBlank /\ RefusalsChangeNothing]_workspaceVars

(* A response that is kept is what the database would answer now.  Only    *)
(* the project of a task may be outdated, when it has been deleted: that   *)
(* request empties no cache.                                               *)
CachedTasksAreCurrent ==
    \A k \in DOMAIN cached :
        /\ Found(k)
        /\ DOMAIN cached[k] = DOMAIN Response(k)
        /\ \A id \in DOMAIN cached[k] :
             cached[k][id] # tasks[id] =>
               /\ tasks[id] = [cached[k][id] EXCEPT !.project = Null]
               /\ cached[k][id].project \notin torn

(* The pages of a list, one after the other up to totalPages, give every   *)
(* task that matches once, in order, and the last says it is the last.     *)
PagesPartition ==
    \A filter \in {[NoFilter EXCEPT !.user = u, !.status = s] :
                      u \in Users \cup {Null}, s \in {{}, {"TODO"}}},
       limit \in 1..MaxLimit :
        LET page(n) == GetAllTasks(n, limit, filter)
            pages == page(1).pagination.totalPages
        IN  /\ FlattenSeq([n \in 1..pages |-> page(n).data]) = Sorted(filter)
            /\ \A n \in 1..pages : page(n).pagination.hasNextPage <=> n < pages
            /\ page(pages + 1).data = <<>>

(* The figures of the projects and of the users add up to the same tasks:  *)
(* counted by project, by user or by status, none is missed or counted     *)
(* twice.                                                                  *)
SumOver(S, f(_)) == FoldSet(LAMBDA x, sum : f(x) + sum, 0, S)
FiguresAgree ==
    LET loose == {id \in DOMAIN tasks : tasks[id].project = Null}
        done == Statistics(Null).byStatus["DONE"]
    IN  /\ SumOver(DOMAIN projects, LAMBDA p : StatsOf(p).total)
             + Cardinality(loose) = Statistics(Null).total
        /\ SumOver(Users, LAMBDA u : Statistics(u).byStatus["DONE"]) = done
        /\ SumOver(DOMAIN projects, LAMBDA p : StatsOf(p).completed)
             + Cardinality({id \in loose : tasks[id].status = "DONE"}) = done

(* In every state the tables agree with each other and with the lists and  *)
(* figures that are made of them.                                          *)
TablesAgree == WorkspaceTypeOK /\ OwnersAreMembers /\ PagesPartition /\ FiguresAgree

=============================================================================
