----------------------------- MODULE TaskQueries -----------------------------
(***************************************************************************)
(* What is read of the tasks: the pages of TaskService.getAllTasks() with  *)
(* utils/pagination.ts and findAllPaginated() of the repository, the other *)
(* finders and the statistics, and the search of search.service.ts.  These *)
(* change nothing: they are operators on the tables.                       *)
(***************************************************************************)
EXTENDS Tasks, FiniteSetsExt

CONSTANT MaxLimit   (* PaginationUtil.MAX_LIMIT, 100 in the code           *)
ASSUME MaxLimitAssumption == MaxLimit \in Nat \ {0}

DefaultPage == 1
DefaultLimit == 10

-----------------------------------------------------------------------------
(* utils/pagination.ts.  What is not given, or 0, takes the default.       *)

ValidateParams(page, limit) ==
    [page |-> IF page = Null THEN DefaultPage ELSE Max({page, 1}),
     limit |-> IF limit = Null THEN DefaultLimit
               ELSE IF limit < 1 THEN DefaultLimit ELSE Min({limit, MaxLimit})]

CalculateOffset(page, limit) == (page - 1) * limit

CreateMeta(page, limit, total) ==
    LET totalPages == (total + limit - 1) \div limit
    IN  [currentPage |-> page, totalPages |-> totalPages, totalItems |-> total,
         hasNextPage |-> page < totalPages, hasPreviousPage |-> page > 1]

-----------------------------------------------------------------------------
(* TaskRepository.                                                         *)

(* The clauses of WHERE, of the filters that are given.                    *)
Matches(row, filter) ==
    /\ filter.user # Null => row.user = filter.user
    /\ filter.status # {} => row.status \in filter.status
    /\ filter.priority # {} => row.priority \in filter.priority

NoFilter == [user |-> Null, status |-> {}, priority |-> {}]

(* ORDER BY puts the text of sortBy into the statement: an error unless it *)
(* is the name of a column.                                                *)
SortBys == {"createdAt", "updatedAt", "title", "priority", "dueDate"}
DefaultSortBy == "createdAt"
Sortable(sortBy) == sortBy \in TaskColumns

(* The priorities in the order of their texts; rows that tie are given in  *)
(* the order of the table.                                                 *)
TextOrder == <<"HIGH", "LOW", "MEDIUM", "URGENT">>
TextRank(priority) == CHOOSE n \in DOMAIN TextOrder : TextOrder[n] = priority
Precedes(a, b) ==
    LET x == TextRank(tasks[a].priority)  y == TextRank(tasks[b].priority)
    IN  x < y \/ (x = y /\ a[2] < b[2])
Sorted(filter) ==
    SetToSortSeq({id \in DOMAIN tasks : Matches(tasks[id], filter)}, Precedes)

(* LIMIT and OFFSET.                                                       *)
FindAllPaginated(page, limit, filter) ==
    LET rows == Sorted(filter)
        offset == CalculateOffset(page, limit)
    IN  [tasks |-> SubSeq(rows, offset + 1, Min({offset + limit, Len(rows)})),
         total |-> Len(rows)]

FindWithFilters(filter) == {id \in DOMAIN tasks : Matches(tasks[id], filter)}
FindByUserId(user) == FindWithFilters([NoFilter EXCEPT !.user = user])
FindByStatus(status) == FindWithFilters([NoFilter EXCEPT !.status = {status}])
FindByPriority(priority) == FindWithFilters([NoFilter EXCEPT !.priority = {priority}])

-----------------------------------------------------------------------------
(* TaskService.                                                            *)

(* A list in the order of the priorities.                                  *)
GetAllTasks(page, limit, filter) ==
    LET params == ValidateParams(page, limit)
        found == FindAllPaginated(params.page, params.limit, filter)
    IN  [data |-> found.tasks,
         pagination |-> CreateMeta(params.page, params.limit, found.total)]

(* A list is an error unless the request names a column; the dashboard     *)
(* names none.                                                             *)
ListError(sortBy) == IF Sortable(Default(sortBy, DefaultSortBy)) THEN 0 ELSE 500
DashboardError == ListError(Null)

(* getTaskStatistics() of a user, or of everyone.                          *)
Statistics(user) ==
    LET found == IF user = Null THEN DOMAIN tasks ELSE FindByUserId(user)
    IN  [total |-> Cardinality(found),
         byStatus |-> [s \in Statuses |-> Cardinality(found \cap FindByStatus(s))],
         byPriority |-> [p \in Priorities |-> Cardinality(found \cap FindByPriority(p))]]

-----------------------------------------------------------------------------
(* search.service.ts asks for columns that the tables do not have.         *)

SearchColumns == {"title", "description", "tags", "status", "priority", "user_id",
                  "assignee_id", "project_id", "created_at"}
FacetColumns == {"status", "priority", "user_id", "assignee_id", "title"}
SuggestionColumns == {"title", "user_id", "assignee_id"}
SearchError(columns) == IF columns \subseteq TaskColumns THEN 0 ELSE 500

(* GET /search: the statement of the tasks comes before that of the facets. *)
Search ==
    /\ Answer(IF SearchError(SearchColumns) # 0 THEN 500
              ELSE SearchError(FacetColumns), 200)
    /\ UNCHANGED <<tables, counters, torn, cached, taskHistory>>

(* GET /search/suggestions of a text, which answers nothing to a short one. *)
Suggestions(text) ==
    /\ Answer(IF text = "short" THEN 0 ELSE SearchError(SuggestionColumns), 200)
    /\ UNCHANGED <<tables, counters, torn, cached, taskHistory>>

(* GET /tasks, v1/tasks and v2/tasks.                                      *)
ListTasks(sortBy) ==
    /\ Answer(ListError(sortBy), 200)
    /\ UNCHANGED <<tables, counters, torn, cached, taskHistory>>

(* GET /tasks/dashboard.                                                   *)
Dashboard ==
    /\ Answer(DashboardError, 200)
    /\ UNCHANGED <<tables, counters, torn, cached, taskHistory>>

=============================================================================
