\* Two users, two tasks, one project, one comment, two rows of history.
SPECIFICATION WorkspaceSpec
CONSTANTS
    u1 = u1
    u2 = u2
    stranger = stranger
    Users = {u1, u2}
    Stranger = stranger
    Null = Null
    Statuses = {"TODO", "DONE"}
    Priorities = {"MEDIUM", "HIGH"}
    MaxTasks = 2
    MaxProjects = 1
    MaxComments = 1
    MaxLogs = 2
    MaxLimit = 2
    TaskInputs <- SomeTaskInputs
    Paths <- SomePaths
    ProjectInputs <- SomeProjectInputs
SYMMETRY Symmetric
VIEW View
INVARIANTS TablesAgree HistoryIsComplete CachedTasksAreCurrent
PROPERTY RequestsLeaveNoTrace
