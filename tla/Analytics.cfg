CONSTANTS
    u1 = u1
    u2 = u2
    Users = {u1, u2}
    Words = {"bug", "report", "integration", "great", "fix", "the"}
    Inputs <- MCInputs
    Null = Null
    MaxTasks = 3
    MaxPasses = 2
    MaxDay = 8
    MaxChanges = 2
    StatusChanges <- MCStatusChanges
    UrgentWords = {"bug"}
    ComplexWords = {"integration"}
    SimpleWords = {"fix"}
    PositiveWords = {"great"}
    NegativeWords = {"bug"}
    ShortWords = {"bug", "fix", "the"}
    LongTitle = 2
SPECIFICATION Spec
INVARIANTS FiguresAgree AnswersAreSound
CHECK_DEADLOCK FALSE
