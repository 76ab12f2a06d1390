\* Two calls at once, three in all, backups of which one is kept, three migrations, three tables.
SPECIFICATION MaintenanceSpec
CONSTANTS
    a = a
    b = b
    Callers = {a, b}
    Torn = Torn
    NoFile = NoFile
    Environment = "production"
    MaxBackups = 1
    MaxIds = 3
    MaxCalls = 3
    Files <- SomeFiles
    Tables <- SomeTables
    Users = "users"
    Contents <- SomeContents
SYMMETRY Symmetric
INVARIANTS RecordsAreTrue RestoreKeepsDatabase
PROPERTIES CallsDoTheirWork StartsFailForAReason CleanupKeepsNewer
CHECK_DEADLOCK FALSE
