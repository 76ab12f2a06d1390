----------------------------- MODULE Maintenance -----------------------------
(***************************************************************************)
(* The upkeep of the database file: migrations at every start and on       *)
(* request, backups and restores on request and by the nightly jobs, and   *)
(* crashes at any moment. The database that is backed up and restored is   *)
(* the one whose schema and table of migrations the migrator changes.      *)
(*                                                                         *)
(* A start that fails leaves no server: initializeDatabase() rejects and   *)
(* nothing catches it. The routes of migrations and of backups are         *)
(* modelled as if their modules could be loaded, the former with the       *)
(* connection that they mean to import.                                    *)
(***************************************************************************)
EXTENDS Migrator, Backups

CONSTANTS Environment,   \* NODE_ENV
          MaxCalls       \* bound: calls that are begun

ASSUME MaintenanceAssumption == Database \subseteq Contents /\ MaxCalls \in Nat

VARIABLES serving,       \* a server is there
          deployed,      \* files of migrations in the present release
          incidents      \* what has happened that explains damage (history variable)
maintenanceVars == <<backupVars, serving, deployed, incidents>>

Release == SubSeq(Files, 1, deployed)
Whole == db # Torn
Busy(c) == ~Reached(c, "idle")
Restoring(c) == calls[c].op = "restore"

(* The scheduler knows the jobs that are enabled; cron starts a run of     *)
(* each at its time, whether or not the last one has ended.                *)
Jobs ==
    [cleanupTokens |-> TRUE, cleanupLogs |-> TRUE, fullCleanup |-> TRUE,
     taskReminders |-> Environment \in {"production", "development"},
     databaseBackup |-> Environment = "production"]
Schedule(job) == Jobs[job]

(* The backups of the controller's own schedule are not tied to a job.     *)
Nightly == Schedule("databaseBackup")

Marks(c, op) ==
    (IF \E d \in Callers \ {c} : Busy(d) THEN {"overlap"} ELSE {})
    \cup (IF op = "delete" THEN {"deletion"} ELSE {})

Ask(c, op, id) ==
    /\ serving /\ begun.calls < MaxCalls
    /\ begun' = [calls |-> begun.calls + 1,
                 ids |-> IF op = "create" THEN begun.ids + 1 ELSE begun.ids]
    /\ Begin(c, op, id)
    /\ incidents' = incidents \cup Marks(c, op)
    /\ UNCHANGED <<serving, deployed>>

AskCreate(c) == begun.ids < MaxIds /\ Ask(c, "create", begun.ids + 1)
AskDelete(c) == \E id \in 1 .. begun.ids : Ask(c, "delete", id)
AskRestore(c) == \E id \in 1 .. begun.ids : Ask(c, "restore", id)
AskVerify(c) == \E id \in 1 .. begun.ids : Ask(c, "verify", id)
FireBackupJob(c) == Nightly /\ AskCreate(c)

Work(c) == serving /\ Step(c) /\ UNCHANGED <<serving, deployed, incidents>>

ChangeDatabase(new, mark) ==
    /\ serving /\ Whole /\ db' = new
    /\ incidents' = incidents \cup mark
                      \cup (IF \E c \in Callers : Busy(c) THEN {"overlap"} ELSE {})
    /\ UNCHANGED <<temp, files, meta, calls, begun, said, serving, deployed>>

RunMigrationsOnRequest == ChangeDatabase(RunMigrations(db, ToRun(db, Release)).db, {})
RollbackOnRequest ==
    /\ db # Torn /\ db.rows # {}
    /\ \E steps \in 1 .. Len(Files) : ChangeDatabase(Rollback(db, steps), {"rollback"})

(* The process ends; files keep what has been written. This release or a   *)
(* later one starts: it opens the database, runs what is pending, makes    *)
(* the tables that are not there and seeds them.                           *)
InitializeDatabase(release) ==
    LET run == RunMigrations(db, ToRun(db, release))
        made == CreateTables(run.db, Len(Tables))
    IN  \/ ~Whole /\ UNCHANGED db /\ serving' = FALSE
        \/ Whole /\ ~run.ok /\ db' = run.db /\ serving' = FALSE
        \/ Whole /\ run.ok /\ db' = made /\ serving' = SeedData(made)

Losses == {IF Restoring(c) THEN "cutRestore" ELSE "crash" : c \in {c \in Callers : Busy(c)}}

Restart ==
    /\ \E n \in deployed .. Len(Files) : deployed' = n /\ InitializeDatabase(SubSeq(Files, 1, n))
    /\ calls' = [c \in Callers |-> Idle]
    /\ incidents' = incidents \cup Losses
    /\ UNCHANGED <<temp, files, meta, begun, said>>

(* A crash in a run of migrations, on request or at the start of this      *)
(* release or a later one, or there between two tables: each migration is  *)
(* a transaction, and each table is one.                                   *)
CrashInMigrations ==
    /\ Whole
    /\ \E n \in deployed .. Len(Files) :
          LET pending == ToRun(db, SubSeq(Files, 1, n))
              run == RunMigrations(db, pending)
          IN  /\ deployed' = n
              /\ \/ \E k \in 0 .. Len(pending) :
                       db' = RunMigrations(db, SubSeq(pending, 1, k)).db
                 \/ run.ok /\ \E k \in 1 .. Len(Tables) : db' = CreateTables(run.db, k)
    /\ serving' = FALSE
    /\ calls' = [c \in Callers |-> Idle]
    /\ incidents' = incidents \cup Losses
    /\ UNCHANGED <<temp, files, meta, begun, said>>

(* An empty database, and no server yet.                                   *)
MaintenanceInit ==
    /\ deployed \in 0 .. Len(Files)
    /\ InitBackups(InitMigrationsTable) /\ serving = FALSE
    /\ incidents = {}

MaintenanceNext ==
    \/ \E c \in Callers : \/ AskCreate(c) \/ AskDelete(c) \/ AskRestore(c) \/ AskVerify(c)
                         \/ FireBackupJob(c) \/ Work(c)
    \/ RunMigrationsOnRequest \/ RollbackOnRequest
    \/ Restart \/ CrashInMigrations

MaintenanceSpec == MaintenanceInit /\ [][MaintenanceNext]_maintenanceVars

-----------------------------------------------------------------------------

(* The database, the safety copy and the backups that are whole.           *)
Databases == ({db, temp} \cup {files[i] : i \in DOMAIN files}) \ {Torn, NoFile}
Damage == {"overlap", "crash", "cutRestore"}
Undisturbed == incidents \cap Damage = {}
Complete(id) == id \in DOMAIN files /\ \A c \in Callers : calls[c].id = id => ~Reached(c, "copy")

(* Files, entries and calls have their types.                              *)
MaintenanceTypeOK ==
    /\ db \in File /\ temp \in File \cup {NoFile}
    /\ DOMAIN files \subseteq Id /\ \A i \in DOMAIN files : files[i] \in File
    /\ meta \subseteq Entry
    /\ \A c \in Callers : calls[c].read \subseteq Entry /\ calls[c].todo \subseteq Id
    /\ Databases \subseteq Database

(* As long as calls come one after the other and none is cut off, the      *)
(* metadata lists exactly the files that are there, at most maxBackups,    *)
(* each with its checksum, the status counts them and names the newest,    *)
(* and no safety copy is left.                                             *)
QuietDirectory ==
    (Undisturbed /\ \A c \in Callers : ~Busy(c)) =>
        /\ Ids(ListBackups) = DOMAIN files
        /\ BackupStatus = [totalBackups |-> Cardinality(DOMAIN files),
                           latestBackup |-> IF files = <<>> THEN {} ELSE {Max(DOMAIN files)}]
        /\ Cardinality(DOMAIN files) <= MaxBackups
        /\ \A e \in ListBackups : e.checksum = files[e.id]
        /\ temp = NoFile

(* What a call has done when it ends: the new backup is there and listed   *)
(* with its checksum, the deleted one is neither there nor listed, and the *)
(* database is the backup that was asked for, or what it was without one.  *)
(* Success is told of none of this, but of a backup that was verified.     *)
HasDone(c) ==
    LET id == calls[c].id
        op == calls[c].op
    IN  /\ op = "create" => /\ id \in DOMAIN files'
                            /\ [id |-> id, checksum |-> files'[id]] \in meta'
        /\ op = "delete" => id \notin DOMAIN files' \cup Ids(meta')
        /\ op = "restore" => db' = IF id \in DOMAIN files THEN files[id] ELSE db
        /\ said'.ok <=> op = "verify" /\ id \in DOMAIN files

(* As long as calls come one after the other and none is cut off, each has *)
(* done its work when it ends, although all but verifyBackup() end with an *)
(* error: in particular the clean-up never removes the new backup.         *)
CallsDoTheirWork ==
    [][\A c \in Callers : (Undisturbed /\ Busy(c) /\ Work(c) /\ ~Busy(c)') => HasDone(c)]_maintenanceVars

(* However calls overlap, the clean-up removes a backup only when a newer  *)
(* one is there; only a deletion or a crash can take that one away.        *)
CleanupKeepsNewer ==
    [][\A c \in Callers :
          (calls[c].op = "create" /\ Reached(c, "unlink") /\ DOMAIN files' # DOMAIN files
              /\ incidents \cap {"deletion", "crash"} = {} /\ Work(c)) =>
              \E i \in DOMAIN files' : i > Doomed(c) /\ Complete(i)]_maintenanceVars

(* A restore that fails brings the database back. Only a crash in a        *)
(* restore, or calls that overlap, leave a database that is not whole.     *)
RestoreKeepsDatabase ==
    (db = Torn /\ \A c \in Callers : ~Restoring(c)) =>
        incidents \cap {"overlap", "cutRestore"} # {}

(* In the database, its safety copy and every backup, a migration that is  *)
(* recorded has been applied, whatever was rolled back or restored.        *)
RecordedMeansApplied ==
    \A d \in Databases : \A f \in Range(Files) :
        f.name \in Executed(d) => ObjectsOf(f) \subseteq d.schema

(* Migrations run in the order of their names and are forgotten in the     *)
(* opposite order: those recorded are the first ones.                      *)
ExecutedIsPrefix ==
    \A d \in Databases :
        \E n \in 0 .. Len(Files) : MigrationStatus(d, Files) = [i \in DOMAIN Files |-> i <= n]

(* A migration that fails, or during which the process dies, leaves        *)
(* nothing behind: what is applied but not recorded was rolled back, or is *)
(* made at every start, or by a migration that is recorded.                *)
NoHalfMigrations ==
    "rollback" \notin incidents =>
        \A d \in Databases : \A f \in Range(Files) :
            f.name \notin Executed(d) =>
                ObjectsOf(f) \cap d.schema \subseteq Range(Tables) \cup
                    UNION {ObjectsOf(g) : g \in {g \in Range(Files) : g.name \in Executed(d)}}

(* The records of both services, the list of backups and the table of      *)
(* migrations, are true of the files and of the databases.                 *)
RecordsAreTrue ==
    /\ MaintenanceTypeOK /\ QuietDirectory
    /\ RecordedMeansApplied /\ ExecutedIsPrefix /\ NoHalfMigrations

(* A pending migration makes anew what an earlier start has made.          *)
MadeBefore(f) ==
    f.name \notin Executed(db) /\ f.anew \cap db.schema \cap Range(Tables) # {}

(* A server fails to start only over a database that is not whole, a file  *)
(* that SQLite does not accept or that makes anew what is there since an   *)
(* earlier start, over users that are keyed by numbers, or after a         *)
(* rollback.                                                               *)
StartsFailForAReason ==
    [][(~serving' /\ Restart) =>
          \/ db = Torn
          \/ "rollback" \in incidents
          \/ \E i \in 1 .. deployed' : ~Files[i].valid \/ MadeBefore(Files[i])
          \/ db'.users = "numbers"]_maintenanceVars

=============================================================================
