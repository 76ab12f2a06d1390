------------------------------ MODULE Migrator ------------------------------
(***************************************************************************)
(* DatabaseMigrator: what runMigrations(), rollback() and                  *)
(* getMigrationStatus() make of a database. The driver is synchronous:     *)
(* each call is one step for everything else in the process, and a crash   *)
(* can leave it after any number of its transactions.                      *)
(*                                                                         *)
(* A database is what its schema holds, the rows of its table              *)
(* "migrations", and how its users are keyed, if it has any table of them: *)
(* by numbers, as 001 makes it, or by texts, as createTables() does. A     *)
(* migration is a file: the number in its first line (0 without one), the  *)
(* objects that it makes if they are not there, those that it makes anew   *)
(* and whose presence is an error, and whether SQLite accepts the          *)
(* statements that follow them.                                            *)
(***************************************************************************)
EXTENDS Naturals, Sequences, FiniteSetsExt, Subsequences

CONSTANTS Files,     \* the .sql files, in the order of their names
          Tables,    \* the tables and indices of createTables(), in its order
          Users      \* the one that holds the users

ObjectsOf(f) == f.makes \cup f.anew
Row(f) == [id |-> f.id, file |-> f.name]
FirstFiles(files, n) == {files[i] : i \in 1 .. n}

(* The files in database/migrations: their names differ; those that can be *)
(* reached, because SQLite accepts them and all before, are numbered       *)
(* upwards and make nothing anew that an earlier one makes.                *)
Reachable == {i \in DOMAIN Files : \A j \in 1 .. i : Files[j].valid}
ASSUME FilesAssumption ==
    /\ Files \in Seq(Range(Files)) /\ \A f \in Range(Files) : f.id \in Nat
    /\ \A i, j \in DOMAIN Files : Files[i].name = Files[j].name => i = j
    /\ \A j \in Reachable : \A i \in 1 .. j - 1 :
          Files[i].id < Files[j].id /\ Files[j].anew \cap ObjectsOf(Files[i]) = {}

ASSUME TablesAssumption == Tables \in Seq(Range(Tables)) /\ Users \in Range(Tables)

Objects == (UNION {ObjectsOf(f) : f \in Range(Files)}) \cup Range(Tables)
Database == [schema : SUBSET Objects, rows : SUBSET {Row(f) : f \in Range(Files)},
             users : {"none", "numbers", "texts"}]
InitMigrationsTable == [schema |-> {}, rows |-> {}, users |-> "none"]

Executed(d) == {r.file : r \in d.rows}
(* Mutation: what has been executed is not left out.                       *)
EveryFile(d, files) == files

ToRun(d, files) == Kept(files, {i \in DOMAIN files : files[i].name \notin Executed(d)})

(* One migration and its row are one transaction.                          *)
Accepted(d, f) == f.valid /\ f.anew \cap d.schema = {}
Insertable(d, f) == \A r \in d.rows : r.id # f.id
Keyed(d, made, keys) == IF d.users = "none" /\ Users \in made THEN keys ELSE d.users
After(d, some) ==
    LET made == UNION {ObjectsOf(f) : f \in some}
    IN  [schema |-> d.schema \cup made, rows |-> d.rows \cup {Row(f) : f \in some},
         users |-> Keyed(d, made, "numbers")]

(* Mutation: the row is written before, and stays when the file fails.     *)
MarkedFirst(d, f) ==
    IF Accepted(d, f) /\ Insertable(d, f) THEN [db |-> After(d, {f}), ok |-> TRUE]
    ELSE [db |-> [d EXCEPT !.rows = @ \cup {Row(f)}], ok |-> FALSE]

Migrate(d, f) ==
    IF Accepted(d, f) /\ Insertable(d, f) THEN [db |-> After(d, {f}), ok |-> TRUE]
                                          ELSE [db |-> d, ok |-> FALSE]

(* The first failure ends the run: the files before it have been executed. *)
Before(d, files, i) == After(d, FirstFiles(files, i - 1))
Failing(d, files) == {i \in DOMAIN files : ~Migrate(Before(d, files, i), files[i]).ok}
RunMigrations(d, files) ==
    LET failing == Failing(d, files)
    IN  IF failing = {} THEN [db |-> After(d, Range(files)), ok |-> TRUE]
        ELSE LET i == Min(failing) IN Migrate(Before(d, files, i), files[i])

(* The last rows, in the order of their numbers; only the rows go, the     *)
(* schema stays.                                                           *)
ToRollback(d, steps) == {r \in d.rows : Cardinality({s \in d.rows : s.id > r.id}) < steps}
Rollback(d, steps) == [d EXCEPT !.rows = @ \ ToRollback(d, steps)]

(* createTables(): each of its tables and indices, or the first k of them, *)
(* if it is not there.                                                     *)
CreateTables(d, k) ==
    LET made == {Tables[i] : i \in 1 .. k}
    IN  [d EXCEPT !.schema = @ \cup made, !.users = Keyed(d, made, "texts")]

(* seedData() puts its users, whose keys are texts, into a table that is   *)
(* empty; one that is keyed by numbers always is, and takes none.          *)
SeedData(d) == d.users # "numbers"

MigrationStatus(d, files) == [i \in DOMAIN files |-> files[i].name \in Executed(d)]
=============================================================================
