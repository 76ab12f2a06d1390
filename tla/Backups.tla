------------------------------ MODULE Backups ------------------------------
(***************************************************************************)
(* BackupService: backups of the database file, the metadata file that     *)
(* lists them, retention, restoring and verifying. Two services, that of   *)
(* the controller and that of the nightly job, share one directory, and    *)
(* the awaits of any number of calls interleave. A file that is being      *)
(* written is torn until the write ends, and stays torn after a crash.     *)
(* Both services compress. Their module asks utils/logger for a name that  *)
(* it does not export: every line of log is an error, thrown where the     *)
(* line is.                                                                *)
(***************************************************************************)
EXTENDS Naturals, FiniteSetsExt

CONSTANTS Callers,      \* calls in progress: requests and the nightly job
          Contents,     \* what a database file can hold
          Torn,         \* a file that is not whole
          NoFile,
          MaxBackups,   \* maxBackups of BackupConfig
          MaxIds        \* bound: backups that are begun

Id == 1 .. MaxIds                 \* the time of a backup, in ISO form
File == Contents \cup {Torn}
Entry == [id : Id, checksum : File]     \* SHA-256 tells contents apart

ASSUME BackupAssumption ==
    /\ MaxBackups \in Nat \ {0} /\ MaxIds \in Nat
    /\ Torn \notin Contents /\ NoFile \notin File

VARIABLES db,         \* the database file
          temp,       \* <dbPath>.temp, the safety copy of a restore
          files,      \* the backups in the directory: from id to content
          meta,       \* metadata.json, as it reads: a set of entries
          calls,      \* the state of each call
          begun,      \* calls, and among them backups, begun so far;
          said        \* the answer of the call that ended last
backupVars == <<db, temp, files, meta, calls, begun, said>>
disk == <<db, temp, files, meta>>

Idle == [op |-> "idle", pc |-> "idle", id |-> 0, snap |-> NoFile, read |-> {}, todo |-> {}]

Reached(c, pc) == calls[c].pc = pc
Goto(c, pc) == calls' = [calls EXCEPT ![c].pc = pc] /\ UNCHANGED <<begun, said>>
Ends(c, ok) ==
    /\ calls' = [calls EXCEPT ![c] = Idle]
    /\ said' = [op |-> calls[c].op, id |-> calls[c].id, ok |-> ok]
    /\ UNCHANGED begun
Advance(c, pc, field, value) ==
    calls' = [calls EXCEPT ![c].pc = pc, ![c][field] = value] /\ UNCHANGED <<begun, said>>

(* What is not there, or not JSON, reads as an empty list.                 *)
NoList == {}
ListBackups == meta
Ids(list) == {e.id : e \in list}
GetBackupMetadata(id) == {e \in ListBackups : e.id = id}

(* A file is cut off and then written. Where another call has written      *)
(* since this one cut it off, the end of a longer text stays behind the    *)
(* new one, and the whole is not JSON.                                     *)
Written(list) == {list} \cup (IF meta = NoList THEN {} ELSE {NoList})

BackupStatus ==
    [totalBackups |-> Cardinality(ListBackups),
     latestBackup |-> {e.id : e \in {e \in ListBackups : \A f \in ListBackups : f.id <= e.id}}]

(* A stream over a file that changes meanwhile may see one state, the      *)
(* other, or some of each.                                                 *)
Seen(before, now) == IF before = now THEN {now} ELSE {before, now, Torn}

(***************************************************************************)
(* createBackup: copy, checksum, saveMetadata, cleanupOldBackups.          *)
(***************************************************************************)
CreateBackup(c) ==
    LET id == calls[c].id IN
    \/ /\ Reached(c, "open")
       /\ files' = [i \in DOMAIN files \cup {id} |-> IF i = id THEN Torn ELSE files[i]]
       /\ Advance(c, "copy", "snap", db) /\ UNCHANGED <<db, temp, meta>>
    \/ /\ Reached(c, "copy")
       /\ \E content \in Seen(calls[c].snap, db) :
             files' = [files EXCEPT ![id] = content] /\ Advance(c, "saveRead", "snap", content)
       /\ UNCHANGED <<db, temp, meta>>

SaveMetadata(c) ==
    \/ Reached(c, "saveRead") /\ Advance(c, "saveCut", "read", ListBackups) /\ UNCHANGED disk
    \/ /\ Reached(c, "saveCut") /\ meta' = NoList
       /\ Goto(c, "saveWrite") /\ UNCHANGED <<db, temp, files>>
    \/ /\ Reached(c, "saveWrite")
       /\ meta' \in Written(calls[c].read
                             \cup {[id |-> calls[c].id, checksum |-> calls[c].snap]})
       /\ Goto(c, "clean") /\ UNCHANGED <<db, temp, files>>

(* Mutation: the newest are taken for the oldest.                          *)
NewestFirst(list) ==
    {e.id : e \in {e \in list : Cardinality({f \in list : f.id <= e.id}) > MaxBackups}}

(* The oldest ones of a list that has more than maxBackups.                *)
TooMany(list) ==
    {e.id : e \in {e \in list : Cardinality({f \in list : f.id >= e.id}) > MaxBackups}}

(* With or without a clean-up, the line of log at the end of it all is an  *)
(* error: the call is refused.                                             *)
CleanupOldBackups(c) ==
    /\ Reached(c, "clean") /\ UNCHANGED disk
    /\ IF TooMany(ListBackups) = {} THEN Ends(c, FALSE)
       ELSE Advance(c, "find", "todo", TooMany(ListBackups))

(***************************************************************************)
(* deleteBackup, asked for or by the clean-up: the file, then its entry.   *)
(* The line of log that follows is an error, after which the clean-up does *)
(* not come to a second one.                                               *)
(***************************************************************************)
Doomed(c) == IF calls[c].op = "create" THEN Min(calls[c].todo) ELSE calls[c].id

DeleteBackup(c) ==
    \/ /\ Reached(c, "find") /\ calls[c].op \in {"create", "delete"} /\ UNCHANGED disk
       /\ IF GetBackupMetadata(Doomed(c)) = {} THEN Ends(c, FALSE) ELSE Goto(c, "unlink")
    \/ /\ Reached(c, "unlink") /\ calls[c].op \in {"create", "delete"}
       /\ IF Doomed(c) \in DOMAIN files
          THEN /\ files' = [i \in DOMAIN files \ {Doomed(c)} |-> files[i]]
               /\ Goto(c, "dropRead") /\ UNCHANGED <<db, temp, meta>>
          ELSE Ends(c, FALSE) /\ UNCHANGED disk

(* Mutation: nothing is taken out of the list.                             *)
AllOfThem(list, id) == list

Others(list, id) == {e \in list : e.id # id}
RemoveMetadata(c) ==
    \/ Reached(c, "dropRead") /\ Advance(c, "dropCut", "read", ListBackups) /\ UNCHANGED disk
    \/ /\ Reached(c, "dropCut") /\ meta' = NoList
       /\ Goto(c, "dropWrite") /\ UNCHANGED <<db, temp, files>>
    \/ /\ Reached(c, "dropWrite") /\ meta' \in Written(Others(calls[c].read, Doomed(c)))
       /\ Ends(c, FALSE) /\ UNCHANGED <<db, temp, files>>

(***************************************************************************)
(* restoreBackup: a safety copy, the backup over the database, and the     *)
(* safety copy back when that fails. Opening the database for writing      *)
(* empties it, whether or not there is a backup to read. The line of log   *)
(* after the safety copy has been removed is an error, so that every       *)
(* restore takes the way back: there is something to put back if the       *)
(* restore failed, or if another one has made a safety copy meanwhile.     *)
(***************************************************************************)
RestoreBackup(c) ==
    LET id == calls[c].id
        On(pc) == Reached(c, pc) /\ calls[c].op = "restore" IN
    \/ /\ On("find") /\ UNCHANGED disk
       /\ IF GetBackupMetadata(id) = {} THEN Ends(c, FALSE) ELSE Goto(c, "safeCut")
    \/ /\ On("safeCut") /\ temp' = Torn
       /\ Advance(c, "safeCopy", "snap", db) /\ UNCHANGED <<db, files, meta>>
    \/ /\ On("safeCopy") /\ \E content \in Seen(calls[c].snap, db) : temp' = content
       /\ Goto(c, "pipe") /\ UNCHANGED <<db, files, meta>>
    \/ /\ On("pipe") /\ UNCHANGED <<temp, files, meta>>
       /\ \/ id \in DOMAIN files /\ db' = Torn /\ Advance(c, "flow", "snap", files[id])
          \/ id \notin DOMAIN files /\ db' \in {db, Torn} /\ Goto(c, "backCut")
    \/ On("flow") /\ db' = calls[c].snap /\ Goto(c, "tidy") /\ UNCHANGED <<temp, files, meta>>
    \/ On("tidy") /\ temp' = NoFile /\ Goto(c, "backCut") /\ UNCHANGED <<db, files, meta>>

(* Mutation: the safety copy is not put back.                              *)
NoWayBack(c) == Reached(c, "backCut") /\ Ends(c, FALSE) /\ UNCHANGED disk

(* Errors of the way back are swallowed; the call has failed already.      *)
WayBack(c) ==
    \/ /\ Reached(c, "backCut") /\ UNCHANGED <<temp, files, meta>>
       /\ IF temp = NoFile THEN Ends(c, FALSE) /\ UNCHANGED db
          ELSE db' = Torn /\ Goto(c, "backCopy")
    \/ /\ Reached(c, "backCopy") /\ UNCHANGED <<temp, files, meta>>
       /\ IF temp = NoFile THEN Ends(c, FALSE) /\ UNCHANGED db
          ELSE db' = temp /\ Goto(c, "backTidy")
    \/ /\ Reached(c, "backTidy") /\ temp' = NoFile /\ Ends(c, FALSE)
       /\ UNCHANGED <<db, files, meta>>

VerifyBackup(c) ==
    LET id == calls[c].id IN
    /\ UNCHANGED disk
    /\ \/ /\ Reached(c, "find") /\ calls[c].op = "verify"
          /\ IF GetBackupMetadata(id) = {} THEN Ends(c, FALSE)
             ELSE Advance(c, "sum", "read", GetBackupMetadata(id))
       \/ /\ Reached(c, "sum")
          /\ Ends(c, id \in DOMAIN files /\ \E e \in calls[c].read : e.checksum = files[id])

Step(c) ==
    \/ CreateBackup(c) \/ SaveMetadata(c) \/ CleanupOldBackups(c) \/ DeleteBackup(c)
    \/ RemoveMetadata(c) \/ RestoreBackup(c) \/ WayBack(c) \/ VerifyBackup(c)

(* A request, or for a backup also the nightly job.                        *)
Begin(c, op, id) ==
    /\ Reached(c, "idle")
    /\ calls' = [calls EXCEPT ![c] = [Idle EXCEPT !.op = op, !.id = id,
                                      !.pc = IF op = "create" THEN "open" ELSE "find"]]
    /\ UNCHANGED <<disk, said>>

InitBackups(content) ==
    /\ db = content /\ temp = NoFile /\ files = <<>> /\ meta = NoList
    /\ calls = [c \in Callers |-> Idle]
    /\ begun = [calls |-> 0, ids |-> 0]
    /\ said = [op |-> "idle", id |-> 0, ok |-> TRUE]
=============================================================================
