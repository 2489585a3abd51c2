------------------------------- MODULE Restore ------------------------------
(***************************************************************************)
(* Import of a backup and its application at the next start of the Panel   *)
(* (internal/backup, cmd/panel/main.go, api/backup.go).                    *)
(*                                                                         *)
(* A start that finds a pending restore runs a list of file operations.    *)
(* Each of them may fail, and the process may die before, after or in the  *)
(* middle of any of them; the next start has nothing but the disk.  The    *)
(* -shm file is left out: SQLite rebuilds it.                              *)
(***************************************************************************)
EXTENDS Naturals, Sequences

CONSTANTS
  Foreign,      \* archives made by other Panels: records [db, key]
  NoFile,         \* a file that does not exist
  Partial,      \* a file of which only a part was written
  MaxWrites,    \* bound on changes of the database
  MaxImports,   \* bound on imports
  MaxCrashes,    \* bound on crashes and failed file operations
  MaxCleanups   \* bound on failures to remove a directory

\* Mail keys, databases (an identity and the mail key its password needs), and the
\* logs that continue one database to another.
Keys == {"own"} \cup ({a.key : a \in Foreign} \ {NoFile})
Databases == [id : Nat, key : Keys \cup {NoFile}]
Logs == [base : Databases, now : Databases]
Archives == [db : Databases, key : Keys \cup {NoFile}]

\* An archive with a mail key has the one its database needs: it was made by a Panel.
ASSUME RestoreAssumption ==
  /\ NoFile # Partial
  /\ \A none \in {NoFile, Partial} : none \notin Keys \cup Databases \cup Logs \cup Archives
  /\ Foreign \subseteq Archives
  /\ \A a \in Foreign : a.key # NoFile => a.db.key \in {NoFile, a.key}

VARIABLES
  disk,       \* [files |-> per directory and file, dirs |-> , marker |-> pending.json]
  phase,      \* what the Panel process is doing
  todo,       \* the file operations it has yet to do in this phase
  backup,     \* the last archive exported, or NoFile
  served,     \* history: the content of the database when last served
  requested,  \* history: contents whose restore was accepted and is not yet decided
  writes, imports, crashes, cleanups

restoreVars == <<disk, phase, todo, backup, served, requested, writes, imports, crashes, cleanups>>

Files == {"db", "wal", "key"}
Dirs == {"data", "restore", "tmp", "rollback"}

\* The content of a new database.
Empty == [id |-> 0, key |-> NoFile]

data == disk.files["data"]

\* What SQLite reads: the database file, continued by its write-ahead log.
Logical(d) ==
  IF d["db"] = NoFile THEN Empty
  ELSE IF d["wal"] = NoFile THEN d["db"]
  ELSE IF d["db"] # Partial /\ d["wal"] # Partial /\ d["wal"].base = d["db"] THEN d["wal"].now
  ELSE Partial

-----------------------------------------------------------------------------
(* File operations.                                                        *)

Copy(f, a, b) == [do |-> "copy", file |-> f, from |-> a, to |-> b]
Move(f, a, b) == [do |-> "move", file |-> f, from |-> a, to |-> b]
Put(f, c) == [do |-> "put", file |-> f, content |-> c]
Rm(f, a) == [do |-> "rm", file |-> f, dir |-> a]
RmDir(a) == [do |-> "rmdir", dir |-> a]
MkDir(a) == [do |-> "mkdir", dir |-> a]
Publish == [do |-> "publish"]
Mark(m) == [do |-> "mark", marker |-> m]
Unmark == [do |-> "unmark"]

NoFiles == [f \in Files |-> NoFile]

Set(d, a, f, c) == [d EXCEPT !.files[a][f] = c]

\* copyIfExists, os.Rename, removeIfExists, os.RemoveAll, os.Mkdir.
Do(op, d) ==
  CASE op.do = "copy" -> Set(d, op.to, op.file, d.files[op.from][op.file])
    [] op.do = "move" ->
         Set(Set(d, op.to, op.file, d.files[op.from][op.file]), op.from, op.file, NoFile)
    [] op.do = "put" -> Set(d, "restore", op.file, op.content)
    [] op.do = "rm" -> Set(d, op.dir, op.file, NoFile)
    [] op.do = "rmdir" -> [d EXCEPT !.files[op.dir] = NoFiles, !.dirs = @ \ {op.dir}]
    [] op.do = "mkdir" -> [d EXCEPT !.dirs = @ \cup {op.dir}]
    [] op.do = "publish" ->
         [d EXCEPT !.files["rollback"] = d.files["tmp"], !.files["tmp"] = NoFiles,
                   !.dirs = (@ \ {"tmp"}) \cup {"rollback"}]
    [] op.do = "mark" -> [d EXCEPT !.marker = op.marker]
    [] op.do = "unmark" -> [d EXCEPT !.marker = NoFile]

\* What an operation that did not finish may leave.
Torn(op, d) ==
  {d}
  \cup (IF op.do = "copy" THEN {Set(d, op.to, op.file, Partial)} ELSE {})
  \cup (IF op.do = "rmdir"
        THEN {[d EXCEPT !.files[op.dir] = [f \in Files |-> IF f \in gone THEN NoFile ELSE @[f]]]
                : gone \in SUBSET Files}
        ELSE {})

-----------------------------------------------------------------------------
(* The lists of operations.                                                *)

KeyOps(m, ops) == IF m.key # NoFile THEN ops ELSE <<>>

\* Mistake: the rollback copy is made in place, so half of it looks complete.
SaveInPlace(m) ==
  <<MkDir("rollback"), Copy("db", "data", "rollback"), Copy("wal", "data", "rollback")>>
    \o KeyOps(m, <<Copy("key", "data", "rollback")>>)

\* ApplyPendingRestore, up to the moment the rollback copy is complete.
SaveOps(m) ==
  <<RmDir("tmp"), MkDir("tmp"), Copy("db", "data", "tmp"), Copy("wal", "data", "tmp")>>
    \o KeyOps(m, <<Copy("key", "data", "tmp")>>) \o <<Publish>>

\* ApplyPendingRestore, the replacement.
ReplaceOps(m) ==
  <<Rm("db", "data"), Rm("wal", "data"), Move("db", "restore", "data")>>
    \o KeyOps(m, <<Rm("key", "data"), Move("key", "restore", "data")>>)

\* discardPending.
DiscardOps == <<Unmark, Rm("db", "restore"), Rm("key", "restore")>>

\* Rollback.
RollbackOps(m) ==
  <<Rm("db", "data"), Rm("wal", "data")>> \o KeyOps(m, <<Rm("key", "data")>>)
    \o <<Copy("db", "rollback", "data"), Copy("wal", "rollback", "data")>>
    \o KeyOps(m, <<Copy("key", "rollback", "data")>>)
    \o DiscardOps \o <<RmDir("rollback")>>

\* Without a marker, whatever is left of earlier attempts is removed.
CleanupOps == <<Rm("db", "restore"), Rm("key", "restore"), RmDir("tmp"), RmDir("rollback")>>

\* The end of StageImport: the marker comes last.
StageOps(a) ==
  <<Put("db", a.db)>> \o KeyOps(a, <<Put("key", a.key)>>) \o <<Mark([db |-> a.db, key |-> a.key])>>

UnstageOps == <<Rm("db", "restore"), Rm("key", "restore")>>

-----------------------------------------------------------------------------
RestoreInit ==
  /\ disk = [files |-> [a \in Dirs |-> IF a = "data" THEN [NoFiles EXCEPT !["db"] = Empty]
                                       ELSE NoFiles],
             dirs |-> {}, marker |-> NoFile]
  /\ phase = "down" /\ todo = <<>>
  /\ backup = NoFile /\ served = Empty /\ requested = {}
  /\ writes = 0 /\ imports = 0 /\ crashes = 0 /\ cleanups = 0

\* Enter a phase with its operations.
Enter(p, ops) == phase' = p /\ todo' = ops

Online == phase \in {"serving", "staging", "unstaging"}

\* A transaction of the running Panel; saving an SMTP password needs a mail key,
\* which is created when there is none.
Write(pw) ==
  /\ Online /\ writes < MaxWrites
  /\ writes' = writes + 1
  /\ LET key == IF pw /\ data["key"] = NoFile THEN "own" ELSE data["key"]
         now == [id |-> writes + 1, key |-> IF pw THEN key ELSE served.key]
     IN  /\ disk' = Set(Set(disk, "data", "key", key),
                        "data", "wal", [base |-> data["db"], now |-> now])
         /\ served' = now
  /\ UNCHANGED <<phase, todo, backup, requested, imports, crashes, cleanups>>

\* exportBackup, CreateArchive: a snapshot of the database and the mail key.
Export ==
  /\ Online
  /\ backup' = [db |-> Logical(data), key |-> data["key"]]
  /\ UNCHANGED <<disk, phase, todo, served, requested, writes, imports, crashes, cleanups>>

\* StageImport looks for a restore that is pending or half staged.
NothingPending ==
  disk.marker = NoFile /\ disk.files["restore"]["db"] = NoFile /\ disk.files["restore"]["key"] = NoFile

\* The checks of StageImport on the archive itself: its sums, its database, and
\* the mail key if the database holds a password.
Complete(a) == a.db.key # NoFile => a.key # NoFile

\* importBackup, StageImport: one import at a time (backupMu).
Import(a) ==
  /\ phase = "serving" /\ imports < MaxImports
  /\ Complete(a)
  /\ NothingPending
  /\ imports' = imports + 1
  /\ Enter("staging", StageOps(a))
  /\ UNCHANGED <<disk, backup, served, requested, writes, crashes, cleanups>>

\* The Panel stops: the database is closed and its log checkpointed.
Shutdown ==
  /\ phase = "serving"
  /\ disk' = Set(Set(disk, "data", "db", Logical(data)), "data", "wal", NoFile)
  /\ Enter("down", <<>>)
  /\ UNCHANGED <<backup, served, requested, writes, imports, crashes, cleanups>>

\* The staged files are the ones the marker names.
StagedValid ==
  /\ disk.files["restore"]["db"] = disk.marker.db
  /\ disk.marker.key # NoFile => disk.files["restore"]["key"] = disk.marker.key

\* Mistake: a restore that was interrupted has to be repaired by hand.
RefuseInterrupted ==
  /\ phase = "down"
  /\ CASE disk.marker = NoFile -> Enter("cleanup", CleanupOps)
       [] disk.marker # NoFile /\ "rollback" \in disk.dirs -> Enter("down", <<>>)
       [] disk.marker # NoFile /\ "rollback" \notin disk.dirs /\ StagedValid ->
            Enter("saving", SaveOps(disk.marker))
       [] OTHER -> Enter("discarding", DiscardOps)
  /\ UNCHANGED <<disk, backup, served, requested, writes, imports, crashes, cleanups>>

\* ApplyPendingRestore: what this start has to do.
ApplyPendingRestore ==
  /\ phase = "down"
  /\ CASE disk.marker = NoFile -> Enter("cleanup", CleanupOps)
       [] disk.marker # NoFile /\ "rollback" \in disk.dirs ->
            Enter("rollback", RollbackOps(disk.marker))
       [] disk.marker # NoFile /\ "rollback" \notin disk.dirs /\ StagedValid ->
            Enter("saving", SaveOps(disk.marker))
       [] OTHER -> Enter("discarding", DiscardOps)
  /\ UNCHANGED <<disk, backup, served, requested, writes, imports, crashes, cleanups>>

\* The next operation succeeds.
Step ==
  /\ todo # <<>>
  /\ disk' = Do(Head(todo), disk)
  /\ todo' = Tail(todo)
  /\ requested' = IF Head(todo).do = "mark" THEN requested \cup {Head(todo).marker.db}
                  ELSE requested
  /\ UNCHANGED <<phase, backup, served, writes, imports, crashes, cleanups>>

\* An operation fails; what that means depends on who called it.
OnError(op) ==
  CASE phase \in {"cleanup", "unstaging"} -> Enter(phase, Tail(todo))
    [] phase = "saving" /\ op = RmDir("tmp") -> Enter("opening", <<>>)
    [] phase = "saving" /\ op # RmDir("tmp") ->
         Enter("discarding", <<RmDir("tmp")>> \o DiscardOps)
    [] phase = "discarding" /\ op = RmDir("tmp") -> Enter(phase, Tail(todo))
    [] phase = "discarding" /\ op # RmDir("tmp") -> Enter("opening", <<>>)
    [] phase \in {"replacing", "commit"} -> Enter("rollback", RollbackOps(disk.marker))
    [] phase = "committed" -> Enter("committed", <<>>)
    [] phase = "rollback" -> Enter("down", <<>>)
    [] phase = "staging" -> Enter("unstaging", UnstageOps)

\* Failures to remove a directory are counted on their own.
Blame(op) ==
  IF op.do = "rmdir"
  THEN cleanups < MaxCleanups /\ cleanups' = cleanups + 1 /\ UNCHANGED crashes
  ELSE crashes < MaxCrashes /\ crashes' = crashes + 1 /\ UNCHANGED cleanups

StepFails ==
  /\ todo # <<>>
  /\ disk' \in Torn(Head(todo), disk)
  /\ OnError(Head(todo))
  /\ Blame(Head(todo))
  /\ UNCHANGED <<backup, served, requested, writes, imports>>

\* All operations of the phase are done.
PhaseDone ==
  /\ todo = <<>>
  /\ CASE phase = "saving" -> Enter("replacing", ReplaceOps(disk.marker))
       [] phase = "replacing" -> Enter("verifying", <<>>)
       [] phase = "commit" -> Enter("committed", <<RmDir("rollback")>>)
       [] phase \in {"cleanup", "discarding", "rollback"} -> Enter("opening", <<>>)
       [] phase \in {"staging", "unstaging"} -> Enter("serving", <<>>)
       [] OTHER -> FALSE
  /\ UNCHANGED <<disk, backup, served, requested, writes, imports, crashes, cleanups>>

\* openDatabase: the restored database opens and validates, or it does not.
Verify(ok) ==
  /\ phase = "verifying"
  /\ IF ok THEN Enter("commit", <<Unmark>>) ELSE Enter("rollback", RollbackOps(disk.marker))
  /\ UNCHANGED <<disk, backup, served, requested, writes, imports, crashes, cleanups>>

\* The Panel serves what is in the data directory; a missing database is created.
Serve ==
  /\ Enter("serving", <<>>)
  /\ disk' = IF data["db"] = NoFile
             THEN Set(Set(disk, "data", "db", Empty), "data", "wal", NoFile) ELSE disk
  /\ served' = Logical(data)
  /\ requested' = IF disk.marker = NoFile THEN {} ELSE {disk.marker.db}
  /\ UNCHANGED <<backup, writes, imports, crashes, cleanups>>

\* database.Open on the existing database (half a file does not open), and the
\* end of a committed restore.
Open == phase = "opening" /\ data["db"] # Partial /\ Serve
OpenRestored == phase = "committed" /\ todo = <<>> /\ Serve

\* The process dies, in the middle of an operation or between two.
Crash ==
  /\ phase # "down" /\ crashes < MaxCrashes
  /\ crashes' = crashes + 1
  /\ disk' \in IF todo = <<>> THEN {disk} ELSE Torn(Head(todo), disk)
  /\ Enter("down", <<>>)
  /\ UNCHANGED <<backup, served, requested, writes, imports, cleanups>>

Startup ==
  ApplyPendingRestore \/ Step \/ PhaseDone \/ Verify(TRUE) \/ Open \/ OpenRestored

RestoreNext ==
  \/ Startup
  \/ Verify(FALSE) \/ StepFails \/ Crash \/ Shutdown \/ Export
  \/ \E pw \in BOOLEAN : Write(pw)
  \/ \E a \in Foreign \cup ({backup} \ {NoFile}) : Import(a)

RestoreSpec == RestoreInit /\ [][RestoreNext]_restoreVars

-----------------------------------------------------------------------------
(***************************************************************************)
(* Whenever a start ends, the Panel serves either exactly what it served   *)
(* before, the last write included, or the content of an import that was   *)
(* accepted since: never an older database, a mixture of two, or an empty  *)
(* one, wherever the restore or its rollback was interrupted; and with the *)
(* mail key that decrypts its password.  The exception is a rollback       *)
(* directory that Commit could not remove: the next import is accepted on  *)
(* top of it, and takes it for its own.                                    *)
(***************************************************************************)
NoLostDatabase ==
  [][Online' /\ ~Online /\ cleanups = 0 =>
       /\ served' = served \/ served' \in requested
       /\ served'.key \in {NoFile, disk'.files["data"]["key"]}]_restoreVars

(***************************************************************************)
(* Once crashes and failures stop, a start ends in service.                *)
(***************************************************************************)
ServesAgain == phase = "down" ~> Online

(***************************************************************************)
(* Commit: "The marker is already gone, so this restore is committed.      *)
(* Retaining an old rollback copy is safer than reapplying it."            *)
(***************************************************************************)
CommittedRestoreStays ==
  [][phase = "opening" /\ phase' = "serving"
       => served' = served \/ served' \in requested]_restoreVars
=============================================================================
