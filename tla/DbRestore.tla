-------------------------------- MODULE DbRestore --------------------------------
(***************************************************************************)
(* Restoring a backup of the database: the Backups page marks a restore    *)
(* and the process ends; the next start, before the backend opens the      *)
(* database, copies the current state, switches to the backup in one       *)
(* rename, drops the sessions and migrates; when a migration fails it      *)
(* switches back.  The process may be killed between any two steps, and    *)
(* the files survive.                                                      *)
(*                                                                         *)
(* The content of a database is the number of its state (every change by   *)
(* the running backend makes a new one), how far its schema is migrated,   *)
(* and its sessions: its own, those of a restored state come back to life, *)
(* or those of a restored state that a failed delete left in place.        *)
(***************************************************************************)
EXTENDS Naturals, FiniteSets

CONSTANTS
  Names,        \* the names a backup file may have
  Scheduled,    \* those of scheduled backups, removed by the retention
  NoName,
  SkipAllowed,  \* may somebody start with DB_MIGRATE_SKIP?
  MaxWork,      \* bound: changes made by the backend
  MaxCrashes    \* bound: processes killed

ASSUME RestoreAssumption ==
  /\ Scheduled \subseteq Names
  /\ NoName \notin Names
  /\ SkipAllowed \in BOOLEAN
  /\ MaxWork \in Nat /\ MaxCrashes \in Nat

Contents == [data : Nat, schema : {"behind", "half", "current"}, sessions : {"own", "revived", "spared"}]

\* Written out as records of the same kind, so that contents can be compared with them.
Nothing == [data |-> 0, schema |-> "none", sessions |-> "own"]
Garbage == [data |-> 0, schema |-> "mix", sessions |-> "own"]

VARIABLES
  main,     \* the database file
  wal,      \* Nothing, or what the file and the -wal beside it say together
  files,    \* the backups and copies; Nothing for a free name
  pending,  \* restore-pending.json
  result,   \* restore-result.json
  proc,     \* the process in the container: the start, or the backend
  latest,   \* history: the number of the newest state
  last,     \* history: when the backend last stopped, its state and what was asked for
  crashes   \* bound: processes killed so far

vars == <<main, wal, files, pending, result, proc, latest, last, crashes>>

NoPending == [file |-> NoName, sum |-> Nothing, before |-> NoName]
NoResult  == [ok |-> FALSE, file |-> NoName, rolledBack |-> FALSE]

\* applied: this start has switched to the backup; back: it is switching back.
Down == [pc |-> "down", pending |-> NoPending, before |-> NoName, applied |-> FALSE, back |-> FALSE]

------------------------------------------------------------------------------
(* The database *)

\* What whoever opens the database reads.
Db == IF wal = Nothing THEN main ELSE wal

\* A write goes to the -wal, or is folded into the file right away.
Store(c) == \/ main' = main /\ wal' = c
            \/ main' = c /\ wal' = Nothing

Exists(n) == n \in Names /\ files[n] # Nothing
Kept      == {files[n].data : n \in {m \in Names : Exists(m)}}

At(pc)   == proc.pc = pc
Goto(pc) == proc' = [proc EXCEPT !.pc = pc]
Begin(pc) == proc' = [Down EXCEPT !.pc = pc]

------------------------------------------------------------------------------
(* The start: applyPendingRestore *)

\* The copy of the current state recorded by an earlier start is used again.
Recorded == IF Exists(pending.before) THEN pending.before ELSE NoName

\* The process starts; without a pending restore it goes on to the migrations.
Start ==
  /\ At("down")
  /\ proc' = [Down EXCEPT
       !.pending = pending,
       !.before = IF pending = NoPending THEN NoName ELSE Recorded,
       !.pc = IF pending = NoPending THEN "migrate"
              ELSE IF files[pending.file] # pending.sum THEN "give up"
              ELSE IF Recorded = NoName THEN "copy" ELSE "fold"]
  /\ UNCHANGED <<main, wal, files, pending, result, latest, last, crashes>>

\* The emergency escape: the backend starts without touching the database.
StartSkipping ==
  /\ SkipAllowed
  /\ At("down")
  /\ Begin("running")
  /\ UNCHANGED <<main, wal, files, pending, result, latest, last, crashes>>

\* Mutated: the -wal is not read.
CopyOfFile == main

CopyOfCurrent == Db

\* VACUUM INTO a temporary name, then a rename; closing the database may fold the -wal.
CopyCurrent ==
  /\ At("copy")
  /\ \E n \in Names \ Scheduled :
       /\ ~Exists(n)
       /\ files' = [files EXCEPT ![n] = CopyOfCurrent]
       /\ proc' = [proc EXCEPT !.pc = "record", !.before = n]
  /\ \/ main' = Db /\ wal' = Nothing
     \/ UNCHANGED <<main, wal>>
  /\ UNCHANGED <<pending, result, latest, last, crashes>>

\* No copy of the current state, no restore.
CopyFails ==
  /\ At("copy")
  /\ Goto("give up")
  /\ UNCHANGED <<main, wal, files, pending, result, latest, last, crashes>>

RecordCopy ==
  /\ At("record")
  /\ pending' = [proc.pending EXCEPT !.before = proc.before]
  /\ Goto("fold")
  /\ UNCHANGED <<main, wal, files, result, latest, last, crashes>>

\* The restore is not applied: the pending file goes, the result says so.
GiveUp ==
  /\ At("give up")
  /\ pending' = NoPending
  /\ Goto("give up result")
  /\ UNCHANGED <<main, wal, files, result, latest, last, crashes>>

GiveUpResult ==
  /\ At("give up result")
  /\ result' = [ok |-> FALSE, file |-> proc.pending.file, rolledBack |-> FALSE]
  /\ Begin("migrate")
  /\ UNCHANGED <<main, wal, files, pending, latest, last, crashes>>

------------------------------------------------------------------------------
(* The switch: swapIn *)

\* Mutated: no checkpoint; neither a checkpoint nor a removal of the -wal.
FoldNothing ==
  /\ At("fold")
  /\ Goto("unlink")
  /\ UNCHANGED <<main, wal, files, pending, result, latest, last, crashes>>
FoldForgotten ==
  /\ At("fold")
  /\ Goto("rename")
  /\ UNCHANGED <<main, wal, files, pending, result, latest, last, crashes>>

Fold ==
  /\ At("fold")
  /\ main' = Db
  /\ wal' = Nothing
  /\ Goto("unlink")
  /\ UNCHANGED <<files, pending, result, latest, last, crashes>>

Unlink ==
  /\ At("unlink")
  /\ wal' = Nothing
  /\ Goto("rename")
  /\ UNCHANGED <<main, files, pending, result, latest, last, crashes>>

\* Mutated: the switch back takes the backup again.
IncomingAgain == [files[proc.pending.file] EXCEPT !.sessions = "revived"]

\* A restored state brings its sessions along.
Incoming == IF proc.back THEN files[proc.before]
            ELSE [files[proc.pending.file] EXCEPT !.sessions = "revived"]

\* Mutated: the pending file is removed as soon as the backup is in place.
RenameAndForget ==
  /\ At("rename")
  /\ main' = Incoming
  /\ wal' = IF wal = Nothing THEN wal ELSE Garbage
  /\ pending' = NoPending
  /\ Goto(IF proc.back THEN "back result" ELSE "drop")
  /\ UNCHANGED <<files, result, latest, last, crashes>>

\* One rename; a -wal left behind would be replayed onto the restored file.
Rename ==
  /\ At("rename")
  /\ main' = Incoming
  /\ wal' = IF wal = Nothing THEN wal ELSE Garbage
  /\ Goto(IF proc.back THEN "back result" ELSE "drop")
  /\ UNCHANGED <<files, pending, result, latest, last, crashes>>

------------------------------------------------------------------------------
(* After the switch *)

\* A delete or the cut-off that fails is passed over, and the start goes on; what it
\* left in place is marked as spared, which nothing else looks at.
DropSessions ==
  /\ At("drop")
  /\ \E s \in {"own", "spared"} : Store([Db EXCEPT !.sessions = s])
  /\ Goto("clear")
  /\ UNCHANGED <<files, pending, result, latest, last, crashes>>

\* Mutated: the pending file stays.
ClearNothing ==
  /\ At("clear")
  /\ Goto("result")
  /\ UNCHANGED <<main, wal, files, pending, result, latest, last, crashes>>

ClearPending ==
  /\ At("clear")
  /\ pending' = NoPending
  /\ Goto("result")
  /\ UNCHANGED <<main, wal, files, result, latest, last, crashes>>

WriteResult ==
  /\ At("result")
  /\ result' = [ok |-> TRUE, file |-> proc.pending.file, rolledBack |-> FALSE]
  /\ proc' = [proc EXCEPT !.pc = "migrate", !.applied = TRUE]
  /\ UNCHANGED <<main, wal, files, pending, latest, last, crashes>>

------------------------------------------------------------------------------
(* The migrations *)

\* The database is up to date, or the first migration has begun.
Migrate ==
  /\ At("migrate")
  /\ \/ Db.schema = "current" /\ Begin("running") /\ UNCHANGED <<main, wal>>
     \/ Db.schema = "behind" /\ Goto("migrating") /\ Store([Db EXCEPT !.schema = "half"])
  /\ UNCHANGED <<files, pending, result, latest, last, crashes>>

Migrated ==
  /\ At("migrating")
  /\ Store([Db EXCEPT !.schema = "current"])
  /\ Begin("running")
  /\ UNCHANGED <<files, pending, result, latest, last, crashes>>

\* The backup before the migrations, or a migration fails; one that failed before
\* always does.  The start ends, after the state before a restore went back in.
Fatal ==
  /\ \/ At("migrating")
     \/ At("migrate") /\ Db.schema # "current"
  /\ proc' = IF proc.applied THEN [proc EXCEPT !.pc = "fold", !.back = TRUE] ELSE Down
  /\ UNCHANGED <<main, wal, files, pending, result, latest, last, crashes>>

BackResult ==
  /\ At("back result")
  /\ result' = [ok |-> FALSE, file |-> proc.pending.file, rolledBack |-> TRUE]
  /\ Begin("down")
  /\ UNCHANGED <<main, wal, files, pending, latest, last, crashes>>

------------------------------------------------------------------------------
(* The backend and its Backups page *)

Work ==
  /\ At("running")
  /\ latest < MaxWork
  /\ latest' = latest + 1
  /\ Store([Db EXCEPT !.data = latest + 1])
  /\ UNCHANGED <<files, pending, result, proc, last, crashes>>

CreateBackup(n) ==
  /\ At("running")
  /\ ~Exists(n)
  /\ files' = [files EXCEPT ![n] = Db]
  /\ UNCHANGED <<main, wal, pending, result, proc, latest, last, crashes>>

\* By hand, refused for the backup marked for a restore; or by the retention of
\* the scheduled ones, which does not look.
RemoveBackup(n) ==
  /\ At("running")
  /\ Exists(n)
  /\ n # pending.file \/ n \in Scheduled
  /\ files' = [files EXCEPT ![n] = Nothing]
  /\ UNCHANGED <<main, wal, pending, result, proc, latest, last, crashes>>

\* A backup that passes the checks is marked; the process ends soon after.
RequestRestore(n) ==
  /\ At("running")
  /\ Exists(n)
  /\ pending' = [file |-> n, sum |-> files[n], before |-> NoName]
  /\ UNCHANGED <<main, wal, files, result, proc, latest, last, crashes>>

CancelRestore ==
  /\ At("running")
  /\ pending # NoPending
  /\ pending' = NoPending
  /\ UNCHANGED <<main, wal, files, result, proc, latest, last, crashes>>

Leaving == [data |-> Db.data, asked |-> pending.sum]

\* The backend shuts down; its last connection folds the -wal if it gets to it.
Stop ==
  /\ At("running")
  /\ \/ main' = Db /\ wal' = Nothing
     \/ UNCHANGED <<main, wal>>
  /\ Begin("down")
  /\ last' = Leaving
  /\ UNCHANGED <<files, pending, result, latest, crashes>>

\* The start is killed, or throws.
Crash ==
  /\ proc.pc \notin {"down", "running"}
  /\ crashes < MaxCrashes
  /\ crashes' = crashes + 1
  /\ Begin("down")
  /\ UNCHANGED <<main, wal, files, pending, result, latest, last>>

------------------------------------------------------------------------------
\* The database is up to date or one version behind, with older backups or none.
Init ==
  /\ latest \in {0, 1}
  /\ main \in {[data |-> latest, schema |-> s, sessions |-> "own"] : s \in {"behind", "current"}}
  /\ wal = Nothing
  /\ files \in [Names -> {Nothing} \cup {[data |-> 0, schema |-> "behind", sessions |-> "own"]}]
  /\ latest = 0 => \A n \in Names : files[n] = Nothing
  /\ pending = NoPending
  /\ result = NoResult
  /\ proc = Down
  /\ last = [data |-> latest, asked |-> Nothing]
  /\ crashes = 0

StartStep ==
  \/ Start \/ CopyCurrent \/ CopyFails \/ RecordCopy \/ GiveUp \/ GiveUpResult
  \/ Fold \/ Unlink \/ Rename \/ DropSessions \/ ClearPending \/ WriteResult
  \/ Migrate \/ Migrated \/ Fatal \/ BackResult

Backend ==
  \/ Work \/ CancelRestore \/ Stop
  \/ \E n \in Names : CreateBackup(n) \/ RemoveBackup(n) \/ RequestRestore(n)

Next == StartStep \/ StartSkipping \/ Backend \/ Crash

Spec == Init /\ [][Next]_vars

------------------------------------------------------------------------------
(* Types *)

Pendings == [file : Names, sum : Contents, before : Names \cup {NoName}] \cup {NoPending}
Stages == {"down", "copy", "record", "give up", "give up result", "fold", "unlink", "rename",
           "drop", "clear", "result", "migrate", "migrating", "back result", "running"}

Processes == [pc : Stages, pending : Pendings, before : Names \cup {NoName},
              applied : BOOLEAN, back : BOOLEAN]

\* Every variable keeps its type.
TypeOK ==
  /\ main \in Contents
  /\ wal \in Contents \cup {Nothing, Garbage}
  /\ files \in [Names -> Contents \cup {Nothing}]
  /\ pending \in Pendings
  /\ result \in [ok : BOOLEAN, file : Names \cup {NoName}, rolledBack : BOOLEAN]
  /\ proc \in Processes
  /\ latest \in Nat
  /\ last \in [data : Nat, asked : Contents \cup {Nothing}]
  /\ crashes \in Nat

------------------------------------------------------------------------------
(* Safety *)

\* A crash at any point leaves either the old or the restored database, never a
\* mix of one with the -wal of the other.
NeverAMix == Db # Garbage

\* Before the switch there is a copy of the current state, also in the rerun of a
\* start that crashed, which keeps the copy it finds.
CurrentStateKept == At("rename") => Db.data \in Kept

\* However often the restore was interrupted or rolled back, the backend never runs with
\* sessions and remembered devices of a restored state, except those of a database in
\* which a delete was tried and failed: that error is passed over.
NoOldSessions == At("running") => Db.sessions # "revived"

\* Why they hold.  While it restores, a start works on the file that was checked and
\* knows the recorded copy; once there, a copy keeps the current state.
Swapping  == {"fold", "unlink", "rename"}
Forth(pc) == proc.pc = pc \/ (proc.pc \in Swapping /\ ~proc.back)
Restoring == proc.pc \in {"copy", "record", "clear"} \/ Forth("drop")
Copied    == proc.pc \in {"record", "drop", "clear", "result", "back result"} \cup Swapping \/ proc.applied

FilesAreClean ==
  (\A n \in Names : files[n].sessions # "revived") /\ pending.sum.sessions # "revived"
FlagsFit ==
  /\ proc.back => proc.pc \in Swapping \cup {"back result"}
  /\ proc.applied => proc.back \/ proc.pc \in {"migrate", "migrating"}
  /\ proc.pc \in {"down", "running"} => proc.before = NoName
MarkIsGone ==
  proc.pc \in {"result", "give up result", "migrate", "migrating", "back result"} \/ proc.back
    => pending = NoPending
RestoreIsChecked ==
  Restoring => /\ pending # NoPending
               /\ pending.file = proc.pending.file /\ pending.sum = proc.pending.sum
               /\ files[pending.file] = pending.sum
CopyIsThere ==
  /\ proc.before # NoName => Exists(proc.before)
  /\ Copied => proc.before # NoName
  /\ At("copy") => pending.before = NoName
  /\ Forth("drop") \/ At("clear") => pending.before = proc.before
  /\ pending.before # NoName => ~At("running") /\ Exists(pending.before)
StateIsKept == Copied \/ pending.before # NoName => Db.data \in Kept
NoWalAtSwitch == proc.pc \in {"unlink", "rename"} => wal = Nothing
SessionsWait ==
  Db.sessions = "revived" =>
    \/ Forth("drop")
    \/ At("down") /\ pending.before # NoName /\ files[pending.file] = pending.sum

RestoreInv ==
  /\ TypeOK /\ NeverAMix /\ FilesAreClean /\ FlagsFit /\ MarkIsGone /\ RestoreIsChecked
  /\ CopyIsThere /\ StateIsKept /\ NoWalAtSwitch /\ SessionsWait

\* What a restore promises: see KeptStates.
States == INSTANCE KeptStates WITH db <- Db.data, kept <- Kept
SwitchesAreWhole == States!Spec

\* The backend comes up with the state it went down with, or with the one it was
\* asked to restore, whatever crashed or failed in between.
ComesUpAsAsked ==
  [][~At("running") /\ proc'.pc = "running" =>
       \/ Db'.data = last.data
       \/ last.asked # Nothing /\ Db'.data = last.asked.data]_vars

\* As long as no start was killed, the result on the Backups page is true: the state
\* asked for if it says so, otherwise the one from before, also after failed migrations.
ResultIsTrue ==
  [][crashes = 0 /\ ~At("running") /\ proc'.pc = "running" =>
       Db'.data = IF last.asked # Nothing /\ result.ok THEN last.asked.data ELSE last.data]_vars

\* The start never ends on a half-migrated restore.
HalfRestoreGoesBack == At("down") /\ result.ok => Db.schema # "half"

------------------------------------------------------------------------------
(* Liveness *)

\* The container's restart policy starts the process again, not with DB_MIGRATE_SKIP for
\* ever, each step of the start ends, and the process that marked a restore ends itself.
FairSpec ==
  /\ Spec
  /\ WF_vars(StartStep)
  /\ SF_vars(Start)
  /\ WF_vars(pending # NoPending /\ Stop)

\* Every restore that was marked is decided: applied, refused or cancelled.
RestoreIsDecided == pending # NoPending ~> pending = NoPending
================================================================================
