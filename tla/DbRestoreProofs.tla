----------------------------- MODULE DbRestoreProofs -----------------------------
(***************************************************************************)
(* Proofs about DbRestore, for any number of backups, changes and crashes, *)
(* as long as nobody starts with DB_MIGRATE_SKIP, and of "never a mix"     *)
(* also if somebody does.  Typing and the inductive invariant first, then  *)
(* the refinement of KeptStates, then what the backend comes up with and   *)
(* what the result says of it.                                             *)
(***************************************************************************)
EXTENDS DbRestore, TLAPS

\* No content equals Nothing or Garbage, and no mark equals NoPending by accident.
LEMMA ContentFacts ==
  /\ Nothing \notin Contents /\ Garbage \notin Contents /\ Nothing # Garbage
  /\ NoPending \in Pendings /\ Down.pc = "down" /\ Down.before = NoName
  /\ \A p \in Pendings : p # NoPending => p.file \in Names /\ p.sum \in Contents
  /\ \A c \in Contents, s \in {"behind", "half", "current"} : [c EXCEPT !.schema = s] \in Contents
  /\ \A c \in Contents, s \in {"own", "revived", "spared"} : [c EXCEPT !.sessions = s] \in Contents
  /\ \A c \in Contents, d \in Nat : [c EXCEPT !.data = d] \in Contents
  BY RestoreAssumption, SMTT(20) DEF Contents, Nothing, Garbage, NoPending, Pendings, Down

LEMMA ProcessFacts ==
  /\ Down \in Processes
  /\ \A p \in Processes, s \in Stages : [p EXCEPT !.pc = s] \in Processes
  /\ \A p \in Processes, s \in Stages, b \in BOOLEAN :
       [p EXCEPT !.pc = s, !.applied = b] \in Processes /\ [p EXCEPT !.pc = s, !.back = b] \in Processes
  /\ \A p \in Processes, s \in Stages, n \in Names : [p EXCEPT !.pc = s, !.before = n] \in Processes
  /\ \A s \in Stages, m \in Pendings, n \in Names \cup {NoName} :
       [Down EXCEPT !.pending = m, !.before = n, !.pc = s] \in Processes
<1>1. Down \in Processes
  BY DEF Processes, Down, Stages, Pendings
<1>2. ASSUME NEW s \in Stages, NEW m \in Pendings, NEW n \in Names \cup {NoName}
      PROVE  [Down EXCEPT !.pending = m, !.before = n, !.pc = s] \in Processes
  BY DEF Processes, Down
<1>3. QED
  <2>1. \A p \in Processes, s \in Stages : [p EXCEPT !.pc = s] \in Processes
    BY DEF Processes
  <2>2. \A p \in Processes, s \in Stages, b \in BOOLEAN :
          [p EXCEPT !.pc = s, !.applied = b] \in Processes /\ [p EXCEPT !.pc = s, !.back = b] \in Processes
    BY DEF Processes
  <2>3. \A p \in Processes, s \in Stages, n \in Names : [p EXCEPT !.pc = s, !.before = n] \in Processes
    BY DEF Processes
  <2>4. QED
    BY <1>1, <1>2, <2>1, <2>2, <2>3

\* Whoever opens the database finds a content, if no stale -wal was left behind.
LEMMA DbIsContent ==
  ASSUME TypeOK, NeverAMix
  PROVE  Db \in Contents
  BY ContentFacts DEF TypeOK, NeverAMix, Db

\* A write changes what the next one reads, and nothing else.
LEMMA StoreFacts ==
  ASSUME NEW c \in Contents, TypeOK, Store(c)
  PROVE  Db' = c /\ main' \in Contents /\ wal' \in Contents \cup {Nothing, Garbage}
  BY ContentFacts DEF Store, Db, TypeOK

LEMMA KeptHas ==
  ASSUME NEW n, Exists(n)
  PROVE  files[n].data \in Kept
  BY DEF Exists, Kept

LEMMA FilesSame ==
  ASSUME files' = files
  PROVE  Kept' = Kept /\ \A n : Exists(n)' <=> Exists(n)
  BY DEF Kept, Exists

\* The parts of the invariant that speak of the stage of the process.
StageInv == FlagsFit /\ MarkIsGone /\ RestoreIsChecked /\ CopyIsThere /\ NoWalAtSwitch

------------------------------------------------------------------------------
LEMMA InitInv == Init => RestoreInv
<1> SUFFICES ASSUME Init PROVE RestoreInv
  OBVIOUS
<1>1. TypeOK
  <2> PICK s \in {"behind", "current"} : main = [data |-> latest, schema |-> s, sessions |-> "own"]
    BY DEF Init
  <2>1. main \in Contents /\ latest \in Nat
    BY DEF Init, Contents
  <2>2. files \in [Names -> Contents \cup {Nothing}]
    <3>1. [data |-> 0, schema |-> "behind", sessions |-> "own"] \in Contents
      BY DEF Contents
    <3>2. QED
      BY <3>1 DEF Init
  <2>3. result \in [ok : BOOLEAN, file : Names \cup {NoName}, rolledBack : BOOLEAN]
    BY DEF Init, NoResult
  <2>4. last \in [data : Nat, asked : Contents \cup {Nothing}]
    BY <2>1 DEF Init
  <2>5. QED
    BY <2>1, <2>2, <2>3, <2>4, ContentFacts, ProcessFacts DEF Init, TypeOK
<1>2. Db = main
  BY DEF Init, Db
<1>3. NeverAMix
  BY <1>1, <1>2, ContentFacts DEF NeverAMix, TypeOK
<1>4. FilesAreClean
  BY DEF Init, FilesAreClean, Nothing, NoPending
<1>5. FlagsFit /\ MarkIsGone /\ RestoreIsChecked /\ CopyIsThere /\ NoWalAtSwitch
  BY DEF Init, FlagsFit, MarkIsGone, RestoreIsChecked, CopyIsThere, NoWalAtSwitch,
         Down, Restoring, Forth, Copied, Swapping, At, NoPending
<1>6. StateIsKept /\ SessionsWait
  BY <1>2 DEF Init, StateIsKept, SessionsWait, Copied, Down, Swapping, At, NoPending
<1>7. QED
  BY <1>1, <1>3, <1>4, <1>5, <1>6 DEF RestoreInv

LEMMA StartInv ==
  ASSUME RestoreInv, Start
  PROVE  RestoreInv'
<1> USE DEF At
<1>1. Db' = Db /\ Kept' = Kept /\ (\A n : Exists(n)' <=> Exists(n))
  BY FilesSame DEF Start, Db
<1>2. TypeOK'
  <2>1. Recorded \in Names \cup {NoName}
    BY DEF Recorded, Exists
  <2>2. proc' \in Processes
    <3> DEFINE n == IF pending = NoPending THEN NoName ELSE Recorded
               s == IF pending = NoPending THEN "migrate"
                    ELSE IF files[pending.file] # pending.sum THEN "give up"
                    ELSE IF Recorded = NoName THEN "copy" ELSE "fold"
    <3>1. n \in Names \cup {NoName} /\ s \in Stages /\ pending \in Pendings
      BY <2>1 DEF Stages, RestoreInv, TypeOK
    <3>2. QED
      BY <3>1, ProcessFacts DEF Start
  <2>3. QED
    BY <2>2 DEF RestoreInv, TypeOK, Start
<1>3. NeverAMix' /\ FilesAreClean' /\ NoWalAtSwitch'
  BY <1>1 DEF RestoreInv, Start, NeverAMix, FilesAreClean, NoWalAtSwitch, Down
<1>4. FlagsFit' /\ MarkIsGone' /\ RestoreIsChecked' /\ CopyIsThere'
  BY <1>1, ContentFacts DEF RestoreInv, Start, FlagsFit, MarkIsGone, RestoreIsChecked, CopyIsThere,
     Down, Restoring, Forth, Copied, Swapping, Recorded, Exists, TypeOK
<1>5. StateIsKept' /\ SessionsWait'
  <2>1. proc.pc = "down" /\ pending' = pending /\ files' = files /\ ~proc'.applied /\ ~proc'.back
    BY DEF Start, Down
  <2>2. pending.before # NoName => Db.data \in Kept /\ Exists(pending.before)
    BY DEF RestoreInv, StateIsKept, CopyIsThere
  <2>3. Copied' => pending.before # NoName
    BY <2>1, <2>2 DEF Start, Copied, Swapping, Recorded, Down, Exists
  <2>4. Db.sessions = "revived" => pending # NoPending /\ pending.before # NoName /\ files[pending.file] = pending.sum
    BY <2>1 DEF RestoreInv, SessionsWait, Forth, Swapping, NoPending
  <2>5. Db.sessions = "revived" => proc'.pc = "fold"
    BY <2>2, <2>4, RestoreAssumption DEF Start, Down, Recorded, Exists
  <2>6. QED
    BY <1>1, <2>1, <2>2, <2>3, <2>4, <2>5 DEF StateIsKept, SessionsWait, Forth, Swapping
<1>6. QED
  BY <1>2, <1>3, <1>4, <1>5 DEF RestoreInv

LEMMA CopyCurrentInv ==
  ASSUME RestoreInv, CopyCurrent
  PROVE  RestoreInv'
<1> USE DEF At
<1> PICK n \in Names \ Scheduled :
      /\ ~Exists(n)
      /\ files' = [files EXCEPT ![n] = CopyOfCurrent]
      /\ proc' = [proc EXCEPT !.pc = "record", !.before = n]
  BY DEF CopyCurrent
<1>1. Db \in Contents /\ Db' = Db /\ Db.sessions # "revived"
  <2>1. Db \in Contents
    BY DbIsContent DEF RestoreInv
  <2>2. Db' = Db
    BY <2>1, ContentFacts DEF CopyCurrent, Db, RestoreInv, TypeOK
  <2>3. QED
    BY <2>1, <2>2 DEF RestoreInv, CopyCurrent, SessionsWait, Forth, Swapping
<1>2. TypeOK'
  <2>1. proc' \in Processes
    BY ProcessFacts DEF RestoreInv, TypeOK, Stages
  <2>2. files' \in [Names -> Contents \cup {Nothing}]
    BY <1>1 DEF RestoreInv, TypeOK, CopyOfCurrent
  <2>3. QED
    BY <1>1, <2>1, <2>2 DEF RestoreInv, TypeOK, CopyCurrent
<1>3. Exists(n)' /\ files'[n] = Db /\ \A m : Exists(m) => Exists(m)' /\ files'[m] = files[m]
  BY <1>1, ContentFacts DEF Exists, CopyOfCurrent, RestoreInv, TypeOK
<1>4. Db'.data \in Kept'
  BY <1>1, <1>3 DEF Kept, Exists
<1>5. NeverAMix' /\ FilesAreClean' /\ NoWalAtSwitch'
  BY <1>1, <1>3 DEF RestoreInv, CopyCurrent, NeverAMix, FilesAreClean, NoWalAtSwitch, TypeOK, Exists, CopyOfCurrent
<1>6. FlagsFit' /\ MarkIsGone' /\ RestoreIsChecked' /\ CopyIsThere'
  <2>1. /\ proc.pc = "copy" /\ proc'.pc = "record" /\ proc'.before = n
        /\ proc'.pending = proc.pending /\ proc'.applied = proc.applied /\ proc'.back = proc.back
        /\ pending' = pending
    BY DEF CopyCurrent, RestoreInv, TypeOK, Processes
  <2>2. ~proc.back /\ ~proc.applied
    BY <2>1 DEF RestoreInv, FlagsFit, Swapping
  <2>3. pending # NoPending /\ pending.sum # Nothing /\ Exists(pending.file)
    BY <2>1, ContentFacts DEF RestoreInv, RestoreIsChecked, Restoring, Exists, TypeOK
  <2>4. FlagsFit' /\ MarkIsGone'
    BY <2>1, <2>2 DEF FlagsFit, MarkIsGone, Swapping
  <2>5. RestoreIsChecked'
    BY <1>3, <2>1, <2>2, <2>3 DEF RestoreInv, RestoreIsChecked, Restoring, Forth, Swapping
  <2>6. CopyIsThere'
    BY <1>3, <2>1, <2>2, RestoreAssumption DEF RestoreInv, CopyIsThere, Copied, Forth, Swapping
  <2>7. QED
    BY <2>4, <2>5, <2>6
<1>7. StateIsKept' /\ SessionsWait'
  BY <1>1, <1>4 DEF StateIsKept, SessionsWait
<1>8. QED
  BY <1>2, <1>5, <1>6, <1>7 DEF RestoreInv

\* Most steps leave the files alone and move the process on.
LEMMA MovesOn ==
  ASSUME RestoreInv, UNCHANGED <<main, wal, files, latest, last>>,
         proc' \in Processes, pending' \in Pendings, pending'.sum.sessions # "revived", crashes' \in Nat,
         result' \in [ok : BOOLEAN, file : Names \cup {NoName}, rolledBack : BOOLEAN],
         StageInv',
         Copied' \/ pending'.before # NoName => Copied \/ pending.before # NoName,
         Db.sessions = "revived" => Forth("drop")' \/ (At("down")' /\ pending'.before # NoName
                                             /\ files[pending'.file] = pending'.sum)
  PROVE  RestoreInv'
<1>1. Db' = Db /\ Kept' = Kept
  BY FilesSame DEF Db
<1>2. TypeOK'
  BY DEF RestoreInv, TypeOK
<1>3. NeverAMix' /\ FilesAreClean'
  BY <1>1 DEF RestoreInv, NeverAMix, FilesAreClean
<1>4. StateIsKept' /\ SessionsWait'
  BY <1>1 DEF RestoreInv, StateIsKept, SessionsWait
<1>5. QED
  BY <1>2, <1>3, <1>4 DEF RestoreInv, StageInv

\* What a step that changes nothing but the stage knows.
LEMMA GotoFacts ==
  ASSUME TypeOK, NEW s \in Stages, Goto(s)
  PROVE  /\ proc' \in Processes /\ proc'.pc = s /\ proc'.before = proc.before
         /\ proc'.pending = proc.pending /\ proc'.applied = proc.applied /\ proc'.back = proc.back
  BY ProcessFacts DEF TypeOK, Goto, Processes

LEMMA BeginFacts ==
  ASSUME NEW s \in Stages, Begin(s)
  PROVE  /\ proc' \in Processes /\ proc'.pc = s /\ proc'.before = NoName
         /\ proc'.pending = NoPending /\ ~proc'.applied /\ ~proc'.back
  BY ContentFacts DEF Begin, Processes, Down

LEMMA CopyFailsInv ==
  ASSUME RestoreInv, CopyFails
  PROVE  RestoreInv'
<1> USE DEF At
<1>1. /\ proc' \in Processes /\ proc'.pc = "give up" /\ proc'.before = proc.before
      /\ proc'.pending = proc.pending /\ proc'.applied = proc.applied /\ proc'.back = proc.back
  BY GotoFacts DEF CopyFails, RestoreInv, Stages
<1>2. StageInv'
  BY <1>1, FilesSame DEF StageInv, RestoreInv, CopyFails, FlagsFit, MarkIsGone, RestoreIsChecked, CopyIsThere, NoWalAtSwitch,
     Restoring, Forth, Copied, Swapping
<1>3. (Copied' => Copied) /\ Db.sessions # "revived"
  BY <1>1 DEF RestoreInv, CopyFails, Copied, SessionsWait, Forth, Swapping
<1>4. QED
  BY <1>1, <1>2, <1>3, MovesOn DEF CopyFails, RestoreInv, TypeOK, FilesAreClean

LEMMA RecordCopyInv ==
  ASSUME RestoreInv, RecordCopy
  PROVE  RestoreInv'
<1> USE DEF At
<1>1. /\ proc' \in Processes /\ proc'.pc = "fold" /\ proc'.before = proc.before
      /\ proc'.pending = proc.pending /\ proc'.applied = proc.applied /\ proc'.back = proc.back
  BY GotoFacts DEF RecordCopy, RestoreInv, Stages
<1>2. /\ pending' \in Pendings /\ pending'.file = pending.file /\ pending'.sum = pending.sum
      /\ pending'.before = proc.before /\ pending' # NoPending /\ proc.before # NoName
  <2>1. proc.pending \in Pendings /\ pending \in Pendings /\ proc.before \in Names \cup {NoName}
    BY DEF RestoreInv, TypeOK, Processes
  <2>2. pending # NoPending /\ pending.file = proc.pending.file /\ pending.sum = proc.pending.sum
    BY DEF RestoreInv, RestoreIsChecked, Restoring, RecordCopy
  <2>3. proc.pending.file # NoName
    BY <2>1, <2>2, ContentFacts, RestoreAssumption
  <2>4. proc.pending \in [file : Names, sum : Contents, before : Names \cup {NoName}]
    BY <2>1, <2>3 DEF Pendings, NoPending
  <2>5. proc.before # NoName
    BY DEF RestoreInv, CopyIsThere, Copied, RecordCopy
  <2>6. QED
    BY <2>1, <2>2, <2>3, <2>4, <2>5 DEF RecordCopy, Pendings, NoPending
<1>3. ~proc.back /\ ~proc.applied
  BY DEF RestoreInv, FlagsFit, RecordCopy, Swapping
<1>4. StageInv'
  BY <1>1, <1>2, <1>3, FilesSame DEF StageInv, RestoreInv, RecordCopy, FlagsFit, MarkIsGone, RestoreIsChecked,
     CopyIsThere, NoWalAtSwitch, Restoring, Forth, Copied, Swapping
<1>5. Copied /\ Db.sessions # "revived"
  BY DEF RestoreInv, RecordCopy, Copied, SessionsWait, Forth, Swapping
<1>6. QED
  BY <1>1, <1>2, <1>4, <1>5, MovesOn DEF RecordCopy, RestoreInv, TypeOK, FilesAreClean

LEMMA GiveUpInv ==
  ASSUME RestoreInv, GiveUp
  PROVE  RestoreInv'
<1> USE DEF At
<1>1. /\ proc' \in Processes /\ proc'.pc = "give up result" /\ proc'.before = proc.before
      /\ proc'.pending = proc.pending /\ proc'.applied = proc.applied /\ proc'.back = proc.back
  BY GotoFacts DEF GiveUp, RestoreInv, Stages
<1>2. pending' = NoPending /\ pending' \in Pendings /\ pending'.before = NoName /\ pending'.sum.sessions # "revived"
  BY ContentFacts DEF GiveUp, NoPending, Nothing
<1>3. StageInv'
  BY <1>1, <1>2, FilesSame DEF StageInv, RestoreInv, GiveUp, FlagsFit, MarkIsGone, RestoreIsChecked, CopyIsThere,
     NoWalAtSwitch, Restoring, Forth, Copied, Swapping
<1>4. (Copied' => Copied) /\ Db.sessions # "revived"
  BY <1>1 DEF RestoreInv, GiveUp, Copied, SessionsWait, Forth, Swapping
<1>5. QED
  BY <1>1, <1>2, <1>3, <1>4, MovesOn DEF GiveUp, RestoreInv, TypeOK

LEMMA ClearPendingInv ==
  ASSUME RestoreInv, ClearPending
  PROVE  RestoreInv'
<1> USE DEF At
<1>1. /\ proc' \in Processes /\ proc'.pc = "result" /\ proc'.before = proc.before
      /\ proc'.pending = proc.pending /\ proc'.applied = proc.applied /\ proc'.back = proc.back
  BY GotoFacts DEF ClearPending, RestoreInv, Stages
<1>2. pending' = NoPending /\ pending' \in Pendings /\ pending'.before = NoName /\ pending'.sum.sessions # "revived"
  BY ContentFacts DEF ClearPending, NoPending, Nothing
<1>3. StageInv'
  BY <1>1, <1>2, FilesSame DEF StageInv, RestoreInv, ClearPending, FlagsFit, MarkIsGone, RestoreIsChecked, CopyIsThere,
     NoWalAtSwitch, Restoring, Forth, Copied, Swapping
<1>4. (Copied' => Copied) /\ Db.sessions # "revived"
  BY <1>1 DEF RestoreInv, ClearPending, Copied, SessionsWait, Forth, Swapping
<1>5. QED
  BY <1>1, <1>2, <1>3, <1>4, MovesOn DEF ClearPending, RestoreInv, TypeOK

LEMMA GiveUpResultInv ==
  ASSUME RestoreInv, GiveUpResult
  PROVE  RestoreInv'
<1> USE DEF At
<1>1. /\ proc' \in Processes /\ proc'.pc = "migrate" /\ proc'.before = NoName
      /\ proc'.pending = NoPending /\ ~proc'.applied /\ ~proc'.back
  BY BeginFacts DEF GiveUpResult, Stages
<1>2. result' \in [ok : BOOLEAN, file : Names \cup {NoName}, rolledBack : BOOLEAN]
  <2>1. proc.pending.file \in Names \cup {NoName}
    BY ContentFacts DEF RestoreInv, TypeOK, Processes, NoPending
  <2>2. QED
    BY <2>1 DEF GiveUpResult
<1>3. StageInv'
  BY <1>1, FilesSame DEF StageInv, RestoreInv, GiveUpResult, FlagsFit, MarkIsGone, RestoreIsChecked, CopyIsThere,
     NoWalAtSwitch, Restoring, Forth, Copied, Swapping
<1>4. (Copied' => Copied) /\ Db.sessions # "revived"
  BY <1>1 DEF RestoreInv, GiveUpResult, Copied, SessionsWait, Forth, Swapping
<1>5. QED
  BY <1>1, <1>2, <1>3, <1>4, MovesOn DEF GiveUpResult, RestoreInv, TypeOK, FilesAreClean

LEMMA WriteResultInv ==
  ASSUME RestoreInv, WriteResult
  PROVE  RestoreInv'
<1> USE DEF At
<1>1. /\ proc' \in Processes /\ proc'.pc = "migrate" /\ proc'.before = proc.before
      /\ proc'.pending = proc.pending /\ proc'.applied /\ proc'.back = proc.back
  <2>1. proc \in Processes /\ "migrate" \in Stages /\ proc' = [proc EXCEPT !.pc = "migrate", !.applied = TRUE]
    BY DEF WriteResult, RestoreInv, TypeOK, Stages
  <2>2. proc' \in Processes
    BY <2>1, ProcessFacts
  <2>3. QED
    BY <2>1, <2>2 DEF Processes
<1>2. result' \in [ok : BOOLEAN, file : Names \cup {NoName}, rolledBack : BOOLEAN]
  <2>1. proc.pending.file \in Names \cup {NoName}
    BY ContentFacts DEF RestoreInv, TypeOK, Processes, NoPending
  <2>2. QED
    BY <2>1 DEF WriteResult
<1>3. StageInv'
  BY <1>1, FilesSame DEF StageInv, RestoreInv, WriteResult, FlagsFit, MarkIsGone, RestoreIsChecked, CopyIsThere,
     NoWalAtSwitch, Restoring, Forth, Copied, Swapping
<1>4. (Copied' => Copied) /\ Db.sessions # "revived"
  BY <1>1 DEF RestoreInv, WriteResult, Copied, SessionsWait, Forth, Swapping
<1>5. QED
  BY <1>1, <1>2, <1>3, <1>4, MovesOn DEF WriteResult, RestoreInv, TypeOK, FilesAreClean

LEMMA BackResultInv ==
  ASSUME RestoreInv, BackResult
  PROVE  RestoreInv'
<1> USE DEF At
<1>1. /\ proc' \in Processes /\ proc'.pc = "down" /\ proc'.before = NoName
      /\ proc'.pending = NoPending /\ ~proc'.applied /\ ~proc'.back
  BY BeginFacts DEF BackResult, Stages
<1>2. result' \in [ok : BOOLEAN, file : Names \cup {NoName}, rolledBack : BOOLEAN]
  <2>1. proc.pending.file \in Names \cup {NoName}
    BY ContentFacts DEF RestoreInv, TypeOK, Processes, NoPending
  <2>2. QED
    BY <2>1 DEF BackResult
<1>3. StageInv'
  BY <1>1, FilesSame DEF StageInv, RestoreInv, BackResult, FlagsFit, MarkIsGone, RestoreIsChecked, CopyIsThere,
     NoWalAtSwitch, Restoring, Forth, Copied, Swapping
<1>4. (Copied' => Copied) /\ Db.sessions # "revived"
  BY <1>1 DEF RestoreInv, BackResult, Copied, SessionsWait, Forth, Swapping
<1>5. QED
  BY <1>1, <1>2, <1>3, <1>4, MovesOn DEF BackResult, RestoreInv, TypeOK, FilesAreClean

LEMMA FatalInv ==
  ASSUME RestoreInv, Fatal
  PROVE  RestoreInv'
<1> USE DEF At
<1>1. CASE proc.applied
  <2>1. /\ proc' \in Processes /\ proc'.pc = "fold" /\ proc'.before = proc.before
        /\ proc'.pending = proc.pending /\ proc'.applied /\ proc'.back
    <3>1. proc \in Processes /\ "fold" \in Stages /\ proc' = [proc EXCEPT !.pc = "fold", !.back = TRUE]
      BY <1>1 DEF Fatal, RestoreInv, TypeOK, Stages
    <3>2. proc' \in Processes
      BY <3>1, ProcessFacts
    <3>3. QED
      BY <1>1, <3>1, <3>2 DEF Processes
  <2>2. StageInv'
    BY <1>1, <2>1, FilesSame DEF StageInv, RestoreInv, Fatal, FlagsFit, MarkIsGone, RestoreIsChecked, CopyIsThere,
     NoWalAtSwitch, Restoring, Forth, Copied, Swapping
  <2>3. (Copied' => Copied) /\ Db.sessions # "revived"
    BY <1>1 DEF RestoreInv, Fatal, Copied, SessionsWait, Forth, Swapping
  <2>4. QED
    BY <2>1, <2>2, <2>3, MovesOn DEF Fatal, RestoreInv, TypeOK, FilesAreClean
<1>2. CASE ~proc.applied
  <2>1. /\ proc' \in Processes /\ proc'.pc = "down" /\ proc'.before = NoName
        /\ ~proc'.applied /\ ~proc'.back
    BY <1>2, ProcessFacts DEF Fatal, Down
  <2>2. StageInv'
    BY <1>2, <2>1, FilesSame DEF StageInv, RestoreInv, Fatal, FlagsFit, MarkIsGone, RestoreIsChecked, CopyIsThere,
     NoWalAtSwitch, Restoring, Forth, Copied, Swapping
  <2>3. (Copied' => Copied) /\ Db.sessions # "revived"
    BY <2>1 DEF RestoreInv, Fatal, Copied, SessionsWait, Forth, Swapping
  <2>4. QED
    BY <2>1, <2>2, <2>3, MovesOn DEF Fatal, RestoreInv, TypeOK, FilesAreClean
<1>3. QED
  BY <1>1, <1>2

LEMMA CrashInv ==
  ASSUME RestoreInv, Crash
  PROVE  RestoreInv'
<1> USE DEF At
<1>1. /\ proc' \in Processes /\ proc'.pc = "down" /\ proc'.before = NoName
      /\ proc'.pending = NoPending /\ ~proc'.applied /\ ~proc'.back
  BY BeginFacts DEF Crash, Stages
<1>2. StageInv'
  BY <1>1, FilesSame DEF StageInv, RestoreInv, Crash, FlagsFit, MarkIsGone, RestoreIsChecked, CopyIsThere,
     NoWalAtSwitch, Restoring, Forth, Copied, Swapping
<1>3. ~Copied'
  BY <1>1 DEF Copied, Swapping
<1>4. Db.sessions = "revived" => pending.before # NoName /\ files[pending.file] = pending.sum
  BY DEF RestoreInv, Crash, SessionsWait, RestoreIsChecked, CopyIsThere, Restoring, Copied, Forth, Swapping
<1>5. crashes' \in Nat
  BY DEF Crash, RestoreInv, TypeOK
<1>6. QED
  BY <1>1, <1>2, <1>3, <1>4, <1>5, MovesOn DEF Crash, RestoreInv, TypeOK, FilesAreClean

\* Steps that write the database: what it holds afterwards decides.
LEMMA Writes ==
  ASSUME RestoreInv, UNCHANGED <<files, last, crashes>>, result' = result,
         proc' \in Processes, pending' = pending, latest' \in Nat,
         main' \in Contents, wal' \in Contents \cup {Nothing, Garbage}, Db' \in Contents,
         StageInv',
         Copied' \/ pending.before # NoName => Db'.data \in Kept,
         Db'.sessions = "revived" => Forth("drop")'
  PROVE  RestoreInv'
<1>1. Kept' = Kept
  BY FilesSame
<1>2. TypeOK'
  BY DEF RestoreInv, TypeOK
<1>3. NeverAMix' /\ FilesAreClean'
  BY ContentFacts DEF RestoreInv, NeverAMix, FilesAreClean
<1>4. StateIsKept' /\ SessionsWait'
  BY <1>1 DEF StateIsKept, SessionsWait
<1>5. QED
  BY <1>2, <1>3, <1>4 DEF RestoreInv, StageInv

LEMMA FoldInv ==
  ASSUME RestoreInv, Fold
  PROVE  RestoreInv'
<1> USE DEF At
<1>1. /\ proc' \in Processes /\ proc'.pc = "unlink" /\ proc'.before = proc.before
      /\ proc'.pending = proc.pending /\ proc'.applied = proc.applied /\ proc'.back = proc.back
  BY GotoFacts DEF Fold, RestoreInv, Stages
<1>2. Db \in Contents /\ Db' = Db /\ main' \in Contents /\ wal' = Nothing
  BY DbIsContent, ContentFacts DEF RestoreInv, Fold, Db, NoWalAtSwitch, TypeOK
<1>3. StageInv'
  BY <1>1, <1>2, FilesSame DEF StageInv, RestoreInv, Fold, FlagsFit, MarkIsGone, RestoreIsChecked, CopyIsThere,
     NoWalAtSwitch, Restoring, Forth, Copied, Swapping
<1>4. Db'.data \in Kept
  BY <1>2 DEF RestoreInv, Fold, StateIsKept, Copied, Swapping
<1>5. Db'.sessions = "revived" => Forth("drop")'
  BY <1>1, <1>2 DEF RestoreInv, Fold, SessionsWait, Forth, Swapping
<1>6. QED
  BY <1>1, <1>2, <1>3, <1>4, <1>5, Writes DEF Fold, RestoreInv, TypeOK

LEMMA UnlinkInv ==
  ASSUME RestoreInv, Unlink
  PROVE  RestoreInv'
<1> USE DEF At
<1>1. /\ proc' \in Processes /\ proc'.pc = "rename" /\ proc'.before = proc.before
      /\ proc'.pending = proc.pending /\ proc'.applied = proc.applied /\ proc'.back = proc.back
  BY GotoFacts DEF Unlink, RestoreInv, Stages
<1>2. Db \in Contents /\ Db' = Db /\ main' \in Contents /\ wal' = Nothing
  BY DbIsContent, ContentFacts DEF RestoreInv, Unlink, Db, NoWalAtSwitch, TypeOK
<1>3. StageInv'
  BY <1>1, <1>2, FilesSame DEF StageInv, RestoreInv, Unlink, FlagsFit, MarkIsGone, RestoreIsChecked, CopyIsThere,
     NoWalAtSwitch, Restoring, Forth, Copied, Swapping
<1>4. Db'.data \in Kept
  BY <1>2 DEF RestoreInv, Unlink, StateIsKept, Copied, Swapping
<1>5. Db'.sessions = "revived" => Forth("drop")'
  BY <1>1, <1>2 DEF RestoreInv, Unlink, SessionsWait, Forth, Swapping
<1>6. QED
  BY <1>1, <1>2, <1>3, <1>4, <1>5, Writes DEF Unlink, RestoreInv, TypeOK

LEMMA RenameInv ==
  ASSUME RestoreInv, Rename
  PROVE  RestoreInv'
<1> USE DEF At
<1>1. \E s \in {"drop", "back result"} :
         /\ proc' \in Processes /\ proc'.pc = s /\ proc'.before = proc.before
         /\ proc'.pending = proc.pending /\ proc'.applied = proc.applied /\ proc'.back = proc.back
         /\ s = "back result" <=> proc.back
  BY GotoFacts DEF Rename, RestoreInv, Stages
<1>2. wal' = Nothing /\ Db' = Incoming /\ main' = Incoming
  BY DEF Rename, RestoreInv, NoWalAtSwitch, Db
<1>3. Incoming \in Contents /\ Incoming.data \in Kept /\ (Incoming.sessions = "revived" => ~proc.back)
  <2>1. CASE proc.back
    <3>1. Exists(proc.before)
      BY DEF RestoreInv, Rename, CopyIsThere, Copied, Swapping
    <3>2. QED
      BY <2>1, <3>1, KeptHas DEF Incoming, Exists, RestoreInv, TypeOK, FilesAreClean
  <2>2. CASE ~proc.back
    <3>1. pending # NoPending /\ proc.pending.file = pending.file /\ files[pending.file] = pending.sum
      BY <2>2 DEF RestoreInv, Rename, RestoreIsChecked, Restoring, Forth, Swapping
    <3>2. pending.sum \in Contents /\ Exists(pending.file)
      BY <3>1, ContentFacts DEF RestoreInv, TypeOK, Exists
    <3>3. Incoming = [pending.sum EXCEPT !.sessions = "revived"]
      BY <2>2, <3>1 DEF Incoming
    <3>4. Incoming \in Contents /\ Incoming.data = pending.sum.data
      BY <3>2, <3>3 DEF Contents
    <3>5. QED
      BY <2>2, <3>1, <3>2, <3>4, KeptHas
  <2>3. QED
    BY <2>1, <2>2
<1>4. StageInv'
  BY <1>1, <1>2, FilesSame DEF StageInv, RestoreInv, Rename, FlagsFit, MarkIsGone, RestoreIsChecked, CopyIsThere,
     NoWalAtSwitch, Restoring, Forth, Copied, Swapping
<1>5. Db'.sessions = "revived" => Forth("drop")'
  BY <1>1, <1>2, <1>3 DEF Forth
<1>6. QED
  BY <1>1, <1>2, <1>3, <1>4, <1>5, Writes DEF Rename, RestoreInv, TypeOK

\* Whether the sessions are dropped or a failed delete is passed over, the state stays.
LEMMA DropFacts ==
  ASSUME TypeOK, NeverAMix, DropSessions
  PROVE  /\ Db' \in Contents /\ Db'.data = Db.data /\ Db'.sessions # "revived"
         /\ main' \in Contents /\ wal' \in Contents \cup {Nothing, Garbage}
<1> PICK s \in {"own", "spared"} : Store([Db EXCEPT !.sessions = s])
  BY DEF DropSessions
<1> DEFINE c == [Db EXCEPT !.sessions = s]
<1>1. c \in Contents /\ c.data = Db.data /\ c.sessions # "revived"
  BY DbIsContent DEF Contents
<1>2. Db' = c /\ main' \in Contents /\ wal' \in Contents \cup {Nothing, Garbage}
  BY <1>1, StoreFacts
<1>3. QED
  BY <1>1, <1>2

LEMMA DropSessionsInv ==
  ASSUME RestoreInv, DropSessions
  PROVE  RestoreInv'
<1> USE DEF At
<1>1. /\ proc' \in Processes /\ proc'.pc = "clear" /\ proc'.before = proc.before
      /\ proc'.pending = proc.pending /\ proc'.applied = proc.applied /\ proc'.back = proc.back
  BY GotoFacts DEF DropSessions, RestoreInv, Stages
<1>2. /\ Db' \in Contents /\ Db'.data = Db.data /\ Db'.sessions # "revived"
      /\ main' \in Contents /\ wal' \in Contents \cup {Nothing, Garbage}
  BY DropFacts DEF RestoreInv
<1>4. StageInv'
  BY <1>1, FilesSame DEF StageInv, RestoreInv, DropSessions, FlagsFit, MarkIsGone, RestoreIsChecked, CopyIsThere,
     NoWalAtSwitch, Restoring, Forth, Copied, Swapping
<1>5. Db'.data \in Kept
  BY <1>2 DEF RestoreInv, DropSessions, StateIsKept, Copied
<1>6. QED
  BY <1>1, <1>2, <1>4, <1>5, Writes DEF DropSessions, RestoreInv, TypeOK

\* A migration changes the schema of the state the database holds.
LEMMA SchemaFacts ==
  ASSUME RestoreInv, NEW s \in {"behind", "half", "current"}, Store([Db EXCEPT !.schema = s])
  PROVE  /\ Db' \in Contents /\ Db'.data = Db.data /\ Db'.sessions = Db.sessions
         /\ main' \in Contents /\ wal' \in Contents \cup {Nothing, Garbage}
<1>1. /\ [Db EXCEPT !.schema = s] \in Contents
      /\ [Db EXCEPT !.schema = s].data = Db.data /\ [Db EXCEPT !.schema = s].sessions = Db.sessions
  BY DbIsContent DEF RestoreInv, Contents
<1>2. QED
  BY <1>1, StoreFacts DEF RestoreInv

LEMMA MigrateInv ==
  ASSUME RestoreInv, Migrate
  PROVE  RestoreInv'
<1> USE DEF At
<1>1. CASE Begin("running") /\ UNCHANGED <<main, wal>>
  <2>1. /\ proc' \in Processes /\ proc'.pc = "running" /\ proc'.before = NoName
        /\ proc'.pending = NoPending /\ ~proc'.applied /\ ~proc'.back
    BY <1>1, BeginFacts DEF Stages
  <2>2. StageInv'
    BY <2>1, FilesSame DEF StageInv, RestoreInv, Migrate, NoPending, FlagsFit, MarkIsGone, RestoreIsChecked, CopyIsThere,
     NoWalAtSwitch, Restoring, Forth, Copied, Swapping
  <2>3. ~Copied' /\ Db.sessions # "revived"
    BY <2>1 DEF RestoreInv, Migrate, Copied, SessionsWait, Forth, Swapping
  <2>4. QED
    BY <1>1, <2>1, <2>2, <2>3, MovesOn DEF Migrate, RestoreInv, TypeOK, FilesAreClean
<1>2. CASE Goto("migrating") /\ Store([Db EXCEPT !.schema = "half"])
  <2>1. /\ proc' \in Processes /\ proc'.pc = "migrating" /\ proc'.before = proc.before
        /\ proc'.pending = proc.pending /\ proc'.applied = proc.applied /\ proc'.back = proc.back
    BY <1>2, GotoFacts DEF RestoreInv, Stages
  <2>2. StageInv'
    BY <2>1, FilesSame DEF StageInv, RestoreInv, Migrate, FlagsFit, MarkIsGone, RestoreIsChecked, CopyIsThere,
     NoWalAtSwitch, Restoring, Forth, Copied, Swapping
  <2>3. /\ Db' \in Contents /\ Db'.data = Db.data /\ Db'.sessions = Db.sessions
        /\ main' \in Contents /\ wal' \in Contents \cup {Nothing, Garbage}
    BY <1>2, SchemaFacts
  <2>4. (Copied' => Copied) /\ Db.sessions # "revived"
    BY <2>1 DEF RestoreInv, Migrate, Copied, SessionsWait, Forth, Swapping
  <2>5. Copied' \/ pending.before # NoName => Db'.data \in Kept
    BY <2>3, <2>4 DEF RestoreInv, StateIsKept
  <2>6. QED
    BY <2>1, <2>2, <2>3, <2>4, <2>5, Writes DEF Migrate, RestoreInv, TypeOK
<1>3. QED
  BY <1>1, <1>2 DEF Migrate

LEMMA MigratedInv ==
  ASSUME RestoreInv, Migrated
  PROVE  RestoreInv'
<1> USE DEF At
<1>1. /\ proc' \in Processes /\ proc'.pc = "running" /\ proc'.before = NoName
      /\ proc'.pending = NoPending /\ ~proc'.applied /\ ~proc'.back
  BY BeginFacts DEF Migrated, Stages
<1>2. StageInv'
  BY <1>1, FilesSame DEF StageInv, RestoreInv, Migrated, NoPending, FlagsFit, MarkIsGone, RestoreIsChecked, CopyIsThere,
     NoWalAtSwitch, Restoring, Forth, Copied, Swapping
<1>3. /\ Db' \in Contents /\ Db'.data = Db.data /\ Db'.sessions = Db.sessions
      /\ main' \in Contents /\ wal' \in Contents \cup {Nothing, Garbage}
  BY SchemaFacts DEF Migrated
<1>4. ~Copied' /\ Db.sessions # "revived" /\ pending.before = NoName
  BY <1>1 DEF RestoreInv, Migrated, Copied, SessionsWait, Forth, Swapping, MarkIsGone, NoPending
<1>5. QED
  BY <1>1, <1>2, <1>3, <1>4, Writes DEF Migrated, RestoreInv, TypeOK

\* What is known while the backend runs: nothing of a restore is left.
LEMMA RunningFacts ==
  ASSUME RestoreInv, At("running")
  PROVE  /\ proc.before = NoName /\ ~proc.applied /\ ~proc.back /\ pending.before = NoName
         /\ Db \in Contents /\ Db.sessions # "revived" /\ ~Copied
  BY DbIsContent DEF RestoreInv, At, FlagsFit, CopyIsThere, SessionsWait, Forth, Copied, Swapping

LEMMA WorkInv ==
  ASSUME RestoreInv, Work
  PROVE  RestoreInv'
<1> USE DEF At
<1> DEFINE c == [Db EXCEPT !.data = latest + 1]
<1>1. c \in Contents /\ c.sessions # "revived" /\ latest + 1 \in Nat
  BY RunningFacts DEF Work, Contents, RestoreInv, TypeOK
<1>2. Db' = c /\ main' \in Contents /\ wal' \in Contents \cup {Nothing, Garbage}
  BY <1>1, StoreFacts DEF Work, RestoreInv
<1>3. StageInv'
  BY FilesSame DEF StageInv, RestoreInv, Work, FlagsFit, MarkIsGone, RestoreIsChecked, CopyIsThere,
     NoWalAtSwitch, Restoring, Forth, Copied, Swapping
<1>4. ~Copied' /\ pending.before = NoName
  BY RunningFacts DEF Work, Copied
<1>5. QED
  BY <1>1, <1>2, <1>3, <1>4, Writes DEF Work, RestoreInv, TypeOK

\* Copies written and removed while the backend runs.
LEMMA FileInv ==
  ASSUME RestoreInv, At("running"), UNCHANGED <<main, wal, pending, result, proc, latest, last, crashes>>,
         files' \in [Names -> Contents \cup {Nothing}], \A n \in Names : files'[n].sessions # "revived"
  PROVE  RestoreInv'
<1> USE DEF At
<1>1. Db' = Db
  BY DEF Db
<1>2. TypeOK' /\ NeverAMix' /\ FilesAreClean'
  BY <1>1 DEF RestoreInv, TypeOK, NeverAMix, FilesAreClean
<1>3. FlagsFit' /\ MarkIsGone' /\ NoWalAtSwitch'
  BY DEF RestoreInv, FlagsFit, MarkIsGone, NoWalAtSwitch
<1>4. RestoreIsChecked' /\ CopyIsThere' /\ StateIsKept' /\ SessionsWait'
  BY <1>1, RunningFacts DEF RestoreIsChecked, CopyIsThere, StateIsKept, SessionsWait, Restoring, Forth, Copied, Swapping
<1>5. QED
  BY <1>2, <1>3, <1>4 DEF RestoreInv

LEMMA BackupPageInv ==
  ASSUME RestoreInv, NEW n \in Names, CreateBackup(n) \/ RemoveBackup(n)
  PROVE  RestoreInv'
<1>1. Db \in Contents /\ Db.sessions # "revived" /\ Nothing.sessions # "revived"
  BY RunningFacts DEF CreateBackup, RemoveBackup, Nothing
<1>2. files' \in [Names -> Contents \cup {Nothing}] /\ \A m \in Names : files'[m].sessions # "revived"
  <2>1. CASE CreateBackup(n)
    BY <1>1, <2>1 DEF CreateBackup, RestoreInv, TypeOK, FilesAreClean
  <2>2. CASE RemoveBackup(n)
    BY <1>1, <2>2 DEF RemoveBackup, RestoreInv, TypeOK, FilesAreClean
  <2>3. QED
    BY <2>1, <2>2
<1>3. QED
  BY <1>2, FileInv DEF CreateBackup, RemoveBackup

LEMMA MarkInv ==
  ASSUME RestoreInv, (\E n \in Names : RequestRestore(n)) \/ CancelRestore
  PROVE  RestoreInv'
<1> USE DEF At
<1>1. pending' \in Pendings /\ pending'.sum.sessions # "revived" /\ pending'.before = NoName
  <2>1. CASE CancelRestore
    BY <2>1, ContentFacts DEF CancelRestore, NoPending, Nothing
  <2>2. ASSUME NEW n \in Names, RequestRestore(n)
        PROVE  pending' \in Pendings /\ pending'.sum.sessions # "revived" /\ pending'.before = NoName
    <3>1. files[n] \in Contents /\ files[n].sessions # "revived"
      BY <2>2 DEF RequestRestore, Exists, RestoreInv, TypeOK, FilesAreClean
    <3>2. QED
      BY <2>2, <3>1 DEF RequestRestore, Pendings
  <2>3. QED
    BY <2>1, <2>2
<1>2. At("running") /\ UNCHANGED <<main, wal, files, result, proc, latest, last, crashes>>
  BY DEF RequestRestore, CancelRestore
<1>3. StageInv'
  BY <1>1, <1>2, FilesSame DEF StageInv, RestoreInv, FlagsFit, MarkIsGone, RestoreIsChecked, CopyIsThere,
     NoWalAtSwitch, Restoring, Forth, Copied, Swapping
<1>4. ~Copied' /\ Db.sessions # "revived"
  BY <1>2, RunningFacts DEF Copied
<1>5. QED
  BY <1>1, <1>2, <1>3, <1>4, MovesOn DEF RestoreInv, TypeOK

LEMMA StopInv ==
  ASSUME RestoreInv, Stop
  PROVE  RestoreInv'
<1> USE DEF At
<1>1. /\ proc' \in Processes /\ proc'.pc = "down" /\ proc'.before = NoName
      /\ proc'.pending = NoPending /\ ~proc'.applied /\ ~proc'.back
  BY BeginFacts DEF Stop, Stages
<1>2. Db \in Contents /\ Db.sessions # "revived" /\ pending.before = NoName
  BY RunningFacts DEF Stop
<1>3. Db' = Db /\ main' \in Contents /\ wal' \in Contents \cup {Nothing, Garbage}
  BY <1>2, ContentFacts DEF Stop, Db, RestoreInv, TypeOK
<1>4. last' \in [data : Nat, asked : Contents \cup {Nothing}]
  <2>1. Db.data \in Nat /\ pending.sum \in Contents \cup {Nothing}
    BY <1>2, ContentFacts DEF Contents, RestoreInv, TypeOK, NoPending
  <2>2. QED
    BY <2>1 DEF Stop, Leaving
<1>5. TypeOK'
  BY <1>1, <1>3, <1>4 DEF Stop, RestoreInv, TypeOK
<1>6. StageInv'
  BY <1>1, FilesSame DEF StageInv, RestoreInv, Stop, FlagsFit, MarkIsGone, RestoreIsChecked, CopyIsThere,
     NoWalAtSwitch, Restoring, Forth, Copied, Swapping
<1>7. NeverAMix' /\ FilesAreClean' /\ StateIsKept' /\ SessionsWait'
  BY <1>1, <1>2, <1>3 DEF Stop, RestoreInv, NeverAMix, FilesAreClean, StateIsKept, SessionsWait, Copied, Swapping
<1>8. QED
  BY <1>5, <1>6, <1>7 DEF RestoreInv, StageInv

------------------------------------------------------------------------------
(* The invariant *)

LEMMA StepInv ==
  ASSUME ~SkipAllowed, RestoreInv, [Next]_vars
  PROVE  RestoreInv'
<1>1. CASE UNCHANGED vars
  <2>1. Db' = Db /\ Kept' = Kept /\ (\A n : Exists(n)' <=> Exists(n))
    BY <1>1, FilesSame DEF vars, Db
  <2>2. TypeOK' /\ NeverAMix' /\ FilesAreClean' /\ NoWalAtSwitch'
    BY <1>1, <2>1 DEF vars, RestoreInv, TypeOK, NeverAMix, FilesAreClean, NoWalAtSwitch
  <2>3. FlagsFit' /\ MarkIsGone' /\ RestoreIsChecked'
    BY <1>1 DEF vars, RestoreInv, FlagsFit, MarkIsGone, RestoreIsChecked, Restoring, Forth
  <2>4. CopyIsThere' /\ StateIsKept' /\ SessionsWait'
    BY <1>1, <2>1 DEF vars, RestoreInv, CopyIsThere, StateIsKept, SessionsWait, Forth, Copied, At
  <2>5. QED
    BY <2>2, <2>3, <2>4 DEF RestoreInv
<1>2. CASE StartStep
  BY <1>2, StartInv, CopyCurrentInv, CopyFailsInv, RecordCopyInv, GiveUpInv, GiveUpResultInv, FoldInv, UnlinkInv,
     RenameInv, DropSessionsInv, ClearPendingInv, WriteResultInv, MigrateInv, MigratedInv, FatalInv, BackResultInv
     DEF StartStep
<1>3. CASE Backend
  BY <1>3, WorkInv, StopInv, BackupPageInv, MarkInv DEF Backend
<1>4. CASE Crash
  BY <1>4, CrashInv
<1>5. QED
  BY <1>1, <1>2, <1>3, <1>4 DEF Next, StartSkipping

\* Without DB_MIGRATE_SKIP the invariant of the restore always holds: the start reads
\* nothing but whole databases, restores only the file that was checked, and has a copy
\* of the current state from the moment it recorded one.
THEOREM RestoreInvariant ==
  ASSUME ~SkipAllowed
  PROVE  Spec => []RestoreInv
<1>1. Init => RestoreInv
  BY InitInv
<1>2. RestoreInv /\ [Next]_vars => RestoreInv'
  BY StepInv
<1>3. QED
  BY <1>1, <1>2, PTL DEF Spec

\* Before the database is replaced, forth or back, its state is in a copy.
THEOREM StateKeptBeforeSwitch ==
  ASSUME ~SkipAllowed
  PROVE  Spec => []CurrentStateKept
<1>1. RestoreInv => CurrentStateKept
  BY DEF RestoreInv, StateIsKept, CurrentStateKept, Copied, Swapping, At
<1>2. QED
  BY <1>1, RestoreInvariant, PTL

\* The backend never runs with the sessions of a restored state.
THEOREM SessionsDropped ==
  ASSUME ~SkipAllowed
  PROVE  Spec => []NoOldSessions
<1>1. RestoreInv => NoOldSessions
  BY RunningFacts DEF NoOldSessions
<1>2. QED
  BY <1>1, RestoreInvariant, PTL

------------------------------------------------------------------------------
(* Whole databases, also with DB_MIGRATE_SKIP *)

\* With the skip the backend may run on a database that was switched but not yet recorded
\* as restored, so RestoreInv is lost; that every switch takes a whole file is not: what is
\* about to be put in place, forth or back, is a file that is there.
WhatGoesIn ==
  /\ proc.pc \in {"copy", "record"} \cup Swapping /\ ~proc.back => Exists(proc.pending.file)
  /\ Copied => Exists(proc.before)
  /\ At("running") => ~proc.applied
  /\ proc.back => proc.pc \in Swapping \cup {"back result"}

MixInv == TypeOK /\ NeverAMix /\ NoWalAtSwitch /\ WhatGoesIn

\* Most steps leave what is read of the database a content, and the files as they are.
LEMMA MixMovesOn ==
  ASSUME MixInv, files' = files, Db' \in Contents, main' \in Contents,
         wal' \in Contents \cup {Nothing, Garbage},
         pending' \in Pendings, proc' \in Processes, NoWalAtSwitch',
         result' \in [ok : BOOLEAN, file : Names \cup {NoName}, rolledBack : BOOLEAN],
         latest' \in Nat, crashes' \in Nat, last' \in [data : Nat, asked : Contents \cup {Nothing}],
         WhatGoesIn'
  PROVE  MixInv'
  BY ContentFacts DEF MixInv, TypeOK, NeverAMix

LEMMA MixStart ==
  ASSUME MixInv, Start
  PROVE  MixInv'
<1> USE DEF At
<1>1. Db' \in Contents /\ \A n : Exists(n)' <=> Exists(n)
  <2>1. Db \in Contents
    BY DbIsContent DEF MixInv
  <2>2. QED
    BY <2>1, FilesSame DEF Start, Db
<1>2. Recorded \in Names \cup {NoName} /\ (Recorded # NoName => Exists(Recorded))
  BY DEF Recorded, Exists
<1>3. proc' \in Processes
  <2> DEFINE n == IF pending = NoPending THEN NoName ELSE Recorded
             s == IF pending = NoPending THEN "migrate"
                  ELSE IF files[pending.file] # pending.sum THEN "give up"
                  ELSE IF Recorded = NoName THEN "copy" ELSE "fold"
  <2>1. n \in Names \cup {NoName} /\ s \in Stages /\ pending \in Pendings
    BY <1>2 DEF Stages, MixInv, TypeOK
  <2>2. QED
    BY <2>1, ProcessFacts DEF Start
<1>4. pending # NoPending /\ files[pending.file] = pending.sum => Exists(pending.file)
  BY ContentFacts DEF MixInv, TypeOK, Exists
<1>5. WhatGoesIn' /\ NoWalAtSwitch'
  BY <1>1, <1>2, <1>4 DEF Start, Down, WhatGoesIn, NoWalAtSwitch, Copied, Swapping
<1>6. QED
  BY <1>1, <1>3, <1>5, MixMovesOn DEF Start, MixInv, TypeOK

\* A step that ends the start, or the backend's process.
LEMMA MixBegins ==
  ASSUME MixInv, NEW s \in {"down", "running", "migrate"}, Begin(s), files' = files
  PROVE  proc' \in Processes /\ WhatGoesIn' /\ NoWalAtSwitch'
<1>1. /\ proc' \in Processes /\ proc'.pc = s /\ proc'.before = NoName
      /\ proc'.pending = NoPending /\ ~proc'.applied /\ ~proc'.back
  BY BeginFacts DEF Stages
<1>2. QED
  BY <1>1 DEF WhatGoesIn, NoWalAtSwitch, Copied, Swapping, At

\* A step of the start from one stage to the next.
LEMMA MixGoes ==
  ASSUME MixInv, NEW s \in Stages, Goto(s), files' = files,
         s \in {"copy", "record"} \cup Swapping /\ ~proc.back => Exists(proc.pending.file),
         s \in {"record", "drop", "clear", "result", "back result"} \cup Swapping => Exists(proc.before),
         proc.back => s \in {"back result"} \cup Swapping,
         s # "running", s \in {"unlink", "rename"} => wal' = Nothing
  PROVE  proc' \in Processes /\ WhatGoesIn' /\ NoWalAtSwitch'
<1>1. /\ proc' \in Processes /\ proc'.pc = s /\ proc'.before = proc.before
      /\ proc'.pending = proc.pending /\ proc'.applied = proc.applied /\ proc'.back = proc.back
  BY GotoFacts DEF MixInv
<1>2. \A n : Exists(n)' <=> Exists(n)
  BY FilesSame
<1>3. proc.applied => Exists(proc.before)
  BY DEF MixInv, WhatGoesIn, Copied
<1>4. WhatGoesIn'
  BY <1>1, <1>2, <1>3 DEF WhatGoesIn, Copied, Swapping, At
<1>5. QED
  BY <1>1, <1>4 DEF NoWalAtSwitch

LEMMA MixCopyCurrent ==
  ASSUME MixInv, CopyCurrent
  PROVE  MixInv'
<1> USE DEF At
<1> PICK n \in Names \ Scheduled :
      /\ ~Exists(n)
      /\ files' = [files EXCEPT ![n] = CopyOfCurrent]
      /\ proc' = [proc EXCEPT !.pc = "record", !.before = n]
  BY DEF CopyCurrent
<1>1. Db \in Contents /\ Db' = Db
  <2>1. Db \in Contents
    BY DbIsContent DEF MixInv
  <2>2. QED
    BY <2>1, ContentFacts DEF CopyCurrent, Db, MixInv, TypeOK
<1>2. Exists(n)' /\ \A m : Exists(m) => Exists(m)'
  BY <1>1, ContentFacts DEF Exists, CopyOfCurrent, MixInv, TypeOK
<1>3. TypeOK'
  <2>1. proc' \in Processes
    BY ProcessFacts DEF MixInv, TypeOK, Stages
  <2>2. files' \in [Names -> Contents \cup {Nothing}]
    BY <1>1 DEF MixInv, TypeOK, CopyOfCurrent
  <2>3. QED
    BY <1>1, <2>1, <2>2 DEF MixInv, TypeOK, CopyCurrent
<1>4. /\ proc.pc = "copy" /\ proc'.pc = "record" /\ proc'.before = n
      /\ proc'.pending = proc.pending /\ proc'.back = proc.back
  BY DEF CopyCurrent, MixInv, TypeOK, Processes
<1>5. WhatGoesIn' /\ NoWalAtSwitch'
  BY <1>2, <1>4 DEF MixInv, WhatGoesIn, NoWalAtSwitch, Copied, Swapping
<1>6. QED
  BY <1>1, <1>3, <1>5, ContentFacts DEF MixInv, NeverAMix

\* Steps of the start that leave the database alone.
LEMMA MixQuiet ==
  ASSUME MixInv, CopyFails \/ RecordCopy \/ GiveUp \/ GiveUpResult \/ ClearPending \/ WriteResult \/ BackResult
  PROVE  MixInv'
<1> USE DEF At
<1>1. Db \in Contents /\ Db' = Db /\ proc \in Processes
  BY DbIsContent DEF MixInv, TypeOK, Db, CopyFails, RecordCopy, GiveUp, GiveUpResult, ClearPending, WriteResult, BackResult
<1>2. proc.pending.file \in Names \cup {NoName}
  BY <1>1, ContentFacts DEF Processes, NoPending
<1>3. CASE CopyFails
  <2>1. proc' \in Processes /\ WhatGoesIn' /\ NoWalAtSwitch'
    BY <1>3, MixGoes DEF CopyFails, Stages, Swapping, MixInv, WhatGoesIn
  <2>2. QED
    BY <1>1, <1>3, <2>1, MixMovesOn DEF CopyFails, MixInv, TypeOK
<1>4. CASE RecordCopy
  <2>1. Exists(proc.before) /\ (~proc.back => Exists(proc.pending.file))
    BY <1>4 DEF RecordCopy, MixInv, WhatGoesIn, Copied
  <2>2. proc' \in Processes /\ WhatGoesIn' /\ NoWalAtSwitch'
    BY <1>4, <2>1, MixGoes DEF RecordCopy, Stages, Swapping
  <2>3. ~proc.back
    BY <1>4 DEF RecordCopy, MixInv, WhatGoesIn, Swapping
  <2>4. proc.pending # NoPending /\ proc.pending \in Pendings
    BY <1>1, <2>1, <2>3, RestoreAssumption DEF Processes, Exists, NoPending
  <2>5. pending' \in Pendings
    BY <1>4, <2>1, <2>4 DEF RecordCopy, Pendings, Exists
  <2>6. QED
    BY <1>1, <1>4, <2>2, <2>5, MixMovesOn DEF RecordCopy, MixInv, TypeOK
<1>5. CASE GiveUp
  <2>1. proc' \in Processes /\ WhatGoesIn' /\ NoWalAtSwitch'
    BY <1>5, MixGoes DEF GiveUp, Stages, Swapping, MixInv, WhatGoesIn
  <2>2. QED
    BY <1>1, <1>5, <2>1, ContentFacts, MixMovesOn DEF GiveUp, MixInv, TypeOK
<1>6. CASE GiveUpResult
  <2>1. proc' \in Processes /\ WhatGoesIn' /\ NoWalAtSwitch'
    BY <1>6, MixBegins DEF GiveUpResult
  <2>2. result' \in [ok : BOOLEAN, file : Names \cup {NoName}, rolledBack : BOOLEAN]
    BY <1>2, <1>6 DEF GiveUpResult
  <2>3. QED
    BY <1>1, <1>6, <2>1, <2>2, MixMovesOn DEF GiveUpResult, MixInv, TypeOK
<1>7. CASE ClearPending
  <2>1. proc' \in Processes /\ WhatGoesIn' /\ NoWalAtSwitch'
    BY <1>7, MixGoes DEF ClearPending, Stages, Swapping, MixInv, WhatGoesIn, Copied
  <2>2. QED
    BY <1>1, <1>7, <2>1, ContentFacts, MixMovesOn DEF ClearPending, MixInv, TypeOK
<1>8. CASE WriteResult
  <2>1. proc' \in Processes
    BY <1>1, <1>8, ProcessFacts DEF WriteResult, Stages
  <2>2. /\ proc.pc = "result" /\ proc'.pc = "migrate" /\ proc'.before = proc.before /\ proc'.back = proc.back
        /\ \A n : Exists(n)' <=> Exists(n)
    BY <1>1, <1>8, FilesSame DEF WriteResult, Processes
  <2>3. WhatGoesIn' /\ NoWalAtSwitch'
    BY <2>2 DEF MixInv, WhatGoesIn, NoWalAtSwitch, Copied, Swapping
  <2>4. result' \in [ok : BOOLEAN, file : Names \cup {NoName}, rolledBack : BOOLEAN]
    BY <1>2, <1>8 DEF WriteResult
  <2>5. QED
    BY <1>1, <1>8, <2>1, <2>3, <2>4, MixMovesOn DEF WriteResult, MixInv, TypeOK
<1>9. CASE BackResult
  <2>1. proc' \in Processes /\ WhatGoesIn' /\ NoWalAtSwitch'
    BY <1>9, MixBegins DEF BackResult
  <2>2. result' \in [ok : BOOLEAN, file : Names \cup {NoName}, rolledBack : BOOLEAN]
    BY <1>2, <1>9 DEF BackResult
  <2>3. QED
    BY <1>1, <1>9, <2>1, <2>2, MixMovesOn DEF BackResult, MixInv, TypeOK
<1>10. QED
  BY <1>3, <1>4, <1>5, <1>6, <1>7, <1>8, <1>9

\* The switch: the -wal is gone before the file, and the file that goes in is whole.
LEMMA MixSwitch ==
  ASSUME MixInv, Fold \/ Unlink \/ Rename
  PROVE  MixInv'
<1> USE DEF At
<1>1. Db \in Contents /\ proc.pc \in Swapping
  BY DbIsContent DEF MixInv, Fold, Unlink, Rename, Swapping
<1>2. Exists(proc.before) /\ (~proc.back => Exists(proc.pending.file))
  BY <1>1 DEF MixInv, WhatGoesIn, Copied
<1>3. CASE Fold
  <2>1. proc' \in Processes /\ WhatGoesIn' /\ NoWalAtSwitch'
    BY <1>2, <1>3, MixGoes DEF Fold, Stages, Swapping
  <2>2. Db' \in Contents /\ main' \in Contents
    BY <1>1, <1>3 DEF Fold, Db
  <2>3. QED
    BY <1>3, <2>1, <2>2, MixMovesOn DEF Fold, MixInv, TypeOK
<1>4. CASE Unlink
  <2>1. wal = Nothing /\ wal' = Nothing
    BY <1>4 DEF Unlink, MixInv, NoWalAtSwitch
  <2>2. proc' \in Processes /\ WhatGoesIn' /\ NoWalAtSwitch'
    BY <1>2, <1>4, <2>1, MixGoes DEF Unlink, Stages, Swapping
  <2>3. Db' \in Contents
    BY <1>1, <1>4, <2>1 DEF Unlink, Db
  <2>4. QED
    BY <1>4, <2>1, <2>2, <2>3, MixMovesOn DEF Unlink, MixInv, TypeOK
<1>5. CASE Rename
  <2>1. wal = Nothing /\ wal' = Nothing
    BY <1>5 DEF Rename, MixInv, NoWalAtSwitch
  <2>2. Incoming \in Contents
    BY <1>2, ContentFacts DEF Incoming, Exists, MixInv, TypeOK
  <2> DEFINE s == IF proc.back THEN "back result" ELSE "drop"
  <2>3. s \in Stages /\ Goto(s) /\ s \notin {"copy", "record", "running"} \cup Swapping
    BY <1>5 DEF Rename, Stages, Swapping
  <2>4. proc.back => s \in {"back result"} \cup Swapping
    OBVIOUS
  <2> HIDE DEF s
  <2>5. proc' \in Processes /\ WhatGoesIn' /\ NoWalAtSwitch'
    BY <1>2, <1>5, <2>1, <2>3, <2>4, MixGoes DEF Rename
  <2>6. Db' \in Contents /\ main' \in Contents
    BY <1>5, <2>1, <2>2 DEF Rename, Db
  <2>7. QED
    BY <1>5, <2>1, <2>5, <2>6, MixMovesOn DEF Rename, MixInv, TypeOK
<1>6. QED
  BY <1>3, <1>4, <1>5

\* Writes of the start: the sessions go, the migrations come.
LEMMA MixWrites ==
  ASSUME MixInv, DropSessions \/ Migrate \/ Migrated
  PROVE  MixInv'
<1> USE DEF At
<1>1. Db \in Contents
  BY DbIsContent DEF MixInv
<1>2. CASE DropSessions
  <2>1. Db' \in Contents /\ main' \in Contents /\ wal' \in Contents \cup {Nothing, Garbage}
    BY <1>2, DropFacts DEF MixInv
  <2>2. proc' \in Processes /\ WhatGoesIn' /\ NoWalAtSwitch'
    BY <1>2, MixGoes DEF DropSessions, Stages, Swapping, MixInv, WhatGoesIn, Copied
  <2>3. QED
    BY <1>2, <2>1, <2>2, MixMovesOn DEF DropSessions, MixInv, TypeOK
<1>3. CASE Migrate
  <2>1. CASE Begin("running") /\ UNCHANGED <<main, wal>>
    <3>1. proc' \in Processes /\ WhatGoesIn' /\ NoWalAtSwitch'
      BY <1>3, <2>1, MixBegins DEF Migrate
    <3>2. Db' \in Contents
      BY <1>1, <2>1 DEF Db
    <3>3. QED
      BY <1>3, <2>1, <3>1, <3>2, MixMovesOn DEF Migrate, MixInv, TypeOK
  <2>2. CASE Goto("migrating") /\ Store([Db EXCEPT !.schema = "half"])
    <3>1. Db' \in Contents /\ main' \in Contents /\ wal' \in Contents \cup {Nothing, Garbage}
      BY <1>1, <2>2, ContentFacts, StoreFacts DEF MixInv
    <3>2. proc' \in Processes /\ WhatGoesIn' /\ NoWalAtSwitch'
      BY <1>3, <2>2, MixGoes DEF Migrate, Stages, Swapping, MixInv, WhatGoesIn
    <3>3. QED
      BY <1>3, <3>1, <3>2, MixMovesOn DEF Migrate, MixInv, TypeOK
  <2>3. QED
    BY <1>3, <2>1, <2>2 DEF Migrate
<1>4. CASE Migrated
  <2>1. Db' \in Contents /\ main' \in Contents /\ wal' \in Contents \cup {Nothing, Garbage}
    BY <1>1, <1>4, ContentFacts, StoreFacts DEF Migrated, MixInv
  <2>2. proc' \in Processes /\ WhatGoesIn' /\ NoWalAtSwitch'
    BY <1>4, MixBegins DEF Migrated
  <2>3. QED
    BY <1>4, <2>1, <2>2, MixMovesOn DEF Migrated, MixInv, TypeOK
<1>5. QED
  BY <1>2, <1>3, <1>4

\* The start fails, or is killed, or is skipped.
LEMMA MixEnds ==
  ASSUME MixInv, Fatal \/ Crash \/ StartSkipping
  PROVE  MixInv'
<1> USE DEF At
<1>1. Db \in Contents /\ Db' = Db
  BY DbIsContent DEF MixInv, Db, Fatal, Crash, StartSkipping
<1>2. CASE Fatal
  <2>1. CASE proc.applied
    <3>1. proc' = [proc EXCEPT !.pc = "fold", !.back = TRUE] /\ proc \in Processes /\ files' = files
      BY <1>2, <2>1 DEF Fatal, MixInv, TypeOK
    <3>2. proc' \in Processes
      BY <3>1, ProcessFacts DEF Stages
    <3>3. proc'.pc = "fold" /\ proc'.back /\ proc'.before = proc.before
      BY <3>1 DEF Processes
    <3>4. Exists(proc.before)
      BY <2>1 DEF MixInv, WhatGoesIn, Copied
    <3>5. WhatGoesIn' /\ NoWalAtSwitch'
      BY <3>1, <3>3, <3>4, FilesSame DEF WhatGoesIn, NoWalAtSwitch, Copied, Swapping
    <3>6. QED
      BY <1>1, <1>2, <3>2, <3>5, MixMovesOn DEF Fatal, MixInv, TypeOK
  <2>2. CASE ~proc.applied
    <3>1. proc' = Down /\ files' = files
      BY <1>2, <2>2 DEF Fatal
    <3>2. proc' \in Processes
      BY <3>1, ProcessFacts
    <3>3. WhatGoesIn' /\ NoWalAtSwitch'
      BY <3>1 DEF Down, WhatGoesIn, NoWalAtSwitch, Copied, Swapping
    <3>4. QED
      BY <1>1, <1>2, <3>2, <3>3, MixMovesOn DEF Fatal, MixInv, TypeOK
  <2>3. QED
    BY <2>1, <2>2
<1>3. CASE Crash
  <2>1. proc' \in Processes /\ WhatGoesIn' /\ NoWalAtSwitch'
    BY <1>3, MixBegins DEF Crash
  <2>2. QED
    BY <1>1, <1>3, <2>1, MixMovesOn, RestoreAssumption DEF Crash, MixInv, TypeOK
<1>4. CASE StartSkipping
  <2>1. proc' \in Processes /\ WhatGoesIn' /\ NoWalAtSwitch'
    BY <1>4, MixBegins DEF StartSkipping
  <2>2. QED
    BY <1>1, <1>4, <2>1, MixMovesOn DEF StartSkipping, MixInv, TypeOK
<1>5. QED
  BY <1>2, <1>3, <1>4

\* The backend: it works on whole databases, and no start depends on its files.
LEMMA MixBackend ==
  ASSUME MixInv, Backend
  PROVE  MixInv'
<1> USE DEF At
<1>1. Db \in Contents /\ proc.pc = "running" /\ ~proc.applied /\ ~proc.back
  BY DbIsContent DEF MixInv, WhatGoesIn, Swapping, Backend, Work, CancelRestore, Stop, CreateBackup,
     RemoveBackup, RequestRestore
<1>2. proc' = proc => WhatGoesIn' /\ NoWalAtSwitch'
  BY <1>1 DEF WhatGoesIn, NoWalAtSwitch, Copied, Swapping
<1>3. CASE Work
  <2>1. latest + 1 \in Nat
    BY DEF MixInv, TypeOK
  <2>2. Db' \in Contents /\ main' \in Contents /\ wal' \in Contents \cup {Nothing, Garbage}
    BY <1>1, <1>3, <2>1, ContentFacts, StoreFacts DEF Work, MixInv
  <2>3. QED
    BY <1>2, <1>3, <2>1, <2>2, MixMovesOn DEF Work, MixInv, TypeOK
<1>4. CASE Stop
  <2>1. proc' \in Processes /\ WhatGoesIn' /\ NoWalAtSwitch'
    BY <1>4, MixBegins DEF Stop
  <2>2. Db' \in Contents /\ main' \in Contents /\ wal' \in Contents \cup {Nothing, Garbage}
    BY <1>1, <1>4 DEF Stop, Db, MixInv, TypeOK
  <2>3. pending.sum \in Contents \cup {Nothing} /\ Db.data \in Nat
    BY <1>1, ContentFacts DEF MixInv, TypeOK, NoPending, Contents
  <2>4. last' \in [data : Nat, asked : Contents \cup {Nothing}]
    BY <1>4, <2>3 DEF Stop, Leaving
  <2>5. QED
    BY <1>4, <2>1, <2>2, <2>4, MixMovesOn DEF Stop, MixInv, TypeOK
<1>5. CASE CancelRestore
  <2>1. Db' = Db
    BY <1>5 DEF CancelRestore, Db
  <2>2. QED
    BY <1>1, <1>2, <1>5, <2>1, ContentFacts, MixMovesOn DEF CancelRestore, MixInv, TypeOK
<1>6. ASSUME NEW n \in Names, CreateBackup(n) \/ RemoveBackup(n)
      PROVE  MixInv'
  <2>1. Db' = Db /\ proc' = proc
    BY <1>6 DEF CreateBackup, RemoveBackup, Db
  <2>2. files' \in [Names -> Contents \cup {Nothing}]
    BY <1>1, <1>6 DEF CreateBackup, RemoveBackup, MixInv, TypeOK
  <2>3. TypeOK'
    BY <1>6, <2>2 DEF CreateBackup, RemoveBackup, MixInv, TypeOK
  <2>4. QED
    BY <1>2, <2>1, <2>3 DEF MixInv, NeverAMix
<1>7. ASSUME NEW n \in Names, RequestRestore(n)
      PROVE  MixInv'
  <2>1. Db' = Db
    BY <1>7 DEF RequestRestore, Db
  <2>2. files[n] \in Contents
    BY <1>7 DEF RequestRestore, Exists, MixInv, TypeOK
  <2>3. pending' \in Pendings
    BY <1>7, <2>2 DEF RequestRestore, Pendings
  <2>4. QED
    BY <1>1, <1>2, <1>7, <2>1, <2>3, MixMovesOn DEF RequestRestore, MixInv, TypeOK
<1>8. QED
  BY <1>3, <1>4, <1>5, <1>6, <1>7 DEF Backend

LEMMA MixStep ==
  ASSUME MixInv, [Next]_vars
  PROVE  MixInv'
<1>1. CASE UNCHANGED vars
  <2>1. Db' = Db /\ (\A n : Exists(n)' <=> Exists(n))
    BY <1>1, FilesSame DEF vars, Db
  <2>2. QED
    BY <1>1, <2>1 DEF vars, MixInv, TypeOK, NeverAMix, NoWalAtSwitch, WhatGoesIn, Copied, Swapping, At
<1>2. CASE Next
  BY <1>2, MixStart, MixCopyCurrent, MixQuiet, MixSwitch, MixWrites, MixEnds, MixBackend DEF Next, StartStep
<1>3. QED
  BY <1>1, <1>2

\* No database is ever a restored file with the -wal of another replayed onto it, wherever
\* the start is killed or fails, and also when somebody starts with DB_MIGRATE_SKIP.
THEOREM NoMixOfStates == Spec => []NeverAMix
<1>1. Init => MixInv
  <2> SUFFICES ASSUME Init PROVE MixInv
    OBVIOUS
  <2>1. TypeOK /\ NeverAMix /\ NoWalAtSwitch
    BY InitInv DEF RestoreInv
  <2>2. WhatGoesIn
    BY DEF Init, WhatGoesIn, Down, Copied, Swapping, At
  <2>3. QED
    BY <2>1, <2>2 DEF MixInv
<1>2. MixInv /\ [Next]_vars => MixInv'
  BY MixStep
<1>3. MixInv => NeverAMix
  BY DEF MixInv
<1>4. QED
  BY <1>1, <1>2, <1>3, PTL DEF Spec

------------------------------------------------------------------------------
(* The refinement of KeptStates *)

LEMMA SameState ==
  ASSUME Db'.data = Db.data, files' = files, latest' = latest
  PROVE  UNCHANGED States!vars
  BY FilesSame DEF States!vars

\* A name that was free keeps the current state.
LEMMA KeepsCurrent ==
  ASSUME NEW n \in Names, ~Exists(n), TypeOK, Db \in Contents,
         files' = [files EXCEPT ![n] = Db]
  PROVE  Kept' = Kept \cup {Db.data}
<1>1. \A m \in Names : Exists(m)' <=> Exists(m) \/ m = n
  BY ContentFacts DEF Exists, TypeOK
<1>2. \A m \in Names : files'[m] = IF m = n THEN Db ELSE files[m]
  BY DEF TypeOK
<1>3. ASSUME NEW d \in Kept PROVE d \in Kept'
  <2>1. PICK m \in Names : Exists(m) /\ d = files[m].data
    BY DEF Kept
  <2>2. m # n
    BY <2>1
  <2>3. QED
    BY <1>1, <1>2, <2>1, <2>2 DEF Kept
<1>4. Db.data \in Kept'
  BY <1>1, <1>2 DEF Kept
<1>5. ASSUME NEW d \in Kept' PROVE d \in Kept \cup {Db.data}
  <2>1. PICK m \in Names : Exists(m)' /\ d = files'[m].data
    BY DEF Kept
  <2>2. QED
    BY <1>1, <1>2, <2>1, KeptHas
<1>6. QED
  BY <1>3, <1>4, <1>5

LEMMA SwitchFacts ==
  ASSUME RestoreInv, Rename
  PROVE  States!Switch
<1>1. At("rename") /\ Copied /\ wal = Nothing
  BY DEF Rename, RestoreInv, NoWalAtSwitch, At, Copied, Swapping
<1>2. Db.data \in Kept
  BY <1>1 DEF RestoreInv, StateIsKept
<1>3. Db' = Incoming
  BY <1>1 DEF Rename, Db
<1>4. Incoming.data \in Kept
  <2>1. CASE proc.back
    <3>1. Exists(proc.before)
      BY <1>1 DEF RestoreInv, CopyIsThere
    <3>2. QED
      BY <2>1, <3>1, KeptHas DEF Incoming
  <2>2. CASE ~proc.back
    <3> DEFINE f == proc.pending.file
    <3>1. f = pending.file /\ files[f] = pending.sum /\ pending \in Pendings /\ pending # NoPending
      BY <1>1, <2>2 DEF RestoreInv, RestoreIsChecked, Restoring, Forth, Swapping, At, TypeOK
    <3>2. f \in Names /\ files[f] \in Contents
      BY <3>1, ContentFacts
    <3>3. Exists(f)
      BY <3>2, ContentFacts DEF Exists
    <3>4. Incoming.data = files[f].data
      BY <2>2, <3>2 DEF Incoming, Contents
    <3>5. QED
      BY <3>3, <3>4, KeptHas
  <2>3. QED
    BY <2>1, <2>2
<1>5. QED
  BY <1>2, <1>3, <1>4, FilesSame DEF States!Switch, Rename

LEMMA StartRefines ==
  ASSUME RestoreInv, StartStep
  PROVE  [States!Next]_(States!vars)
<1>1. Db \in Contents
  BY DbIsContent DEF RestoreInv
<1>2. CASE \/ Start \/ CopyFails \/ RecordCopy \/ GiveUp \/ GiveUpResult
           \/ ClearPending \/ WriteResult \/ Fatal \/ BackResult
  <2>1. main' = main /\ wal' = wal /\ files' = files /\ latest' = latest
    BY <1>2 DEF Start, CopyFails, RecordCopy, GiveUp, GiveUpResult, ClearPending, WriteResult, Fatal, BackResult
  <2>2. QED
    BY <2>1, SameState DEF Db
<1>3. CASE CopyCurrent
  <2>1. PICK n \in Names : ~Exists(n) /\ files' = [files EXCEPT ![n] = Db]
    BY <1>3 DEF CopyCurrent, CopyOfCurrent
  <2>2. Db' = Db /\ latest' = latest
    BY <1>3 DEF CopyCurrent, Db
  <2>3. Kept' = Kept \cup {Db.data}
    BY <1>1, <2>1, KeepsCurrent DEF RestoreInv
  <2>4. QED
    BY <2>2, <2>3 DEF States!Next, States!Keep
<1>4. CASE Fold \/ Unlink
  <2>1. Db' = Db /\ files' = files /\ latest' = latest
    BY <1>4 DEF Fold, Unlink, Db, RestoreInv, NoWalAtSwitch, At
  <2>2. QED
    BY <2>1, SameState
<1>5. CASE Rename
  BY <1>5, SwitchFacts DEF States!Next
<1>6. CASE DropSessions
  <2>1. Db'.data = Db.data
    BY <1>6, DropFacts DEF RestoreInv
  <2>2. QED
    BY <1>6, <2>1, SameState DEF DropSessions
<1>7. CASE Migrate \/ Migrated
  <2>1. \A s \in {"half", "current"} : Store([Db EXCEPT !.schema = s]) => Db'.data = Db.data
    <3>1. TAKE s \in {"half", "current"}
    <3>2. [Db EXCEPT !.schema = s] \in Contents
      BY <1>1, ContentFacts
    <3>3. [Db EXCEPT !.schema = s].data = Db.data
      BY <1>1 DEF Contents
    <3>4. QED
      BY <3>2, <3>3, StoreFacts DEF RestoreInv
  <2>2. Db'.data = Db.data
    BY <1>7, <2>1 DEF Migrate, Migrated, Db
  <2>3. QED
    BY <1>7, <2>2, SameState DEF Migrate, Migrated
<1>8. QED
  BY <1>2, <1>3, <1>4, <1>5, <1>6, <1>7 DEF StartStep

LEMMA BackendRefines ==
  ASSUME RestoreInv, Backend
  PROVE  [States!Next]_(States!vars)
<1>1. Db \in Contents
  BY DbIsContent DEF RestoreInv
<1>2. CASE Work
  <2>1. [Db EXCEPT !.data = latest + 1] \in Contents
    BY <1>1, ContentFacts DEF RestoreInv, TypeOK
  <2>2. Db' = [Db EXCEPT !.data = latest + 1]
    BY <1>2, <2>1, StoreFacts DEF Work, RestoreInv
  <2>3. Db'.data = latest + 1
    BY <1>1, <2>2 DEF Contents
  <2>4. QED
    BY <1>2, <2>3, FilesSame DEF Work, States!Next, States!Work
<1>3. CASE CancelRestore \/ Stop \/ \E n \in Names : RequestRestore(n)
  <2>1. Db' = Db /\ files' = files /\ latest' = latest
    BY <1>3 DEF CancelRestore, Stop, RequestRestore, Db
  <2>2. QED
    BY <2>1, SameState
<1>4. CASE \E n \in Names : CreateBackup(n)
  <2>1. PICK n \in Names : CreateBackup(n)
    BY <1>4
  <2>2. Kept' = Kept \cup {Db.data}
    BY <1>1, <2>1, KeepsCurrent DEF CreateBackup, RestoreInv
  <2>3. QED
    BY <2>1, <2>2 DEF CreateBackup, Db, States!Next, States!Keep
<1>5. CASE \E n \in Names : RemoveBackup(n)
  <2>1. PICK n \in Names : RemoveBackup(n)
    BY <1>5
  <2>2. \A m \in Names : Exists(m)' => Exists(m) /\ files'[m] = files[m]
    BY <2>1 DEF RemoveBackup, Exists, RestoreInv, TypeOK
  <2>3. Kept' \subseteq Kept
    BY <2>2 DEF Kept
  <2>4. QED
    BY <2>1, <2>3 DEF RemoveBackup, Db, States!Next, States!Forget
<1>6. QED
  BY <1>2, <1>3, <1>4, <1>5 DEF Backend

\* The restore implements what it promises: whatever crashes and fails, the database
\* changes by the backend's work or by one switch between states that are kept.
THEOREM RestoreImplementsKeptStates ==
  ASSUME ~SkipAllowed
  PROVE  Spec => SwitchesAreWhole
<1>1. Init => States!Init
  <2> SUFFICES ASSUME Init PROVE States!Init
    OBVIOUS
  <2>1. Db.data = latest /\ latest \in Nat
    <3>1. PICK s \in {"behind", "current"} : main = [data |-> latest, schema |-> s, sessions |-> "own"]
      BY DEF Init
    <3>2. QED
      BY <3>1 DEF Init, Db
  <2>2. \A n \in Names : Exists(n) => files[n].data = 0
    BY DEF Init, Exists
  <2>3. \A d \in Kept : d = 0
    BY <2>2 DEF Kept
  <2>4. QED
    BY <2>1, <2>3 DEF States!Init, States!TypeOK
<1>2. RestoreInv /\ [Next]_vars => [States!Next]_(States!vars)
  <2> SUFFICES ASSUME RestoreInv, [Next]_vars PROVE [States!Next]_(States!vars)
    OBVIOUS
  <2>1. CASE UNCHANGED vars \/ Crash
    <3>1. Db' = Db /\ files' = files /\ latest' = latest
      BY <2>1 DEF vars, Crash, Db
    <3>2. QED
      BY <3>1, SameState
  <2>2. QED
    BY <2>1, StartRefines, BackendRefines DEF Next, StartSkipping
<1>3. QED
  BY <1>1, <1>2, RestoreInvariant, PTL DEF Spec, SwitchesAreWhole, States!Spec

------------------------------------------------------------------------------
(* What the backend comes up with *)

\* What a start does with the state of the database.
LEMMA StartData ==
  ASSUME RestoreInv, StartStep
  PROVE  /\ last' = last /\ crashes' = crashes
         /\ ~Rename => Db'.data = Db.data
         /\ Rename => Db'.data = IF proc.back THEN files[proc.before].data ELSE pending.sum.data
<1>1. Db \in Contents
  BY DbIsContent DEF RestoreInv
<1>2. last' = last /\ crashes' = crashes
  BY DEF StartStep, Start, CopyCurrent, CopyFails, RecordCopy, GiveUp, GiveUpResult, Fold, Unlink, Rename,
         DropSessions, ClearPending, WriteResult, Migrate, Migrated, Fatal, BackResult
<1>3. CASE Rename
  <2>1. Db' = Incoming
    BY <1>3 DEF Rename, RestoreInv, NoWalAtSwitch, Db, At
  <2>2. CASE proc.back
    BY <1>2, <1>3, <2>1, <2>2 DEF Incoming
  <2>3. CASE ~proc.back
    <3>1. /\ proc.pending.file = pending.file /\ files[pending.file] = pending.sum
          /\ pending.sum \in Contents
      BY <1>3, <2>3, ContentFacts
         DEF Rename, RestoreInv, RestoreIsChecked, Restoring, Forth, Swapping, At, TypeOK
    <3>2. Incoming.data = pending.sum.data
      BY <2>3, <3>1 DEF Incoming, Contents
    <3>3. QED
      BY <1>2, <1>3, <2>1, <2>3, <3>2
  <2>4. QED
    BY <2>2, <2>3
<1>4. CASE ~Rename
  <2>1. Fold \/ Unlink => Db' = Db
    BY DEF Fold, Unlink, Db, RestoreInv, NoWalAtSwitch, At
  <2>2. DropSessions => Db'.data = Db.data
    BY DropFacts DEF RestoreInv
  <2>3. Migrate \/ Migrated => Db'.data = Db.data
    <3>1. \A s \in {"half", "current"} : Store([Db EXCEPT !.schema = s]) => Db'.data = Db.data
      <4>1. TAKE s \in {"half", "current"}
      <4>2. [Db EXCEPT !.schema = s] \in Contents /\ [Db EXCEPT !.schema = s].data = Db.data
        BY <1>1, ContentFacts DEF Contents
      <4>3. QED
        BY <4>2, StoreFacts DEF RestoreInv
    <3>2. QED
      BY <3>1 DEF Migrate, Migrated, Db
  <2>4. CopyCurrent => Db' = Db
    BY DEF CopyCurrent, Db
  <2>5. Start \/ CopyFails \/ RecordCopy \/ GiveUp \/ GiveUpResult \/ ClearPending \/ WriteResult
        \/ Fatal \/ BackResult => Db' = Db
    BY DEF Start, CopyFails, RecordCopy, GiveUp, GiveUpResult, ClearPending, WriteResult, Fatal, BackResult, Db
  <2>6. QED
    BY <1>2, <1>4, <2>1, <2>2, <2>3, <2>4, <2>5 DEF StartStep
<1>5. QED
  BY <1>3, <1>4

\* If there is a copy, its state is one of W.
CopyOf(W, b, fs) == b # NoName => fs[b].data \in W

\* A start keeps the copies it knows of, and only adds one of the current state.
LEMMA StartCopies ==
  ASSUME RestoreInv, StartStep, NEW W, CopyCurrent => Db.data \in W,
         CopyOf(W, proc.before, files), CopyOf(W, pending.before, files)
  PROVE  CopyOf(W, proc'.before, files') /\ CopyOf(W, pending'.before, files')
<1>0. proc \in Processes /\ Down.before = NoName /\ NoPending.before = NoName
  BY DEF RestoreInv, TypeOK, Down, NoPending
<1>1. CASE CopyCurrent
  <2>1. PICK n \in Names : /\ ~Exists(n) /\ files' = [files EXCEPT ![n] = Db]
                           /\ proc' = [proc EXCEPT !.pc = "record", !.before = n]
    BY <1>1 DEF CopyCurrent, CopyOfCurrent
  <2>2. proc'.before = n /\ files'[n] = Db /\ pending' = pending
    BY <1>0, <1>1, <2>1 DEF Processes, CopyCurrent, RestoreInv, TypeOK
  <2>3. pending.before # NoName => Exists(pending.before)
    BY DEF RestoreInv, CopyIsThere
  <2>4. pending.before # NoName => files'[pending.before] = files[pending.before]
    BY <2>1, <2>3 DEF RestoreInv, TypeOK, Exists
  <2>5. QED
    BY <1>1, <2>2, <2>4 DEF CopyOf
<1>2. CASE RecordCopy
  <2>1. /\ files' = files /\ pending' = [proc.pending EXCEPT !.before = proc.before]
        /\ proc'.before = proc.before
    BY <1>0, <1>2 DEF RecordCopy, Goto, Processes
  <2>2. pending'.before = proc.before
    <3>1. proc.pending \in Pendings
      BY <1>0 DEF Processes
    <3>2. QED
      BY <2>1, <3>1 DEF Pendings, NoPending
  <2>3. QED
    BY <2>1, <2>2 DEF CopyOf
<1>3. CASE GiveUp \/ ClearPending
  <2>1. files' = files /\ pending' = NoPending /\ proc'.before = proc.before
    BY <1>0, <1>3 DEF GiveUp, ClearPending, Goto, Processes
  <2>2. QED
    BY <1>0, <2>1 DEF CopyOf
<1>4. CASE Start
  <2>1. files' = files /\ pending' = pending /\ proc'.before \in {NoName, pending.before}
    BY <1>4 DEF Start, Recorded, Down
  <2>2. QED
    BY <2>1 DEF CopyOf
<1>5. CASE CopyFails \/ GiveUpResult \/ Fold \/ Unlink \/ Rename \/ DropSessions \/ WriteResult
           \/ Migrate \/ Migrated \/ Fatal \/ BackResult
  <2>1. files' = files /\ pending' = pending
    BY <1>5 DEF CopyFails, GiveUpResult, Fold, Unlink, Rename, DropSessions, WriteResult, Migrate, Migrated,
                Fatal, BackResult
  <2>2. \/ \E s : Goto(s) \/ Begin(s)
        \/ proc' = Down \/ proc' = [proc EXCEPT !.pc = "migrate", !.applied = TRUE]
        \/ proc' = [proc EXCEPT !.pc = "fold", !.back = TRUE]
    BY <1>5 DEF CopyFails, GiveUpResult, Fold, Unlink, Rename, DropSessions, WriteResult, Migrate, Migrated,
                Fatal, BackResult
  <2>3. proc'.before \in {proc.before, NoName}
    BY <1>0, <2>2 DEF Goto, Begin, Processes, Down
  <2>4. QED
    BY <2>1, <2>3 DEF CopyOf
<1>6. QED
  BY <1>1, <1>2, <1>3, <1>4, <1>5 DEF StartStep

\* A start leaves the mark, removes it, or records the copy in it.
LEMMA StartMark ==
  ASSUME RestoreInv, StartStep
  PROVE  pending' = NoPending \/ (pending # NoPending /\ pending'.sum = pending.sum)
<1>1. CASE RecordCopy
  <2>1. /\ pending # NoPending /\ proc.pending.sum = pending.sum /\ proc.pending \in Pendings
    BY <1>1 DEF RecordCopy, RestoreInv, RestoreIsChecked, Restoring, At, TypeOK, Processes
  <2>2. pending'.sum = pending.sum
    BY <1>1, <2>1 DEF RecordCopy, Pendings, NoPending
  <2>3. QED
    BY <2>1, <2>2
<1>2. CASE ~RecordCopy
  <2>1. pending' = pending \/ pending' = NoPending
    BY <1>2 DEF StartStep, Start, CopyCurrent, CopyFails, GiveUp, GiveUpResult, Fold, Unlink, Rename,
       DropSessions, ClearPending, WriteResult, Migrate, Migrated, Fatal, BackResult
  <2>2. QED
    BY <2>1
<1>3. QED
  BY <1>1, <1>2

\* The states the backend may come up with.
Wanted == {last.data} \cup (IF last.asked = Nothing THEN {} ELSE {last.asked.data})

\* The database and the copies of this restore hold wanted states, and the mark is what was asked for.
AskedFor ==
  /\ Db.data \in Wanted
  /\ pending # NoPending => pending.sum = last.asked /\ last.asked # Nothing
  /\ CopyOf(Wanted, proc.before, files) /\ CopyOf(Wanted, pending.before, files)
AskedInv == ~At("running") => AskedFor

LEMMA StartAsked ==
  ASSUME RestoreInv, StartStep, AskedFor
  PROVE  AskedFor'
<1>1. last' = last /\ Wanted' = Wanted
  BY StartData DEF Wanted
<1>2. PICK W : W = Wanted
  OBVIOUS
<1>3. CopyOf(W, proc'.before, files') /\ CopyOf(W, pending'.before, files')
  <2>1. Db.data \in W /\ CopyOf(W, proc.before, files) /\ CopyOf(W, pending.before, files)
    BY <1>2 DEF AskedFor
  <2>2. QED
    BY <2>1, StartCopies
<1>4. Db'.data \in Wanted
  <2>1. CASE Rename
    <3>1. CASE proc.back
      <4>1. proc.before # NoName
        BY <2>1 DEF RestoreInv, CopyIsThere, Copied, Swapping, Rename, At
      <4>2. QED
        BY <2>1, <3>1, <4>1, StartData DEF AskedFor, CopyOf
    <3>2. CASE ~proc.back
      <4>1. pending # NoPending
        BY <2>1, <3>2 DEF RestoreInv, RestoreIsChecked, Restoring, Forth, Swapping, Rename, At
      <4>2. QED
        BY <2>1, <3>2, <4>1, StartData DEF AskedFor, Wanted
    <3>3. QED
      BY <3>1, <3>2
  <2>2. CASE ~Rename
    BY <2>2, StartData DEF AskedFor
  <2>3. QED
    BY <2>1, <2>2
<1>5. pending' # NoPending => pending'.sum = last.asked /\ last.asked # Nothing
  BY StartMark DEF AskedFor
<1>6. QED
  BY <1>1, <1>2, <1>3, <1>4, <1>5 DEF AskedFor, CopyOf

\* The backend goes down with its state and its mark; nothing of an earlier restore is left.
LEMMA StopLeaves ==
  ASSUME RestoreInv, Stop
  PROVE  /\ last'.data = Db.data /\ last'.asked = pending.sum /\ Db' = Db
         /\ proc'.pc = "down" /\ proc'.before = NoName /\ ~proc'.applied /\ ~proc'.back
         /\ pending' = pending /\ pending.before = NoName
         /\ pending # NoPending <=> pending.sum # Nothing
<1>1. Db' = Db /\ last' = Leaving /\ pending' = pending /\ Begin("down") /\ At("running")
  BY DEF Stop, Db
<1>2. pending.before = NoName
  BY <1>1, RunningFacts
<1>3. proc'.pc = "down" /\ proc'.before = NoName /\ ~proc'.applied /\ ~proc'.back
  BY <1>1 DEF Begin, Down
<1>4. pending # NoPending <=> pending.sum # Nothing
  BY ContentFacts DEF RestoreInv, TypeOK, NoPending
<1>5. QED
  BY <1>1, <1>2, <1>3, <1>4 DEF Leaving

\* What a killed start leaves.
LEMMA CrashLeaves ==
  ASSUME RestoreInv, Crash
  PROVE  /\ ~At("running") /\ proc'.before = NoName /\ crashes' # 0
         /\ UNCHANGED <<main, wal, files, pending, last>> /\ Db' = Db
BY DEF Crash, Begin, Down, At, Db, RestoreInv, TypeOK

\* A step by which the process is not running, or begins to run.
LEMMA NotRunning ==
  ASSUME ~SkipAllowed, RestoreInv, Next
  PROVE  \/ StartStep /\ ~At("running")
         \/ Stop
         \/ Crash
         \/ At("running") /\ proc' = proc
<1>1. StartStep => ~At("running")
  BY DEF StartStep, Start, CopyCurrent, CopyFails, RecordCopy, GiveUp, GiveUpResult, Fold, Unlink, Rename,
         DropSessions, ClearPending, WriteResult, Migrate, Migrated, Fatal, BackResult, At
<1>2. Backend => Stop \/ (At("running") /\ proc' = proc)
  BY DEF Backend, Work, CancelRestore, CreateBackup, RemoveBackup, RequestRestore
<1>3. QED
  BY <1>1, <1>2 DEF Next, StartSkipping

LEMMA AskedNext ==
  ASSUME ~SkipAllowed, RestoreInv, AskedInv, [Next]_vars
  PROVE  /\ AskedInv'
         /\ ~At("running") /\ proc'.pc = "running" => AskedFor' /\ last' = last
<1>1. CASE UNCHANGED vars
  BY <1>1 DEF vars, AskedInv, AskedFor, Wanted, CopyOf, Db, At
<1>2. CASE StartStep /\ ~At("running")
  BY <1>2, StartAsked, StartData DEF AskedInv
<1>3. CASE Stop
  <2>1. Wanted' = {Db.data} \cup (IF pending.sum = Nothing THEN {} ELSE {pending.sum.data})
    BY <1>3, StopLeaves DEF Wanted
  <2>2. AskedFor'
    BY <1>3, <2>1, StopLeaves DEF AskedFor, CopyOf
  <2>3. At("running")
    BY <1>3 DEF Stop
  <2>4. QED
    BY <2>2, <2>3 DEF AskedInv
<1>4. CASE Crash
  <2>1. AskedFor' /\ proc'.pc # "running"
    BY <1>4, CrashLeaves DEF AskedInv, AskedFor, CopyOf, Wanted, Crash, Begin, Down
  <2>2. QED
    BY <2>1 DEF AskedInv
<1>5. CASE At("running") /\ proc' = proc
  BY <1>5 DEF AskedInv, At
<1>6. QED
  BY <1>1, <1>2, <1>3, <1>4, <1>5, NotRunning

LEMMA AskedInit == Init => AskedInv
<1> SUFFICES ASSUME Init PROVE AskedInv
  OBVIOUS
<1>1. Db.data = latest
  <2>1. PICK s \in {"behind", "current"} : main = [data |-> latest, schema |-> s, sessions |-> "own"]
    BY DEF Init
  <2>2. QED
    BY <2>1 DEF Init, Db
<1>2. QED
  BY <1>1 DEF Init, AskedInv, AskedFor, Wanted, CopyOf, Down, NoPending

\* The backend comes up with the state it went down with or the one it was asked to restore,
\* wherever starts were killed and whatever failed in them.
THEOREM ComesUpWithOneOfTwo ==
  ASSUME ~SkipAllowed
  PROVE  Spec => ComesUpAsAsked
<1>1. RestoreInv /\ AskedInv /\ [Next]_vars => AskedInv'
  BY AskedNext
<1>2. RestoreInv /\ AskedInv /\ [Next]_vars =>
        [~At("running") /\ proc'.pc = "running" =>
           \/ Db'.data = last.data
           \/ last.asked # Nothing /\ Db'.data = last.asked.data]_vars
  BY AskedNext DEF AskedFor, Wanted
<1>3. QED
  BY <1>1, <1>2, AskedInit, RestoreInvariant, PTL DEF Spec, ComesUpAsAsked

------------------------------------------------------------------------------
(* What the result says *)

\* A start that has yet to switch, or that does not.
Before == \/ proc.pc \in {"copy", "record", "give up", "give up result"}
          \/ proc.pc \in Swapping /\ ~proc.back
          \/ At("down") /\ pending # NoPending
After  == proc.pc \in {"drop", "clear", "result"}
\* A start that has decided, and whose result is written.
Settled == \/ proc.pc \in {"migrate", "migrating"}
           \/ At("down") /\ pending = NoPending

Told == IF last.asked # Nothing /\ result.ok THEN last.asked.data ELSE last.data

\* How far the start is decides which state the database holds; its copy is the state from before.
Truth ==
  /\ CopyOf({last.data}, proc.before, files) /\ CopyOf({last.data}, pending.before, files)
  /\ Before => Db.data = last.data
  /\ After => last.asked # Nothing /\ Db.data = last.asked.data
  /\ Settled => Db.data = Told
  /\ At("back result") => Db.data = last.data
TruthInv == crashes = 0 /\ ~At("running") => Truth

LEMMA StartTruth ==
  ASSUME RestoreInv, AskedFor, Truth, StartStep
  PROVE  /\ Truth' /\ last' = last
         /\ proc'.pc = "running" => Db'.data = Told
<1> USE DEF At
<1>0. /\ proc \in Processes /\ last' = last /\ pending \in Pendings
      /\ Down.pc = "down" /\ ~Down.back /\ ~Down.applied
  BY StartData DEF RestoreInv, TypeOK, Down
<1>1. PICK W : W = {last.data}
  OBVIOUS
<1>2. CopyOf(W, proc'.before, files') /\ CopyOf(W, pending'.before, files')
  <2>1. CopyCurrent => Db.data \in W
    BY <1>1 DEF Truth, Before, CopyCurrent
  <2>2. CopyOf(W, proc.before, files) /\ CopyOf(W, pending.before, files)
    BY <1>1 DEF Truth
  <2>3. QED
    BY <2>1, <2>2, StartCopies
<1>3. CopyOf({last.data}, proc.before, files)' /\ CopyOf({last.data}, pending.before, files)'
  BY <1>0, <1>1, <1>2 DEF CopyOf
<1>4. ~Rename => Db'.data = Db.data
  BY StartData
<1> DEFINE Stage == /\ Before' => Db'.data = last.data
                    /\ After' => last.asked # Nothing /\ Db'.data = last.asked.data
                    /\ Settled' => Db'.data = Told'
                    /\ proc'.pc = "back result" => Db'.data = last.data
                    /\ proc'.pc = "running" => Db'.data = Told
<1> SUFFICES Stage
  BY <1>0, <1>3 DEF Truth
<1>5. CASE Start
  <2>1. /\ result' = result /\ pending' = pending /\ ~proc'.back /\ Db'.data = Db.data
        /\ proc.pc = "down"
        /\ IF pending = NoPending THEN proc'.pc = "migrate" ELSE proc'.pc \in {"give up", "copy", "fold"}
    BY <1>0, <1>4, <1>5 DEF Start, Down, Rename
  <2>2. QED
    BY <1>0, <2>1 DEF Truth, Before, After, Settled, Told, Swapping
<1>6. CASE CopyCurrent \/ CopyFails \/ RecordCopy \/ GiveUp
  <2>1. /\ proc'.pc \in {"record", "give up", "fold", "give up result"} /\ proc'.back = proc.back
        /\ proc.pc \in {"copy", "record", "give up"} /\ Db'.data = Db.data
    BY <1>0, <1>4, <1>6 DEF CopyCurrent, CopyFails, RecordCopy, GiveUp, Goto, Processes, Rename
  <2>2. QED
    BY <1>0, <2>1 DEF Truth, Before, After, Settled, Swapping
<1>7. CASE GiveUpResult
  <2>1. /\ ~result'.ok /\ proc'.pc = "migrate" /\ proc.pc = "give up result" /\ Db'.data = Db.data
    BY <1>4, <1>7 DEF GiveUpResult, Begin, Down, Rename
  <2>2. QED
    BY <1>0, <2>1 DEF Truth, Before, After, Settled, Told, Swapping
<1>8. CASE Fold \/ Unlink
  <2>1. /\ proc'.pc \in {"unlink", "rename"} /\ proc.pc \in {"fold", "unlink"}
        /\ proc'.back = proc.back /\ Db'.data = Db.data
    BY <1>0, <1>4, <1>8 DEF Fold, Unlink, Goto, Processes, Rename
  <2>2. QED
    BY <1>0, <2>1 DEF Truth, Before, After, Settled, Swapping
<1>9. CASE Rename
  <2>1. /\ proc.pc = "rename" /\ proc'.pc = (IF proc.back THEN "back result" ELSE "drop")
        /\ proc'.back = proc.back
    BY <1>0, <1>9 DEF Rename, Goto, Processes
  <2>2. CASE proc.back
    <3>1. proc.before # NoName /\ Db'.data = files[proc.before].data
      BY <1>9, <2>1, <2>2, StartData DEF RestoreInv, CopyIsThere, Copied, Swapping
    <3>2. Db'.data = last.data
      BY <3>1 DEF Truth, CopyOf
    <3>3. QED
      BY <1>0, <2>1, <2>2, <3>2 DEF Before, After, Settled, Swapping
  <2>3. CASE ~proc.back
    <3>1. pending # NoPending /\ Db'.data = pending.sum.data
      BY <1>9, <2>1, <2>3, StartData DEF RestoreInv, RestoreIsChecked, Restoring, Forth, Swapping
    <3>2. last.asked # Nothing /\ Db'.data = last.asked.data
      BY <3>1 DEF AskedFor
    <3>3. QED
      BY <1>0, <2>1, <2>3, <3>2 DEF Before, After, Settled, Swapping
  <2>4. QED
    BY <2>2, <2>3
<1>10. CASE DropSessions \/ ClearPending
  <2>1. /\ proc'.pc \in {"clear", "result"} /\ proc.pc \in {"drop", "clear"} /\ Db'.data = Db.data
    BY <1>0, <1>4, <1>10 DEF DropSessions, ClearPending, Goto, Processes, Rename
  <2>2. QED
    BY <1>0, <2>1 DEF Truth, Before, After, Settled, Swapping
<1>11. CASE WriteResult
  <2>1. /\ result'.ok /\ proc'.pc = "migrate" /\ proc.pc = "result" /\ Db'.data = Db.data
    BY <1>0, <1>4, <1>11 DEF WriteResult, Processes, Rename
  <2>2. QED
    BY <1>0, <2>1 DEF Truth, Before, After, Settled, Told, Swapping
<1>12. CASE Migrate \/ Migrated
  <2>1. /\ proc'.pc \in {"migrating", "running"} /\ proc.pc \in {"migrate", "migrating"}
        /\ result' = result /\ Db'.data = Db.data
    BY <1>0, <1>4, <1>12 DEF Migrate, Migrated, Goto, Begin, Down, Processes, Rename
  <2>2. QED
    BY <1>0, <2>1 DEF Truth, Before, After, Settled, Told, Swapping
<1>13. CASE Fatal
  <2>1. /\ proc.pc \in {"migrate", "migrating"} /\ result' = result /\ pending' = pending
        /\ pending = NoPending /\ Db'.data = Db.data
        /\ \/ proc'.pc = "fold" /\ proc'.back
           \/ proc'.pc = "down" /\ ~proc'.back
    BY <1>0, <1>4, <1>13 DEF Fatal, Processes, Rename, RestoreInv, MarkIsGone
  <2>2. QED
    BY <1>0, <2>1 DEF Truth, Before, After, Settled, Told, Swapping
<1>14. CASE BackResult
  <2>1. /\ ~result'.ok /\ proc'.pc = "down" /\ proc.pc = "back result" /\ Db'.data = Db.data
        /\ pending' = NoPending
    BY <1>4, <1>14 DEF BackResult, Begin, Down, Rename, RestoreInv, MarkIsGone
  <2>2. QED
    BY <1>0, <2>1 DEF Truth, Before, After, Settled, Told, Swapping
<1>15. QED
  BY <1>5, <1>6, <1>7, <1>8, <1>9, <1>10, <1>11, <1>12, <1>13, <1>14 DEF StartStep

LEMMA TruthNext ==
  ASSUME ~SkipAllowed, RestoreInv, AskedInv, TruthInv, [Next]_vars
  PROVE  /\ TruthInv'
         /\ crashes = 0 /\ ~At("running") /\ proc'.pc = "running" => Db'.data = Told
<1>1. CASE UNCHANGED vars
  BY <1>1 DEF vars, TruthInv, Truth, CopyOf, Before, After, Settled, Told, Db, At
<1>2. CASE StartStep /\ ~At("running")
  BY <1>2, StartTruth, StartData DEF AskedInv, TruthInv
<1>3. CASE Stop
  <2>1. Truth'
    BY <1>3, StopLeaves DEF Truth, CopyOf, Before, After, Settled, Told, Swapping, At
  <2>2. At("running")
    BY <1>3 DEF Stop
  <2>3. QED
    BY <2>1, <2>2 DEF TruthInv
<1>4. CASE Crash
  <2>1. crashes' # 0 /\ proc'.pc # "running"
    BY <1>4, CrashLeaves DEF Crash, Begin, Down
  <2>2. QED
    BY <2>1 DEF TruthInv
<1>5. CASE At("running") /\ proc' = proc
  BY <1>5 DEF TruthInv, At
<1>6. QED
  BY <1>1, <1>2, <1>3, <1>4, <1>5, NotRunning

LEMMA TruthInit == Init => TruthInv
<1> SUFFICES ASSUME Init PROVE TruthInv
  OBVIOUS
<1>1. Db.data = latest
  <2>1. PICK s \in {"behind", "current"} : main = [data |-> latest, schema |-> s, sessions |-> "own"]
    BY DEF Init
  <2>2. QED
    BY <2>1 DEF Init, Db
<1>2. QED
  BY <1>1 DEF Init, TruthInv, Truth, CopyOf, Before, After, Settled, Told, Swapping, At, Down, NoPending

\* As long as no start was killed, the Backups page tells the truth about the state the backend
\* comes up with, also after migrations that failed and the way back.
THEOREM ResultTells ==
  ASSUME ~SkipAllowed
  PROVE  Spec => ResultIsTrue
<1>1. RestoreInv /\ AskedInv /\ TruthInv /\ [Next]_vars => AskedInv' /\ TruthInv'
  BY AskedNext, TruthNext
<1>2. RestoreInv /\ AskedInv /\ TruthInv /\ [Next]_vars =>
        [crashes = 0 /\ ~At("running") /\ proc'.pc = "running" =>
           Db'.data = IF last.asked # Nothing /\ result.ok THEN last.asked.data ELSE last.data]_vars
  BY TruthNext DEF Told
<1>3. QED
  BY <1>1, <1>2, AskedInit, TruthInit, RestoreInvariant, PTL DEF Spec, ResultIsTrue

================================================================================
