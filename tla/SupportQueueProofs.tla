-------------------------- MODULE SupportQueueProofs --------------------------
(***************************************************************************)
(* For any clients, channels, requests, administrators and bounds: the     *)
(* types, no second open case of one person, one taker per case, and no    *)
(* outcome of an ended case ever changes; then that an outage ends nobody, *)
(* that old cases end as long as no take is undone, and that the grace     *)
(* period is kept: without requests, and for waiting cases with them.      *)
(***************************************************************************)
EXTENDS SupportQueue, TLAPS

LEMMA AgeTypes ==
  /\ 0..MaxLag \subseteq Ages /\ NoTime \in Ages /\ 0 \in Ages
  /\ \A age \in Ages : Older(age) \in Ages
  /\ \A age \in 0..MaxLag : age < MaxLag => age + 1 \in 0..MaxLag
BY QueueAssumption DEF Ages, Sat, NoTime, Older

LEMMA SpotTypes == \A c \in Clients \cup {Offline}, ch \in Channels \cup {NoOne} : Spot(c, ch) \in SpotNames
BY DEF Spot, SpotNames

LEMMA RecordTypes ==
  /\ NoCase \in CaseRecords
  /\ NoQueue \in Rows
  /\ \A on \in BOOLEAN, ch \in Channels : Row(on, ch) \in Rows
  /\ Unwatched \in Ages
  /\ IdlePass \in Passes
  /\ IdleReq \in ReqRecords
  /\ IdlePut \in PutRecords
BY AgeTypes, QueueAssumption
   DEF NoCase, CaseRecords, NoQueue, Row, Rows, Unwatched, IdlePass, Passes, IdleReq,
       ReqRecords, TakeStages, IdlePut, PutRecords, SpotNames, NoTime

\* The functions on case records keep the type.
LEMMA CaseTypes ==
  /\ \A u \in Uids, age \in Ages : NewCase(u, age) \in CaseRecords
  /\ \A k \in CaseRecords, age \in Ages : TakeCase(k, age) \in CaseRecords
  /\ \A k \in CaseRecords : Undone(k) \in CaseRecords
  /\ \A k \in CaseRecords, s \in Ended,
        why \in {"none", "left-channel", "left-server", "finished", "removed", "closed", "queue-changed"} :
        EndCase(k, s, why) \in CaseRecords
<1>1. \A u \in Uids, age \in Ages : NewCase(u, age) \in CaseRecords
  BY AgeTypes DEF NewCase, NoCase, CaseRecords, Open, Ended
<1>2. \A k \in CaseRecords, age \in Ages : TakeCase(k, age) \in CaseRecords
  BY AgeTypes DEF TakeCase, CaseRecords, Open
<1>3. \A k \in CaseRecords : Undone(k) \in CaseRecords
  BY AgeTypes DEF Undone, CaseRecords, Open
<1>4. \A k \in CaseRecords, s \in Ended,
        why \in {"none", "left-channel", "left-server", "finished", "removed", "closed", "queue-changed"} :
        EndCase(k, s, why) \in CaseRecords
  BY AgeTypes DEF EndCase, CaseRecords
<1>5. QED
  BY <1>1, <1>2, <1>3, <1>4

LEMMA SeenType ==
  ASSUME pass \in Passes, NEW k \in CaseRecords, NEW spot
  PROVE  Seen(k, spot) \in CaseRecords
BY AgeTypes DEF Seen, CaseRecords, Passes

LEMMA UpdatedType ==
  ASSUME pass \in Passes, NEW k \in CaseRecords, NEW u \in Updates
  PROVE  Updated(k, u) \in CaseRecords
<1>1. [k EXCEPT !.absentFor = NoTime] \in CaseRecords /\ [k EXCEPT !.absentFor = pass.age] \in CaseRecords
  BY AgeTypes DEF CaseRecords, Passes
<1>2. pass.age \in Ages
  BY AgeTypes DEF Passes
<1>3. Seen([k EXCEPT !.absentFor = NoTime], pass.spots[k.uid]) \in CaseRecords
  BY <1>1, SeenType
<1>4. TakeCase(k, pass.age) \in CaseRecords
  BY <1>2, CaseTypes
<1>5. u.kind \in Ended => EndCase(k, u.kind, u.reason) \in CaseRecords
  BY CaseTypes DEF Updates
<1>6. u.kind \in {"present", "absent", "taken"} \cup Ended
  BY DEF Updates
<1>7. QED
  BY <1>1, <1>3, <1>4, <1>5, <1>6 DEF Updated, Ended

LEMMA UpdateOfType ==
  ASSUME TypeOK, NEW id \in CaseIds, OpenCase(id)
  PROVE  UpdateOf(id) \subseteq Updates
BY DEF UpdateOf, Updates, TypeOK, CaseRecords, OpenCase, Open, Ended

LEMMA RestType == \A p \in Passes : Rest(p) \in Passes
BY RecordTypes DEF Rest

LEMMA ChosenType == ASSUME NEW u, NEW ch PROVE Chosen(u, ch) \subseteq Clients \cup {Offline}
BY DEF Chosen

\* Every step of the job keeps the types.
LEMMA JobType == TypeOK /\ Job => TypeOK'
<1> SUFFICES ASSUME TypeOK, Job PROVE TypeOK'
  OBVIOUS
<1>1. CASE PassStart
  BY <1>1, AgeTypes, RecordTypes, QueueAssumption DEF PassStart, TypeOK, Passes, IdlePass, Rows
<1>2. CASE Look
  <2> DEFINE watch == IF live = Unwatched THEN pass.age ELSE live
  <2>1. watch \in Ages
    BY AgeTypes DEF TypeOK, Passes
  <2>2. PICK chosen \in [Uids -> Clients \cup {Offline}], away \in SUBSET SupporterClients :
          /\ live' = watch
          /\ pass' = [pass EXCEPT
               !.stage = "cases", !.watch = watch,
               !.spots = [u \in Uids |-> Spot(chosen[u], pass.channel)],
               !.mayQueue = \/ QueueWithoutSupporter
                            \/ \E s \in SupporterClients : AvailableSupporter(s, away)]
    BY <1>2 DEF Look
  <2>3. [u \in Uids |-> Spot(chosen[u], pass.channel)] \in [Uids -> SpotNames]
    BY <2>2, SpotTypes DEF TypeOK, Passes
  <2>4. (\/ QueueWithoutSupporter
         \/ \E s \in SupporterClients : AvailableSupporter(s, away)) \in BOOLEAN
    BY QueueAssumption
  <2>5. pass' \in Passes
    BY <2>1, <2>2, <2>3, <2>4 DEF TypeOK, Passes
  <2>6. QED
    BY <1>2, <2>1, <2>2, <2>5 DEF Look, TypeOK
<1>3. CASE LookFails
  BY <1>3, AgeTypes, RecordTypes, QueueAssumption DEF LookFails, TypeOK
<1>4. CASE Reconcile
  <2>1. UNION {UpdateOf(id) : id \in {i \in CaseIds : OpenCase(i)}} \subseteq Updates
    BY UpdateOfType
  <2>2. ToCreate \subseteq Uids
    BY DEF ToCreate
  <2> DEFINE p == [pass EXCEPT !.stage = "apply",
                     !.updates = UNION {UpdateOf(id) : id \in {i \in CaseIds : OpenCase(i)}},
                     !.creates = ToCreate]
  <2>6. p \in Passes
    BY <2>1, <2>2 DEF TypeOK, Passes
  <2>7. pass' = Rest(p)
    BY <1>4 DEF Reconcile
  <2>3. pass' \in Passes
    BY <2>6, <2>7, RestType
  <2>4. cases' \in [CaseIds -> CaseRecords]
    BY <1>4, SeenType DEF Reconcile, TypeOK
  <2>5. QED
    BY <1>4, <2>3, <2>4 DEF Reconcile, TypeOK
<1>5. CASE PassFails
  BY <1>5, RecordTypes, QueueAssumption DEF PassFails, TypeOK
<1>6. ASSUME NEW u \in pass.updates, ApplyUpdate(u) PROVE TypeOK'
  <2>1. u \in Updates
    BY DEF TypeOK, Passes
  <2>2. Updated(cases[u.id], u) \in CaseRecords
    BY <2>1, UpdatedType DEF TypeOK, Updates
  <2>3. cases' \in [CaseIds -> CaseRecords]
    BY <1>6, <2>2 DEF ApplyUpdate, TypeOK
  <2>4. pass' \in Passes
    BY <1>6, RestType DEF ApplyUpdate, TypeOK, Passes
  <2>5. QED
    BY <1>6, <2>3, <2>4 DEF ApplyUpdate, TypeOK
<1>7. ASSUME NEW u \in pass.creates, ApplyCreate(u) PROVE TypeOK'
  <2>1. u \in Uids /\ pass.age \in Ages
    BY AgeTypes DEF TypeOK, Passes
  <2>2. NewCase(u, pass.age) \in CaseRecords
    BY <2>1, CaseTypes
  <2>3. cases' \in [CaseIds -> CaseRecords]
    BY <1>7, <2>2 DEF ApplyCreate, WithNewCase, TypeOK
  <2>4. pass' \in Passes
    BY <1>7, RestType DEF ApplyCreate, TypeOK, Passes
  <2>5. QED
    BY <1>7, <2>3, <2>4 DEF ApplyCreate, TypeOK
<1>8. QED
  BY <1>1, <1>2, <1>3, <1>4, <1>5, <1>6, <1>7 DEF Job

LEMMA RequestType == ASSUME TypeOK, NEW r \in Requests, Request(r) PROVE TypeOK'
<1> USE RecordTypes DEF Step, Leave
<1>1. ASSUME NEW id \in CaseIds, TakeRead(r, id) PROVE TypeOK'
  BY <1>1 DEF TakeRead, TypeOK, ReqRecords, IdleReq, TakeStages, Rows
<1>2. CASE TakeLookUp(r)
  <2>1. ASSUME NEW c \in Chosen(cases[reqs[r].id].uid, reqs[r].channel) \ {Offline},
               NEW s \in SupporterClients,
               reqs' = [reqs EXCEPT ![r] = [@ EXCEPT !.stage = "claim", !.client = c,
                                                     !.supporter = s, !.channel = NoOne]]
        PROVE  reqs' \in [Requests -> ReqRecords]
    <3>1. c \in Clients /\ s \in Clients
      BY ChosenType, QueueAssumption
    <3>2. [reqs[r] EXCEPT !.stage = "claim", !.client = c, !.supporter = s, !.channel = NoOne] \in ReqRecords
      BY <3>1 DEF TypeOK, ReqRecords, TakeStages
    <3>3. QED
      BY <2>1, <3>2 DEF TypeOK
  <2>2. reqs' = [reqs EXCEPT ![r] = IdleReq] => reqs' \in [Requests -> ReqRecords]
    BY DEF TypeOK
  <2>3. QED
    BY <1>2, <2>1, <2>2 DEF TakeLookUp, TypeOK
<1>3. CASE TakeClaim(r)
  <2>1. reqs' \in [Requests -> ReqRecords]
    <3>1. [reqs EXCEPT ![r].stage = "lock"] \in [Requests -> ReqRecords]
      BY DEF TypeOK, ReqRecords, TakeStages
    <3>2. [reqs EXCEPT ![r] = IdleReq] \in [Requests -> ReqRecords]
      BY DEF TypeOK
    <3>3. QED
      BY <1>3, <3>1, <3>2 DEF TakeClaim
  <2>2. cases' \in [CaseIds -> CaseRecords]
    BY <1>3, CaseTypes, AgeTypes DEF TakeClaim, TypeOK
  <2>3. QED
    BY <1>3, <2>1, <2>2 DEF TakeClaim, TypeOK
<1>4. CASE TakeLock(r)
  BY <1>4 DEF TakeLock, TypeOK, ReqRecords, TakeStages
<1>5. CASE TakeCreateRoom(r)
  BY <1>5 DEF TakeCreateRoom, TypeOK, ReqRecords, TakeStages
<1>6. CASE TakeMoveClient(r)
  BY <1>6 DEF TakeMoveClient, TypeOK, ReqRecords, TakeStages, Places
<1>7. CASE TakeMoveSupporter(r)
  BY <1>7 DEF TakeMoveSupporter, TypeOK, ReqRecords, TakeStages, Places
<1>8. CASE TakeDone(r)
  BY <1>8 DEF TakeDone, TypeOK
<1>9. CASE TakeFails(r)
  <2>1. cases' \in [CaseIds -> CaseRecords]
    BY <1>9, CaseTypes DEF TakeFails, TypeOK
  <2>2. QED
    BY <1>9, <2>1 DEF TakeFails, TypeOK
<1>10. ASSUME NEW id \in CaseIds, RemoveClaim(r, id) PROVE TypeOK'
  <2>1. cases' \in [CaseIds -> CaseRecords]
    BY <1>10, CaseTypes DEF RemoveClaim, TypeOK, Ended
  <2>2. reqs' \in [Requests -> ReqRecords]
    BY <1>10 DEF RemoveClaim, TypeOK, ReqRecords, IdleReq, Rows
  <2>3. QED
    BY <1>10, <2>1, <2>2 DEF RemoveClaim, TypeOK
<1>11. CASE RemoveFind(r)
  <2>1. ASSUME NEW c \in Chosen(cases[reqs[r].id].uid, reqs[r].channel) \ {Offline},
               reqs' = [reqs EXCEPT ![r] = [@ EXCEPT !.stage = "send home", !.client = c,
                                                     !.channel = NoOne]]
        PROVE  reqs' \in [Requests -> ReqRecords]
    <3>1. c \in Clients
      BY ChosenType
    <3>2. [reqs[r] EXCEPT !.stage = "send home", !.client = c, !.channel = NoOne] \in ReqRecords
      BY <3>1 DEF TypeOK, ReqRecords
    <3>3. QED
      BY <2>1, <3>2 DEF TypeOK
  <2>2. reqs' = [reqs EXCEPT ![r] = IdleReq] => reqs' \in [Requests -> ReqRecords]
    BY DEF TypeOK
  <2>3. QED
    BY <1>11, <2>1, <2>2 DEF RemoveFind, TypeOK
<1>12. CASE RemoveSendHome(r)
  BY <1>12, QueueAssumption DEF RemoveSendHome, TypeOK, Places
<1>13. QED
  BY <1>1, <1>2, <1>3, <1>4, <1>5, <1>6, <1>7, <1>8, <1>9, <1>10, <1>11, <1>12 DEF Request

LEMMA SetupType == ASSUME TypeOK, NEW a \in Admins, Setup(a) PROVE TypeOK'
<1> USE RecordTypes DEF PutStage, PutEnd
<1>1. ASSUME NEW on \in BOOLEAN, NEW ch \in WaitingChannels, PutRead(a, on, ch) PROVE TypeOK'
  <2>1. Row(on, ch) \in Rows
    BY QueueAssumption
  <2>2. QED
    BY <1>1, <2>1 DEF PutRead, TypeOK, PutRecords, IdlePut
<1>2. CASE PutWrite(a)
  <2>1. puts[a].new \in Rows /\ AfterWrite(puts[a]) \in PutRecords
    BY DEF TypeOK, PutRecords, AfterWrite, IdlePut
  <2>2. QED
    BY <1>2, <2>1 DEF PutWrite, TypeOK
<1>3. CASE PutCloseWaiting(a)
  <2>1. cases' \in [CaseIds -> CaseRecords]
    BY <1>3, CaseTypes DEF PutCloseWaiting, EndAll, TypeOK, Ended
  <2>2. QED
    BY <1>3, <2>1 DEF PutCloseWaiting, TypeOK, PutRecords
<1>4. CASE PutCloseTaken(a)
  <2>1. cases' \in [CaseIds -> CaseRecords]
    BY <1>4, CaseTypes DEF PutCloseTaken, EndAll, TypeOK, Ended
  <2>2. QED
    BY <1>4, <2>1 DEF PutCloseTaken, TypeOK, PutRecords
<1>5. CASE PutReset(a)
  BY <1>5 DEF PutReset, TypeOK
<1>6. QED
  BY <1>1, <1>2, <1>3, <1>4, <1>5 DEF Setup

LEMMA WorldType ==
  ASSUME TypeOK,
         \/ \E id \in CaseIds : Close(id)
         \/ \E c \in Clients, p \in Channels \cup {Offline} : Walk(c, p)
         \/ Tick
         \/ Restart
  PROVE  TypeOK'
<1>1. ASSUME NEW id \in CaseIds, Close(id) PROVE TypeOK'
  <2>1. cases' \in [CaseIds -> CaseRecords]
    BY <1>1, CaseTypes DEF Close, TypeOK, Ended
  <2>2. QED
    BY <1>1, <2>1 DEF Close, TypeOK
<1>2. ASSUME NEW c \in Clients, NEW p \in Channels \cup {Offline}, Walk(c, p) PROVE TypeOK'
  BY <1>2 DEF Walk, TypeOK, Places
<1>3. CASE Tick
  <2>1. cases' \in [CaseIds -> CaseRecords]
    <3>1. \A k \in CaseRecords : [k EXCEPT !.absentFor = Older(@), !.seenFor = Older(@),
                                           !.helpFor = Older(@)] \in CaseRecords
      BY AgeTypes DEF CaseRecords
    <3>2. QED
      BY <1>3, <3>1 DEF Tick, TypeOK
  <2>2. live' \in Ages /\ calm' \in Ages
    BY <1>3, AgeTypes DEF Tick, TypeOK
  <2>3. pass' \in Passes
    <3>1. CASE pass.stage = "idle"
      BY <1>3, <3>1 DEF Tick, TypeOK
    <3>2. CASE pass.stage # "idle"
      <4>1. pass.age + 1 \in 0..MaxLag
        BY <1>3, <3>2, AgeTypes DEF Tick, TypeOK, Passes
      <4>2. Older(pass.watch) \in Ages
        BY AgeTypes DEF TypeOK, Passes
      <4>3. pass' = [pass EXCEPT !.age = pass.age + 1, !.watch = Older(pass.watch)]
        BY <1>3, <3>2 DEF Tick, TypeOK, Passes
      <4>4. QED
        BY <4>1, <4>2, <4>3 DEF TypeOK, Passes
    <3>3. QED
      BY <3>1, <3>2
  <2>4. QED
    BY <1>3, <2>1, <2>2, <2>3 DEF Tick, TypeOK
<1>4. CASE Restart
  BY <1>4, AgeTypes, RecordTypes, QueueAssumption DEF Restart, TypeOK
<1>5. QED
  BY <1>1, <1>2, <1>3, <1>4

LEMMA TypeInit == Init => TypeOK
<1> SUFFICES ASSUME Init PROVE TypeOK
  OBVIOUS
<1>1. queue \in Rows
  BY RecordTypes, QueueAssumption DEF Init
<1>2. faults \in 0..MaxFaults
  BY QueueAssumption DEF Init
<1>3. where \in [Clients -> Places] /\ calm \in Ages
  BY AgeTypes DEF Init, Places
<1>4. QED
  BY <1>1, <1>2, <1>3, RecordTypes DEF Init, TypeOK

LEMMA TypeNext == TypeOK /\ [Next]_vars => TypeOK'
<1> SUFFICES ASSUME TypeOK, [Next]_vars PROVE TypeOK'
  OBVIOUS
<1>1. CASE UNCHANGED vars
  BY <1>1 DEF vars, TypeOK
<1>2. QED
  BY <1>1, JobType, RequestType, SetupType, WorldType DEF Next

\* Every variable of the queue keeps its type, for all values of the constants.
THEOREM TypeCorrect == Spec => []TypeOK
BY TypeInit, TypeNext, PTL DEF Spec

------------------------------------------------------------------------------
(* What a step may do to the cases *)

\* No open case is new, and each keeps its person.
NothingOpens ==
  \A id \in CaseIds : cases'[id].state \in Open => OpenCase(id) /\ cases'[id].uid = cases[id].uid

\* A case that has ended stays as it is.
EndedKept == \A id \in CaseIds : cases[id].state \in Ended => cases'[id] = cases[id]

\* No case starts to wait.
NothingWaits ==
  \A id \in CaseIds : cases'[id].state \in {"waiting", "none"} => cases[id].state = cases'[id].state

LEMMA ApplyUpdateEffect ==
  ASSUME TypeOK, NEW u \in pass.updates, ApplyUpdate(u)
  PROVE  NothingOpens /\ EndedKept /\ NothingWaits
<1>1. u \in Updates /\ u.id \in CaseIds /\ u.from \in Open
  BY DEF TypeOK, Passes, Updates
<1>2. CASE ~StillAsRead(u)
  BY <1>2 DEF ApplyUpdate, NothingOpens, EndedKept, NothingWaits, OpenCase
<1>3. CASE StillAsRead(u)
  <2> DEFINE k == cases[u.id]
  <2>1. k \in CaseRecords /\ k.state \in Open
    BY <1>1, <1>3 DEF StillAsRead, TypeOK
  <2>2. cases' = [cases EXCEPT ![u.id] = Updated(k, u)]
    BY <1>3 DEF ApplyUpdate
  <2>3. Updated(k, u).uid = k.uid /\ (Updated(k, u).state \in {"waiting", "none"} => Updated(k, u).state = k.state)
    BY <1>1, <2>1 DEF Updated, Seen, TakeCase, EndCase, CaseRecords, Updates, Open, Ended
  <2>4. QED
    BY <1>1, <2>1, <2>2, <2>3 DEF NothingOpens, EndedKept, NothingWaits, OpenCase, Open, Ended, TypeOK
<1>4. QED
  BY <1>2, <1>3

LEMMA ReconcileEffect ==
  ASSUME TypeOK, Reconcile
  PROVE  /\ NothingOpens /\ EndedKept /\ NothingWaits
         /\ \A id \in CaseIds : cases'[id].state = cases[id].state /\ cases'[id].uid = cases[id].uid
<1>1. \A id \in CaseIds : /\ cases'[id].state = cases[id].state
                          /\ cases'[id].uid = cases[id].uid
                          /\ ~OpenCase(id) => cases'[id] = cases[id]
  BY DEF Reconcile, Seen, TypeOK, CaseRecords
<1>2. QED
  BY <1>1 DEF NothingOpens, EndedKept, NothingWaits, OpenCase, Open, Ended

LEMMA ApplyCreateEffect ==
  ASSUME TypeOK, NEW u \in pass.creates, ApplyCreate(u)
  PROVE  \/ cases' = cases
         \/ \E id \in CaseIds : cases[id] = NoCase /\ cases' = [cases EXCEPT ![id] = NewCase(u, pass.age)]
BY DEF ApplyCreate, WithNewCase

LEMMA TickEffect ==
  ASSUME TypeOK, Tick
  PROVE  /\ NothingOpens /\ NothingWaits
         /\ EndedIsStill => EndedKept /\ EndedIsStill'
<1>1. ASSUME NEW id \in CaseIds
      PROVE  /\ cases[id] \in CaseRecords /\ cases'[id] \in CaseRecords
             /\ cases'[id].state = cases[id].state
             /\ cases'[id].uid = cases[id].uid
             /\ cases'[id].reason = cases[id].reason
             /\ cases'[id].absentFor = Older(cases[id].absentFor)
             /\ cases'[id].seenFor = Older(cases[id].seenFor)
             /\ cases'[id].helpFor = Older(cases[id].helpFor)
  <2>1. cases'[id] = [cases[id] EXCEPT !.absentFor = Older(@), !.seenFor = Older(@), !.helpFor = Older(@)]
    BY DEF Tick
  <2>2. cases[id] \in CaseRecords
    BY DEF TypeOK
  <2>3. /\ DOMAIN cases[id] = {"uid", "state", "absentFor", "seenFor", "helpFor", "reason"}
        /\ cases[id].absentFor \in Ages /\ cases[id].seenFor \in Ages /\ cases[id].helpFor \in Ages
    BY <2>2 DEF CaseRecords
  <2>4. /\ cases'[id].state = cases[id].state
        /\ cases'[id].uid = cases[id].uid
        /\ cases'[id].reason = cases[id].reason
        /\ cases'[id].absentFor = Older(cases[id].absentFor)
        /\ cases'[id].seenFor = Older(cases[id].seenFor)
        /\ cases'[id].helpFor = Older(cases[id].helpFor)
    BY <2>1, <2>3
  <2>5. cases'[id] \in CaseRecords
    BY <2>2, <2>3, <2>4, <2>1, AgeTypes DEF CaseRecords
  <2>6. QED
    BY <2>2, <2>4, <2>5
<1>2. NothingOpens /\ NothingWaits
  BY <1>1 DEF NothingOpens, NothingWaits, OpenCase, Open
<1>3. Older(NoTime) = NoTime
  BY DEF Older
<1>4. ASSUME EndedIsStill PROVE EndedIsStill'
  BY <1>1, <1>3, <1>4 DEF EndedIsStill
<1>5. ASSUME EndedIsStill, NEW id \in CaseIds, cases[id].state \in Ended PROVE cases'[id] = cases[id]
  <2>1. /\ cases'[id].absentFor = cases[id].absentFor /\ cases'[id].seenFor = cases[id].seenFor
        /\ cases'[id].helpFor = cases[id].helpFor
    BY <1>1, <1>3, <1>5 DEF EndedIsStill
  <2>2. QED
    BY <1>1, <2>1 DEF CaseRecords
<1>6. QED
  BY <1>2, <1>4, <1>5 DEF EndedKept

\* The conditional updates of Close and of a change of the queue.
LEMMA CloseEffect ==
  ASSUME TypeOK, NEW to \in Ended, NEW why, NEW S \in SUBSET CaseIds,
         \A id \in S : OpenCase(id) /\ cases'[id] = EndCase(cases[id], to, why),
         \A id \in CaseIds \ S : cases'[id] = cases[id]
  PROVE  NothingOpens /\ EndedKept /\ NothingWaits /\ (EndedIsStill => EndedIsStill')
<1>0. \A k \in CaseRecords :
        /\ EndCase(k, to, why).state = to /\ EndCase(k, to, why).absentFor = NoTime
        /\ EndCase(k, to, why).seenFor = NoTime /\ EndCase(k, to, why).helpFor = NoTime
  BY DEF EndCase, CaseRecords
<1>1. ASSUME NEW id \in CaseIds, id \in S
      PROVE  /\ cases[id].state \in Open /\ cases'[id].state = to
             /\ cases'[id].absentFor = NoTime /\ cases'[id].seenFor = NoTime /\ cases'[id].helpFor = NoTime
  BY <1>0, <1>1 DEF TypeOK, OpenCase
<1>2. \A id \in CaseIds \ S : cases'[id] = cases[id]
  OBVIOUS
<1>3. QED
  BY <1>1, <1>2 DEF NothingOpens, EndedKept, NothingWaits, EndedIsStill, OpenCase, Open, Ended

------------------------------------------------------------------------------
(* The invariant *)

RequestParts == OneTakerPerCase /\ RequestsAim /\ ClaimedIsTaken
CaseParts    == AtMostOneOpenCase /\ CreatesAreNew

LEMMA KeepCaseParts ==
  ASSUME CaseParts, NothingOpens, pass'.creates \subseteq pass.creates
  PROVE  CaseParts'
BY DEF CaseParts, AtMostOneOpenCase, CreatesAreNew, NothingOpens, OpenCase, OpenCasesOf

LEMMA KeepRequestParts ==
  ASSUME RequestParts, NothingWaits, reqs' = reqs
  PROVE  RequestParts'
BY DEF RequestParts, OneTakerPerCase, RequestsAim, ClaimedIsTaken, Claimed, NothingWaits

LEMMA SameCases ==
  ASSUME cases' = cases
  PROVE  NothingOpens /\ EndedKept /\ NothingWaits /\ (EndedIsStill => EndedIsStill')
BY DEF NothingOpens, EndedKept, NothingWaits, EndedIsStill, OpenCase

LEMMA RestCreates == \A p : Rest(p).creates \subseteq p.creates
BY DEF Rest, IdlePass

LEMMA JobInv == QueueInv /\ Job => CaseParts' /\ RequestParts' /\ EndedIsStill' /\ EndedKept
<1> SUFFICES ASSUME QueueInv, Job PROVE CaseParts' /\ RequestParts' /\ EndedIsStill' /\ EndedKept
  OBVIOUS
<1>0. TypeOK /\ CaseParts /\ RequestParts /\ EndedIsStill
  BY DEF QueueInv, CaseParts, RequestParts
<1>1. CASE PassStart \/ Look \/ LookFails \/ PassFails
  <2>1. cases' = cases /\ reqs' = reqs
    BY <1>1 DEF PassStart, Look, LookFails, PassFails
  <2>2. pass'.creates \subseteq pass.creates
    <3>1. pass \in Passes /\ IdlePass \in Passes /\ IdlePass.creates = {}
      BY <1>0, RecordTypes DEF TypeOK, IdlePass
    <3>2. CASE PassStart
      BY <3>1, <3>2 DEF PassStart, IdlePass
    <3>3. CASE Look
      BY <3>1, <3>3 DEF Look, Passes
    <3>4. CASE LookFails \/ PassFails
      BY <3>1, <3>4 DEF LookFails, PassFails
    <3>5. QED
      BY <1>1, <3>2, <3>3, <3>4
  <2>3. QED
    BY <1>0, <2>1, <2>2, SameCases, KeepCaseParts, KeepRequestParts
<1>2. CASE Reconcile
  <2>1. /\ EndedKept /\ NothingWaits /\ reqs' = reqs
        /\ \A id \in CaseIds : cases'[id].state = cases[id].state /\ cases'[id].uid = cases[id].uid
    BY <1>0, <1>2, ReconcileEffect DEF Reconcile
  <2>2. pass'.creates \subseteq ToCreate
    <3> DEFINE p == [pass EXCEPT !.stage = "apply",
                       !.updates = UNION {UpdateOf(id) : id \in {i \in CaseIds : OpenCase(i)}},
                       !.creates = ToCreate]
    <3>1. pass' = Rest(p)
      BY <1>2 DEF Reconcile
    <3>2. p.creates = ToCreate
      BY <1>0 DEF TypeOK, Passes
    <3>3. QED
      BY <3>1, <3>2, RestCreates
  <2>3. \A u \in ToCreate : OpenCasesOf(u) = {}
    BY DEF ToCreate
  <2>4. CaseParts'
    BY <1>0, <2>1, <2>2, <2>3 DEF CaseParts, AtMostOneOpenCase, CreatesAreNew, OpenCase, OpenCasesOf
  <2>5. EndedIsStill'
    <3>1. \A id \in CaseIds : cases'[id].state \in Ended \cup {"none"} => cases'[id] = cases[id]
      BY <1>2 , <2>1 DEF Reconcile, OpenCase, Open, Ended
    <3>2. QED
      BY <1>0, <2>1, <3>1 DEF EndedIsStill
  <2>6. QED
    BY <1>0, <2>1, <2>4, <2>5, KeepRequestParts
<1>3. ASSUME NEW u \in pass.updates, ApplyUpdate(u)
      PROVE  CaseParts' /\ RequestParts' /\ EndedIsStill' /\ EndedKept
  <2>1. NothingOpens /\ EndedKept /\ NothingWaits /\ reqs' = reqs
    BY <1>0, <1>3, ApplyUpdateEffect DEF ApplyUpdate
  <2>2. pass'.creates \subseteq pass.creates
    <3>1. [pass EXCEPT !.updates = @ \ {u}].creates = pass.creates
      BY <1>0 DEF TypeOK, Passes
    <3>2. QED
      BY <1>3, <3>1, RestCreates DEF ApplyUpdate
  <2>3. EndedIsStill'
    <3>1. u \in Updates /\ u.id \in CaseIds /\ u.from \in Open
      BY <1>0 DEF TypeOK, Passes, Updates
    <3>2. CASE StillAsRead(u)
      <4>1. cases[u.id] \in CaseRecords /\ cases[u.id].state \in Open
        BY <1>0, <3>1, <3>2 DEF StillAsRead, TypeOK
      <4>2. LET k == Updated(cases[u.id], u)
            IN  k.state \in Ended \cup {"none"} =>
                k.absentFor = NoTime /\ k.seenFor = NoTime /\ k.helpFor = NoTime
        BY <3>1, <4>1 DEF Updated, Seen, TakeCase, EndCase, CaseRecords, Updates, Open, Ended
      <4>3. cases' = [cases EXCEPT ![u.id] = Updated(cases[u.id], u)]
        BY <1>3, <3>2 DEF ApplyUpdate
      <4>4. QED
        BY <1>0, <3>1, <4>2, <4>3 DEF EndedIsStill, TypeOK
    <3>3. CASE ~StillAsRead(u)
      BY <1>0, <1>3, <3>3, SameCases DEF ApplyUpdate
    <3>4. QED
      BY <3>2, <3>3
  <2>4. QED
    BY <1>0, <2>1, <2>2, <2>3, KeepCaseParts, KeepRequestParts
<1>4. ASSUME NEW u \in pass.creates, ApplyCreate(u)
      PROVE  CaseParts' /\ RequestParts' /\ EndedIsStill' /\ EndedKept
  <2>1. pass'.creates \subseteq pass.creates \ {u}
    <3>1. [pass EXCEPT !.creates = @ \ {u}].creates = pass.creates \ {u}
      BY <1>0 DEF TypeOK, Passes
    <3>2. QED
      BY <1>4, <3>1, RestCreates DEF ApplyCreate
  <2>2. reqs' = reqs
    BY <1>4 DEF ApplyCreate
  <2>3. CASE cases' = cases
    BY <1>0, <2>1, <2>2, <2>3, SameCases, KeepCaseParts, KeepRequestParts
  <2>4. ASSUME NEW id \in CaseIds, cases[id] = NoCase, cases' = [cases EXCEPT ![id] = NewCase(u, pass.age)]
        PROVE  CaseParts' /\ RequestParts' /\ EndedIsStill' /\ EndedKept
    <3>1. /\ cases[id].state = "none"
          /\ cases'[id].state = "waiting" /\ cases'[id].uid = u
          /\ \A j \in CaseIds \ {id} : cases'[j] = cases[j]
      BY <1>0, <2>4 DEF NoCase, NewCase, TypeOK
    <3>2. \A j \in CaseIds : OpenCase(j) => cases[j].uid # u
      BY <1>0 DEF CaseParts, CreatesAreNew, OpenCasesOf
    <3>3. AtMostOneOpenCase'
      BY <1>0, <3>1, <3>2 DEF CaseParts, AtMostOneOpenCase, OpenCase
    <3>4. CreatesAreNew'
      BY <1>0, <2>1, <3>1 DEF CaseParts, CreatesAreNew, OpenCasesOf, OpenCase
    <3>5. RequestParts'
      BY <1>0, <2>2, <3>1 DEF RequestParts, OneTakerPerCase, RequestsAim, ClaimedIsTaken, Claimed
    <3>6. EndedIsStill' /\ EndedKept
      BY <1>0, <3>1 DEF EndedIsStill, EndedKept, Ended
    <3>7. QED
      BY <3>3, <3>4, <3>5, <3>6 DEF CaseParts
  <2>5. QED
    BY <1>0, <1>4, <2>3, <2>4, ApplyCreateEffect
<1>5. QED
  BY <1>1, <1>2, <1>3, <1>4 DEF Job

LEMMA TakerMoves ==
  ASSUME TypeOK, RequestParts, NothingWaits, NEW r \in Requests,
         NEW q \in ReqRecords,
         reqs' = [reqs EXCEPT ![r] = q],
         q.stage # "idle" => q.id \in CaseIds,
         q.stage \in {"lock", "create", "moveClient", "moveSupporter", "return"} =>
           Claimed(r) /\ q.id = reqs[r].id
  PROVE  RequestParts'
<1>1. \A s \in Requests \ {r} : reqs'[s] = reqs[s]
  BY DEF TypeOK
<1>2. reqs'[r] = q
  BY DEF TypeOK
<1>3. \A s \in Requests : Claimed(s)' => Claimed(s) /\ reqs'[s].id = reqs[s].id
  BY <1>1, <1>2 DEF Claimed
<1>4. RequestsAim'
  BY <1>1, <1>2 DEF RequestParts, RequestsAim
<1>5. OneTakerPerCase'
  BY <1>3 DEF RequestParts, OneTakerPerCase
<1>6. ClaimedIsTaken'
  <2> SUFFICES ASSUME NEW s \in Requests, Claimed(s)'
               PROVE  cases'[reqs'[s].id].state \notin {"waiting", "none"}
    BY DEF ClaimedIsTaken
  <2>1. Claimed(s) /\ reqs'[s].id = reqs[s].id
    BY <1>3
  <2>2. reqs[s].id \in CaseIds
    BY <2>1 DEF RequestParts, RequestsAim, Claimed
  <2>3. QED
    BY <2>1, <2>2 DEF RequestParts, ClaimedIsTaken, NothingWaits
<1>7. QED
  BY <1>4, <1>5, <1>6 DEF RequestParts

\* What the claim of a take guarantees: the case was nobody's.
LEMMA ClaimInv ==
  ASSUME QueueInv, NEW r \in Requests, TakeClaim(r)
  PROVE  CaseParts' /\ RequestParts' /\ EndedIsStill' /\ EndedKept
<1>0. TypeOK /\ CaseParts /\ RequestParts /\ EndedIsStill
  BY DEF QueueInv, CaseParts, RequestParts
<1> DEFINE id == reqs[r].id
<1>1. id \in CaseIds /\ reqs[r].stage = "claim"
  BY <1>0 DEF TakeClaim, ReqAt, RequestParts, RequestsAim
<1>2. CASE cases[id].state = "waiting"
  <2>1. /\ cases' = [cases EXCEPT ![id] = TakeCase(@, 0)]
        /\ \/ reqs' = [reqs EXCEPT ![r].stage = "lock"]
           \/ reqs' = [reqs EXCEPT ![r] = IdleReq]
        /\ pass' = pass
    BY <1>2 DEF TakeClaim, Step, Leave, StillWaiting
  <2>2. /\ cases'[id].state = "in-progress" /\ cases'[id].uid = cases[id].uid
        /\ \A j \in CaseIds \ {id} : cases'[j] = cases[j]
    BY <1>0, <1>1, <2>1 DEF TakeCase, TypeOK, CaseRecords
  <2>3. CaseParts' /\ EndedIsStill' /\ EndedKept
    <3>1. NothingOpens /\ EndedKept
      BY <1>2, <2>2 DEF NothingOpens, EndedKept, OpenCase, Open, Ended
    <3>2. EndedIsStill'
      BY <1>0, <2>2 DEF EndedIsStill, Ended
    <3>3. QED
      BY <1>0, <2>1, <3>1, <3>2, KeepCaseParts
  <2>4. /\ \A s \in Requests \ {r} : reqs'[s] = reqs[s]
        /\ reqs'[r].stage = "idle" \/ reqs'[r].id = id
    <3>1. CASE reqs' = [reqs EXCEPT ![r].stage = "lock"]
      BY <1>0, <3>1 DEF TypeOK, ReqRecords
    <3>2. CASE reqs' = [reqs EXCEPT ![r] = IdleReq]
      BY <1>0, <3>2 DEF TypeOK, IdleReq
    <3> QED BY <2>1, <3>1, <3>2
  <2>5. \A s \in Requests \ {r} : Claimed(s) => reqs[s].id # id
    BY <1>0, <1>2 DEF RequestParts, ClaimedIsTaken
  <2>6. OneTakerPerCase' /\ RequestsAim'
    <3>1. RequestsAim'
      BY <1>0, <1>1, <2>4 DEF RequestParts, RequestsAim
    <3>2. \A s \in Requests \ {r} : Claimed(s)' => Claimed(s) /\ reqs'[s].id = reqs[s].id
      BY <2>4 DEF Claimed
    <3>3. Claimed(r)' => reqs'[r].id = id
      BY <2>4 DEF Claimed
    <3>4. \A s, t \in Requests : Claimed(s)' /\ Claimed(t)' /\ reqs'[s].id = reqs'[t].id => s = t
      BY <1>0, <2>5, <3>2, <3>3 DEF RequestParts, OneTakerPerCase
    <3> QED BY <3>1, <3>4 DEF OneTakerPerCase, Claimed
  <2>7. ClaimedIsTaken'
    <3> SUFFICES ASSUME NEW s \in Requests, Claimed(s)'
                 PROVE  cases'[reqs'[s].id].state \notin {"waiting", "none"}
      BY DEF ClaimedIsTaken
    <3>1. CASE s = r
      BY <2>2, <2>4, <3>1 DEF Claimed
    <3>2. CASE s # r
      <4>1. Claimed(s) /\ reqs'[s].id = reqs[s].id /\ reqs[s].id \in CaseIds \ {id}
        BY <1>0, <2>4, <2>5, <3>2 DEF Claimed, RequestParts, RequestsAim
      <4>2. QED
        BY <1>0, <2>2, <4>1 DEF RequestParts, ClaimedIsTaken
    <3>3. QED
      BY <3>1, <3>2
  <2>8. QED
    BY <2>3, <2>6, <2>7 DEF RequestParts
<1>3. CASE cases[id].state # "waiting"
  <2>1. cases' = cases /\ reqs' = [reqs EXCEPT ![r] = IdleReq] /\ pass' = pass
    BY <1>3 DEF TakeClaim, Leave, StillWaiting
  <2>2. NothingOpens /\ EndedKept /\ NothingWaits /\ EndedIsStill'
    BY <1>0, <2>1, SameCases
  <2>3. RequestParts'
    BY <1>0, <2>1, <2>2, TakerMoves, RecordTypes DEF IdleReq
  <2>4. QED
    BY <1>0, <2>1, <2>2, <2>3, KeepCaseParts
<1>4. QED
  BY <1>2, <1>3

\* What the undo of a take guarantees: it puts nothing back that is not its own.
LEMMA UndoInv ==
  ASSUME QueueInv, NEW r \in Requests, TakeFails(r)
  PROVE  CaseParts' /\ RequestParts' /\ EndedIsStill' /\ EndedKept
<1>0. TypeOK /\ CaseParts /\ RequestParts /\ EndedIsStill
  BY DEF QueueInv, CaseParts, RequestParts
<1> DEFINE id == reqs[r].id
<1>1. id \in CaseIds /\ Claimed(r) /\ cases[id].state \notin {"waiting", "none"}
  BY <1>0 DEF TakeFails, Claimed, RequestParts, RequestsAim, ClaimedIsTaken
<1>2. /\ cases' \in {cases, [cases EXCEPT ![id] = Undone(@)]}
      /\ reqs' = [reqs EXCEPT ![r] = IdleReq]
      /\ pass' = pass
  BY DEF TakeFails, Leave
<1>3. /\ cases'[id].uid = cases[id].uid
      /\ cases[id].state = "in-progress" => cases'[id].state \in {"waiting", "in-progress"}
      /\ cases[id].state # "in-progress" => cases'[id] = cases[id]
      /\ \A j \in CaseIds \ {id} : cases'[j] = cases[j]
  <2>1. CASE cases' = cases
    BY <2>1
  <2>2. CASE cases' = [cases EXCEPT ![id] = Undone(@)]
    BY <1>0, <1>1, <2>2 DEF Undone, TypeOK, CaseRecords
  <2> QED BY <1>2, <2>1, <2>2
<1>4. NothingOpens /\ EndedKept
  BY <1>3 DEF NothingOpens, EndedKept, OpenCase, Open, Ended
<1>5. EndedIsStill'
  BY <1>0, <1>3 DEF EndedIsStill, Ended
<1>6. \A s \in Requests \ {r} : reqs'[s] = reqs[s] /\ (Claimed(s) => reqs[s].id # id)
  BY <1>0, <1>1, <1>2 DEF TypeOK, RequestParts, OneTakerPerCase
<1>7. reqs'[r].stage = "idle"
  BY <1>0, <1>2 DEF TypeOK, IdleReq
<1>8. RequestsAim' /\ OneTakerPerCase'
  BY <1>0, <1>6, <1>7 DEF RequestParts, RequestsAim, OneTakerPerCase, Claimed
<1>9. ClaimedIsTaken'
  <2> SUFFICES ASSUME NEW s \in Requests, Claimed(s)'
               PROVE  cases'[reqs'[s].id].state \notin {"waiting", "none"}
    BY DEF ClaimedIsTaken
  <2>1. s # r
    BY <1>7 DEF Claimed
  <2>2. Claimed(s) /\ reqs'[s] = reqs[s] /\ reqs[s].id \in CaseIds \ {id}
    BY <1>0, <1>6, <2>1 DEF Claimed, RequestParts, RequestsAim
  <2>3. QED
    BY <1>0, <1>3, <2>2 DEF RequestParts, ClaimedIsTaken
<1>10. QED
  BY <1>0, <1>2, <1>4, <1>5, <1>8, <1>9, KeepCaseParts DEF RequestParts

LEMMA RequestInv ==
  ASSUME QueueInv, NEW r \in Requests, Request(r)
  PROVE  CaseParts' /\ RequestParts' /\ EndedIsStill' /\ EndedKept
<1>0. TypeOK /\ CaseParts /\ RequestParts /\ EndedIsStill
  BY DEF QueueInv, CaseParts, RequestParts
<1>1. reqs[r] \in ReqRecords /\ (reqs[r].stage # "idle" => reqs[r].id \in CaseIds)
  BY <1>0 DEF TypeOK, RequestParts, RequestsAim
<1>2. TypeOK'
  BY <1>0, RequestType
<1>3. ASSUME cases' = cases, pass' = pass, NEW q \in ReqRecords, reqs' = [reqs EXCEPT ![r] = q],
             q.stage # "idle" => q.id \in CaseIds,
             q.stage \in {"lock", "create", "moveClient", "moveSupporter", "return"} =>
               Claimed(r) /\ q.id = reqs[r].id
      PROVE  CaseParts' /\ RequestParts' /\ EndedIsStill' /\ EndedKept
  BY <1>0, <1>3, SameCases, KeepCaseParts, TakerMoves
<1>4. ASSUME reqs' = [reqs EXCEPT ![r] = reqs'[r]], cases' = cases, pass' = pass,
             reqs'[r].stage # "idle" => reqs'[r].id \in CaseIds,
             reqs'[r].stage \in {"lock", "create", "moveClient", "moveSupporter", "return"} =>
               Claimed(r) /\ reqs'[r].id = reqs[r].id
      PROVE  CaseParts' /\ RequestParts' /\ EndedIsStill' /\ EndedKept
  <2>1. reqs'[r] \in ReqRecords
    BY <1>2 DEF TypeOK
  <2>2. QED
    BY <1>3, <1>4, <2>1
<1>5. ASSUME NEW id \in CaseIds, TakeRead(r, id)
      PROVE  CaseParts' /\ RequestParts' /\ EndedIsStill' /\ EndedKept
  <2>1. /\ cases' = cases /\ pass' = pass
        /\ reqs' = [reqs EXCEPT ![r] = reqs'[r]]
        /\ reqs'[r].stage = "lookUp" /\ reqs'[r].id = id
    BY <1>0, <1>5 DEF TakeRead, IdleReq, TypeOK
  <2>2. QED
    BY <1>4, <2>1
<1>6. CASE TakeLookUp(r) \/ RemoveFind(r)
  <2>1. cases' = cases /\ pass' = pass
    BY <1>6 DEF TakeLookUp, RemoveFind
  <2>2. reqs' = [reqs EXCEPT ![r] = reqs'[r]]
    BY <1>0, <1>6 DEF TakeLookUp, RemoveFind, Leave, TypeOK
  <2>3. \/ reqs'[r] = IdleReq
        \/ /\ reqs'[r].stage \in {"claim", "send home"} /\ reqs'[r].id = reqs[r].id
           /\ reqs[r].stage \in {"lookUp", "find"}
    <3>1. \A c, s : LET q == [reqs[r] EXCEPT !.stage = "claim", !.client = c,
                                              !.supporter = s, !.channel = NoOne]
                    IN  q.stage = "claim" /\ q.id = reqs[r].id
      BY <1>1 DEF ReqRecords
    <3>2. \A c : LET q == [reqs[r] EXCEPT !.stage = "send home", !.client = c, !.channel = NoOne]
                 IN  q.stage = "send home" /\ q.id = reqs[r].id
      BY <1>1 DEF ReqRecords
    <3>3. DOMAIN reqs = Requests
      BY <1>0 DEF TypeOK
    <3>4. CASE TakeLookUp(r)
      <4>1. reqs[r].stage = "lookUp"
        BY <3>4 DEF TakeLookUp, ReqAt
      <4>2. \/ reqs' = [reqs EXCEPT ![r] = IdleReq]
            \/ \E c, s : reqs' = [reqs EXCEPT ![r] = [@ EXCEPT !.stage = "claim", !.client = c,
                                                               !.supporter = s, !.channel = NoOne]]
        BY <3>4, Zenon DEF TakeLookUp, Leave
      <4>3. ASSUME NEW c, NEW s,
                   reqs' = [reqs EXCEPT ![r] = [@ EXCEPT !.stage = "claim", !.client = c,
                                                         !.supporter = s, !.channel = NoOne]]
            PROVE  reqs'[r].stage = "claim" /\ reqs'[r].id = reqs[r].id
        <5>1. reqs'[r] = [reqs[r] EXCEPT !.stage = "claim", !.client = c, !.supporter = s, !.channel = NoOne]
          BY <3>3, <4>3
        <5>2. QED
          BY <3>1, <5>1
      <4>4. reqs' = [reqs EXCEPT ![r] = IdleReq] => reqs'[r] = IdleReq
        BY <3>3
      <4>5. QED
        BY <4>1, <4>2, <4>3, <4>4
    <3>5. CASE RemoveFind(r)
      BY <3>2, <3>3, <3>5 DEF RemoveFind, ReqAt, Leave
    <3>6. QED
      BY <1>6, <3>4, <3>5
  <2>4. CASE reqs'[r] = IdleReq
    BY <1>4, <2>1, <2>2, <2>4 DEF IdleReq
  <2>5. CASE /\ reqs'[r].stage \in {"claim", "send home"} /\ reqs'[r].id = reqs[r].id
             /\ reqs[r].stage \in {"lookUp", "find"}
    BY <1>1, <1>4, <2>1, <2>2, <2>5
  <2>6. QED
    BY <2>3, <2>4, <2>5
<1>7. CASE TakeLock(r) \/ TakeCreateRoom(r) \/ TakeMoveClient(r) \/ TakeMoveSupporter(r)
  <2>1. cases' = cases /\ pass' = pass
    BY <1>7 DEF TakeLock, TakeCreateRoom, TakeMoveClient, TakeMoveSupporter
  <2>4. Claimed(r) /\ \E s \in {"create", "moveClient", "moveSupporter", "return"} : Step(r, s)
    <3>1. CASE TakeLock(r)
      BY <3>1 DEF TakeLock, ReqAt, Claimed
    <3>2. CASE TakeCreateRoom(r)
      BY <3>2 DEF TakeCreateRoom, ReqAt, Claimed
    <3>3. CASE TakeMoveClient(r)
      BY <3>3 DEF TakeMoveClient, ReqAt, Claimed
    <3>4. CASE TakeMoveSupporter(r)
      BY <3>4 DEF TakeMoveSupporter, ReqAt, Claimed
    <3>5. QED
      BY <1>7, <3>1, <3>2, <3>3, <3>4
  <2>5. PICK s : Step(r, s)
    BY <2>4
  <2>6. reqs \in [Requests -> ReqRecords]
    BY <1>0 DEF TypeOK
  <2>7. reqs' = [reqs EXCEPT ![r] = reqs'[r]]
    BY <2>5, <2>6 DEF Step
  <2>8. reqs'[r].id = reqs[r].id
    BY <2>5, <2>6 DEF Step, ReqRecords
  <2>2. /\ Claimed(r)
        /\ reqs' = [reqs EXCEPT ![r] = reqs'[r]]
        /\ reqs'[r].id = reqs[r].id
    BY <2>4, <2>7, <2>8
  <2>3. QED
    BY <1>1, <1>4, <2>1, <2>2 DEF Claimed
<1>8. CASE TakeDone(r) \/ RemoveSendHome(r)
  <2>1. cases' = cases /\ pass' = pass /\ reqs' = [reqs EXCEPT ![r] = IdleReq]
    BY <1>8 DEF TakeDone, RemoveSendHome, Leave
  <2>2. QED
    BY <1>3, <2>1, RecordTypes DEF IdleReq
<1>9. ASSUME NEW id \in CaseIds, RemoveClaim(r, id)
      PROVE  CaseParts' /\ RequestParts' /\ EndedIsStill' /\ EndedKept
  <2>1. NothingOpens /\ EndedKept /\ NothingWaits /\ EndedIsStill'
    <3>1. /\ \A j \in {id} : OpenCase(j) /\ cases'[j] = EndCase(cases[j], "cancelled", "removed")
          /\ \A j \in CaseIds \ {id} : cases'[j] = cases[j]
      BY <1>0, <1>9 DEF RemoveClaim, TypeOK, OpenCase, Open
    <3>2. {id} \in SUBSET CaseIds /\ "cancelled" \in Ended
      BY DEF Ended
    <3>3. QED
      BY <1>0, <3>1, <3>2, CloseEffect
  <2>2. /\ pass' = pass /\ reqs' = [reqs EXCEPT ![r] = reqs'[r]]
        /\ reqs'[r].stage = "find" /\ reqs'[r].id = id
    BY <1>0, <1>9 DEF RemoveClaim, IdleReq, TypeOK
  <2>3. reqs'[r] \in ReqRecords
    BY <1>2 DEF TypeOK
  <2>4. QED
    BY <1>0, <2>1, <2>2, <2>3, KeepCaseParts, TakerMoves
<1>10. QED
  BY <1>5, <1>6, <1>7, <1>8, <1>9, ClaimInv, UndoInv DEF Request

LEMMA OtherInv ==
  ASSUME QueueInv,
         \/ \E a \in Admins : Setup(a)
         \/ \E id \in CaseIds : Close(id)
         \/ \E c \in Clients, p \in Channels \cup {Offline} : Walk(c, p)
         \/ Tick
         \/ Restart
  PROVE  CaseParts' /\ RequestParts' /\ EndedIsStill' /\ EndedKept
<1>0. TypeOK /\ CaseParts /\ RequestParts /\ EndedIsStill
  BY DEF QueueInv, CaseParts, RequestParts
<1>1. ASSUME NothingOpens, EndedKept, NothingWaits, EndedIsStill', pass'.creates \subseteq pass.creates, reqs' = reqs
      PROVE  CaseParts' /\ RequestParts' /\ EndedIsStill' /\ EndedKept
  BY <1>0, <1>1, KeepCaseParts, KeepRequestParts
<1>2. ASSUME NEW a \in Admins, Setup(a) PROVE CaseParts' /\ RequestParts' /\ EndedIsStill' /\ EndedKept
  <2>1. pass' = pass /\ reqs' = reqs
    BY <1>2 DEF Setup, PutRead, PutWrite, PutCloseWaiting, PutCloseTaken, PutReset
  <2>2. CASE cases' = cases
    BY <1>0, <1>1, <2>1, <2>2, SameCases
  <2>3. ASSUME NEW from \in Open, NEW to \in Ended, EndAll(from, to)
        PROVE  NothingOpens /\ EndedKept /\ NothingWaits /\ EndedIsStill'
    <3> DEFINE S == {id \in CaseIds : cases[id].state = from}
    <3>1. /\ \A id \in S : OpenCase(id) /\ cases'[id] = EndCase(cases[id], to, "queue-changed")
          /\ \A id \in CaseIds \ S : cases'[id] = cases[id]
      BY <2>3 DEF EndAll, OpenCase
    <3>2. S \in SUBSET CaseIds
      OBVIOUS
    <3> HIDE DEF S
    <3>3. QED
      BY <1>0, <3>1, <3>2, CloseEffect
  <2>4. CASE PutCloseWaiting(a) \/ PutCloseTaken(a)
    BY <1>1, <2>1, <2>3, <2>4 DEF PutCloseWaiting, PutCloseTaken, Open, Ended
  <2>5. QED
    BY <1>2, <2>2, <2>4 DEF Setup, PutRead, PutWrite, PutReset
<1>3. ASSUME NEW id \in CaseIds, Close(id) PROVE CaseParts' /\ RequestParts' /\ EndedIsStill' /\ EndedKept
  <2>1. /\ \A j \in {id} : OpenCase(j) /\ cases'[j] = EndCase(cases[j], "done", "closed")
        /\ \A j \in CaseIds \ {id} : cases'[j] = cases[j]
    BY <1>0, <1>3 DEF Close, TypeOK, OpenCase, Open
  <2>2. {id} \in SUBSET CaseIds /\ "done" \in Ended
    BY DEF Ended
  <2>3. NothingOpens /\ EndedKept /\ NothingWaits /\ EndedIsStill'
    BY <1>0, <2>1, <2>2, CloseEffect
  <2>4. QED
    BY <1>1, <1>3, <2>3 DEF Close
<1>4. CASE \E c \in Clients, p \in Channels \cup {Offline} : Walk(c, p)
  BY <1>0, <1>1, <1>4, SameCases DEF Walk
<1>5. CASE Tick
  <2>1. pass'.creates = pass.creates
    BY <1>0, <1>5 DEF Tick, TypeOK, Passes
  <2>2. QED
    BY <1>0, <1>1, <1>5, <2>1, TickEffect DEF Tick
<1>6. CASE Restart
  <2>1. cases' = cases /\ pass'.creates = {}
    BY <1>6 DEF Restart, IdlePass
  <2>2. \A r \in Requests : reqs'[r].stage = "idle"
    BY <1>6 DEF Restart, IdleReq
  <2>3. RequestParts'
    BY <2>2 DEF RequestParts, OneTakerPerCase, RequestsAim, ClaimedIsTaken, Claimed
  <2>4. QED
    BY <1>0, <2>1, <2>3, SameCases, KeepCaseParts
<1>7. QED
  BY <1>2, <1>3, <1>4, <1>5, <1>6

LEMMA QueueInit == Init => QueueInv
<1> SUFFICES ASSUME Init PROVE QueueInv
  OBVIOUS
<1>1. TypeOK
  BY TypeInit
<1>2. \A id \in CaseIds : cases[id] = NoCase /\ NoCase.state = "none"
  BY DEF Init, NoCase
<1>3. \A r \in Requests : reqs[r].stage = "idle"
  BY DEF Init, IdleReq
<1>4. pass.creates = {}
  BY DEF Init, IdlePass
<1>5. QED
  BY <1>1, <1>2, <1>3, <1>4
     DEF QueueInv, AtMostOneOpenCase, OneTakerPerCase, CreatesAreNew, RequestsAim, ClaimedIsTaken,
         EndedIsStill, OpenCase, Open, Claimed, NoCase

LEMMA QueueNext == QueueInv /\ [Next]_vars => QueueInv' /\ EndedKept
<1> SUFFICES ASSUME QueueInv, [Next]_vars PROVE QueueInv' /\ EndedKept
  OBVIOUS
<1>1. TypeOK'
  BY TypeNext DEF QueueInv
<1>2. CASE UNCHANGED vars
  BY <1>2 DEF vars, QueueInv, TypeOK, AtMostOneOpenCase, OneTakerPerCase, CreatesAreNew, RequestsAim,
              ClaimedIsTaken, EndedIsStill, OpenCase, OpenCasesOf, Claimed, EndedKept
<1>3. CASE Next
  BY <1>1, <1>3, JobInv, RequestInv, OtherInv DEF Next, QueueInv, CaseParts, RequestParts
<1>4. QED
  BY <1>2, <1>3

\* The inductive invariant of the queue.
THEOREM QueueInvariant == Spec => []QueueInv
BY QueueInit, QueueNext, PTL DEF Spec

\* Nobody ever has two open cases: the unconditional create of applyChanges is safe
\* against every interleaving with the requests, the setup and restarts.
THEOREM OneOpenCase == Spec => []AtMostOneOpenCase
<1>1. QueueInv => AtMostOneOpenCase
  BY DEF QueueInv
<1>2. QED
  BY <1>1, QueueInvariant, PTL

\* No two take requests ever work on the same case.
THEOREM OneTaker == Spec => []OneTakerPerCase
<1>1. QueueInv => OneTakerPerCase
  BY DEF QueueInv
<1>2. QED
  BY <1>1, QueueInvariant, PTL

\* An ended case never comes back and never changes.
THEOREM EndedForGood == Spec => EndedStaysEnded
<1>1. QueueInv /\ [Next]_vars => [\A id \in CaseIds : cases[id].state \in Ended => cases'[id] = cases[id]]_vars
  BY QueueNext DEF EndedKept
<1>2. QED
  BY <1>1, QueueInvariant, PTL DEF Spec, EndedStaysEnded
------------------------------------------------------------------------------
(* The end of the old cases *)

\* A case that is there is neither put back to waiting, nor opened, nor removed.
OldStay ==
  \A id \in CaseIds : cases[id].state # "none" =>
    /\ cases'[id].state \in {"waiting", "none"} => cases[id].state = cases'[id].state
    /\ cases'[id].state \in Open => cases[id].state \in Open

\* What a change of the queue has done so far with the cases that were open when it was written.
Ending(put, k) ==
  /\ \A id \in put.open : id \in CaseIds /\ k[id].state # "none"
  /\ put.stage = "closeTaken" => \A id \in put.open : k[id].state # "waiting"
  /\ put.stage = "reset" => \A id \in put.open : k[id].state \notin Open
EndInv == \A a \in Admins : Ending(puts[a], cases)

LEMMA NewCaseStays ==
  ASSUME TypeOK, NEW u \in pass.creates, ApplyCreate(u)
  PROVE  OldStay
<1>1. CASE cases' = cases
  BY <1>1 DEF OldStay
<1>2. ASSUME NEW id \in CaseIds, cases[id] = NoCase, cases' = [cases EXCEPT ![id] = NewCase(u, pass.age)]
      PROVE  OldStay
  <2>1. cases[id].state = "none" /\ \A j \in CaseIds \ {id} : cases'[j] = cases[j]
    BY <1>2 DEF NoCase, TypeOK
  <2>2. QED
    BY <2>1 DEF OldStay
<1>3. QED
  BY <1>1, <1>2, ApplyCreateEffect

LEMMA StayWhen ==
  ASSUME NothingOpens, NothingWaits
  PROVE  OldStay
BY DEF NothingOpens, NothingWaits, OldStay, OpenCase

LEMMA EndAllStays ==
  ASSUME TypeOK, NEW from \in Open, NEW to \in Ended, EndAll(from, to)
  PROVE  OldStay /\ \A id \in CaseIds : cases'[id].state # from
<1> DEFINE S == {id \in CaseIds : cases[id].state = from}
<1>1. /\ \A id \in S : OpenCase(id) /\ cases'[id] = EndCase(cases[id], to, "queue-changed")
      /\ \A id \in CaseIds \ S : cases'[id] = cases[id]
  BY DEF EndAll, OpenCase
<1>2. S \in SUBSET CaseIds
  OBVIOUS
<1>3. \A id \in CaseIds : cases'[id].state # from
  <2>1. ASSUME NEW id \in CaseIds, id \in S PROVE cases'[id].state = to
    <3>1. cases[id] \in CaseRecords /\ cases'[id] = EndCase(cases[id], to, "queue-changed")
      BY <1>1, <2>1 DEF TypeOK
    <3>2. QED
      BY <3>1 DEF EndCase, CaseRecords
  <2>2. from # to
    BY DEF Open, Ended
  <2>3. \A id \in CaseIds \ S : cases'[id].state # from
    BY <1>1
  <2>4. QED
    BY <2>1, <2>2, <2>3
<1> HIDE DEF S
<1>4. NothingOpens /\ NothingWaits
  BY <1>1, <1>2, CloseEffect
<1>5. QED
  BY <1>3, <1>4, StayWhen

\* No take that claimed its case fails and is undone in this step.
NoUndo == \A r \in Requests : ~TakeFails(r)

\* But for the undo, a request takes a case or ends it, and puts none back.
LEMMA RequestsStay ==
  ASSUME TypeOK, NoUndo,
         (\E r \in Requests : Request(r)) \/ (\E id \in CaseIds : Close(id))
  PROVE  /\ pass' = pass /\ puts' = puts
         /\ \A id \in CaseIds :
              \/ cases'[id] = cases[id]
              \/ cases[id].state \in Open /\ cases'[id].state \in {"in-progress"} \cup Ended
<1>0. \A id \in CaseIds : cases[id] \in CaseRecords
  BY DEF TypeOK
<1>1. \A id \in CaseIds : /\ TakeCase(cases[id], 0).state = "in-progress"
                         /\ \A to, why : EndCase(cases[id], to, why).state = to
  BY <1>0 DEF TakeCase, EndCase, CaseRecords
<1>2. ASSUME NEW id, NEW k, cases' = [cases EXCEPT ![id] = k],
             id \in CaseIds => cases[id].state \in Open /\ k.state \in {"in-progress"} \cup Ended
      PROVE  \A i \in CaseIds :
               \/ cases'[i] = cases[i]
               \/ cases[i].state \in Open /\ cases'[i].state \in {"in-progress"} \cup Ended
  BY <1>2 DEF TypeOK
<1>3. ASSUME NEW r \in Requests, TakeClaim(r)
      PROVE  \A id \in CaseIds :
               \/ cases'[id] = cases[id]
               \/ cases[id].state \in Open /\ cases'[id].state \in {"in-progress"} \cup Ended
  <2>1. CASE StillWaiting(reqs[r].id)
    <3>1. cases' = [cases EXCEPT ![reqs[r].id] = TakeCase(cases[reqs[r].id], 0)]
      BY <1>3, <2>1 DEF TakeClaim
    <3>2. cases[reqs[r].id].state \in Open
      BY <2>1 DEF StillWaiting, Open
    <3> QED BY <1>1, <1>2, <3>1, <3>2
  <2>2. CASE ~StillWaiting(reqs[r].id)
    BY <1>3, <2>2 DEF TakeClaim
  <2> QED BY <2>1, <2>2
<1>4. ASSUME NEW r \in Requests, NEW id \in CaseIds, RemoveClaim(r, id)
      PROVE  \A i \in CaseIds :
               \/ cases'[i] = cases[i]
               \/ cases[i].state \in Open /\ cases'[i].state \in {"in-progress"} \cup Ended
  <2>1. cases' = [cases EXCEPT ![id] = EndCase(cases[id], "cancelled", "removed")]
    BY <1>4 DEF RemoveClaim
  <2>2. cases[id].state \in Open
    BY <1>4 DEF RemoveClaim, Open
  <2> QED BY <1>1, <1>2, <2>1, <2>2 DEF Ended
<1>5. ASSUME NEW id \in CaseIds, Close(id)
      PROVE  \A i \in CaseIds :
               \/ cases'[i] = cases[i]
               \/ cases[i].state \in Open /\ cases'[i].state \in {"in-progress"} \cup Ended
  <2>1. cases' = [cases EXCEPT ![id] = EndCase(cases[id], "done", "closed")]
    BY <1>5 DEF Close
  <2>2. cases[id].state \in Open
    BY <1>5 DEF Close, Open
  <2> QED BY <1>1, <1>2, <2>1, <2>2 DEF Ended
<1>6. pass' = pass /\ puts' = puts
  BY DEF Request, NoUndo, Close, TakeLookUp, TakeClaim, TakeLock, TakeCreateRoom, TakeMoveClient,
         TakeMoveSupporter, TakeDone, RemoveFind, RemoveSendHome, TakeRead, RemoveClaim
<1>7. ASSUME NEW r \in Requests, Request(r)
      PROVE  \/ cases' = cases \/ TakeClaim(r)
             \/ \E id \in CaseIds : RemoveClaim(r, id)
  BY <1>7 DEF Request, NoUndo, TakeLookUp, TakeLock, TakeCreateRoom, TakeMoveClient,
         TakeMoveSupporter, TakeDone, RemoveFind, RemoveSendHome, TakeRead
<1> QED BY <1>3, <1>4, <1>5, <1>6, <1>7

\* Where no take is undone, no step touches the old cases but to take or to end them.
LEMMA StepStays ==
  ASSUME TypeOK, NoUndo, Next
  PROVE  OldStay
<1>1. CASE PassStart \/ Look \/ LookFails \/ PassFails \/ Restart
           \/ \E c \in Clients, p \in Channels \cup {Offline} : Walk(c, p)
  <2>1. cases' = cases
    BY <1>1 DEF PassStart, Look, LookFails, PassFails, Restart, Walk
  <2>2. QED
    BY <2>1 DEF OldStay
<1>2. CASE Reconcile
  BY <1>2, ReconcileEffect, StayWhen
<1>3. ASSUME NEW u \in pass.updates, ApplyUpdate(u) PROVE OldStay
  BY <1>3, ApplyUpdateEffect, StayWhen
<1>4. ASSUME NEW u \in pass.creates, ApplyCreate(u) PROVE OldStay
  BY <1>4, NewCaseStays
<1>5. ASSUME NEW a \in Admins, Setup(a) PROVE OldStay
  <2>1. CASE cases' = cases
    BY <2>1 DEF OldStay
  <2>2. CASE PutCloseWaiting(a) \/ PutCloseTaken(a)
    BY <2>2, EndAllStays DEF PutCloseWaiting, PutCloseTaken, Open, Ended
  <2>3. QED
    BY <1>5, <2>1, <2>2 DEF Setup, PutRead, PutWrite, PutReset
<1>6. CASE Tick
  BY <1>6, TickEffect, StayWhen
<1>7. CASE (\E r \in Requests : Request(r)) \/ (\E id \in CaseIds : Close(id))
  BY <1>7, RequestsStay DEF OldStay, Open, Ended
<1>8. QED
  BY <1>1, <1>2, <1>3, <1>4, <1>5, <1>6, <1>7 DEF Next, Job

LEMMA EndingKept ==
  ASSUME OldStay, NEW put, Ending(put, cases)
  PROVE  Ending(put, cases')
BY DEF OldStay, Ending, Open

LEMMA SetupEnds ==
  ASSUME TypeOK, OldStay, NEW a \in Admins, Setup(a), Ending(puts[a], cases)
  PROVE  /\ Ending(puts'[a], cases')
         /\ \A b \in Admins \ {a} : puts'[b] = puts[b]
<1>0. puts \in [Admins -> PutRecords] /\ puts[a] \in PutRecords
  BY DEF TypeOK
<1>1. \A b \in Admins \ {a} : puts'[b] = puts[b]
  BY DEF TypeOK, Setup, PutRead, PutWrite, PutCloseWaiting, PutCloseTaken, PutReset, PutStage, PutEnd
<1> SUFFICES Ending(puts'[a], cases')
  BY <1>1
<1>2. \A k : Ending(IdlePut, k)
  BY DEF Ending, IdlePut
<1>3. ASSUME NEW on \in BOOLEAN, NEW ch \in WaitingChannels, PutRead(a, on, ch)
      PROVE  Ending(puts'[a], cases')
  <2>1. puts'[a].open = {}
    BY <1>0, <1>3 DEF PutRead, IdlePut
  <2>2. QED
    BY <2>1 DEF Ending
<1>4. CASE PutWrite(a)
  <2>1. puts'[a] \in {IdlePut, AfterWrite(puts[a])}
    BY <1>0, <1>4 DEF PutWrite, PutEnd
  <2>2. CASE EndsCases(puts[a]) /\ puts'[a] = AfterWrite(puts[a])
    <3>1. puts'[a].open = {id \in CaseIds : OpenCase(id)} /\ puts'[a].stage = "closeWaiting"
      BY <2>2 DEF AfterWrite, IdlePut
    <3>2. cases' = cases
      BY <1>4 DEF PutWrite
    <3>3. QED
      BY <3>1, <3>2 DEF Ending, OpenCase, Open
  <2>3. CASE ~EndsCases(puts[a]) /\ puts'[a] = AfterWrite(puts[a])
    <3>1. puts'[a].open = {}
      BY <2>3 DEF AfterWrite, IdlePut
    <3>2. QED
      BY <3>1 DEF Ending
  <2>4. QED
    BY <1>2, <2>1, <2>2, <2>3
<1>5. CASE PutCloseWaiting(a)
  <2>1. puts'[a].stage = "closeTaken" /\ puts'[a].open = puts[a].open
    BY <1>0, <1>5 DEF PutCloseWaiting, PutStage, PutRecords
  <2>2. \A id \in CaseIds : cases'[id].state # "waiting"
    BY <1>5, EndAllStays DEF PutCloseWaiting, Open, Ended
  <2>3. QED
    BY <2>1, <2>2 DEF Ending, OldStay
<1>6. CASE PutCloseTaken(a)
  <2>1. /\ puts'[a].stage = "reset" /\ puts'[a].open = puts[a].open
        /\ puts[a].stage = "closeTaken"
    BY <1>0, <1>6 DEF PutCloseTaken, PutStage, PutRecords
  <2>2. \A id \in CaseIds : cases'[id].state # "in-progress"
    BY <1>6, EndAllStays DEF PutCloseTaken, Open, Ended
  <2>3. QED
    BY <2>1, <2>2 DEF Ending, OldStay, Open
<1>7. CASE PutReset(a)
  <2>1. puts'[a] = IdlePut
    BY <1>0, <1>7 DEF PutReset, PutEnd
  <2>2. QED
    BY <1>2, <2>1
<1>8. QED
  BY <1>3, <1>4, <1>5, <1>6, <1>7 DEF Setup

LEMMA EndNext == TypeOK /\ EndInv /\ [Next]_vars /\ [NoUndo]_vars => EndInv'
<1> SUFFICES ASSUME TypeOK, EndInv, [Next]_vars, [NoUndo]_vars PROVE EndInv'
  OBVIOUS
<1>1. CASE UNCHANGED vars
  BY <1>1 DEF vars, EndInv
<1>2. CASE Next /\ NoUndo
  <2>1. OldStay
    BY <1>2, StepStays
  <2>2. CASE puts' = puts
    BY <2>1, <2>2, EndingKept DEF EndInv
  <2>3. ASSUME NEW a \in Admins, Setup(a) PROVE EndInv'
    BY <2>1, <2>3, SetupEnds, EndingKept DEF EndInv
  <2>4. CASE Restart
    <3>1. \A a \in Admins : puts'[a] = IdlePut
      BY <2>4 DEF Restart
    <3>2. QED
      BY <3>1 DEF EndInv, Ending, IdlePut
  <2>5. CASE (\E r \in Requests : Request(r)) \/ (\E id \in CaseIds : Close(id))
    BY <1>2, <2>2, <2>5, RequestsStay
  <2>6. QED
    BY <1>2, <2>2, <2>3, <2>4, <2>5
       DEF Next, Job, PassStart, Look, LookFails, PassFails, Reconcile, ApplyUpdate, ApplyCreate, Walk, Tick
<1>3. QED
  BY <1>1, <1>2

\* As long as no take is undone, a change of the queue ends all cases that were open when it was
\* written, whatever the job, takes, removals and other changes make of them meanwhile
\* (closeOpenCases, PUT /config).
THEOREM OldCasesAreEnded == Spec /\ [][NoUndo]_vars => []OldCasesEnd
<1>1. Init => EndInv
  BY DEF Init, EndInv, Ending, IdlePut
<1>2. EndInv => OldCasesEnd
  BY DEF EndInv, Ending, OldCasesEnd, OpenCase
<1>3. TypeOK /\ EndInv /\ [Next]_vars /\ [NoUndo]_vars => EndInv'
  BY EndNext
<1>4. QED
  BY <1>1, <1>2, <1>3, TypeCorrect, PTL DEF Spec

------------------------------------------------------------------------------
(* Outages *)

\* What a case ends with when its client is missed.
Missed == {"left-channel", "left-server", "finished"}

\* No open case has a reason to be ended yet.
NoReason == \A id \in CaseIds : OpenCase(id) => cases[id].reason = "none"

\* The watch began after the last outage, and what is planned was planned that long after it.
Calm ==
  /\ calm >= 0 /\ live <= calm
  /\ pass.stage # "idle" => pass.age <= calm /\ pass.watch <= calm
  /\ \A u \in pass.updates : u.reason # "none" => calm = Sat \/ calm - pass.age >= Grace

\* A step that does not end the case for absence.
Mild(id) ==
  \/ cases'[id].reason = cases[id].reason /\ (cases'[id].state \in Open => cases[id].state \in Open)
  \/ cases'[id].reason = "none"
  \/ cases'[id].state \in Ended /\ cases'[id].reason \notin Missed

LEMMA RecordReasons ==
  ASSUME NEW k \in CaseRecords
  PROVE  /\ \A age : TakeCase(k, age).reason = k.reason
         /\ Undone(k).reason = k.reason /\ (Undone(k).state \in Open => k.state \in Open)
         /\ \A s, why : EndCase(k, s, why).state = s /\ EndCase(k, s, why).reason = why
         /\ \A spot : Seen(k, spot).reason = k.reason /\ Seen(k, spot).state = k.state
BY DEF CaseRecords, TakeCase, Undone, EndCase, Seen, Open

LEMMA AgeNumbers ==
  /\ NoTime = -1 /\ Unwatched = -1 /\ Sat \in Nat /\ MaxLag <= Sat /\ MaxLag \in Nat /\ Grace \in Nat
  /\ \A age \in Ages : age \in Int /\ -1 <= age /\ age <= Sat
  /\ \A age \in Int : -1 <= age /\ age <= Sat => age \in Ages
  /\ Older(-1) = -1
  /\ \A age \in 0 .. Sat : Older(age) = (IF age = Sat THEN Sat ELSE age + 1)
BY QueueAssumption DEF NoTime, Unwatched, Sat, Ages, Older

LEMMA SameCasesMild == ASSUME cases' = cases PROVE \A id \in CaseIds : Mild(id)
BY DEF Mild

LEMMA MildKeeps ==
  ASSUME NoReason, \A id \in CaseIds : Mild(id)
  PROVE  NoReason' /\ \A id \in CaseIds : OpenCase(id) => cases'[id].reason \notin Missed
BY DEF NoReason, Mild, OpenCase, Open, Ended, Missed

\* Only an update of the job ends a case for absence.
LEMMA StepsAreMild ==
  ASSUME TypeOK, Next, ~\E u \in pass.updates : ApplyUpdate(u)
  PROVE  \A id \in CaseIds : Mild(id)
<1>0. \A id \in CaseIds : cases[id] \in CaseRecords
  BY DEF TypeOK
<1>1. CASE PassStart \/ Look \/ LookFails \/ PassFails \/ Restart
           \/ \E c \in Clients, p \in Channels \cup {Offline} : Walk(c, p)
  <2>1. cases' = cases
    BY <1>1 DEF PassStart, Look, LookFails, PassFails, Restart, Walk
  <2>2. QED
    BY <2>1, SameCasesMild
<1>2. CASE Reconcile
  <2>1. \A id \in CaseIds : cases'[id] = (IF OpenCase(id) THEN Seen(cases[id], pass.spots[cases[id].uid])
                                          ELSE cases[id])
    BY <1>2 DEF Reconcile
  <2>2. QED
    BY <1>0, <2>1, RecordReasons DEF Mild
<1>3. ASSUME NEW u \in pass.creates, ApplyCreate(u) PROVE \A id \in CaseIds : Mild(id)
  <2>1. CASE cases' = cases
    BY <2>1, SameCasesMild
  <2>2. ASSUME NEW i \in CaseIds, cases' = [cases EXCEPT ![i] = NewCase(u, pass.age)]
        PROVE  \A id \in CaseIds : Mild(id)
    <3>1. NewCase(u, pass.age).reason = "none"
      BY DEF NewCase, NoCase
    <3>2. \A id \in CaseIds : cases'[id] = cases[id] \/ cases'[id].reason = "none"
      BY <2>2, <3>1 DEF TypeOK
    <3>3. QED
      BY <3>2 DEF Mild
  <2>3. QED
    BY <1>3, <2>1, <2>2, ApplyCreateEffect
<1>4. ASSUME NEW r \in Requests, Request(r) PROVE \A id \in CaseIds : Mild(id)
  <2>1. CASE cases' = cases
    BY <2>1, SameCasesMild
  <2>2. CASE TakeClaim(r) /\ cases' # cases
    <3>1. /\ StillWaiting(reqs[r].id)
          /\ cases' = [cases EXCEPT ![reqs[r].id] = TakeCase(@, 0)]
      BY <2>2 DEF TakeClaim
    <3>2. \A id \in CaseIds : cases'[id] = cases[id] \/
                              (cases'[id] = TakeCase(cases[id], 0) /\ cases[id].state = "waiting")
      BY <3>1 DEF TypeOK, StillWaiting
    <3>3. QED
      BY <1>0, <3>2, RecordReasons DEF Mild, Open
  <2>3. CASE TakeFails(r)
    <3>1. \A id \in CaseIds : cases'[id] = cases[id] \/ cases'[id] = Undone(cases[id])
      BY <2>3 DEF TakeFails, TypeOK
    <3>2. QED
      BY <1>0, <3>1, RecordReasons DEF Mild
  <2>4. ASSUME NEW i \in CaseIds, RemoveClaim(r, i) PROVE \A id \in CaseIds : Mild(id)
    <3>1. \A id \in CaseIds : cases'[id] = cases[id] \/ cases'[id] = EndCase(cases[id], "cancelled", "removed")
      BY <2>4 DEF RemoveClaim, TypeOK
    <3>2. QED
      BY <1>0, <3>1, RecordReasons DEF Mild, Ended, Missed
  <2>5. QED
    BY <1>4, <2>1, <2>2, <2>3, <2>4
       DEF Request, TakeLookUp, TakeLock, TakeCreateRoom, TakeMoveClient, TakeMoveSupporter, TakeDone,
           RemoveFind, RemoveSendHome, TakeRead
<1>5. ASSUME NEW i \in CaseIds, Close(i) PROVE \A id \in CaseIds : Mild(id)
  <2>1. \A id \in CaseIds : cases'[id] = cases[id] \/ cases'[id] = EndCase(cases[id], "done", "closed")
    BY <1>5 DEF Close, TypeOK
  <2>2. QED
    BY <1>0, <2>1, RecordReasons DEF Mild, Ended, Missed
<1>6. ASSUME NEW a \in Admins, Setup(a) PROVE \A id \in CaseIds : Mild(id)
  <2>1. CASE cases' = cases
    BY <2>1, SameCasesMild
  <2>2. CASE PutCloseWaiting(a) \/ PutCloseTaken(a)
    <3>1. \A id \in CaseIds : \/ cases'[id] = cases[id]
                              \/ \E to \in Ended : cases'[id] = EndCase(cases[id], to, "queue-changed")
      BY <2>2 DEF PutCloseWaiting, PutCloseTaken, EndAll, Ended
    <3>2. QED
      BY <1>0, <3>1, RecordReasons DEF Mild, Missed
  <2>3. QED
    BY <1>6, <2>1, <2>2 DEF Setup, PutRead, PutWrite, PutReset
<1>7. CASE Tick
  <2>1. \A id \in CaseIds : cases'[id] = [cases[id] EXCEPT !.absentFor = Older(@), !.seenFor = Older(@),
                                                           !.helpFor = Older(@)]
    BY <1>7 DEF Tick
  <2>2. \A id \in CaseIds : cases'[id].state = cases[id].state /\ cases'[id].reason = cases[id].reason
    BY <1>0, <2>1 DEF CaseRecords
  <2>3. QED
    BY <2>2 DEF Mild
<1>8. QED
  BY <1>1, <1>2, <1>3, <1>4, <1>5, <1>6, <1>7 DEF Next, Job

\* What is planned with a reason: the grace period was over in this look.
LEMMA PlannedEnd ==
  ASSUME NEW id \in CaseIds, NEW u \in UpdateOf(id)
  PROVE  /\ u.id = id /\ u.from = cases[id].state
         /\ u.kind = "absent" => ~InPlace(cases[id], pass.spots[cases[id].uid])
         /\ u.reason # "none" => /\ GraceOver(cases[id]) /\ cases[id].absentFor # NoTime
                                 /\ ~InPlace(cases[id], pass.spots[cases[id].uid])
BY DEF UpdateOf

\* The look's time is the pass's, whether it goes on or rests.
LEMMA RestIs ==
  ASSUME NEW p
  PROVE  Rest(p) = p \/ (Rest(p) = IdlePass /\ IdlePass.stage = "idle" /\ IdlePass.updates = {})
BY DEF Rest, IdlePass

LEMMA SameCalm ==
  ASSUME Calm, live' = live \/ live' = Unwatched, pass' = pass, calm' = calm, TypeOK
  PROVE  Calm'
BY AgeNumbers DEF Calm, TypeOK

LEMMA IdleCalm ==
  ASSUME calm' >= 0, live' <= calm', pass'.stage = "idle", pass'.updates = {}
  PROVE  Calm'
BY DEF Calm

LEMMA CalmJob ==
  ASSUME TypeOK, Calm, Job
  PROVE  Calm'
<1>0. /\ calm \in Ages /\ live \in Ages /\ pass \in Passes /\ calm \in Int /\ live \in Int
      /\ pass.age \in 0 .. MaxLag /\ pass.watch \in Ages /\ pass.watch \in Int /\ pass.age \in Int
  BY AgeNumbers DEF TypeOK, Passes
<1>00. IdlePass.stage = "idle" /\ IdlePass.updates = {} /\ IdlePass.age = 0 /\ IdlePass.watch = -1
  BY AgeNumbers DEF IdlePass
<1>1. CASE PassStart
  <2>1. pass'.age = 0 /\ pass'.watch = -1 /\ pass'.updates = {} /\ live' = live /\ calm' = calm
    BY <1>1, <1>00 DEF PassStart, IdlePass
  <2>2. QED
    BY <1>0, <2>1 DEF Calm
<1>2. CASE Look
  <2>1. /\ pass.stage = "list" /\ calm' = calm /\ live' = pass'.watch
        /\ pass'.age = pass.age /\ pass'.updates = pass.updates
        /\ pass'.watch = pass.age \/ pass'.watch = live
    BY <1>0, <1>2 DEF Look, Passes
  <2>2. QED
    BY <1>0, <2>1 DEF Calm
<1>3. CASE LookFails
  BY <1>3, <1>00, AgeNumbers, IdleCalm DEF LookFails
<1>4. CASE PassFails
  BY <1>4, <1>00, IdleCalm DEF PassFails, Calm
<1>5. CASE Reconcile
  <2> DEFINE U == UNION {UpdateOf(id) : id \in {i \in CaseIds : OpenCase(i)}}
             p == [pass EXCEPT !.stage = "apply", !.updates = U, !.creates = ToCreate]
  <2>1. pass.stage = "cases" /\ pass' = Rest(p) /\ live' = live /\ calm' = calm
    BY <1>5 DEF Reconcile
  <2>2. p.age = pass.age /\ p.watch = pass.watch /\ p.updates = U
    BY <1>0 DEF Passes
  <2>3. ASSUME NEW u \in U, u.reason # "none" PROVE calm - pass.age >= Grace
    <3>1. PICK id \in CaseIds : u \in UpdateOf(id)
      OBVIOUS
    <3>2. GraceOver(cases[id]) /\ cases[id].absentFor \in Ages
      BY <2>3, <3>1, PlannedEnd DEF TypeOK, CaseRecords
    <3>3. pass.watch - pass.age >= Grace
      BY <1>0, <3>2, AgeNumbers DEF GraceOver
    <3>4. QED
      BY <1>0, <2>1, <3>3, AgeNumbers DEF Calm
  <2> HIDE DEF p, U
  <2>4. CASE pass' = p
    BY <1>0, <2>1, <2>2, <2>3, <2>4 DEF Calm
  <2>5. CASE pass' = IdlePass
    BY <1>00, <2>1, <2>5, IdleCalm DEF Calm
  <2>6. QED
    BY <2>1, <2>4, <2>5, RestIs
<1>6. ASSUME NEW p, pass' = Rest(p), p.age = pass.age, p.watch = pass.watch, pass.stage = "apply",
             p.updates \subseteq pass.updates, live' = live, calm' = calm
      PROVE  Calm'
  <2>1. CASE pass' = p
    BY <1>6, <2>1 DEF Calm
  <2>2. CASE pass' = IdlePass
    BY <1>00, <1>6, <2>2, IdleCalm DEF Calm
  <2>3. QED
    BY <1>6, <2>1, <2>2, RestIs
<1>7. ASSUME NEW u \in pass.updates, ApplyUpdate(u) PROVE Calm'
  <2> DEFINE p == [pass EXCEPT !.updates = @ \ {u}]
  <2>1. /\ pass' = Rest(p) /\ pass.stage = "apply" /\ live' = live /\ calm' = calm
        /\ p.age = pass.age /\ p.watch = pass.watch /\ p.updates \subseteq pass.updates
    BY <1>0, <1>7 DEF ApplyUpdate, Passes
  <2> HIDE DEF p
  <2>2. QED
    BY <1>6, <2>1
<1>8. ASSUME NEW u \in pass.creates, ApplyCreate(u) PROVE Calm'
  <2> DEFINE p == [pass EXCEPT !.creates = @ \ {u}]
  <2>1. /\ pass' = Rest(p) /\ pass.stage = "apply" /\ live' = live /\ calm' = calm
        /\ p.age = pass.age /\ p.watch = pass.watch /\ p.updates \subseteq pass.updates
    BY <1>0, <1>8 DEF ApplyCreate, Passes
  <2> HIDE DEF p
  <2>2. QED
    BY <1>6, <2>1
<1>9. QED
  BY <1>1, <1>2, <1>3, <1>4, <1>5, <1>7, <1>8 DEF Job

LEMMA CalmTick ==
  ASSUME TypeOK, Calm, Tick
  PROVE  Calm'
<1>0. /\ calm \in 0 .. Sat /\ live \in Ages /\ pass \in Passes
      /\ pass.age \in 0 .. MaxLag /\ pass.watch \in Ages
  BY AgeNumbers DEF TypeOK, Passes, Calm, Ages
<1>1. calm' = Older(calm) /\ live' = Older(live)
  BY DEF Tick
<1>2. calm' \in 0 .. Sat /\ calm' = (IF calm = Sat THEN Sat ELSE calm + 1)
  BY <1>0, <1>1, AgeNumbers
<1>3. \A age \in Ages : age <= calm => Older(age) <= calm'
  <2>1. TAKE age \in Ages
  <2>2. CASE age = -1
    BY <1>2, <2>2, AgeNumbers
  <2>3. CASE age # -1
    BY <1>0, <1>2, <2>3, AgeNumbers
  <2>4. QED
    BY <2>2, <2>3
<1>4. live' <= calm' /\ calm' >= 0
  BY <1>0, <1>1, <1>2, <1>3 DEF Calm
<1>5. CASE pass.stage = "idle"
  <2>1. pass' = pass /\ pass.updates = pass'.updates
    BY <1>5 DEF Tick
  <2>2. ASSUME NEW u \in pass.updates, u.reason # "none" PROVE calm' = Sat \/ calm' - pass.age >= Grace
    BY <1>0, <1>2, <2>2, AgeNumbers DEF Calm
  <2>3. QED
    BY <1>4, <1>5, <2>1, <2>2 DEF Calm
<1>6. CASE pass.stage # "idle"
  <2>1. /\ pass'.age = pass.age + 1 /\ pass'.watch = Older(pass.watch) /\ pass.age < MaxLag
        /\ pass'.updates = pass.updates
    BY <1>0, <1>6 DEF Tick, Passes
  <2>2. pass'.age <= calm' /\ pass'.watch <= calm'
    BY <1>0, <1>2, <1>3, <1>6, <2>1, AgeNumbers DEF Calm
  <2>3. ASSUME NEW u \in pass.updates, u.reason # "none" PROVE calm' = Sat \/ calm' - pass'.age >= Grace
    BY <1>0, <1>2, <2>1, <2>3, AgeNumbers DEF Calm
  <2>4. QED
    BY <1>4, <2>1, <2>2, <2>3 DEF Calm
<1>7. QED
  BY <1>5, <1>6

LEMMA CalmNext == TypeOK /\ Calm /\ [Next]_vars => Calm'
<1> SUFFICES ASSUME TypeOK, Calm, [Next]_vars PROVE Calm'
  OBVIOUS
<1>1. CASE UNCHANGED vars
  BY <1>1 DEF vars, Calm
<1>2. ASSUME NEW r \in Requests, Request(r) PROVE Calm'
  <2>1. UNCHANGED <<live, pass, calm>>
    BY <1>2 DEF Request, TakeLookUp, TakeClaim, TakeLock, TakeCreateRoom, TakeMoveClient,
                TakeMoveSupporter, TakeDone, TakeFails, RemoveFind, RemoveSendHome, TakeRead, RemoveClaim
  <2>2. QED
    BY <2>1, SameCalm
<1>3. ASSUME NEW a \in Admins, Setup(a) PROVE Calm'
  <2>1. pass' = pass /\ calm' = calm /\ (live' = live \/ live' = Unwatched)
    BY <1>3 DEF Setup, PutRead, PutWrite, PutCloseWaiting, PutCloseTaken, PutReset
  <2>2. QED
    BY <2>1, SameCalm
<1>4. CASE (\E id \in CaseIds : Close(id)) \/ \E c \in Clients, p \in Channels \cup {Offline} : Walk(c, p)
  <2>1. UNCHANGED <<live, pass, calm>>
    BY <1>4 DEF Close, Walk
  <2>2. QED
    BY <2>1, SameCalm
<1>5. CASE Restart
  BY <1>5, AgeNumbers, IdleCalm DEF Restart, IdlePass
<1>6. QED
  BY <1>1, <1>2, <1>3, <1>4, <1>5, CalmJob, CalmTick DEF Next

\* An update that lands: it ends the case with its reason, or leaves the case without one.
LEMMA UpdateReasons ==
  ASSUME TypeOK, NoReason, NEW u \in pass.updates, ApplyUpdate(u)
  PROVE  /\ NoReason'
         /\ \A id \in CaseIds : EndsByAbsence(id) => u.id = id /\ u.reason # "none" /\ StillAsRead(u)
<1>1. u \in Updates /\ u.id \in CaseIds /\ \A id \in CaseIds : cases[id] \in CaseRecords
  BY DEF TypeOK, Passes, Updates
<1>2. CASE ~StillAsRead(u)
  <2>1. cases' = cases
    BY <1>2 DEF ApplyUpdate
  <2>2. QED
    BY <2>1 DEF NoReason, EndsByAbsence, OpenCase
<1>3. CASE StillAsRead(u)
  <2> DEFINE k == cases[u.id]
  <2>1. /\ cases' = [cases EXCEPT ![u.id] = Updated(k, u)]
        /\ k \in CaseRecords /\ k.state \in Open /\ k.reason = "none"
    BY <1>1, <1>3 DEF ApplyUpdate, StillAsRead, NoReason, OpenCase, Updates
  <2>2. \/ Updated(k, u).reason = "none"
        \/ Updated(k, u).state \in Ended /\ Updated(k, u).reason = u.reason
    <3>1. CASE u.kind = "present"
      <4>1. [k EXCEPT !.absentFor = NoTime] \in CaseRecords /\ [k EXCEPT !.absentFor = NoTime].reason = "none"
        BY <2>1, AgeTypes DEF CaseRecords
      <4>2. QED
        BY <3>1, <4>1, RecordReasons DEF Updated
    <3>2. CASE u.kind = "absent"
      BY <2>1, <3>2 DEF Updated, CaseRecords
    <3>3. CASE u.kind = "taken"
      BY <2>1, <3>3, RecordReasons DEF Updated
    <3>4. CASE u.kind \in Ended
      BY <2>1, <3>4, RecordReasons DEF Updated, Ended
    <3>5. QED
      BY <1>1, <3>1, <3>2, <3>3, <3>4 DEF Updates
  <2> HIDE DEF k
  <2>3. cases'[u.id] = Updated(k, u) /\ \A id \in CaseIds : id # u.id => cases'[id] = cases[id]
    BY <1>1, <2>1 DEF TypeOK
  <2>4. NoReason'
    BY <2>2, <2>3 DEF NoReason, OpenCase, Open, Ended
  <2>5. ASSUME NEW id \in CaseIds, EndsByAbsence(id) PROVE u.id = id /\ u.reason # "none"
    <3>1. OpenCase(id) /\ cases[id].reason = "none" /\ cases'[id].reason # "none"
      BY <2>5 DEF EndsByAbsence, NoReason
    <3>2. u.id = id
      BY <2>3, <3>1
    <3>3. QED
      BY <2>2, <2>3, <3>1, <3>2
  <2>6. QED
    BY <1>3, <2>4, <2>5
<1>4. QED
  BY <1>2, <1>3

LEMMA ReasonsNext ==
  ASSUME TypeOK, NoReason, [Next]_vars
  PROVE  /\ NoReason'
         /\ \A id \in CaseIds : EndsByAbsence(id) =>
              \E u \in pass.updates : ApplyUpdate(u) /\ u.id = id /\ u.reason # "none" /\ StillAsRead(u)
<1>1. CASE \E u \in pass.updates : ApplyUpdate(u)
  BY <1>1, UpdateReasons
<1>2. CASE (UNCHANGED vars) \/ (Next /\ ~\E u \in pass.updates : ApplyUpdate(u))
  <2>1. \A id \in CaseIds : Mild(id)
    BY <1>2, SameCasesMild, StepsAreMild DEF vars
  <2>2. \A id \in CaseIds : ~EndsByAbsence(id)
    BY <2>1, MildKeeps DEF EndsByAbsence, Missed
  <2>3. QED
    BY <2>1, <2>2, MildKeeps
<1>3. QED
  BY <1>1, <1>2

LEMMA CalmInit == Init => NoReason /\ Calm
<1> SUFFICES ASSUME Init PROVE NoReason /\ Calm
  OBVIOUS
<1>1. NoReason
  BY DEF Init, NoReason, NoCase, OpenCase, Open
<1>2. Calm
  BY AgeNumbers DEF Init, Calm, IdlePass
<1>3. QED
  BY <1>1, <1>2

\* The job ends a case for absence only when at least the grace period lies between its look
\* and the last failed look or restart, whatever requests and changes of the setup come between.
THEOREM NobodyEndsByOutage == Spec => OutageEndsNobody
<1>1. TypeOK /\ NoReason /\ Calm /\ [Next]_vars => NoReason' /\ Calm'
  BY ReasonsNext, CalmNext
<1>2. TypeOK /\ NoReason /\ Calm /\ [Next]_vars =>
        [\A id \in CaseIds : EndsByAbsence(id) => calm = Sat \/ calm - pass.age >= Grace]_vars
  BY ReasonsNext DEF Calm
<1>3. QED
  BY <1>1, <1>2, CalmInit, TypeCorrect, PTL DEF Spec, OutageEndsNobody

------------------------------------------------------------------------------
(* The grace period *)

\* How long no look has found the client where the case wants them.
Out(k) == IF k.state = "waiting" THEN k.seenFor ELSE k.helpFor

Fits(k) == Out(k) >= 0 /\ k.absentFor <= Out(k)

\* The states of the cases a grace period is shown for: all that are open, where there are no
\* requests, and waiting, where no take is undone.
Watched == {Open, {"waiting"}}

\* An absence on record is not older than the last look that found the client, and neither is
\* a pass that has yet to read the cases.
OutCounts(S) ==
  \A id \in CaseIds : cases[id].state \in S =>
    Fits(cases[id]) /\ (pass.stage \in {"list", "cases"} => pass.age <= Out(cases[id]))

\* What is planned for a case stays justified as long as it would land.
Justified(u, k, age) ==
  k.state = u.from => /\ u.kind = "absent" => age <= Out(k)
                      /\ u.reason # "none" => Out(k) = Sat \/ Out(k) - age >= Grace

PlanCounts(S) ==
  /\ \A u \in pass.updates : u.from \in S => Justified(u, cases[u.id], pass.age)
  /\ \A u, v \in pass.updates : u.id = v.id => u = v

LEMMA RecordNumbers ==
  ASSUME NEW k \in CaseRecords
  PROVE  k.absentFor \in Int /\ k.seenFor \in Int /\ k.helpFor \in Int /\ Out(k) \in Ages /\ Out(k) \in Int
BY AgeNumbers DEF CaseRecords, Out

LEMMA OneUpdate == ASSUME NEW id, NEW u \in UpdateOf(id), NEW v \in UpdateOf(id) PROVE u = v
BY DEF UpdateOf

\* What a look does to the record of a case.
LEMMA SeenFits ==
  ASSUME NEW k \in CaseRecords, NEW spot, k.state \in Open, Fits(k),
         pass.age \in Nat, pass.age <= Out(k)
  PROVE  /\ Fits(Seen(k, spot))
         /\ ~InPlace(k, spot) => Out(Seen(k, spot)) = Out(k)
<1> DEFINE n == Seen(k, spot)
<1>1. n.state = k.state /\ n.absentFor = k.absentFor
  BY DEF Seen, CaseRecords
<1>2. n.seenFor = (IF InWaitingChannel(spot) /\ (k.absentFor = NoTime \/ k.state # "waiting")
                   THEN pass.age ELSE k.seenFor)
  BY DEF Seen, CaseRecords
<1>3. n.helpFor = (IF k.state = "in-progress" /\ WithSupporter(spot) /\ k.absentFor = NoTime
                   THEN pass.age ELSE k.helpFor)
  BY DEF Seen, CaseRecords
<1> HIDE DEF n
<1>4. Fits(n)
  BY <1>1, <1>2, <1>3, RecordNumbers, AgeNumbers DEF Fits, Out
<1>5. ASSUME ~InPlace(k, spot) PROVE Out(n) = Out(k)
  BY <1>1, <1>2, <1>3, <1>5 DEF Out, InPlace, Open
<1>6. QED
  BY <1>4, <1>5 DEF n

\* An update lets a case be in the state it is in, takes it, or ends it.
LEMMA UpdatedState ==
  ASSUME NEW k \in CaseRecords, NEW u \in Updates
  PROVE  Updated(k, u).state \in {k.state, "in-progress"} \cup Ended
<1>1. CASE u.kind = "present"
  <2> DEFINE m == [k EXCEPT !.absentFor = NoTime]
  <2>1. m \in CaseRecords /\ m.state = k.state
    BY AgeTypes DEF CaseRecords
  <2>2. Updated(k, u) = Seen(m, pass.spots[k.uid])
    BY <1>1 DEF Updated
  <2> HIDE DEF m
  <2> QED BY <2>1, <2>2 DEF Seen, CaseRecords
<1>2. CASE u.kind = "absent"
  BY <1>2 DEF Updated, CaseRecords
<1>3. CASE u.kind = "taken"
  BY <1>3 DEF Updated, TakeCase, CaseRecords
<1>4. CASE u.kind \in Ended
  BY <1>4, RecordReasons DEF Updated, Ended
<1> QED BY <1>1, <1>2, <1>3, <1>4 DEF Updates

\* What an update of the job leaves of an open case fits again.
LEMMA UpdatedFits ==
  ASSUME NEW k \in CaseRecords, NEW u \in Updates, k.state \in Open, k.state = u.from, Fits(k),
         pass.age \in Nat, Justified(u, k, pass.age), Updated(k, u).state \in Open
  PROVE  Fits(Updated(k, u))
<1>1. CASE u.kind = "present"
  <2> DEFINE m == [k EXCEPT !.absentFor = NoTime]
  <2>1. m \in CaseRecords /\ m.state = k.state /\ m.absentFor = NoTime /\ Out(m) = Out(k)
    BY AgeTypes DEF CaseRecords, Out
  <2>2. Updated(k, u) = Seen(m, pass.spots[k.uid])
    BY <1>1 DEF Updated
  <2> HIDE DEF m
  <2> DEFINE n == Seen(m, pass.spots[k.uid])
  <2>3. /\ n.state = k.state /\ n.absentFor = NoTime
        /\ n.seenFor \in {m.seenFor, pass.age} /\ n.helpFor \in {m.helpFor, pass.age}
    BY <2>1 DEF Seen, CaseRecords
  <2> HIDE DEF n
  <2>4. Out(n) \in {Out(m), pass.age}
    BY <2>1, <2>3 DEF Out
  <2>5. Fits(n)
    BY <2>1, <2>3, <2>4, RecordNumbers, AgeNumbers DEF Fits
  <2>6. QED
    BY <2>2, <2>5 DEF n
<1>2. CASE u.kind = "absent"
  <2>1. /\ Updated(k, u) = [k EXCEPT !.absentFor = pass.age]
        /\ pass.age <= Out(k)
    BY <1>2 DEF Updated, Justified
  <2>2. Updated(k, u).absentFor = pass.age /\ Out(Updated(k, u)) = Out(k)
    BY <2>1 DEF CaseRecords, Out
  <2>3. QED
    BY <2>1, <2>2 DEF Fits
<1>3. CASE u.kind = "taken"
  <2>1. Updated(k, u) = TakeCase(k, pass.age)
    BY <1>3 DEF Updated
  <2>2. /\ Updated(k, u).state = "in-progress" /\ Updated(k, u).absentFor = -1
        /\ Updated(k, u).helpFor = pass.age
    BY <2>1, AgeNumbers DEF TakeCase, CaseRecords
  <2>3. QED
    BY <2>2 DEF Fits, Out
<1>4. CASE u.kind \in Ended
  <2>1. Updated(k, u).state = u.kind
    BY <1>4, RecordReasons DEF Updated, Ended
  <2>2. QED
    BY <1>4, <2>1 DEF Open, Ended
<1>5. QED
  BY <1>1, <1>2, <1>3, <1>4 DEF Updates

\* A step that leaves the pass alone, or ends it, and the open cases as they are.
LEMMA GraceWhenKept ==
  ASSUME NEW S \in Watched, OutCounts(S), PlanCounts(S), TypeOK,
         \A id \in CaseIds : cases'[id].state \in S => cases'[id] = cases[id],
         \/ pass' = pass
         \/ pass'.updates = {} /\ (pass'.stage \in {"list", "cases"} => pass'.age = 0)
  PROVE  OutCounts(S)' /\ PlanCounts(S)'
<1>0. \A id \in CaseIds : cases[id] \in CaseRecords
  BY DEF TypeOK
<1>1. \A id \in CaseIds : cases'[id].state \in S =>
        cases[id].state \in S /\ cases'[id] = cases[id] /\ Fits(cases[id])
  BY DEF OutCounts
<1>2. \A id \in CaseIds : cases[id].state \in S => 0 <= Out(cases[id])
  BY <1>0, RecordNumbers DEF OutCounts, Fits
<1>3. CASE pass' = pass
  <2>1. OutCounts(S)'
    BY <1>1, <1>3 DEF OutCounts
  <2>2. \A u \in pass.updates : u.id \in CaseIds /\ u.from \in Open
    BY DEF TypeOK, Passes, Updates
  <2>3. PlanCounts(S)'
    BY <1>1, <1>3, <2>2 DEF PlanCounts, Justified
  <2>4. QED
    BY <2>1, <2>3
<1>4. CASE pass'.updates = {} /\ (pass'.stage \in {"list", "cases"} => pass'.age = 0)
  BY <1>1, <1>2, <1>4 DEF OutCounts, PlanCounts
<1>5. QED
  BY <1>3, <1>4

LEMMA GraceTick ==
  ASSUME NEW S \in Watched, TypeOK, OutCounts(S), PlanCounts(S), Tick
  PROVE  OutCounts(S)' /\ PlanCounts(S)'
<1>0. /\ pass \in Passes /\ pass.age \in 0 .. MaxLag /\ pass.age \in Int
      /\ \A id \in CaseIds : cases[id] \in CaseRecords
      /\ \A u \in pass.updates : u.id \in CaseIds /\ u.from \in Open
  BY DEF TypeOK, Passes, Updates
<1>1. \A id \in CaseIds : cases'[id] = [cases[id] EXCEPT !.absentFor = Older(@), !.seenFor = Older(@),
                                                         !.helpFor = Older(@)]
  BY DEF Tick
<1>2. \A id \in CaseIds : /\ cases'[id].state = cases[id].state
                          /\ cases'[id].absentFor = Older(cases[id].absentFor)
                          /\ Out(cases'[id]) = Older(Out(cases[id]))
  BY <1>0, <1>1 DEF CaseRecords, Out
<1>3. /\ pass'.stage = pass.stage /\ pass'.updates = pass.updates
      /\ pass'.age = pass.age \/ (pass'.age = pass.age + 1 /\ pass.age < MaxLag)
  BY <1>0 DEF Tick, Passes
<1>4. ASSUME NEW id \in CaseIds, Out(cases[id]) >= 0
      PROVE  /\ Out(cases'[id]) = (IF Out(cases[id]) = Sat THEN Sat ELSE Out(cases[id]) + 1)
             /\ Out(cases[id]) \in 0 .. Sat
  <2>1. Out(cases[id]) \in 0 .. Sat
    BY <1>0, <1>4, RecordNumbers, AgeNumbers
  <2>2. QED
    BY <1>2, <2>1, AgeNumbers
<1>5. OutCounts(S)'
  <2>1. ASSUME NEW id \in CaseIds, cases'[id].state \in S
        PROVE  /\ Fits(cases'[id])
               /\ pass'.stage \in {"list", "cases"} => pass'.age <= Out(cases'[id])
    <3>1. /\ Out(cases[id]) >= 0 /\ cases[id].absentFor <= Out(cases[id])
          /\ pass.stage \in {"list", "cases"} => pass.age <= Out(cases[id])
      BY <1>2, <2>1 DEF OutCounts, Fits
    <3>2. pass'.stage \in {"list", "cases"} => pass'.age <= Out(cases'[id])
      BY <1>0, <1>3, <1>4, <3>1, AgeNumbers
    <3>3. cases[id].absentFor \in Int /\ -1 <= cases[id].absentFor
      BY <1>0, RecordNumbers, AgeNumbers DEF CaseRecords
    <3>4. cases'[id].absentFor <= Out(cases'[id])
      <4>1. CASE cases[id].absentFor = -1
        BY <1>2, <1>4, <3>1, <4>1, AgeNumbers
      <4>2. CASE cases[id].absentFor # -1
        <5>1. cases[id].absentFor \in 0 .. Sat
          BY <1>4, <3>1, <3>3, <4>2, AgeNumbers
        <5>2. QED
          BY <1>2, <1>4, <3>1, <5>1, AgeNumbers
      <4>3. QED
        BY <4>1, <4>2
    <3>5. Out(cases'[id]) >= 0
      BY <1>4, <3>1, AgeNumbers
    <3>6. QED
      BY <3>2, <3>4, <3>5 DEF Fits
  <2>2. QED
    BY <2>1 DEF OutCounts
<1>6. PlanCounts(S)'
  <2>1. ASSUME NEW u \in pass.updates, u.from \in S PROVE Justified(u, cases'[u.id], pass'.age)
    <3>1. SUFFICES ASSUME cases'[u.id].state = u.from
                   PROVE  /\ u.kind = "absent" => pass'.age <= Out(cases'[u.id])
                          /\ u.reason # "none" => \/ Out(cases'[u.id]) = Sat
                                                  \/ Out(cases'[u.id]) - pass'.age >= Grace
      BY DEF Justified
    <3>2. u.id \in CaseIds /\ cases[u.id].state = u.from /\ u.from \in S
      BY <1>0, <1>2, <2>1, <3>1
    <3>3. /\ Out(cases[u.id]) >= 0
          /\ u.kind = "absent" => pass.age <= Out(cases[u.id])
          /\ u.reason # "none" => Out(cases[u.id]) = Sat \/ Out(cases[u.id]) - pass.age >= Grace
      BY <3>2 DEF OutCounts, PlanCounts, Justified, Fits
    <3>4. QED
      BY <1>0, <1>3, <1>4, <3>2, <3>3, AgeNumbers
  <2>2. QED
    BY <1>3, <2>1 DEF PlanCounts
<1>7. QED
  BY <1>5, <1>6

\* What a look plans is justified by what is on record.
LEMMA GraceReconcile ==
  ASSUME NEW S \in Watched, TypeOK, OutCounts(S), Reconcile
  PROVE  OutCounts(S)' /\ PlanCounts(S)'
<1> DEFINE U == UNION {UpdateOf(id) : id \in {i \in CaseIds : OpenCase(i)}}
           p == [pass EXCEPT !.stage = "apply", !.updates = U, !.creates = ToCreate]
<1>0. /\ pass \in Passes /\ pass.age \in 0 .. MaxLag /\ pass.age \in Int /\ pass.age \in Nat
      /\ pass.watch \in Ages /\ pass.watch \in Int
      /\ \A id \in CaseIds : cases[id] \in CaseRecords
  BY AgeNumbers DEF TypeOK, Passes
<1>1. /\ pass.stage = "cases" /\ pass' = Rest(p)
      /\ \A id \in CaseIds : cases'[id] = (IF OpenCase(id) THEN Seen(cases[id], pass.spots[cases[id].uid])
                                           ELSE cases[id])
  BY DEF Reconcile
<1>2. p.age = pass.age /\ p.stage = "apply" /\ p.updates = U
  BY <1>0 DEF Passes
<1>3. ASSUME NEW id \in CaseIds, cases[id].state \in S
      PROVE  /\ Fits(cases'[id]) /\ pass.age <= Out(cases[id])
             /\ ~InPlace(cases[id], pass.spots[cases[id].uid]) => Out(cases'[id]) = Out(cases[id])
  BY <1>0, <1>1, <1>3, SeenFits DEF OutCounts, OpenCase, Watched, Open
<1>4. \A u \in U : \E id \in CaseIds : OpenCase(id) /\ u \in UpdateOf(id)
  OBVIOUS
<1> HIDE DEF p, U
<1>5. \A id \in CaseIds : cases'[id].state = cases[id].state
  BY <1>0, <1>1 DEF Seen, CaseRecords
<1>6. ASSUME NEW u \in U, u.from \in S PROVE Justified(u, cases'[u.id], pass.age)
  <2>1. PICK id \in CaseIds : u \in UpdateOf(id)
    BY <1>4
  <2>2. cases[id].state \in S /\ u \in UpdateOf(id)
    BY <1>6, <2>1, PlannedEnd
  <2> DEFINE k == cases[id]
             n == cases'[id]
  <2>3. /\ u.id = id
        /\ u.kind = "absent" => Out(n) = Out(k)
        /\ u.reason # "none" => GraceOver(k) /\ k.absentFor # NoTime /\ Out(n) = Out(k)
    BY <1>3, <2>2, PlannedEnd
  <2>4. /\ pass.age <= Out(k) /\ k.absentFor <= Out(k) /\ k.absentFor \in Int /\ Out(k) \in Int
    BY <1>0, <1>3, <2>2, RecordNumbers DEF OutCounts, Fits
  <2>5. GraceOver(k) => k.absentFor - pass.age >= Grace
    BY <1>0, <2>4, AgeNumbers DEF GraceOver
  <2>6. GraceOver(k) => Out(k) - pass.age >= Grace
    BY <1>0, <2>4, <2>5, AgeNumbers
  <2> HIDE DEF k, n
  <2>7. Justified(u, n, pass.age)
    BY <2>3, <2>4, <2>6 DEF Justified
  <2>8. QED
    BY <2>3, <2>7 DEF n
<1>7. \A u, v \in U : u.id = v.id => u = v
  <2>1. TAKE u, v \in U
  <2>2. PICK i \in CaseIds : u \in UpdateOf(i)
    BY <1>4
  <2>3. PICK j \in CaseIds : v \in UpdateOf(j)
    BY <1>4
  <2>4. u.id = i /\ v.id = j
    BY <2>2, <2>3, PlannedEnd
  <2>5. QED
    BY <2>2, <2>3, <2>4, OneUpdate
<1>8. pass'.stage \notin {"list", "cases"}
  BY <1>1, <1>2, RestIs
<1>9. OutCounts(S)'
  BY <1>3, <1>5, <1>8 DEF OutCounts
<1>10. PlanCounts(S)'
  <2>1. CASE pass' = p
    BY <1>2, <1>6, <1>7, <2>1 DEF PlanCounts
  <2>2. CASE pass'.updates = {}
    BY <2>2 DEF PlanCounts
  <2>3. QED
    BY <1>1, <2>1, <2>2, RestIs
<1>11. QED
  BY <1>9, <1>10

LEMMA GraceUpdate ==
  ASSUME NEW S \in Watched, TypeOK, OutCounts(S), PlanCounts(S), NEW u \in pass.updates, ApplyUpdate(u)
  PROVE  OutCounts(S)' /\ PlanCounts(S)'
<1> DEFINE p == [pass EXCEPT !.updates = @ \ {u}]
<1>0. /\ pass \in Passes /\ pass.age \in Nat /\ u \in Updates /\ u.id \in CaseIds /\ u.from \in Open
      /\ cases \in [CaseIds -> CaseRecords]
      /\ \A v \in pass.updates : v.id \in CaseIds
  BY DEF TypeOK, Passes, Updates
<1>1. /\ pass' = Rest(p) /\ pass.stage = "apply"
      /\ p.stage = "apply" /\ p.age = pass.age /\ p.updates = pass.updates \ {u}
  BY <1>0 DEF ApplyUpdate, Passes
<1> HIDE DEF p
<1>2. \A id \in CaseIds : id # u.id => cases'[id] = cases[id]
  BY <1>0 DEF ApplyUpdate
<1>3. cases'[u.id].state \in S => Fits(cases'[u.id])
  <2>1. CASE ~StillAsRead(u)
    <3>1. cases' = cases
      BY <2>1 DEF ApplyUpdate
    <3>2. QED
      BY <1>0, <3>1 DEF OutCounts
  <2>2. CASE StillAsRead(u)
    <3> DEFINE k == cases[u.id]
    <3>1. /\ k \in CaseRecords /\ k.state = u.from /\ k.state \in Open
          /\ k.state \in S => Fits(k) /\ Justified(u, k, pass.age)
      BY <1>0, <2>2 DEF StillAsRead, OutCounts, PlanCounts
    <3>2. cases'[u.id] = Updated(k, u)
      BY <1>0, <2>2 DEF ApplyUpdate
    <3>3. S \subseteq Open
      BY DEF Watched, Open
    <3> HIDE DEF k
    <3>4. CASE k.state \in S
      BY <1>0, <3>1, <3>2, <3>3, <3>4, UpdatedFits
    <3>5. CASE k.state \notin S
      <4>1. S = {"waiting"} /\ k.state = "in-progress"
        BY <3>1, <3>5 DEF Watched, Open
      <4>2. cases'[u.id].state \in {"in-progress"} \cup Ended
        BY <1>0, <3>1, <3>2, <4>1, UpdatedState
      <4> QED BY <4>1, <4>2 DEF Ended
    <3> QED BY <3>4, <3>5
  <2>3. QED
    BY <2>1, <2>2
<1>4. pass'.stage \notin {"list", "cases"}
  BY <1>1, RestIs
<1>5. OutCounts(S)'
  BY <1>2, <1>3, <1>4 DEF OutCounts
<1>6. PlanCounts(S)'
  <2>1. \A v \in pass.updates \ {u} : v.id # u.id /\ cases'[v.id] = cases[v.id]
    BY <1>0, <1>2 DEF PlanCounts
  <2>2. CASE pass' = p
    BY <1>1, <2>1, <2>2 DEF PlanCounts
  <2>3. CASE pass'.updates = {}
    BY <2>3 DEF PlanCounts
  <2>4. QED
    BY <1>1, <2>2, <2>3, RestIs
<1>7. QED
  BY <1>5, <1>6

LEMMA GraceCreate ==
  ASSUME NEW S \in Watched, TypeOK, OutCounts(S), NEW u \in pass.creates, ApplyCreate(u)
  PROVE  OutCounts(S)' /\ PlanCounts(S)'
<1> DEFINE p == [pass EXCEPT !.creates = @ \ {u}]
<1>0. pass \in Passes /\ pass.age \in Nat /\ cases \in [CaseIds -> CaseRecords]
  BY DEF TypeOK, Passes
<1>1. pass' = Rest(p) /\ pass.updates = {} /\ p.stage = "apply" /\ p.updates = {}
  BY <1>0 DEF ApplyCreate, Passes
<1> HIDE DEF p
<1>2. pass'.stage \notin {"list", "cases"} /\ pass'.updates = {}
  BY <1>1, RestIs
<1>3. \A id \in CaseIds : cases'[id] = cases[id] \/ Fits(cases'[id])
  <2>1. /\ NewCase(u, pass.age).absentFor = -1 /\ NewCase(u, pass.age).state = "waiting"
        /\ NewCase(u, pass.age).seenFor = pass.age
    BY AgeNumbers DEF NewCase, NoCase
  <2>2. Fits(NewCase(u, pass.age))
    BY <1>0, <2>1 DEF Fits, Out
  <2>3. QED
    BY <1>0, <2>2, ApplyCreateEffect
<1>4. QED
  BY <1>2, <1>3 DEF OutCounts, PlanCounts

LEMMA GraceNext ==
  ASSUME NEW S \in Watched, Requests = {} \/ S = {"waiting"},
         TypeOK, OutCounts(S), PlanCounts(S), [Next]_vars, [NoUndo]_vars
  PROVE  OutCounts(S)' /\ PlanCounts(S)'
<1>0. /\ IdlePass.updates = {} /\ IdlePass.age = 0 /\ IdlePass.stage = "idle"
      /\ pass \in Passes /\ \A id \in CaseIds : cases[id] \in CaseRecords
  BY DEF IdlePass, TypeOK
<1>1. CASE UNCHANGED vars
  BY <1>1, GraceWhenKept DEF vars
<1>2. CASE PassStart \/ LookFails \/ PassFails \/ Restart
  <2>1. cases' = cases /\ pass'.updates = {} /\ pass'.age = 0
    BY <1>0, <1>2 DEF PassStart, LookFails, PassFails, Restart, IdlePass
  <2>2. QED
    BY <2>1, GraceWhenKept
<1>3. CASE Look
  <2>1. /\ cases' = cases /\ pass.stage = "list" /\ pass'.stage = "cases" /\ pass'.age = pass.age
        /\ pass'.updates = pass.updates
    BY <1>0, <1>3 DEF Look, Passes
  <2>2. QED
    BY <2>1 DEF OutCounts, PlanCounts
<1>4. CASE \E c \in Clients, p \in Channels \cup {Offline} : Walk(c, p)
  BY <1>4, GraceWhenKept DEF Walk
<1>5. ASSUME NEW a \in Admins, Setup(a) PROVE OutCounts(S)' /\ PlanCounts(S)'
  <2>1. CASE cases' = cases /\ pass' = pass
    BY <2>1, GraceWhenKept
  <2>2. CASE PutCloseWaiting(a) \/ PutCloseTaken(a)
    <3>1. /\ pass' = pass
          /\ \A id \in CaseIds : \/ cases'[id] = cases[id]
                                 \/ \E to \in Ended : cases'[id] = EndCase(cases[id], to, "queue-changed")
      BY <2>2 DEF PutCloseWaiting, PutCloseTaken, EndAll, Ended
    <3>2. \A id \in CaseIds : cases'[id] = cases[id] \/ cases'[id].state \in Ended
      BY <1>0, <3>1, RecordReasons
    <3>3. QED
      BY <3>1, <3>2, GraceWhenKept DEF Watched, Open, Ended
  <2>3. QED
    BY <1>5, <2>1, <2>2 DEF Setup, PutRead, PutWrite, PutReset
<1>6. CASE /\ S = {"waiting"} /\ NoUndo
           /\ (\E r \in Requests : Request(r)) \/ (\E id \in CaseIds : Close(id))
  <2>1. /\ pass' = pass
        /\ \A id \in CaseIds : \/ cases'[id] = cases[id]
                               \/ cases'[id].state \in {"in-progress"} \cup Ended
    BY <1>6, RequestsStay
  <2>2. \A id \in CaseIds : cases'[id].state \in S => cases'[id] = cases[id]
    BY <1>6, <2>1 DEF Ended
  <2> QED BY <2>1, <2>2, GraceWhenKept
<1>7. QED
  BY <1>1, <1>2, <1>3, <1>4, <1>5, <1>6, GraceTick, GraceReconcile, GraceUpdate, GraceCreate DEF Next, Job

LEMMA GraceInit == ASSUME NEW S \in Watched, Init PROVE OutCounts(S) /\ PlanCounts(S)
BY DEF Init, OutCounts, PlanCounts, Watched, Open, NoCase, IdlePass

\* Without requests the job ends a case for absence only after a whole grace period in which
\* no look whose result was written found the client where the case wants them.
THEOREM GraceIsKept ==
  ASSUME Requests = {}
  PROVE  Spec => GraceKept
<1>0. Open \in Watched /\ (Next => NoUndo)
  BY DEF Watched, NoUndo
<1>1. Init => OutCounts(Open) /\ PlanCounts(Open)
  BY <1>0, GraceInit
<1>2. TypeOK /\ NoReason /\ OutCounts(Open) /\ PlanCounts(Open) /\ [Next]_vars =>
        NoReason' /\ OutCounts(Open)' /\ PlanCounts(Open)'
  BY <1>0, ReasonsNext, GraceNext
<1>3. TypeOK /\ NoReason /\ OutCounts(Open) /\ PlanCounts(Open) /\ [Next]_vars =>
        [\A id \in CaseIds : EndsByAbsence(id) =>
           LET out == IF cases[id].state = "waiting" THEN cases[id].seenFor ELSE cases[id].helpFor
           IN  out = Sat \/ out - pass.age >= Grace]_vars
  BY ReasonsNext DEF PlanCounts, Justified, StillAsRead, Out, EndsByAbsence, OpenCase
<1>4. QED
  BY <1>1, <1>2, <1>3, CalmInit, TypeCorrect, PTL DEF Spec, GraceKept

\* With requests, and as long as no take is undone, a waiting case is cancelled for absence only
\* after a whole grace period in which no look whose result was written found the client in the
\* waiting channel, whoever takes or removes cases meanwhile (reconcile, graceOver, take, remove).
THEOREM WaitingGraceIsKept ==
  Spec /\ [][NoUndo]_vars =>
    [][\A id \in CaseIds : EndsByAbsence(id) /\ cases[id].state = "waiting" =>
         cases[id].seenFor = Sat \/ cases[id].seenFor - pass.age >= Grace]_vars
<1> DEFINE W == {"waiting"}
<1>0. W \in Watched
  BY DEF Watched
<1>1. Init => OutCounts(W) /\ PlanCounts(W)
  BY <1>0, GraceInit
<1>2. TypeOK /\ NoReason /\ OutCounts(W) /\ PlanCounts(W) /\ [Next]_vars /\ [NoUndo]_vars =>
        NoReason' /\ OutCounts(W)' /\ PlanCounts(W)'
  BY <1>0, ReasonsNext, GraceNext
<1>3. TypeOK /\ NoReason /\ PlanCounts(W) /\ [Next]_vars =>
        [\A id \in CaseIds : EndsByAbsence(id) /\ cases[id].state = "waiting" =>
           cases[id].seenFor = Sat \/ cases[id].seenFor - pass.age >= Grace]_vars
  BY ReasonsNext DEF PlanCounts, Justified, StillAsRead, Out
<1>4. QED
  BY <1>1, <1>2, <1>3, CalmInit, TypeCorrect, PTL DEF Spec
================================================================================
