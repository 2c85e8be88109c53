------------------------------ MODULE SupportQueue ------------------------------
(***************************************************************************)
(* The support queue of one virtual server: the reconcile job that reads   *)
(* the client list every few seconds, the web requests that take, remove   *)
(* and close cases, the administrator's change of the setup, and the       *)
(* clients walking about on TeamSpeak meanwhile.  Every await of the code  *)
(* is a boundary between two actions.                                      *)
(*                                                                         *)
(* Times are kept as ages: absentFor is "now minus absentSince", NoTime    *)
(* stands for null, and Tick lets every age grow up to Sat, beyond which   *)
(* the code cannot tell two ages apart.  A pass works with the time of its *)
(* start, so an age "at the pass's now" is the age less pass.age.          *)
(***************************************************************************)
EXTENDS Integers, FiniteSets

CONSTANTS
  Uids,                   \* the identities that may queue, and the supporters'
  Clients,                \* voice connections
  UidOf,                  \* the identity of each connection
  SupporterClients,       \* the connections in a supporter group
  Channels,               \* the channels people walk into by themselves
  WaitingChannels,        \* the channels an administrator may choose
  DefaultChannel,         \* where a removed client is moved to
  AfkChannels,            \* supporters in there take nobody
  Offline, NoOne,
  Requests,               \* web requests (take, remove) that may be in flight
  Admins,                 \* PUT /config requests that may be in flight
  QueueWithoutSupporter,  \* the setting: queue people although nobody is there
  Grace,                  \* the setting: the grace period, in ticks
  MaxCases,               \* bound: cases created in one behaviour
  MaxLag,                 \* bound: ticks a pass lasts at most
  MaxFaults               \* bound: failed looks, failed passes and restarts

ASSUME QueueAssumption ==
  /\ UidOf \in [Clients -> Uids]
  /\ SupporterClients \subseteq Clients
  /\ WaitingChannels \subseteq Channels
  /\ AfkChannels \subseteq Channels
  /\ DefaultChannel \in Channels
  /\ Offline \notin Channels \cup Requests
  /\ NoOne \notin Uids \cup Clients \cup Channels \cup Requests
  /\ QueueWithoutSupporter \in BOOLEAN
  /\ Grace \in Nat /\ MaxCases \in Nat /\ MaxLag \in Nat /\ MaxFaults \in Nat

CaseIds == 1..MaxCases
Sat     == Grace + MaxLag
NoTime  == -1
Ages    == NoTime..Sat

\* A room carries the name of the request that created it.
Places == Channels \cup Requests \cup {Offline}

Open   == {"waiting", "in-progress"}
Ended  == {"cancelled", "done"}

VARIABLES
  where,   \* TeamSpeak: the place of every connection
  queue,   \* the row of SupportQueue: NoQueue or the channel and the switch
  cases,   \* the rows of SupportCase, by id
  live,    \* the live state of the queue, lost on a restart
  pass,    \* the job's pass
  reqs,    \* the take and remove requests in flight
  puts,    \* the PUT /config requests in flight
  lock,    \* who holds the channel-create lock
  calm,    \* history: the time since the last failed look or restart
  faults   \* bound: how often something failed

vars == <<where, queue, cases, live, pass, reqs, puts, lock, calm, faults>>

------------------------------------------------------------------------------
(* Rows and records *)

NoQueue == [exists |-> FALSE, enabled |-> FALSE, channel |-> NoOne]
Row(on, ch) == [exists |-> TRUE, enabled |-> on, channel |-> ch]

\* Two history fields: seenFor, since when no look found the client in the
\* waiting channel; helpFor, for a taken case, since when no look found them with
\* a supporter, counted from the take at the earliest.
NoCase == [uid |-> NoOne, state |-> "none", absentFor |-> NoTime,
           seenFor |-> NoTime, helpFor |-> NoTime, reason |-> "none"]
NewCase(u, age) == [NoCase EXCEPT !.uid = u, !.state = "waiting", !.seenFor = age]
TakeCase(k, age) == [k EXCEPT !.state = "in-progress", !.absentFor = NoTime, !.helpFor = age]
EndCase(k, s, why) == [k EXCEPT !.state = s, !.reason = why, !.absentFor = NoTime,
                                !.seenFor = NoTime, !.helpFor = NoTime]

\* The live state is the age of watchingSince.
Unwatched == NoTime

IdlePass == [stage |-> "idle", age |-> 0, channel |-> NoOne, watch |-> Unwatched,
             spots |-> [u \in Uids |-> "offline"], mayQueue |-> FALSE,
             updates |-> {}, creates |-> {}]
IdleReq  == [stage |-> "idle", id |-> 0, client |-> NoOne, supporter |-> NoOne, channel |-> NoOne]
\* open is a history field: the cases that were open when the row was written.
IdlePut  == [stage |-> "idle", old |-> NoQueue, new |-> NoQueue, open |-> {}]

OpenCase(id)   == cases[id].state \in Open
OpenCasesOf(u) == {id \in CaseIds : OpenCase(id) /\ cases[id].uid = u}

------------------------------------------------------------------------------
(* Reading the client list *)

\* The connections of u the code may settle on: one in the waiting channel if
\* there is one, otherwise the one listed first.
Chosen(u, ch) ==
  LET online == {c \in Clients : UidOf[c] = u /\ where[c] # Offline}
      inside == {c \in online : where[c] = ch}
  IN  IF inside # {} THEN inside ELSE IF online # {} THEN online ELSE {Offline}

SupportersWith(c) ==
  {s \in SupporterClients \ {c} : where[s] = where[c] /\ where[s] \notin AfkChannels}

\* What reconcile can tell about a person: where they are seen to be.
Spot(c, ch) ==
  CASE c = Offline                                  -> "offline"
    [] where[c] = ch /\ SupportersWith(c) = {}      -> "waiting"
    [] where[c] = ch /\ SupportersWith(c) # {}      -> "waiting+supporter"
    [] where[c] # ch /\ SupportersWith(c) # {}      -> "supporter"
    [] OTHER                                        -> "alone"

SpotNames == {"offline", "waiting", "waiting+supporter", "supporter", "alone"}
InWaitingChannel(spot) == spot \in {"waiting", "waiting+supporter"}
WithSupporter(spot)    == spot \in {"supporter", "waiting+supporter"}

\* An away flag changes at any time and is read only here: any set of
\* connections may be away at this look.
AvailableSupporter(s, away) ==
  s \in SupporterClients \ away /\ where[s] \notin AfkChannels \cup {Offline}

IsSupporterUid(u) == \E c \in SupporterClients : UidOf[c] = u

------------------------------------------------------------------------------
(* The job *)

\* One pass at a time; with no enabled queue there is nothing to do.
PassStart ==
  /\ pass.stage = "idle"
  /\ queue.enabled
  /\ pass' = [IdlePass EXCEPT !.stage = "list", !.channel = queue.channel]
  /\ UNCHANGED <<where, queue, cases, live, reqs, puts, lock, calm, faults>>

\* The client list answered: the first look starts the watch.
Look ==
  /\ pass.stage = "list"
  /\ LET watch == IF live = Unwatched THEN pass.age ELSE live
     IN \E chosen \in [Uids -> Clients \cup {Offline}], away \in SUBSET SupporterClients :
        /\ \A u \in Uids : chosen[u] \in Chosen(u, pass.channel)
        /\ live' = watch
        /\ pass' = [pass EXCEPT
             !.stage = "cases", !.watch = watch,
             !.spots = [u \in Uids |-> Spot(chosen[u], pass.channel)],
             !.mayQueue = \/ QueueWithoutSupporter
                          \/ \E s \in SupporterClients : AvailableSupporter(s, away)]
  /\ UNCHANGED <<where, queue, cases, reqs, puts, lock, calm, faults>>

\* The client list failed: the queue pauses, no case changes.
LookFails ==
  /\ pass.stage = "list"
  /\ faults < MaxFaults
  /\ faults' = faults + 1
  /\ live' = Unwatched
  /\ calm' = 0
  /\ pass' = IdlePass
  /\ UNCHANGED <<where, queue, cases, reqs, puts, lock>>

\* Mutated: an outage is not taken off the absence; the grace period is one tick short.
GraceOverOutage(k) == k.absentFor - pass.age >= Grace
GraceOverEarly(k) ==
  LET since == IF k.absentFor < pass.watch THEN k.absentFor ELSE pass.watch
  IN  since - pass.age + 1 >= Grace

\* Absences count from the start of the watch at the earliest.
GraceOver(k) ==
  LET since == IF k.absentFor < pass.watch THEN k.absentFor ELSE pass.watch
  IN  since - pass.age >= Grace

\* Mutated: nobody offline is missed.
InPlaceOffline(k, spot) == spot = "offline" \/ InWaitingChannel(spot) \/ WithSupporter(spot)

InPlace(k, spot) == IF k.state = "waiting" THEN InWaitingChannel(spot) ELSE WithSupporter(spot)
Taken(k, spot)   == k.state = "waiting" /\ spot = "supporter"

\* The update of an open case, as a set with at most one element.
UpdateOf(id) ==
  LET k    == cases[id]
      spot == pass.spots[k.uid]
      Change(kind, why) == {[id |-> id, from |-> k.state, kind |-> kind, reason |-> why]}
  IN CASE Taken(k, spot) -> Change("taken", "none")
       [] InPlace(k, spot) /\ k.absentFor # NoTime -> Change("present", "none")
       [] InPlace(k, spot) /\ k.absentFor = NoTime -> {}
       [] ~Taken(k, spot) /\ ~InPlace(k, spot) /\ k.absentFor = NoTime -> Change("absent", "none")
       [] ~Taken(k, spot) /\ ~InPlace(k, spot) /\ k.absentFor # NoTime /\ GraceOver(k) ->
            Change(IF k.state = "waiting" THEN "cancelled" ELSE "done",
                   IF spot = "offline" THEN "left-server"
                   ELSE IF k.state = "waiting" THEN "left-channel" ELSE "finished")
       [] OTHER -> {}

\* Mutated: without the look at the open cases; with a look at all cases ever.
ToCreateAlways ==
  {u \in Uids : pass.mayQueue /\ InWaitingChannel(pass.spots[u]) /\ ~IsSupporterUid(u)}
ToCreateOnce ==
  {u \in Uids : /\ pass.mayQueue /\ InWaitingChannel(pass.spots[u]) /\ ~IsSupporterUid(u)
                /\ \A id \in CaseIds : cases[id].uid # u}

\* Nobody is queued twice, supporters never.
ToCreate ==
  {u \in Uids : /\ pass.mayQueue
                /\ InWaitingChannel(pass.spots[u])
                /\ ~IsSupporterUid(u)
                /\ OpenCasesOf(u) = {}}

Rest(p) == IF p.updates = {} /\ p.creates = {} THEN IdlePass ELSE p

\* History only: what this look saw of a case.  A stretch of absence that is on
\* record ends when the record is cleared.
Seen(k, spot) ==
  LET clear == k.absentFor = NoTime IN
  [k EXCEPT !.seenFor = IF InWaitingChannel(spot) /\ (clear \/ k.state # "waiting")
                        THEN pass.age ELSE @,
            !.helpFor = IF k.state = "in-progress" /\ WithSupporter(spot) /\ clear
                        THEN pass.age ELSE @]

\* The open cases are read and the changes computed, in one go.
Reconcile ==
  /\ pass.stage = "cases"
  /\ pass' = Rest([pass EXCEPT !.stage = "apply",
                     !.updates = UNION {UpdateOf(id) : id \in {i \in CaseIds : OpenCase(i)}},
                     !.creates = ToCreate])
  /\ cases' = [id \in CaseIds |->
                 IF OpenCase(id) THEN Seen(cases[id], pass.spots[cases[id].uid]) ELSE cases[id]]
  /\ UNCHANGED <<where, queue, live, reqs, puts, lock, calm, faults>>

Updated(k, u) ==
  CASE u.kind = "present" -> Seen([k EXCEPT !.absentFor = NoTime], pass.spots[k.uid])
    [] u.kind = "absent"  -> [k EXCEPT !.absentFor = pass.age]
    [] u.kind = "taken"   -> TakeCase(k, pass.age)
    [] OTHER              -> EndCase(k, u.kind, u.reason)

\* Mutated: the update has no condition on the state.
LandsAlways(u) == TRUE

\* Lands only while the case is in the state it was read in.
StillAsRead(u) == cases[u.id].state = u.from

ApplyUpdate(u) ==
  /\ pass.stage = "apply"
  /\ u \in pass.updates
  /\ cases' = IF StillAsRead(u) THEN [cases EXCEPT ![u.id] = Updated(@, u)] ELSE cases
  /\ pass' = Rest([pass EXCEPT !.updates = @ \ {u}])
  /\ UNCHANGED <<where, queue, live, reqs, puts, lock, calm, faults>>

\* A new row for u; at the bound MaxCases the row is not written.
WithNewCase(u) ==
  {[cases EXCEPT ![id] = NewCase(u, pass.age)] :
     id \in {i \in CaseIds : cases[i] = NoCase /\ \A j \in 1..(i - 1) : cases[j] # NoCase}}

ApplyCreate(u) ==
  /\ pass.stage = "apply"
  /\ pass.updates = {}
  /\ u \in pass.creates
  /\ IF WithNewCase(u) # {} THEN cases' \in WithNewCase(u) ELSE cases' = cases
  /\ pass' = Rest([pass EXCEPT !.creates = @ \ {u}])
  /\ UNCHANGED <<where, queue, live, reqs, puts, lock, calm, faults>>

\* The database refused a query: the rest of the pass is dropped.
PassFails ==
  /\ pass.stage # "idle"
  /\ faults < MaxFaults
  /\ faults' = faults + 1
  /\ pass' = IdlePass
  /\ UNCHANGED <<where, queue, cases, live, reqs, puts, lock, calm>>

------------------------------------------------------------------------------
(* Taking a case *)

ReqAt(r, s) == reqs[r].stage = s
Step(r, s)  == reqs' = [reqs EXCEPT ![r].stage = s]
Leave(r)    == reqs' = [reqs EXCEPT ![r] = IdleReq]

\* The case is read; it must be waiting.
TakeRead(r, id) ==
  /\ ReqAt(r, "idle")
  /\ cases[id].state = "waiting"
  /\ reqs' = [reqs EXCEPT ![r] = [IdleReq EXCEPT !.stage = "lookUp", !.id = id,
                                                 !.channel = queue.channel]]
  /\ UNCHANGED <<where, queue, cases, live, pass, puts, lock, calm, faults>>

\* The client must be online and the supporter available.
TakeLookUp(r) ==
  /\ ReqAt(r, "lookUp")
  /\ \/ \E c \in Chosen(cases[reqs[r].id].uid, reqs[r].channel) \ {Offline}, s \in SupporterClients :
          /\ AvailableSupporter(s, {})
          /\ reqs' = [reqs EXCEPT ![r] = [@ EXCEPT !.stage = "claim", !.client = c,
                                                   !.supporter = s, !.channel = NoOne]]
     \/ Leave(r)
  /\ UNCHANGED <<where, queue, cases, live, pass, puts, lock, calm, faults>>

\* Mutated: the claim is decided by what was read before the look-up.
ClaimedBlindly(id) == cases[id].state \notin Ended

StillWaiting(id) == cases[id].state = "waiting"

\* The case is taken before anything else happens, so the moves are not seen as
\* something of their own; somebody may have been faster. Without a client to send the commands
\* with, the request ends there and the case stays taken.
TakeClaim(r) ==
  /\ ReqAt(r, "claim")
  /\ LET id == reqs[r].id IN
     IF StillWaiting(id)
     THEN /\ cases' = [cases EXCEPT ![id] = TakeCase(@, 0)]
          /\ Step(r, "lock") \/ Leave(r)
     ELSE /\ cases' = cases
          /\ Leave(r)
  /\ UNCHANGED <<where, queue, live, pass, puts, lock, calm, faults>>

TakeLock(r) ==
  /\ ReqAt(r, "lock")
  /\ lock = NoOne
  /\ lock' = r
  /\ Step(r, "create")
  /\ UNCHANGED <<where, queue, cases, live, pass, puts, calm, faults>>

TakeCreateRoom(r) ==
  /\ ReqAt(r, "create")
  /\ Step(r, "moveClient")
  /\ UNCHANGED <<where, queue, cases, live, pass, puts, lock, calm, faults>>

\* clientmove fails for a connection that is gone.
TakeMoveClient(r) ==
  /\ ReqAt(r, "moveClient")
  /\ where[reqs[r].client] # Offline
  /\ where' = [where EXCEPT ![reqs[r].client] = r]
  /\ Step(r, "moveSupporter")
  /\ UNCHANGED <<queue, cases, live, pass, puts, lock, calm, faults>>

TakeMoveSupporter(r) ==
  /\ ReqAt(r, "moveSupporter")
  /\ where[reqs[r].supporter] # Offline
  /\ where' = [where EXCEPT ![reqs[r].supporter] = r]
  /\ Step(r, "return")
  /\ UNCHANGED <<queue, cases, live, pass, puts, lock, calm, faults>>

\* The query client left the room: the lock is released.
TakeDone(r) ==
  /\ ReqAt(r, "return")
  /\ lock' = NoOne
  /\ Leave(r)
  /\ UNCHANGED <<where, queue, cases, live, pass, puts, calm, faults>>

\* Mutated: the undo has no condition on the state.
UndoneAlways(k) == [k EXCEPT !.state = "waiting", !.helpFor = NoTime]

\* What a failed take puts back: only the state, and only if it is still taken.
Undone(k) == IF k.state = "in-progress" THEN [k EXCEPT !.state = "waiting", !.helpFor = NoTime] ELSE k

\* Mutated: the release is not in a finally.
TakeFailsLocked(r) ==
  /\ reqs[r].stage \in {"create", "moveClient", "moveSupporter", "return"}
  /\ cases' \in {cases, [cases EXCEPT ![reqs[r].id] = Undone(@)]}
  /\ Leave(r)
  /\ UNCHANGED <<where, queue, live, pass, puts, lock, calm, faults>>

\* Any of the commands fails; so may the undo, and the case stays taken.
TakeFails(r) ==
  /\ reqs[r].stage \in {"create", "moveClient", "moveSupporter", "return"}
  /\ cases' \in {cases, [cases EXCEPT ![reqs[r].id] = Undone(@)]}
  /\ lock' = NoOne
  /\ Leave(r)
  /\ UNCHANGED <<where, queue, live, pass, puts, calm, faults>>

------------------------------------------------------------------------------
(* Removing and closing a case *)

RemoveClaim(r, id) ==
  /\ ReqAt(r, "idle")
  /\ cases[id].state = "waiting"
  /\ cases' = [cases EXCEPT ![id] = EndCase(@, "cancelled", "removed")]
  /\ reqs' = [reqs EXCEPT ![r] = [IdleReq EXCEPT !.stage = "find", !.id = id,
                                                 !.channel = queue.channel]]
  /\ UNCHANGED <<where, queue, live, pass, puts, lock, calm, faults>>

\* Only a client still in the waiting channel is moved, and never into the
\* waiting channel itself; the look-up may fail as well.
RemoveFind(r) ==
  /\ ReqAt(r, "find")
  /\ \/ \E c \in Chosen(cases[reqs[r].id].uid, reqs[r].channel) \ {Offline} :
          /\ where[c] = reqs[r].channel
          /\ reqs[r].channel # DefaultChannel
          /\ reqs' = [reqs EXCEPT ![r] = [@ EXCEPT !.stage = "send home", !.client = c,
                                                   !.channel = NoOne]]
     \/ Leave(r)
  /\ UNCHANGED <<where, queue, cases, live, pass, puts, lock, calm, faults>>

RemoveSendHome(r) ==
  /\ ReqAt(r, "send home")
  /\ where' = IF where[reqs[r].client] = Offline THEN where
              ELSE [where EXCEPT ![reqs[r].client] = DefaultChannel]
  /\ Leave(r)
  /\ UNCHANGED <<queue, cases, live, pass, puts, lock, calm, faults>>

Close(id) ==
  /\ cases[id].state = "in-progress"
  /\ cases' = [cases EXCEPT ![id] = EndCase(@, "done", "closed")]
  /\ UNCHANGED <<where, queue, live, pass, reqs, puts, lock, calm, faults>>

------------------------------------------------------------------------------
(* The administrator's setup *)

PutRead(a, on, ch) ==
  /\ puts[a].stage = "idle"
  /\ puts' = [puts EXCEPT ![a] = [IdlePut EXCEPT !.stage = "write", !.old = queue,
                                                 !.new = Row(on, ch)]]
  /\ UNCHANGED <<where, queue, cases, live, pass, reqs, lock, calm, faults>>

\* Switched off, or moved to another channel.
EndsCases(p)  == p.old.exists /\ (p.old.channel # p.new.channel \/ (p.old.enabled /\ ~p.new.enabled))
ResetsLive(p) == ~p.old.exists \/ p.old.channel # p.new.channel \/ p.old.enabled # p.new.enabled

PutStage(a, s) == puts' = [puts EXCEPT ![a].stage = s]
PutEnd(a)      == puts' = [puts EXCEPT ![a] = IdlePut]

\* What follows the write; the old and the new row are not needed any more.
AfterWrite(p) ==
  IF EndsCases(p) THEN [IdlePut EXCEPT !.stage = "closeWaiting", !.open = {id \in CaseIds : OpenCase(id)}]
  ELSE IF ResetsLive(p) THEN [IdlePut EXCEPT !.stage = "reset"] ELSE IdlePut

\* A second first setup meets the row of the other one and fails.
PutWrite(a) ==
  /\ puts[a].stage = "write"
  /\ IF ~puts[a].old.exists /\ queue.exists
     THEN queue' = queue /\ PutEnd(a)
     ELSE queue' = puts[a].new /\ puts' = [puts EXCEPT ![a] = AfterWrite(@)]
  /\ UNCHANGED <<where, cases, live, pass, reqs, lock, calm, faults>>

\* Mutated: the taken cases are ended first, then the waiting ones.
EndAllSwapped(from, to) ==
  cases' = [id \in CaseIds |->
              IF cases[id].state \in Open /\ cases[id].state # from
              THEN EndCase(cases[id], IF to = "done" THEN "cancelled" ELSE "done", "queue-changed")
              ELSE cases[id]]

EndAll(from, to) ==
  cases' = [id \in CaseIds |-> IF cases[id].state = from
                               THEN EndCase(cases[id], to, "queue-changed") ELSE cases[id]]

PutCloseWaiting(a) ==
  /\ puts[a].stage = "closeWaiting"
  /\ EndAll("waiting", "cancelled")
  /\ PutStage(a, "closeTaken")
  /\ UNCHANGED <<where, queue, live, pass, reqs, lock, calm, faults>>

\* Whatever ends the open cases also resets the live state.
PutCloseTaken(a) ==
  /\ puts[a].stage = "closeTaken"
  /\ EndAll("in-progress", "done")
  /\ PutStage(a, "reset")
  /\ UNCHANGED <<where, queue, live, pass, reqs, lock, calm, faults>>

\* The live state is forgotten: the next look counts as the first.
PutReset(a) ==
  /\ puts[a].stage = "reset"
  /\ live' = Unwatched
  /\ PutEnd(a)
  /\ UNCHANGED <<where, queue, cases, pass, reqs, lock, calm, faults>>

------------------------------------------------------------------------------
(* TeamSpeak, time, restarts *)

\* Anyone comes, walks to another channel, or goes.
Walk(c, p) ==
  /\ where[c] # p
  /\ where' = [where EXCEPT ![c] = p]
  /\ UNCHANGED <<queue, cases, live, pass, reqs, puts, lock, calm, faults>>

Older(age) == IF age = NoTime \/ age = Sat THEN age ELSE age + 1

Tick ==
  /\ pass.stage # "idle" => pass.age < MaxLag
  /\ cases' = [id \in CaseIds |-> [cases[id] EXCEPT !.absentFor = Older(@), !.seenFor = Older(@),
                                                      !.helpFor = Older(@)]]
  /\ live' = Older(live)
  /\ pass' = IF pass.stage = "idle" THEN pass
             ELSE [pass EXCEPT !.age = @ + 1, !.watch = Older(@)]
  /\ calm' = Older(calm)
  /\ UNCHANGED <<where, queue, reqs, puts, lock, faults>>

\* The backend stops in the middle of everything and starts again.
Restart ==
  /\ faults < MaxFaults
  /\ faults' = faults + 1
  /\ live' = Unwatched
  /\ pass' = IdlePass
  /\ reqs' = [r \in Requests |-> IdleReq]
  /\ puts' = [a \in Admins |-> IdlePut]
  /\ lock' = NoOne
  /\ calm' = 0
  /\ UNCHANGED <<where, queue, cases>>

------------------------------------------------------------------------------
Init ==
  /\ where = [c \in Clients |-> Offline]
  /\ queue \in {NoQueue} \cup {Row(TRUE, ch) : ch \in WaitingChannels}
  /\ cases = [id \in CaseIds |-> NoCase]
  /\ live = Unwatched
  /\ pass = IdlePass
  /\ reqs = [r \in Requests |-> IdleReq]
  /\ puts = [a \in Admins |-> IdlePut]
  /\ lock = NoOne
  /\ calm = 0
  /\ faults = 0

Job == \/ PassStart \/ Look \/ LookFails \/ Reconcile \/ PassFails
       \/ \E u \in pass.updates : ApplyUpdate(u)
       \/ \E u \in pass.creates : ApplyCreate(u)

Request(r) == \/ TakeLookUp(r) \/ TakeClaim(r) \/ TakeLock(r) \/ TakeCreateRoom(r)
              \/ TakeMoveClient(r) \/ TakeMoveSupporter(r) \/ TakeDone(r) \/ TakeFails(r)
              \/ RemoveFind(r) \/ RemoveSendHome(r)
              \/ \E id \in CaseIds : TakeRead(r, id) \/ RemoveClaim(r, id)

Setup(a) == \/ \E on \in BOOLEAN, ch \in WaitingChannels : PutRead(a, on, ch)
            \/ PutWrite(a) \/ PutCloseWaiting(a) \/ PutCloseTaken(a) \/ PutReset(a)

Next == \/ Job
        \/ \E r \in Requests : Request(r)
        \/ Requests # {} /\ \E id \in CaseIds : Close(id)
        \/ \E a \in Admins : Setup(a)
        \/ \E c \in Clients, p \in Channels \cup {Offline} : Walk(c, p)
        \/ Tick
        \/ Restart

Spec == Init /\ [][Next]_vars

------------------------------------------------------------------------------
(* Types *)

CaseRecords == [uid : Uids \cup {NoOne},
                state : Open \cup Ended \cup {"none"},
                absentFor : Ages, seenFor : Ages, helpFor : Ages,
                reason : {"none", "left-channel", "left-server", "finished",
                          "removed", "closed", "queue-changed"}]
Rows        == [exists : BOOLEAN, enabled : BOOLEAN, channel : Channels \cup {NoOne}]
Updates     == [id : CaseIds, from : Open, kind : {"present", "absent", "taken"} \cup Ended,
                reason : {"none", "left-channel", "left-server", "finished"}]
Passes      == [stage : {"idle", "list", "cases", "apply"}, age : 0..MaxLag,
                channel : Channels \cup {NoOne}, watch : Ages,
                spots : [Uids -> SpotNames], mayQueue : BOOLEAN,
                updates : SUBSET Updates, creates : SUBSET Uids]
TakeStages  == {"lookUp", "claim", "lock", "create", "moveClient", "moveSupporter", "return"}
ReqRecords  == [stage : {"idle", "find", "send home"} \cup TakeStages, id : CaseIds \cup {0},
                client : Clients \cup {NoOne}, supporter : Clients \cup {NoOne},
                channel : Channels \cup {NoOne}]
PutRecords  == [stage : {"idle", "write", "closeWaiting", "closeTaken", "reset"},
                old : Rows, new : Rows, open : SUBSET CaseIds]

\* Every variable keeps its type.
TypeOK ==
  /\ where \in [Clients -> Places]
  /\ queue \in Rows
  /\ cases \in [CaseIds -> CaseRecords]
  /\ live \in Ages
  /\ pass \in Passes
  /\ reqs \in [Requests -> ReqRecords]
  /\ puts \in [Admins -> PutRecords]
  /\ lock \in Requests \cup {NoOne}
  /\ calm \in Ages
  /\ faults \in 0..MaxFaults

------------------------------------------------------------------------------
(* Safety *)

\* Nobody stands twice in the queue: applyChanges creates cases without any
\* condition and relies on the job being the only one to create and on nothing
\* reopening a case between its look at the open cases and its write.
AtMostOneOpenCase ==
  \A i, j \in CaseIds : OpenCase(i) /\ OpenCase(j) /\ cases[i].uid = cases[j].uid => i = j

Claimed(r) == reqs[r].stage \in {"lock", "create", "moveClient", "moveSupporter", "return"}

\* Two supporters who take the same case at the same time: only one of the two
\* requests goes on to create a room and move people.
OneTakerPerCase ==
  \A r, s \in Requests : Claimed(r) /\ Claimed(s) /\ reqs[r].id = reqs[s].id => r = s

\* Why the two hold: a row about to be created is for somebody without an open case,
\* a request points at a case, and one that claimed its case keeps it from waiting.
CreatesAreNew  == \A u \in pass.creates : OpenCasesOf(u) = {}
RequestsAim    == \A r \in Requests : reqs[r].stage # "idle" => reqs[r].id \in CaseIds
ClaimedIsTaken == \A r \in Requests : Claimed(r) => cases[reqs[r].id].state \notin {"waiting", "none"}
EndedIsStill   == \A id \in CaseIds : cases[id].state \in Ended \cup {"none"} =>
                    cases[id].absentFor = NoTime /\ cases[id].seenFor = NoTime /\ cases[id].helpFor = NoTime
QueueInv == TypeOK /\ AtMostOneOpenCase /\ OneTakerPerCase /\ CreatesAreNew /\ RequestsAim /\ ClaimedIsTaken
            /\ EndedIsStill

\* A case that has ended never comes back and never changes its outcome, neither by
\* a late update of the job nor by the undo of a take that failed.
EndedStaysEnded ==
  [][\A id \in CaseIds : cases[id].state \in Ended => cases'[id] = cases[id]]_vars

EndsByAbsence(id) ==
  /\ OpenCase(id)
  /\ cases'[id].reason \in {"left-channel", "left-server", "finished"}

\* An outage never turns everyone into "cancelled": the job ends a case only
\* when at least the grace period lies between its look and the last failed
\* look or restart.
OutageEndsNobody ==
  [][\A id \in CaseIds : EndsByAbsence(id) => calm = Sat \/ calm - pass.age >= Grace]_vars

\* A waiting case is cancelled for absence only when no look within the grace
\* period found the client in the waiting channel, a taken case is done only when none
\* found them with a supporter; a look counts once its result is written.
GraceKept ==
  [][\A id \in CaseIds : EndsByAbsence(id) =>
       LET out == IF cases[id].state = "waiting" THEN cases[id].seenFor ELSE cases[id].helpFor
       IN  out = Sat \/ out - pass.age >= Grace]_vars

\* What was open belongs to the old setup: once a change of the queue has ended its
\* cases, none of those that were open when it was written is left, whatever the
\* job has made of them between the two updates.
OldCasesEnd ==
  \A a \in Admins : puts[a].stage = "reset" => \A id \in puts[a].open : ~OpenCase(id)

------------------------------------------------------------------------------
(* Liveness *)

\* The interval timer starts a pass again and again, the database and TeamSpeak
\* answer (a failure is bounded by MaxFaults), time passes, and a request in
\* flight goes on; the lock is handed on in order, so nobody waits for ever.
Fairness ==
  /\ WF_vars(PassStart) /\ WF_vars(Look) /\ WF_vars(Reconcile) /\ WF_vars(Tick)
  /\ WF_vars(\E u \in pass.updates : ApplyUpdate(u))
  /\ WF_vars(\E u \in pass.creates : ApplyCreate(u))
  /\ \A r \in Requests :
       /\ SF_vars(TakeLock(r))
       /\ WF_vars(TakeLookUp(r) \/ TakeClaim(r) \/ TakeCreateRoom(r) \/ TakeMoveClient(r)
                  \/ TakeMoveSupporter(r) \/ TakeDone(r) \/ TakeFails(r)
                  \/ RemoveFind(r) \/ RemoveSendHome(r))

FairSpec == Spec /\ Fairness

Gone(u)  == \A c \in Clients : UidOf[c] = u => where[c] = Offline
Waits(u) == \E c \in Clients : UidOf[c] = u /\ where[c] = queue.channel
Full     == \A id \in CaseIds : cases[id] # NoCase

\* Whoever leaves the server for good ends up without an open case, whether it
\* was waiting or taken.
GoneIsClosed ==
  \A u \in Uids : <>[]Gone(u) /\ <>[](queue.enabled) => <>[](OpenCasesOf(u) = {})

\* Whoever stays in the waiting channel of an enabled queue is in the queue
\* again and again, whatever was lost in a restart or an outage.
WaitingIsQueued ==
  \A u \in Uids : ~IsSupporterUid(u) /\ QueueWithoutSupporter =>
    (<>[](queue.enabled /\ Waits(u)) => []<>(OpenCasesOf(u) # {} \/ Full))

\* Every take request ends, and with it the channel-create lock is free again.
TakesEnd ==
  \A r \in Requests : reqs[r].stage = "lock" ~> reqs[r].stage = "idle"
================================================================================
