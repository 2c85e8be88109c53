------------------------------- MODULE TempGroups -------------------------------
(***************************************************************************)
(* Temporary server groups: TeamSpeak has no end for a membership, so a    *)
(* row holds the deadline and a job takes the group away once it has       *)
(* passed.  The job works on the rows its pass has read, one after the     *)
(* other, with commands that may fail or lose their answers; web requests  *)
(* give a group, move a deadline, drop it or end it at once in between.    *)
(*                                                                         *)
(* A pair is a client and a group.  Times are ticks left, 0 when passed.   *)
(***************************************************************************)
EXTENDS Naturals, FiniteSets

CONSTANTS
  Pairs,      \* a client and a group
  Ids,        \* bound: the rows there may be at once
  Posts,      \* requests that give a group
  Revokes,    \* requests that end a membership now
  Job,
  NoOne, ByHand, Stray,
  MaxSpan,    \* bound: ticks to a deadline or to the next try
  MaxFaults   \* bound: commands that fail, and restarts

ASSUME TempAssumption ==
  /\ NoOne \notin Ids /\ ByHand \notin Ids /\ Stray \notin Ids
  /\ ByHand # NoOne /\ Stray # NoOne
  /\ Job \notin Revokes
  /\ MaxSpan \in Nat \ {0} /\ MaxFaults \in Nat

Workers == Revokes \cup {Job}
Spans   == 1 .. MaxSpan
Times   == 0 .. MaxSpan
Never   == MaxSpan + 1

VARIABLES
  member,  \* TeamSpeak: NoOne, or how the client came into the group: for a row, by hand, or
           \* Stray, given for a row that does not hold it: it was revoked before the add, or its
           \* POST was told that the add had failed
  rows,    \* the table TemporaryServerGroup
  todo,    \* the rows the job's pass has read and not yet worked on
  work,    \* the attempt to take a group away, of the job and of each revoke request
  post,    \* the POST requests
  faults   \* bound: faults so far

vars == <<member, rows, todo, work, post, faults>>

OpenStates  == {"active", "waiting", "error"}
EndedStates == {"revoked", "already-removed", "permanent"}
Failures    == {"waiting", "error"}
Results     == {"revoked", "already-removed"} \cup Failures

NoRow == [pair |-> NoOne, state |-> "absent", expires |-> 0, next |-> Never]

\* A deleted row keeps its pair for whoever has read it.
Deleted(row) == [NoRow EXCEPT !.pair = row.pair]

Idle    == [at |-> "idle", row |-> NoOne, result |-> "none"]
NoPost  == [at |-> "idle", pair |-> NoOne, span |-> 0, confirmed |-> FALSE, wasMember |-> FALSE, row |-> NoOne]

IsOpen(id)  == rows[id].state \in OpenStates
IsEnded(id) == rows[id].state \in EndedStates

\* A free id: autoincrement never gives one twice, and nobody remembers this one.
Unused(id) ==
  /\ id \notin todo
  /\ \A w \in Workers : work[w].row # id
  /\ \A q \in Posts : post[q].row # id
  /\ \A p \in Pairs : member[p] # id
Free(id) == rows[id].state = "absent" /\ Unused(id)

Fault == faults < MaxFaults /\ faults' = faults + 1

------------------------------------------------------------------------------
(* Giving a group until a deadline: POST / *)

PostRead(q) ==
  /\ post[q].at = "idle"
  /\ \E p \in Pairs, span \in Spans, confirmed \in BOOLEAN :
       /\ \A id \in Ids : rows[id].pair = p => ~IsOpen(id)
       /\ post' = [post EXCEPT ![q] =
            [NoPost EXCEPT !.at = "look", !.pair = p, !.span = span, !.confirmed = confirmed]]
  /\ UNCHANGED <<member, rows, todo, work, faults>>

\* A member without a deadline is only given one when the caller has confirmed it.
PostLook(q) ==
  /\ post[q].at = "look"
  /\ LET isMember == member[post[q].pair] # NoOne IN
       \/ post' = [post EXCEPT ![q] = NoPost]
       \/ /\ isMember => post[q].confirmed
          /\ post' = [post EXCEPT ![q].at = "create", ![q].confirmed = FALSE, ![q].wasMember = isMember]
  /\ UNCHANGED <<member, rows, todo, work, faults>>

\* The row comes before the membership.
PostCreate(q) ==
  /\ post[q].at = "create"
  /\ \E id \in Ids :
       /\ Free(id)
       /\ rows' = [rows EXCEPT ![id] = [pair |-> post[q].pair, state |-> "active",
                                        expires |-> post[q].span, next |-> post[q].span]]
       /\ post' = [post EXCEPT ![q] =
            IF post[q].wasMember THEN NoPost
            ELSE [NoPost EXCEPT !.at = "add", !.pair = post[q].pair, !.row = id]]
  /\ UNCHANGED <<member, todo, work, faults>>

\* The row still holds the membership that is given for it.
Holds(id) == IsOpen(id) /\ \A w \in Workers : ~(work[w].row = id /\ work[w].at = "write")

PostAdd(q) ==
  /\ post[q].at = "add"
  /\ member[post[q].pair] = NoOne
  /\ member' = [member EXCEPT ![post[q].pair] = IF Holds(post[q].row) THEN post[q].row ELSE Stray]
  /\ post' = [post EXCEPT ![q] = NoPost]
  /\ UNCHANGED <<rows, todo, work, faults>>

\* Someone else added the client, the group is gone, or TeamSpeak is.
PostRefused(q) ==
  /\ post[q].at = "add"
  /\ post' = [post EXCEPT ![q].at = "undo"]
  /\ UNCHANGED <<member, rows, todo, work, faults>>

\* The add is carried out after the request has given up waiting for it.
PostAddLost(q) ==
  /\ post[q].at = "add"
  /\ Fault
  /\ member[post[q].pair] = NoOne
  /\ member' = [member EXCEPT ![post[q].pair] = Stray]
  /\ post' = [post EXCEPT ![q].at = "undo"]
  /\ UNCHANGED <<rows, todo, work>>

PostUndo(q) ==
  /\ post[q].at = "undo"
  /\ rows' = [rows EXCEPT ![post[q].row] = Deleted(rows[post[q].row])]
  /\ post' = [post EXCEPT ![q] = NoPost]
  /\ UNCHANGED <<member, todo, work, faults>>

------------------------------------------------------------------------------
(* Taking a group away: the job's pass, and POST /:id/revoke *)

IsDue(id) == IsOpen(id) /\ rows[id].next = 0

\* Mutated: a row whose last try failed is not tried again.
DueUntried(id) == rows[id].state = "active" /\ rows[id].next = 0

Due(id) == IsDue(id)

PassStart ==
  /\ todo = {} /\ work[Job] = Idle
  /\ todo' = {id \in Ids : Due(id)}
  /\ UNCHANGED <<member, rows, work, post, faults>>

NextRow ==
  /\ work[Job] = Idle
  /\ \E id \in todo :
       /\ todo' = todo \ {id}
       /\ work' = [work EXCEPT ![Job] = [Idle EXCEPT !.at = "check", !.row = id]]
  /\ UNCHANGED <<member, rows, post, faults>>

RevokeRead(r) ==
  /\ work[r] = Idle
  /\ \E id \in Ids :
       /\ IsOpen(id)
       /\ work' = [work EXCEPT ![r] = [Idle EXCEPT !.at = "check", !.row = id]]
  /\ UNCHANGED <<member, rows, todo, post, faults>>

PairOf(w) == rows[work[w].row].pair

\* The attempt is over with this result, which is written next.
Conclude(w, result) == work' = [work EXCEPT ![w].at = "write", ![w].result = result]

\* clientdbinfo: is the database entry there, and the same client's?
Check(w) ==
  /\ work[w].at = "check"
  /\ \/ work' = [work EXCEPT ![w].at = "remove"]
     \/ member[PairOf(w)] = NoOne /\ Conclude(w, "already-removed")
  /\ UNCHANGED <<member, rows, todo, post, faults>>

\* servergroupdelclient
Remove(w) ==
  /\ work[w].at = "remove"
  /\ IF member[PairOf(w)] = NoOne
     THEN member' = member /\ Conclude(w, "already-removed")
     ELSE member' = [member EXCEPT ![PairOf(w)] = NoOne] /\ Conclude(w, "revoked")
  /\ UNCHANGED <<rows, todo, post, faults>>

\* A connection that is down, a command that times out or is refused.  The removal may be carried
\* out although its answer is lost.
AttemptFails(w) ==
  /\ Fault
  /\ \/ work[w].at = "check" /\ member' = member
     \/ work[w].at = "remove" /\ member' \in {member, [member EXCEPT ![PairOf(w)] = NoOne]}
  /\ \E failure \in Failures : Conclude(w, failure)
  /\ UNCHANGED <<rows, todo, post>>

\* Mutated: a failure ends the row.
EndedAnyway(row, result) ==
  {[row EXCEPT !.state = IF result \in Failures THEN "already-removed" ELSE result, !.next = Never]}

\* A failure stays open with a pause that grows with the attempts; anything else ends the row.
RowAfterAttempt(row, result) ==
  IF result \in Failures
  THEN {[row EXCEPT !.state = result, !.next = pause] : pause \in Spans}
  ELSE {[row EXCEPT !.state = result, !.next = Never]}

\* Mutated: the result is written whatever became of the row.
AlwaysApplies(id) == rows[id].state # "absent"

\* Only an open row is written: an update with a condition.
Applies(id) == IsOpen(id)

Write(w) ==
  /\ work[w].at = "write"
  /\ LET id == work[w].row IN
       IF Applies(id)
       THEN \E row \in RowAfterAttempt(rows[id], work[w].result) : rows' = [rows EXCEPT ![id] = row]
       ELSE rows' = rows
  /\ work' = [work EXCEPT ![w] = Idle]
  /\ UNCHANGED <<member, todo, post, faults>>

\* The database fails: the pass ends, and the next one begins again.
PassFails ==
  /\ Fault
  /\ work[Job] # Idle \/ todo # {}
  /\ todo' = {}
  /\ work' = [work EXCEPT ![Job] = Idle]
  /\ UNCHANGED <<member, rows, post>>

------------------------------------------------------------------------------
(* Moving and dropping a deadline: PUT /:id, POST /:id/permanent; retention *)

Extend(id) ==
  /\ IsOpen(id)
  /\ \E span \in Spans :
       rows' = [rows EXCEPT ![id].state = "active", ![id].expires = span, ![id].next = span]
  /\ UNCHANGED <<member, todo, work, post, faults>>

\* Mutated: the next try stays.
PermanentRowStillDue(row) == [row EXCEPT !.state = "permanent"]

PermanentRow(row) == [row EXCEPT !.state = "permanent", !.next = Never]

\* The membership is one without a deadline again.
MakePermanent(id) ==
  /\ IsOpen(id)
  /\ rows' = [rows EXCEPT ![id] = PermanentRow(rows[id])]
  /\ member' = [p \in Pairs |-> IF member[p] = id THEN ByHand ELSE member[p]]
  /\ UNCHANGED <<todo, work, post, faults>>

\* Ended rows are kept for days: nobody works on one any more.
Prune(id) ==
  /\ IsEnded(id) /\ Unused(id)
  /\ rows' = [rows EXCEPT ![id] = NoRow]
  /\ UNCHANGED <<member, todo, work, post, faults>>

------------------------------------------------------------------------------
(* Around it: other ways into and out of a group, the clock, the process *)

AddByHand(p) ==
  /\ member[p] = NoOne
  /\ member' = [member EXCEPT ![p] = ByHand]
  /\ UNCHANGED <<rows, todo, work, post, faults>>

\* Also: the client is deleted, or its database entry becomes another client's.
RemoveByHand(p) ==
  /\ member[p] # NoOne
  /\ member' = [member EXCEPT ![p] = NoOne]
  /\ UNCHANGED <<rows, todo, work, post, faults>>

Less(t) == IF t \in Spans THEN t - 1 ELSE t

Tick ==
  /\ rows' = [id \in Ids |-> [rows[id] EXCEPT !.expires = Less(rows[id].expires),
                                              !.next = Less(rows[id].next)]]
  /\ post' = [q \in Posts |-> [post[q] EXCEPT !.span = Less(post[q].span)]]
  /\ UNCHANGED <<member, todo, work, faults>>

Restart ==
  /\ Fault
  /\ todo' = {}
  /\ work' = [w \in Workers |-> Idle]
  /\ post' = [q \in Posts |-> NoPost]
  /\ UNCHANGED <<member, rows>>

------------------------------------------------------------------------------

Init ==
  /\ member \in [Pairs -> {NoOne, ByHand}]
  /\ rows = [id \in Ids |-> NoRow]
  /\ todo = {}
  /\ work = [w \in Workers |-> Idle]
  /\ post = [q \in Posts |-> NoPost]
  /\ faults = 0

PostStep(q) == \/ PostRead(q) \/ PostLook(q) \/ PostCreate(q) \/ PostAdd(q)
               \/ PostRefused(q) \/ PostAddLost(q) \/ PostUndo(q)
Attempt(w)  == Check(w) \/ Remove(w) \/ AttemptFails(w) \/ Write(w)
RowStep(id) == Extend(id) \/ MakePermanent(id) \/ Prune(id)
JobStep     == NextRow \/ Attempt(Job)

Next ==
  \/ \E q \in Posts : PostStep(q)
  \/ PassStart \/ NextRow \/ PassFails
  \/ \E r \in Revokes : RevokeRead(r)
  \/ \E w \in Workers : Attempt(w)
  \/ \E id \in Ids : RowStep(id)
  \/ \E p \in Pairs : AddByHand(p) \/ RemoveByHand(p)
  \/ Tick \/ Restart

Spec == Init /\ [][Next]_vars

\* The timer starts passes for ever, and a pass goes on: every command ends or times out.
FairSpec == Spec /\ WF_vars(Tick) /\ WF_vars(PassStart) /\ WF_vars(JobStep)

------------------------------------------------------------------------------
(* Properties *)

Rows  == [pair : Pairs \cup {NoOne}, state : OpenStates \cup EndedStates \cup {"absent"},
          expires : Times, next : Times \cup {Never}]
Works == [at : {"idle", "check", "remove", "write"}, row : Ids \cup {NoOne},
          result : Results \cup {"none"}]
PostSet == [at : {"idle", "look", "create", "add", "undo"}, pair : Pairs \cup {NoOne}, span : Times,
            confirmed : BOOLEAN, wasMember : BOOLEAN, row : Ids \cup {NoOne}]

TypeOK ==
  /\ member \in [Pairs -> Ids \cup {NoOne, ByHand, Stray}]
  /\ rows \in [Ids -> Rows]
  /\ todo \subseteq Ids
  /\ work \in [Workers -> Works]
  /\ post \in [Posts -> PostSet]
  /\ faults \in 0 .. MaxFaults

\* An open row always has a time at which the job looks at it, and only an open one has: a row
\* without would never be taken away again.
OpenIsScheduled == \A id \in Ids : IsOpen(id) <=> rows[id].next # Never

\* A membership given for a row is remembered: as long as the client is in the group, the row is
\* open.  No failure, retry, race of attempts or restart ends the row and leaves the membership.
NobodyForgotten ==
  \A p \in Pairs : member[p] \in Ids => IsOpen(member[p]) /\ rows[member[p]].pair = p

\* What a row in use says of its pair.
RowsKnown ==
  /\ \A id \in Ids : rows[id].state # "absent" \/ id \in todo => rows[id].pair \in Pairs
  /\ \A w \in Workers : work[w].at # "idle" => work[w].row \in Ids /\ rows[work[w].row].pair \in Pairs
  /\ \A q \in Posts :
       /\ post[q].at # "idle" => post[q].pair \in Pairs
       /\ post[q].at \in {"add", "undo"} =>
            /\ post[q].row \in Ids /\ rows[post[q].row].pair = post[q].pair
            /\ \A p \in Pairs : member[p] # post[q].row
       /\ post[q].at \notin {"add", "undo"} => post[q].row = NoOne

\* Requests that give a group work on rows of their own.
PostsApart == \A q, r \in Posts : post[q].row = post[r].row /\ post[q].row # NoOne => q = r

\* A result that ends a row: its membership is gone by then.
ResultIsTrue ==
  \A w \in Workers :
    work[w].at = "write" =>
      /\ work[w].result \in Results
      /\ work[w].result \notin Failures => \A p \in Pairs : member[p] # work[w].row

\* The inductive invariant of the proof.
TempInv == TypeOK /\ OpenIsScheduled /\ NobodyForgotten /\ RowsKnown /\ PostsApart /\ ResultIsTrue

\* What has ended stays as it ended until it is deleted: no late result, extension or retry
\* writes over a membership that was made permanent or is over.
EndedStaysEnded ==
  [][\A id \in Ids : IsEnded(id) =>
       /\ rows'[id].state \in {rows[id].state, "absent"}
       /\ rows'[id].next = Never]_vars

\* An overdue membership is ended, or gets a new deadline: no outage, failed pass or restart
\* makes the job forget it.
OverdueEnds ==
  \A id \in Ids : (IsOpen(id) /\ rows[id].expires = 0) ~> ~(IsOpen(id) /\ rows[id].expires = 0)

=================================================================================
