---------------------------- MODULE TempGroupsProofs ----------------------------
(***************************************************************************)
(* For any clients, groups, rows, requests and bounds: no membership is    *)
(* left without the row that ends it, and no ended row changes again.      *)
(***************************************************************************)
EXTENDS TempGroups, TLAPS

LEMMA TimeTypes ==
  /\ 0 \in Times /\ Spans \subseteq Times
  /\ Never \notin Times /\ Never \notin Spans
  /\ \A t \in Times : Less(t) \in Times
  /\ Less(Never) = Never
BY TempAssumption DEF Times, Spans, Never, Less

LEMMA RecordTypes ==
  /\ NoRow \in Rows /\ Idle \in Works /\ NoPost \in PostSet
  /\ \A row \in Rows : Deleted(row) \in Rows
BY TimeTypes DEF NoRow, Rows, Idle, Works, NoPost, PostSet, Deleted

LEMMA WrittenRows ==
  ASSUME NEW row \in Rows, NEW result \in Results, NEW r \in RowAfterAttempt(row, result)
  PROVE  /\ r \in Rows /\ r.pair = row.pair /\ r.state = result
         /\ result \in Failures => r.next # Never
         /\ result \notin Failures => r.next = Never
<1>1. CASE result \in Failures
  <2>1. PICK pause \in Spans : r = [row EXCEPT !.state = result, !.next = pause]
    BY <1>1 DEF RowAfterAttempt
  <2>2. pause \in Times /\ pause # Never
    BY TimeTypes
  <2>3. result \in OpenStates
    BY <1>1 DEF Failures, OpenStates
  <2>4. QED
    BY <1>1, <2>1, <2>2, <2>3 DEF Rows
<1>2. CASE result \notin Failures
  <2>1. r = [row EXCEPT !.state = result, !.next = Never]
    BY <1>2 DEF RowAfterAttempt
  <2>2. result \in EndedStates
    BY <1>2 DEF Results, EndedStates
  <2>3. QED
    BY <1>2, <2>1, <2>2 DEF Rows
<1>3. QED
  BY <1>1, <1>2

LEMMA FaultType == TypeOK /\ Fault => faults' \in 0 .. MaxFaults
BY TempAssumption DEF TypeOK, Fault

LEMMA PostType == ASSUME TypeOK, NEW q \in Posts, PostStep(q) PROVE TypeOK'
<1>1. CASE PostRead(q)
  <2>1. PICK p \in Pairs, span \in Spans, confirmed \in BOOLEAN :
          post' = [post EXCEPT ![q] =
            [NoPost EXCEPT !.at = "look", !.pair = p, !.span = span, !.confirmed = confirmed]]
    BY <1>1 DEF PostRead
  <2>2. [NoPost EXCEPT !.at = "look", !.pair = p, !.span = span, !.confirmed = confirmed] \in PostSet
    BY RecordTypes, TimeTypes DEF PostSet
  <2>3. QED
    BY <1>1, <2>1, <2>2 DEF PostRead, TypeOK
<1>2. CASE PostLook(q)
  BY <1>2, RecordTypes DEF PostLook, TypeOK, PostSet
<1>3. CASE PostCreate(q)
  <2>1. PICK id \in Ids : /\ Free(id)
       /\ rows' = [rows EXCEPT ![id] = [pair |-> post[q].pair, state |-> "active",
                                        expires |-> post[q].span, next |-> post[q].span]]
       /\ post' = [post EXCEPT ![q] =
            IF post[q].wasMember THEN NoPost
            ELSE [NoPost EXCEPT !.at = "add", !.pair = post[q].pair, !.row = id]]
    BY <1>3 DEF PostCreate
  <2>2. [pair |-> post[q].pair, state |-> "active", expires |-> post[q].span, next |-> post[q].span] \in Rows
    BY DEF TypeOK, PostSet, Rows, OpenStates
  <2>3. rows' \in [Ids -> Rows]
    BY <2>1, <2>2 DEF TypeOK
  <2>4. [NoPost EXCEPT !.at = "add", !.pair = post[q].pair, !.row = id] \in PostSet
    BY RecordTypes DEF TypeOK, PostSet
  <2>5. QED
    BY <1>3, <2>1, <2>3, <2>4, RecordTypes DEF PostCreate, TypeOK
<1>4. CASE PostAdd(q)
  BY <1>4, RecordTypes DEF PostAdd, TypeOK, PostSet
<1>5. CASE PostRefused(q)
  <2>1. post' = [post EXCEPT ![q] = [post[q] EXCEPT !.at = "undo"]] /\ UNCHANGED <<member, rows, todo, work, faults>>
    BY <1>5 DEF PostRefused, TypeOK
  <2>2. [post[q] EXCEPT !.at = "undo"] \in PostSet
    BY DEF TypeOK, PostSet
  <2>3. post' \in [Posts -> PostSet]
    BY <2>1, <2>2 DEF TypeOK
  <2>4. QED
    BY <2>1, <2>3 DEF TypeOK
<1>6. CASE PostAddLost(q)
  <2>1. faults' \in 0 .. MaxFaults
    BY <1>6, FaultType DEF PostAddLost
  <2>2. member' \in [Pairs -> Ids \cup {NoOne, ByHand, Stray}]
    BY <1>6 DEF PostAddLost, TypeOK
  <2>4. post' \in [Posts -> PostSet]
    BY <1>6 DEF PostAddLost, TypeOK, PostSet
  <2>3. QED
    BY <1>6, <2>1, <2>2, <2>4 DEF PostAddLost, TypeOK
<1>7. CASE PostUndo(q)
  BY <1>7, RecordTypes DEF PostUndo, TypeOK
<1>8. QED
  BY <1>1, <1>2, <1>3, <1>4, <1>5, <1>6, <1>7 DEF PostStep

LEMMA AttemptType ==
  ASSUME TypeOK, RowsKnown, ResultIsTrue, NEW w \in Workers, Attempt(w)
  PROVE  TypeOK'
<1>1. CASE Check(w)
  BY <1>1 DEF Check, Conclude, TypeOK, Works, Results
<1>2. CASE Remove(w)
  BY <1>2 DEF Remove, Conclude, TypeOK, Works, Results
<1>3. CASE AttemptFails(w)
  <2>1. faults' \in 0 .. MaxFaults
    BY <1>3, FaultType DEF AttemptFails
  <2>2. member' \in [Pairs -> Ids \cup {NoOne, ByHand, Stray}]
    BY <1>3 DEF AttemptFails, TypeOK
  <2>3. PICK failure \in Failures : Conclude(w, failure)
    BY <1>3 DEF AttemptFails
  <2>5. work' \in [Workers -> Works]
    <3>1. [work[w] EXCEPT !.at = "write", !.result = failure] \in Works
      BY DEF TypeOK, Works, Results
    <3>2. work' = [work EXCEPT ![w] = [work[w] EXCEPT !.at = "write", !.result = failure]]
      BY <2>3 DEF Conclude
    <3>3. QED
      BY <3>1, <3>2 DEF TypeOK
  <2>4. QED
    BY <1>3, <2>1, <2>2, <2>5 DEF AttemptFails, TypeOK
<1>4. CASE Write(w)
  <2>1. work[w].result \in Results /\ work[w].row \in Ids
    BY <1>4 DEF Write, RowsKnown, ResultIsTrue
  <2>2. rows' \in [Ids -> Rows]
    BY <1>4, <2>1, WrittenRows DEF Write, TypeOK
  <2>3. QED
    BY <1>4, <2>2, RecordTypes DEF Write, TypeOK
<1>5. QED
  BY <1>1, <1>2, <1>3, <1>4 DEF Attempt

LEMMA OtherType ==
  ASSUME TypeOK,
         \/ PassStart \/ NextRow \/ PassFails \/ \E r \in Revokes : RevokeRead(r)
         \/ \E id \in Ids : RowStep(id)
         \/ \E p \in Pairs : AddByHand(p) \/ RemoveByHand(p)
         \/ Tick \/ Restart
  PROVE  TypeOK'
<1>1. CASE PassStart
  BY <1>1 DEF PassStart, TypeOK
<1>2. CASE NextRow
  <2>1. PICK id \in todo : /\ todo' = todo \ {id}
                           /\ work' = [work EXCEPT ![Job] = [Idle EXCEPT !.at = "check", !.row = id]]
    BY <1>2 DEF NextRow
  <2>2. [Idle EXCEPT !.at = "check", !.row = id] \in Works
    BY RecordTypes DEF TypeOK, Works
  <2>3. QED
    BY <1>2, <2>1, <2>2 DEF NextRow, TypeOK
<1>3. CASE PassFails
  BY <1>3, RecordTypes, FaultType DEF PassFails, TypeOK
<1>4. ASSUME NEW r \in Revokes, RevokeRead(r) PROVE TypeOK'
  <2>1. PICK id \in Ids : work' = [work EXCEPT ![r] = [Idle EXCEPT !.at = "check", !.row = id]]
    BY <1>4 DEF RevokeRead
  <2>2. [Idle EXCEPT !.at = "check", !.row = id] \in Works
    BY RecordTypes DEF Works
  <2>3. QED
    BY <1>4, <2>1, <2>2 DEF RevokeRead, TypeOK
<1>5. ASSUME NEW id \in Ids, RowStep(id) PROVE TypeOK'
  <2>1. CASE Extend(id)
    <3>1. PICK span \in Spans :
            rows' = [rows EXCEPT ![id].state = "active", ![id].expires = span, ![id].next = span]
      BY <2>1 DEF Extend
    <3>2. span \in Times
      BY TimeTypes
    <3> DEFINE extended == [rows[id] EXCEPT !.state = "active", !.expires = span, !.next = span]
    <3>3. extended \in Rows
      BY <3>2 DEF TypeOK, Rows, OpenStates
    <3>4. rows' = [rows EXCEPT ![id] = extended]
      BY <3>1 DEF TypeOK
    <3>5. rows' \in [Ids -> Rows]
      BY <3>3, <3>4 DEF TypeOK
    <3>6. QED
      BY <2>1, <3>5 DEF Extend, TypeOK
  <2>2. CASE MakePermanent(id)
    BY <1>5, <2>2 DEF MakePermanent, PermanentRow, TypeOK, Rows, EndedStates
  <2>3. CASE Prune(id)
    BY <1>5, <2>3, RecordTypes DEF Prune, TypeOK
  <2>4. QED
    BY <1>5, <2>1, <2>2, <2>3 DEF RowStep
<1>6. ASSUME NEW p \in Pairs, AddByHand(p) \/ RemoveByHand(p) PROVE TypeOK'
  BY <1>6 DEF AddByHand, RemoveByHand, TypeOK
<1>7. CASE Tick
  <2>1. \A id \in Ids : [rows[id] EXCEPT !.expires = Less(rows[id].expires), !.next = Less(rows[id].next)] \in Rows
    BY TimeTypes DEF TypeOK, Rows
  <2>2. \A q \in Posts : [post[q] EXCEPT !.span = Less(post[q].span)] \in PostSet
    BY TimeTypes DEF TypeOK, PostSet
  <2>3. QED
    BY <1>7, <2>1, <2>2 DEF Tick, TypeOK
<1>8. CASE Restart
  BY <1>8, RecordTypes, FaultType DEF Restart, TypeOK
<1>9. QED
  BY <1>1, <1>2, <1>3, <1>4, <1>5, <1>6, <1>7, <1>8

------------------------------------------------------------------------------
(* The parts of the invariant that are not types *)

RowParts == OpenIsScheduled /\ NobodyForgotten /\ RowsKnown /\ PostsApart /\ ResultIsTrue
EndedKept == \A id \in Ids : IsEnded(id) =>
               /\ rows'[id].state \in {rows[id].state, "absent"}
               /\ rows'[id].next = Never

LEMMA States ==
  /\ OpenStates \cap EndedStates = {}
  /\ "absent" \notin OpenStates /\ "absent" \notin EndedStates
  /\ \A id \in Ids : IsOpen(id) => ~IsEnded(id) /\ rows[id].state # "absent"
  /\ NoRow.state = "absent" /\ NoRow.next = Never
  /\ \A row : /\ Deleted(row).state = "absent" /\ Deleted(row).next = Never
              /\ Deleted(row).pair = row.pair
BY DEF OpenStates, EndedStates, IsOpen, IsEnded, NoRow, Deleted

LEMMA EndedAreQuiet ==
  ASSUME TypeOK, OpenIsScheduled, NEW id \in Ids, IsEnded(id)
  PROVE  ~IsOpen(id) /\ rows[id].next = Never
BY States DEF OpenIsScheduled, IsEnded, IsOpen, OpenStates, EndedStates

LEMMA SameRows ==
  ASSUME TempInv, rows' = rows
  PROVE  OpenIsScheduled' /\ EndedKept
BY EndedAreQuiet DEF TempInv, OpenIsScheduled, EndedKept, IsOpen

LEMMA PostParts ==
  ASSUME TempInv, NEW q \in Posts, PostStep(q)
  PROVE  RowParts' /\ EndedKept
<1> USE States DEF TempInv
<1>1. CASE PostRead(q)
  BY <1>1, EndedAreQuiet
     DEF PostRead, RowParts, EndedKept, OpenIsScheduled, NobodyForgotten, RowsKnown, PostsApart, ResultIsTrue,
         IsOpen, IsEnded, NoPost, TypeOK
<1>2. CASE PostLook(q)
  <2> DEFINE looked == [post[q] EXCEPT !.at = "create", !.confirmed = FALSE,
                                       !.wasMember = member[post[q].pair] # NoOne]
  <2>0. /\ looked.at = "create" /\ looked.row = post[q].row /\ looked.pair = post[q].pair
        /\ NoPost.at = "idle" /\ NoPost.row = NoOne
        /\ post[q].row = NoOne
    BY <1>2 DEF PostLook, TypeOK, PostSet, NoPost, RowsKnown
  <2>6. \/ post' = [post EXCEPT ![q] = NoPost]
        \/ post' = [post EXCEPT ![q] = looked]
    BY <1>2 DEF PostLook, TypeOK
  <2>1. /\ \A r \in Posts \ {q} : post'[r] = post[r]
        /\ post'[q].at \in {"idle", "create"} /\ post'[q].row = NoOne
        /\ post'[q].at = "create" => post'[q].pair = post[q].pair
    BY <2>0, <2>6 DEF TypeOK
  <2>2. NobodyForgotten' /\ ResultIsTrue' /\ OpenIsScheduled' /\ EndedKept
    BY <1>2, SameRows DEF PostLook, NobodyForgotten, ResultIsTrue, IsOpen
  <2>3. RowsKnown'
    BY <1>2, <2>1 DEF PostLook, RowsKnown
  <2>4. PostsApart'
    BY <2>1 DEF PostsApart
  <2>5. QED
    BY <2>2, <2>3, <2>4 DEF RowParts
<1>3. CASE PostCreate(q)
  <2>1. PICK id \in Ids : /\ Free(id)
       /\ rows' = [rows EXCEPT ![id] = [pair |-> post[q].pair, state |-> "active",
                                        expires |-> post[q].span, next |-> post[q].span]]
       /\ post' = [post EXCEPT ![q] =
            IF post[q].wasMember THEN NoPost
            ELSE [NoPost EXCEPT !.at = "add", !.pair = post[q].pair, !.row = id]]
    BY <1>3 DEF PostCreate
  <2>2. /\ \A i \in Ids \ {id} : rows'[i] = rows[i]
        /\ rows'[id].pair = post[q].pair /\ rows'[id].state = "active" /\ rows'[id].next = post[q].span
        /\ rows[id].state = "absent"
    BY <2>1 DEF TypeOK, Free
  <2>3. /\ \A r \in Posts \ {q} : post'[r] = post[r]
        /\ \/ post'[q] = NoPost
           \/ post'[q].at = "add" /\ post'[q].pair = post[q].pair /\ post'[q].row = id
    BY <2>1 DEF TypeOK, NoPost
  <2>4. /\ post[q].pair \in Pairs /\ post[q].span \in Times
        /\ post[q].at = "create"
    BY <1>3 DEF PostCreate, RowsKnown, TypeOK, PostSet
  <2>5. OpenIsScheduled' /\ EndedKept
    BY <2>2, <2>4, TimeTypes, EndedAreQuiet DEF OpenIsScheduled, EndedKept, IsOpen, IsEnded, OpenStates
  <2>6. Unused(id)
    BY <2>1 DEF Free
  <2>7. NobodyForgotten'
    BY <1>3, <2>2, <2>6 DEF PostCreate, NobodyForgotten, IsOpen, Unused
  <2>8. RowsKnown'
    BY <1>3, <2>2, <2>3, <2>4, <2>6 DEF PostCreate, RowsKnown, Unused, NoPost
  <2>9. PostsApart'
    BY <2>3, <2>6, TempAssumption DEF PostsApart, Unused, NoPost
  <2>10. ResultIsTrue'
    BY <1>3 DEF PostCreate, ResultIsTrue
  <2>11. QED
    BY <2>5, <2>7, <2>8, <2>9, <2>10 DEF RowParts
<1>4. CASE PostAdd(q)
  <2> DEFINE id == post[q].row
  <2>1. /\ id \in Ids /\ rows[id].pair = post[q].pair /\ post[q].pair \in Pairs
        /\ \A p \in Pairs : member[p] # id
    BY <1>4 DEF PostAdd, RowsKnown
  <2>2. /\ \A r \in Posts \ {q} : post'[r] = post[r]
        /\ post'[q] = NoPost
    BY <1>4 DEF PostAdd, TypeOK
  <2>3. /\ \A p \in Pairs \ {post[q].pair} : member'[p] = member[p]
        /\ \/ member'[post[q].pair] = id /\ Holds(id)
           \/ member'[post[q].pair] = Stray
    BY <1>4, <2>1 DEF PostAdd, TypeOK
  <2>10. rows' = rows
    BY <1>4 DEF PostAdd
  <2>4. OpenIsScheduled' /\ EndedKept
    BY <2>10, SameRows
  <2>5. NobodyForgotten'
    <3>1. ASSUME NEW p \in Pairs, member'[p] \in Ids
          PROVE  IsOpen(member'[p]) /\ rows[member'[p]].pair = p
      <4>1. CASE p = post[q].pair
        BY <2>1, <2>3, <3>1, <4>1, TempAssumption DEF Holds
      <4>2. CASE p # post[q].pair
        BY <2>3, <3>1, <4>2 DEF NobodyForgotten
      <4>3. QED
        BY <4>1, <4>2
    <3>2. QED
      BY <2>10, <3>1 DEF NobodyForgotten, IsOpen
  <2>6. RowsKnown'
    BY <1>4, <2>1, <2>2, <2>3, TempAssumption DEF PostAdd, RowsKnown, PostsApart, NoPost
  <2>7. PostsApart'
    BY <2>2 DEF PostsApart, NoPost
  <2>8. ResultIsTrue'
    BY <1>4, <2>3, TempAssumption DEF PostAdd, ResultIsTrue, Holds, RowsKnown
  <2>9. QED
    BY <2>4, <2>5, <2>6, <2>7, <2>8 DEF RowParts
<1>5. CASE PostRefused(q)
  BY <1>5, EndedAreQuiet
     DEF PostRefused, RowParts, EndedKept, OpenIsScheduled, NobodyForgotten, RowsKnown, PostsApart, ResultIsTrue,
         IsOpen, IsEnded, TypeOK, PostSet
<1>6. CASE PostAddLost(q)
  BY <1>6, EndedAreQuiet, TempAssumption
     DEF PostAddLost, RowParts, EndedKept, OpenIsScheduled, NobodyForgotten, RowsKnown, PostsApart, ResultIsTrue,
         IsOpen, IsEnded, TypeOK, PostSet
<1>7. CASE PostUndo(q)
  BY <1>7, EndedAreQuiet
     DEF PostUndo, RowParts, EndedKept, OpenIsScheduled, NobodyForgotten, RowsKnown, PostsApart, ResultIsTrue,
         IsOpen, IsEnded, NoPost, TypeOK, PostSet
<1>8. QED
  BY <1>1, <1>2, <1>3, <1>4, <1>5, <1>6, <1>7 DEF PostStep

\* An attempt goes on: only its own record changes, and a result that ends the row is true.
LEMMA WorkGoesOn ==
  ASSUME TempInv, NEW w \in Workers, work[w].at # "idle",
         rows' = rows, todo' = todo, post' = post,
         \A p \in Pairs : member'[p] \in {member[p], NoOne},
         \A v \in Workers \ {w} : work'[v] = work[v],
         work'[w].row = work[w].row,
         work'[w].at = "write" =>
           /\ work'[w].result \in Results
           /\ work'[w].result \notin Failures => \A p \in Pairs : member'[p] # work[w].row
  PROVE  RowParts' /\ EndedKept
<1> USE DEF TempInv
<1>1. OpenIsScheduled' /\ EndedKept
  BY SameRows
<1>2. NobodyForgotten'
  BY TempAssumption DEF NobodyForgotten, IsOpen
<1>3. RowsKnown'
  BY TempAssumption DEF RowsKnown
<1>4. PostsApart'
  BY DEF PostsApart
<1>5. ResultIsTrue'
  BY TempAssumption DEF ResultIsTrue, RowsKnown
<1>6. QED
  BY <1>1, <1>2, <1>3, <1>4, <1>5 DEF RowParts

LEMMA AttemptParts ==
  ASSUME TempInv, NEW w \in Workers, Attempt(w)
  PROVE  RowParts' /\ EndedKept
<1> USE States DEF TempInv
\* Once the client is not in the group, the row holds no membership.
<1>0. /\ work[w].at # "idle" => work[w].row \in Ids /\ PairOf(w) \in Pairs
      /\ work[w].at # "idle" => \A p \in Pairs : member[p] = work[w].row => p = PairOf(w)
  BY DEF RowsKnown, PairOf, NobodyForgotten
<1>1. CASE Check(w)
  <2>1. CASE work' = [work EXCEPT ![w].at = "remove"]
    <3>1. /\ \A v \in Workers \ {w} : work'[v] = work[v]
          /\ work'[w].row = work[w].row /\ work'[w].at = "remove"
      BY <2>1 DEF TypeOK, Works
    <3>2. QED
      BY <1>1, <3>1, WorkGoesOn DEF Check
  <2>2. CASE member[PairOf(w)] = NoOne /\ Conclude(w, "already-removed")
    <3>1. /\ \A v \in Workers \ {w} : work'[v] = work[v]
          /\ work'[w].row = work[w].row /\ work'[w].result = "already-removed"
      BY <2>2 DEF Conclude, TypeOK, Works
    <3>2. \A p \in Pairs : member[p] # work[w].row
      BY <1>0, <1>1, <2>2, TempAssumption DEF Check
    <3>3. QED
      BY <1>1, <3>1, <3>2, WorkGoesOn DEF Check, Results
  <2>3. QED
    BY <1>1, <2>1, <2>2 DEF Check
<1>2. CASE Remove(w)
  <2>1. PICK result \in {"already-removed", "revoked"} : Conclude(w, result)
    BY <1>2 DEF Remove
  <2>2. /\ \A v \in Workers \ {w} : work'[v] = work[v]
        /\ work'[w].row = work[w].row /\ work'[w].result = result
    BY <2>1 DEF Conclude, TypeOK, Works
  <2>3. /\ \A p \in Pairs : member'[p] \in {member[p], NoOne}
        /\ member'[PairOf(w)] = NoOne
    BY <1>0, <1>2 DEF Remove, TypeOK
  <2>4. \A p \in Pairs : member'[p] # work[w].row
    BY <1>0, <1>2, <2>3, TempAssumption DEF Remove
  <2>5. QED
    BY <1>2, <2>2, <2>3, <2>4, WorkGoesOn DEF Remove, Results
<1>3. CASE AttemptFails(w)
  <2>1. PICK failure \in Failures : Conclude(w, failure)
    BY <1>3 DEF AttemptFails
  <2>2. /\ \A v \in Workers \ {w} : work'[v] = work[v]
        /\ work'[w].row = work[w].row /\ work'[w].result = failure
    BY <2>1 DEF Conclude, TypeOK, Works
  <2>3. \A p \in Pairs : member'[p] \in {member[p], NoOne}
    BY <1>3 DEF AttemptFails, TypeOK
  <2>4. work[w].at # "idle" /\ rows' = rows /\ todo' = todo /\ post' = post
    BY <1>3 DEF AttemptFails
  <2>5. failure \in Results
    BY DEF Results
  <2>6. QED
    BY <2>2, <2>3, <2>4, <2>5, WorkGoesOn
<1>4. CASE Write(w)
  <2> DEFINE id == work[w].row
  <2>1. id \in Ids /\ work[w].result \in Results /\ rows[id].pair \in Pairs
    BY <1>4 DEF Write, RowsKnown, ResultIsTrue
  <2>2. /\ \A v \in Workers \ {w} : work'[v] = work[v]
        /\ work'[w] = Idle
    BY <1>4 DEF Write, TypeOK
  <2>3. \/ rows' = rows
        \/ IsOpen(id) /\ \E r \in RowAfterAttempt(rows[id], work[w].result) : rows' = [rows EXCEPT ![id] = r]
    BY <1>4 DEF Write, Applies
  <2>4. /\ \A i \in Ids \ {id} : rows'[i] = rows[i]
        /\ rows'[id].pair = rows[id].pair
        /\ \/ rows'[id] = rows[id]
           \/ /\ IsOpen(id)
              /\ rows'[id].state = work[w].result
              /\ work[w].result \in Failures => rows'[id].next # Never
              /\ work[w].result \notin Failures => rows'[id].next = Never
    BY <2>1, <2>3, WrittenRows DEF TypeOK
  <2>5. OpenIsScheduled' /\ EndedKept
    BY <2>1, <2>4, EndedAreQuiet
       DEF OpenIsScheduled, EndedKept, IsOpen, IsEnded, OpenStates, EndedStates, Results, Failures
  <2>6. NobodyForgotten'
    BY <1>4, <2>1, <2>4 DEF Write, NobodyForgotten, IsOpen, ResultIsTrue, Failures, OpenStates
  <2>7. RowsKnown'
    BY <1>4, <2>1, <2>2, <2>4 DEF Write, RowsKnown, Idle, IsOpen, OpenStates
  <2>8. PostsApart' /\ ResultIsTrue'
    BY <1>4, <2>2 DEF Write, PostsApart, ResultIsTrue, Idle
  <2>9. QED
    BY <2>5, <2>6, <2>7, <2>8 DEF RowParts
<1>5. QED
  BY <1>1, <1>2, <1>3, <1>4 DEF Attempt

LEMMA AttemptBegins ==
  ASSUME TempInv, NEW w \in Workers, NEW id \in Ids, rows[id].pair \in Pairs,
         rows' = rows, member' = member, post' = post, todo' \subseteq todo,
         \A v \in Workers \ {w} : work'[v] = work[v],
         work'[w].at = "check", work'[w].row = id
  PROVE  RowParts' /\ EndedKept
<1> USE DEF TempInv
<1>1. NobodyForgotten' /\ PostsApart'
  BY DEF NobodyForgotten, PostsApart, IsOpen
<1>2. RowsKnown'
  BY DEF RowsKnown
<1>3. ResultIsTrue'
  BY DEF ResultIsTrue
<1>4. QED
  BY <1>1, <1>2, <1>3, SameRows DEF RowParts

LEMMA OtherParts ==
  ASSUME TempInv,
         \/ PassStart \/ NextRow \/ PassFails \/ \E r \in Revokes : RevokeRead(r)
         \/ \E id \in Ids : RowStep(id)
         \/ \E p \in Pairs : AddByHand(p) \/ RemoveByHand(p)
         \/ Tick \/ Restart
  PROVE  RowParts' /\ EndedKept
<1> USE States DEF TempInv
<1>1. CASE PassStart
  <2>1. \A id \in todo' : rows[id].state # "absent" /\ id \in Ids
    BY <1>1 DEF PassStart, Due, IsDue
  <2>2. QED
    BY <1>1, <2>1, SameRows
       DEF PassStart, RowParts, NobodyForgotten, RowsKnown, PostsApart, ResultIsTrue, IsOpen
<1>2. CASE NextRow
  <2>1. PICK id \in todo : /\ todo' = todo \ {id}
                           /\ work' = [work EXCEPT ![Job] = [Idle EXCEPT !.at = "check", !.row = id]]
    BY <1>2 DEF NextRow
  <2>2. /\ \A w \in Workers \ {Job} : work'[w] = work[w]
        /\ work'[Job].at = "check" /\ work'[Job].row = id /\ id \in Ids
    BY <2>1 DEF TypeOK, Idle, Workers
  <2>3. QED
    BY <1>2, <2>1, <2>2, AttemptBegins DEF NextRow, RowsKnown, Workers
<1>3. CASE PassFails
  <2>1. /\ \A w \in Workers \ {Job} : work'[w] = work[w]
        /\ work'[Job] = Idle
    BY <1>3 DEF PassFails, TypeOK, Workers
  <2>2. QED
    BY <1>3, <2>1, SameRows
       DEF PassFails, RowParts, NobodyForgotten, RowsKnown, PostsApart, ResultIsTrue, IsOpen, Idle
<1>4. ASSUME NEW r \in Revokes, RevokeRead(r) PROVE RowParts' /\ EndedKept
  <2>1. PICK id \in Ids : IsOpen(id) /\ work' = [work EXCEPT ![r] = [Idle EXCEPT !.at = "check", !.row = id]]
    BY <1>4 DEF RevokeRead
  <2>2. /\ \A w \in Workers \ {r} : work'[w] = work[w]
        /\ work'[r].at = "check" /\ work'[r].row = id /\ rows[id].state # "absent"
    BY <2>1 DEF TypeOK, Idle, Workers
  <2>3. QED
    BY <1>4, <2>2, AttemptBegins DEF RevokeRead, RowsKnown, Workers
<1>5. ASSUME NEW id \in Ids, RowStep(id) PROVE RowParts' /\ EndedKept
  <2>1. CASE Extend(id)
    <3>1. /\ \A i \in Ids \ {id} : rows'[i] = rows[i]
          /\ rows'[id].pair = rows[id].pair /\ rows'[id].state = "active" /\ rows'[id].next \in Spans
          /\ IsOpen(id)
      BY <2>1 DEF Extend, TypeOK, Rows
    <3>2. "active" \in OpenStates /\ rows'[id].next # Never /\ ~IsEnded(id) /\ member' = member
      BY <2>1, <3>1, TimeTypes, States DEF OpenStates, Extend
    <3>6. OpenIsScheduled'
      BY <3>1, <3>2 DEF OpenIsScheduled, IsOpen
    <3>7. EndedKept
      BY <3>1, <3>2, EndedAreQuiet DEF EndedKept
    <3>3. NobodyForgotten'
      BY <3>1, <3>2 DEF NobodyForgotten, IsOpen
    <3>4. RowsKnown'
      <4>1. \A i \in Ids : rows'[i].pair = rows[i].pair
        BY <3>1
      <4>2. "active" # "absent" /\ rows[id].state # "absent"
        BY <3>1, States DEF IsOpen, OpenStates
      <4>3. \A i \in Ids : rows'[i].state # "absent" \/ i \in todo => rows[i].state # "absent" \/ i \in todo
        BY <3>1, <4>2
      <4>4. UNCHANGED <<todo, work, post>>
        BY <2>1 DEF Extend
      <4>5. \A w \in Workers : work[w].at # "idle" => work[w].row \in Ids /\ rows[work[w].row].pair \in Pairs
        BY DEF RowsKnown
      <4>6. \A w \in Workers : work'[w].at # "idle" => work'[w].row \in Ids /\ rows'[work'[w].row].pair \in Pairs
        BY <4>1, <4>4, <4>5
      <4>7. \A i \in Ids : rows'[i].state # "absent" \/ i \in todo' => rows'[i].pair \in Pairs
        BY <4>1, <4>3, <4>4 DEF RowsKnown
      <4>8. QED
        BY <3>2, <4>1, <4>4, <4>6, <4>7 DEF RowsKnown
    <3>5. QED
      BY <2>1, <3>3, <3>4, <3>6, <3>7 DEF Extend, RowParts, PostsApart, ResultIsTrue
  <2>2. CASE MakePermanent(id)
    <3>1. /\ \A i \in Ids \ {id} : rows'[i] = rows[i]
          /\ rows'[id].pair = rows[id].pair /\ rows'[id].state = "permanent" /\ rows'[id].next = Never
          /\ IsOpen(id)
      BY <2>2 DEF MakePermanent, PermanentRow, TypeOK, Rows
    <3>2. \A p \in Pairs : member'[p] = IF member[p] = id THEN ByHand ELSE member[p]
      BY <2>2 DEF MakePermanent
    <3>3. OpenIsScheduled' /\ EndedKept
      BY <3>1, EndedAreQuiet DEF OpenIsScheduled, EndedKept, IsOpen, IsEnded, OpenStates
    <3>4. NobodyForgotten'
      BY <3>1, <3>2, TempAssumption DEF NobodyForgotten, IsOpen
    <3>5. RowsKnown'
      BY <2>2, <3>1, <3>2, TempAssumption DEF MakePermanent, RowsKnown, IsOpen
    <3>6. ResultIsTrue' /\ PostsApart'
      BY <2>2, <3>2, TempAssumption DEF MakePermanent, ResultIsTrue, PostsApart, RowsKnown
    <3>7. QED
      BY <3>3, <3>4, <3>5, <3>6 DEF RowParts
  <2>3. CASE Prune(id)
    <3>1. /\ \A i \in Ids \ {id} : rows'[i] = rows[i]
          /\ rows'[id] = NoRow /\ Unused(id)
      BY <2>3 DEF Prune, TypeOK
    <3>2. OpenIsScheduled' /\ EndedKept
      BY <3>1, EndedAreQuiet DEF OpenIsScheduled, EndedKept, IsOpen, IsEnded
    <3>3. NobodyForgotten' /\ RowsKnown'
      BY <2>3, <3>1 DEF Prune, NobodyForgotten, RowsKnown, IsOpen, Unused
    <3>4. QED
      BY <2>3, <3>2, <3>3 DEF Prune, RowParts, PostsApart, ResultIsTrue
  <2>4. QED
    BY <1>5, <2>1, <2>2, <2>3 DEF RowStep
<1>6. ASSUME NEW p \in Pairs, AddByHand(p) \/ RemoveByHand(p) PROVE RowParts' /\ EndedKept
  <2>1. /\ \A i \in Pairs : member'[i] \in {member[i], NoOne, ByHand}
        /\ UNCHANGED <<rows, todo, work, post, faults>>
    BY <1>6 DEF AddByHand, RemoveByHand, TypeOK
  <2>2. NobodyForgotten' /\ RowsKnown' /\ ResultIsTrue' /\ PostsApart'
    BY <2>1, TempAssumption DEF NobodyForgotten, RowsKnown, ResultIsTrue, PostsApart, IsOpen
  <2>3. QED
    BY <2>1, <2>2, SameRows DEF RowParts
<1>7. CASE Tick
  <2>0. member' = member /\ todo' = todo /\ work' = work
    BY <1>7 DEF Tick
  <2>1. \A id \in Ids : /\ rows'[id].pair = rows[id].pair /\ rows'[id].state = rows[id].state
                        /\ rows'[id].next = Less(rows[id].next) /\ rows[id].next \in Times \cup {Never}
    <3>1. ASSUME NEW id \in Ids
          PROVE  /\ rows'[id] = [rows[id] EXCEPT !.expires = Less(rows[id].expires), !.next = Less(rows[id].next)]
                 /\ rows[id] \in Rows
      BY <1>7 DEF Tick, TypeOK
    <3>2. QED
      BY <3>1 DEF Rows
  <2>2. \A q \in Posts : /\ post'[q].at = post[q].at /\ post'[q].pair = post[q].pair
                         /\ post'[q].row = post[q].row
    BY <1>7 DEF Tick, TypeOK, PostSet
  <2>3. \A id \in Ids : rows'[id].next = Never <=> rows[id].next = Never
    BY <2>1, TimeTypes
  <2>4. OpenIsScheduled'
    BY <2>1, <2>3 DEF OpenIsScheduled, IsOpen
  <2>5. EndedKept
    BY <2>1, <2>3, EndedAreQuiet DEF EndedKept
  <2>6. NobodyForgotten'
    BY <2>0, <2>1 DEF NobodyForgotten, IsOpen
  <2>7. RowsKnown'
    BY <2>0, <2>1, <2>2 DEF RowsKnown
  <2>8. PostsApart' /\ ResultIsTrue'
    BY <2>0, <2>2 DEF PostsApart, ResultIsTrue
  <2>9. QED
    BY <2>4, <2>5, <2>6, <2>7, <2>8 DEF RowParts
<1>8. CASE Restart
  <2>1. /\ \A w \in Workers : work'[w] = Idle
        /\ \A q \in Posts : post'[q] = NoPost
        /\ todo' = {} /\ rows' = rows /\ member' = member
    BY <1>8 DEF Restart
  <2>2. QED
    BY <2>1, SameRows
       DEF RowParts, NobodyForgotten, RowsKnown, PostsApart, ResultIsTrue, IsOpen, Idle, NoPost
<1>9. QED
  BY <1>1, <1>2, <1>3, <1>4, <1>5, <1>6, <1>7, <1>8

------------------------------------------------------------------------------

LEMMA TempInit == Init => TempInv
<1> SUFFICES ASSUME Init PROVE TempInv
  OBVIOUS
<1>1. TypeOK
  BY RecordTypes, TempAssumption DEF Init, TypeOK
<1>2. QED
  BY <1>1, States, TempAssumption
     DEF Init, TempInv, OpenIsScheduled, NobodyForgotten, RowsKnown, PostsApart, ResultIsTrue, IsOpen, Idle, NoPost

LEMMA TempNext == TempInv /\ [Next]_vars => TempInv' /\ EndedKept
<1> SUFFICES ASSUME TempInv, [Next]_vars PROVE TempInv' /\ EndedKept
  OBVIOUS
<1>1. CASE UNCHANGED vars
  BY <1>1, SameRows DEF vars, TempInv, TypeOK, OpenIsScheduled, NobodyForgotten, RowsKnown, PostsApart,
                        ResultIsTrue, IsOpen
<1>2. CASE Next
  <2>1. TypeOK'
    BY <1>2, PostType, AttemptType, OtherType DEF Next, TempInv
  <2>2. RowParts' /\ EndedKept
    BY <1>2, PostParts, AttemptParts, OtherParts DEF Next
  <2>3. QED
    BY <2>1, <2>2 DEF TempInv, RowParts
<1>3. QED
  BY <1>1, <1>2

\* The inductive invariant of temporary groups.
THEOREM TempInvariant == Spec => []TempInv
BY TempInit, TempNext, PTL DEF Spec

\* A membership given until a deadline has an open row as long as it lasts, whatever fails and
\* whoever works on the row at the same time.
THEOREM NobodyIsForgotten == Spec => []NobodyForgotten
<1>1. TempInv => NobodyForgotten
  BY DEF TempInv
<1>2. QED
  BY <1>1, TempInvariant, PTL

\* An ended row never opens again and never changes its outcome.
THEOREM EndedForGood == Spec => EndedStaysEnded
<1>1. TempInv /\ [Next]_vars =>
        [\A id \in Ids : IsEnded(id) =>
           /\ rows'[id].state \in {rows[id].state, "absent"}
           /\ rows'[id].next = Never]_vars
  BY TempNext DEF EndedKept
<1>2. QED
  BY <1>1, TempInvariant, PTL DEF Spec, EndedStaysEnded
================================================================================
