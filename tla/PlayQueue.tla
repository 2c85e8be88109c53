-------------------------------- MODULE PlayQueue --------------------------------
(***************************************************************************)
(* The queue of a music bot: the current track, if there is one, is the    *)
(* first item; finished tracks leave for a history that only stepping      *)
(* back reads.  A track is the number of its addition.                     *)
(***************************************************************************)
EXTENDS Naturals, Sequences, SequencesExt

CONSTANTS
  NoTrack,
  HistoryLimit   \* how many finished tracks are kept (50 in the code)

ASSUME QueueAssumption == NoTrack \notin Nat /\ HistoryLimit \in Nat \ {0}

EmptyQueue == [items |-> <<>>, hasCurrent |-> FALSE, history |-> <<>>, shuffle |-> FALSE]

Current(q)       == IF q.hasCurrent THEN Head(q.items) ELSE NoTrack
FirstUpcoming(q) == IF q.hasCurrent THEN 2 ELSE 1
Places(q)        == FirstUpcoming(q) .. Len(q.items)
Upcoming(q)      == SubSeq(q.items, FirstUpcoming(q), Len(q.items))

\* What adding track t may give: at the end, or with shuffle anywhere but ahead of the current one.
Added(q, t) ==
  {[q EXCEPT !.items = InsertAt(@, i, t)] :
     i \in (IF q.shuffle THEN FirstUpcoming(q) ELSE Len(q.items) + 1) .. Len(q.items) + 1}

Recent(h) == IF Len(h) > HistoryLimit THEN Tail(h) ELSE h

Retired(q) ==
  IF ~q.hasCurrent THEN q
  ELSE [q EXCEPT !.items = Tail(@), !.hasCurrent = FALSE,
                 !.history = Recent(Append(@, Head(q.items)))]

InsertNext(q, t) == [Retired(q) EXCEPT !.items = <<t>> \o @, !.hasCurrent = TRUE]

PlayNow(q, i) ==
  IF i = 1 /\ q.hasCurrent THEN q
  ELSE InsertNext([q EXCEPT !.items = RemoveAt(@, i)], q.items[i])

\* Mutant: the first item left passes for the current one.
RemovedStillCurrent(q, i) == [q EXCEPT !.items = RemoveAt(@, i)]

Removed(q, i) == [q EXCEPT !.items = RemoveAt(@, i), !.hasCurrent = @ /\ i # 1]

Cleared(q) == [q EXCEPT !.items = <<>>, !.history = <<>>, !.hasCurrent = FALSE]

\* Mutant: the finished track stays at the front.
NextUnretired(q) == [q EXCEPT !.hasCurrent = q.items # <<>>]

NextOf(q) == LET r == Retired(q) IN [r EXCEPT !.hasCurrent = r.items # <<>>]

Previous(q) ==
  IF q.history = <<>> THEN q
  ELSE [q EXCEPT !.items = <<Last(q.history)>> \o @, !.history = Front(@), !.hasCurrent = TRUE]

Moved(q, i, j) == [q EXCEPT !.items = InsertAt(RemoveAt(@, i), j, q.items[i])]

Reordered(q, upcoming) ==
  [q EXCEPT !.items = SubSeq(@, 1, FirstUpcoming(q) - 1) \o upcoming]

\* Any order of the upcoming tracks, and the order they were added in.
Shuffled(q) ==
  {[Reordered(q, u) EXCEPT !.shuffle = TRUE] : u \in SetToSeqs(ToSet(Upcoming(q)))}
Ascending(s) == \A i, j \in DOMAIN s : i < j => s[i] < s[j]
Unshuffled(q) ==
  {[Reordered(q, u) EXCEPT !.shuffle = FALSE] :
     u \in {s \in SetToSeqs(ToSet(Upcoming(q))) : Ascending(s)}}
================================================================================
