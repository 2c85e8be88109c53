---------------------------- MODULE PlayerProofs ----------------------------
(***************************************************************************)
(* For any number of tracks and commands.  First, as long as no station    *)
(* was opened late: one decoder at most runs, and a bot that was not       *)
(* started over something shows what is heard.  That proof is about the    *)
(* fields of the bot alone.                                                *)
(* Then, with the queue and whatever was opened late: the types, no track  *)
(* in two places, the current track plays, and no track is left waiting.   *)
(***************************************************************************)
EXTENDS Player, PlayQueueProofs

Living == {"starting", "flowing", "stream"}

Fields(n) ==
  [status : {"stopped", "starting", "connected", "playing", "paused", "error"},
   now : {n}, radio : BOOLEAN, station : BOOLEAN, idle : BOOLEAN,
   loop : {"none", "starting", "flowing", "ended", "failed", "stream"}, byPlay : BOOLEAN,
   kill : BOOLEAN, alive : Nat, probe : BOOLEAN, lateProbes : Nat, open : BOOLEAN, lateOpens : Nat]

\* One decoder, and one thing under way.
OneAtATime(r) ==
  /\ r.alive = One(r.kill)
  /\ r.kill <=> r.loop \in Living
  /\ r.probe => ~r.open /\ r.loop = "none"
  /\ r.open => r.loop = "none"

Quiet(r) == ~r.probe /\ ~r.open /\ r.loop = "none"

\* A sound bot; left: it was stopped and its connection has not ended yet; over: a start ended over
\* what it played or paused.
Sound(r, left, over) ==
  /\ r \in Fields(r.now)
  /\ OneAtATime(r)
  /\ ~over =>
       /\ r.status = "playing" /\ ~left => ~Quiet(r)
       /\ r.status \in {"stopped", "connected", "paused"} => Quiet(r)
       /\ r.status \in {"stopped", "connected"} => r.now = NoTrack
       /\ r.idle \/ r.station => r.status \in {"paused", "error", "starting"} /\ Quiet(r)

PlayerInv == ~overtaken => Sound(p, up = "left", startedOver)

LEMMA Ones == One(TRUE) = 1 /\ One(FALSE) = 0 /\ (\A b : One(b) \in {0, 1})
BY DEF One

\* What the pieces leave behind.
LEMMA TimerCleared ==
  ASSUME NEW r, r \in Fields(r.now)
  PROVE  LET c == ClearTimer(r) IN
         /\ c \in Fields(r.now) /\ Quiet(c) /\ c.kill = r.kill /\ c.alive = r.alive
         /\ c.status = r.status /\ c.now = r.now /\ c.radio = r.radio
         /\ c.idle = r.idle /\ c.station = r.station
<1>1. PICK m \in Nat, n \in Nat : m = r.lateProbes + One(r.probe) /\ n = r.lateOpens + One(r.open)
  BY Ones DEF Fields
<1>2. ClearTimer(r) = [r EXCEPT !.loop = "none", !.probe = FALSE, !.lateProbes = m,
                                !.open = FALSE, !.lateOpens = n]
  BY <1>1 DEF ClearTimer
<1> QED BY <1>2 DEF Fields, Quiet

LEMMA DecoderStopped ==
  ASSUME NEW t, NEW c \in Fields(t), c.alive = One(c.kill)
  PROVE  LET s == StopDecoder(c) IN
         /\ s \in Fields(t) /\ ~s.kill /\ s.alive = 0
         /\ s.probe = c.probe /\ s.open = c.open /\ s.loop = c.loop
         /\ s.status = c.status /\ s.now = c.now /\ s.radio = c.radio
         /\ s.idle = c.idle /\ s.station = c.station
<1>1. PICK n \in Nat : n = 0 /\ n = c.alive - One(c.kill)
  BY Ones DEF Fields
<1>2. StopDecoder(c) = [c EXCEPT !.kill = FALSE, !.alive = n]
  BY <1>1 DEF StopDecoder
<1> QED BY <1>1, <1>2 DEF Fields

LEMMA DecoderCut ==
  ASSUME NEW r, r \in Fields(r.now), OneAtATime(r)
  PROVE  LET s == StopDecoder(ClearTimer(r)) IN
         /\ s \in Fields(r.now) /\ Quiet(s) /\ ~s.kill /\ s.alive = 0
         /\ s.status = r.status /\ s.now = r.now /\ s.radio = r.radio
         /\ s.idle = r.idle /\ s.station = r.station
<1> DEFINE c == ClearTimer(r)
           s == StopDecoder(c)
<1>1. /\ c \in Fields(r.now) /\ Quiet(c) /\ c.kill = r.kill /\ c.alive = r.alive
      /\ c.status = r.status /\ c.now = r.now /\ c.radio = r.radio
      /\ c.idle = r.idle /\ c.station = r.station
  BY TimerCleared
<1>2. c.alive = One(c.kill)
  BY <1>1 DEF OneAtATime
<1> HIDE DEF c
<1>3. /\ s \in Fields(r.now) /\ ~s.kill /\ s.alive = 0
      /\ s.probe = c.probe /\ s.open = c.open /\ s.loop = c.loop
      /\ s.status = c.status /\ s.now = c.now /\ s.radio = c.radio
      /\ s.idle = c.idle /\ s.station = c.station
  BY <1>1, <1>2, DecoderStopped
<1> HIDE DEF s
<1>4. /\ s \in Fields(r.now) /\ Quiet(s) /\ ~s.kill /\ s.alive = 0
      /\ s.status = r.status /\ s.now = r.now /\ s.radio = r.radio
      /\ s.idle = r.idle /\ s.station = r.station
  BY <1>1, <1>3 DEF Quiet
<1> QED BY <1>4 DEF c, s

LEMMA Stopped ==
  ASSUME NEW r, r \in Fields(r.now), OneAtATime(r)
  PROVE  LET s == StopPlayback(r) IN
         /\ s \in Fields(r.now) /\ OneAtATime(s) /\ Quiet(s)
         /\ s.status = r.status /\ s.now = r.now
         /\ ~s.idle /\ ~s.station /\ ~s.radio /\ ~s.kill /\ s.alive = 0
<1> DEFINE k == StopDecoder(ClearTimer(r))
<1>1. /\ k \in Fields(r.now) /\ Quiet(k) /\ ~k.kill /\ k.alive = 0
      /\ k.status = r.status /\ k.now = r.now
  BY DecoderCut
<1>2. StopPlayback(r) = [k EXCEPT !.station = FALSE, !.idle = FALSE, !.radio = FALSE]
  BY DEF StopPlayback
<1> HIDE DEF k
<1> QED BY <1>1, <1>2 DEF One, Fields, OneAtATime, Quiet, Living

LEMMA SongStarted ==
  ASSUME NEW r, r \in Fields(r.now), OneAtATime(r), NEW byPlay \in BOOLEAN
  PROVE  LET s == StartSong(r, byPlay) IN
         /\ s \in Fields(r.now) /\ OneAtATime(s) /\ ~Quiet(s)
         /\ s.status = r.status /\ s.now = r.now
         /\ s.idle = r.idle /\ s.station = r.station
<1> DEFINE k == StopDecoder(ClearTimer(r))
<1>1. /\ k \in Fields(r.now) /\ Quiet(k) /\ ~k.kill /\ k.alive = 0
      /\ k.status = r.status /\ k.now = r.now
      /\ k.idle = r.idle /\ k.station = r.station
  BY DecoderCut
<1>2. PICK n \in Nat : n = 1 /\ n = k.alive + 1
  BY <1>1
<1>3. StartSong(r, byPlay) =
        [k EXCEPT !.loop = "starting", !.byPlay = byPlay, !.kill = TRUE, !.alive = n]
  BY <1>2 DEF StartSong
<1> DEFINE s == StartSong(r, byPlay)
<1> HIDE DEF k
<1>4. /\ s \in Fields(r.now) /\ s.kill /\ s.alive = 1 /\ s.loop = "starting"
      /\ s.status = k.status /\ s.now = k.now /\ s.probe = k.probe /\ s.open = k.open
      /\ s.idle = k.idle /\ s.station = k.station
  <2>1. s \in Fields(r.now)
    BY <1>1, <1>3 DEF Fields
  <2>2. s.kill /\ s.alive = n /\ s.loop = "starting"
    BY <1>1, <1>3 DEF Fields
  <2>3. /\ s.status = k.status /\ s.now = k.now /\ s.probe = k.probe /\ s.open = k.open
        /\ s.idle = k.idle /\ s.station = k.station
    BY <1>1, <1>3 DEF Fields
  <2> QED BY <1>2, <2>1, <2>2, <2>3
<1> HIDE DEF s
<1>5. /\ s \in Fields(r.now) /\ OneAtATime(s) /\ ~Quiet(s)
      /\ s.status = r.status /\ s.now = r.now
      /\ s.idle = r.idle /\ s.station = r.station
  BY <1>1, <1>4, Ones DEF OneAtATime, Quiet, Living
<1> QED BY <1>5 DEF s

LEMMA PlaySound ==
  ASSUME NEW r, NEW left, NEW over, Sound(r, left, over), NEW t, NEW s \in Play(r, t)
  PROVE  Sound(s, left, over)
<1>1. CASE Refuses(r)
  BY <1>1 DEF Play
<1>2. CASE ~Refuses(r)
  <2> DEFINE k == StopPlayback(r)
             b == [k EXCEPT !.now = t, !.status = "playing"]
  <2>1. /\ k \in Fields(r.now) /\ OneAtATime(k) /\ Quiet(k)
        /\ ~k.idle /\ ~k.station
    BY Stopped DEF Sound
  <2>2. /\ b \in Fields(t) /\ b.now = t /\ b.status = "playing"
        /\ OneAtATime(b) /\ Quiet(b) /\ ~b.idle /\ ~b.station
    <3> HIDE DEF k
    <3> QED BY <2>1 DEF Fields, OneAtATime, Quiet, One, Living
  <2> HIDE DEF b
  <2>3. CASE s = StartSong(b, TRUE)
    BY <2>2, <2>3, SongStarted DEF Sound
  <2>4. CASE s = [b EXCEPT !.probe = TRUE]
    BY <2>2, <2>4 DEF Sound, Fields, OneAtATime, Quiet, One, Living
  <2>5. s \in {StartSong(b, TRUE), [b EXCEPT !.probe = TRUE]}
    BY <1>2 DEF Play, b
  <2> QED BY <2>3, <2>4, <2>5
<1> QED BY <1>1, <1>2

LEMMA StreamSound ==
  ASSUME NEW r, r \in Fields(r.now), OneAtATime(r), ~Refuses(r), NEW left, NEW over
  PROVE  Sound(PlayStream(r), left, over) /\ PlayStream(r).status = "playing"
<1> DEFINE k == StopPlayback(r)
<1>1. /\ k \in Fields(r.now) /\ OneAtATime(k) /\ Quiet(k) /\ ~k.idle /\ ~k.station /\ ~k.kill
  BY Stopped
<1>2. PlayStream(r) = [k EXCEPT !.now = Station, !.radio = TRUE, !.status = "playing", !.open = TRUE]
  BY DEF PlayStream
<1> HIDE DEF k
<1> QED BY <1>1, <1>2 DEF Sound, Fields, OneAtATime, Quiet, One, Living

LEMMA ResumeSound ==
  ASSUME NEW r, NEW left, NEW over, Sound(r, left, over), r.status = "paused"
  PROVE  Sound(Resumed(r), left, over)
<1> DEFINE s == [r EXCEPT !.idle = FALSE]
<1>1. CASE r.station
  <2> DEFINE k == [s EXCEPT !.station = FALSE]
  <2>1. k \in Fields(k.now) /\ OneAtATime(k) /\ ~Refuses(k)
    BY DEF Sound, Fields, OneAtATime, Refuses, One, Living
  <2>2. Resumed(r) = PlayStream(k)
    BY <1>1 DEF Resumed
  <2> HIDE DEF k
  <2> QED BY <2>1, <2>2, StreamSound
<1>2. CASE ~r.station /\ r.now = NoTrack
  BY <1>2 DEF Resumed, Sound, Fields, OneAtATime, Quiet, One, Living
<1>3. CASE ~r.station /\ r.now # NoTrack
  <2> DEFINE k == [s EXCEPT !.status = "playing"]
  <2>1. k \in Fields(k.now) /\ OneAtATime(k) /\ k.status = "playing" /\ ~k.idle /\ ~k.station
    BY <1>3 DEF Sound, Fields, OneAtATime, One, Living
  <2>2. Resumed(r) = StartSong(k, FALSE)
    BY <1>3 DEF Resumed
  <2> HIDE DEF k
  <2> QED BY <2>1, <2>2, SongStarted DEF Sound
<1> QED BY <1>1, <1>2, <1>3

LEMMA PauseSound ==
  ASSUME NEW r, NEW left, NEW over, Sound(r, left, over), r.status = "playing"
  PROVE  /\ Sound(Paused(r), left, over)
         /\ Sound([Paused(r) EXCEPT !.idle = TRUE], left, over)
<1> DEFINE k == StopDecoder(ClearTimer(r))
           radio == k.radio /\ r.now = NoTrack
           station == k.station \/ (r.radio /\ r.now # NoTrack)
           s == Paused(r)
<1>1. /\ k \in Fields(r.now) /\ Quiet(k) /\ ~k.kill /\ k.alive = 0 /\ k.now = r.now
  BY DecoderCut DEF Sound
<1>2. s = [k EXCEPT !.status = "paused", !.radio = radio, !.station = station]
  BY DEF Paused
<1>3. radio \in BOOLEAN /\ station \in BOOLEAN
  BY <1>1 DEF Sound, Fields
<1> HIDE DEF k, radio, station, s
<1>4. /\ s \in Fields(r.now) /\ s.now = r.now /\ Quiet(s) /\ OneAtATime(s) /\ s.status = "paused"
  BY <1>1, <1>2, <1>3 DEF One, Fields, OneAtATime, Quiet, Living
<1>5. Sound(s, left, over) /\ Sound([s EXCEPT !.idle = TRUE], left, over)
  BY <1>4 DEF Sound, Fields, OneAtATime, Quiet, One, Living
<1> QED BY <1>5 DEF s

LEMMA SilenceSound ==
  ASSUME NEW r, NEW left, NEW over, Sound(r, left, over)
  PROVE  Sound(Silenced(r), left, over) /\ Sound(AudioStopped(r), left, over)
<1> DEFINE k == StopPlayback(r)
<1>1. /\ k \in Fields(r.now) /\ OneAtATime(k) /\ Quiet(k) /\ ~k.idle /\ ~k.station /\ ~k.kill
      /\ k.status = r.status
  BY Stopped DEF Sound
<1>2. /\ Silenced(r) = [k EXCEPT !.now = NoTrack, !.status = "connected"]
      /\ AudioStopped(r) = [k EXCEPT !.now = NoTrack,
                              !.status = IF @ \in {"playing", "paused"} THEN "connected" ELSE @]
  BY DEF Silenced, AudioStopped
<1> HIDE DEF k
<1>3. ASSUME NEW status \in {"stopped", "starting", "connected", "error"},
             NEW s, s = [k EXCEPT !.now = NoTrack, !.status = status]
      PROVE  Sound(s, left, over)
  <2>1. /\ s \in Fields(NoTrack) /\ s.now = NoTrack /\ s.status = status /\ s.loop = k.loop
        /\ s.kill = k.kill /\ s.alive = k.alive /\ s.idle = k.idle /\ s.station = k.station
        /\ s.probe = k.probe /\ s.open = k.open
    BY <1>1, <1>3 DEF Fields
  <2> QED BY <1>1, <2>1 DEF Sound, OneAtATime, Quiet
<1>4. Sound(Silenced(r), left, over)
  BY <1>2, <1>3
<1>5. PICK status \in {"stopped", "starting", "connected", "error"} :
        /\ status = IF k.status \in {"playing", "paused"} THEN "connected" ELSE k.status
  BY <1>1 DEF Fields
<1>6. AudioStopped(r) = [k EXCEPT !.now = NoTrack, !.status = status]
  BY <1>2, <1>5
<1>7. Sound(AudioStopped(r), left, over)
  BY <1>3, <1>6
<1> QED BY <1>4, <1>7
------------------------------------------------------------------------------
(* The invariant *)

LEMMA PlayFromSound ==
  ASSUME NEW r, NEW left, NEW over, Sound(r, left, over), NEW queue, PlayFrom(r, queue)
  PROVE  Sound(p', left, over)
<1>1. CASE Current(queue) = NoTrack
  BY <1>1 DEF PlayFrom
<1>2. CASE Current(queue) # NoTrack
  <2>1. p' \in Play(r, Current(queue))
    BY <1>2 DEF PlayFrom
  <2> QED BY <2>1, PlaySound
<1> QED BY <1>1, <1>2

LEMMA Begins == Init => PlayerInv
BY DEF Init, PlayerInv, Sound, Fields, OneAtATime, Quiet, One, Living

\* What played is over, and its decoder with it.
LEMMA Ended ==
  ASSUME NEW n, NEW r \in Fields(n), NEW left, NEW over, NEW s,
         s = [r EXCEPT !.loop = "none", !.status = "connected", !.now = NoTrack],
         ~r.kill /\ r.alive = 0 /\ ~r.probe /\ ~r.open,
         over \/ (~r.idle /\ ~r.station)
  PROVE  Sound(s, left, over)
<1>1. /\ s \in Fields(NoTrack) /\ s.loop = "none" /\ s.status = "connected" /\ s.now = NoTrack
      /\ s.kill = FALSE /\ s.alive = 0 /\ ~s.probe /\ ~s.open /\ s.idle = r.idle /\ s.station = r.station
  BY DEF Fields
<1> QED BY <1>1, Ones DEF Sound, OneAtATime, Quiet, Living

\* The steps of what was begun.
LEMMA GoesOn ==
  ASSUME NEW left, NEW over, Sound(p, left, over),
         Probed \/ Decodes \/ DecodeFails \/ StreamCloses \/ TrackEnds
         \/ (Opened /\ ~overtaken') \/ OrphanEnds
  PROVE  Sound(p', left, over)
<1> USE DEF Sound
<1>1. CASE Probed
  <2>1. CASE p.probe /\ p' = StartSong([p EXCEPT !.probe = FALSE], TRUE)
    <3> DEFINE k == [p EXCEPT !.probe = FALSE]
    <3>1. /\ k \in Fields(k.now) /\ OneAtATime(k) /\ k.status = p.status /\ k.now = p.now
          /\ k.idle = p.idle /\ k.station = p.station
      BY DEF Fields, OneAtATime, One, Living
    <3>2. /\ ~over => p.status \in {"playing", "error", "starting"} /\ ~p.idle /\ ~p.station
          /\ p' = StartSong(k, TRUE)
      BY <2>1 DEF Quiet, Fields
    <3> HIDE DEF k
    <3> QED BY <3>1, <3>2, SongStarted
  <2>2. CASE p.lateProbes > 0 /\ p' = [p EXCEPT !.lateProbes = @ - 1]
    BY <2>2 DEF Fields, OneAtATime, Quiet, One, Living
  <2> QED BY <1>1, <2>1, <2>2 DEF Probed
<1>0. ASSUME p.loop \in Living
      PROVE  \E n \in Nat : n = 0 /\ n = p.alive - 1
  <2>1. p.alive = 1
    BY <1>0, Ones DEF OneAtATime
  <2>2. 0 \in Nat /\ 0 = 1 - 1
    OBVIOUS
  <2> QED BY <2>1, <2>2
<1>2. CASE Decodes
  <2>1. CASE p.loop = "starting" /\ p' = [p EXCEPT !.loop = "flowing"]
    BY <2>1 DEF Fields, OneAtATime, Quiet, Living
  <2>2. CASE /\ p.loop \in {"starting", "flowing"}
             /\ p' = [p EXCEPT !.loop = "ended", !.kill = FALSE, !.alive = @ - 1]
    <3>1. PICK n \in Nat : n = 0 /\ n = p.alive - 1
      BY <1>0, <2>2 DEF Living
    <3>2. p' = [p EXCEPT !.loop = "ended", !.kill = FALSE, !.alive = n]
      BY <2>2, <3>1
    <3> QED BY <2>2, <3>1, <3>2, Ones DEF Fields, OneAtATime, Quiet, Living
  <2> QED BY <1>2, <2>1, <2>2 DEF Decodes
<1>3. CASE DecodeFails
  <2>1. PICK n \in Nat : n = 0 /\ n = p.alive - 1
    BY <1>0, <1>3 DEF DecodeFails, Living
  <2> DEFINE r == [p EXCEPT !.loop = "failed", !.kill = FALSE, !.alive = n]
  <2>2. p' = IF p.byPlay
             THEN [r EXCEPT !.loop = "none", !.status = "connected", !.now = NoTrack]
             ELSE r
    BY <1>3, <2>1 DEF DecodeFails
  <2>3. Sound(r, left, over) /\ ~r.kill /\ r.alive = 0 /\ (~over => ~r.idle /\ ~r.station)
        /\ ~r.probe /\ ~r.open /\ r \in Fields(p.now)
    BY <1>3, <2>1, Ones DEF DecodeFails, Fields, OneAtATime, Quiet, Living
  <2> HIDE DEF r
  <2>4. CASE p.byPlay
    <3>1. /\ r \in Fields(p.now) /\ ~r.kill /\ r.alive = 0 /\ ~r.probe /\ ~r.open
          /\ over \/ (~r.idle /\ ~r.station)
          /\ p' = [r EXCEPT !.loop = "none", !.status = "connected", !.now = NoTrack]
      BY <2>2, <2>3, <2>4
    <3> HIDE DEF Sound
    <3> QED BY <3>1, Ended
  <2> QED BY <2>2, <2>3, <2>4
<1>4. CASE StreamCloses
  <2>1. PICK n \in Nat : n = 0 /\ n = p.alive - 1
    BY <1>0, <1>4 DEF StreamCloses, Living
  <2> DEFINE r == [p EXCEPT !.loop = "none", !.radio = FALSE, !.kill = FALSE, !.alive = n]
  <2>2. p' = [r EXCEPT !.loop = "none", !.status = "connected", !.now = NoTrack]
    BY <1>4, <2>1 DEF StreamCloses
  <2>3. ~p.probe /\ ~p.open /\ (~over => ~p.idle /\ ~p.station)
    BY <1>4 DEF StreamCloses, OneAtATime, Quiet
  <2>4. /\ r \in Fields(p.now) /\ ~r.kill /\ r.alive = 0
        /\ r.probe = p.probe /\ r.open = p.open /\ r.idle = p.idle /\ r.station = p.station
    BY <2>1 DEF Fields
  <2> HIDE DEF r
  <2>5. /\ ~r.probe /\ ~r.open
        /\ over \/ (~r.idle /\ ~r.station)
    BY <2>3, <2>4
  <2> HIDE DEF Sound
  <2> QED BY <2>2, <2>4, <2>5, Ended
<1>5. CASE TrackEnds
  <2> DEFINE c == ClearTimer(p)
             r == [c EXCEPT !.now = NoTrack, !.status = "connected"]
  <2>1. Sound(r, left, over)
    <3>1. /\ c \in Fields(p.now) /\ Quiet(c) /\ c.kill = p.kill /\ c.alive = p.alive
          /\ c.idle = p.idle /\ c.station = p.station
      BY TimerCleared
    <3>2. ~p.kill /\ p.alive = 0 /\ (~over => ~p.idle /\ ~p.station)
      BY <1>5, Ones DEF TrackEnds, OneAtATime, Quiet, Living, Fields
    <3> HIDE DEF c
    <3>3. /\ r \in Fields(NoTrack) /\ r.now = NoTrack /\ r.status = "connected"
          /\ r.kill = c.kill /\ r.alive = c.alive /\ r.idle = c.idle /\ r.station = c.station
          /\ r.probe = c.probe /\ r.open = c.open /\ r.loop = c.loop
      BY <3>1 DEF Fields
    <3> HIDE DEF r
    <3>4. r.kill = FALSE /\ r.alive = 0 /\ (~over => ~r.idle /\ ~r.station) /\ Quiet(r)
      BY <3>1, <3>2, <3>3 DEF Fields, Quiet
    <3> QED BY <3>3, <3>4, Ones DEF OneAtATime, Quiet, Living
  <2>2. CASE p' \in Play(r, p.now)
    <3> HIDE DEF r
    <3> QED BY <2>1, <2>2, PlaySound
  <2>3. CASE PlayFrom(r, NextOf(q))
    <3> HIDE DEF r
    <3> QED BY <2>1, <2>3, PlayFromSound
  <2> QED BY <1>5, <2>2, <2>3 DEF TrackEnds
<1>6. CASE Opened /\ ~overtaken'
  <2> DEFINE k == [p EXCEPT !.open = FALSE]
             c == ClearTimer(k)
  <2>1. p.open /\ OpenEnds(k)
    BY <1>6 DEF Opened
  <2>2. /\ p.loop = "none" /\ ~p.probe /\ ~p.kill /\ p.alive = 0
        /\ ~over => p.status \in {"playing", "error", "starting"} /\ ~p.idle /\ ~p.station
    BY <2>1, Ones DEF OneAtATime, Quiet, Fields, Living
  <2>3. /\ k \in Fields(k.now) /\ k.now = p.now /\ k.loop = "none" /\ ~k.probe /\ ~k.open
        /\ ~k.kill /\ k.alive = 0 /\ k.idle = p.idle /\ k.station = p.station /\ k.status = p.status
    BY <2>2 DEF Fields
  <2> HIDE DEF k
  <2>4. CASE p' = [k EXCEPT !.radio = FALSE, !.kill = FALSE, !.status = "connected", !.now = NoTrack]
    <3>1. /\ p' \in Fields(NoTrack) /\ p'.now = NoTrack /\ p'.status = "connected" /\ Quiet(p')
          /\ p'.kill = FALSE /\ p'.alive = 0 /\ p'.idle = p.idle /\ p'.station = p.station
      BY <2>3, <2>4 DEF Fields, Quiet
    <3> QED BY <2>2, <3>1, Ones DEF OneAtATime, Quiet, Living
  <2>5. CASE p' = [c EXCEPT !.loop = "stream", !.kill = TRUE, !.alive = @ + 1]
    <3>1. /\ c \in Fields(k.now) /\ Quiet(c) /\ c.alive = 0 /\ c.status = p.status
          /\ c.now = p.now /\ c.idle = p.idle /\ c.station = p.station
      BY <2>3, TimerCleared
    <3> HIDE DEF c
    <3>2. PICK n \in Nat : n = 1 /\ n = c.alive + 1
      BY <3>1
    <3>3. p' = [c EXCEPT !.loop = "stream", !.kill = TRUE, !.alive = n]
      BY <2>5, <3>2
    <3>4. /\ p' \in Fields(p'.now) /\ p'.status = p.status /\ p'.idle = p.idle /\ p'.station = p.station
          /\ p'.loop = "stream" /\ p'.kill = TRUE /\ p'.alive = 1 /\ ~p'.probe /\ ~p'.open
      BY <2>3, <3>1, <3>2, <3>3 DEF Fields, Quiet
    <3> QED BY <2>2, <3>4, Ones DEF OneAtATime, Quiet, Living
  <2> QED BY <2>1, <2>4, <2>5 DEF OpenEnds
<1>7. CASE OrphanEnds
  BY <1>7 DEF OrphanEnds, Fields, OneAtATime, One, Living
<1> QED BY <1>1, <1>2, <1>3, <1>4, <1>5, <1>6, <1>7

\* The commands.
LEMMA Commanded ==
  ASSUME NEW left, NEW over, Sound(p, left, over), Old \/ New
  PROVE  Sound(p', left, over)
<1>1. CASE Pause
  BY <1>1, PauseSound DEF Pause
<1>2. CASE Resume
  BY <1>2, ResumeSound DEF Resume
<1>3. CASE Seek
  <2>1. p \in Fields(p.now) /\ OneAtATime(p) /\ (~over => ~p.idle /\ ~p.station)
    BY <1>3 DEF Seek, Sound
  <2>2. p' = StartSong(p, FALSE) /\ p.status = "playing"
    BY <1>3 DEF Seek
  <2> QED BY <2>1, <2>2, SongStarted DEF Sound
<1>4. CASE StopAudio
  BY <1>4, SilenceSound DEF StopAudio
<1>5. CASE PlayRadio
  <2>1. p \in Fields(p.now) /\ OneAtATime(p) /\ ~Refuses(p) /\ p' = PlayStream(p)
    BY <1>5 DEF PlayRadio, Sound
  <2> QED BY <2>1, StreamSound
<1>6. ASSUME NEW r, Sound(r, left, over), NEW queue, PlayFrom(r, queue)
      PROVE  Sound(p', left, over)
  BY <1>6, PlayFromSound
<1>7. CASE Skip \/ PreviousSong
  <2>1. Sound(Silenced(p), left, over)
    BY SilenceSound
  <2> QED BY <1>6, <1>7, <2>1 DEF Skip, PreviousSong
<1>8. ASSUME NEW t, p' \in Play(p, t) PROVE Sound(p', left, over)
  BY <1>8, PlaySound
<1>9. CASE ChatSkip
  <2>1. p' = AudioStopped(p) \/ \E t : p' \in Play(p, t)
    BY <1>9 DEF ChatSkip
  <2> QED BY <1>8, <2>1, SilenceSound
<1>10. CASE ChatPrevious
  BY <1>6, <1>10 DEF ChatPrevious
<1>11. ASSUME NEW i, PlayIndex(i) PROVE Sound(p', left, over)
  BY <1>6, <1>11 DEF PlayIndex
<1>12. CASE UNCHANGED p
  BY <1>12
<1>13. ASSUME NEW t, PlayItem(t) PROVE Sound(p', left, over)
  BY <1>8, <1>13 DEF PlayItem
<1>14. ASSUME NEW t, QueueItem(t) PROVE Sound(p', left, over)
  BY <1>12, <1>13, <1>14 DEF QueueItem
<1>15. ASSUME NEW t, LoadItem(t) PROVE Sound(p', left, over)
  <2>1. UNCHANGED p \/ \E queue : PlayFrom(p, queue)
    BY <1>15 DEF LoadItem
  <2> QED BY <1>6, <1>12, <2>1
<1>16. CASE New
  BY <1>13, <1>14, <1>15, <1>16 DEF New
<1>17. CASE Old
  <2>1. Reorder \/ RemoveItem \/ Clear => UNCHANGED p
    BY DEF Reorder, RemoveItem, Clear
  <2> QED BY <1>1, <1>2, <1>3, <1>4, <1>5, <1>7, <1>9, <1>10, <1>11, <1>12, <1>17, <2>1 DEF Old
<1> QED BY <1>16, <1>17

\* The bot is stopped: what was under way is over.
LEMMA StoppedSound ==
  ASSUME Sound(p, up = "left", startedOver), Leave \/ Disconnected
  PROVE  Sound(p', up' = "left", FALSE)
<1> DEFINE k == StopPlayback(p)
<1>1. /\ k \in Fields(p.now) /\ OneAtATime(k) /\ Quiet(k) /\ ~k.idle /\ ~k.station /\ k.kill = FALSE
      /\ k.alive = 0 /\ k.status = p.status
  BY Stopped DEF Sound
<1>2. CASE Leave
  <2>1. up' = "left" /\ p' = [k EXCEPT !.now = NoTrack]
    BY <1>2 DEF Leave
  <2> HIDE DEF k
  <2>2. /\ p' \in Fields(NoTrack) /\ p'.now = NoTrack /\ Quiet(p') /\ p'.kill = FALSE /\ p'.alive = 0
        /\ ~p'.idle /\ ~p'.station
    BY <1>1, <2>1 DEF Fields, Quiet
  <2> QED BY <2>1, <2>2, Ones DEF Sound, OneAtATime, Quiet, Living
<1>3. CASE Disconnected
  <2>1. up' = "down" /\ p' = [k EXCEPT !.status = "stopped", !.now = NoTrack]
    BY <1>3 DEF Disconnected
  <2> HIDE DEF k
  <2>2. /\ p' \in Fields(NoTrack) /\ p'.now = NoTrack /\ Quiet(p') /\ p'.kill = FALSE /\ p'.alive = 0
        /\ ~p'.idle /\ ~p'.station /\ p'.status = "stopped"
    BY <1>1, <2>1 DEF Fields, Quiet
  <2> QED BY <2>1, <2>2, Ones DEF Sound, OneAtATime, Quiet, Living
<1> QED BY <1>2, <1>3

\* Only the status is written.
LEMMA StatusWritten ==
  ASSUME p \in Fields(p.now), NEW v \in {"starting", "connected", "error"}, p' = [p EXCEPT !.status = v]
  PROVE  /\ p' \in Fields(p.now) /\ p'.status = v /\ p'.now = p.now /\ p'.loop = p.loop
         /\ p'.kill = p.kill /\ p'.alive = p.alive /\ p'.idle = p.idle /\ p'.station = p.station
         /\ p'.probe = p.probe /\ p'.open = p.open
BY DEF Fields

\* The connection goes and comes, and the bot is alone.
LEMMA Connects ==
  ASSUME Sound(p, up = "left", startedOver),
         \/ Leave \/ Disconnected \/ Start \/ Connected \/ StartFails \/ ClientError
         \/ PauseForIdle \/ ResumeFromIdle
  PROVE  Sound(p', up' = "left", startedOver')
<1>1. p \in Fields(p.now)
  BY DEF Sound
<1>2. CASE Leave \/ Disconnected
  <2>1. startedOver' = FALSE
    BY <1>2 DEF Leave, Disconnected
  <2> QED BY <1>2, <2>1, StoppedSound
<1>3. CASE Start
  <2>1. /\ UNCHANGED <<up, startedOver>> /\ p' = [p EXCEPT !.status = "starting"]
        /\ p.status \in {"stopped", "starting", "error"}
    BY <1>1, <1>3 DEF Start, Refuses, Fields
  <2>2. /\ p' \in Fields(p.now) /\ p'.status = "starting" /\ p'.now = p.now /\ p'.loop = p.loop
        /\ p'.kill = p.kill /\ p'.alive = p.alive /\ p'.idle = p.idle /\ p'.station = p.station
        /\ p'.probe = p.probe /\ p'.open = p.open
    BY <1>1, <2>1, StatusWritten
  <2> QED BY <2>1, <2>2 DEF Sound, OneAtATime, Quiet
<1>4. CASE Connected
  <2>1. /\ p' = [p EXCEPT !.status = "connected"] /\ (startedOver => startedOver')
        /\ ~startedOver' => ~UnderWay(p)
    BY <1>4 DEF Connected
  <2>2. /\ p' \in Fields(p.now) /\ p'.status = "connected" /\ p'.now = p.now /\ p'.loop = p.loop
        /\ p'.kill = p.kill /\ p'.alive = p.alive /\ p'.idle = p.idle /\ p'.station = p.station
        /\ p'.probe = p.probe /\ p'.open = p.open
    BY <1>1, <2>1, StatusWritten
  <2> QED BY <2>1, <2>2 DEF Sound, OneAtATime, Quiet, UnderWay
<1>5. CASE StartFails
  BY <1>5 DEF StartFails
<1>6. CASE ClientError
  <2>1. UNCHANGED <<up, startedOver>> /\ p' = [p EXCEPT !.status = "error"]
    BY <1>6 DEF ClientError
  <2>2. /\ p' \in Fields(p.now) /\ p'.status = "error" /\ p'.now = p.now /\ p'.loop = p.loop
        /\ p'.kill = p.kill /\ p'.alive = p.alive /\ p'.idle = p.idle /\ p'.station = p.station
        /\ p'.probe = p.probe /\ p'.open = p.open
    BY <1>1, <2>1, StatusWritten
  <2> QED BY <2>1, <2>2 DEF Sound, OneAtATime, Quiet
<1>7. CASE PauseForIdle
  <2>1. UNCHANGED <<up, startedOver>>
    BY <1>7 DEF PauseForIdle
  <2> QED BY <1>7, <2>1, PauseSound DEF PauseForIdle
<1>8. CASE ResumeFromIdle
  <2>1. UNCHANGED <<up, startedOver>>
    BY <1>8 DEF ResumeFromIdle, Rest
  <2>2. CASE p.status = "paused"
    BY <1>8, <2>1, <2>2, ResumeSound DEF ResumeFromIdle
  <2>3. CASE p.status # "paused"
    <3>1. p' = [p EXCEPT !.idle = FALSE]
      BY <1>8, <2>3 DEF ResumeFromIdle
    <3>2. /\ p' \in Fields(p.now) /\ p'.status = p.status /\ p'.now = p.now /\ p'.loop = p.loop
          /\ p'.kill = p.kill /\ p'.alive = p.alive /\ ~p'.idle /\ p'.station = p.station
          /\ p'.probe = p.probe /\ p'.open = p.open
      BY <1>1, <3>1 DEF Fields
    <3> QED BY <2>1, <3>2 DEF Sound, OneAtATime, Quiet
  <2> QED BY <2>2, <2>3
<1> QED BY <1>2, <1>3, <1>4, <1>5, <1>6, <1>7, <1>8

LEMMA Goes == PlayerInv /\ [Next]_vars => PlayerInv'
<1> SUFFICES ASSUME PlayerInv, [Next]_vars, ~overtaken'
             PROVE  Sound(p', up' = "left", startedOver')
  BY DEF PlayerInv
<1>1. ~overtaken
  BY DEF Next, vars, Probed, Decodes, DecodeFails, TrackEnds, Opened, StreamCloses, OrphanEnds,
         SetRepeat, Old, New, Leave, Disconnected, Start, Connected, StartFails, ClientError,
         PauseForIdle, ResumeFromIdle
<1>2. Sound(p, up = "left", startedOver)
  BY <1>1 DEF PlayerInv
<1>3. CASE UNCHANGED vars
  BY <1>2, <1>3 DEF vars
<1>4. CASE Probed \/ Decodes \/ DecodeFails \/ StreamCloses \/ TrackEnds \/ Opened \/ OrphanEnds
  <2>1. Sound(p', up = "left", startedOver)
    BY <1>2, <1>4, GoesOn
  <2>2. UNCHANGED <<up, startedOver>>
    BY <1>4 DEF Probed, Decodes, DecodeFails, StreamCloses, TrackEnds, Opened, OrphanEnds, Rest
  <2> QED BY <2>1, <2>2
<1>5. CASE Old \/ New
  <2>1. Sound(p', up = "left", startedOver)
    BY <1>2, <1>5, Commanded
  <2>2. UNCHANGED <<up, startedOver>>
    BY <1>5 DEF Old, New
  <2> QED BY <2>1, <2>2
<1>6. CASE SetRepeat
  BY <1>2, <1>6 DEF SetRepeat
<1>7. CASE \/ Leave \/ Disconnected \/ Start \/ Connected \/ StartFails \/ ClientError
           \/ PauseForIdle \/ ResumeFromIdle
  BY <1>2, <1>7, Connects
<1> QED BY <1>3, <1>4, <1>5, <1>6, <1>7 DEF Next

\* A bot that no station was opened late for is sound for ever, whatever is asked of it and
\* whatever ffmpeg, the stations and the connection do; a start over what it plays costs what its
\* status says, not its decoder.
THEOREM PlayerIsSound == Spec => []PlayerInv
BY Begins, Goes, PTL DEF Spec

\* At most one decoder runs and streamKill stops it (startSong, playStream, stopDecoder).
THEOREM OneDecoderRuns == Spec => []OneDecoder
<1>1. PlayerInv => OneDecoder
  BY DEF PlayerInv, Sound, OneAtATime, OneDecoder, Living
<1> QED BY <1>1, PlayerIsSound, PTL

\* The status a page shows is what is heard (play, pause, stopAudio, the loop's own end), until a
\* start ends over what is played (start, which keeps it).
THEOREM StatusHeard == Spec => []StatusIsHeard
<1>1. PlayerInv => StatusIsHeard
  BY DEF PlayerInv, Sound, Quiet, StatusIsHeard
<1> QED BY <1>1, PlayerIsSound, PTL

\* What only a pause may remember is forgotten with it (pauseForIdle, pausedStation), until a start
\* ends over it.
THEOREM PausesEnd == Spec => []PauseIsAPause
<1>1. PlayerInv => PauseIsAPause
  BY DEF PlayerInv, Sound, PauseIsAPause
<1> QED BY <1>1, PlayerIsSound, PTL
------------------------------------------------------------------------------
(* The fields of any bot, also one that a station was opened late for: a *)
(* decoder more may run then, but none is stopped that does not.         *)

Well(r) ==
  /\ r \in Fields(r.now)
  /\ r.kill => r.loop \in Living
  /\ r.loop \in Living => r.alive >= 1

LEMMA WellCut ==
  ASSUME NEW r, r \in Fields(r.now), r.kill => r.alive >= 1
  PROVE  LET s == StopDecoder(ClearTimer(r)) IN
         /\ s \in Fields(r.now) /\ s.kill = FALSE /\ s.loop = "none"
         /\ s.status = r.status /\ s.now = r.now
<1> DEFINE c == ClearTimer(r)
           s == StopDecoder(c)
<1>1. /\ c \in Fields(r.now) /\ Quiet(c) /\ c.kill = r.kill /\ c.alive = r.alive
      /\ c.status = r.status /\ c.now = r.now
  BY TimerCleared
<1> HIDE DEF c
<1>2. \E n \in Nat : n = c.alive - One(c.kill)
  <2>1. c.alive \in Nat /\ c.kill \in BOOLEAN
    BY <1>1 DEF Fields
  <2>2. CASE c.kill
    <3>1. c.alive >= 1 /\ One(c.kill) = 1
      BY <1>1, <2>2 DEF One
    <3>2. c.alive - 1 \in Nat
      BY <2>1, <3>1
    <3> QED BY <3>1, <3>2
  <2>3. CASE ~c.kill
    BY <2>1, <2>3 DEF One
  <2> QED BY <2>2, <2>3
<1>3. PICK n \in Nat : n = c.alive - One(c.kill)
  BY <1>2
<1>4. s = [c EXCEPT !.kill = FALSE, !.alive = n]
  BY <1>3 DEF StopDecoder
<1>5. /\ s \in Fields(r.now) /\ s.kill = FALSE /\ s.loop = c.loop
      /\ s.status = c.status /\ s.now = c.now
  BY <1>1, <1>4 DEF Fields
<1> HIDE DEF s
<1>6. /\ s \in Fields(r.now) /\ s.kill = FALSE /\ s.loop = "none"
      /\ s.status = r.status /\ s.now = r.now
  BY <1>1, <1>5 DEF Quiet
<1> QED BY <1>6 DEF s, c

LEMMA WellStopped ==
  ASSUME NEW r, r \in Fields(r.now), r.kill => r.alive >= 1
  PROVE  LET s == StopPlayback(r) IN
         /\ s \in Fields(r.now) /\ s.kill = FALSE /\ s.loop = "none"
         /\ s.status = r.status /\ s.now = r.now
<1> DEFINE k == StopDecoder(ClearTimer(r))
<1>1. /\ k \in Fields(r.now) /\ k.kill = FALSE /\ k.loop = "none"
      /\ k.status = r.status /\ k.now = r.now
  BY WellCut
<1>2. StopPlayback(r) = [k EXCEPT !.station = FALSE, !.idle = FALSE, !.radio = FALSE]
  BY DEF StopPlayback
<1> HIDE DEF k
<1> QED BY <1>1, <1>2 DEF Fields

LEMMA WellStarted ==
  ASSUME NEW r, r \in Fields(r.now), r.kill => r.alive >= 1, NEW byPlay \in BOOLEAN
  PROVE  LET s == StartSong(r, byPlay) IN
         Well(s) /\ s.status = r.status /\ s.now = r.now
<1> DEFINE k == StopDecoder(ClearTimer(r))
           s == StartSong(r, byPlay)
<1>1. k \in Fields(r.now) /\ k.status = r.status /\ k.now = r.now
  BY WellCut
<1>2. PICK n \in Nat : n = k.alive + 1 /\ n >= 1
  <2>1. k.alive \in Nat
    BY <1>1 DEF Fields
  <2> HIDE DEF k
  <2> QED BY <2>1
<1>3. s = [k EXCEPT !.loop = "starting", !.byPlay = byPlay, !.kill = TRUE, !.alive = n]
  BY <1>2 DEF StartSong
<1> HIDE DEF k
<1>4. /\ s \in Fields(r.now) /\ s.loop = "starting" /\ s.alive = n
      /\ s.status = k.status /\ s.now = k.now
  BY <1>1, <1>3 DEF Fields
<1> HIDE DEF s
<1>5. Well(s) /\ s.status = r.status /\ s.now = r.now
  BY <1>1, <1>2, <1>4 DEF Well, Living
<1> QED BY <1>5 DEF s

\* play: of a bot that runs, the track plays; one that does not refuses it.
LEMMA WellPlayed ==
  ASSUME NEW r, Well(r), NEW t, NEW s \in Play(r, t)
  PROVE  /\ Well(s)
         /\ IF Refuses(r) THEN s = r ELSE s.status = "playing" /\ s.now = t
<1>1. CASE Refuses(r)
  BY <1>1 DEF Play
<1>2. CASE ~Refuses(r)
  <2> DEFINE k == StopPlayback(r)
             b == [k EXCEPT !.now = t, !.status = "playing"]
  <2>1. k \in Fields(r.now) /\ k.kill = FALSE /\ k.loop = "none"
    BY WellStopped DEF Well
  <2>2. s \in {StartSong(b, TRUE), [b EXCEPT !.probe = TRUE]}
    BY <1>2 DEF Play
  <2> HIDE DEF k
  <2>3. b \in Fields(t) /\ b.now = t /\ b.status = "playing" /\ b.kill = FALSE /\ b.loop = "none"
    BY <2>1 DEF Fields
  <2> HIDE DEF b
  <2>4. CASE s = StartSong(b, TRUE)
    BY <1>2, <2>3, <2>4, WellStarted
  <2>5. CASE s = [b EXCEPT !.probe = TRUE]
    BY <1>2, <2>3, <2>5 DEF Well, Fields, Living
  <2> QED BY <2>2, <2>4, <2>5
<1> QED BY <1>1, <1>2

LEMMA WellStreamed ==
  ASSUME NEW r, r \in Fields(r.now), r.kill => r.alive >= 1, ~Refuses(r)
  PROVE  LET s == PlayStream(r) IN
         Well(s) /\ s.status = "playing" /\ s.now = Station
<1> DEFINE k == StopPlayback(r)
<1>1. k \in Fields(r.now) /\ k.kill = FALSE /\ k.loop = "none"
  BY WellStopped
<1>2. PlayStream(r) = [k EXCEPT !.now = Station, !.radio = TRUE, !.status = "playing", !.open = TRUE]
  BY DEF PlayStream
<1> HIDE DEF k
<1> QED BY <1>1, <1>2 DEF Well, Fields, Living

LEMMA WellSilenced ==
  ASSUME NEW r, Well(r)
  PROVE  /\ Well(Silenced(r)) /\ Silenced(r).status = "connected" /\ Silenced(r).now = NoTrack
         /\ Well(AudioStopped(r)) /\ AudioStopped(r).now = NoTrack
<1> DEFINE k == StopPlayback(r)
<1>1. k \in Fields(r.now) /\ k.kill = FALSE /\ k.loop = "none"
  BY WellStopped DEF Well
<1>2. PICK status \in {"stopped", "starting", "connected", "playing", "paused", "error"} :
        status = IF k.status \in {"playing", "paused"} THEN "connected" ELSE k.status
  BY <1>1 DEF Fields
<1>3. /\ Silenced(r) = [k EXCEPT !.now = NoTrack, !.status = "connected"]
      /\ AudioStopped(r) = [k EXCEPT !.now = NoTrack, !.status = status]
  BY <1>2 DEF Silenced, AudioStopped
<1> HIDE DEF k
<1>4. ASSUME NEW v \in {"stopped", "starting", "connected", "playing", "paused", "error"},
             NEW s, s = [k EXCEPT !.now = NoTrack, !.status = v]
      PROVE  Well(s) /\ s.status = v /\ s.now = NoTrack
  BY <1>1, <1>4 DEF Well, Fields, Living
<1> QED BY <1>2, <1>3, <1>4

LEMMA WellPaused ==
  ASSUME NEW r, Well(r), NEW s, s \in {Paused(r), [Paused(r) EXCEPT !.idle = TRUE]}
  PROVE  Well(s) /\ s.status = "paused" /\ s.now = r.now
<1> DEFINE k == StopDecoder(ClearTimer(r))
           radio == k.radio /\ r.now = NoTrack
           station == k.station \/ (r.radio /\ r.now # NoTrack)
           v == Paused(r)
<1>1. k \in Fields(r.now) /\ k.kill = FALSE /\ k.loop = "none" /\ k.now = r.now
  BY WellCut DEF Well
<1>2. v = [k EXCEPT !.status = "paused", !.radio = radio, !.station = station]
  BY DEF Paused
<1>3. radio \in BOOLEAN /\ station \in BOOLEAN
  BY <1>1 DEF Well, Fields
<1> HIDE DEF k, radio, station
<1>4. /\ v \in Fields(r.now) /\ v.now = r.now /\ v.status = "paused"
      /\ v.kill = FALSE /\ v.loop = "none"
  BY <1>1, <1>2, <1>3 DEF Fields
<1> HIDE DEF v
<1>5. s = v \/ s = [v EXCEPT !.idle = TRUE]
  BY DEF v
<1> QED BY <1>4, <1>5 DEF Well, Fields, Living

LEMMA WellResumed ==
  ASSUME NEW r, Well(r), r.status = "paused"
  PROVE  LET s == Resumed(r) IN
         Well(s) /\ s.status \in {"playing", "paused"} /\ s.now \in {r.now, Station}
<1> DEFINE i == [r EXCEPT !.idle = FALSE]
<1>1. CASE r.station
  <2> DEFINE k == [i EXCEPT !.station = FALSE]
  <2>1. k \in Fields(k.now) /\ (k.kill => k.alive >= 1) /\ ~Refuses(k)
    BY DEF Well, Fields, Refuses
  <2>2. Resumed(r) = PlayStream(k)
    BY <1>1 DEF Resumed
  <2> HIDE DEF k
  <2> QED BY <2>1, <2>2, WellStreamed
<1>2. CASE ~r.station /\ r.now = NoTrack
  BY <1>2 DEF Resumed, Well, Fields
<1>3. CASE ~r.station /\ r.now # NoTrack
  <2> DEFINE k == [i EXCEPT !.status = "playing"]
  <2>1. /\ k \in Fields(k.now) /\ (k.kill => k.alive >= 1) /\ k.status = "playing" /\ k.now = r.now
    BY DEF Well, Fields
  <2>2. Resumed(r) = StartSong(k, FALSE)
    BY <1>3 DEF Resumed
  <2> HIDE DEF k
  <2> QED BY <2>1, <2>2, WellStarted
<1> QED BY <1>1, <1>2, <1>3

------------------------------------------------------------------------------
(* The bot and its queue *)

\* The current track is the one that plays.
Heard(r, queue) == r.now \in Nat /\ queue.hasCurrent => Current(queue) = r.now

\* A step keeps that, or a bot that does not run refused its new current track.
HeardStill ==
  Heard(p, q) => Heard(p', q') \/ (Refuses(p) /\ Refuses(p') /\ Current(q') # Current(q))

\* A step does not bring the bot to rest ahead of tracks.
GoesOnPlaying ==
  p'.status = "connected" /\ Upcoming(q') # <<>> => p.status = "connected" /\ Upcoming(q) # <<>>

\* The tracks T a bot knows; its player and its queue after a step.
Knows(r, T) == Well(r) /\ r.now \in T \cup {Station, NoTrack}
Queued(T)   == q' \in Queues(T) /\ (Once(q) => Once(q'))

LEMMA TracksAreNumbers ==
  ASSUME NEW T, T \subseteq Nat, NEW queue \in Queues(T)
  PROVE  /\ Current(queue) = NoTrack <=> ~queue.hasCurrent
         /\ Current(queue) # NoTrack => Current(queue) \in T
         /\ queue.hasCurrent \in BOOLEAN
         /\ NoTrack \notin T /\ NoTrack \notin Nat /\ Station \notin Nat /\ Station # NoTrack
<1>1. NoTrack \notin T /\ NoTrack \notin Nat /\ Station \notin Nat /\ Station # NoTrack
  BY QueueAssumption, PlayerAssumption
<1>2. queue.hasCurrent => Current(queue) \in T
  BY UpcomingIs
<1>3. ~queue.hasCurrent => Current(queue) = NoTrack
  BY DEF Current
<1> QED BY <1>1, <1>2, <1>3 DEF Queues

LEMMA Played ==
  ASSUME NEW T, T \subseteq Nat, q' \in Queues(T), q'.hasCurrent,
         NEW r, Knows(r, T), r = p \/ ~Refuses(r), p' \in Play(r, Current(q'))
  PROVE  Knows(p', T) /\ HeardStill /\ GoesOnPlaying /\ (~Refuses(r) => ~Refuses(p'))
<1>1. Current(q') \in T /\ Current(q') # NoTrack /\ NoTrack \notin Nat
  BY TracksAreNumbers
<1>2. Well(p') /\ IF Refuses(r) THEN p' = r ELSE p'.status = "playing" /\ p'.now = Current(q')
  BY WellPlayed DEF Knows
<1>3. CASE Refuses(r)
  <2>1. r = p /\ p' = p
    BY <1>2, <1>3
  <2>2. p.status # "connected"
    BY <1>3, <2>1 DEF Refuses
  <2>3. Current(q') = Current(q) => q.hasCurrent
    BY <1>1 DEF Current
  <2>4. HeardStill
    BY <1>3, <2>1, <2>3 DEF HeardStill, Heard
  <2> QED BY <2>1, <2>2, <2>4 DEF GoesOnPlaying
<1>4. CASE ~Refuses(r)
  BY <1>1, <1>2, <1>4 DEF Knows, HeardStill, Heard, GoesOnPlaying, Refuses
<1> QED BY <1>3, <1>4

LEMMA PlayedFrom ==
  ASSUME NEW T, T \subseteq Nat, NEW queue \in Queues(T),
         NEW r, Knows(r, T), r = p \/ ~Refuses(r), PlayFrom(r, queue)
  PROVE  /\ q' = queue /\ Knows(p', T) /\ HeardStill
         /\ Current(queue) # NoTrack => GoesOnPlaying
         /\ Current(queue) = NoTrack => p' = r
         /\ ~Refuses(r) => ~Refuses(p')
<1>1. q' = queue /\ IF Current(queue) = NoTrack THEN p' = r ELSE p' \in Play(r, Current(queue))
  BY DEF PlayFrom
<1>2. Current(queue) = NoTrack <=> ~queue.hasCurrent
  BY TracksAreNumbers
<1>3. CASE Current(queue) = NoTrack
  BY <1>1, <1>2, <1>3 DEF HeardStill, Heard
<1>4. CASE Current(queue) # NoTrack
  BY <1>1, <1>2, <1>4, Played
<1> QED BY <1>3, <1>4

\* The queue's next track, of a bot that is or has become quiet.
LEMMA NextPlays ==
  ASSUME NEW T, T \subseteq Nat, NEW queue \in Queues(T),
         NEW r, Knows(r, T), r = p \/ ~Refuses(r), PlayFrom(r, NextOf(queue))
  PROVE  /\ Knows(p', T) /\ HeardStill /\ GoesOnPlaying
         /\ q' \in Queues(T) /\ (Once(queue) => Once(q'))
         /\ ~Refuses(r) => ~Refuses(p')
<1> DEFINE n == NextOf(queue)
<1>1. NoTrack \notin T
  BY TracksAreNumbers
<1>2. /\ n \in Queues(T) /\ (Once(queue) => Once(n))
      /\ Current(n) = NoTrack => n.items = <<>> /\ n.hasCurrent = FALSE
  BY <1>1, GoesToNext
<1> HIDE DEF n
<1>3. /\ q' = n /\ Knows(p', T) /\ HeardStill /\ (~Refuses(r) => ~Refuses(p'))
      /\ Current(n) # NoTrack => GoesOnPlaying
  BY <1>2, PlayedFrom DEF n
<1>4. CASE Current(n) = NoTrack
  <2>1. Upcoming(n) = <<>>
    BY <1>2, <1>4, UpcomingIs
  <2> QED BY <1>2, <1>3, <2>1 DEF GoesOnPlaying
<1> QED BY <1>2, <1>3, <1>4

\* A step of the queue alone.
LEMMA QueueOnly ==
  ASSUME UNCHANGED p, q'.hasCurrent => q.hasCurrent /\ Current(q') = Current(q)
  PROVE  HeardStill
BY DEF HeardStill, Heard

\* What the pages, chat and flows may ask of a queue that is there.
LEMMA OldTracks ==
  ASSUME NEW T, T \subseteq Nat, Knows(p, T), q \in Queues(T), Old
  PROVE  /\ Knows(p', T) /\ Queued(T) /\ HeardStill
         /\ StopAudio \/ (PreviousSong /\ Current(q) = NoTrack) \/ GoesOnPlaying
<1>0. /\ NoTrack \notin T /\ NoTrack \notin Nat /\ Station \notin Nat /\ Station # NoTrack
      /\ Current(q) = NoTrack <=> ~q.hasCurrent
  BY TracksAreNumbers
<1>1. ASSUME UNCHANGED q, Well(p'), p'.now \in {p.now, Station, NoTrack}
      PROVE  Knows(p', T) /\ Queued(T) /\ HeardStill
  <2>1. Knows(p', T) /\ Queued(T)
    BY <1>1 DEF Knows, Queued
  <2>2. HeardStill
    BY <1>0, <1>1 DEF HeardStill, Heard
  <2> QED BY <2>1, <2>2
<1>2. CASE Pause
  <2>1. UNCHANGED q /\ Well(p') /\ p'.status = "paused" /\ p'.now = p.now
    BY <1>2, WellPaused DEF Pause, Knows
  <2> QED BY <1>1, <2>1 DEF GoesOnPlaying
<1>3. CASE Resume
  <2>1. /\ UNCHANGED q /\ Well(p') /\ p'.status \in {"playing", "paused"}
        /\ p'.now \in {p.now, Station}
    BY <1>3, WellResumed DEF Resume, Knows
  <2> QED BY <1>1, <2>1 DEF GoesOnPlaying
<1>4. CASE Seek
  <2>1. p \in Fields(p.now) /\ (p.kill => p.alive >= 1) /\ p' = StartSong(p, FALSE) /\ UNCHANGED q
    BY <1>4 DEF Seek, Knows, Well
  <2>2. Well(p') /\ p'.status = p.status /\ p'.now = p.now
    BY <2>1, WellStarted
  <2> QED BY <1>1, <1>4, <2>1, <2>2 DEF Seek, GoesOnPlaying
<1>5. Knows(Silenced(p), T) /\ ~Refuses(Silenced(p)) /\ Silenced(p).status = "connected"
  BY WellSilenced DEF Knows, Refuses
<1>6. CASE Skip
  <2>1. PlayFrom(Silenced(p), NextOf(q))
    BY <1>6 DEF Skip
  <2> QED BY <1>5, <2>1, NextPlays DEF Queued
<1>7. Previous(q) \in Queues(T) /\ (Once(q) => Once(Previous(q)))
      /\ (Current(Previous(q)) = NoTrack => Previous(q) = q)
  BY <1>0, StepsBack
<1>8. CASE PreviousSong
  <2>1. PlayFrom(Silenced(p), Previous(q))
    BY <1>8 DEF PreviousSong
  <2>2. /\ q' = Previous(q) /\ Knows(p', T) /\ HeardStill
        /\ Current(Previous(q)) # NoTrack => GoesOnPlaying
    BY <1>5, <1>7, <2>1, PlayedFrom
  <2> QED BY <1>7, <1>8, <2>2 DEF Queued
<1>9. CASE ChatPrevious
  <2>1. PlayFrom(p, Previous(q))
    BY <1>9 DEF ChatPrevious
  <2>2. /\ q' = Previous(q) /\ Knows(p', T) /\ HeardStill
        /\ Current(Previous(q)) # NoTrack => GoesOnPlaying
        /\ Current(Previous(q)) = NoTrack => p' = p
    BY <1>7, <2>1, PlayedFrom
  <2> QED BY <1>7, <2>2 DEF Queued, GoesOnPlaying
<1>10. CASE StopAudio
  BY <1>1, <1>10, WellSilenced DEF StopAudio, Knows
<1>11. CASE ChatSkip
  <2>1. /\ NextOf(q) \in Queues(T) /\ (Once(q) => Once(NextOf(q)))
        /\ Current(NextOf(q)) = NoTrack => NextOf(q).items = <<>> /\ NextOf(q).hasCurrent = FALSE
        /\ Current(NextOf(q)) # NoTrack => NextOf(q).hasCurrent
    BY <1>0, GoesToNext
  <2>2. q' = NextOf(q) /\ Queued(T)
    BY <1>11, <2>1 DEF ChatSkip, Queued
  <2>3. CASE Current(q') = NoTrack
    <3>1. Upcoming(q') = <<>> /\ ~q'.hasCurrent
      BY <2>1, <2>2, <2>3, UpcomingIs
    <3>2. p' = AudioStopped(p)
      BY <1>11, <2>3 DEF ChatSkip
    <3> QED BY <2>2, <3>1, <3>2, WellSilenced DEF Knows, HeardStill, Heard, GoesOnPlaying
  <2>4. CASE Current(q') # NoTrack
    <3>1. p' \in Play(p, Current(q')) /\ q' \in Queues(T) /\ q'.hasCurrent
      BY <1>11, <2>1, <2>2, <2>4 DEF ChatSkip
    <3> QED BY <2>2, <3>1, Played
  <2> QED BY <2>3, <2>4
<1>12. CASE PlayRadio
  <2>1. /\ p \in Fields(p.now) /\ (p.kill => p.alive >= 1) /\ ~Refuses(p) /\ p' = PlayStream(p)
        /\ UNCHANGED q
    BY <1>12 DEF PlayRadio, Knows, Well
  <2>2. Well(p') /\ p'.status = "playing" /\ p'.now = Station
    BY <2>1, WellStreamed
  <2> QED BY <1>1, <2>1, <2>2 DEF GoesOnPlaying
<1>13. CASE Reorder
  <2>1. /\ q' \in Queues(T) /\ q'.hasCurrent = q.hasCurrent /\ Current(q') = Current(q)
        /\ Upcoming(q') = <<>> <=> Upcoming(q) = <<>>
        /\ Once(q) => Once(q')
    <3>1. CASE q' \in Shuffled(q) \cup Unshuffled(q)
      BY <3>1, Rearranges
    <3>2. ASSUME NEW i \in Places(q), NEW j \in Places(q), q' = Moved(q, i, j)
          PROVE  /\ q' \in Queues(T) /\ q'.hasCurrent = q.hasCurrent /\ Current(q') = Current(q)
                 /\ Upcoming(q') = <<>> <=> Upcoming(q) = <<>>
                 /\ Once(q) => Once(q')
      BY <3>2, Moves
    <3> QED BY <1>13, <3>1, <3>2 DEF Reorder
  <2>2. UNCHANGED p
    BY <1>13 DEF Reorder
  <2> QED BY <2>1, <2>2, QueueOnly DEF Knows, Queued, GoesOnPlaying
<1>14. CASE RemoveItem
  <2>1. PICK i \in DOMAIN q.items : q' = Removed(q, i)
    BY <1>14 DEF RemoveItem
  <2>2. /\ q' \in Queues(T) /\ (q'.hasCurrent => q.hasCurrent /\ Current(q') = Current(q))
        /\ Upcoming(q') # <<>> => Upcoming(q) # <<>>
        /\ Once(q) => Once(q')
    BY <2>1, Removes
  <2>3. UNCHANGED p
    BY <1>14 DEF RemoveItem
  <2> QED BY <2>2, <2>3, QueueOnly DEF Knows, Queued, GoesOnPlaying
<1>15. CASE Clear
  <2>1. UNCHANGED p /\ q' = Cleared(q)
    BY <1>15 DEF Clear
  <2>2. q' \in Queues(T) /\ q'.hasCurrent = FALSE /\ Upcoming(q') = <<>> /\ Once(q')
    BY <2>1, Clears
  <2> QED BY <2>1, <2>2, QueueOnly DEF Knows, Queued, GoesOnPlaying
<1>16. ASSUME NEW i \in DOMAIN q.items, PlayIndex(i)
       PROVE  Knows(p', T) /\ Queued(T) /\ HeardStill /\ GoesOnPlaying
  <2>1. /\ PlayNow(q, i) \in Queues(T) /\ Current(PlayNow(q, i)) \in T
        /\ Once(q) => Once(PlayNow(q, i))
    BY PlaysNow
  <2>2. PlayFrom(p, PlayNow(q, i))
    BY <1>16 DEF PlayIndex
  <2>3. Current(PlayNow(q, i)) # NoTrack
    BY <1>0, <2>1
  <2> QED BY <2>1, <2>2, <2>3, PlayedFrom DEF Queued
<1> QED BY <1>2, <1>3, <1>4, <1>6, <1>8, <1>9, <1>10, <1>11, <1>12, <1>13, <1>14, <1>15, <1>16 DEF Old

\* A track more.
LEMMA NewTrack ==
  ASSUME NEW T, T \subseteq Nat, Knows(p, T), q \in Queues(T), NEW t \in T, t \notin Tracks(q),
         PlayItem(t) \/ QueueItem(t) \/ LoadItem(t)
  PROVE  Knows(p', T) /\ Queued(T) /\ HeardStill /\ GoesOnPlaying
<1>1. CASE PlayItem(t)
  <2> DEFINE r == InsertNext(q, t)
  <2>1. PICK u : u = Current(r)
    OBVIOUS
  <2>2. u = t
    BY <2>1, InsertsNext
  <2>3. r \in Queues(T) /\ r.hasCurrent = TRUE /\ (Once(q) => Once(r))
    BY InsertsNext
  <2>4. q' = r /\ p' \in Play(p, t)
    BY <1>1 DEF PlayItem
  <2>5. q' \in Queues(T) /\ q'.hasCurrent /\ p' \in Play(p, Current(q')) /\ Queued(T)
    BY <2>1, <2>2, <2>3, <2>4 DEF Queued
  <2> QED BY <2>5, Played
<1>2. CASE p.status # "connected" /\ q' \in Added(q, t) /\ UNCHANGED p
  <2>1. /\ q' \in Queues(T) /\ q'.hasCurrent = q.hasCurrent /\ Current(q') = Current(q)
        /\ Once(q) => Once(q')
    BY <1>2, Adds
  <2> QED BY <1>2, <2>1, QueueOnly DEF Knows, Queued, GoesOnPlaying
<1>3. CASE QueueItem(t)
  BY <1>1, <1>2, <1>3 DEF QueueItem
<1>4. CASE LoadItem(t)
  <2>1. PICK clear \in BOOLEAN : \E r \in Added(IF clear THEN Cleared(q) ELSE q, t) :
          IF p.status = "connected" \/ (clear /\ ~Refuses(p)) THEN PlayFrom(p, NextOf(r))
          ELSE q' = r /\ UNCHANGED p
    BY <1>4 DEF LoadItem
  <2> DEFINE b == IF clear THEN Cleared(q) ELSE q
  <2>2. /\ b \in Queues(T) /\ (b.hasCurrent => q.hasCurrent /\ Current(b) = Current(q))
        /\ Once(q) => Once(b) /\ t \notin Tracks(b)
    BY Clears
  <2>3. PICK r \in Added(b, t) :
          IF p.status = "connected" \/ (clear /\ ~Refuses(p)) THEN PlayFrom(p, NextOf(r))
          ELSE q' = r /\ UNCHANGED p
    BY <2>1
  <2> HIDE DEF b
  <2>4. /\ r \in Queues(T) /\ (r.hasCurrent => q.hasCurrent /\ Current(r) = Current(q))
        /\ Once(q) => Once(r)
    BY <2>2, Adds
  <2>5. CASE PlayFrom(p, NextOf(r))
    BY <2>4, <2>5, NextPlays DEF Queued
  <2>6. CASE p.status # "connected" /\ q' = r /\ UNCHANGED p
    BY <2>4, <2>6, QueueOnly DEF Knows, Queued, GoesOnPlaying
  <2> QED BY <2>3, <2>5, <2>6
<1> QED BY <1>1, <1>3, <1>4

\* What was begun goes on, and the connection and the channel's other clients come and go.
LEMMA Otherwise ==
  ASSUME NEW T, T \subseteq Nat, Knows(p, T), q \in Queues(T),
         Probed \/ Decodes \/ DecodeFails \/ TrackEnds \/ Opened \/ StreamCloses \/ OrphanEnds
         \/ Leave \/ Disconnected \/ Start \/ Connected \/ StartFails \/ ClientError
         \/ PauseForIdle \/ ResumeFromIdle
  PROVE  /\ Knows(p', T) /\ Queued(T) /\ (Heard(p, q) => Heard(p', q'))
         /\ DecodeFails \/ Opened \/ StreamCloses \/ Connected \/ GoesOnPlaying
<1>0. /\ NoTrack \notin Nat /\ Station \notin Nat
      /\ p \in Fields(p.now) /\ p.alive \in Nat /\ (p.kill => p.alive >= 1)
      /\ p.now \in T \cup {Station, NoTrack}
  BY TracksAreNumbers DEF Knows, Well, Fields
<1>1. ASSUME UNCHANGED q, Well(p'), p'.now \in {p.now, Station, NoTrack}
      PROVE  Knows(p', T) /\ Queued(T) /\ (Heard(p, q) => Heard(p', q'))
  BY <1>0, <1>1 DEF Knows, Queued, Heard
<1>2. CASE Probed
  <2>1. CASE p.probe /\ p' = StartSong([p EXCEPT !.probe = FALSE], TRUE)
    <3> DEFINE k == [p EXCEPT !.probe = FALSE]
    <3>1. /\ k \in Fields(k.now) /\ (k.kill => k.alive >= 1) /\ k.now = p.now
          /\ k.status = p.status
      BY <1>0 DEF Fields
    <3> HIDE DEF k
    <3>2. Well(p') /\ p'.now = p.now /\ p'.status = p.status
      BY <2>1, <3>1, WellStarted DEF k
    <3> QED BY <1>1, <1>2, <3>2 DEF Probed, GoesOnPlaying
  <2>2. CASE p.lateProbes > 0 /\ p' = [p EXCEPT !.lateProbes = @ - 1]
    <3>1. PICK n \in Nat : n = p.lateProbes - 1
      BY <1>0, <2>2 DEF Fields
    <3>2. Well(p') /\ p'.now = p.now /\ p'.status = p.status
      BY <2>2, <3>1 DEF Knows, Well, Fields
    <3> QED BY <1>1, <1>2, <3>2 DEF Probed, GoesOnPlaying
  <2> QED BY <1>2, <2>1, <2>2 DEF Probed
<1>3. ASSUME p.loop \in Living
      PROVE  \E n \in Nat : n = p.alive - 1
  BY <1>0, <1>3 DEF Knows, Well
<1>4. CASE Decodes
  <2>1. CASE p.loop = "starting" /\ p' = [p EXCEPT !.loop = "flowing"]
    <3>1. Well(p') /\ p'.now = p.now /\ p'.status = p.status
      BY <2>1 DEF Knows, Well, Fields, Living
    <3> QED BY <1>1, <1>4, <3>1 DEF Decodes, GoesOnPlaying
  <2>2. CASE /\ p.loop \in {"starting", "flowing"}
             /\ p' = [p EXCEPT !.loop = "ended", !.kill = FALSE, !.alive = @ - 1]
    <3>1. PICK n \in Nat : n = p.alive - 1
      BY <1>3, <2>2 DEF Living
    <3>2. p' = [p EXCEPT !.loop = "ended", !.kill = FALSE, !.alive = n]
      BY <2>2, <3>1
    <3>3. Well(p') /\ p'.now = p.now /\ p'.status = p.status
      BY <3>2 DEF Knows, Well, Fields, Living
    <3> QED BY <1>1, <1>4, <3>3 DEF Decodes, GoesOnPlaying
  <2> QED BY <1>4, <2>1, <2>2 DEF Decodes
<1>5. CASE DecodeFails
  <2>1. PICK n \in Nat : n = p.alive - 1
    BY <1>3, <1>5 DEF DecodeFails, Living
  <2> DEFINE r == [p EXCEPT !.loop = "failed", !.kill = FALSE, !.alive = n]
  <2>2. p' = IF p.byPlay
             THEN [r EXCEPT !.loop = "none", !.status = "connected", !.now = NoTrack]
             ELSE r
    BY <1>5, <2>1 DEF DecodeFails
  <2>3. Well(p') /\ p'.now \in {p.now, NoTrack}
    BY <1>0, <2>2 DEF Well, Fields, Living
  <2> QED BY <1>1, <1>5, <2>3 DEF DecodeFails
<1>6. CASE StreamCloses
  <2>1. PICK n \in Nat : n = p.alive - 1
    BY <1>3, <1>6 DEF StreamCloses, Living
  <2>2. p' = [p EXCEPT !.loop = "none", !.radio = FALSE, !.kill = FALSE, !.alive = n,
                       !.now = NoTrack, !.status = "connected"]
    BY <1>6, <2>1 DEF StreamCloses
  <2>3. Well(p') /\ p'.now = NoTrack
    BY <1>0, <2>2 DEF Well, Fields, Living
  <2> QED BY <1>1, <1>6, <2>3 DEF StreamCloses
<1>7. CASE TrackEnds
  <2> DEFINE c == ClearTimer(p)
             r == [c EXCEPT !.now = NoTrack, !.status = "connected"]
  <2>1. c \in Fields(p.now) /\ c.kill = FALSE /\ c.loop = "none"
    <3>1. c \in Fields(p.now) /\ Quiet(c) /\ c.kill = p.kill
      BY <1>0, TimerCleared
    <3>2. p.kill = FALSE
      BY <1>0, <1>7 DEF TrackEnds, Knows, Well, Living, Fields
    <3> QED BY <3>1, <3>2 DEF Quiet
  <2> HIDE DEF c
  <2>2. Well(r) /\ r.now = NoTrack /\ r.status = "connected"
    BY <2>1 DEF Well, Fields, Living
  <2> HIDE DEF r
  <2>3. Knows(r, T) /\ ~Refuses(r)
    BY <2>2 DEF Knows, Refuses
  <2>4. CASE p' \in Play(r, p.now) /\ UNCHANGED q
    <3>1. Well(p') /\ p'.status = "playing" /\ p'.now = p.now
      BY <2>2, <2>3, <2>4, WellPlayed
    <3> QED BY <1>1, <2>4, <3>1 DEF GoesOnPlaying
  <2>5. CASE PlayFrom(r, NextOf(q))
    <3>1. /\ Knows(p', T) /\ HeardStill /\ GoesOnPlaying /\ ~Refuses(p')
          /\ q' \in Queues(T) /\ (Once(q) => Once(q'))
      BY <2>3, <2>5, NextPlays
    <3> QED BY <3>1 DEF Queued, HeardStill
  <2> QED BY <1>7, <2>4, <2>5 DEF TrackEnds, r, c
<1>8. CASE Opened
  <2>1. PICK r : /\ OpenEnds(r)
                 /\ \/ r = [p EXCEPT !.open = FALSE]
                    \/ p.lateOpens > 0 /\ r = [p EXCEPT !.lateOpens = @ - 1]
    BY <1>8 DEF Opened
  <2>2. r \in Fields(r.now) /\ r.now = p.now /\ r.loop = p.loop /\ r.alive = p.alive
    <3>1. CASE r = [p EXCEPT !.open = FALSE]
      BY <1>0, <3>1 DEF Fields
    <3>2. CASE p.lateOpens > 0 /\ r = [p EXCEPT !.lateOpens = @ - 1]
      <4>1. PICK n \in Nat : n = p.lateOpens - 1
        BY <1>0, <3>2 DEF Fields
      <4> QED BY <1>0, <3>2, <4>1 DEF Fields
    <3> QED BY <2>1, <3>1, <3>2
  <2>3. CASE p' = [r EXCEPT !.radio = FALSE, !.kill = FALSE, !.status = "connected", !.now = NoTrack]
    <3>1. Well(p') /\ p'.now = NoTrack
      BY <2>2, <2>3 DEF Knows, Well, Fields
    <3> QED BY <1>1, <1>8, <3>1 DEF Opened
  <2>4. CASE p' = [ClearTimer(r) EXCEPT !.loop = "stream", !.kill = TRUE, !.alive = @ + 1]
    <3> DEFINE c == ClearTimer(r)
    <3>1. c \in Fields(r.now) /\ c.now = r.now /\ c.alive \in Nat
      <4>1. c \in Fields(r.now) /\ c.now = r.now
        BY <2>2, TimerCleared
      <4> QED BY <4>1 DEF Fields
    <3> HIDE DEF c
    <3>2. PICK n \in Nat : n = c.alive + 1 /\ n >= 1
      BY <3>1
    <3>3. p' = [c EXCEPT !.loop = "stream", !.kill = TRUE, !.alive = n]
      BY <2>4, <3>2 DEF c
    <3>4. p' \in Fields(r.now) /\ p'.now = r.now /\ p'.loop = "stream" /\ p'.alive = n
      BY <3>1, <3>3 DEF Fields
    <3>5. Well(p') /\ p'.now = p.now
      BY <2>2, <3>2, <3>4 DEF Well, Living
    <3> QED BY <1>1, <1>8, <3>5 DEF Opened
  <2> QED BY <2>1, <2>3, <2>4 DEF OpenEnds
<1>9. CASE OrphanEnds
  <2>1. /\ p.alive > One(p.loop \in Living) /\ p' = [p EXCEPT !.alive = @ - 1]
        /\ One(p.loop \in Living) = IF p.loop \in Living THEN 1 ELSE 0
    BY <1>9 DEF OrphanEnds, Living, One
  <2>2. PICK n \in Nat : n = p.alive - 1 /\ (p.loop \in Living => n >= 1)
    BY <1>0, <2>1
  <2>3. Well(p') /\ p'.now = p.now /\ p'.status = p.status
    BY <2>1, <2>2 DEF Knows, Well, Fields
  <2> QED BY <1>1, <1>9, <2>3 DEF OrphanEnds, GoesOnPlaying
<1> DEFINE k == StopPlayback(p)
<1>10. k \in Fields(p.now) /\ k.kill = FALSE /\ k.loop = "none" /\ k.status = p.status
  BY <1>0, WellStopped
<1> HIDE DEF k
<1>11. CASE Leave
  <2>1. p' = [k EXCEPT !.now = NoTrack] /\ UNCHANGED q
    BY <1>11 DEF Leave, k
  <2>2. Well(p') /\ p'.now = NoTrack /\ p'.status = p.status
    BY <1>10, <2>1 DEF Well, Fields, Living
  <2> QED BY <1>1, <2>1, <2>2 DEF GoesOnPlaying
<1>12. CASE Disconnected
  <2>1. p' = [k EXCEPT !.status = "stopped", !.now = NoTrack] /\ UNCHANGED q
    BY <1>12 DEF Disconnected, k
  <2>2. Well(p') /\ p'.now = NoTrack /\ p'.status = "stopped"
    BY <1>10, <2>1 DEF Well, Fields, Living
  <2> QED BY <1>1, <2>1, <2>2 DEF GoesOnPlaying
<1>13. CASE Connected
  <2>1. p' = [p EXCEPT !.status = "connected"] /\ UNCHANGED q
    BY <1>13 DEF Connected
  <2>2. Well(p') /\ p'.now = p.now
    BY <2>1 DEF Knows, Well, Fields
  <2> QED BY <1>1, <1>13, <2>1, <2>2
<1>14. CASE ClientError
  <2>1. p' = [p EXCEPT !.status = "error"] /\ UNCHANGED q
    BY <1>14 DEF ClientError
  <2>2. Well(p') /\ p'.now = p.now /\ p'.status = "error"
    BY <2>1 DEF Knows, Well, Fields
  <2> QED BY <1>1, <2>1, <2>2 DEF GoesOnPlaying
<1>15. CASE PauseForIdle
  <2>1. Well(p') /\ p'.status = "paused" /\ p'.now = p.now
    BY <1>15, WellPaused DEF PauseForIdle, Knows
  <2> QED BY <1>1, <1>15, <2>1 DEF PauseForIdle, GoesOnPlaying
<1>16. CASE ResumeFromIdle
  <2>1. CASE p.status = "paused"
    <3>1. Well(p') /\ p'.status \in {"playing", "paused"} /\ p'.now \in {p.now, Station}
      BY <1>16, <2>1, WellResumed DEF ResumeFromIdle, Knows
    <3> QED BY <1>1, <1>16, <3>1 DEF ResumeFromIdle, GoesOnPlaying
  <2>2. CASE p.status # "paused"
    <3>1. p' = [p EXCEPT !.idle = FALSE]
      BY <1>16, <2>2 DEF ResumeFromIdle
    <3>2. Well(p') /\ p'.status = p.status /\ p'.now = p.now
      BY <3>1 DEF Knows, Well, Fields
    <3> QED BY <1>1, <1>16, <3>2 DEF ResumeFromIdle, GoesOnPlaying
  <2> QED BY <2>1, <2>2
<1>17. CASE Start
  <2>1. p' = [p EXCEPT !.status = "starting"] /\ UNCHANGED q
    BY <1>17 DEF Start
  <2>2. Well(p') /\ p'.now = p.now /\ p'.status = "starting"
    BY <2>1 DEF Knows, Well, Fields
  <2> QED BY <1>1, <2>1, <2>2 DEF GoesOnPlaying
<1>18. CASE StartFails
  BY <1>1, <1>18 DEF StartFails, Knows, GoesOnPlaying
<1> QED BY <1>2, <1>4, <1>5, <1>6, <1>7, <1>8, <1>9, <1>11, <1>12, <1>13, <1>14, <1>15, <1>16,
           <1>17, <1>18

------------------------------------------------------------------------------
(* The invariant of the bot and its queue: what is known is what was added, *)
(* no track is in two places, and the current one plays unless refused.     *)

Ledger ==
  /\ up \in {"up", "left", "down"} /\ starts \in Nat /\ repeat \in BOOLEAN
  /\ overtaken \in BOOLEAN /\ startedOver \in BOOLEAN /\ refused \in BOOLEAN
  /\ added \in 0 .. MaxTracks /\ commands \in 0 .. MaxCommands

PlayInv ==
  /\ Ledger
  /\ Knows(p, 1 .. added) /\ q \in Queues(1 .. added) /\ Once(q)
  /\ ~refused => Heard(p, q)

LEMMA PlayBegins == Init => PlayInv
<1> SUFFICES ASSUME Init PROVE PlayInv
  OBVIOUS
<1>1. Ledger
  <2>1. 0 \in 0 .. MaxTracks /\ 0 \in 0 .. MaxCommands
    BY PlayerAssumption
  <2>2. /\ up = "up" /\ starts = 0 /\ repeat = FALSE /\ overtaken = FALSE
        /\ startedOver = FALSE /\ refused = FALSE /\ added = 0 /\ commands = 0
    BY DEF Init
  <2> QED BY <2>1, <2>2 DEF Ledger
<1>2. Well(p) /\ p.now = NoTrack
  BY DEF Init, Well, Fields, Living
<1>3. q \in Queues(1 .. added) /\ Once(q) /\ q.hasCurrent = FALSE
  BY EmptyIsAQueue DEF Init, EmptyQueue
<1> QED BY <1>1, <1>2, <1>3 DEF PlayInv, Knows, Heard

LEMMA LedgerKept == Ledger /\ [Next]_vars => Ledger'
<1> SUFFICES ASSUME Ledger, [Next]_vars PROVE Ledger'
  OBVIOUS
<1> USE DEF Ledger
<1>1. ASSUME Command PROVE commands' \in 0 .. MaxCommands
  BY <1>1, PlayerAssumption DEF Command
<1>2. CASE Probed \/ Decodes \/ DecodeFails \/ TrackEnds \/ Opened \/ StreamCloses \/ OrphanEnds
           \/ ResumeFromIdle
  BY <1>2 DEF Probed, Decodes, DecodeFails, TrackEnds, Opened, StreamCloses, OrphanEnds,
              ResumeFromIdle, Rest
<1>3. CASE SetRepeat
  BY <1>1, <1>3 DEF SetRepeat
<1>4. ASSUME Refusal PROVE refused' \in BOOLEAN
  BY <1>4 DEF Refusal
<1>5. CASE Old
  BY <1>1, <1>4, <1>5 DEF Old
<1>6. CASE New
  <2>1. added' \in 0 .. MaxTracks
    BY <1>6, PlayerAssumption DEF New
  <2> QED BY <1>1, <1>4, <1>6, <2>1 DEF New
<1>7. CASE Leave \/ Disconnected \/ Start \/ Connected \/ StartFails \/ ClientError \/ PauseForIdle
  <2>1. CASE Leave \/ Disconnected \/ ClientError \/ PauseForIdle
    BY <1>1, <2>1 DEF Leave, Disconnected, ClientError, PauseForIdle
  <2>2. CASE Start
    BY <1>1, <2>2 DEF Start
  <2>3. ASSUME starts > 0 PROVE starts - 1 \in Nat
    BY <2>3
  <2>4. CASE StartFails
    BY <2>3, <2>4 DEF StartFails
  <2>5. CASE Connected
    <3>1. starts' \in Nat
      BY <2>3, <2>5 DEF Connected
    <3>2. startedOver' \in BOOLEAN
      BY <2>5, ZenonT(60) DEF Connected
    <3>3. up' \in {"up", "left", "down"}
      BY <2>5 DEF Connected
    <3> QED BY <2>5, <3>1, <3>2, <3>3 DEF Connected
  <2> QED BY <1>7, <2>1, <2>2, <2>4, <2>5
<1>8. CASE UNCHANGED vars
  BY <1>8 DEF vars
<1> QED BY <1>2, <1>3, <1>5, <1>6, <1>7, <1>8 DEF Next

\* A step keeps the invariant, and leaves no track waiting but in the ways NothingWaits names.
LEMMA PlayGoesOn ==
  ASSUME PlayInv, [Next]_vars
  PROVE  /\ PlayInv'
         /\ \/ GoesOnPlaying
            \/ StopAudio \/ DecodeFails \/ Opened \/ StreamCloses \/ Connected
            \/ PreviousSong /\ Current(q) = NoTrack
<1> DEFINE T == 1 .. added
           U == 1 .. added'
<1>1. /\ Ledger' /\ added \in Nat /\ T \subseteq Nat /\ NoTrack \notin T
      /\ Knows(p, T) /\ q \in Queues(T) /\ Once(q) /\ (~refused => Heard(p, q))
  BY LedgerKept, QueueAssumption DEF PlayInv, Ledger
<1>2. ASSUME U = T, Knows(p', T), Queued(T), ~refused' => Heard(p', q')
      PROVE  PlayInv'
  BY <1>1, <1>2 DEF PlayInv, Queued, Knows, Heard, Well, Once, Fields
<1>3. ASSUME Refusal, HeardStill PROVE ~refused' => Heard(p', q')
  BY <1>1, <1>3 DEF Refusal, HeardStill
<1>4. CASE Old
  <2>1. /\ Knows(p', T) /\ Queued(T) /\ HeardStill
        /\ StopAudio \/ (PreviousSong /\ Current(q) = NoTrack) \/ GoesOnPlaying
    BY <1>1, <1>4, OldTracks
  <2>2. U = T /\ Refusal
    BY <1>4 DEF Old
  <2> QED BY <1>2, <1>3, <2>1, <2>2
<1>5. CASE New
  <2>1. /\ added' = added + 1 /\ Refusal
        /\ PlayItem(added') \/ QueueItem(added') \/ LoadItem(added')
    BY <1>5 DEF New
  <2>2. U \subseteq Nat /\ T \subseteq U /\ added' \in U /\ added' \notin T
    BY <1>1, <2>1
  <2>3. Knows(p, U) /\ q \in Queues(U)
    BY <1>1, <2>2, MoreTracks DEF Knows
  <2>4. added' \notin Tracks(q)
    BY <1>1, <2>2, TracksOf
  <2> HIDE DEF T, U
  <2>5. Knows(p', U) /\ Queued(U) /\ HeardStill /\ GoesOnPlaying
    BY <2>1, <2>2, <2>3, <2>4, NewTrack
  <2>6. Knows(p', 1 .. added') /\ q' \in Queues(1 .. added') /\ Once(q')
    BY <1>1, <2>5 DEF Queued, U
  <2> QED BY <1>1, <1>3, <2>1, <2>5, <2>6 DEF PlayInv
<1>6. CASE Probed \/ Decodes \/ DecodeFails \/ TrackEnds \/ Opened \/ StreamCloses \/ OrphanEnds
           \/ Leave \/ Disconnected \/ Start \/ Connected \/ StartFails \/ ClientError
           \/ PauseForIdle \/ ResumeFromIdle
  <2>1. /\ Knows(p', T) /\ Queued(T) /\ (Heard(p, q) => Heard(p', q'))
        /\ DecodeFails \/ Opened \/ StreamCloses \/ Connected \/ GoesOnPlaying
    BY <1>1, <1>6, Otherwise
  <2>2. U = T /\ refused' = refused
    BY <1>6 DEF Probed, Decodes, DecodeFails, TrackEnds, Opened, StreamCloses, OrphanEnds,
                Leave, Disconnected, Start, Connected, StartFails, ClientError, PauseForIdle,
                ResumeFromIdle, Rest
  <2> QED BY <1>1, <1>2, <2>1, <2>2
<1>7. CASE SetRepeat \/ UNCHANGED vars
  <2>1. p' = p /\ q' = q /\ U = T /\ refused' = refused
    BY <1>7 DEF SetRepeat, vars
  <2>2. Knows(p', T) /\ Queued(T) /\ GoesOnPlaying /\ (~refused' => Heard(p', q'))
    BY <1>1, <2>1 DEF Queued, GoesOnPlaying
  <2> QED BY <1>2, <2>1, <2>2
<1> QED BY <1>4, <1>5, <1>6, <1>7 DEF Next

\* In every state the queue holds tracks that were added, each once, and the bot plays its
\* current one unless it was refused (VoiceBot and PlayQueue, all commands).
THEOREM PlayIsSound == Spec => []PlayInv
BY PlayBegins, PlayGoesOn, PTL DEF Spec

\* Every variable keeps its type, also when a station was opened late, and the queue has the
\* current track it says it has (PlayQueue, VoiceBot's fields).
THEOREM TypesKept == Spec => []TypeOK
<1>1. ASSUME PlayInv PROVE TypeOK
  <2>1. /\ Ledger /\ Knows(p, 1 .. added) /\ q \in Queues(1 .. added)
        /\ 1 .. added \subseteq TrackSet
    BY <1>1, PlayerAssumption DEF PlayInv, Ledger, TrackSet
  <2>2. p \in PlayerSet
    BY <2>1 DEF Knows, Well, Fields, PlayerSet
  <2>3. q \in Queues(TrackSet)
    BY <2>1, MoreTracks
  <2> QED BY <2>1, <2>2, <2>3 DEF TypeOK, Ledger, Queues, QueueSet
<1> QED BY <1>1, PlayIsSound, PTL

\* What plays is the queue's current track, whatever is inserted, removed, moved or shuffled
\* meanwhile, unless a bot that does not run refused it (play, next, previous, playNow, move).
THEOREM CurrentPlays == Spec => []PlaysCurrent
<1>1. ASSUME PlayInv PROVE PlaysCurrent
  <2>1. q.hasCurrent => Current(q) = Head(q.items)
    BY DEF Current
  <2>2. TrackSet \subseteq Nat
    BY DEF TrackSet
  <2> QED BY <1>1, <2>1, <2>2 DEF PlayInv, Heard, PlaysCurrent
<1> QED BY <1>1, PlayIsSound, PTL

\* No track is twice in a queue, nor in the queue and its history at once: stepping on and back,
\* moving and shuffling never double one (PlayQueue.next, previous, move, setShuffle).
THEOREM TracksOnce == Spec => []Once(q)
<1>1. PlayInv => Once(q)
  BY DEF PlayInv
<1> QED BY <1>1, PlayIsSound, PTL

\* A bot only comes to rest with tracks waiting where it was stopped or started, or where what it
\* played failed, was a radio station or could not be stepped back from (skip, the end of a track).
THEOREM NoneWaits == Spec => NothingWaits
<1>1. ASSUME PlayInv, [Next]_vars
      PROVE  [p'.status = "connected" /\ Upcoming(q') # <<>> =>
                \/ p.status = "connected" /\ Upcoming(q) # <<>>
                \/ StopAudio \/ DecodeFails \/ Opened \/ StreamCloses \/ Connected
                \/ PreviousSong /\ Current(q) = NoTrack]_vars
  BY <1>1, PlayGoesOn DEF GoesOnPlaying
<1> QED BY <1>1, PlayIsSound, PTL DEF Spec, NothingWaits
================================================================================
