-------------------------------- MODULE Player --------------------------------
(***************************************************************************)
(* What a music bot plays: songs from its queue, decoded by an ffmpeg each *)
(* while they play, or a radio station.  Commands come from the pages,     *)
(* chat and flows at any time, also while a song's length is looked up or  *)
(* a station is opened.  loopEpoch is modelled by what it decides: whether *)
(* what was begun is still wanted, or late.                                *)
(***************************************************************************)
EXTENDS PlayQueue

CONSTANTS
  Station,
  MaxTracks,     \* bound: tracks ever added
  MaxCommands    \* bound: commands, starts, lost connections, pauses for being alone

ASSUME PlayerAssumption ==
  /\ Station # NoTrack /\ Station \notin Nat
  /\ MaxTracks \in Nat /\ MaxCommands \in Nat

VARIABLES
  p,          \* the fields of VoiceBot that concern playback
  q,          \* its PlayQueue
  up,         \* the connection to TeamSpeak: up, left (it ends soon) or down
  starts,     \* starts of the bot that wait for the connection
  repeat,     \* repeat is "track"
  added,      \* history: tracks added so far
  overtaken,  \* history: a station was opened late
  startedOver,  \* history: since the last stop, a start ended over what was played or paused
  refused,    \* history: a track became current, but a bot that is not running did not play it
  commands    \* bound: commands so far

vars == <<p, q, up, starts, repeat, added, overtaken, startedOver, refused, commands>>

\* loop: what the current epoch decodes, a song's decoder that has given nothing yet or ended
\* included; kill: streamKill is set; alive: decoders that run; late: overtaken awaits.
Init ==
  /\ p = [status |-> "connected", now |-> NoTrack, radio |-> FALSE, station |-> FALSE,
          idle |-> FALSE, loop |-> "none", byPlay |-> FALSE, kill |-> FALSE, alive |-> 0,
          probe |-> FALSE, lateProbes |-> 0, open |-> FALSE, lateOpens |-> 0]
  /\ q = EmptyQueue /\ up = "up" /\ starts = 0 /\ repeat = FALSE
  /\ added = 0 /\ overtaken = FALSE /\ startedOver = FALSE /\ refused = FALSE /\ commands = 0

Running == p.status \in {"connected", "playing", "paused"}
One(b)  == IF b THEN 1 ELSE 0

------------------------------------------------------------------------------
(* Pieces the operations share *)

ClearTimer(r) ==
  [r EXCEPT !.loop = "none", !.probe = FALSE, !.lateProbes = @ + One(r.probe),
            !.open = FALSE, !.lateOpens = @ + One(r.open)]

StopDecoder(r) == [r EXCEPT !.kill = FALSE, !.alive = @ - One(r.kill)]

\* Mutant: a pause made by the rule is not forgotten.
StopPlaybackOnly(r) == [StopDecoder(ClearTimer(r)) EXCEPT !.station = FALSE, !.radio = FALSE]

StopPlayback(r) ==
  [StopDecoder(ClearTimer(r)) EXCEPT !.station = FALSE, !.idle = FALSE, !.radio = FALSE]

\* Mutant: the decoder that runs is not stopped.
StartSongBeside(r, byPlay) ==
  [ClearTimer(r) EXCEPT !.loop = "starting", !.byPlay = byPlay, !.kill = TRUE, !.alive = @ + 1]

StartSong(r, byPlay) ==
  [StopDecoder(ClearTimer(r)) EXCEPT !.loop = "starting", !.byPlay = byPlay,
                                     !.kill = TRUE, !.alive = @ + 1]

Refuses(r) == r.status \notin {"connected", "playing", "paused"}

\* The length of a song is known, or ffprobe is asked first.
Play(r, t) ==
  IF Refuses(r) THEN {r}
  ELSE LET s == [StopPlayback(r) EXCEPT !.now = t, !.status = "playing"]
       IN  {StartSong(s, TRUE), [s EXCEPT !.probe = TRUE]}

PlayStream(r) ==
  IF Refuses(r) THEN r
  ELSE [StopPlayback(r) EXCEPT !.now = Station, !.radio = TRUE, !.status = "playing", !.open = TRUE]

Silenced(r) == [StopPlayback(r) EXCEPT !.now = NoTrack, !.status = "connected"]

Paused(r) ==
  [StopDecoder(ClearTimer(r)) EXCEPT !.status = "paused", !.radio = @ /\ r.now = NoTrack,
                                     !.station = @ \/ (r.radio /\ r.now # NoTrack)]

Resumed(r) ==
  LET s == [r EXCEPT !.idle = FALSE] IN
  IF r.station THEN PlayStream([s EXCEPT !.station = FALSE])
  ELSE IF r.now = NoTrack THEN s
  ELSE StartSong([s EXCEPT !.status = "playing"], FALSE)

------------------------------------------------------------------------------
(* What was begun goes on *)

Rest == UNCHANGED <<up, starts, repeat, added, startedOver, refused, commands>>

\* Mutant: whoever asked for the length plays.
ProbedAnyway ==
  /\ \/ p.probe /\ p' = StartSong([p EXCEPT !.probe = FALSE], TRUE)
     \/ p.lateProbes > 0 /\ p' = StartSong([p EXCEPT !.lateProbes = @ - 1], TRUE)
  /\ UNCHANGED <<q, overtaken>> /\ Rest

Probed ==
  /\ \/ p.probe /\ p' = StartSong([p EXCEPT !.probe = FALSE], TRUE)
     \/ p.lateProbes > 0 /\ p' = [p EXCEPT !.lateProbes = @ - 1]
  /\ UNCHANGED <<q, overtaken>> /\ Rest

\* The first audio of a song; the end of its decoding, which may come without any.
Decodes ==
  /\ \/ p.loop = "starting" /\ p' = [p EXCEPT !.loop = "flowing"]
     \/ /\ p.loop \in {"starting", "flowing"}
        /\ p' = [p EXCEPT !.loop = "ended", !.kill = FALSE, !.alive = @ - 1]
  /\ UNCHANGED <<q, overtaken>> /\ Rest

\* ffmpeg fails before any audio: play gives up; after resume and seek nobody does anything.
DecodeFails ==
  /\ p.loop = "starting"
  /\ LET r == [p EXCEPT !.loop = "failed", !.kill = FALSE, !.alive = @ - 1] IN
       p' = IF p.byPlay THEN [r EXCEPT !.loop = "none", !.status = "connected", !.now = NoTrack]
            ELSE r
  /\ UNCHANGED <<q, overtaken>> /\ Rest

\* A queue step and what plays after it.
PlayFrom(r, queue) ==
  /\ q' = queue
  /\ IF Current(queue) = NoTrack THEN p' = r ELSE p' \in Play(r, Current(queue))

\* Mutant: the end of a track is the end.
TrackEndsThere ==
  /\ p.loop = "ended"
  /\ p' = [ClearTimer(p) EXCEPT !.now = NoTrack, !.status = "connected"]
  /\ UNCHANGED <<q, overtaken>> /\ Rest

TrackEnds ==
  /\ p.loop = "ended"
  /\ LET r == [ClearTimer(p) EXCEPT !.now = NoTrack, !.status = "connected"] IN
       IF repeat /\ p.now # NoTrack THEN p' \in Play(r, p.now) /\ UNCHANGED q
       ELSE PlayFrom(r, NextOf(q))
  /\ UNCHANGED overtaken /\ Rest

\* The station is open, whether it is still wanted or not.
OpenEnds(r) ==
  \/ p' = [ClearTimer(r) EXCEPT !.loop = "stream", !.kill = TRUE, !.alive = @ + 1]
  \/ p' = [r EXCEPT !.radio = FALSE, !.kill = FALSE, !.status = "connected", !.now = NoTrack]

Opened ==
  /\ \/ p.open /\ OpenEnds([p EXCEPT !.open = FALSE]) /\ UNCHANGED overtaken
     \/ p.lateOpens > 0 /\ OpenEnds([p EXCEPT !.lateOpens = @ - 1]) /\ overtaken' = TRUE
  /\ UNCHANGED q /\ Rest

StreamCloses ==
  /\ p.loop = "stream"
  /\ p' = [p EXCEPT !.loop = "none", !.radio = FALSE, !.kill = FALSE, !.alive = @ - 1,
                    !.now = NoTrack, !.status = "connected"]
  /\ UNCHANGED <<q, overtaken>> /\ Rest

\* A decoder nobody listens to any more comes to its end.
OrphanEnds ==
  /\ p.alive > One(p.loop \in {"starting", "flowing", "stream"})
  /\ p' = [p EXCEPT !.alive = @ - 1]
  /\ UNCHANGED <<q, overtaken>> /\ Rest

------------------------------------------------------------------------------
(* Commands *)

Command == commands < MaxCommands /\ commands' = commands + 1

Pause  == p.status = "playing" /\ p' = Paused(p) /\ UNCHANGED q
Resume == p.status = "paused" /\ p' = Resumed(p) /\ UNCHANGED q

\* Of a paused song only the position changes.
Seek ==
  /\ p.status = "playing" /\ p.now # NoTrack /\ ~p.radio /\ ~p.station
  /\ p' = StartSong(p, FALSE) /\ UNCHANGED q

\* The buttons, which do not ask whether the bot is connected.
Skip         == PlayFrom(Silenced(p), NextOf(q))
PreviousSong == PlayFrom(Silenced(p), Previous(q))

AudioStopped(r) ==
  [StopPlayback(r) EXCEPT !.now = NoTrack,
                          !.status = IF @ \in {"playing", "paused"} THEN "connected" ELSE @]
StopAudio == p' = AudioStopped(p) /\ UNCHANGED q

\* !skip and !prev.
ChatSkip ==
  /\ q' = NextOf(q)
  /\ IF Current(q') = NoTrack THEN p' = AudioStopped(p) ELSE p' \in Play(p, Current(q'))
ChatPrevious == PlayFrom(p, Previous(q))

\* Mutant: the track that is to be played now is put at the end.
PlayItemLast(t) == \E r \in Added(q, t) : q' = r /\ p' \in Play(p, t)

PlayItem(t) == q' = InsertNext(q, t) /\ p' \in Play(p, t)

\* Behind what plays, or at once when nothing does; of a bot that is not running, the routes add it
\* and chat fails to play it.
QueueItem(t) ==
  \/ p.status = "connected" /\ PlayItem(t)
  \/ p.status # "connected" /\ q' \in Added(q, t) /\ UNCHANGED p
  \/ Refuses(p) /\ PlayItem(t)

\* A flow or a playlist: added, then the next track if the bot is idle, or if the queue was cleared
\* for it.
LoadItem(t) ==
  \E clear \in BOOLEAN : \E r \in Added(IF clear THEN Cleared(q) ELSE q, t) :
    IF p.status = "connected" \/ (clear /\ ~Refuses(p)) THEN PlayFrom(p, NextOf(r))
    ELSE q' = r /\ UNCHANGED p

PlayIndex(i) == PlayFrom(p, PlayNow(q, i))

PlayRadio == ~Refuses(p) /\ p' = PlayStream(p) /\ UNCHANGED q

Reorder ==
  /\ q' \in Unshuffled(q) \cup Shuffled(q) \cup {Moved(q, i, j) : i, j \in Places(q)}
  /\ UNCHANGED p

RemoveItem == UNCHANGED p /\ \E i \in DOMAIN q.items : q' = Removed(q, i)
Clear      == UNCHANGED p /\ q' = Cleared(q)

SetRepeat ==
  /\ Command /\ repeat' = ~repeat
  /\ UNCHANGED <<p, q, up, starts, added, overtaken, startedOver, refused>>

Refusal == refused' = (refused \/ (Refuses(p) /\ Refuses(p') /\ Current(q') # Current(q)))

Old ==
  /\ \/ Pause \/ Resume \/ Seek \/ Skip \/ PreviousSong \/ StopAudio \/ ChatSkip \/ ChatPrevious
     \/ PlayRadio \/ Reorder \/ RemoveItem \/ Clear
     \/ \E i \in DOMAIN q.items : PlayIndex(i)
  /\ Command /\ Refusal /\ UNCHANGED <<up, starts, repeat, added, overtaken, startedOver>>

New ==
  /\ added < MaxTracks /\ added' = added + 1
  /\ PlayItem(added') \/ QueueItem(added') \/ LoadItem(added')
  /\ Command /\ Refusal /\ UNCHANGED <<up, starts, repeat, overtaken, startedOver>>

------------------------------------------------------------------------------
(* The connection, and being alone in the channel *)

\* The bot is stopped; its status changes only when the connection has ended.
Leave ==
  /\ up' = "left" /\ p' = [StopPlayback(p) EXCEPT !.now = NoTrack]
  /\ startedOver' = FALSE
  /\ Command /\ UNCHANGED <<q, starts, repeat, added, overtaken, refused>>

\* It also ends for a start that failed.
Disconnected ==
  /\ up' = "down" /\ startedOver' = FALSE
  /\ p' = [StopPlayback(p) EXCEPT !.status = "stopped", !.now = NoTrack]
  /\ IF up = "left" THEN UNCHANGED commands ELSE Command
  /\ UNCHANGED <<q, starts, repeat, added, overtaken, refused>>

\* Only a bot that does not pass for running is started; what it plays it goes on with.
Start ==
  /\ Refuses(p) /\ p' = [p EXCEPT !.status = "starting"] /\ starts' = starts + 1
  /\ Command /\ UNCHANGED <<q, up, repeat, added, overtaken, startedOver, refused>>

\* Something sounds or will sound, or is paused.
UnderWay(r) == r.loop # "none" \/ r.probe \/ r.open \/ r.now # NoTrack \/ r.idle \/ r.station

\* The connection stands; the status is overwritten, whatever was asked for meanwhile.
Connected ==
  /\ starts > 0 /\ starts' = starts - 1
  /\ up' = IF up = "left" THEN "left" ELSE "up"
  /\ p' = [p EXCEPT !.status = "connected"]
  /\ startedOver' = (startedOver \/ UnderWay(p))
  /\ UNCHANGED <<q, repeat, added, overtaken, refused, commands>>

StartFails ==
  /\ starts > 0 /\ starts' = starts - 1
  /\ UNCHANGED <<p, q, up, repeat, added, overtaken, startedOver, refused, commands>>

\* The socket reports an error, or the server refuses the bot; what plays goes on.
ClientError ==
  /\ up # "down" \/ starts > 0
  /\ p.status # "error" /\ p' = [p EXCEPT !.status = "error"]
  /\ Command /\ UNCHANGED <<q, up, starts, repeat, added, overtaken, startedOver, refused>>

PauseForIdle ==
  /\ p.status = "playing" /\ p' = [Paused(p) EXCEPT !.idle = TRUE]
  /\ Command /\ UNCHANGED <<q, up, starts, repeat, added, overtaken, startedOver, refused>>

ResumeFromIdle ==
  /\ p.idle /\ Running
  /\ p' = IF p.status = "paused" THEN Resumed(p) ELSE [p EXCEPT !.idle = FALSE]
  /\ UNCHANGED <<q, overtaken>> /\ Rest

Next ==
  \/ Probed \/ Decodes \/ DecodeFails \/ TrackEnds \/ Opened \/ StreamCloses \/ OrphanEnds
  \/ SetRepeat \/ Old \/ New
  \/ Leave \/ Disconnected \/ Start \/ Connected \/ StartFails \/ ClientError
  \/ PauseForIdle \/ ResumeFromIdle

Spec == Init /\ [][Next]_vars

\* ffprobe and opening a station end; what is decoded ends and is played; a connection left ends.
FairSpec ==
  /\ Spec /\ WF_vars(up = "left" /\ Disconnected)
  /\ WF_vars(Probed) /\ WF_vars(Decodes) /\ WF_vars(TrackEnds) /\ WF_vars(Opened)

------------------------------------------------------------------------------
(* Properties *)

TrackSet == 1 .. MaxTracks

PlayerSet ==
  [status : {"stopped", "starting", "connected", "playing", "paused", "error"},
   now : TrackSet \cup {Station, NoTrack}, radio : BOOLEAN, station : BOOLEAN, idle : BOOLEAN,
   loop : {"none", "starting", "flowing", "ended", "failed", "stream"}, byPlay : BOOLEAN,
   kill : BOOLEAN, alive : Nat, probe : BOOLEAN, lateProbes : Nat, open : BOOLEAN, lateOpens : Nat]

QueueSet ==
  [items : Seq(TrackSet), hasCurrent : BOOLEAN, history : Seq(TrackSet), shuffle : BOOLEAN]

\* Every variable keeps its type, and a current track is there.
TypeOK ==
  /\ p \in PlayerSet /\ q \in QueueSet
  /\ q.hasCurrent => q.items # <<>>
  /\ up \in {"up", "left", "down"} /\ starts \in Nat /\ repeat \in BOOLEAN
  /\ overtaken \in BOOLEAN /\ startedOver \in BOOLEAN /\ refused \in BOOLEAN
  /\ added \in 0 .. MaxTracks /\ commands \in 0 .. MaxCommands

\* Unless a station was opened late: there is at most the one decoder that is listened to, and
\* streamKill is the way to stop it.
OneDecoder ==
  ~overtaken => /\ p.alive = One(p.kill)
                /\ p.kill <=> p.loop \in {"starting", "flowing", "stream"}

\* Unless a station was opened late or a start ended over something, what the status says is what is
\* heard: a bot that plays and was not stopped has begun something, and one that is stopped, idle or
\* paused has nothing under way that would sound.
StatusIsHeard ==
  ~overtaken /\ ~startedOver =>
    /\ p.status = "playing" /\ up # "left" => p.probe \/ p.open \/ p.loop # "none"
    /\ p.status \in {"stopped", "connected", "paused"} => ~p.probe /\ ~p.open /\ p.loop = "none"
    /\ p.status \in {"stopped", "connected"} => p.now = NoTrack

\* A pause made by the rule, or of a station, is over when the bot is not paused any more, unless a
\* station was opened late or a start ended over it.
PauseIsAPause ==
  ~overtaken /\ ~startedOver => (p.idle \/ p.station => p.status \in {"paused", "error", "starting"})

\* Unless one was refused, the queue's current track is the one that plays, whatever was inserted,
\* removed or moved meanwhile.
PlaysCurrent ==
  p.status \in {"playing", "paused"} /\ p.now \in TrackSet /\ q.hasCurrent /\ ~refused =>
    Head(q.items) = p.now

\* A bot only comes to rest with tracks waiting when it was stopped or is started, when what it
\* played failed, when a radio station ended, or when there was nothing to step back to.
NothingWaits ==
  [][p'.status = "connected" /\ Upcoming(q') # <<>> =>
       \/ p.status = "connected" /\ Upcoming(q) # <<>>
       \/ StopAudio \/ DecodeFails \/ Opened \/ StreamCloses \/ Connected
       \/ PreviousSong /\ Current(q) = NoTrack]_vars

\* Left alone, a bot plays its queue to the end: it only goes on with a radio station, with repeat, or
\* as one whose decoder failed after a resume or a seek.
QueueEnds == <>[](p.status = "playing" => p.loop \in {"stream", "failed"} \/ repeat)
================================================================================
